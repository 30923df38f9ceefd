--------------------------- MODULE NamespaceCache ---------------------------
(****************************************************************************)
(* OpcUaClient::updateNamespaceCache and what it calls: the server's        *)
(* namespace table is read again, the two caches are rebuilt, and a reset   *)
(* is requested if an entry of the old cache is no longer there.            *)
(*                                                                          *)
(* It runs on the connect thread after a session was established            *)
(* (on_connected) and on the threads that use the session, after a request  *)
(* went wrong (Browse, TranslateBrowsePath, Subscribe).  Only the read and  *)
(* the clearing of the caches hold m_clientMutex; Subscribe holds it all    *)
(* the time.  Everything else is unprotected, so each access to one of the  *)
(* two maps is an action of its own.  The copy of m_indexToUriCache at the  *)
(* beginning and the comparison at the end look at many entries, in one     *)
(* action each: what they find decides only about the reset, which the      *)
(* properties about overlapping updates do not look at.                     *)
(*                                                                          *)
(* Indices count from 1 here, and 0 or NoUri stand for a missing entry.     *)
(****************************************************************************)
EXTENDS Naturals, Sequences

CONSTANTS
    ConnectThread,
    Workers,       \* main and update thread
    NoThread,      \* nobody holds m_clientMutex
    Uris,
    NoUri,
    Tables,        \* namespace tables the server may have
    MaxIndex,      \* length of the longest of them
    MaxChanges     \* bound: changes of the table and reads that fail

Threads == Workers \cup {ConnectThread}
Index == 1 .. MaxIndex

ASSUME NamespaceAssumption ==
    /\ ConnectThread \notin Workers
    /\ NoThread \notin Threads
    /\ NoUri \notin Uris
    /\ MaxIndex \in Nat
    /\ Tables \subseteq Seq(Uris)
    /\ Tables # {}
    /\ \A t \in Tables : Len(t) <= MaxIndex
    /\ MaxChanges \in Nat

VARIABLES
    table,              \* the server's namespace table
    changes,            \* how often it changed or could not be read
    m_isConnected,
    m_clientMutex,      \* its owner
    namespaceArray,     \* OpcUaWrapper: the table as last read
    m_uriToIndexCache,
    m_indexToUriCache,
    reset,              \* Main.cpp: a reset was requested
    \* updateNamespaceCache as executed by each thread.
    pc,
    underLock,          \* called by Subscribe, which holds the mutex
    existingIndexToUri,
    uaNamespaces,
    i,
    \* History of this client: the entries it ever had between two updates;
    \* whether two updates ever ran at the same time; and whether this happened
    \* since the last time no update ran.
    used, overlapped, crowded

sharedVars == <<m_isConnected, m_clientMutex, namespaceArray,
                m_uriToIndexCache, m_indexToUriCache, reset>>
localVars == <<pc, underLock, existingIndexToUri, uaNamespaces, i>>
historyVars == <<used, overlapped, crowded>>
vars == <<table, changes, sharedVars, localVars, historyVars>>

NoEntries == [n \in Index |-> NoUri]
NoIndices == [u \in Uris |-> 0]
Entries(cache) == {<<n, cache[n]>> : n \in {k \in Index : cache[k] # NoUri}}

Places == {"idle", "copied", "reading", "clearing", "cleared", "fill",
           "missing", "stored"}

Arrays == {a \in Seq(Uris) : Len(a) <= MaxIndex}

TypeOK ==
    /\ table \in Tables
    /\ changes \in 0 .. MaxChanges
    /\ m_isConnected \in BOOLEAN
    /\ m_clientMutex \in Threads \cup {NoThread}
    /\ namespaceArray \in Tables \cup {<<>>}
    /\ m_uriToIndexCache \in [Uris -> 0 .. MaxIndex]
    /\ m_indexToUriCache \in [Index -> Uris \cup {NoUri}]
    /\ reset \in BOOLEAN
    /\ pc \in [Threads -> Places]
    /\ underLock \in [Threads -> BOOLEAN]
    /\ existingIndexToUri \in [Threads -> [Index -> Uris \cup {NoUri}]]
    /\ uaNamespaces \in [Threads -> Arrays]
    /\ i \in [Threads -> 1 .. MaxIndex + 1]
    /\ used \subseteq Index \X Uris
    /\ overlapped \in BOOLEAN
    /\ crowded \in BOOLEAN

\* A client before its first connect.
ClientInit ==
    /\ m_isConnected = FALSE
    /\ m_clientMutex = NoThread
    /\ namespaceArray = <<>>
    /\ m_uriToIndexCache = NoIndices
    /\ m_indexToUriCache = NoEntries
    /\ reset = FALSE
    /\ pc = [t \in Threads |-> "idle"]
    /\ underLock = [t \in Threads |-> FALSE]
    /\ existingIndexToUri = [t \in Threads |-> NoEntries]
    /\ uaNamespaces = [t \in Threads |-> <<>>]
    /\ i = [t \in Threads |-> 1]
    /\ used = {}
    /\ overlapped = FALSE
    /\ crowded = FALSE

Init == table \in Tables /\ changes = 0 /\ ClientInit

Active == {t \in Threads : pc[t] # "idle"}
Free(t) == m_clientMutex \in {t, NoThread}

-----------------------------------------------------------------------------
(* The server and the session. *)

TableChange(newTable) ==
    /\ changes < MaxChanges
    /\ newTable # table
    /\ table' = newTable
    /\ changes' = changes + 1
    /\ UNCHANGED <<sharedVars, localVars, historyVars>>

\* checkConnection finds the session closed.
ConnectionLost ==
    /\ m_isConnected
    /\ m_isConnected' = FALSE
    /\ UNCHANGED <<table, changes, m_clientMutex, namespaceArray,
                   m_uriToIndexCache, m_indexToUriCache, reset, localVars,
                   historyVars>>

-----------------------------------------------------------------------------
(* updateNamespaceCache. *)

\* Its first line: the copy of the old cache.
StartUpdate(t, holding) ==
    /\ pc[t] = "idle"
    /\ pc' = [pc EXCEPT ![t] = "copied"]
    /\ existingIndexToUri' = [existingIndexToUri EXCEPT
                                ![t] = m_indexToUriCache]
    /\ underLock' = [underLock EXCEPT ![t] = holding]
    /\ overlapped' = (overlapped \/ Active # {})
    /\ crowded' = (Active # {})
    /\ UNCHANGED <<table, changes, namespaceArray, m_uriToIndexCache,
                   m_indexToUriCache, reset, uaNamespaces, i, used>>

\* connect and connectionStatusChanged(RUNNING).
on_connected ==
    /\ ~m_isConnected
    /\ Free(ConnectThread)
    /\ m_isConnected' = TRUE
    /\ StartUpdate(ConnectThread, FALSE)
    /\ UNCHANGED m_clientMutex

\* A bad status in Browse or TranslateBrowsePathToNodeId.
BadStatus(t) ==
    /\ m_isConnected
    /\ StartUpdate(t, FALSE)
    /\ UNCHANGED <<m_isConnected, m_clientMutex>>

\* An exception in Subscribe.
SubscribeFailed(t) ==
    /\ m_isConnected
    /\ m_clientMutex = NoThread
    /\ m_clientMutex' = t
    /\ StartUpdate(t, TRUE)
    /\ UNCHANGED m_isConnected

\* initializeNamespaceCache locks the mutex; SessionUpdateNamespaceTable
\* clears the array and sends the request ...
SessionUpdateNamespaceTable(t) ==
    /\ pc[t] = "copied"
    /\ Free(t)
    /\ m_clientMutex' = t
    /\ namespaceArray' = <<>>
    /\ pc' = [pc EXCEPT ![t] = "reading"]
    /\ UNCHANGED <<table, changes, m_isConnected, m_uriToIndexCache,
                   m_indexToUriCache, reset, underLock, existingIndexToUri,
                   uaNamespaces, i, historyVars>>

\* ... whose answer is stored, or is missing; then the caches are cleared, one
\* after the other.
initializeNamespaceCache(t) ==
    /\ pc[t] = "reading"
    /\ \/ namespaceArray' = table /\ UNCHANGED changes
       \/ /\ changes < MaxChanges
          /\ changes' = changes + 1
          /\ UNCHANGED namespaceArray
    /\ m_uriToIndexCache' = NoIndices
    /\ pc' = [pc EXCEPT ![t] = "clearing"]
    /\ UNCHANGED <<table, m_isConnected, m_clientMutex, m_indexToUriCache, reset,
                   underLock, existingIndexToUri, uaNamespaces, i, historyVars>>

ClearIndexToUri(t) ==
    /\ pc[t] = "clearing"
    /\ m_indexToUriCache' = NoEntries
    /\ m_clientMutex' = IF underLock[t] THEN t ELSE NoThread
    /\ pc' = [pc EXCEPT ![t] = "cleared"]
    /\ UNCHANGED <<table, changes, m_isConnected, namespaceArray,
                   m_uriToIndexCache, reset, underLock, existingIndexToUri,
                   uaNamespaces, i, historyVars>>

\* The copy of the array has its first entries only if another thread is about
\* to append the others.
SessionGetNamespaceTable(t) ==
    /\ pc[t] = "cleared"
    /\ \/ uaNamespaces' = [uaNamespaces EXCEPT ![t] = namespaceArray]
       \/ /\ \E s \in Threads : pc[s] = "reading"
          /\ \E k \in 0 .. Len(table) :
                uaNamespaces' = [uaNamespaces EXCEPT ![t] = SubSeq(table, 1, k)]
    /\ i' = [i EXCEPT ![t] = 1]
    /\ pc' = [pc EXCEPT ![t] = "fill"]
    /\ UNCHANGED <<table, changes, sharedVars, underLock, existingIndexToUri,
                   historyVars>>

\* Faulty variant: the first namespace is left out.
SkipsFirst(t) == i[t] > 1 /\ m_uriToIndexCache[uaNamespaces[t][i[t]]] = 0

\* The URI of this round is not in the cache yet.
NewInCache(t) == m_uriToIndexCache[uaNamespaces[t][i[t]]] = 0

StoredIndex(t) == i[t]

\* A round of the loop looks for the URI ...
fillNamespaceCache(t) ==
    /\ pc[t] = "fill"
    /\ i[t] <= Len(uaNamespaces[t])
    /\ IF NewInCache(t)
         THEN pc' = [pc EXCEPT ![t] = "missing"] /\ UNCHANGED i
         ELSE i' = [i EXCEPT ![t] = @ + 1] /\ UNCHANGED pc
    /\ UNCHANGED <<table, changes, sharedVars, underLock, existingIndexToUri,
                   uaNamespaces, historyVars>>

\* ... and, if it was missing then, stores it in one cache and in the other.
StoreIndex(t) ==
    /\ pc[t] = "missing"
    /\ m_uriToIndexCache' = [m_uriToIndexCache EXCEPT
                                ![uaNamespaces[t][i[t]]] = StoredIndex(t)]
    /\ pc' = [pc EXCEPT ![t] = "stored"]
    /\ UNCHANGED <<table, changes, m_isConnected, m_clientMutex,
                   namespaceArray, m_indexToUriCache, reset, underLock,
                   existingIndexToUri, uaNamespaces, i, historyVars>>

StoreUri(t) ==
    /\ pc[t] = "stored"
    /\ m_indexToUriCache' = [m_indexToUriCache EXCEPT
                                ![StoredIndex(t)] = uaNamespaces[t][i[t]]]
    /\ i' = [i EXCEPT ![t] = @ + 1]
    /\ pc' = [pc EXCEPT ![t] = "fill"]
    /\ UNCHANGED <<table, changes, m_isConnected, m_clientMutex,
                   namespaceArray, m_uriToIndexCache, reset, underLock,
                   existingIndexToUri, uaNamespaces, historyVars>>

\* Faulty variant: only the presence of the index is verified.
IndexStillThere(old) ==
    \A n \in Index : old[n] # NoUri => m_indexToUriCache[n] # NoUri

verifyCompatibleNamespaceCache(old) ==
    \A n \in Index : old[n] # NoUri => m_indexToUriCache[n] = old[n]

\* The rest of updateNamespaceCache, and the return to the caller.  When no
\* other update runs, the cache is what the client works with from now on.
FinishUpdate(t) ==
    /\ pc[t] = "fill"
    /\ i[t] > Len(uaNamespaces[t])
    /\ reset' =
         (reset \/ ~verifyCompatibleNamespaceCache(existingIndexToUri[t]))
    /\ pc' = [pc EXCEPT ![t] = "idle"]
    /\ underLock' = [underLock EXCEPT ![t] = FALSE]
    /\ m_clientMutex' = IF underLock[t] THEN NoThread ELSE m_clientMutex
    /\ existingIndexToUri' = [existingIndexToUri EXCEPT ![t] = NoEntries]
    /\ uaNamespaces' = [uaNamespaces EXCEPT ![t] = <<>>]
    /\ i' = [i EXCEPT ![t] = 1]
    /\ used' = IF Active = {t} THEN used \cup Entries(m_indexToUriCache)
                               ELSE used
    /\ UNCHANGED <<table, changes, m_isConnected, namespaceArray,
                   m_uriToIndexCache, m_indexToUriCache, overlapped, crowded>>

-----------------------------------------------------------------------------
NewClient ==
    /\ m_isConnected' = FALSE
    /\ m_clientMutex' = NoThread
    /\ namespaceArray' = <<>>
    /\ m_uriToIndexCache' = NoIndices
    /\ m_indexToUriCache' = NoEntries
    /\ reset' = FALSE
    /\ pc' = [t \in Threads |-> "idle"]
    /\ underLock' = [t \in Threads |-> FALSE]
    /\ existingIndexToUri' = [t \in Threads |-> NoEntries]
    /\ uaNamespaces' = [t \in Threads |-> <<>>]
    /\ i' = [t \in Threads |-> 1]
    /\ used' = {}
    /\ overlapped' = FALSE
    /\ crowded' = FALSE
    /\ UNCHANGED <<table, changes>>

\* main's loop: the old client is destroyed, its threads are joined, and a new
\* one is constructed.
Restart ==
    /\ reset
    /\ Active = {}
    /\ NewClient

\* The caches are read everywhere, to convert NodeIds, without the mutex: an
\* access that meets an update may crash.  The process is started anew.
CacheTorn ==
    /\ Active # {}
    /\ NewClient

Next ==
    \/ \E newTable \in Tables : TableChange(newTable)
    \/ ConnectionLost
    \/ on_connected
    \/ \E t \in Workers : BadStatus(t) \/ SubscribeFailed(t)
    \/ \E t \in Threads : \/ SessionUpdateNamespaceTable(t)
                          \/ initializeNamespaceCache(t)
                          \/ ClearIndexToUri(t)
                          \/ SessionGetNamespaceTable(t)
                          \/ fillNamespaceCache(t)
                          \/ StoreIndex(t)
                          \/ StoreUri(t)
                          \/ FinishUpdate(t)
    \/ Restart
    \/ CacheTorn

Spec == Init /\ [][Next]_vars

-----------------------------------------------------------------------------
(* Properties. *)

\* "Verifies, that no namespace has been removed, or reordered"
\* (OpcUaClient.hpp:98), over any number of updates, changes of the table,
\* failed reads and lost sessions: an entry the client ever worked with is
\* still in the cache, or a reset has been requested.  This holds for a client
\* in which no two updates have run at once; a second one can compare with a
\* cache that the first has just cleared.
NamespaceChangeDetected ==
    Active = {} /\ ~overlapped /\ ~reset
        => used \subseteq Entries(m_indexToUriCache)

\* The index of a URI in the table, as a set.
IndexOf(u) == {n \in 1 .. Len(table) : table[n] = u}

\* What updates that run at once leave behind, as long as the table has not
\* changed, names no URI twice and could be read, and however the steps of one
\* fell into those of the other: when the last one returns, m_uriToIndexCache is
\* complete and right, and m_indexToUriCache has nothing wrong.  The latter may
\* lack entries, since a round that falls between the two clearings leaves its
\* entry in the other cache only, where later rounds find it; the next update
\* that runs alone completes it.
UnchangedTableSettles ==
    /\ changes = 0
    /\ \A u \in Uris : \A n, k \in IndexOf(u) : n = k
    /\ Active = {}
    /\ m_isConnected
    => /\ \A u \in Uris :
            /\ m_uriToIndexCache[u] # 0 <=> IndexOf(u) # {}
            /\ \A n \in IndexOf(u) :
                  /\ m_uriToIndexCache[u] = n
                  /\ m_indexToUriCache[n] = u \/ crowded
       /\ \A n \in Index : m_indexToUriCache[n] # NoUri =>
                              n \in IndexOf(m_indexToUriCache[n])
=============================================================================
