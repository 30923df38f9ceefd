------------------------ MODULE NamespaceCacheProofs ------------------------
(****************************************************************************)
(* For every set of threads and of tables, and every number of changes:     *)
(* types are kept, a client in which no two updates ran at once misses no   *)
(* incompatible change of the namespace table, and updates of an unchanged  *)
(* table that do run at once leave nothing wrong in the caches, and the one *)
(* by URI complete.                                                         *)
(*                                                                          *)
(* During an update the cache says nothing: it is cleared.  What the client *)
(* has worked with is then held by the copy of the one running update; what *)
(* is missing from an unchanged table is still ahead of some thread.        *)
(****************************************************************************)
EXTENDS NamespaceCache, SequenceTheorems, TLAPS

\* While updates have not overlapped, at most one thread runs one.
OneUpdate == ~overlapped => \A s, t \in Active : s = t

\* Between updates the cache, during one its copy has all entries used so far.
UsedKept ==
    ~overlapped /\ ~reset =>
        /\ Active = {} => used \subseteq Entries(m_indexToUriCache)
        /\ \A t \in Active : used \subseteq Entries(existingIndexToUri[t])

\* A round of the loop is about an entry of the thread's array.
InRange ==
    \A t \in Threads :
        pc[t] \in {"missing", "stored"} => i[t] <= Len(uaNamespaces[t])

IndInv == TypeOK /\ InRange /\ OneUpdate /\ UsedKept

\* The table is the one of the first connect, could always be read, and names
\* no URI twice.
Steady ==
    /\ changes = 0
    /\ \A u \in Uris : \A n, k \in IndexOf(u) : n = k

\* The mutex belongs to the thread that reads the table, and to the one whose
\* Subscribe took it.
MutexHeld ==
    \A t \in Threads :
        /\ pc[t] \in {"reading", "clearing"} => m_clientMutex = t
        /\ underLock[t] => m_clientMutex = t /\ pc[t] # "idle"

\* What the caches have is in the table.
CachesSound ==
    /\ \A u \in Uris : m_uriToIndexCache[u] # 0 =>
                           m_uriToIndexCache[u] \in IndexOf(u)
    /\ \A n \in Index : m_indexToUriCache[n] # NoUri =>
                           n \in IndexOf(m_indexToUriCache[n])

\* The array was read from the table, unless a thread is about to read it.
ArrayRead ==
    \/ namespaceArray = table
    \/ \A t \in Threads : pc[t] \notin {"clearing", "cleared"}
    \/ \E t \in Threads : pc[t] = "reading"

\* The array is the table or empty, and each copy of it is a prefix of the table.
Copies ==
    /\ namespaceArray \in {<<>>, table}
    /\ \A t \in Threads :
          /\ Len(uaNamespaces[t]) <= Len(table)
          /\ \A n \in 1 .. Len(uaNamespaces[t]) : uaNamespaces[t][n] = table[n]

\* Some thread has yet to clear the caches.
Unread == \E t \in Threads : pc[t] \in {"copied", "reading"}

\* Thread t will come to entry n of the table.
Ahead(t, n) ==
    \/ pc[t] \in {"clearing", "cleared"}
    \/ /\ Len(uaNamespaces[t]) = Len(table)
       /\ \/ pc[t] \in {"fill", "missing"} /\ i[t] <= n
          \/ pc[t] = "stored" /\ i[t] < n

\* A URI that has no index is ahead of some thread.
MissingIsAhead ==
    m_isConnected /\ ~Unread =>
        \A n \in 1 .. Len(table) :
            \/ m_uriToIndexCache[table[n]] # 0
            \/ \E t \in Threads : Ahead(t, n)

\* As long as one thread updates alone, it clears both caches without
\* interruption, and then enters into both what it enters into one.
Paired ==
    ~crowded =>
        /\ \A t \in Threads : pc[t] = "clearing" => m_uriToIndexCache = NoIndices
        /\ ~Unread =>
              \A n \in 1 .. Len(table) :
                  \/ m_uriToIndexCache[table[n]] = 0
                  \/ m_indexToUriCache[n] = table[n]
                  \/ \E t \in Threads : pc[t] = "stored" /\ i[t] = n

Settling ==
    Steady => CachesSound /\ ArrayRead /\ Copies /\ MissingIsAhead /\ Paired

\* Unless updates overlap now, one runs.
OneNow == ~crowded => \A s, t \in Active : s = t

SettleInv == TypeOK /\ InRange /\ MutexHeld /\ OneNow /\ Settling

-----------------------------------------------------------------------------
\* verifyCompatibleNamespaceCache accepts exactly the old caches whose entries
\* are all in the new one.
LEMMA CompatibleIsSubset ==
    ASSUME NEW old, verifyCompatibleNamespaceCache(old)
    PROVE  Entries(old) \subseteq Entries(m_indexToUriCache)
BY DEF verifyCompatibleNamespaceCache, Entries

\* The empty caches are caches.
LEMMA EmptyCaches ==
    /\ NoIndices \in [Uris -> 0 .. MaxIndex]
    /\ NoEntries \in [Index -> Uris \cup {NoUri}]
<1>1. 0 \in 0 .. MaxIndex
  BY NamespaceAssumption
<1> QED
  BY <1>1 DEF NoIndices, NoEntries

\* A table and the array are sequences of URIs, and so are their prefixes.
LEMMA FilledFrom ==
    ASSUME NEW array \in Tables \cup {<<>>}
    PROVE  array \in Seq(Uris) /\ Len(array) <= MaxIndex /\ Len(array) \in Nat
<1>1. CASE array \in Tables
  <2>1. array \in Seq(Uris) /\ Len(array) <= MaxIndex
    BY <1>1, NamespaceAssumption
  <2> QED
    BY <2>1
<1>2. CASE array = <<>>
  BY <1>2, NamespaceAssumption
<1> QED
  BY <1>1, <1>2

LEMMA PrefixFacts ==
    ASSUME NEW s \in Seq(Uris), NEW k \in 0 .. Len(s)
    PROVE  /\ SubSeq(s, 1, k) \in Seq(Uris) /\ Len(SubSeq(s, 1, k)) = k
           /\ \A n \in 1 .. k : SubSeq(s, 1, k)[n] = s[n]
<1>1. Len(s) \in Nat /\ k \in 1 - 1 .. Len(s) /\ 1 \in 1 .. Len(s) + 1
  OBVIOUS
<1>2. /\ SubSeq(s, 1, k) \in Seq(Uris)
      /\ Len(SubSeq(s, 1, k)) = IF 1 <= k THEN k - 1 + 1 ELSE 0
      /\ \A n \in 1 .. k - 1 + 1 : SubSeq(s, 1, k)[n] = s[1 + n - 1]
  BY <1>1, SubSeqProperties
<1>3. \A n \in 1 .. k : n \in 1 .. k - 1 + 1 /\ 1 + n - 1 = n
  BY <1>1
<1> QED
  BY <1>1, <1>2, <1>3

\* The index of a round, and of the round after it.
LEMMA NextIndex ==
  ASSUME NEW m \in Nat, NEW n \in 1 .. m
  PROVE  n \in 0 .. m /\ n + 1 \in 1 .. m + 1
  OBVIOUS

\* Every step keeps the types of the variables.
LEMMA TypeStep == TypeOK /\ InRange /\ [Next]_vars => TypeOK'
<1> SUFFICES ASSUME TypeOK, InRange, [Next]_vars PROVE TypeOK'
  OBVIOUS
<1> USE NamespaceAssumption DEF TypeOK, sharedVars, localVars, historyVars,
        Threads, Index, Places, Arrays
<1>1. ASSUME NEW newTable \in Tables, TableChange(newTable) PROVE TypeOK'
  BY <1>1 DEF TableChange
<1>2. CASE ConnectionLost
  BY <1>2 DEF ConnectionLost
<1>3. CASE on_connected
  BY <1>3 DEF on_connected, StartUpdate
<1>4. ASSUME NEW t \in Workers, BadStatus(t) PROVE TypeOK'
  BY <1>4 DEF BadStatus, StartUpdate
<1>5. ASSUME NEW t \in Workers, SubscribeFailed(t) PROVE TypeOK'
  BY <1>5 DEF SubscribeFailed, StartUpdate
<1>6. ASSUME NEW t \in Threads, SessionUpdateNamespaceTable(t) PROVE TypeOK'
  BY <1>6 DEF SessionUpdateNamespaceTable
<1>7. ASSUME NEW t \in Threads, initializeNamespaceCache(t) PROVE TypeOK'
  <2>1. namespaceArray' \in Tables \cup {<<>>} /\ changes' \in 0 .. MaxChanges
    BY <1>7 DEF initializeNamespaceCache
  <2>2. pc' \in [Threads -> Places]
    BY <1>7 DEF initializeNamespaceCache
  <2> QED
    BY <1>7, <2>1, <2>2, EmptyCaches DEF initializeNamespaceCache
<1>8. ASSUME NEW t \in Threads, SessionGetNamespaceTable(t) PROVE TypeOK'
  <2>1. namespaceArray \in Arrays
    BY FilledFrom
  <2>2. \A k \in 0 .. Len(table) : SubSeq(table, 1, k) \in Arrays
    <3>1. table \in Seq(Uris) /\ Len(table) \in Nat /\ Len(table) <= MaxIndex
      BY FilledFrom
    <3> QED
      BY <3>1, PrefixFacts
  <2>3. PICK array \in Arrays : uaNamespaces' = [uaNamespaces EXCEPT ![t] = array]
    BY <1>8, <2>1, <2>2 DEF SessionGetNamespaceTable
  <2>4. uaNamespaces' \in [Threads -> Arrays]
    BY <2>3
  <2>5. pc' \in [Threads -> Places] /\ i' \in [Threads -> 1 .. MaxIndex + 1]
    BY <1>8 DEF SessionGetNamespaceTable
  <2> QED
    BY <1>8, <2>4, <2>5 DEF SessionGetNamespaceTable
<1>9. ASSUME NEW t \in Threads,
             fillNamespaceCache(t) \/ StoreIndex(t) \/ StoreUri(t)
      PROVE  TypeOK'
  <2>1. /\ uaNamespaces[t] \in Seq(Uris) /\ Len(uaNamespaces[t]) <= MaxIndex
        /\ i[t] \in 1 .. MaxIndex + 1 /\ i[t] <= Len(uaNamespaces[t])
    BY <1>9 DEF fillNamespaceCache, StoreIndex, StoreUri, InRange
  <2>2. i[t] \in 1 .. MaxIndex /\ uaNamespaces[t][i[t]] \in Uris
    BY <2>1
  <2>3. i[t] \in 0 .. MaxIndex /\ i[t] + 1 \in 1 .. MaxIndex + 1
    BY <2>2, NextIndex
  <2>4. CASE fillNamespaceCache(t)
    BY <2>3, <2>4 DEF fillNamespaceCache
  <2>5. CASE StoreIndex(t)
    BY <2>2, <2>3, <2>5 DEF StoreIndex, StoredIndex
  <2>6. CASE StoreUri(t)
    BY <2>2, <2>3, <2>6 DEF StoreUri, StoredIndex
  <2> QED
    BY <1>9, <2>4, <2>5, <2>6
<1>10. ASSUME NEW t \in Threads, FinishUpdate(t) PROVE TypeOK'
  <2>1. Entries(m_indexToUriCache) \subseteq Index \X Uris
    BY DEF Entries
  <2>2. existingIndexToUri' \in [Threads -> [Index -> Uris \cup {NoUri}]]
    BY <1>10, EmptyCaches DEF FinishUpdate
  <2>3. /\ uaNamespaces' \in [Threads -> Arrays] /\ pc' \in [Threads -> Places]
        /\ i' \in [Threads -> 1 .. MaxIndex + 1]
    <3>1. <<>> \in Arrays /\ 1 \in 1 .. MaxIndex + 1
      OBVIOUS
    <3> QED
      BY <1>10, <3>1 DEF FinishUpdate
  <2> QED
    BY <1>10, <2>1, <2>2, <2>3 DEF FinishUpdate
<1>11. CASE NewClient
  <2>1. 1 \in 1 .. MaxIndex + 1 /\ <<>> \in Arrays /\ "idle" \in Places
    OBVIOUS
  <2>2. /\ uaNamespaces' \in [Threads -> Arrays] /\ pc' \in [Threads -> Places]
        /\ i' \in [Threads -> 1 .. MaxIndex + 1]
        /\ existingIndexToUri' \in [Threads -> [Index -> Uris \cup {NoUri}]]
    BY <1>11, <2>1, EmptyCaches DEF NewClient
  <2> QED
    BY <1>11, <2>2, EmptyCaches DEF NewClient
<1>12. CASE UNCHANGED vars
  BY <1>12 DEF vars
<1>13. ASSUME NEW t \in Threads, ClearIndexToUri(t) PROVE TypeOK'
  BY <1>13, EmptyCaches DEF ClearIndexToUri
<1> QED
  BY <1>1, <1>2, <1>3, <1>4, <1>5, <1>6, <1>7, <1>8, <1>9, <1>10, <1>11,
     <1>12, <1>13 DEF Next, Restart, CacheTorn

\* Every step keeps the range of the loop.
LEMMA RangeStep == TypeOK /\ InRange /\ [Next]_vars => InRange'
<1> SUFFICES ASSUME TypeOK, InRange, [Next]_vars PROVE InRange'
  OBVIOUS
<1> USE DEF InRange
<1>1. ASSUME NEW t \in Threads, pc'[t] \notin {"missing", "stored"},
             \A s \in Threads \ {t} : /\ pc'[s] = pc[s] /\ i'[s] = i[s]
                                      /\ uaNamespaces'[s] = uaNamespaces[s]
      PROVE  InRange'
  BY <1>1
<1>2. ASSUME UNCHANGED <<pc, i, uaNamespaces>> PROVE InRange'
  BY <1>2
<1>3. ASSUME NEW t \in Threads, NEW holding \in BOOLEAN, StartUpdate(t, holding)
      PROVE  InRange'
  BY <1>1, <1>3 DEF StartUpdate, TypeOK
<1>4. ASSUME NEW t \in Threads,
             \/ SessionUpdateNamespaceTable(t) \/ initializeNamespaceCache(t)
             \/ ClearIndexToUri(t) \/ StoreUri(t)
      PROVE  InRange'
  BY <1>1, <1>4 DEF SessionUpdateNamespaceTable, initializeNamespaceCache,
     ClearIndexToUri, StoreUri, TypeOK
<1>5. ASSUME NEW t \in Threads, SessionGetNamespaceTable(t) PROVE InRange'
  <2>1. PICK array : uaNamespaces' = [uaNamespaces EXCEPT ![t] = array]
    BY <1>5 DEF SessionGetNamespaceTable
  <2> QED
    BY <1>1, <1>5, <2>1 DEF SessionGetNamespaceTable, TypeOK
<1>6. ASSUME NEW t \in Threads, FinishUpdate(t) PROVE InRange'
  BY <1>1, <1>6 DEF FinishUpdate, TypeOK
<1>7. ASSUME NEW t \in Threads, fillNamespaceCache(t) PROVE InRange'
  <2>1. i[t] <= Len(uaNamespaces[t]) /\ pc[t] = "fill" /\ UNCHANGED uaNamespaces
    BY <1>7 DEF fillNamespaceCache
  <2>2. CASE NewInCache(t)
    BY <1>7, <2>1, <2>2 DEF fillNamespaceCache, TypeOK
  <2>3. CASE ~NewInCache(t)
    BY <1>1, <1>7, <2>1, <2>3 DEF fillNamespaceCache, TypeOK
  <2> QED
    BY <2>2, <2>3
<1>8. ASSUME NEW t \in Threads, StoreIndex(t) PROVE InRange'
  BY <1>8 DEF StoreIndex, TypeOK
<1>9. CASE NewClient
  BY <1>9 DEF NewClient
<1>10. ASSUME NEW newTable \in Tables, TableChange(newTable) PROVE InRange'
  BY <1>2, <1>10 DEF TableChange, localVars
<1>11. CASE ConnectionLost
  BY <1>2, <1>11 DEF ConnectionLost, localVars
<1>12. CASE on_connected
  BY <1>3, <1>12 DEF on_connected, Threads
<1>13. ASSUME NEW t \in Workers, BadStatus(t) \/ SubscribeFailed(t) PROVE InRange'
  BY <1>3, <1>13 DEF BadStatus, SubscribeFailed, Threads
<1>14. CASE UNCHANGED vars
  BY <1>2, <1>14 DEF vars, localVars
<1> QED
  BY <1>4, <1>5, <1>6, <1>7, <1>8, <1>9, <1>10, <1>11, <1>12, <1>13, <1>14
     DEF Next, Restart, CacheTorn

\* Every step keeps the two parts that speak about the running update.
LEMMA UpdateStep == IndInv /\ [Next]_vars => (OneUpdate /\ UsedKept)'
<1> SUFFICES ASSUME IndInv, [Next]_vars PROVE (OneUpdate /\ UsedKept)'
  OBVIOUS
<1> USE DEF IndInv, OneUpdate, UsedKept, Active
<1>1. ASSUME NEW t \in Threads, NEW holding \in BOOLEAN,
             StartUpdate(t, holding)
      PROVE  (OneUpdate /\ UsedKept)'
  <2>1. pc' = [pc EXCEPT ![t] = "copied"] /\ pc[t] = "idle"
    BY <1>1 DEF StartUpdate
  <2>2. Active' = Active \cup {t}
    BY <2>1 DEF TypeOK
  <2>3. ASSUME ~overlapped' PROVE Active = {} /\ ~overlapped
    BY <1>1, <2>3 DEF StartUpdate
  <2>4. existingIndexToUri'[t] = m_indexToUriCache
    BY <1>1 DEF StartUpdate, TypeOK
  <2>5. UNCHANGED <<used, reset, m_indexToUriCache>>
    BY <1>1 DEF StartUpdate
  <2>6. OneUpdate'
    BY <2>2, <2>3
  <2>7. UsedKept'
    BY <2>2, <2>3, <2>4, <2>5 DEF Entries
  <2> QED
    BY <2>6, <2>7
<1>2. ASSUME NEW t \in Threads, pc[t] # "idle", pc'[t] # "idle",
             \A s \in Threads \ {t} : pc'[s] = pc[s],
             UNCHANGED <<used, reset, overlapped, existingIndexToUri>>
      PROVE  (OneUpdate /\ UsedKept)'
  <2>1. Active' = Active /\ Active # {}
    BY <1>2
  <2> QED
    BY <1>2, <2>1 DEF Entries
<1>3. ASSUME NEW t \in Threads, FinishUpdate(t)
      PROVE  (OneUpdate /\ UsedKept)'
  <2>1. t \in Active /\ Active' = Active \ {t}
    BY <1>3 DEF FinishUpdate, TypeOK
  <2>2. UNCHANGED <<overlapped, m_indexToUriCache>>
    BY <1>3 DEF FinishUpdate
  <2>3. OneUpdate'
    BY <2>1, <2>2
  <2>4. ASSUME ~overlapped, ~reset' PROVE used' \subseteq
               Entries(m_indexToUriCache)
    <3>1. ~reset /\ verifyCompatibleNamespaceCache(existingIndexToUri[t])
      BY <1>3, <2>4 DEF FinishUpdate
    <3>2. used \subseteq Entries(existingIndexToUri[t])
      BY <2>1, <2>4, <3>1
    <3>3. used \subseteq Entries(m_indexToUriCache)
      BY <3>1, <3>2, CompatibleIsSubset
    <3> QED
      BY <1>3, <3>3 DEF FinishUpdate
  <2>5. ~overlapped => Active' = {}
    BY <2>1
  <2>6. UsedKept'
    BY <2>2, <2>4, <2>5 DEF Entries
  <2> QED
    BY <2>3, <2>6
<1>4. CASE NewClient
  BY <1>4 DEF NewClient
<1>5. ASSUME UNCHANGED <<pc, used, overlapped, reset, m_indexToUriCache,
                         existingIndexToUri>>
      PROVE  (OneUpdate /\ UsedKept)'
  BY <1>5 DEF Entries
<1>6. ASSUME NEW newTable \in Tables, TableChange(newTable)
      PROVE  (OneUpdate /\ UsedKept)'
  BY <1>5, <1>6 DEF TableChange, sharedVars, localVars, historyVars
<1>7. CASE ConnectionLost
  BY <1>5, <1>7 DEF ConnectionLost, localVars, historyVars
<1>8. CASE on_connected
  BY <1>1, <1>8 DEF on_connected, Threads
<1>9. ASSUME NEW t \in Workers, BadStatus(t) \/ SubscribeFailed(t)
      PROVE  (OneUpdate /\ UsedKept)'
  BY <1>1, <1>9 DEF BadStatus, SubscribeFailed, Threads
<1>10. ASSUME NEW t \in Threads, SessionUpdateNamespaceTable(t)
       PROVE  (OneUpdate /\ UsedKept)'
  BY <1>2, <1>10 DEF SessionUpdateNamespaceTable, historyVars, TypeOK
<1>11. ASSUME NEW t \in Threads, initializeNamespaceCache(t)
       PROVE  (OneUpdate /\ UsedKept)'
  BY <1>2, <1>11 DEF initializeNamespaceCache, historyVars, TypeOK
<1>12. ASSUME NEW t \in Threads, SessionGetNamespaceTable(t)
       PROVE  (OneUpdate /\ UsedKept)'
  BY <1>2, <1>12 DEF SessionGetNamespaceTable, sharedVars, historyVars, TypeOK
<1>13. ASSUME NEW t \in Threads,
              \/ ClearIndexToUri(t) \/ fillNamespaceCache(t)
              \/ StoreIndex(t) \/ StoreUri(t)
       PROVE  (OneUpdate /\ UsedKept)'
  BY <1>2, <1>13 DEF ClearIndexToUri, fillNamespaceCache, StoreIndex, StoreUri,
     sharedVars, historyVars, TypeOK
<1>14. CASE UNCHANGED vars
  BY <1>5, <1>14 DEF vars, sharedVars, localVars, historyVars
<1> QED
  BY <1>3, <1>4, <1>6, <1>7, <1>8, <1>9, <1>10, <1>11, <1>12, <1>13, <1>14
     DEF Next, Restart, CacheTorn

\* Every step keeps the ownership of the mutex.
LEMMA MutexStep == TypeOK /\ MutexHeld /\ [Next]_vars => MutexHeld'
<1> SUFFICES ASSUME TypeOK, MutexHeld, [Next]_vars PROVE MutexHeld'
  OBVIOUS
<1> USE NamespaceAssumption DEF MutexHeld, Threads, TypeOK
<1>1. ASSUME UNCHANGED <<pc, underLock, m_clientMutex>> PROVE MutexHeld'
  BY <1>1
<1>2. ASSUME NEW newTable \in Tables, TableChange(newTable) PROVE MutexHeld'
  BY <1>1, <1>2 DEF TableChange, sharedVars, localVars
<1>3. CASE ConnectionLost
  BY <1>1, <1>3 DEF ConnectionLost, localVars
<1>4. CASE on_connected
  BY <1>4 DEF on_connected, StartUpdate
<1>5. ASSUME NEW t \in Workers, BadStatus(t) PROVE MutexHeld'
  BY <1>5 DEF BadStatus, StartUpdate
<1>6. ASSUME NEW t \in Workers, SubscribeFailed(t) PROVE MutexHeld'
  BY <1>6 DEF SubscribeFailed, StartUpdate
<1>7. ASSUME NEW t \in Threads, SessionUpdateNamespaceTable(t)
      PROVE  MutexHeld'
  BY <1>7 DEF SessionUpdateNamespaceTable, Free
<1>8. ASSUME NEW t \in Threads, initializeNamespaceCache(t) PROVE MutexHeld'
  BY <1>8 DEF initializeNamespaceCache
<1>9. ASSUME NEW t \in Threads, SessionGetNamespaceTable(t) PROVE MutexHeld'
  BY <1>9 DEF SessionGetNamespaceTable, sharedVars
<1>10. ASSUME NEW t \in Threads,
              \/ ClearIndexToUri(t) \/ fillNamespaceCache(t)
              \/ StoreIndex(t) \/ StoreUri(t)
       PROVE  MutexHeld'
  BY <1>10 DEF ClearIndexToUri, fillNamespaceCache, StoreIndex, StoreUri,
     sharedVars
<1>11. ASSUME NEW t \in Threads, FinishUpdate(t) PROVE MutexHeld'
  BY <1>11 DEF FinishUpdate
<1>12. CASE NewClient
  BY <1>12 DEF NewClient
<1>13. CASE UNCHANGED vars
  BY <1>1, <1>13 DEF vars, sharedVars, localVars
<1> QED
  BY <1>2, <1>3, <1>4, <1>5, <1>6, <1>7, <1>8, <1>9, <1>10, <1>11, <1>12,
     <1>13 DEF Next, Restart, CacheTorn

\* A steady table was steady before, and is the same.
LEMMA SteadyBefore ==
    TypeOK /\ [Next]_vars /\ Steady' => Steady /\ UNCHANGED <<table, changes>>
<1> SUFFICES ASSUME TypeOK, [Next]_vars, Steady'
             PROVE  Steady /\ UNCHANGED <<table, changes>>
  OBVIOUS
<1>1. changes' = 0 /\ changes \in Nat
  BY NamespaceAssumption DEF Steady, TypeOK
<1>2. UNCHANGED <<table, changes>>
  BY <1>1 DEF Next, TableChange, ConnectionLost, on_connected, BadStatus,
     SubscribeFailed, StartUpdate, SessionUpdateNamespaceTable,
     initializeNamespaceCache, ClearIndexToUri, SessionGetNamespaceTable,
     fillNamespaceCache, StoreIndex, StoreUri, FinishUpdate, Restart, CacheTorn, NewClient, vars
<1> QED
  BY <1>2 DEF Steady, IndexOf

\* The length of the table, and its entries.
LEMMA TableEntries ==
    ASSUME TypeOK
    PROVE  /\ Len(table) \in Nat /\ Len(table) <= MaxIndex
           /\ \A n \in 1 .. Len(table) : n \in Index /\ table[n] \in Uris
<1>1. table \in Seq(Uris) /\ Len(table) <= MaxIndex /\ Len(table) \in Nat
  BY FilledFrom DEF TypeOK
<1> QED
  BY <1>1, NamespaceAssumption DEF Index

\* A thread in a round of the loop is at an entry of the steady table.
LEMMA Round ==
    ASSUME TypeOK, InRange, Steady, Copies, NEW t \in Threads,
           \/ pc[t] \in {"missing", "stored"}
           \/ pc[t] = "fill" /\ i[t] <= Len(uaNamespaces[t])
    PROVE  /\ i[t] \in 1 .. Len(table) /\ i[t] \in Index /\ i[t] # 0
           /\ uaNamespaces[t][i[t]] = table[i[t]] /\ table[i[t]] \in Uris
           /\ i[t] \in IndexOf(table[i[t]])
           /\ \A k \in 1 .. Len(table) : k # i[t] => table[k] # table[i[t]]
<1>1. /\ i[t] \in 1 .. MaxIndex + 1 /\ i[t] <= Len(uaNamespaces[t])
      /\ Len(uaNamespaces[t]) \in Nat
  BY DEF InRange, TypeOK, Arrays
<1>2. i[t] \in 1 .. Len(uaNamespaces[t]) /\ i[t] \in 1 .. Len(table)
  BY <1>1, TableEntries DEF Copies
<1>3. i[t] \in Index /\ table[i[t]] \in Uris /\ i[t] # 0
  BY <1>2, TableEntries
<1>4. uaNamespaces[t][i[t]] = table[i[t]]
  BY <1>2 DEF Copies
<1>5. \A k \in 1 .. Len(table) : k # i[t] => table[k] # table[i[t]]
  BY <1>2, <1>3 DEF Steady, IndexOf
<1> QED
  BY <1>2, <1>3, <1>4, <1>5 DEF IndexOf

\* As long as nobody else began, the update that runs is the only one.
LEMMA OneNowStep == TypeOK /\ OneNow /\ [Next]_vars => OneNow'
<1> SUFFICES ASSUME TypeOK, OneNow, [Next]_vars PROVE OneNow'
  OBVIOUS
<1> USE DEF OneNow, Active
<1>1. ASSUME NEW t \in Threads, pc[t] # "idle", UNCHANGED crowded,
             \A s \in Threads \ {t} : pc'[s] = pc[s]
      PROVE  OneNow'
  BY <1>1
<1>2. ASSUME UNCHANGED <<pc, crowded>> PROVE OneNow'
  BY <1>2
<1>3. ASSUME NEW t \in Threads, NEW holding \in BOOLEAN, StartUpdate(t, holding)
      PROVE  OneNow'
  BY <1>3 DEF StartUpdate, TypeOK
<1>4. ASSUME NEW t \in Threads,
             \/ SessionUpdateNamespaceTable(t) \/ initializeNamespaceCache(t)
             \/ ClearIndexToUri(t) \/ SessionGetNamespaceTable(t)
             \/ fillNamespaceCache(t) \/ StoreIndex(t) \/ StoreUri(t)
             \/ FinishUpdate(t)
      PROVE  OneNow'
  <2>1. pc[t] # "idle" /\ UNCHANGED crowded
    BY <1>4 DEF SessionUpdateNamespaceTable, initializeNamespaceCache,
       ClearIndexToUri, SessionGetNamespaceTable, fillNamespaceCache, StoreIndex,
       StoreUri, FinishUpdate, historyVars
  <2>2. \A s \in Threads \ {t} : pc'[s] = pc[s]
    BY <1>4 DEF SessionUpdateNamespaceTable, initializeNamespaceCache,
       ClearIndexToUri, SessionGetNamespaceTable, fillNamespaceCache, StoreIndex,
       StoreUri, FinishUpdate, TypeOK
  <2> QED
    BY <1>1, <2>1, <2>2
<1>5. CASE NewClient
  BY <1>5 DEF NewClient
<1>6. ASSUME NEW newTable \in Tables, TableChange(newTable) PROVE OneNow'
  BY <1>2, <1>6 DEF TableChange, localVars, historyVars
<1>7. CASE ConnectionLost
  BY <1>2, <1>7 DEF ConnectionLost, localVars, historyVars
<1>8. CASE on_connected
  BY <1>3, <1>8 DEF on_connected, Threads
<1>9. ASSUME NEW t \in Workers, BadStatus(t) \/ SubscribeFailed(t) PROVE OneNow'
  BY <1>3, <1>9 DEF BadStatus, SubscribeFailed, Threads
<1>10. CASE UNCHANGED vars
  BY <1>2, <1>10 DEF vars, localVars, historyVars
<1> QED
  BY <1>4, <1>5, <1>6, <1>7, <1>8, <1>9, <1>10 DEF Next, Restart, CacheTorn

\* Every step keeps what the updates of a steady table rely on.
LEMMA SettleStep == SettleInv /\ [Next]_vars => Settling'
<1> DEFINE Parts == CachesSound /\ ArrayRead /\ Copies /\ MissingIsAhead /\ Paired
<1> SUFFICES ASSUME SettleInv, [Next]_vars, Steady'
             PROVE  Parts'
  BY DEF Settling
<1>0. /\ TypeOK /\ InRange /\ MutexHeld /\ OneNow /\ Steady
      /\ UNCHANGED <<table, changes>>
      /\ CachesSound /\ ArrayRead /\ Copies /\ MissingIsAhead /\ Paired
  BY SteadyBefore DEF SettleInv, Settling
<1> USE <1>0
<1>1. ASSUME UNCHANGED <<m_uriToIndexCache, m_indexToUriCache>>
      PROVE  CachesSound'
  BY <1>1 DEF CachesSound, IndexOf
<1>2. \A u \in Uris : NoIndices[u] = 0
  BY DEF NoIndices
<1>3. ASSUME UNCHANGED <<pc, namespaceArray, m_uriToIndexCache,
                         m_indexToUriCache, uaNamespaces, i, crowded>>,
             m_isConnected' => m_isConnected
      PROVE  Parts'
  BY <1>1, <1>3 DEF ArrayRead, Copies, MissingIsAhead, Unread, Ahead, Paired
<1>4. ASSUME NEW t \in Threads, NEW holding \in BOOLEAN,
             StartUpdate(t, holding)
      PROVE  Parts'
  <2>1. /\ pc' = [pc EXCEPT ![t] = "copied"] /\ pc[t] = "idle"
        /\ crowded' = (Active # {})
        /\ UNCHANGED <<namespaceArray, m_uriToIndexCache, m_indexToUriCache,
                       uaNamespaces, i>>
    BY <1>4 DEF StartUpdate
  <2>2. pc'[t] = "copied" /\ \A s \in Threads \ {t} : pc'[s] = pc[s]
    BY <2>1 DEF TypeOK
  <2>3. ArrayRead'
    BY <2>1, <2>2 DEF ArrayRead
  <2>4. Unread'
    BY <2>2 DEF Unread
  <2>5. Paired'
    BY <2>1, <2>2, <2>4 DEF Paired, Active
  <2> QED
    BY <1>1, <2>1, <2>3, <2>4, <2>5 DEF Copies, MissingIsAhead
<1>5. ASSUME NEW t \in Threads, SessionUpdateNamespaceTable(t) PROVE Parts'
  <2>1. /\ pc'[t] = "reading" /\ pc[t] = "copied"
        /\ \A s \in Threads \ {t} : pc'[s] = pc[s]
    BY <1>5 DEF SessionUpdateNamespaceTable, TypeOK
  <2>2. ArrayRead' /\ Unread'
    BY <2>1 DEF ArrayRead, Unread
  <2>3. /\ UNCHANGED <<m_uriToIndexCache, m_indexToUriCache, uaNamespaces, crowded>>
        /\ namespaceArray' = <<>>
    BY <1>5 DEF SessionUpdateNamespaceTable, historyVars
  <2>4. Paired'
    BY <2>1, <2>2, <2>3 DEF Paired
  <2> QED
    BY <1>1, <2>2, <2>3, <2>4 DEF Copies, MissingIsAhead
<1>6. ASSUME NEW t \in Threads, initializeNamespaceCache(t) PROVE Parts'
  <2>1. namespaceArray' = table
    <3>1. changes \in Nat
      BY NamespaceAssumption DEF TypeOK
    <3> QED
      BY <1>6, <3>1 DEF initializeNamespaceCache
  <2>2. pc'[t] = "clearing"
    BY <1>6 DEF initializeNamespaceCache, TypeOK
  <2>3. m_uriToIndexCache' = NoIndices /\ UNCHANGED <<uaNamespaces, m_indexToUriCache>>
    BY <1>6 DEF initializeNamespaceCache
  <2>4. ArrayRead' /\ Copies'
    BY <2>1, <2>3 DEF ArrayRead, Copies
  <2>5. MissingIsAhead'
    BY <2>2 DEF MissingIsAhead, Ahead
  <2>6. CachesSound'
    BY <1>2, <2>3 DEF CachesSound, IndexOf
  <2>7. Paired'
    BY <1>2, <2>3, TableEntries DEF Paired
  <2> QED
    BY <2>4, <2>5, <2>6, <2>7
<1>7. ASSUME NEW t \in Threads, ClearIndexToUri(t) PROVE Parts'
  <2>1. /\ pc[t] = "clearing" /\ pc'[t] = "cleared"
        /\ \A s \in Threads \ {t} : pc'[s] = pc[s]
    BY <1>7 DEF ClearIndexToUri, TypeOK
  <2>2. /\ m_indexToUriCache' = NoEntries
        /\ UNCHANGED <<m_isConnected, namespaceArray, m_uriToIndexCache,
                       uaNamespaces, i, crowded>>
    BY <1>7 DEF ClearIndexToUri, historyVars
  <2>3. ArrayRead' /\ Copies'
    BY <2>1, <2>2 DEF ArrayRead, Copies
  <2>4. MissingIsAhead'
    BY <2>1 DEF MissingIsAhead, Ahead
  <2>5. CachesSound'
    BY <2>2 DEF CachesSound, IndexOf, NoEntries
  <2>6. ~crowded => m_uriToIndexCache = NoIndices
    BY <2>1 DEF Paired
  <2>7. Paired'
    BY <1>2, <2>2, <2>6, TableEntries DEF Paired
  <2> QED
    BY <2>3, <2>4, <2>5, <2>7
<1>8. ASSUME NEW t \in Threads, SessionGetNamespaceTable(t) PROVE Parts'
  <2>1. /\ pc[t] = "cleared" /\ pc' = [pc EXCEPT ![t] = "fill"]
        /\ i' = [i EXCEPT ![t] = 1]
        /\ UNCHANGED <<m_isConnected, namespaceArray, m_uriToIndexCache,
                       m_indexToUriCache, crowded>>
    BY <1>8 DEF SessionGetNamespaceTable, sharedVars, historyVars
  <2>2. PICK array :
          /\ uaNamespaces' = [uaNamespaces EXCEPT ![t] = array]
          /\ \/ array = namespaceArray
             \/ /\ \E s \in Threads : pc[s] = "reading"
                /\ \E k \in 0 .. Len(table) : array = SubSeq(table, 1, k)
    BY <1>8 DEF SessionGetNamespaceTable
  <2>3. /\ pc'[t] = "fill" /\ uaNamespaces'[t] = array /\ i'[t] = 1
        /\ \A s \in Threads \ {t} : /\ pc'[s] = pc[s] /\ i'[s] = i[s]
                                    /\ uaNamespaces'[s] = uaNamespaces[s]
    BY <2>1, <2>2 DEF TypeOK
  <2>4. ArrayRead'
    BY <2>1, <2>3 DEF ArrayRead
  <2>5. Copies'
    <3>1. Len(array) <= Len(table) /\ \A n \in 1 .. Len(array) : array[n] = table[n]
      <4>1. CASE array = <<>>
        BY <4>1, TableEntries
      <4>2. CASE array = table
        BY <4>2, TableEntries
      <4>3. ASSUME NEW k \in 0 .. Len(table), array = SubSeq(table, 1, k)
            PROVE  Len(array) <= Len(table)
                   /\ \A n \in 1 .. Len(array) : array[n] = table[n]
        <5>1. table \in Seq(Uris) /\ Len(table) \in Nat
          BY FilledFrom DEF TypeOK
        <5>2. Len(array) = k /\ \A n \in 1 .. k : array[n] = table[n]
          BY <4>3, <5>1, PrefixFacts
        <5> QED
          BY <5>1, <5>2
      <4> QED
        BY <2>2, <4>1, <4>2, <4>3 DEF Copies
    <3> QED
      BY <2>1, <2>3, <3>1 DEF Copies
  <2>6. MissingIsAhead'
    <3>1. CASE \E s \in Threads : pc[s] = "reading"
      BY <2>1, <2>3, <3>1 DEF MissingIsAhead, Unread
    <3>2. CASE array = namespaceArray /\ namespaceArray = table
      <4>1. \A n \in 1 .. Len(table) : Ahead(t, n)'
        BY <2>3, <3>2, TableEntries DEF Ahead
      <4> QED
        BY <4>1 DEF MissingIsAhead
    <3> QED
      BY <2>1, <2>2, <3>1, <3>2 DEF ArrayRead
  <2>7. Unread' <=> Unread
    BY <2>1, <2>3 DEF Unread
  <2>8. Paired'
    BY <2>1, <2>3, <2>7 DEF Paired
  <2> QED
    BY <1>1, <2>1, <2>4, <2>5, <2>6, <2>8
<1>9. ASSUME NEW t \in Threads, fillNamespaceCache(t) PROVE Parts'
  <2>1. /\ pc[t] = "fill" /\ i[t] <= Len(uaNamespaces[t])
        /\ UNCHANGED <<m_isConnected, namespaceArray, uaNamespaces,
                       m_uriToIndexCache, m_indexToUriCache, crowded>>
    BY <1>9 DEF fillNamespaceCache, sharedVars, historyVars
  <2>2. i[t] \in 1 .. Len(table) /\ uaNamespaces[t][i[t]] = table[i[t]]
    BY <2>1, Round
  <2>3. /\ \A s \in Threads \ {t} : pc'[s] = pc[s] /\ i'[s] = i[s]
        /\ \/ pc'[t] = "missing" /\ i'[t] = i[t]
           \/ /\ pc'[t] = "fill" /\ i'[t] = i[t] + 1
              /\ m_uriToIndexCache[table[i[t]]] # 0
    <3>1. CASE NewInCache(t)
      BY <1>9, <3>1 DEF fillNamespaceCache, TypeOK
    <3>2. CASE ~NewInCache(t)
      <4>1. m_uriToIndexCache[table[i[t]]] # 0
        BY <2>2, <3>2 DEF NewInCache
      <4> QED
        BY <1>9, <2>1, <3>2, <4>1 DEF fillNamespaceCache, TypeOK
    <3> QED
      BY <3>1, <3>2
  <2>4. ArrayRead' /\ Copies'
    BY <2>1, <2>3 DEF ArrayRead, Copies
  <2>5. Unread' <=> Unread
    BY <2>1, <2>3 DEF Unread
  <2>6. MissingIsAhead'
    <3> SUFFICES ASSUME m_isConnected, ~Unread, NEW n \in 1 .. Len(table),
                        m_uriToIndexCache[table[n]] = 0
                 PROVE  \E s \in Threads : Ahead(s, n)'
      BY <2>1, <2>5 DEF MissingIsAhead
    <3>1. PICK s \in Threads : Ahead(s, n)
      BY DEF MissingIsAhead
    <3>2. i[t] \in Nat /\ n \in Nat
      BY <2>2, TableEntries
    <3>3. Ahead(s, n)'
      BY <2>1, <2>3, <3>1, <3>2 DEF Ahead
    <3> QED
      BY <3>3
  <2>7. Paired'
    BY <2>1, <2>3, <2>5 DEF Paired
  <2> QED
    BY <1>1, <2>1, <2>4, <2>6, <2>7
<1>10. ASSUME NEW t \in Threads, StoreIndex(t) PROVE Parts'
  <2>1. /\ pc[t] = "missing" /\ pc'[t] = "stored"
        /\ \A s \in Threads \ {t} : pc'[s] = pc[s]
        /\ UNCHANGED <<m_isConnected, namespaceArray, uaNamespaces, i,
                       m_indexToUriCache, crowded>>
    BY <1>10 DEF StoreIndex, historyVars, TypeOK
  <2>2. /\ i[t] \in 1 .. Len(table) /\ i[t] \in Index /\ i[t] # 0
        /\ uaNamespaces[t][i[t]] = table[i[t]] /\ table[i[t]] \in Uris
        /\ i[t] \in IndexOf(table[i[t]])
        /\ \A k \in 1 .. Len(table) : k # i[t] => table[k] # table[i[t]]
    BY <2>1, Round
  <2>3. m_uriToIndexCache' = [m_uriToIndexCache EXCEPT ![table[i[t]]] = i[t]]
    BY <1>10, <2>2 DEF StoreIndex, StoredIndex
  <2>4. /\ m_uriToIndexCache'[table[i[t]]] = i[t]
        /\ \A u \in Uris :
             u # table[i[t]] => m_uriToIndexCache'[u] = m_uriToIndexCache[u]
    BY <2>2, <2>3 DEF TypeOK
  <2>5. CachesSound'
    BY <2>1, <2>2, <2>4 DEF CachesSound, IndexOf
  <2>6. ArrayRead' /\ Copies'
    BY <2>1 DEF ArrayRead, Copies
  <2>7. Unread' <=> Unread
    BY <2>1 DEF Unread
  <2>8. MissingIsAhead'
    <3> SUFFICES ASSUME m_isConnected, ~Unread, NEW n \in 1 .. Len(table),
                        m_uriToIndexCache'[table[n]] = 0
                 PROVE  \E s \in Threads : Ahead(s, n)'
      BY <2>1, <2>7 DEF MissingIsAhead
    <3>1. n # i[t] /\ m_uriToIndexCache[table[n]] = 0
      BY <2>2, <2>4, TableEntries
    <3>2. PICK s \in Threads : Ahead(s, n)
      BY <3>1 DEF MissingIsAhead
    <3>3. i[t] \in Nat /\ n \in Nat
      BY <2>2, TableEntries
    <3>4. Ahead(s, n)'
      BY <2>1, <3>1, <3>2, <3>3 DEF Ahead
    <3> QED
      BY <3>4
  <2>9. Paired'
    <3> SUFFICES ASSUME ~crowded PROVE Paired'
      BY <2>1 DEF Paired
    <3>1. \A s \in Threads : pc'[s] # "clearing"
      BY <2>1 DEF OneNow, Active
    <3>2. ASSUME ~Unread, NEW n \in 1 .. Len(table)
          PROVE  \/ m_uriToIndexCache'[table[n]] = 0
                 \/ m_indexToUriCache[n] = table[n]
                 \/ \E s \in Threads : pc'[s] = "stored" /\ i[s] = n
      <4>1. CASE n = i[t]
        BY <2>1, <4>1
      <4>2. CASE n # i[t]
        <5>1. m_uriToIndexCache'[table[n]] = m_uriToIndexCache[table[n]]
          BY <2>2, <2>4, <4>2, TableEntries
        <5> QED
          BY <2>1, <3>2, <5>1 DEF Paired
      <4> QED
        BY <4>1, <4>2
    <3> QED
      BY <2>1, <2>7, <3>1, <3>2 DEF Paired
  <2> QED
    BY <2>5, <2>6, <2>8, <2>9
<1>11. ASSUME NEW t \in Threads, StoreUri(t) PROVE Parts'
  <2>1. /\ pc[t] = "stored" /\ pc'[t] = "fill" /\ i'[t] = i[t] + 1
        /\ \A s \in Threads \ {t} : pc'[s] = pc[s] /\ i'[s] = i[s]
        /\ UNCHANGED <<m_isConnected, namespaceArray, uaNamespaces,
                       m_uriToIndexCache, crowded>>
    BY <1>11 DEF StoreUri, historyVars, TypeOK
  <2>2. /\ i[t] \in 1 .. Len(table) /\ i[t] \in Index
        /\ uaNamespaces[t][i[t]] = table[i[t]] /\ table[i[t]] \in Uris
        /\ i[t] \in IndexOf(table[i[t]])
    BY <2>1, Round
  <2>3. m_indexToUriCache' = [m_indexToUriCache EXCEPT ![i[t]] = table[i[t]]]
    BY <1>11, <2>2 DEF StoreUri, StoredIndex
  <2>4. /\ m_indexToUriCache'[i[t]] = table[i[t]]
        /\ \A n \in Index : n # i[t] => m_indexToUriCache'[n] = m_indexToUriCache[n]
    BY <2>2, <2>3 DEF TypeOK
  <2>5. CachesSound'
    BY <2>1, <2>2, <2>4 DEF CachesSound, IndexOf
  <2>6. ArrayRead' /\ Copies'
    BY <2>1 DEF ArrayRead, Copies
  <2>7. Unread' <=> Unread
    BY <2>1 DEF Unread
  <2>8. MissingIsAhead'
    <3> SUFFICES ASSUME m_isConnected, ~Unread, NEW n \in 1 .. Len(table),
                        m_uriToIndexCache[table[n]] = 0
                 PROVE  \E s \in Threads : Ahead(s, n)'
      BY <2>1, <2>7 DEF MissingIsAhead
    <3>1. PICK s \in Threads : Ahead(s, n)
      BY DEF MissingIsAhead
    <3>2. i[t] \in Nat /\ n \in Nat
      BY <2>2, TableEntries
    <3>3. Ahead(s, n)'
      BY <2>1, <3>1, <3>2 DEF Ahead
    <3> QED
      BY <3>3
  <2>9. Paired'
    <3>1. \A s \in Threads : pc'[s] = "clearing" => pc[s] = "clearing"
      BY <2>1
    <3>2. ASSUME ~crowded, ~Unread, NEW n \in 1 .. Len(table)
          PROVE  \/ m_uriToIndexCache[table[n]] = 0
                 \/ m_indexToUriCache'[n] = table[n]
                 \/ \E s \in Threads : pc'[s] = "stored" /\ i'[s] = n
      <4>1. CASE n = i[t]
        BY <2>4, <4>1
      <4>2. CASE n # i[t]
        <5>1. m_indexToUriCache'[n] = m_indexToUriCache[n]
          BY <2>4, <4>2, TableEntries
        <5> QED
          BY <2>1, <3>2, <4>2, <5>1 DEF Paired
      <4> QED
        BY <4>1, <4>2
    <3> QED
      BY <2>1, <2>7, <3>1, <3>2 DEF Paired
  <2> QED
    BY <2>5, <2>6, <2>8, <2>9
<1>12. ASSUME NEW t \in Threads, FinishUpdate(t) PROVE Parts'
  <2>1. /\ pc[t] = "fill" /\ pc' = [pc EXCEPT ![t] = "idle"]
        /\ i[t] > Len(uaNamespaces[t])
        /\ uaNamespaces' = [uaNamespaces EXCEPT ![t] = <<>>]
        /\ i' = [i EXCEPT ![t] = 1]
        /\ UNCHANGED <<m_isConnected, namespaceArray, m_uriToIndexCache,
                       m_indexToUriCache, crowded>>
    BY <1>12 DEF FinishUpdate
  <2>2. /\ pc'[t] = "idle" /\ uaNamespaces'[t] = <<>>
        /\ \A s \in Threads \ {t} : /\ pc'[s] = pc[s] /\ i'[s] = i[s]
                                    /\ uaNamespaces'[s] = uaNamespaces[s]
    BY <2>1 DEF TypeOK
  <2>3. ArrayRead' /\ Copies'
    BY <2>1, <2>2, TableEntries DEF ArrayRead, Copies
  <2>4. Unread' <=> Unread
    BY <2>1, <2>2 DEF Unread
  <2>5. \A n \in 1 .. Len(table), s \in Threads : Ahead(s, n) => Ahead(s, n)'
    <3> SUFFICES ASSUME NEW n \in 1 .. Len(table), NEW s \in Threads,
                        Ahead(s, n)
                 PROVE  Ahead(s, n)'
      OBVIOUS
    <3>1. s # t
      <4>1. i[t] \in Nat
        BY NamespaceAssumption DEF TypeOK
      <4> QED
        BY <2>1, <4>1, TableEntries DEF Ahead
    <3> QED
      BY <2>2, <3>1 DEF Ahead
  <2>6. MissingIsAhead'
    BY <2>1, <2>4, <2>5 DEF MissingIsAhead
  <2>7. Paired'
    BY <2>1, <2>2, <2>4 DEF Paired
  <2> QED
    BY <1>1, <2>1, <2>3, <2>6, <2>7
<1>13. CASE NewClient
  <2>1. /\ m_isConnected' = FALSE /\ m_uriToIndexCache' = NoIndices
        /\ m_indexToUriCache' = NoEntries
    BY <1>13 DEF NewClient
  <2>2. ArrayRead' /\ Copies'
    BY <1>13, TableEntries DEF NewClient, ArrayRead, Copies
  <2>3. CachesSound'
    BY <1>2, <2>1 DEF CachesSound, IndexOf, NoEntries
  <2>4. Paired'
    BY <1>2, <2>1, TableEntries DEF Paired
  <2> QED
    BY <2>1, <2>2, <2>3, <2>4 DEF MissingIsAhead
<1>14. ASSUME NEW newTable \in Tables, TableChange(newTable) PROVE Parts'
  BY <1>3, <1>14 DEF TableChange, sharedVars, localVars, historyVars
<1>15. CASE ConnectionLost
  BY <1>3, <1>15 DEF ConnectionLost, localVars, historyVars
<1>16. CASE on_connected
  BY <1>4, <1>16 DEF on_connected, Threads
<1>17. ASSUME NEW t \in Workers, BadStatus(t) \/ SubscribeFailed(t) PROVE Parts'
  BY <1>4, <1>17 DEF BadStatus, SubscribeFailed, Threads
<1>18. CASE UNCHANGED vars
  BY <1>3, <1>18 DEF vars, sharedVars, localVars, historyVars
<1> HIDE DEF Parts
<1> QED
  BY <1>5, <1>6, <1>7, <1>8, <1>9, <1>10, <1>11, <1>12, <1>13, <1>14, <1>15,
     <1>16, <1>17, <1>18 DEF Next, Restart, CacheTorn

\* The inductive invariant holds in every behaviour.
LEMMA IndInvHolds == Spec => []IndInv
<1>1. Init => IndInv
  <2> SUFFICES ASSUME Init PROVE IndInv
    OBVIOUS
  <2>1. TypeOK
    <3>1. 1 \in 1 .. MaxIndex + 1
      BY NamespaceAssumption
    <3>2. i \in [Threads -> 1 .. MaxIndex + 1]
      BY <3>1 DEF Init, ClientInit
    <3>3. existingIndexToUri \in [Threads -> [Index -> Uris \cup {NoUri}]]
      BY EmptyCaches DEF Init, ClientInit
    <3>4. uaNamespaces \in [Threads -> Arrays]
      BY NamespaceAssumption DEF Init, ClientInit, Arrays
    <3>5. /\ pc \in [Threads -> Places]
          /\ underLock \in [Threads -> BOOLEAN]
      BY DEF Init, ClientInit, Places
    <3>6. /\ m_uriToIndexCache \in [Uris -> 0 .. MaxIndex]
          /\ m_indexToUriCache \in [Index -> Uris \cup {NoUri}]
      BY EmptyCaches DEF Init, ClientInit
    <3>7. table \in Tables /\ changes \in 0 .. MaxChanges
      BY NamespaceAssumption DEF Init
    <3> QED
      BY <3>2, <3>3, <3>4, <3>5, <3>6, <3>7 DEF Init, ClientInit, TypeOK
  <2>2. InRange /\ OneUpdate /\ UsedKept
    BY DEF Init, ClientInit, InRange, OneUpdate, UsedKept, Active
  <2> QED
    BY <2>1, <2>2 DEF IndInv
<1>2. IndInv /\ [Next]_vars => IndInv'
  BY TypeStep, RangeStep, UpdateStep DEF IndInv
<1> QED
  BY <1>1, <1>2, PTL DEF Spec

\* The strengthening for a steady table holds in every behaviour.
LEMMA SettleInvHolds == Spec => []SettleInv
<1>1. Init => MutexHeld /\ OneNow
  BY DEF Init, ClientInit, MutexHeld, OneNow, Active
<1>2. TypeOK /\ Init => Settling
  <2> SUFFICES ASSUME TypeOK, Init PROVE Settling
    OBVIOUS
  <2>1. /\ m_uriToIndexCache = NoIndices /\ m_indexToUriCache = NoEntries
        /\ m_isConnected = FALSE
    BY DEF Init, ClientInit
  <2>2. CachesSound
    BY <2>1 DEF CachesSound, NoIndices, NoEntries
  <2>3. ArrayRead /\ Copies
    BY TableEntries DEF Init, ClientInit, ArrayRead, Copies
  <2>4. Paired
    BY <2>1, TableEntries DEF Paired, NoIndices
  <2> QED
    BY <2>1, <2>2, <2>3, <2>4 DEF Settling, MissingIsAhead
<1>3. IndInv => TypeOK /\ InRange
  BY DEF IndInv
<1>4. TypeOK /\ InRange /\ MutexHeld /\ OneNow /\ Settling <=> SettleInv
  BY DEF SettleInv
<1>5. SettleInv /\ [Next]_vars => SettleInv'
  BY TypeStep, RangeStep, MutexStep, OneNowStep, SettleStep DEF SettleInv
<1> QED
  BY <1>1, <1>2, <1>3, <1>4, <1>5, IndInvHolds, PTL DEF Spec

-----------------------------------------------------------------------------
\* updateNamespaceCache, executed by any number of threads, keeps the type of
\* every variable.
THEOREM TypeCorrect == Spec => []TypeOK
<1>1. IndInv => TypeOK
  BY DEF IndInv
<1> QED
  BY <1>1, IndInvHolds, PTL

\* updateNamespaceCache, as long as no two threads run it at once, requests a
\* reset whenever an entry that the client ever worked with is removed or
\* moved, for every set of tables and any number of changes and failed reads.
THEOREM ChangesAreDetected == Spec => []NamespaceChangeDetected
<1>1. IndInv => NamespaceChangeDetected
  BY DEF IndInv, UsedKept, NamespaceChangeDetected
<1> QED
  BY <1>1, IndInvHolds, PTL

\* updateNamespaceCache on any number of threads at once, for every table that
\* names no URI twice, does not change and can be read, and however the steps of
\* one update fall between those of others: when the last one returns,
\* m_uriToIndexCache holds exactly the table, m_indexToUriCache nothing else, and
\* all of it if that update ran alone.
THEOREM UpdatesHealEachOther == Spec => []UnchangedTableSettles
<1>1. SettleInv => UnchangedTableSettles
  <2> SUFFICES ASSUME SettleInv, Steady, Active = {}, m_isConnected
               PROVE  /\ \A u \in Uris :
                           /\ m_uriToIndexCache[u] # 0 <=> IndexOf(u) # {}
                           /\ \A n \in IndexOf(u) :
                                 /\ m_uriToIndexCache[u] = n
                                 /\ m_indexToUriCache[n] = u \/ crowded
                      /\ \A n \in Index : m_indexToUriCache[n] # NoUri =>
                                             n \in IndexOf(m_indexToUriCache[n])
    BY DEF UnchangedTableSettles, Steady
  <2>1. TypeOK /\ CachesSound /\ MissingIsAhead /\ Paired
    BY DEF SettleInv, Settling
  <2>2. \A t \in Threads : pc[t] = "idle"
    BY DEF Active
  <2>3. ~Unread /\ \A n \in 1 .. Len(table) : m_uriToIndexCache[table[n]] # 0
    BY <2>1, <2>2 DEF MissingIsAhead, Unread, Ahead
  <2>4. ASSUME NEW u \in Uris, NEW n \in IndexOf(u)
        PROVE  /\ m_uriToIndexCache[u] = n
               /\ m_indexToUriCache[n] = u \/ crowded
    <3>1. n \in 1 .. Len(table) /\ table[n] = u
      BY DEF IndexOf
    <3>2. m_uriToIndexCache[u] \in IndexOf(u)
      BY <2>1, <2>3, <3>1 DEF CachesSound
    <3>3. m_uriToIndexCache[u] = n
      BY <3>2 DEF Steady
    <3> QED
      BY <2>1, <2>2, <2>3, <3>1, <3>3 DEF Paired
  <2>5. ASSUME NEW u \in Uris
        PROVE  m_uriToIndexCache[u] # 0 <=> IndexOf(u) # {}
    <3>1. m_uriToIndexCache[u] # 0 => IndexOf(u) # {}
      BY <2>1 DEF CachesSound
    <3>2. \A n \in IndexOf(u) : m_uriToIndexCache[u] # 0
      BY <2>3 DEF IndexOf
    <3> QED
      BY <3>1, <3>2
  <2> QED
    BY <2>1, <2>4, <2>5 DEF CachesSound
<1> QED
  BY <1>1, SettleInvHolds, PTL
=============================================================================
