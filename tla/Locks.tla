------------------------------- MODULE Locks -------------------------------
(****************************************************************************)
(* What the three threads of the gateway lock, and what they touch while    *)
(* they hold it: the main thread (main, Iterate, the destructors), the      *)
(* update thread of DashboardMachineObserver and the connect thread of      *)
(* OpcUaClient.                                                             *)
(*                                                                          *)
(* A thread is the sequence of steps it still has to take, and an operation *)
(* of the code is the sequence of the steps that matter to the others: the  *)
(* locks it takes and releases, the shared state it reads and writes, the   *)
(* requests it sends over the session, the threads it starts and joins.     *)
(* What else the operations do is in the modules of their components.       *)
(*                                                                          *)
(* open62541 delivers notifications from whichever request happens to be    *)
(* waiting for its answer, so dataChange runs on all three threads.         *)
(****************************************************************************)
EXTENDS Naturals, Sequences

Threads == {"main", "update", "connect"}

Mutexes == {"m_clientMutex", "m_dashboardClients_mutex", "m_dataSetMutex",
            "m_machineIdentificationsCache_mutex", "m_callbacks_mutex",
            "values_mutex"}

RecursiveMutexes == {"m_clientMutex", "m_dataSetMutex"}

Nobody == "nobody"

VARIABLES
    todo,      \* the steps each thread has still to take
    owner,     \* the thread that holds a mutex
    depth,     \* how many times it has locked it
    stopped    \* the threads told to end, or not started

vars == <<todo, owner, depth, stopped>>

-----------------------------------------------------------------------------
(* The steps. *)

Lock(m) == [op |-> "lock", mutex |-> m]
Unlock(m) == [op |-> "unlock", mutex |-> m]
Read(v) == [op |-> "read", var |-> v]
Write(v) == [op |-> "write", var |-> v]
Request == [op |-> "request"]
Start(t) == [op |-> "start", thread |-> t]
Stop(t) == [op |-> "stop", thread |-> t]
Join(t) == [op |-> "join", thread |-> t]
Either(a, b) == <<[op |-> "either", branches |-> {a, b}]>>
Many(body) == <<[op |-> "many", body |-> body]>>

\* A lock_guard or unique_lock in the scope of body.
Locked(m, body) == <<Lock(m)>> \o body \o <<Unlock(m)>>

-----------------------------------------------------------------------------
(* OpcUaClient and Subscription. *)

\* dataChange, and the callback of subscribeValue it calls.  The callback's
\* statement about values_mutex declares a variable of that name and locks
\* nothing.
dataChange ==
    Locked("m_callbacks_mutex", <<Read("m_callbacks"), Write("values")>>)

checkConnection == Locked("m_clientMutex", <<>>)

initializeNamespaceCache ==
    Locked("m_clientMutex", <<Request, Write("namespaceCaches")>>)

\* Only its first part is locked; the callers that hold no lock themselves
\* fill the caches and the custom types without one.
updateNamespaceCache ==
    <<Read("namespaceCaches")>>
    \o initializeNamespaceCache
    \o <<Write("namespaceCaches"), Write("customDataTypes")>>

on_connected ==
    updateNamespaceCache \o Locked("m_clientMutex", <<Request>>)

\* A failure that clears m_tryConnecting needs no step of its own: a thread may
\* always take no further turn.
connect ==
    Locked("m_clientMutex", <<Request>>) \o Either(<<>>, on_connected)

\* BrowseWithContextAndFilter, TranslateBrowsePathToNodeId and readValues2: the
\* caches are read to build the request and again to read the answer.
BrowseRequest ==
    <<Read("namespaceCaches")>>
    \o checkConnection
    \o Locked("m_clientMutex", <<Request>>)

BrowseSucceeds == BrowseRequest \o <<Read("namespaceCaches")>>

\* The same, left by an exception: there is no connection, or the status is bad,
\* after which a browse updates the cache.
BrowseFails ==
    Either(<<Read("namespaceCaches")>> \o checkConnection,
           BrowseRequest \o Either(<<>>, updateNamespaceCache))

\* Subscription::Subscribe and OpcUaClient::Subscribe.
Subscribe ==
    Locked("m_clientMutex",
        <<Read("namespaceCaches"), Request>>
        \o Either(Locked("m_callbacks_mutex", <<Write("m_callbacks")>>),
                  updateNamespaceCache))

\* Subscription::Unsubscribe and OpcUaClient::Unsubscribe.
Unsubscribe ==
    Locked("m_clientMutex",
        Locked("m_callbacks_mutex", <<Write("m_callbacks")>>) \o <<Request>>)

VerifyConnection == Locked("m_clientMutex", <<Request>>)

-----------------------------------------------------------------------------
(* DashboardClient. *)

getJson == Many(Locked("values_mutex", <<Read("values")>>))

Publish == Locked("m_dataSetMutex", <<Read("m_dataSets")>> \o getJson)

DataSetUnsubscribe ==
    Unsubscribe \o Locked("m_dataSetMutex", <<Write("m_dataSets")>>)

\* addDataSet that returns: an OpcUaException is logged and forgotten.
addDataSet ==
    Many(BrowseSucceeds)
    \o Either(BrowseFails,
              Many(Subscribe)
              \o Locked("m_dataSetMutex", <<Write("m_dataSets")>>))

-----------------------------------------------------------------------------
(* DashboardMachineObserver and MachineObserver. *)

publishMachinesList ==
    Locked("m_dashboardClients_mutex",
        Locked("m_machineIdentificationsCache_mutex",
            <<Read("m_onlineMachines"), Read("m_machineIdentificationsCache"),
              Read("m_invalidMachines")>>))

PublishAll ==
    Locked("m_dashboardClients_mutex",
           <<Read("m_dashboardClients")>> \o Many(Publish))
    \o Either(<<>>, publishMachinesList)

removeMachine ==
    Locked("m_dashboardClients_mutex",
        <<Read("m_dashboardClients")>>
        \o Either(<<>>, DataSetUnsubscribe \o <<Write("m_dashboardClients")>>)
        \o <<Write("m_onlineMachines")>>)

\* Faulty: the new machine is entered without the lock.
AddUnlocked ==
    <<Write("m_invalidMachines")>>
    \o Either(<<>>,
        <<Read("m_dashboardClients")>>
        \o Either(
            addDataSet
            \o <<Write("m_dashboardClients"), Write("m_onlineMachines")>>,
            Many(BrowseSucceeds) \o BrowseFails
            \o <<Write("m_invalidMachines")>>))

\* ignoreInvalidMachinesTemporarily and addNewMachine.  Its machine is never
\* among the clients here (NoUnlockedErase of MachineObserver), so the find,
\* which holds no lock, finds nothing.
addMachine ==
    <<Write("m_invalidMachines")>>
    \o Either(<<>>,
        <<Read("m_dashboardClients")>>
        \o Either(
            addDataSet
            \o Locked("m_dashboardClients_mutex",
                <<Write("m_dashboardClients"), Write("m_onlineMachines")>>),
            Many(BrowseSucceeds) \o BrowseFails
            \o <<Write("m_invalidMachines")>>))

\* A browse that fails inside isOnline or a machine's search is caught there;
\* one of the list of machines ends the round.
UpdateMachines ==
    Either(BrowseFails,
        Many(Either(BrowseSucceeds, BrowseFails))
        \o Many(removeMachine)
        \o Many(addMachine)
        \o Locked("m_machineIdentificationsCache_mutex",
                  <<Write("m_machineIdentificationsCache")>>))

-----------------------------------------------------------------------------
(* DashboardOpcUaClient and main. *)

Iterate ==
    Locked("m_clientMutex", <<Request>>)
    \o Either(<<>>, PublishAll)
    \o Either(<<>>, VerifyConnection)

StopObserver == <<Stop("update"), Join("update")>>

disconnect == Locked("m_clientMutex", <<Request, Request>>)

\* Faulty: the destructor locks the client before it joins the thread.
JoinUnderLock ==
    <<Stop("connect")>>
    \o Locked("m_clientMutex",
              <<Join("connect"), Request>> \o disconnect)

DestroyClient ==
    <<Stop("connect"), Join("connect")>>
    \o Locked("m_clientMutex", <<Request>> \o disconnect)

\* One turn of main's loop; without a connection main leaves it at once.
Life ==
    connect
    \o <<Start("connect")>>
    \o Either(<<>>,
        Many(BrowseFails) \o Many(BrowseSucceeds)
        \o <<Start("update")>>
        \o Many(Iterate)
        \o StopObserver)
    \o DestroyClient

Program(t) == CASE t = "main" -> Life
                [] t = "update" -> UpdateMachines
                [] t = "connect" -> connect

-----------------------------------------------------------------------------
(* The threads. *)

At(t, op) == todo[t] # <<>> /\ Head(todo[t]).op = op

Advance(t) == todo' = [todo EXCEPT ![t] = Tail(@)]

Init ==
    /\ todo = [t \in Threads |-> <<>>]
    /\ owner = [m \in Mutexes |-> Nobody]
    /\ depth = [m \in Mutexes |-> 0]
    /\ stopped = {"update", "connect"}

\* The loop of the thread takes another turn.
Turn(t) ==
    /\ todo[t] = <<>>
    /\ t \notin stopped
    /\ todo' = [todo EXCEPT ![t] = Program(t)]
    /\ UNCHANGED <<owner, depth, stopped>>

\* std::mutex waits for a holder that is the thread itself, too.
Acquire(t) ==
    /\ At(t, "lock")
    /\ LET m == Head(todo[t]).mutex
       IN  /\ owner[m] = Nobody \/ (owner[m] = t /\ m \in RecursiveMutexes)
           /\ owner' = [owner EXCEPT ![m] = t]
           /\ depth' = [depth EXCEPT ![m] = @ + 1]
    /\ Advance(t)
    /\ UNCHANGED stopped

Release(t) ==
    /\ At(t, "unlock")
    /\ LET m == Head(todo[t]).mutex
       IN  /\ owner' = [owner EXCEPT ![m] = IF depth[m] = 1 THEN Nobody ELSE t]
           /\ depth' = [depth EXCEPT ![m] = @ - 1]
    /\ Advance(t)
    /\ UNCHANGED stopped

\* The end of a read, of a write or of a request.
Done(t) ==
    /\ At(t, "read") \/ At(t, "write") \/ At(t, "request")
    /\ Advance(t)
    /\ UNCHANGED <<owner, depth, stopped>>

\* A notification is delivered while the thread waits for an answer.
Notified(t) ==
    /\ At(t, "request")
    /\ todo' = [todo EXCEPT ![t] = dataChange \o @]
    /\ UNCHANGED <<owner, depth, stopped>>

Branch(t) ==
    /\ At(t, "either")
    /\ \E b \in Head(todo[t]).branches :
          todo' = [todo EXCEPT ![t] = b \o Tail(@)]
    /\ UNCHANGED <<owner, depth, stopped>>

Repeat(t) ==
    /\ At(t, "many")
    /\ todo' = [todo EXCEPT ![t] = Head(@).body \o @]
    /\ UNCHANGED <<owner, depth, stopped>>

LeaveLoop(t) ==
    /\ At(t, "many")
    /\ Advance(t)
    /\ UNCHANGED <<owner, depth, stopped>>

Signal(t) ==
    /\ \/ /\ At(t, "start")
          /\ stopped' = stopped \ {Head(todo[t]).thread}
       \/ /\ At(t, "stop")
          /\ stopped' = stopped \cup {Head(todo[t]).thread}
    /\ Advance(t)
    /\ UNCHANGED <<owner, depth>>

Joined(t) ==
    /\ At(t, "join")
    /\ todo[Head(todo[t]).thread] = <<>>
    /\ Advance(t)
    /\ UNCHANGED <<owner, depth, stopped>>

Next ==
    \E t \in Threads :
        \/ Turn(t)
        \/ Acquire(t)
        \/ Release(t)
        \/ Done(t)
        \/ Notified(t)
        \/ Branch(t)
        \/ Repeat(t)
        \/ LeaveLoop(t)
        \/ Signal(t)
        \/ Joined(t)

Spec == Init /\ [][Next]_vars

-----------------------------------------------------------------------------
(* Properties. *)

\* The thread the first step of t waits for, if it waits.
WaitsFor(t) ==
    IF At(t, "lock")
    THEN LET m == Head(todo[t]).mutex
         IN  IF m \in RecursiveMutexes THEN {owner[m]} \ {t, Nobody}
             ELSE {owner[m]} \ {Nobody}
    ELSE IF At(t, "join") THEN {u \in {Head(todo[t]).thread} : todo[u] # <<>>}
    ELSE {}

\* No threads wait for each other in a circle, nor one for itself: whatever the
\* update thread holds while it removes a machine, the main thread while it
\* publishes or destroys the client, and whichever of them is handed a
\* notification meanwhile.
NoWaitCycle ==
    \A S \in SUBSET Threads \ {{}} :
        \E t \in S : WaitsFor(t) \cap S = {}

\* What the first step of t touches.  A request uses the session and decodes
\* its answer with the custom data types.
Reads(t) ==
    IF At(t, "read") THEN {Head(todo[t]).var}
    ELSE IF At(t, "request") THEN {"customDataTypes"} ELSE {}
Writes(t) ==
    IF At(t, "write") THEN {Head(todo[t]).var}
    ELSE IF At(t, "request") THEN {"session"} ELSE {}

Race(t, u) == Writes(t) \cap (Reads(u) \cup Writes(u))

\* Two threads touch the same state at once, one of them writing, in four
\* places only: the values of a data set, read for publication while another
\* thread is handed a notification; the blacklist, read for the list of
\* erroneous machines while the update thread changes it; the namespace caches,
\* which the connect thread changes under everyone else; and the custom data
\* types, changed with them.  The session, the callbacks, the clients, the
\* machines, their data sets and identifications are never raced for.
RacesAreKnown ==
    \A t \in Threads : \A u \in Threads \ {t} :
        \A v \in Race(t, u) :
            \/ v = "values" /\ u = "main" /\ At(u, "read")
            \/ v = "m_invalidMachines" /\ t = "update" /\ u = "main"
            \/ v = "namespaceCaches" /\ "connect" \in {t, u}
            \/ v = "customDataTypes" /\ (t # "main" \/ u = "connect")
=============================================================================
