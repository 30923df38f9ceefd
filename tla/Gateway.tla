------------------------------- MODULE Gateway -------------------------------
(****************************************************************************)
(* The life of the gateway: main of Main.cpp, DashboardOpcUaClient, and the *)
(* connect thread of OpcUaClient, which together decide when the gateway    *)
(* connects, reads the types, serves, resets itself and ends.               *)
(*                                                                          *)
(* main builds a DashboardOpcUaClient, waits for its connection, reads the  *)
(* types, starts the machine observer and iterates until a signal or a      *)
(* reset; then it destroys all of it, which joins the threads, and starts   *)
(* over.  The update thread of the observer is here only what it does to    *)
(* the connection.                                                          *)
(*                                                                          *)
(* External: the OPC UA server, which becomes unreachable and comes back,   *)
(* possibly with another namespace table, and the signal.                   *)
(****************************************************************************)
EXTENDS Naturals

CONSTANT MaxWait   \* the 60 s of DashboardOpcUaClient::connect

ASSUME GatewayAssumption == MaxWait \in Nat

VARIABLES
    running, reset,                   \* the two flags of Main.cpp
    mainPc, i,                        \* the main thread
    connectPc,                        \* m_connectThread
    observer,                         \* the update thread exists
    m_isConnected, m_tryConnecting,
    cached,                           \* the namespace cache is not empty
    session,                          \* the client's session works
    server,                           \* reachable, and accepts the session
    compatible                        \* its table agrees with the cache

clientVars == <<m_isConnected, m_tryConnecting, cached>>
worldVars == <<session, server, compatible>>
vars == <<running, reset, mainPc, i, connectPc, observer, clientVars,
          worldVars>>

\* construct: the constructors; wait: DashboardOpcUaClient::connect; types: the
\* loop around ReadTypes; stop, join: the destructors, in their order.
MainPc == {"start", "construct", "wait", "types", "iterate", "stop", "join",
           "give_up_stop", "give_up_join", "exited", "failed"}

\* connected: SessionConnect has succeeded, connectionStatusChanged is next;
\* update: on_connected.
ConnectPc == {"none", "loop", "connected", "update", "ended"}

TypeOK ==
    /\ running \in BOOLEAN
    /\ reset \in BOOLEAN
    /\ mainPc \in MainPc
    /\ i \in 0 .. MaxWait
    /\ connectPc \in ConnectPc
    /\ observer \in BOOLEAN
    /\ m_isConnected \in BOOLEAN
    /\ m_tryConnecting \in BOOLEAN
    /\ cached \in BOOLEAN
    /\ session \in BOOLEAN
    /\ server \in BOOLEAN
    /\ compatible \in BOOLEAN

Init ==
    /\ running = TRUE
    /\ reset = FALSE
    /\ mainPc = "start"
    /\ i = 0
    /\ connectPc = "none"
    /\ observer = FALSE
    /\ m_isConnected = FALSE
    /\ m_tryConnecting = FALSE
    /\ cached = FALSE
    /\ session = FALSE
    /\ server \in BOOLEAN
    /\ compatible = TRUE

Ended == mainPc \in {"exited", "failed"}

-----------------------------------------------------------------------------
(* The connection. *)

\* updateNamespaceCache: a table that cannot be read counts as an empty one.
\* If it lacks something the cache had, a reset is requested.
updateNamespaceCache ==
    /\ reset' = (reset \/ (cached /\ ~(session /\ compatible)))
    /\ cached' = session
    /\ compatible' = (compatible \/ session)

\* OpcUaClient::connect fails; after one of four status codes, the client does
\* not try again.
ConnectFails ==
    /\ ~server
    /\ m_isConnected' = FALSE
    /\ m_tryConnecting' \in BOOLEAN
    /\ m_tryConnecting' => m_tryConnecting

\* checkConnection of any request, by the main or by the update thread: the
\* exception ends the attempt to read the types, or the round.
checkConnection ==
    /\ observer \/ mainPc = "types"
    /\ ~m_isConnected \/ ~session
    /\ m_isConnected' = FALSE
    /\ UNCHANGED <<running, reset, mainPc, i, connectPc, observer,
                   m_tryConnecting, cached, worldVars>>

\* A request that passed checkConnection has a bad status: the session failed
\* meanwhile, or the server does not know the namespace index.
BadStatus ==
    /\ observer \/ mainPc = "types"
    /\ m_isConnected
    /\ ~session \/ ~compatible
    /\ updateNamespaceCache
    /\ UNCHANGED <<running, mainPc, i, connectPc, observer, m_isConnected,
                   m_tryConnecting, session, server>>

\* The connect thread: threadConnectExecution.
SessionConnect ==
    /\ connectPc = "loop"
    /\ m_tryConnecting
    /\ ~m_isConnected
    /\ server
    /\ session' = TRUE
    /\ connectPc' = "connected"
    /\ UNCHANGED <<running, reset, mainPc, i, observer, clientVars, server,
                   compatible>>

SessionConnectFails ==
    /\ connectPc = "loop"
    /\ m_tryConnecting
    /\ ~m_isConnected
    /\ ConnectFails
    /\ UNCHANGED <<running, reset, mainPc, i, connectPc, observer, cached,
                   worldVars>>

connectionStatusChanged ==
    /\ connectPc = "connected"
    /\ m_isConnected' = TRUE
    /\ connectPc' = "update"
    /\ UNCHANGED <<running, reset, mainPc, i, observer, m_tryConnecting,
                   cached, worldVars>>

on_connected ==
    /\ connectPc = "update"
    /\ updateNamespaceCache
    /\ connectPc' = "loop"
    /\ UNCHANGED <<running, mainPc, i, observer, m_isConnected,
                   m_tryConnecting, session, server>>

ConnectThreadEnds ==
    /\ connectPc = "loop"
    /\ ~m_tryConnecting
    /\ connectPc' = "ended"
    /\ UNCHANGED <<running, reset, mainPc, i, observer, clientVars, worldVars>>

-----------------------------------------------------------------------------
(* The main thread. *)

\* Faulty variant: the request that caused the reset is not cleared.
KeepsReset ==
    /\ mainPc = "start"
    /\ running
    /\ mainPc' = "construct"
    /\ m_isConnected' = FALSE
    /\ m_tryConnecting' = TRUE
    /\ cached' = FALSE
    /\ compatible' = TRUE
    /\ UNCHANGED <<running, reset, i, connectPc, observer, session, server>>

\* The head of the loop of main.
StartGateway ==
    /\ mainPc = "start"
    /\ running
    /\ reset' = FALSE
    /\ mainPc' = "construct"
    /\ m_isConnected' = FALSE
    /\ m_tryConnecting' = TRUE
    /\ cached' = FALSE
    /\ compatible' = TRUE
    /\ UNCHANGED <<running, i, connectPc, observer, session, server>>

EndMain ==
    /\ mainPc = "start"
    /\ ~running
    /\ mainPc' = "exited"
    /\ UNCHANGED <<running, reset, i, connectPc, observer, clientVars,
                   worldVars>>

\* The constructor of OpcUaClient connects once and then starts the thread.
\* (Its cache is empty, so on_connected requests no reset; the table may be
\* unreadable, which leaves the cache empty.)
ConstructClient ==
    /\ mainPc = "construct"
    /\ \/ /\ server
          /\ m_isConnected' = TRUE
          /\ session' = TRUE
          /\ cached' \in BOOLEAN
          /\ compatible' = TRUE
          /\ UNCHANGED m_tryConnecting
       \/ /\ ConnectFails
          /\ UNCHANGED <<session, cached, compatible>>
    /\ connectPc' = "loop"
    /\ mainPc' = "wait"
    /\ i' = 0
    /\ UNCHANGED <<running, reset, observer, server>>

\* DashboardOpcUaClient::connect.
WaitForConnection ==
    /\ mainPc = "wait"
    /\ running /\ ~m_isConnected /\ i < MaxWait
    /\ i' = i + 1
    /\ UNCHANGED <<running, reset, mainPc, connectPc, observer, clientVars,
                   worldVars>>

WaitEnds ==
    /\ mainPc = "wait"
    /\ ~(running /\ ~m_isConnected /\ i < MaxWait)
    /\ mainPc' = IF m_isConnected THEN "types" ELSE "give_up_stop"
    /\ UNCHANGED <<running, reset, i, connectPc, observer, clientVars,
                   worldVars>>

\* ReadTypes succeeds and StartMachineObserver follows.
ReadTypes ==
    /\ mainPc = "types"
    /\ m_isConnected /\ session
    /\ mainPc' = "iterate"
    /\ observer' = TRUE
    /\ UNCHANGED <<running, reset, i, connectPc, clientVars, worldVars>>

\* Faulty variant: the result of VerifyConnection is not looked at.
VerifyIgnored ==
    /\ mainPc = "iterate"
    /\ ~session
    /\ UNCHANGED vars

\* Iterate, every 30 s: VerifyConnection reads a node without a look at
\* m_isConnected.
VerifyConnection ==
    /\ mainPc = "iterate"
    /\ ~session
    /\ reset' = TRUE
    /\ UNCHANGED <<running, mainPc, i, connectPc, observer, clientVars,
                   worldVars>>

\* Faulty variant: only a reset ends the inner loop.
LeaveOnReset ==
    /\ mainPc = "iterate"
    /\ reset
    /\ mainPc' = "stop"
    /\ UNCHANGED <<running, reset, i, connectPc, observer, clientVars,
                   worldVars>>

\* The inner loop of main ends.
LeaveIterate ==
    /\ mainPc = "iterate"
    /\ ~running \/ reset
    /\ mainPc' = "stop"
    /\ UNCHANGED <<running, reset, i, connectPc, observer, clientVars,
                   worldVars>>

\* The members of DashboardOpcUaClient are destroyed in reverse order: first
\* the observer, which joins its thread; then ~OpcUaClient starts.
DestroyObserver ==
    /\ mainPc \in {"stop", "give_up_stop"}
    /\ observer' = FALSE
    /\ m_tryConnecting' = FALSE
    /\ mainPc' = IF mainPc = "stop" THEN "join" ELSE "give_up_join"
    /\ UNCHANGED <<running, reset, i, connectPc, m_isConnected, cached,
                   worldVars>>

\* Faulty variant: the destructor detaches the thread in place of joining it.
DetachConnectThread ==
    /\ mainPc \in {"join", "give_up_join"}
    /\ session' = FALSE
    /\ mainPc' = IF mainPc = "join" THEN "start" ELSE "failed"
    /\ UNCHANGED <<running, reset, i, connectPc, observer, clientVars, server,
                   compatible>>

\* ~OpcUaClient: join, then disconnect.  main starts over or returns -1.
DestroyClient ==
    /\ mainPc \in {"join", "give_up_join"}
    /\ connectPc = "ended"
    /\ connectPc' = "none"
    /\ session' = FALSE
    /\ mainPc' = IF mainPc = "join" THEN "start" ELSE "failed"
    /\ UNCHANGED <<running, reset, i, observer, clientVars, server,
                   compatible>>

-----------------------------------------------------------------------------
(* The world. *)

stopHandler ==
    /\ running
    /\ running' = FALSE
    /\ UNCHANGED <<reset, mainPc, i, connectPc, observer, clientVars,
                   worldVars>>

ServerLost ==
    /\ ~Ended
    /\ server
    /\ server' = FALSE
    /\ session' = FALSE
    /\ UNCHANGED <<running, reset, mainPc, i, connectPc, observer, clientVars,
                   compatible>>

ServerBack ==
    /\ ~Ended
    /\ ~server
    /\ server' = TRUE
    /\ compatible' \in BOOLEAN
    /\ compatible' => compatible
    /\ UNCHANGED <<running, reset, mainPc, i, connectPc, observer, clientVars,
                   session>>

Main ==
    \/ StartGateway
    \/ EndMain
    \/ ConstructClient
    \/ WaitForConnection
    \/ WaitEnds
    \/ ReadTypes
    \/ VerifyConnection
    \/ LeaveIterate
    \/ DestroyObserver
    \/ DestroyClient

ConnectThread ==
    \/ SessionConnect
    \/ SessionConnectFails
    \/ connectionStatusChanged
    \/ on_connected
    \/ ConnectThreadEnds

Requests == checkConnection \/ BadStatus

World == stopHandler \/ ServerLost \/ ServerBack

Next == Main \/ ConnectThread \/ Requests \/ World

Spec == Init /\ [][Next]_vars

\* Every thread goes on; of the server and the signal nothing is assumed.
FairSpec ==
    /\ Spec
    /\ WF_vars(Main)
    /\ WF_vars(ConnectThread)
    /\ WF_vars(checkConnection)

-----------------------------------------------------------------------------
(* Properties. *)

\* Neither a thread nor a session outlives the client: once main is about to
\* build the next one, or has returned, the update thread and the connect thread
\* have been joined, in whichever state the destructors found them, and the
\* session is closed, even one that the connect thread has established after
\* the destructor had begun.
ThreadsJoined ==
    mainPc \in {"start", "construct", "exited", "failed"}
        => connectPc = "none" /\ ~observer /\ ~session

\* A session with a server that came back with another namespace table is used
\* with the old cache at most until the connect thread that established it has
\* read the new table: there is no other way into such a session.
NewTableCompared ==
    session /\ ~compatible => connectPc \in {"connected", "update"}

\* The gateway does not go on without a session: while it iterates, a lost
\* session is replaced by the connect thread, or, if that one has given up for
\* good, VerifyConnection requests a reset.
LostSessionHandled ==
    (mainPc = "iterate" /\ ~session) ~> (session \/ mainPc # "iterate")

\* A gateway whose server stays reachable ends up serving, or has ended.  The
\* exception is the loop around ReadTypes after the connect thread has given up:
\* nothing in that loop asks for a reset to take effect.
ServesEventually ==
    <>[](server /\ running)
        => \/ <>[](mainPc = "iterate" /\ session)
           \/ <>Ended
           \/ <>[](mainPc = "types" /\ connectPc = "ended")

\* After a signal (stopHandler of Main.cpp), the gateway ends, or hangs in the
\* loop around ReadTypes, which looks at neither of the two flags.
SignalEndsUnlessReading ==
    [](~running => <>(Ended \/ [](mainPc = "types")))
=============================================================================
