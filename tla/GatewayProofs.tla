---------------------------- MODULE GatewayProofs ----------------------------
(****************************************************************************)
(* Threads and sessions of the gateway never outlive the client they belong *)
(* to, however long the wait for the connection is; and no session with a   *)
(* changed namespace table escapes the comparison.                          *)
(****************************************************************************)
EXTENDS Gateway, TLAPS

-----------------------------------------------------------------------------
(* Types, one lemma per thread. *)

\* The namespace update may be called by each thread that makes requests.
LEMMA UpdateKeepsFlags ==
    ASSUME TypeOK, updateNamespaceCache
    PROVE  reset' \in BOOLEAN /\ cached' \in BOOLEAN /\ compatible' \in BOOLEAN
BY Zenon DEF TypeOK, updateNamespaceCache

\* The main thread stays in main, and its wait at most at the bound.
LEMMA MainKeepsTypes == TypeOK /\ Main => TypeOK'
<1> SUFFICES ASSUME TypeOK, Main PROVE TypeOK'
  OBVIOUS
<1> USE DEF TypeOK, clientVars, worldVars
<1>pc. mainPc' \in MainPc
  BY DEF Main, MainPc, StartGateway, EndMain, ConstructClient,
    WaitForConnection, WaitEnds, ReadTypes, VerifyConnection, LeaveIterate,
    DestroyObserver, DestroyClient
<1>wait. CASE WaitForConnection
  <2>1. i' \in 0 .. MaxWait
    BY <1>wait, GatewayAssumption DEF WaitForConnection
  <2>2. QED
    BY <1>pc, <1>wait, <2>1, Zenon DEF WaitForConnection
<1>construct. CASE ConstructClient
  <2>1. i' \in 0 .. MaxWait /\ connectPc' \in ConnectPc
    BY <1>construct, GatewayAssumption DEF ConstructClient, ConnectPc
  <2>2. QED
    BY <1>pc, <1>construct, <2>1, Zenon DEF ConstructClient, ConnectFails
<1>ends. CASE StartGateway \/ EndMain \/ WaitEnds
  BY <1>pc, <1>ends, Zenon DEF StartGateway, EndMain, WaitEnds
<1>serves. CASE ReadTypes \/ VerifyConnection \/ LeaveIterate
  BY <1>pc, <1>serves, Zenon DEF ReadTypes, VerifyConnection, LeaveIterate
<1>observer. CASE DestroyObserver
  BY <1>pc, <1>observer, Zenon DEF DestroyObserver
<1>client. CASE DestroyClient
  BY <1>pc, <1>client, Zenon DEF DestroyClient, ConnectPc
<1> QED
  BY <1>client, <1>construct, <1>ends, <1>observer, <1>serves, <1>wait DEF Main

\* The connect thread stays in threadConnectExecution.
LEMMA ConnectThreadKeepsTypes == TypeOK /\ ConnectThread => TypeOK'
<1> SUFFICES ASSUME TypeOK, ConnectThread PROVE TypeOK'
  OBVIOUS
<1>pc. connectPc' \in ConnectPc
  BY DEF TypeOK, ConnectThread, ConnectPc, SessionConnect,
    SessionConnectFails, connectionStatusChanged, on_connected,
    ConnectThreadEnds
<1> USE <1>pc DEF TypeOK, clientVars, worldVars
<1>good. CASE SessionConnect
  BY <1>good, Zenon DEF SessionConnect
<1>bad. CASE SessionConnectFails
  BY <1>bad, Zenon DEF SessionConnectFails, ConnectFails
<1>status. CASE connectionStatusChanged
  BY <1>status, Zenon DEF connectionStatusChanged
<1>table. CASE on_connected
  <2>1. reset' \in BOOLEAN /\ cached' \in BOOLEAN /\ compatible' \in BOOLEAN
    BY <1>table, UpdateKeepsFlags, Zenon DEF on_connected
  <2>2. QED
    BY <1>table, <2>1, Zenon DEF on_connected
<1>ends. CASE ConnectThreadEnds
  BY <1>ends, Zenon DEF ConnectThreadEnds
<1> QED
  BY <1>bad, <1>ends, <1>good, <1>status, <1>table DEF ConnectThread

\* So do the requests of the other threads, the signal handler and the server.
LEMMA OthersKeepTypes == TypeOK /\ (Requests \/ World) => TypeOK'
<1> USE DEF TypeOK, clientVars, worldVars
<1>bad. TypeOK /\ BadStatus => TypeOK'
  <2> SUFFICES ASSUME TypeOK, BadStatus PROVE TypeOK'
    OBVIOUS
  <2>1. reset' \in BOOLEAN /\ cached' \in BOOLEAN /\ compatible' \in BOOLEAN
    BY UpdateKeepsFlags, Zenon DEF BadStatus
  <2>2. QED
    BY <2>1, Zenon DEF BadStatus
<1>check. TypeOK /\ checkConnection => TypeOK'
  BY Zenon DEF checkConnection
<1>signal. TypeOK /\ stopHandler => TypeOK'
  BY Zenon DEF stopHandler
<1>server. TypeOK /\ (ServerLost \/ ServerBack) => TypeOK'
  BY Zenon DEF ServerLost, ServerBack
<1> QED
  BY <1>bad, <1>check, <1>server, <1>signal, Zenon DEF Requests, World

\* The flags of the gateway and the places of its two threads keep their types:
\* in particular, the wait of DashboardOpcUaClient::connect ends at its bound.
THEOREM TypeCorrect == Spec => []TypeOK
<1>start. ASSUME Init PROVE TypeOK
  <2>1. 0 \in 0 .. MaxWait
    BY GatewayAssumption
  <2>2. QED
    BY <1>start, <2>1, Zenon DEF Init, TypeOK, MainPc, ConnectPc
<1>stutter. TypeOK /\ UNCHANGED vars => TypeOK'
  BY Zenon DEF TypeOK, vars, clientVars, worldVars
<1>step. TypeOK /\ [Next]_vars => TypeOK'
  BY <1>stutter, MainKeepsTypes, ConnectThreadKeepsTypes, OthersKeepTypes,
     Zenon DEF Next
<1> QED
  BY <1>start, <1>step, PTL DEF Spec

-----------------------------------------------------------------------------
(* Lifetimes. *)

\* Why ThreadsJoined is inductive: which threads exist is a function of the place
\* of the main thread, and sessions exist only beside a connect thread.
LifeInv ==
    /\ connectPc = "none"
           <=> mainPc \in {"start", "construct", "exited", "failed"}
    /\ observer => mainPc \in {"iterate", "stop"}
    /\ session => connectPc # "none"

\* Only constructors and destructors create and join threads.
LEMMA MainKeepsLifetimes == LifeInv /\ Main => LifeInv'
<1> SUFFICES ASSUME LifeInv, Main PROVE LifeInv'
  OBVIOUS
<1> USE DEF LifeInv, clientVars, worldVars
<1>construct. CASE ConstructClient
  BY <1>construct DEF ConstructClient
<1>destroy. CASE DestroyObserver \/ DestroyClient
  BY <1>destroy DEF DestroyObserver, DestroyClient
<1>other. CASE \/ StartGateway \/ EndMain \/ WaitForConnection \/ WaitEnds
               \/ ReadTypes \/ VerifyConnection \/ LeaveIterate
  BY <1>other DEF StartGateway, EndMain, WaitForConnection, WaitEnds, ReadTypes,
                  VerifyConnection, LeaveIterate
<1> QED
  BY <1>construct, <1>destroy, <1>other DEF Main

\* The connect thread moves between places other than "none", and nobody else
\* moves a thread at all.
THEOREM Lifetimes == Spec => []LifeInv
<1> USE DEF LifeInv, clientVars, worldVars
<1>start. Init => LifeInv
  BY DEF Init
<1>connect. LifeInv /\ ConnectThread => LifeInv'
  BY DEF ConnectThread, SessionConnect, SessionConnectFails,
         connectionStatusChanged, on_connected, ConnectThreadEnds
<1>request. LifeInv /\ Requests => LifeInv'
  BY DEF Requests, checkConnection, BadStatus
<1>world. LifeInv /\ (World \/ UNCHANGED vars) => LifeInv'
  BY DEF World, stopHandler, ServerLost, ServerBack, vars
<1>step. LifeInv /\ [Next]_vars => LifeInv'
  <2> HIDE DEF LifeInv
  <2> QED
    BY <1>connect, <1>request, <1>world, MainKeepsLifetimes DEF Next
<1> QED
  BY <1>start, <1>step, PTL DEF Spec

\* The destructors join both threads and then close the session, on each of
\* their paths: nothing is left when main builds the next client or returns.
THEOREM ThreadsAreJoined == Spec => []ThreadsJoined
<1>imp. LifeInv => ThreadsJoined
  BY DEF LifeInv, ThreadsJoined
<1> QED
  BY <1>imp, Lifetimes, PTL

-----------------------------------------------------------------------------
(* Sessions and namespace tables. *)

\* The table changes only while the server is away, and a session ends with it.
SessionInv == (session => server) /\ NewTableCompared

\* The connect thread passes on_connected after every new session, and nobody
\* else but the constructor, whose cache is empty, begins one.
THEOREM NewTableIsCompared == Spec => []NewTableCompared
<1> USE DEF SessionInv, NewTableCompared, clientVars, worldVars
<1>start. Init => SessionInv
  BY DEF Init
<1>main. SessionInv /\ LifeInv /\ Main => SessionInv'
  <2> SUFFICES ASSUME SessionInv, LifeInv, Main PROVE SessionInv'
    OBVIOUS
  <2>1. CASE StartGateway \/ ConstructClient
    BY <2>1 DEF StartGateway, ConstructClient, ConnectFails, LifeInv
  <2>2. CASE DestroyObserver \/ DestroyClient
    BY <2>2 DEF DestroyObserver, DestroyClient
  <2>3. CASE \/ EndMain \/ WaitForConnection \/ WaitEnds \/ ReadTypes
             \/ VerifyConnection \/ LeaveIterate
    BY <2>3 DEF EndMain, WaitForConnection, WaitEnds, ReadTypes,
       VerifyConnection, LeaveIterate
  <2> QED
    BY <2>1, <2>2, <2>3 DEF Main
<1>table. updateNamespaceCache /\ session => compatible'
  BY Zenon DEF updateNamespaceCache
<1>connect. SessionInv /\ ConnectThread => SessionInv'
  BY <1>table DEF ConnectThread, SessionConnect, SessionConnectFails,
     connectionStatusChanged, on_connected, ConnectThreadEnds
<1>request. SessionInv /\ Requests => SessionInv'
  BY <1>table DEF Requests, checkConnection, BadStatus
<1>world. SessionInv /\ (World \/ UNCHANGED vars) => SessionInv'
  BY DEF World, stopHandler, ServerLost, ServerBack, vars
<1>step. SessionInv /\ LifeInv /\ [Next]_vars => SessionInv'
  <2> HIDE DEF SessionInv
  <2> QED
    BY <1>connect, <1>main, <1>request, <1>world DEF Next
<1>imp. SessionInv => NewTableCompared
  OBVIOUS
<1> QED
  BY <1>start, <1>step, <1>imp, Lifetimes, PTL DEF Spec
=============================================================================
