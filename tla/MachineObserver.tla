--------------------------- MODULE MachineObserver ---------------------------
(****************************************************************************)
(* MachineObserver/ of the gateway: the update thread, which every ten      *)
(* seconds compares the machines found on the OPC UA server with the ones   *)
(* it knows (MachineObserver::UpdateMachines), and the main thread, which   *)
(* publishes the known machines and, every 30th time, the machine list      *)
(* (DashboardMachineObserver::PublishAll).                                  *)
(*                                                                          *)
(* The two threads share m_dashboardClients, m_onlineMachines,              *)
(* m_machineIdentificationsCache and m_invalidMachines.  Every section that *)
(* holds a mutex from its first to its last access is one action; what the  *)
(* update thread does between two such sections is a separate action.       *)
(* m_invalidMachines is written and read without a common mutex: a reader   *)
(* that meets a write in progress sees the entry or does not, or dies.      *)
(*                                                                          *)
(* A std::map of machines is the set of its keys, unless its values matter: *)
(* m_invalidMachines maps a machine to its skip counter (0: no entry), and  *)
(* the identification cache to what its JSON holds.                         *)
(****************************************************************************)
EXTENDS Naturals

CONSTANTS
    Machines,             \* NodeIds of the machines a server may offer
    IgnoredNodes,         \* the NodeIds hard-coded in addMachine
    NumSkipAfterInvalid,  \* MachineObserver.hpp:30
    PublishesPerList,     \* the 30 of PublishAll
    NoMachine             \* value of `cur' outside of addNewMachine

ASSUME ConstantsAssumption ==
    /\ IgnoredNodes \subseteq Machines
    /\ NumSkipAfterInvalid \in Nat \ {0}
    /\ PublishesPerList \in Nat \ {0}
    /\ NoMachine \notin Machines

VARIABLES
    \* The OPC UA server and the network.
    plant,        \* what the server offers of a machine
    session,      \* the OPC UA session works
    \* Members of MachineObserver and DashboardMachineObserver.
    m_knownMachines, m_knownMachineToolsSet, m_invalidMachines,
    m_dashboardClients, m_onlineMachines, m_machineNames,
    m_machineIdentificationsCache, m_running, m_publishMachinesOnline,
    \* The update thread: its place in UpdateMachines and its locals, which
    \* are emptied after their last use.
    updatePc, work, cur, toBeRemovedMachines, machineList, newMachines,
    machinesIdentification,
    \* The main thread.
    mainPc

serverVars == <<plant, session>>
registryVars == <<m_knownMachines, m_dashboardClients, m_onlineMachines,
                  m_machineNames>>
localVars == <<toBeRemovedMachines, machineList, newMachines,
               machinesIdentification>>
mainVars == <<mainPc, m_publishMachinesOnline>>

vars == <<serverVars, registryVars, localVars, mainVars,
          m_knownMachineToolsSet, m_invalidMachines,
          m_machineIdentificationsCache, m_running, updatePc, work, cur>>

\* absent: not below the Machines folder or without Identification;
\* offline: found, but its identification cannot be read;
\* invalid: readable, but a mandatory node or its type is missing.
PlantState == {"absent", "offline", "invalid", "good"}

\* What a cached identification JSON holds: nothing; only "Data"; also
\* "Topic", "MachineId" and "TypeDefinition".
Identification == {"none", "bare", "full"}

UpdatePc == {"sleep", "browse", "recreate", "check", "remove", "new", "add",
             "insert", "exited", "terminated"}

TypeOK ==
    /\ plant \in [Machines -> PlantState]
    /\ session \in BOOLEAN
    /\ m_knownMachines \subseteq Machines
    /\ m_knownMachineToolsSet \subseteq Machines
    /\ m_invalidMachines \in [Machines -> 0 .. NumSkipAfterInvalid]
    /\ m_dashboardClients \subseteq Machines
    /\ m_onlineMachines \subseteq Machines
    /\ m_machineNames \subseteq Machines
    /\ m_machineIdentificationsCache \in [Machines -> Identification]
    /\ m_running \in BOOLEAN
    /\ m_publishMachinesOnline \in 0 .. PublishesPerList
    /\ updatePc \in UpdatePc
    /\ work \subseteq Machines
    /\ cur \in Machines \cup {NoMachine}
    /\ updatePc \in {"add", "insert"} => cur \in Machines
    /\ toBeRemovedMachines \subseteq Machines
    /\ machineList \subseteq Machines
    /\ newMachines \subseteq Machines
    /\ machinesIdentification \in [Machines -> Identification]
    /\ mainPc \in {"iterate", "list", "join", "stopped", "aborted"}
    /\ mainPc # "list" => m_publishMachinesOnline < PublishesPerList

-----------------------------------------------------------------------------
NoIdentification == [m \in Machines |-> "none"]

\* A freshly constructed observer; its constructor starts the thread.
ObserverInit ==
    /\ m_knownMachines = {}
    /\ m_knownMachineToolsSet = {}
    /\ m_invalidMachines = [m \in Machines |-> 0]
    /\ m_dashboardClients = {}
    /\ m_onlineMachines = {}
    /\ m_machineNames = {}
    /\ m_machineIdentificationsCache = NoIdentification
    /\ m_running = TRUE
    /\ m_publishMachinesOnline = 0
    /\ updatePc = "sleep"
    /\ work = {}
    /\ cur = NoMachine
    /\ toBeRemovedMachines = {}
    /\ machineList = {}
    /\ newMachines = {}
    /\ machinesIdentification = NoIdentification
    /\ mainPc = "iterate"

Init ==
    /\ ObserverInit
    /\ plant \in [Machines -> PlantState]
    /\ session \in BOOLEAN

-----------------------------------------------------------------------------
(* The server. *)

PlantChange(m, s) ==
    /\ plant[m] # s
    /\ plant' = [plant EXCEPT ![m] = s]
    /\ UNCHANGED <<session, registryVars, localVars, mainVars,
                   m_knownMachineToolsSet, m_invalidMachines,
                   m_machineIdentificationsCache, m_running, updatePc, work,
                   cur>>

SessionChange ==
    /\ session' = ~session
    /\ UNCHANGED <<plant, registryVars, localVars, mainVars,
                   m_knownMachineToolsSet, m_invalidMachines,
                   m_machineIdentificationsCache, m_running, updatePc, work,
                   cur>>

-----------------------------------------------------------------------------
(* The update thread. *)

UpdateUnchanged ==
    UNCHANGED <<serverVars, mainVars, m_machineIdentificationsCache,
                m_running>>

Listed == {m \in Machines : plant[m] # "absent"}

\* UpdateMachines starts: every known machine is presumed to be removed.  (If
\* there is no session, the first Browse throws and UpdateMachines returns.)
StartUpdateMachines ==
    /\ updatePc = "sleep"
    /\ m_running
    /\ session
    /\ toBeRemovedMachines' = m_knownMachines
    /\ updatePc' = "browse"
    /\ UNCHANGED <<serverVars, registryVars, mainVars, m_knownMachineToolsSet,
                   m_invalidMachines, m_machineIdentificationsCache,
                   m_running, work, cur, machineList, newMachines,
                   machinesIdentification>>

\* canBrowseMachineList returned true; machineListsNotEqual compares the list
\* with m_knownMachineToolsSet, whose machines are removed if they differ.
BrowseMachineList ==
    /\ updatePc = "browse"
    /\ session
    /\ IF Listed # m_knownMachineToolsSet
         THEN /\ updatePc' = "recreate"
              /\ machineList' = Listed
              /\ work' = m_knownMachineToolsSet
         ELSE /\ updatePc' = "check"
              /\ work' = Listed
              /\ UNCHANGED machineList
    /\ UNCHANGED <<serverVars, registryVars, mainVars, m_knownMachineToolsSet,
                   m_invalidMachines, m_machineIdentificationsCache,
                   m_running, cur, toBeRemovedMachines, newMachines,
                   machinesIdentification>>

\* The session fails during the browse and canBrowseMachineList returns false.
CannotBrowse ==
    /\ updatePc = "browse"
    /\ ~session
    /\ updatePc' = "sleep"
    /\ toBeRemovedMachines' = {}
    /\ UpdateUnchanged
    /\ UNCHANGED <<registryVars, m_knownMachineToolsSet, m_invalidMachines,
                   work, cur, machineList, newMachines,
                   machinesIdentification>>

\* Faulty variants: one of the three erasures of removeMachine is forgotten.
RemoveKeepsClient(m) ==
    /\ m_knownMachines' = m_knownMachines \ {m}
    /\ m_onlineMachines' = m_onlineMachines \ {m}
    /\ UNCHANGED <<m_dashboardClients, m_machineNames>>

RemoveKeepsOnline(m) ==
    /\ m_knownMachines' = m_knownMachines \ {m}
    /\ m_dashboardClients' = m_dashboardClients \ {m}
    /\ UNCHANGED <<m_onlineMachines, m_machineNames>>

removeMachine(m) ==
    /\ m_knownMachines' = m_knownMachines \ {m}
    /\ m_dashboardClients' = m_dashboardClients \ {m}
    /\ m_onlineMachines' = m_onlineMachines \ {m}
    /\ UNCHANGED m_machineNames

\* One round of the loop of removeOfflineMachines(m_knownMachineToolsSet).
RecreateRemove(m) ==
    /\ updatePc = "recreate"
    /\ m \in work
    /\ removeMachine(m)
    /\ work' = work \ {m}
    /\ UpdateUnchanged
    /\ UNCHANGED <<m_knownMachineToolsSet, m_invalidMachines, updatePc, cur,
                   toBeRemovedMachines, newMachines, machinesIdentification,
                   machineList>>

recreateKnownMachineToolsMap ==
    /\ updatePc = "recreate"
    /\ work = {}
    /\ m_knownMachineToolsSet' = machineList
    /\ updatePc' = "check"
    /\ work' = machineList
    /\ machineList' = {}
    /\ UpdateUnchanged
    /\ UNCHANGED <<registryVars, m_invalidMachines, cur, toBeRemovedMachines,
                   newMachines, machinesIdentification>>

\* Faulty variant: only a complete machine counts as online.
OnlyCompleteOnline(m) == session /\ plant[m] = "good"

isOnline(m) == session /\ plant[m] \in {"invalid", "good"}

\* Faulty variant: the name of a machine is never found.
NeverNamed(m) == "bare"

browseIdentificationValues(m) ==
    IF m \in m_machineNames THEN "full" ELSE "bare"

\* The loop only calls the server, so it is one step; a machine whose read
\* failed is one that is offline at this moment.
findNewAndOfflineMachines ==
    /\ updatePc = "check"
    /\ LET online == {m \in work : isOnline(m)} IN
         /\ work' = toBeRemovedMachines \ online
         /\ newMachines' = online \ toBeRemovedMachines
         /\ machinesIdentification' =
              [m \in Machines |-> IF m \in online
                                    THEN browseIdentificationValues(m)
                                    ELSE "none"]
    /\ toBeRemovedMachines' = {}
    /\ updatePc' = "remove"
    /\ UpdateUnchanged
    /\ UNCHANGED <<registryVars, m_knownMachineToolsSet, m_invalidMachines,
                   cur, machineList>>

RemoveOffline(m) ==
    /\ updatePc = "remove"
    /\ m \in work
    /\ removeMachine(m)
    /\ work' = work \ {m}
    /\ UpdateUnchanged
    /\ UNCHANGED <<m_knownMachineToolsSet, m_invalidMachines, updatePc, cur,
                   toBeRemovedMachines, newMachines, machinesIdentification,
                   machineList>>

removeOfflineMachines ==
    /\ updatePc = "remove"
    /\ work = {}
    /\ updatePc' = "new"
    /\ work' = newMachines
    /\ newMachines' = {}
    /\ UpdateUnchanged
    /\ UNCHANGED <<registryVars, m_knownMachineToolsSet, m_invalidMachines,
                   cur, toBeRemovedMachines, machineList,
                   machinesIdentification>>

\* Faulty variant: the counter is not decremented.
NotDecremented(n) == n

StillSkipped(m) == m_invalidMachines[m] > 1
Decremented(n) == IF n > 0 THEN n - 1 ELSE 0

\* The counter of a blacklisted machine is decremented; at 0 the entry is
\* erased and the machine is tried again in the same round.
ignoreInvalidMachinesTemporarily(m) ==
    /\ updatePc = "new"
    /\ m \in work
    /\ work' = work \ {m}
    /\ IF StillSkipped(m)
         THEN UNCHANGED <<updatePc, cur>>
         ELSE updatePc' = "add" /\ cur' = m
    /\ m_invalidMachines' = [m_invalidMachines EXCEPT ![m] = Decremented(@)]
    /\ UpdateUnchanged
    /\ UNCHANGED <<registryVars, m_knownMachineToolsSet, toBeRemovedMachines,
                   newMachines, machinesIdentification, machineList>>

\* addMachine returns early for an ignored NodeId; addNewMachine then counts
\* it as known all the same.
AddIgnored ==
    /\ updatePc = "add"
    /\ cur \in IgnoredNodes
    /\ m_knownMachines' = m_knownMachines \cup {cur}
    /\ updatePc' = "new"
    /\ cur' = NoMachine
    /\ UpdateUnchanged
    /\ UNCHANGED <<m_dashboardClients, m_onlineMachines, m_machineNames,
                   m_knownMachineToolsSet, m_invalidMachines, work,
                   toBeRemovedMachines, newMachines, machinesIdentification,
                   machineList>>

\* typeDefinitionToStructureNode succeeded: a client that is already there is
\* dropped, without the mutex; addDataSet then succeeds ...
AddDataSetOk ==
    /\ updatePc = "add"
    /\ cur \notin IgnoredNodes
    /\ plant[cur] = "good"
    /\ m_dashboardClients' = m_dashboardClients \ {cur}
    /\ updatePc' = "insert"
    /\ UpdateUnchanged
    /\ UNCHANGED <<m_knownMachines, m_onlineMachines, m_machineNames,
                   m_knownMachineToolsSet, m_invalidMachines, work, cur,
                   toBeRemovedMachines, newMachines, machinesIdentification,
                   machineList>>

\* ... or ends in an exception that addMachine turns into a
\* MachineInvalidException, as the lookup of the type also does: a mandatory
\* node is missing, or could not be read at this moment.
AddInvalid ==
    /\ updatePc = "add"
    /\ cur \notin IgnoredNodes
    /\ plant[cur] # "good" \/ ~session
    /\ m_dashboardClients' \in {m_dashboardClients,
                               m_dashboardClients \ {cur}}
    /\ m_invalidMachines' = [m_invalidMachines EXCEPT
                               ![cur] = IF @ = 0 THEN NumSkipAfterInvalid
                                                 ELSE @]
    /\ updatePc' = "new"
    /\ cur' = NoMachine
    /\ UpdateUnchanged
    /\ UNCHANGED <<m_knownMachines, m_onlineMachines, m_machineNames,
                   m_knownMachineToolsSet, work, toBeRemovedMachines,
                   newMachines, machinesIdentification, machineList>>

\* The insertions under m_dashboardClients_mutex, then m_knownMachines.
InsertMachine ==
    /\ updatePc = "insert"
    /\ m_dashboardClients' = m_dashboardClients \cup {cur}
    /\ m_onlineMachines' = m_onlineMachines \cup {cur}
    /\ m_machineNames' = m_machineNames \cup {cur}
    /\ m_knownMachines' = m_knownMachines \cup {cur}
    /\ updatePc' = "new"
    /\ cur' = NoMachine
    /\ UpdateUnchanged
    /\ UNCHANGED <<m_knownMachineToolsSet, m_invalidMachines, work,
                   toBeRemovedMachines, newMachines, machinesIdentification,
                   machineList>>

\* The last block of UpdateMachines.
ReplaceIdentificationsCache ==
    /\ updatePc = "new"
    /\ work = {}
    /\ m_machineIdentificationsCache' = machinesIdentification
    /\ machinesIdentification' = NoIdentification
    /\ updatePc' = "sleep"
    /\ UNCHANGED <<serverVars, registryVars, mainVars, toBeRemovedMachines,
                   machineList, newMachines,
                   m_knownMachineToolsSet, m_invalidMachines, m_running,
                   work, cur>>

UpdateThreadExits ==
    /\ updatePc = "sleep"
    /\ ~m_running
    /\ updatePc' = "exited"
    /\ UNCHANGED <<serverVars, registryVars, localVars, mainVars,
                   m_knownMachineToolsSet, m_invalidMachines,
                   m_machineIdentificationsCache, m_running, work, cur>>

-----------------------------------------------------------------------------
(* The main thread. *)

MainUnchanged ==
    UNCHANGED <<serverVars, registryVars, localVars, m_knownMachineToolsSet,
                m_invalidMachines, m_machineIdentificationsCache, work, cur>>

ListDue(n) == n >= PublishesPerList

\* Every client publishes (module Publication); then the counter.
PublishAll ==
    /\ mainPc = "iterate"
    /\ m_publishMachinesOnline' = m_publishMachinesOnline + 1
    /\ mainPc' = IF ListDue(m_publishMachinesOnline') THEN "list"
                                                     ELSE "iterate"
    /\ MainUnchanged
    /\ UNCHANGED <<m_running, updatePc>>

\* Entries of m_invalidMachines that the update thread may be inserting or
\* erasing at this moment.
InvalidBeingWritten ==
    CASE updatePc = "new" -> {m \in work : m_invalidMachines[m] = 1}
      [] updatePc = "add" -> {cur}
      [] OTHER -> {}

Blacklist == {m \in Machines : m_invalidMachines[m] > 0}

\* The payloads of a publication at this moment; while an entry of
\* m_invalidMachines is being written, the error list may have it or not.
ListPayload ==
    [m \in Machines |-> IF m \in m_onlineMachines
                          THEN m_machineIdentificationsCache[m] ELSE "none"]

ErrorListPayloads ==
    {{m \in (Blacklist \ InvalidBeingWritten) \cup seen :
          m_machineIdentificationsCache[m] # "none"} :
       seen \in SUBSET InvalidBeingWritten}

\* ListPayload and one of ErrorListPayloads are sent to the broker.
publishMachinesList ==
    /\ mainPc = "list"
    /\ m_publishMachinesOnline' = 0
    /\ mainPc' = "iterate"
    /\ MainUnchanged
    /\ UNCHANGED <<m_running, updatePc>>

\* Faulty variant: the destructor joins without clearing m_running.
JoinWithoutStop ==
    /\ mainPc = "iterate"
    /\ mainPc' = "join"
    /\ MainUnchanged
    /\ UNCHANGED <<m_running, m_publishMachinesOnline, updatePc>>

\* The destructor: m_running is cleared and the thread joined.
stopMachineUpdateThread ==
    /\ mainPc = "iterate"
    /\ m_running' = FALSE
    /\ mainPc' = "join"
    /\ MainUnchanged
    /\ UNCHANGED <<m_publishMachinesOnline, updatePc>>

\* The maps are destroyed.
ObserverDestroyed ==
    /\ m_knownMachines' = {}
    /\ m_knownMachineToolsSet' = {}
    /\ m_invalidMachines' = [m \in Machines |-> 0]
    /\ m_dashboardClients' = {}
    /\ m_onlineMachines' = {}
    /\ m_machineNames' = {}
    /\ m_machineIdentificationsCache' = NoIdentification
    /\ m_publishMachinesOnline' = 0
    /\ work' = {}
    /\ cur' = NoMachine
    /\ toBeRemovedMachines' = {}
    /\ machineList' = {}
    /\ newMachines' = {}
    /\ machinesIdentification' = NoIdentification
    /\ m_running' = FALSE
    /\ UNCHANGED serverVars

JoinUpdateThread ==
    /\ mainPc = "join"
    /\ updatePc = "exited"
    /\ mainPc' = "stopped"
    /\ ObserverDestroyed
    /\ UNCHANGED updatePc

\* The session fails while the class of a type node is read: readNodeClass
\* swallows the bad status, nodeClassFromNodeId throws a plain UmatiException,
\* and no handler of the update thread catches that: std::terminate.
BrowseTerminates ==
    /\ updatePc = "browse"
    /\ ~session
    /\ Listed # {}
    /\ updatePc' = "terminated"
    /\ mainPc' = "aborted"
    /\ ObserverDestroyed

\* The traversal of m_invalidMachines runs into a node that is being erased.
PublishMachinesListTorn ==
    /\ mainPc = "list"
    /\ InvalidBeingWritten # {}
    /\ mainPc' = "aborted"
    /\ updatePc' = "exited"
    /\ ObserverDestroyed

\* A reset, or a new process: a new observer whose constructor starts the
\* thread.
startUpdateMachineThread ==
    /\ mainPc \in {"stopped", "aborted"}
    /\ m_running' = TRUE
    /\ updatePc' = "sleep"
    /\ mainPc' = "iterate"
    /\ MainUnchanged
    /\ UNCHANGED m_publishMachinesOnline

-----------------------------------------------------------------------------
UpdateThread ==
    \/ StartUpdateMachines
    \/ BrowseMachineList
    \/ CannotBrowse
    \/ recreateKnownMachineToolsMap
    \/ findNewAndOfflineMachines
    \/ removeOfflineMachines
    \/ AddIgnored \/ AddDataSetOk \/ AddInvalid \/ InsertMachine
    \/ ReplaceIdentificationsCache
    \/ UpdateThreadExits
    \/ \E m \in Machines : \/ RecreateRemove(m)
                           \/ RemoveOffline(m)
                           \/ ignoreInvalidMachinesTemporarily(m)

Publishing == PublishAll \/ publishMachinesList

Next ==
    \/ UpdateThread
    \/ BrowseTerminates
    \/ Publishing
    \/ PublishMachinesListTorn
    \/ stopMachineUpdateThread
    \/ JoinUpdateThread
    \/ startUpdateMachineThread
    \/ SessionChange
    \/ \E m \in Machines, s \in PlantState : PlantChange(m, s)

Spec == Init /\ [][Next]_vars

\* Both threads are running loops: neither waits for the other except for a
\* mutex the other releases in the same action, or in the join.
FairSpec == Spec /\ WF_vars(UpdateThread) /\ WF_vars(Publishing)
                 /\ WF_vars(JoinUpdateThread)

-----------------------------------------------------------------------------
(* The promise of the observer: ServedMachines under this mapping. *)

Served == INSTANCE ServedMachines WITH
    alive    <- mainPc \notin {"stopped", "aborted"},
    list     <- IF updatePc = "recreate" THEN machineList
                                         ELSE m_knownMachineToolsSet,
    served   <- m_dashboardClients,
    leaving  <- IF updatePc \in {"recreate", "remove"}
                  THEN work \cap m_dashboardClients ELSE {},
    accepted <- IF updatePc = "insert" THEN cur ELSE NoMachine

\* The update thread, which works on six maps in a dozen steps that the main
\* thread, the server and crashes may interrupt (MachineObserver.cpp:57-124),
\* only ever serves machines that were complete when they were looked at, and
\* withdraws only those that a new list or an unreadable identification
\* condemns, all of them before it looks at anything else.
ImplementsServed == Served!Spec

(* Properties. *)

\* What UpdateMachines knows and what PublishAll serves are the same machines:
\* the three registries are changed in different critical sections, yet a
\* machine has a client exactly if it is listed as online, it is then known,
\* and a known machine without a client is one of the ignored NodeIds.
RegistriesAgree ==
    /\ m_dashboardClients = m_onlineMachines
    /\ m_dashboardClients \subseteq m_knownMachines
    /\ m_knownMachines \subseteq m_dashboardClients \cup IgnoredNodes

\* addMachine drops an existing client of the machine without holding
\* m_dashboardClients_mutex (DashboardMachineObserver.cpp:162-169), while the
\* main thread may be iterating over the map: that branch is never taken.
NoUnlockedErase == updatePc = "add" => cur \notin m_dashboardClients

\* A machine is known only while the last accepted machine list names it: a
\* machine that vanished from the Machines folder has no client after the
\* comparison of the lists, whatever happened in the rounds before.
KnownAreListed == m_knownMachines \subseteq m_knownMachineToolsSet

\* A machine on the blacklist is not served: it "will only be added, when it
\* reaches 0 again" (MachineObserver.hpp:73).
BlacklistedNotServed == Blacklist \cap m_knownMachines = {}

\* The machine list and the error list, built in one critical section but from
\* maps of which one is written without a lock, never name the same machine.
ListsDisjoint ==
    \A errors \in ErrorListPayloads, m \in Machines :
        m \in errors => ListPayload[m] = "none"

\* A machine that stays valid and reachable is served again and again, even if
\* the other machines on the server come and go.
GoodMachineServed ==
    \A m \in Machines \ IgnoredNodes :
        <>[](plant[m] = "good" /\ session /\ mainPc \in {"iterate", "list"})
            => []<>(m \in m_dashboardClients)

\* Once the server stops changing, the published machine list converges to it:
\* complete entries for the valid machines, and none for those that are gone.
\* (A machine that lost a mandatory node after it was added stays listed:
\* addMachine alone looks at the nodes.)
ListConverges ==
    \A p \in [Machines -> PlantState] :
        <>[](plant = p /\ session /\ mainPc \in {"iterate", "list"})
            => \A m \in Machines \ IgnoredNodes :
                 /\ p[m] = "good" =>
                      <>[](mainPc = "list" => ListPayload[m] = "full")
                 /\ p[m] \in {"absent", "offline"} =>
                      <>[](mainPc = "list" => ListPayload[m] = "none")

\* The destructor terminates: the thread leaves its loop and is joined.
StopJoins == mainPc = "join" ~> mainPc = "stopped" \/ mainPc = "aborted"
=============================================================================
