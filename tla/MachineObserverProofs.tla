------------------------ MODULE MachineObserverProofs ------------------------
(****************************************************************************)
(* Proofs about MachineObserver, for any set of machines and any values of  *)
(* the two periods.  The registries are related to each other only through  *)
(* the locals of the update thread: the inductive invariant says, for each  *)
(* place in UpdateMachines, which machines the locals can still hold.       *)
(****************************************************************************)
EXTENDS MachineObserver, TLAPS

\* Where the update thread is, and what its locals then say of the registries.
LocalsInv ==
    /\ updatePc = "browse" => toBeRemovedMachines = m_knownMachines
    /\ updatePc = "recreate" => /\ m_knownMachines \subseteq work
                                /\ m_knownMachines \subseteq toBeRemovedMachines
    /\ updatePc = "check" => /\ work = m_knownMachineToolsSet
                             /\ m_knownMachines \subseteq toBeRemovedMachines
    /\ updatePc = "remove" => /\ newMachines \cap m_knownMachines = {}
                              /\ newMachines \subseteq m_knownMachineToolsSet
    /\ updatePc \in {"new", "add", "insert"} =>
         /\ work \cap m_knownMachines = {}
         /\ work \subseteq m_knownMachineToolsSet
    /\ updatePc \in {"add", "insert"} =>
         /\ cur \in m_knownMachineToolsSet \ m_knownMachines
         /\ cur \notin work
         /\ m_invalidMachines[cur] = 0

IndInv ==
    /\ TypeOK
    /\ RegistriesAgree
    /\ KnownAreListed
    /\ BlacklistedNotServed
    /\ LocalsInv

\* One step of either thread keeps the type invariant.
LEMMA TypeStep == TypeOK /\ [Next]_vars => TypeOK'
<1> SUFFICES ASSUME TypeOK, [Next]_vars PROVE TypeOK'
  OBVIOUS
<1> USE ConstantsAssumption DEF TypeOK, UpdatePc
<1>1. CASE StartUpdateMachines
  BY <1>1 DEF StartUpdateMachines, serverVars, registryVars, mainVars
<1>2. CASE BrowseMachineList
  BY <1>2 DEF BrowseMachineList, serverVars, registryVars, mainVars, Listed
<1>3. CASE CannotBrowse
  BY <1>3 DEF CannotBrowse, UpdateUnchanged, serverVars, registryVars,
     mainVars
<1>4. CASE recreateKnownMachineToolsMap
  BY <1>4 DEF recreateKnownMachineToolsMap, UpdateUnchanged, serverVars,
     registryVars, mainVars
<1>5. CASE findNewAndOfflineMachines
  BY <1>5 DEF findNewAndOfflineMachines, browseIdentificationValues,
     Identification, UpdateUnchanged, serverVars, registryVars, mainVars
<1>6. CASE removeOfflineMachines
  BY <1>6 DEF removeOfflineMachines, UpdateUnchanged, serverVars,
     registryVars, mainVars
<1>7. CASE AddIgnored
  BY <1>7 DEF AddIgnored, UpdateUnchanged, serverVars, mainVars
<1>8. CASE AddDataSetOk
  BY <1>8 DEF AddDataSetOk, UpdateUnchanged, serverVars, mainVars
<1>9. CASE AddInvalid
  BY <1>9 DEF AddInvalid, UpdateUnchanged, serverVars, mainVars
<1>10. CASE InsertMachine
  BY <1>10 DEF InsertMachine, UpdateUnchanged, serverVars, mainVars
<1>11. CASE ReplaceIdentificationsCache
  BY <1>11 DEF ReplaceIdentificationsCache, NoIdentification,
     Identification, serverVars, registryVars, mainVars
<1>12. CASE UpdateThreadExits
  BY <1>12 DEF UpdateThreadExits, serverVars, registryVars, localVars,
     mainVars
<1>13. CASE \E m \in Machines : RecreateRemove(m)
  BY <1>13 DEF RecreateRemove, removeMachine, UpdateUnchanged, serverVars,
     mainVars
<1>14. CASE \E m \in Machines : RemoveOffline(m)
  BY <1>14 DEF RemoveOffline, removeMachine, UpdateUnchanged, serverVars,
     mainVars
<1>15. CASE \E m \in Machines : ignoreInvalidMachinesTemporarily(m)
  BY <1>15 DEF ignoreInvalidMachinesTemporarily, Decremented, UpdateUnchanged,
     serverVars, registryVars, mainVars
<1>16. CASE Publishing
  <2>1. CASE PublishAll
    BY <2>1 DEF PublishAll, ListDue, MainUnchanged, serverVars, registryVars,
       localVars
  <2>2. CASE publishMachinesList
    BY <2>2 DEF publishMachinesList, MainUnchanged, serverVars,
       registryVars, localVars
  <2> QED BY <1>16, <2>1, <2>2 DEF Publishing
<1>17. CASE BrowseTerminates \/ PublishMachinesListTorn \/ JoinUpdateThread
  <2>1. /\ updatePc' \in {"exited", "terminated"}
        /\ mainPc' \in {"aborted", "stopped"}
        /\ ObserverDestroyed
    BY <1>17 DEF BrowseTerminates, PublishMachinesListTorn, JoinUpdateThread
  <2>2. /\ m_publishMachinesOnline' \in 0 .. PublishesPerList
        /\ m_publishMachinesOnline' < PublishesPerList
        /\ m_invalidMachines' \in [Machines -> 0 .. NumSkipAfterInvalid]
    BY <2>1 DEF ObserverDestroyed
  <2> QED
    BY <2>1, <2>2 DEF ObserverDestroyed, NoIdentification, Identification,
       serverVars
<1>18. CASE stopMachineUpdateThread \/ startUpdateMachineThread
  BY <1>18 DEF stopMachineUpdateThread, startUpdateMachineThread,
     MainUnchanged, serverVars, registryVars, localVars
<1>19. CASE SessionChange
  BY <1>19 DEF SessionChange, registryVars, localVars, mainVars
<1>20. CASE \E m \in Machines, s \in PlantState : PlantChange(m, s)
  BY <1>20 DEF PlantChange, registryVars, localVars, mainVars
<1>21. CASE UNCHANGED vars
  BY <1>21 DEF vars, serverVars, registryVars, localVars, mainVars
<1> QED
  BY <1>1, <1>2, <1>3, <1>4, <1>5, <1>6, <1>7, <1>8, <1>9, <1>10, <1>11,
     <1>12, <1>13, <1>14, <1>15, <1>16, <1>17, <1>18, <1>19, <1>20, <1>21
     DEF Next, UpdateThread

\* The type invariant: every member and every local of the two threads keeps
\* its type through UpdateMachines, PublishAll and the destructor.
THEOREM TypeCorrect == Spec => []TypeOK
<1>1. Init => TypeOK
  BY ConstantsAssumption DEF Init, ObserverInit, TypeOK, NoIdentification,
     Identification, PlantState, UpdatePc
<1> QED BY <1>1, TypeStep, PTL DEF Spec

\* A thread or server that does not touch the registries and the locals of the
\* update thread keeps the invariant.
LEMMA OthersStep ==
    ASSUME IndInv, TypeOK',
           UNCHANGED <<m_knownMachines, m_knownMachineToolsSet,
                       m_invalidMachines, m_dashboardClients,
                       m_onlineMachines, work, cur, toBeRemovedMachines,
                       newMachines>>,
           \/ UNCHANGED updatePc
           \/ updatePc' \in {"sleep", "exited"}
    PROVE  IndInv'
BY DEF IndInv, RegistriesAgree, KnownAreListed, BlacklistedNotServed,
   Blacklist, LocalsInv

\* One step of either thread keeps the inductive invariant.
LEMMA IndInvStep == IndInv /\ [Next]_vars => IndInv'
<1> SUFFICES ASSUME IndInv, [Next]_vars PROVE IndInv'
  OBVIOUS
<1>0. TypeOK /\ TypeOK'
  BY TypeStep DEF IndInv
<1> USE <1>0 DEF RegistriesAgree, KnownAreListed, BlacklistedNotServed,
                 Blacklist, LocalsInv
<1>1. CASE StartUpdateMachines
  BY <1>1 DEF IndInv, StartUpdateMachines, registryVars
<1>2. CASE BrowseMachineList
  BY <1>2 DEF IndInv, BrowseMachineList, registryVars
<1>3. CASE CannotBrowse
  BY <1>3 DEF IndInv, CannotBrowse, registryVars
<1>4. CASE recreateKnownMachineToolsMap
  BY <1>4 DEF IndInv, recreateKnownMachineToolsMap, registryVars
<1>5. CASE findNewAndOfflineMachines
  BY <1>5 DEF IndInv, findNewAndOfflineMachines, registryVars
<1>6. CASE removeOfflineMachines
  BY <1>6 DEF IndInv, removeOfflineMachines, registryVars
<1>7. CASE AddIgnored
  BY <1>7 DEF IndInv, AddIgnored
<1>8. CASE AddDataSetOk
  BY <1>8 DEF IndInv, AddDataSetOk
<1>9. CASE AddInvalid
  BY <1>9, ConstantsAssumption DEF IndInv, AddInvalid, TypeOK
<1>10. CASE InsertMachine
  BY <1>10 DEF IndInv, InsertMachine
<1>11. CASE ReplaceIdentificationsCache
  BY <1>11, OthersStep DEF ReplaceIdentificationsCache, registryVars
<1>12. CASE UpdateThreadExits
  BY <1>12, OthersStep DEF UpdateThreadExits, registryVars, localVars
<1>13. ASSUME NEW m \in Machines, RecreateRemove(m) PROVE IndInv'
  BY <1>13 DEF IndInv, RecreateRemove, removeMachine
<1>14. ASSUME NEW m \in Machines, RemoveOffline(m) PROVE IndInv'
  BY <1>14 DEF IndInv, RemoveOffline, removeMachine
<1>15. ASSUME NEW m \in Machines, ignoreInvalidMachinesTemporarily(m)
       PROVE  IndInv'
  BY <1>15 DEF IndInv, ignoreInvalidMachinesTemporarily, StillSkipped,
     Decremented, registryVars, TypeOK
<1>16. CASE PublishAll \/ publishMachinesList \/ stopMachineUpdateThread
            \/ startUpdateMachineThread
  BY <1>16, OthersStep DEF PublishAll, publishMachinesList, MainUnchanged,
     stopMachineUpdateThread, startUpdateMachineThread, registryVars,
     localVars
<1>17. CASE BrowseTerminates \/ PublishMachinesListTorn \/ JoinUpdateThread
  BY <1>17 DEF IndInv, BrowseTerminates, PublishMachinesListTorn,
     JoinUpdateThread, ObserverDestroyed
<1>18. CASE SessionChange \/ \E m \in Machines, s \in PlantState :
                                PlantChange(m, s)
  BY <1>18, OthersStep DEF SessionChange, PlantChange, registryVars, localVars
<1>19. CASE UNCHANGED vars
  BY <1>19, OthersStep DEF vars, registryVars, localVars
<1> QED
  BY <1>1, <1>2, <1>3, <1>4, <1>5, <1>6, <1>7, <1>8, <1>9, <1>10, <1>11,
     <1>12, <1>13, <1>14, <1>15, <1>16, <1>17, <1>18, <1>19
     DEF Next, UpdateThread, Publishing

LEMMA IndInvHolds == Spec => []IndInv
<1>1. Init => IndInv
  <2>1. Init => TypeOK
    BY ConstantsAssumption DEF Init, ObserverInit, TypeOK, NoIdentification,
       Identification, PlantState, UpdatePc
  <2> QED
    BY <2>1 DEF IndInv, Init, ObserverInit, RegistriesAgree, KnownAreListed,
       BlacklistedNotServed, Blacklist, LocalsInv
<1> QED BY <1>1, IndInvStep, PTL DEF Spec

\* For any number of machines: a machine has a client exactly if it is online,
\* and the machines with a client are the known ones but the ignored NodeIds.
THEOREM RegistriesAlwaysAgree == Spec => []RegistriesAgree
<1>1. IndInv => RegistriesAgree
  BY DEF IndInv
<1> QED BY <1>1, IndInvHolds, PTL

\* For any number of machines: addMachine never erases from m_dashboardClients
\* outside of the mutex.
THEOREM UnlockedEraseUnreachable == Spec => []NoUnlockedErase
<1>1. IndInv => NoUnlockedErase
  BY DEF IndInv, NoUnlockedErase, LocalsInv, RegistriesAgree
<1> QED BY <1>1, IndInvHolds, PTL

\* For any number of machines: only machines of the last accepted list are
\* known.
THEOREM KnownAlwaysListed == Spec => []KnownAreListed
<1>1. IndInv => KnownAreListed
  BY DEF IndInv
<1> QED BY <1>1, IndInvHolds, PTL

\* For any blacklist period: a machine on the blacklist is not known, hence
\* not served.
THEOREM BlacklistRespected == Spec => []BlacklistedNotServed
<1>1. IndInv => BlacklistedNotServed
  BY DEF IndInv
<1> QED BY <1>1, IndInvHolds, PTL

\* The machine list and the error list are disjoint, although the error list is
\* read from a map that the update thread may be writing.
THEOREM ListsAlwaysDisjoint == Spec => []ListsDisjoint
<1>1. IndInv => ListsDisjoint
  <2> SUFFICES ASSUME IndInv, NEW errors \in ErrorListPayloads,
                      NEW m \in Machines, m \in errors
               PROVE  m \notin m_onlineMachines
    BY DEF ListsDisjoint, ListPayload
  <2>1. m \in Blacklist \cup InvalidBeingWritten
    BY DEF ErrorListPayloads
  <2>2. InvalidBeingWritten \cap m_knownMachines = {}
    BY DEF IndInv, LocalsInv, InvalidBeingWritten
  <2> QED
    BY <2>1, <2>2 DEF IndInv, BlacklistedNotServed, RegistriesAgree
<1> QED BY <1>1, IndInvHolds, PTL

-----------------------------------------------------------------------------
(* The observer implements ServedMachines. *)

\* Once the destructor returned or the process died, there is no update thread.
JoinedInv == mainPc \in {"stopped", "aborted"} =>
                 updatePc \in {"exited", "terminated"}

LEMMA JoinedStep == JoinedInv /\ [Next]_vars => JoinedInv'
<1> SUFFICES ASSUME JoinedInv, [Next]_vars PROVE JoinedInv'
  OBVIOUS
<1> USE DEF JoinedInv, serverVars, registryVars, localVars, mainVars
<1>update. CASE UpdateThread
  <2>1. updatePc \notin {"exited", "terminated"} /\ UNCHANGED mainPc
    BY <1>update DEF UpdateThread, UpdateUnchanged, StartUpdateMachines,
      BrowseMachineList, CannotBrowse, recreateKnownMachineToolsMap,
      findNewAndOfflineMachines, removeOfflineMachines, AddIgnored,
      AddDataSetOk, AddInvalid, InsertMachine, ReplaceIdentificationsCache,
      UpdateThreadExits, RecreateRemove, RemoveOffline,
      ignoreInvalidMachinesTemporarily
  <2> QED BY <2>1
<1>main. CASE Publishing \/ stopMachineUpdateThread \/ startUpdateMachineThread
  BY <1>main DEF Publishing, PublishAll, publishMachinesList,
                 stopMachineUpdateThread, startUpdateMachineThread
<1>ends. CASE BrowseTerminates \/ PublishMachinesListTorn \/ JoinUpdateThread
  BY <1>ends DEF BrowseTerminates, PublishMachinesListTorn, JoinUpdateThread
<1>world. CASE SessionChange \/ \E m \in Machines, s \in PlantState :
                                   PlantChange(m, s)
  BY <1>world DEF SessionChange, PlantChange
<1>stutter. CASE UNCHANGED vars
  BY <1>stutter DEF vars
<1> QED
  BY <1>ends, <1>main, <1>stutter, <1>update, <1>world DEF Next

\* Every step of the two threads is a step of ServedMachines or none at all.
LEMMA StepImplements ==
    ASSUME IndInv, JoinedInv, [Next]_vars
    PROVE  [Served!Next]_(Served!vars)
<1> USE DEF JoinedInv, Served!vars, Served!world
<1>0. TypeOK /\ RegistriesAgree /\ KnownAreListed /\ LocalsInv
  BY DEF IndInv
<1>1. CASE StartUpdateMachines
  BY <1>1 DEF StartUpdateMachines, serverVars, registryVars, mainVars
<1>2. CASE BrowseMachineList
  <2>1. CASE Listed = m_knownMachineToolsSet
    BY <1>2, <2>1 DEF BrowseMachineList, serverVars, registryVars, mainVars
  <2>2. CASE Listed # m_knownMachineToolsSet
    <3>1. Served!NewList
      BY <1>0, <1>2, <2>2
      DEF BrowseMachineList, serverVars, registryVars, mainVars, Listed,
          TypeOK, RegistriesAgree, KnownAreListed, Served!NewList,
          Served!Offered
    <3> QED BY <3>1 DEF Served!Next
  <2> QED BY <2>1, <2>2
<1>3. CASE CannotBrowse
  BY <1>3 DEF CannotBrowse, UpdateUnchanged, serverVars, registryVars, mainVars
<1>4. CASE recreateKnownMachineToolsMap
  BY <1>4 DEF recreateKnownMachineToolsMap, UpdateUnchanged, serverVars,
              registryVars, mainVars
<1>5. CASE findNewAndOfflineMachines
  <2>1. Served!Judge
    BY <1>0, <1>5
    DEF findNewAndOfflineMachines, isOnline, UpdateUnchanged, serverVars,
        registryVars, mainVars, TypeOK, RegistriesAgree, KnownAreListed,
        LocalsInv, Served!Judge, Served!Readable
  <2> QED BY <2>1 DEF Served!Next
<1>6. CASE removeOfflineMachines
  BY <1>6 DEF removeOfflineMachines, UpdateUnchanged, serverVars, registryVars,
              mainVars
<1>7. CASE AddIgnored
  BY <1>7 DEF AddIgnored, UpdateUnchanged, serverVars, mainVars
<1>8. CASE AddDataSetOk
  <2>1. Served!Accept(cur) /\ cur \in Machines
    BY <1>0, <1>8, ConstantsAssumption
    DEF AddDataSetOk, UpdateUnchanged, serverVars, mainVars, TypeOK,
        RegistriesAgree, LocalsInv, Served!Accept
  <2> QED BY <2>1 DEF Served!Next
<1>9. CASE AddInvalid
  BY <1>0, <1>9 DEF AddInvalid, UpdateUnchanged, serverVars, mainVars,
                    RegistriesAgree, LocalsInv
<1>10. CASE InsertMachine
  <2>1. Served!Serve
    BY <1>0, <1>10, ConstantsAssumption
    DEF InsertMachine, UpdateUnchanged, serverVars, mainVars, TypeOK,
        Served!Serve
  <2> QED BY <2>1 DEF Served!Next
<1>11. CASE ReplaceIdentificationsCache
  BY <1>11 DEF ReplaceIdentificationsCache, serverVars, registryVars, mainVars
<1>12. CASE UpdateThreadExits
  BY <1>12 DEF UpdateThreadExits, serverVars, registryVars, localVars, mainVars
<1>13. ASSUME NEW m \in Machines, RecreateRemove(m) \/ RemoveOffline(m)
       PROVE  [Served!Next]_(Served!vars)
  <2>0. /\ updatePc \in {"recreate", "remove"}
        /\ m \in work
        /\ work' = work \ {m}
        /\ m_dashboardClients' = m_dashboardClients \ {m}
        /\ UNCHANGED <<plant, session, mainPc, updatePc, machineList, cur,
                       m_knownMachineToolsSet>>
    BY <1>13 DEF RecreateRemove, RemoveOffline, removeMachine, UpdateUnchanged,
                 serverVars, mainVars
  <2>1. CASE m \in m_dashboardClients
    <3>1. Served!Withdraw(m)
      BY <2>0, <2>1 DEF Served!Withdraw
    <3> QED BY <3>1 DEF Served!Next
  <2>2. CASE m \notin m_dashboardClients
    BY <2>0, <2>2
  <2> QED BY <2>1, <2>2
<1>14. ASSUME NEW m \in Machines, ignoreInvalidMachinesTemporarily(m)
       PROVE  UNCHANGED Served!vars
  BY <1>14 DEF ignoreInvalidMachinesTemporarily, UpdateUnchanged, serverVars,
               registryVars, mainVars
<1>15. CASE PublishAll \/ publishMachinesList \/ stopMachineUpdateThread
  BY <1>15 DEF PublishAll, publishMachinesList, stopMachineUpdateThread,
               MainUnchanged, serverVars, registryVars, localVars
<1>16. CASE BrowseTerminates \/ PublishMachinesListTorn \/ JoinUpdateThread
  <2>1. Served!End
    BY <1>16 DEF BrowseTerminates, PublishMachinesListTorn, JoinUpdateThread,
                 ObserverDestroyed, serverVars, Served!End
  <2> QED BY <2>1 DEF Served!Next
<1>17. CASE startUpdateMachineThread
  <2>1. Served!Restart
    BY <1>17 DEF startUpdateMachineThread, MainUnchanged, serverVars,
                 registryVars, localVars, Served!Restart
  <2> QED BY <2>1 DEF Served!Next
<1>18. CASE SessionChange \/ \E m \in Machines, s \in PlantState :
                                PlantChange(m, s)
  <2>1. Served!WorldChanges
    BY <1>0, <1>18
    DEF SessionChange, PlantChange, registryVars, localVars, mainVars, TypeOK,
        PlantState, Served!WorldChanges
  <2> QED BY <2>1 DEF Served!Next
<1>19. CASE UNCHANGED vars
  BY <1>19 DEF vars, serverVars, registryVars, localVars, mainVars
<1> QED
  BY <1>1, <1>2, <1>3, <1>4, <1>5, <1>6, <1>7, <1>8, <1>9, <1>10, <1>11,
     <1>12, <1>13, <1>14, <1>15, <1>16, <1>17, <1>18, <1>19
  DEF Next, UpdateThread, Publishing

\* For any number of machines: the observer serves and withdraws machines as
\* ServedMachines says, under all interleavings and crashes.
THEOREM ObserverImplementsServed == Spec => ImplementsServed
<1>start. Init => JoinedInv /\ Served!Init
  BY DEF Init, ObserverInit, JoinedInv, PlantState, Served!Init
<1> QED
  BY <1>start, IndInvHolds, JoinedStep, StepImplements, PTL
  DEF Spec, ImplementsServed, Served!Spec
=============================================================================
