----------------------------- MODULE Subscription -----------------------------
(****************************************************************************)
(* How values travel from the OPC UA server to the data sets of a machine:  *)
(* OpcUaClient/Subscription.cpp (client handles, monitored items, the map   *)
(* of callbacks) together with the part of DashboardClient.cpp that         *)
(* subscribes the nodes of a machine and, when the machine is removed,      *)
(* unsubscribes them and frees the storage the callbacks write to.          *)
(*                                                                          *)
(* A monitored item has two numbers: the client handle, drawn from the      *)
(* static counter nextId, and the monitored item id, given by the server,   *)
(* which starts again with every subscription.  The handle object that      *)
(* Subscribe returns has a field for each, and is built with the two        *)
(* exchanged (Subscription.cpp:157, IDashboardDataClient.hpp:147).          *)
(*                                                                          *)
(* Machines are added and removed by one thread; m_clientMutex makes each   *)
(* Subscribe and Unsubscribe one step.  The server, its monitored items and *)
(* the session are external.                                                *)
(****************************************************************************)
EXTENDS Naturals

CONSTANTS
    Machines,
    Nodes,
    NodesOf,      \* the variables of a machine that its type selects
    MaxAdds,      \* bound: how often machines are added
    MaxFaults,    \* bound: requests the server refuses
    MaxSessions,  \* bound: sessions that replace a lost one
    NoMachine

ASSUME SubscriptionAssumption ==
    /\ NodesOf \in [Machines -> SUBSET Nodes]
    /\ MaxAdds \in Nat
    /\ MaxFaults \in Nat
    /\ MaxSessions \in Nat
    /\ NoMachine \notin Machines

VARIABLES
    nextId,              \* Subscription::nextId, static
    nextItemId,          \* server: the next monitored item id
    items,               \* server: monitored items of the subscription
    m_callbacks,         \* client handle -> callback, as a set of pairs
    m_subscribedValues,  \* per machine: the handles its client keeps
    storage,             \* per machine: its data set storage, 0 if freed
    adding,              \* machine whose nodes are being subscribed
    pending,             \* ... and the nodes still to subscribe
    adds, faults, sessions  \* bounded counters

vars == <<nextId, nextItemId, items, m_callbacks, m_subscribedValues, storage,
          adding, pending, adds, faults, sessions>>

\* What a callback captures: the node, and a reference to the value map of the
\* storage.  An item records, besides, for which storage it was created.
Item == [id : Nat, handle : Nat, node : Nodes, storage : Nat]
Callback == [handle : Nat, node : Nodes, storage : Nat]
Handle == [clientHandle : Nat, monitoredItemId : Nat, nodeId : Nodes]

TypeOK ==
    /\ nextId \in Nat
    /\ nextItemId \in Nat
    /\ items \subseteq Item
    /\ m_callbacks \subseteq Callback
    /\ m_subscribedValues \in [Machines -> SUBSET Handle]
    /\ storage \in [Machines -> 0 .. MaxAdds]
    /\ adding \in Machines \cup {NoMachine}
    /\ pending \subseteq Nodes
    /\ adds \in 0 .. MaxAdds
    /\ faults \in 0 .. MaxFaults
    /\ sessions \in 0 .. MaxSessions

Init ==
    /\ nextId \in {1, 2}   \* 2: an item of an earlier client (before a reset)
    /\ nextItemId = 1
    /\ items = {}
    /\ m_callbacks = {}
    /\ m_subscribedValues = [m \in Machines |-> {}]
    /\ storage = [m \in Machines |-> 0]
    /\ adding = NoMachine
    /\ pending = {}
    /\ adds = 0
    /\ faults = 0
    /\ sessions = 0

-----------------------------------------------------------------------------
\* addMachine: a new DashboardClient and, in addDataSet, a new storage.
addDataSet(m) ==
    /\ adding = NoMachine
    /\ storage[m] = 0
    /\ adds < MaxAdds
    /\ adds' = adds + 1
    /\ storage' = [storage EXCEPT ![m] = adds + 1]
    /\ adding' = m
    /\ pending' = NodesOf[m]
    /\ UNCHANGED <<nextId, nextItemId, items, m_callbacks, m_subscribedValues,
                   faults, sessions>>

\* subscribeValues has visited every node; the machine is now served.
DataSetAdded ==
    /\ adding # NoMachine
    /\ pending = {}
    /\ adding' = NoMachine
    /\ UNCHANGED <<nextId, nextItemId, items, m_callbacks, m_subscribedValues,
                   storage, pending, adds, faults, sessions>>

\* Faulty variant: the handles start again with every subscription.
HandleRestarts == nextItemId

\* prepareMonItemCreateReq: the handle of the next request.
clientHandle == nextId

ValueSubscriptionHandle(handle, monItemId, node) ==
    [clientHandle |-> handle, monitoredItemId |-> monItemId, nodeId |-> node]

\* The handle object as Subscription::Subscribe builds it.
ReturnedHandle(monitoredItemId, handle, node) ==
    ValueSubscriptionHandle(monitoredItemId, handle, node)

MonitoredItem(node) ==
    [id |-> nextItemId, handle |-> clientHandle, node |-> node,
     storage |-> storage[adding]]

\* subscribeValue and Subscription::Subscribe: the monitored item is created,
\* then its callback is entered, then the handle is kept.
subscribeValue(node) ==
    /\ adding # NoMachine
    /\ node \in pending
    /\ pending' = pending \ {node}
    /\ nextId' = nextId + 1
    /\ nextItemId' = nextItemId + 1
    /\ items' = items \cup {MonitoredItem(node)}
    /\ m_callbacks' = m_callbacks \cup
         {[handle |-> clientHandle, node |-> node,
           storage |-> storage[adding]]}
    /\ m_subscribedValues' = [m_subscribedValues EXCEPT
         ![adding] = @ \cup {ReturnedHandle(nextItemId, clientHandle, node)}]
    /\ UNCHANGED <<storage, adding, adds, faults, sessions>>

\* The server refuses the item, or revises its queue size
\* (validateMonitorItemResult): the exception ends in a null handle that
\* Unsubscribe skips.  In the second case the item stays on the server.
SubscribeRefused(node) ==
    /\ adding # NoMachine
    /\ node \in pending
    /\ faults < MaxFaults
    /\ faults' = faults + 1
    /\ pending' = pending \ {node}
    /\ nextId' = nextId + 1
    /\ \/ UNCHANGED <<items, nextItemId>>
       \/ /\ items' = items \cup {MonitoredItem(node)}
          /\ nextItemId' = nextItemId + 1
    /\ UNCHANGED <<m_callbacks, m_subscribedValues, storage, adding, adds,
                   sessions>>

\* The first argument of Subscription::Unsubscribe is what line 110 of
\* Subscription.cpp does not use; callbacks and items both go by the second.
ClientHandles(m) == {h.clientHandle : h \in m_subscribedValues[m]}

\* Faulty variant: the other field of the handles names the items to delete.
DeleteByMonitoredItemId(m) ==
    {i \in items : i.id \in {h.monitoredItemId : h \in m_subscribedValues[m]}}

DeletedItems(m) == {i \in items : i.id \in ClientHandles(m)}

\* Faulty variant: the whole map of callbacks is cleared.
AllErased(m) == {}

RemainingCallbacks(m) == {c \in m_callbacks : c.handle \notin ClientHandles(m)}

\* removeMachine: DashboardClient::Unsubscribe, with all it calls.  A refused
\* delete request is only logged.
Unsubscribe(m) ==
    /\ adding = NoMachine
    /\ storage[m] # 0
    /\ m_callbacks' = RemainingCallbacks(m)
    /\ \/ items' = items \ DeletedItems(m) /\ UNCHANGED faults
       \/ /\ faults < MaxFaults
          /\ faults' = faults + 1
          /\ UNCHANGED items
    /\ m_subscribedValues' = [m_subscribedValues EXCEPT ![m] = {}]
    /\ storage' = [storage EXCEPT ![m] = 0]
    /\ UNCHANGED <<nextId, nextItemId, adding, pending, adds, sessions>>

\* The session was lost and the connect thread has established a new one:
\* on_connected creates a subscription, which has no items.
on_connected ==
    /\ sessions < MaxSessions
    /\ sessions' = sessions + 1
    /\ items' = {}
    /\ nextItemId' = 1
    /\ UNCHANGED <<nextId, m_callbacks, m_subscribedValues, storage, adding,
                   pending, adds, faults>>

Next ==
    \/ \E m \in Machines : addDataSet(m) \/ Unsubscribe(m)
    \/ \E node \in Nodes : subscribeValue(node) \/ SubscribeRefused(node)
    \/ DataSetAdded
    \/ on_connected

Spec == Init /\ [][Next]_vars

-----------------------------------------------------------------------------
(* Properties. *)

\* dataChange hands a value of an item to the callback found under its client
\* handle.
dataChange(i, c) == i \in items /\ c \in m_callbacks /\ c.handle = i.handle

\* A value never reaches the wrong place: whatever was refused, removed or
\* lost in between, the callback that dataChange finds for an item is the one
\* that was entered for the same node of the same storage.
NeverMisrouted ==
    \A i \in items, c \in m_callbacks :
        dataChange(i, c) => c.node = i.node /\ c.storage = i.storage

\* While no request is refused, no value is written to a freed storage, even if
\* the session is lost: the items of a removed machine are gone, although its
\* callbacks may not be.
NoWriteAfterFree ==
    faults = 0 =>
        \A i \in items, c \in m_callbacks :
            dataChange(i, c) => \E m \in Machines : storage[m] = c.storage

\* Every handle that a client keeps stands for an item that the server still
\* monitors, for the same node and storage.
SubscribedOnServer ==
    \A m \in Machines : \A h \in m_subscribedValues[m] :
        \E i \in items : /\ i.id = h.clientHandle
                        /\ i.node = h.nodeId
                        /\ i.storage = storage[m]

\* Until a session is lost (a new one begins without items, see on_connected) it
\* holds: Unsubscribe of one machine, whichever
\* requests were refused before, takes no item away from another one, although
\* the numbers by which it deletes are kept under the wrong name.
RemovalKeepsItems == sessions = 0 => SubscribedOnServer

\* README.md:10: "The client subscribes to values from one or more machine
\* instances ... and then publishes them": a value the server reports for a
\* machine that is served finds a callback.
ValuesReachServedMachines ==
    \A m \in Machines : storage[m] # 0 =>
        \A i \in items : i.storage = storage[m] =>
            \E c \in m_callbacks : dataChange(i, c)

\* It holds as long as client handles and monitored item ids run in step, so that
\* it does not matter that Subscribe exchanges them: no item was refused, no
\* earlier client of the process has drawn handles, and no session that had
\* items was lost.  Then no removal leaves an item of another machine mute.
ValuesArriveInStep ==
    faults = 0 /\ nextId = nextItemId => ValuesReachServedMachines
=============================================================================
