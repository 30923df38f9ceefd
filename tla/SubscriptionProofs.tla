-------------------------- MODULE SubscriptionProofs --------------------------
(****************************************************************************)
(* Proofs about Subscription, for any machines, nodes and bounds.  The      *)
(* routing of values rests on client handles being fresh (HandlesFresh);    *)
(* that a removal takes away the right items rests on the numbers the       *)
(* server gives (ItemsIdentified), on every machine having its own storage  *)
(* (StoragesDistinct), and on the two directions of the correspondence      *)
(* between kept handles and items.  How long the exchanged numbers of a     *)
(* handle do no harm is an invariant of the two counters (InStep).          *)
(****************************************************************************)
EXTENDS Subscription, TLAPS

HandlesFresh ==
    /\ \A i \in items : i.handle < nextId
    /\ \A c \in m_callbacks : c.handle < nextId

ItemsIdentified ==
    /\ \A i \in items : i.id < nextItemId /\ i.storage # 0
    /\ \A i, j \in items : i.id = j.id => i = j

StoragesDistinct ==
    /\ \A m \in Machines : storage[m] <= adds
    /\ \A m, n \in Machines : storage[m] = storage[n] /\ storage[m] # 0 => m = n
    /\ adding \in Machines => storage[adding] # 0

\* Each item belongs to a client that keeps a handle with its id.
ItemsOwned ==
    faults = 0 =>
        \A i \in items : \E m \in Machines :
            /\ storage[m] = i.storage
            /\ \E h \in m_subscribedValues[m] : h.clientHandle = i.id

HandlesOfServed ==
    \A m \in Machines : storage[m] = 0 => m_subscribedValues[m] = {}

IndInv ==
    /\ TypeOK
    /\ HandlesFresh
    /\ NeverMisrouted
    /\ ItemsIdentified
    /\ StoragesDistinct
    /\ HandlesOfServed
    /\ ItemsOwned
    /\ sessions = 0 => SubscribedOnServer

LEMMA TypeStep == TypeOK /\ [Next]_vars => TypeOK'
<1> SUFFICES ASSUME TypeOK, [Next]_vars PROVE TypeOK'
  OBVIOUS
<1> USE SubscriptionAssumption DEF TypeOK
<1>1. ASSUME NEW m \in Machines, addDataSet(m) PROVE TypeOK'
  BY <1>1 DEF addDataSet
<1>2. ASSUME NEW m \in Machines, Unsubscribe(m) PROVE TypeOK'
  BY <1>2 DEF Unsubscribe, DeletedItems, RemainingCallbacks
<1>3. ASSUME NEW node \in Nodes, subscribeValue(node) PROVE TypeOK'
  <2>1. adding \in Machines /\ storage[adding] \in Nat
    BY <1>3 DEF subscribeValue
  <2>2. MonitoredItem(node) \in Item
    BY <2>1 DEF MonitoredItem, Item, clientHandle
  <2>3. [handle |-> clientHandle, node |-> node,
         storage |-> storage[adding]] \in Callback
    BY <2>1 DEF Callback, clientHandle
  <2>4. ReturnedHandle(nextItemId, clientHandle, node) \in Handle
    BY DEF ReturnedHandle, ValueSubscriptionHandle, Handle, clientHandle
  <2> QED BY <1>3, <2>1, <2>2, <2>3, <2>4 DEF subscribeValue
<1>4. ASSUME NEW node \in Nodes, SubscribeRefused(node) PROVE TypeOK'
  <2>1. adding \in Machines /\ storage[adding] \in Nat
    BY <1>4 DEF SubscribeRefused
  <2>2. MonitoredItem(node) \in Item
    BY <2>1 DEF MonitoredItem, Item, clientHandle
  <2> QED BY <1>4, <2>2 DEF SubscribeRefused
<1>5. CASE DataSetAdded
  BY <1>5 DEF DataSetAdded
<1>6. CASE on_connected
  BY <1>6 DEF on_connected
<1>7. CASE UNCHANGED vars
  BY <1>7 DEF vars
<1> QED
  BY <1>1, <1>2, <1>3, <1>4, <1>5, <1>6, <1>7 DEF Next

LEMMA IndInvStep == IndInv /\ [Next]_vars => IndInv'
<1> SUFFICES ASSUME IndInv, [Next]_vars PROVE IndInv'
  OBVIOUS
<1>0. TypeOK /\ TypeOK'
  BY TypeStep DEF IndInv
<1> USE <1>0, SubscriptionAssumption DEF IndInv, HandlesFresh,
    NeverMisrouted, dataChange
<1>1. ASSUME NEW m \in Machines, addDataSet(m) PROVE IndInv'
  <2>1. /\ storage' = [storage EXCEPT ![m] = adds + 1]
        /\ adds' = adds + 1 /\ adding' = m /\ storage[m] = 0
        /\ adds \in Nat /\ storage \in [Machines -> Nat]
    BY <1>1 DEF addDataSet, TypeOK
  <2>2. StoragesDistinct'
    BY <2>1 DEF StoragesDistinct
  <2>3. ItemsOwned'
    BY <1>1, <2>1 DEF addDataSet, ItemsOwned, ItemsIdentified
  <2>4. HandlesOfServed'
    BY <1>1, <2>1 DEF addDataSet, HandlesOfServed
  <2>5. sessions = 0 => SubscribedOnServer'
    BY <1>1, <2>1 DEF addDataSet, SubscribedOnServer, HandlesOfServed
  <2> QED
    BY <1>1, <2>2, <2>3, <2>4, <2>5 DEF addDataSet, ItemsIdentified
<1>2. ASSUME NEW m \in Machines, Unsubscribe(m) PROVE IndInv'
  <2>1. /\ storage' = [storage EXCEPT ![m] = 0] /\ storage[m] # 0
        /\ m_subscribedValues' = [m_subscribedValues EXCEPT ![m] = {}]
        /\ storage \in [Machines -> Nat] /\ adding = NoMachine
        /\ m_subscribedValues \in [Machines -> SUBSET Handle]
        /\ UNCHANGED <<nextId, nextItemId, adding, adds, sessions>>
        /\ items' \subseteq items /\ m_callbacks' \subseteq m_callbacks
    BY <1>2 DEF Unsubscribe, RemainingCallbacks, TypeOK
  <2>2. StoragesDistinct'
    BY <2>1, <1>0 DEF StoragesDistinct, TypeOK
  <2>3. ItemsOwned'
    <3> SUFFICES ASSUME faults' = 0, NEW i \in items'
                 PROVE  \E n \in Machines :
                          /\ storage'[n] = i.storage
                          /\ \E h \in m_subscribedValues'[n] :
                               h.clientHandle = i.id
      BY DEF ItemsOwned
    <3>1. faults = 0 /\ items' = items \ DeletedItems(m)
      BY <1>2 DEF Unsubscribe, TypeOK
    <3>2. PICK n \in Machines : /\ storage[n] = i.storage
                                /\ \E h \in m_subscribedValues[n] :
                                     h.clientHandle = i.id
      BY <3>1, <2>1 DEF ItemsOwned
    <3>3. n # m
      BY <3>1, <3>2 DEF DeletedItems, ClientHandles
    <3> QED BY <3>2, <3>3, <2>1
  <2>4. HandlesOfServed'
    BY <2>1 DEF HandlesOfServed
  <2>5. ASSUME sessions = 0 PROVE SubscribedOnServer'
    <3> SUFFICES ASSUME NEW n \in Machines, NEW h \in m_subscribedValues'[n]
                 PROVE  \E i \in items' : /\ i.id = h.clientHandle
                                          /\ i.node = h.nodeId
                                          /\ i.storage = storage'[n]
      BY DEF SubscribedOnServer
    <3>1. n # m /\ h \in m_subscribedValues[n] /\ storage'[n] = storage[n]
      BY <2>1
    <3>2. PICK i \in items : /\ i.id = h.clientHandle
                             /\ i.node = h.nodeId
                             /\ i.storage = storage[n]
      BY <2>5, <3>1 DEF SubscribedOnServer
    <3>3. i \notin DeletedItems(m)
      <4> SUFFICES ASSUME i \in DeletedItems(m) PROVE FALSE
        OBVIOUS
      <4>1. PICK g \in m_subscribedValues[m] : g.clientHandle = i.id
        BY DEF DeletedItems, ClientHandles
      <4>2. PICK j \in items : j.id = g.clientHandle /\ j.storage = storage[m]
        BY <2>5, <4>1 DEF SubscribedOnServer
      <4>3. j = i
        BY <4>1, <4>2 DEF ItemsIdentified
      <4>4. storage[n] # 0
        BY <3>1 DEF HandlesOfServed
      <4> QED BY <3>1, <3>2, <4>2, <4>3, <4>4 DEF StoragesDistinct
    <3>4. i \in items'
      BY <1>2, <3>3 DEF Unsubscribe
    <3> QED BY <3>1, <3>2, <3>4
  <2>6. ItemsIdentified'
    BY <2>1 DEF ItemsIdentified
  <2> QED BY <2>1, <2>2, <2>3, <2>4, <2>5, <2>6
<1>3. ASSUME NEW node \in Nodes, subscribeValue(node) PROVE IndInv'
  <2> DEFINE i0 == MonitoredItem(node)
             c0 == [handle |-> clientHandle, node |-> node,
                    storage |-> storage[adding]]
             h0 == ReturnedHandle(nextItemId, clientHandle, node)
  <2>1. /\ adding \in Machines
        /\ items' = items \cup {i0} /\ m_callbacks' = m_callbacks \cup {c0}
        /\ nextId' = nextId + 1 /\ nextItemId' = nextItemId + 1
        /\ m_subscribedValues' =
             [m_subscribedValues EXCEPT ![adding] = @ \cup {h0}]
        /\ UNCHANGED <<storage, adding, adds, faults, sessions>>
        /\ nextId \in Nat /\ nextItemId \in Nat
        /\ m_subscribedValues \in [Machines -> SUBSET Handle]
    BY <1>3 DEF subscribeValue, TypeOK
  <2>2. /\ i0.id = nextItemId /\ i0.handle = nextId /\ i0.node = node
        /\ i0.storage = storage[adding]
        /\ c0.handle = nextId /\ c0.node = node
        /\ c0.storage = storage[adding]
        /\ h0.clientHandle = nextItemId /\ h0.nodeId = node
    BY DEF MonitoredItem, clientHandle, ReturnedHandle,
       ValueSubscriptionHandle
  <2>3. /\ \A i \in items : i.handle \in Nat /\ i.id \in Nat
        /\ \A c \in m_callbacks : c.handle \in Nat
    BY <1>0 DEF TypeOK, Item, Callback
  <2> HIDE DEF i0, c0, h0
  <2>4. HandlesFresh'
    BY <2>1, <2>2, <2>3
  <2>5. NeverMisrouted'
    BY <2>1, <2>2, <2>3
  <2>6. ItemsIdentified'
    BY <2>1, <2>2, <2>3 DEF ItemsIdentified, StoragesDistinct
  <2>7. StoragesDistinct' /\ HandlesOfServed'
    BY <2>1 DEF StoragesDistinct, HandlesOfServed
  <2>8. ItemsOwned'
    BY <2>1, <2>2 DEF ItemsOwned
  <2>9. sessions' = 0 => SubscribedOnServer'
    BY <2>1, <2>2 DEF SubscribedOnServer
  <2> QED BY <2>4, <2>5, <2>6, <2>7, <2>8, <2>9
<1>4. ASSUME NEW node \in Nodes, SubscribeRefused(node) PROVE IndInv'
  <2> DEFINE i0 == MonitoredItem(node)
  <2>1. /\ adding \in Machines
        /\ items' \in {items, items \cup {i0}}
        /\ nextId' = nextId + 1
        /\ nextItemId' = nextItemId \/ nextItemId' = nextItemId + 1
        /\ items' # items => nextItemId' = nextItemId + 1
        /\ UNCHANGED <<m_callbacks, m_subscribedValues, storage, adding, adds,
                       sessions>>
        /\ nextId \in Nat /\ nextItemId \in Nat
        /\ faults' # 0
    BY <1>4 DEF SubscribeRefused, TypeOK
  <2>2. /\ i0.id = nextItemId /\ i0.handle = nextId
        /\ i0.storage = storage[adding]
    BY DEF MonitoredItem, clientHandle
  <2>3. /\ \A i \in items : i.handle \in Nat /\ i.id \in Nat
        /\ \A c \in m_callbacks : c.handle \in Nat
    BY <1>0 DEF TypeOK, Item, Callback
  <2> HIDE DEF i0
  <2>4. HandlesFresh'
    BY <2>1, <2>2, <2>3
  <2>5. NeverMisrouted'
    BY <2>1, <2>2, <2>3
  <2>6. ItemsIdentified'
    BY <2>1, <2>2, <2>3 DEF ItemsIdentified, StoragesDistinct
  <2>7. StoragesDistinct' /\ HandlesOfServed' /\ ItemsOwned'
    BY <2>1 DEF StoragesDistinct, HandlesOfServed, ItemsOwned
  <2>8. sessions' = 0 => SubscribedOnServer'
    BY <2>1 DEF SubscribedOnServer
  <2> QED BY <2>4, <2>5, <2>6, <2>7, <2>8
<1>5. CASE DataSetAdded
  BY <1>5 DEF DataSetAdded, ItemsIdentified, StoragesDistinct,
     HandlesOfServed, ItemsOwned, SubscribedOnServer
<1>6. CASE on_connected
  <2>1. sessions' # 0 /\ items' = {}
    BY <1>6 DEF on_connected, TypeOK
  <2> QED
    BY <1>6, <2>1 DEF on_connected, ItemsIdentified, StoragesDistinct,
       HandlesOfServed, ItemsOwned
<1>7. CASE UNCHANGED vars
  BY <1>7 DEF vars, ItemsIdentified, StoragesDistinct, HandlesOfServed,
     ItemsOwned, SubscribedOnServer
<1> QED
  BY <1>1, <1>2, <1>3, <1>4, <1>5, <1>6, <1>7 DEF Next

\* The item ids never overtake the client handles: a refusal lets them fall
\* behind, and a new session sets them back.
NeverAhead == 1 <= nextId /\ nextItemId <= nextId

\* While both run in step, an item has twice the same number, and a callback
\* leaves the map only together with its item.
InStep ==
    nextId = nextItemId =>
        /\ \A i \in items : i.id = i.handle
        /\ faults = 0 => \A i \in items : \E c \in m_callbacks : dataChange(i, c)

\* Every step keeps the distance of the two numbers or lets it grow.
LEMMA InStepStep ==
    ASSUME TypeOK, NeverAhead, InStep, [Next]_vars
    PROVE  (NeverAhead /\ InStep)'
<1> USE DEF TypeOK, NeverAhead, InStep, dataChange
<1>1. ASSUME NEW m \in Machines, addDataSet(m) PROVE (NeverAhead /\ InStep)'
  BY <1>1 DEF addDataSet
<1>2. ASSUME NEW m \in Machines, Unsubscribe(m) PROVE (NeverAhead /\ InStep)'
  <2>1. UNCHANGED <<nextId, nextItemId>> /\ items' \subseteq items
    BY <1>2 DEF Unsubscribe
  <2>2. ASSUME nextId = nextItemId, faults' = 0, NEW i \in items'
        PROVE  \E c \in m_callbacks' : c.handle = i.handle
    <3>1. faults = 0 /\ items' = items \ DeletedItems(m)
      BY <1>2, <2>2 DEF Unsubscribe
    <3>2. i \in items /\ i.id = i.handle /\ i.id \notin ClientHandles(m)
      BY <2>1, <2>2, <3>1 DEF DeletedItems
    <3>3. PICK c \in m_callbacks : c.handle = i.handle
      BY <2>2, <3>1, <3>2
    <3> QED BY <1>2, <3>2, <3>3 DEF Unsubscribe, RemainingCallbacks
  <2> QED BY <2>1, <2>2
<1>3. ASSUME NEW node \in Nodes, subscribeValue(node)
      PROVE  (NeverAhead /\ InStep)'
  <2> DEFINE i0 == MonitoredItem(node)
             c0 == [handle |-> clientHandle, node |-> node,
                    storage |-> storage[adding]]
  <2>1. /\ items' = items \cup {i0} /\ m_callbacks' = m_callbacks \cup {c0}
        /\ i0.id = nextItemId /\ i0.handle = nextId /\ c0.handle = nextId
    BY <1>3 DEF subscribeValue, MonitoredItem, clientHandle
  <2> HIDE DEF i0, c0
  <2>2. /\ nextId' = nextId + 1 /\ nextItemId' = nextItemId + 1
        /\ UNCHANGED faults
    BY <1>3 DEF subscribeValue
  <2> QED BY <2>1, <2>2
<1>4. ASSUME NEW node \in Nodes, SubscribeRefused(node)
      PROVE  (NeverAhead /\ InStep)'
  <2>1. /\ nextId' = nextId + 1 /\ faults' # 0
        /\ \/ nextItemId' = nextItemId
           \/ /\ nextItemId' = nextItemId + 1
              /\ items' = items \cup {MonitoredItem(node)}
    BY <1>4, SubscriptionAssumption DEF SubscribeRefused
  <2>2. MonitoredItem(node).id = nextItemId /\ MonitoredItem(node).handle = nextId
    BY DEF MonitoredItem, clientHandle
  <2> QED BY <2>1, <2>2
<1>5. CASE DataSetAdded
  BY <1>5 DEF DataSetAdded
<1>6. CASE on_connected
  BY <1>6 DEF on_connected
<1>7. CASE UNCHANGED vars
  BY <1>7 DEF vars
<1> QED
  BY <1>1, <1>2, <1>3, <1>4, <1>5, <1>6, <1>7 DEF Next

LEMMA IndInvHolds == Spec => []IndInv
<1>1. Init => IndInv
  BY SubscriptionAssumption DEF Init, IndInv, TypeOK, HandlesFresh,
     NeverMisrouted, ItemsIdentified, StoragesDistinct, HandlesOfServed,
     ItemsOwned, SubscribedOnServer, Item, Callback, Handle
<1> QED BY <1>1, IndInvStep, PTL DEF Spec

\* Callbacks, kept handles and the server's items are always well typed.
THEOREM TypeCorrect == Spec => []TypeOK
<1>1. IndInv => TypeOK
  BY DEF IndInv
<1> QED BY <1>1, IndInvHolds, PTL

\* Whatever is refused, removed or lost: a value reaches the callback of its
\* own node and storage, or none.
THEOREM ValuesNeverMisrouted == Spec => []NeverMisrouted
<1>1. IndInv => NeverMisrouted
  BY DEF IndInv
<1> QED BY <1>1, IndInvHolds, PTL

\* Without a refused request, a value is never written to a freed storage.
THEOREM NoUseAfterFree == Spec => []NoWriteAfterFree
<1>1. IndInv => NoWriteAfterFree
  BY DEF IndInv, NoWriteAfterFree, NeverMisrouted, ItemsOwned
<1> QED BY <1>1, IndInvHolds, PTL

\* In the first session, removing a machine deletes no item of another one,
\* although the fields of the handles are exchanged: the ids passed as client
\* handles are the ids of the items.
THEOREM RemovalKeepsOthers == Spec => []RemovalKeepsItems
<1>1. IndInv => RemovalKeepsItems
  BY DEF IndInv, RemovalKeepsItems
<1> QED
  BY <1>1, IndInvHolds, PTL

\* The exchanged numbers of Subscription::Subscribe do no harm while client
\* handles and item ids run in step: without a refusal, every item of a served
\* machine finds its callback, whatever other machines were removed.
THEOREM ValuesArrive == Spec => []ValuesArriveInStep
<1>1. Init => NeverAhead /\ InStep
  BY DEF Init, NeverAhead, InStep
<1>2. IndInv => TypeOK
  BY DEF IndInv
<1>3. InStep => ValuesArriveInStep
  BY DEF InStep, ValuesArriveInStep, ValuesReachServedMachines
<1> QED
  BY <1>1, <1>2, <1>3, IndInvHolds, InStepStep, PTL DEF Spec
=============================================================================
