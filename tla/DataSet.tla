------------------------------- MODULE DataSet -------------------------------
(****************************************************************************)
(* The data set of one machine: DashboardClient::addDataSet selects the     *)
(* nodes that the machine's type names (TransformToNodeIds) and subscribes  *)
(* to its variables; getJson turns the selected nodes and the values that   *)
(* arrived into the payload (ModelToJson).                                  *)
(*                                                                          *)
(* TransformToNodeIds calls itself, directly and through BrowsePlaceholder; *)
(* the model keeps its call stack in the state and makes one step of each   *)
(* request to the server, which may fail at any time.                       *)
(*                                                                          *)
(* External: the server, and the types as the type reader left them.  A     *)
(* value is identified with the node it comes from; it is a number or a     *)
(* string, not a structure.                                                 *)
(****************************************************************************)
EXTENDS Naturals, SequencesExt

CONSTANTS
    Nodes,        \* NodeIds of the server
    StartNode,    \* the machine
    StartType,    \* its type
    TypeMaps,     \* the possible contents of m_typeMap
    Servers,      \* the possible address spaces of the server
    MaxFailures   \* bound: how many requests fail

Placeholders == {"OptionalPlaceholder", "MandatoryPlaceholder"}
Rules == {"Optional", "Mandatory", "None"} \cup Placeholders

\* QualifiedName_t, by which the server is asked; the payload shows its Name only.
QualifiedName == [Uri : STRING, Name : STRING]

\* StructureNode: browse name, modelling rule, is it a variable, and the type
\* whose list of children it shares.
Definitions(types) ==
    [name : QualifiedName, rule : Rules, variable : BOOLEAN, type : types]

\* The types that the children of a type have are in the map, too.
ASSUME TypesAssumption ==
    \A types \in TypeMaps :
        /\ StartType \in DOMAIN types
        /\ DOMAIN types \subseteq STRING
        /\ \A t \in DOMAIN types :
              /\ types[t].variable \in BOOLEAN
              /\ types[t].children \in Seq(Definitions(DOMAIN types))

\* A server has, of each node and browse name, the referenced nodes, and of each
\* node its browse name, the type definition and the interfaces.
ASSUME ServersAssumption ==
    /\ StartNode \in Nodes
    /\ \A s \in Servers :
          /\ \A q \in DOMAIN s.refs : s.refs[q] \in Seq(Nodes)
          /\ s.browseName \in [Nodes -> QualifiedName]
          /\ s.typeOf \in [Nodes -> STRING]
          /\ s.interfaces \in [Nodes -> Seq(STRING)]

ASSUME FailuresAssumption == MaxFailures \in Nat

VARIABLES
    m_typeMap, server,
    pc,            \* add, transform, subscribe, added, invalid, terminated
    stack,         \* the calls of TransformToNodeIds and BrowsePlaceholder
    exc,           \* the exception that is thrown: none, invalidChild (a
                   \* MachineInvalidChildException) or other (any other)
    browsedNodes,
    node,          \* DataSetStorage_t::node, the tree of the selected nodes
    pending,       \* the subtrees that subscribeValues has still to visit
    subscribed,    \* m_subscribedValues: where in the tree, and which node
    values,        \* the places in the tree that have a value
    \* History:
    failures,      \* how many requests failed
    met,           \* the nodes met, each with the type it was first met with
    selected,      \* the nodes of the tree
    visited,       \* those that subscribeValues visited
    refused        \* the nodes for which Subscribe threw

vars == <<m_typeMap, server, pc, stack, exc, browsedNodes, node, pending,
          subscribed, values, failures, met, selected, visited, refused>>

external == <<m_typeMap, server>>
transforming == <<stack, exc, browsedNodes, failures, met>>
subscribing == <<pending, subscribed, visited, refused>>

NoTree == [kind |-> "none", children |-> <<>>]

Init ==
    /\ m_typeMap \in TypeMaps
    /\ server \in Servers
    /\ pc = "add"
    /\ stack = <<>>
    /\ exc = "none"
    /\ browsedNodes = {}
    /\ node = NoTree
    /\ pending = <<>>
    /\ subscribed = {}
    /\ values = {}
    /\ failures = 0
    /\ met = {}
    /\ selected = {}
    /\ visited = {}
    /\ refused = {}

-----------------------------------------------------------------------------
(* The call stack of TransformToNodeIds. *)

\* A call: the function, its node and definition, the place of its result in the
\* tree, what it loops over (children of the type, or browse results) and the
\* next of them, foundChildNodes or the instances of the placeholder, and all
\* nodes of their trees.  A node that was browsed before (first is FALSE) is
\* entered without children.
Call(fun, n, def, place, first, list) ==
    [fun |-> fun, node |-> n, def |-> def, place |-> place, first |-> first,
     list |-> list, next |-> 1, found |-> <<>>, entries |-> {}]

\* The SimpleNode or PlaceholderNode that a call returns.
Entry(f) ==
    [kind |-> IF f.fun = "BrowsePlaceholder" THEN "placeholder" ELSE "simple",
     node |-> f.node, def |-> f.def, place |-> f.place, first |-> f.first,
     children |-> f.found]

Top == stack[Len(stack)]
Callers == SubSeq(stack, 1, Len(stack) - 1)
WithTop(s, f) == [s EXCEPT ![Len(s)] = f]
Advance(f) == [f EXCEPT !.next = f.next + 1]
Receive(f, g) ==
    [f EXCEPT !.next = f.next + 1,
              !.found = Append(f.found, Entry(g)),
              !.entries = f.entries \cup g.entries \cup {Entry(g)}]

NextPlace == Append(Top.place, Len(Top.found) + 1)

Running(fun) == pc = "transform" /\ exc = "none" /\ Top.fun = fun
InLoop == Top.next <= Len(Top.list)
Current == Top.list[Top.next]

RequestFails == failures < MaxFailures /\ failures' = failures + 1

\* The nodes that n references for the child c.
Referenced(n, c) ==
    IF <<n, c.name>> \in DOMAIN server.refs THEN server.refs[<<n, c.name>>]
    ELSE <<>>

\* typeDefinitionToStructureNode: a type has no modelling rule, so the type
\* reader gives it its default.
TypeNode(t) ==
    [name |-> [Uri |-> "", Name |-> t], rule |-> "Optional", variable |-> m_typeMap[t].variable,
     type |-> t]

\* browsedNodes.insert, and the children to loop over if the node is new.
CallTransformToNodeIds(s, n, def, place) ==
    LET first == n \notin browsedNodes
        list == IF first THEN m_typeMap[def.type].children ELSE <<>>
    IN  /\ stack' = Append(s, Call("TransformToNodeIds", n, def, place, first, list))
        /\ browsedNodes' = browsedNodes \cup {n}
        /\ met' = IF first THEN met \cup {<<n, def.type>>} ELSE met

addDataSet ==
    /\ pc = "add"
    /\ pc' = "transform"
    /\ CallTransformToNodeIds(<<>>, StartNode, TypeNode(StartType), <<>>)
    /\ UNCHANGED <<external, exc, node, values, failures, selected, subscribing>>

ChildToDo(rules) ==
    Running("TransformToNodeIds") /\ InLoop /\ Current.rule \in rules

\* The rule None is logged.
SkipChild ==
    /\ ChildToDo({"None"})
    /\ stack' = WithTop(stack, Advance(Top))
    /\ UNCHANGED <<external, pc, exc, browsedNodes, node, values, failures, met,
                   selected, subscribing>>

\* Faulty variant: the modelling rule is not looked at.
ForgiveChild(e, c) == IF e = "other" THEN "none" ELSE "invalidChild"

\* What the handlers of OptionalAndMandatoryTransformToNodeId throw.
HandleChild(e, c) ==
    IF e = "other" /\ c.rule = "Optional" THEN "none" ELSE "invalidChild"

\* TranslateBrowsePathToNodeId throws: the connection is lost or the result is bad,
\* or there is no such child (BADNOMATCH), which is an exception as any other.
ChildMissing ==
    /\ ChildToDo({"Optional", "Mandatory"})
    /\ \/ RequestFails
       \/ Referenced(Top.node, Current) = <<>> /\ UNCHANGED failures
    /\ exc' = HandleChild("other", Current)
    /\ stack' = IF exc' = "none" THEN WithTop(stack, Advance(Top)) ELSE stack
    /\ UNCHANGED <<external, pc, browsedNodes, node, values, met, selected,
                   subscribing>>

\* The service fails: its answer has no results, and the first of them is looked
\* at through a null pointer, which ends the process.
TranslateUnanswered ==
    /\ ChildToDo({"Optional", "Mandatory"})
    /\ RequestFails
    /\ pc' = "terminated"
    /\ UNCHANGED <<external, stack, exc, browsedNodes, node, values, met, selected,
                   subscribing>>

ChildFound ==
    /\ ChildToDo({"Optional", "Mandatory"})
    /\ Referenced(Top.node, Current) # <<>>
    /\ CallTransformToNodeIds(stack, Referenced(Top.node, Current)[1], Current,
                              NextPlace)
    /\ UNCHANGED <<external, pc, exc, node, values, failures, selected,
                   subscribing>>

\* OptionalAndMandatoryPlaceholderTransformToNodeId calls BrowsePlaceholder.  Its
\* request succeeds or throws, or it finds less than there is, and nothing says
\* so: a service that fails has no results, and continuation points are not
\* followed.
BrowsePlaceholder ==
    LET all == Referenced(Top.node, Current)
        Enter(list) ==
            stack' = Append(stack, Call("BrowsePlaceholder", Top.node, Current,
                                        NextPlace, TRUE, list))
    IN  /\ ChildToDo(Placeholders)
        /\ \/ Enter(all) /\ UNCHANGED <<exc, failures>>
           \/ Enter(<<>>) /\ RequestFails /\ exc' = "other"
           \/ /\ \E k \in 0 .. Len(all) : k < Len(all) /\ Enter(SubSeq(all, 1, k))
              /\ RequestFails /\ UNCHANGED exc
        /\ UNCHANGED <<external, pc, browsedNodes, node, values, met, selected,
                       subscribing>>

\* The filter of that request asks for the super types of what it finds.  If this
\* service fails, its missing result is looked at, too.
SuperTypeUnanswered ==
    /\ ChildToDo(Placeholders)
    /\ RequestFails
    /\ pc' = "terminated"
    /\ UNCHANGED <<external, stack, exc, browsedNodes, node, values, met, selected,
                   subscribing>>

-----------------------------------------------------------------------------
(* preparePlaceholderNodesTypeId, for the next of the browse results. *)

ElementToDo == Running("BrowsePlaceholder") /\ InLoop

\* A plain object is looked at through its first interface.
Plain(n) == server.typeOf[n] = "BaseObjectType"
NoInterface(n) == Plain(n) /\ server.interfaces[n] = <<>>
TypeDefinition(n) ==
    IF Plain(n) THEN server.interfaces[n][1] ELSE server.typeOf[n]
KnownType(n) == ~NoInterface(n) /\ TypeDefinition(n) \in DOMAIN m_typeMap

InterfaceRequestFails ==
    /\ ElementToDo
    /\ Plain(Current)
    /\ RequestFails
    /\ exc' = "other"
    /\ UNCHANGED <<external, pc, stack, browsedNodes, node, values, met,
                   selected, subscribing>>

\* ifs.front() of an empty list is undefined, and ends the process.  The list is
\* empty if there is no interface, and if the service fails.
InterfaceMissing ==
    /\ ElementToDo
    /\ \/ NoInterface(Current) /\ UNCHANGED failures
       \/ Plain(Current) /\ RequestFails
    /\ pc' = "terminated"
    /\ UNCHANGED <<external, stack, exc, browsedNodes, node, values, met, selected,
                   subscribing>>

\* Faulty variant: an element of an unknown type is an error.
UnknownTypeThrows ==
    /\ ElementToDo
    /\ ~NoInterface(Current) /\ ~KnownType(Current)
    /\ exc' = "other"
    /\ UNCHANGED <<external, pc, stack, browsedNodes, node, values, failures,
                   met, selected, subscribing>>

ElementOfUnknownType ==
    /\ ElementToDo
    /\ ~NoInterface(Current) /\ ~KnownType(Current)
    /\ stack' = WithTop(stack, Advance(Top))
    /\ UNCHANGED <<external, pc, exc, browsedNodes, node, values, failures, met,
                   selected, subscribing>>

ElementFound ==
    /\ ElementToDo
    /\ KnownType(Current)
    /\ CallTransformToNodeIds(stack, Current, TypeNode(TypeDefinition(Current)),
                              NextPlace)
    /\ UNCHANGED <<external, pc, exc, node, values, failures, selected,
                   subscribing>>

-----------------------------------------------------------------------------
(* The end of a call. *)

Return ==
    /\ pc = "transform" /\ exc = "none" /\ ~InLoop
    /\ \/ /\ Len(stack) > 1
          /\ stack' = WithTop(Callers, Receive(stack[Len(stack) - 1], Top))
          /\ UNCHANGED <<pc, node, selected, pending>>
       \/ /\ Len(stack) = 1
          /\ stack' = <<>>
          /\ node' = Entry(Top)
          /\ selected' = Top.entries \cup {Entry(Top)}
          /\ pending' = <<Entry(Top)>>
          /\ pc' = "subscribe"
    /\ UNCHANGED <<external, exc, browsedNodes, values, failures, met,
                   subscribed, visited, refused>>

\* What the caller of f does with the exception.  In the handler of a placeholder
\* "throw ex" throws a copy of the static type, a plain std::exception; the loop
\* over a placeholder's elements has no handler.
Handle(caller, f) ==
    CASE f.fun = "BrowsePlaceholder" ->
            IF f.def.rule = "OptionalPlaceholder" THEN "none" ELSE "other"
      [] f.fun # "BrowsePlaceholder" /\ caller.fun = "BrowsePlaceholder" -> exc
      [] OTHER -> HandleChild(exc, f.def)

\* The exception leaves a call, and what the call found is lost.  Whatever leaves
\* prepareDataSetStorage makes the machine invalid.
Unwind ==
    /\ pc = "transform" /\ exc # "none"
    /\ \/ /\ Len(stack) > 1
          /\ LET caller == stack[Len(stack) - 1]
             IN  /\ exc' = Handle(caller, Top)
                 /\ stack' = IF exc' = "none"
                               THEN WithTop(Callers, Advance(caller))
                               ELSE Callers
          /\ UNCHANGED pc
       \/ /\ Len(stack) = 1
          /\ pc' = "invalid"
          /\ stack' = <<>>
          /\ UNCHANGED exc
    /\ UNCHANGED <<external, browsedNodes, node, values, failures, met, selected,
                   subscribing>>

-----------------------------------------------------------------------------
(* subscribeValues, which visits the tree in preorder. *)

isMandatoryOrOptionalVariable(t) ==
    t.kind = "simple" /\ t.def.variable /\ t.def.rule \in {"Mandatory", "Optional"}

\* Faulty variant: the search finds nothing.
NeverFound(n) == FALSE

\* subscribeValue looks for an item of the same node.
HasItem(n) == \E i \in subscribed : i.node = n

Visit(t) ==
    /\ pc = "subscribe" /\ pending # <<>> /\ t = Head(pending)
    /\ pending' = t.children \o Tail(pending)
    /\ visited' = visited \cup {t}
    /\ UNCHANGED <<external, pc, transforming, node, values, selected>>

NothingToSubscribe ==
    \E t \in selected :
        /\ Visit(t)
        /\ isMandatoryOrOptionalVariable(t) => HasItem(t.node)
        /\ UNCHANGED <<subscribed, refused>>

\* The server may refuse; the exception is logged.
subscribeValue ==
    \E t \in selected :
        /\ Visit(t)
        /\ isMandatoryOrOptionalVariable(t) /\ ~HasItem(t.node)
        /\ \/ /\ subscribed' =
                     subscribed \cup {[node |-> t.node, place |-> t.place]}
              /\ UNCHANGED refused
           \/ /\ refused' = refused \cup {t.node}
              /\ UNCHANGED subscribed

\* m_dataSets.push_back
Subscribed ==
    /\ pc = "subscribe" /\ pending = <<>>
    /\ pc' = "added"
    /\ UNCHANGED <<external, transforming, node, values, selected, subscribing>>

\* The callback: valueMap[pNode] = value.
dataChange ==
    /\ pc \in {"subscribe", "added"}
    /\ \E i \in subscribed : values' = values \cup {i.place}
    /\ UNCHANGED <<external, pc, transforming, node, selected, subscribing>>

-----------------------------------------------------------------------------
(* ModelToJson.  A JSON value is the set of its leaves, each with the keys   *)
(* that lead to it; null has none, and a number or string one without keys.  *)
(* The operators take the JSON of the children as a function.                *)

Null == {}
Leaf(kind, v) == {[keys |-> <<>>, kind |-> kind, value |-> v]}
Under(key, json) ==
    {[keys |-> <<key>> \o leaf.keys, kind |-> leaf.kind, value |-> leaf.value] :
        leaf \in json}
Throw == Leaf("throw", "exception")
Throws(json) == \E leaf \in json : leaf.kind = "throw"
IsPrimitive(json) == \E leaf \in json : leaf.keys = <<>>

getValue(t) == IF t.place \in values THEN Leaf("value", t.node) ELSE Null

\* A field that is there, with the value null, is a leaf of its own.
ValueField(t) ==
    Under("value", IF t.place \in values THEN getValue(t) ELSE Leaf("null", "null"))

\* The children or elements of t that are written: of children with the same
\* browse name the first only.
Written(t) ==
    {k \in DOMAIN t.children :
        t.kind = "simple" =>
            \A earlier \in 1 .. (k - 1) :
                t.children[earlier].def.name # t.children[k].def.name}

\* The key is the browse name without its namespace, which the server gives to an
\* element and the type to a child.
Key(t, k) ==
    IF t.kind = "simple" THEN t.children[k].def.name.Name
    ELSE server.browseName[t.children[k].node].Name

\* A field replaces an earlier one of the same key; null is left out.
Replaced(t, k, fields) ==
    \E later \in Written(t) :
        later > k /\ Key(t, later) = Key(t, k) /\ fields[later] # Null

\* The JSON object with these fields.  What is thrown is not replaced.
Object(t, fields) ==
    UNION {Under(Key(t, k), {leaf \in fields[k] : leaf.kind = "throw"
                                                  \/ ~Replaced(t, k, fields)}) :
           k \in Written(t)}

Children(t, json) ==
    Object(t, [k \in DOMAIN t.children |-> json[t.children[k]]])

\* Faulty variant: the children take the place of the value.
ChildrenReplaceValue(t, json) ==
    IF t.children = <<>> THEN getValue(t)
    ELSE IF Children(t, json) = Null THEN ValueField(t) ELSE Children(t, json)

\* Faulty variant: the children of a variable are forgotten.
ValueOnly(t, json) == getValue(t)

VariableToJson(t, json) ==
    IF t.children = <<>> THEN getValue(t)
    ELSE ValueField(t) \cup Under("properties", Children(t, json))

\* el["$TypeDefinition"] throws if el is a number or a string, and replaces a
\* child of that name.
ElementToJson(e, el) ==
    IF IsPrimitive(el) THEN Throw
    ELSE {leaf \in el : leaf.kind = "throw" \/ leaf.keys[1] # "$TypeDefinition"}
            \cup Under("$TypeDefinition", Leaf("type", e.def.type))

Elements(t, json) ==
    Object(t, [k \in DOMAIN t.children |->
                  ElementToJson(t.children[k], json[t.children[k]])])

ModelToJson[t \in selected] ==
    CASE t.kind = "simple" /\ t.def.variable -> VariableToJson(t, ModelToJson)
      [] t.kind = "simple" /\ ~t.def.variable -> Children(t, ModelToJson)
      [] t.kind = "placeholder" -> Elements(t, ModelToJson)

getJson == ModelToJson[node]

\* The exception of getJson leaves Publish, Iterate and main.
PublishTerminates ==
    /\ pc = "added"
    /\ Throws(getJson)
    /\ pc' = "terminated"
    /\ UNCHANGED <<external, transforming, node, values, selected, subscribing>>

Next ==
    \/ addDataSet \/ SkipChild \/ ChildMissing \/ TranslateUnanswered
    \/ ChildFound \/ BrowsePlaceholder \/ SuperTypeUnanswered
    \/ InterfaceRequestFails \/ InterfaceMissing
    \/ ElementOfUnknownType \/ ElementFound \/ Return \/ Unwind
    \/ NothingToSubscribe \/ subscribeValue \/ Subscribed
    \/ dataChange \/ PublishTerminates

Spec == Init /\ [][Next]_vars

-----------------------------------------------------------------------------
(* What the types and the server's references say of a tree. *)

ChildrenOf(t) == {m_typeMap[t].children[k] : k \in DOMAIN m_typeMap[t].children}
Instances(n, c) == {Referenced(n, c)[k] : k \in DOMAIN Referenced(n, c)}
ChildEntries(e) == {e.children[k] : k \in DOMAIN e.children}

\* May d be a child of the node e, or an element of the placeholder e?
ChildOf(e, d) ==
    /\ d.def \in ChildrenOf(e.def.type)
    /\ IF d.def.rule \in Placeholders
         THEN d.kind = "placeholder" /\ d.node = e.node
         ELSE /\ d.kind = "simple"
              /\ Referenced(e.node, d.def) # <<>>
              /\ d.node = Referenced(e.node, d.def)[1]

ElementOf(e, d) ==
    /\ d.kind = "simple"
    /\ d.node \in Instances(e.node, e.def)
    /\ KnownType(d.node)
    /\ d.def = TypeNode(TypeDefinition(d.node))

Genuine(e) ==
    \A d \in ChildEntries(e) :
        IF e.kind = "simple" THEN ChildOf(e, d) ELSE ElementOf(e, d)

\* Does e have a child for c?
Has(e, c) == \E d \in ChildEntries(e) : d.def = c

HasMandatory(e) ==
    e.kind = "simple" /\ e.first =>
        \A c \in ChildrenOf(e.def.type) :
            c.rule \in {"Mandatory", "MandatoryPlaceholder"} => Has(e, c)

\* Is there anything to select for the child c of n?
Offers(n, c) ==
    \/ c.rule \in Placeholders
    \/ c.rule \in {"Optional", "Mandatory"} /\ Referenced(n, c) # <<>>

HasOffered(e) ==
    /\ e.kind = "simple" /\ e.first =>
          \A c \in ChildrenOf(e.def.type) : Offers(e.node, c) => Has(e, c)
    /\ e.kind = "placeholder" =>
          \A n \in Instances(e.node, e.def) :
              KnownType(n) => \E d \in ChildEntries(e) : d.node = n

\* No request failed, and each node that was met has the mandatory children of
\* the type it was met with.
Clean ==
    /\ failures = 0
    /\ \A p \in met : \A c \in ChildrenOf(p[2]) :
          c.rule = "Mandatory" => Referenced(p[1], c) # <<>>

\* The nodes to which a key of a payload may lead from n: the child of that name,
\* the instances of that name of a placeholder, and n itself, to which "value",
\* "properties" and the placeholders belong.
Follow(n, key) ==
    LET definitions == UNION {ChildrenOf(t) : t \in DOMAIN m_typeMap}
        named == {c \in definitions : c.name.Name = key}
    IN  {Referenced(n, c)[1] : c \in {d \in named : d.rule \notin Placeholders
                                                 /\ Referenced(n, d) # <<>>}}
        \cup {m \in Nodes :
                 /\ server.browseName[m].Name = key
                 /\ \E c \in definitions : c.rule \in Placeholders
                                             /\ m \in Instances(n, c)}
        \cup (IF key \in {"value", "properties"}
                   \/ \E c \in named : c.rule \in Placeholders
                THEN {n} ELSE {})

\* The nodes to which all keys may lead.
Resolve(keys) ==
    LET leads[k \in 0 .. Len(keys)] ==
            IF k = 0 THEN {StartNode}
            ELSE UNION {Follow(n, keys[k]) : n \in leads[k - 1]}
    IN  leads[Len(keys)]

\* Is the field of the k-th child or element of e not in the payload, because a
\* later one of the same Name, in another namespace, or the type of the element
\* took its place?
Hidden(e, k) ==
    \/ Key(e, k) = "$TypeDefinition"
    \/ \E later \in Written(e) :
          /\ later > k /\ Key(e, later) = Key(e, k)
          /\ e.kind = "simple" => ModelToJson[e.children[later]] # Null

\* Is the place part of such a field?
Overwritten(place) ==
    \E e \in selected : \E k \in DOMAIN e.children :
        Hidden(e, k) /\ IsPrefix(e.children[k].place, place)

-----------------------------------------------------------------------------
(* Properties. *)

\* addDataSet skips invalid instances (README.md:14): whatever requests fail, and
\* whatever exceptions are thrown and handled on the way, the tree of a machine
\* that is accepted is the machine's and consists of nodes the server references
\* for children of their types; and each node has, where it is met first, all
\* mandatory children of its type (a node that browsedNodes knows is entered
\* without children).
AcceptedIsComplete ==
    pc \in {"subscribe", "added"} =>
        /\ node.node = StartNode /\ node.def = TypeNode(StartType) /\ node.first
        /\ \A e \in selected : Genuine(e) /\ HasMandatory(e)

\* A machine whose nodes are all complete, on a server that answers, is not
\* skipped, however its nodes share others; and TransformToNodeIds selects all
\* that the server offers: every child of every node, once at least with the
\* children of the type it was first met with, and every element whose type is
\* known.
CompleteIsSelected ==
    Clean =>
        /\ pc # "invalid"
        /\ pc \in {"subscribe", "added"} =>
              \A e \in selected :
                  /\ HasOffered(e)
                  /\ \E d \in selected :
                        d.kind = "simple" /\ d.first /\ d.node = e.node

\* subscribeValues monitors every variable of the tree, in whatever places it
\* occurs, unless the server refuses it; and it monitors no node twice, and
\* nothing else.
VariablesMonitoredOnce ==
    /\ \A i, j \in subscribed : i.node = j.node => i = j
    /\ \A i \in subscribed : \E t \in selected :
          isMandatoryOrOptionalVariable(t) /\ t.node = i.node /\ t.place = i.place
    /\ pc = "added" =>
          \A t \in selected :
              isMandatoryOrOptionalVariable(t) =>
                  t.node \in refused \cup {i.node : i \in subscribed}

\* getJson shows every value that arrived, unless a field of the same Name in
\* another namespace took its place (keys are names without namespace), and shows
\* it only under keys that lead to its node on the server; types that list a child
\* repeatedly do not change that.  (A node that the server first refused may be
\* monitored for a later place, which getJson leaves out if an earlier sibling
\* has the same browse name.)
PayloadTrue ==
    pc = "added" /\ ~Throws(getJson) =>
        /\ \A i \in subscribed : i.place \in values /\ i.node \notin refused =>
              \/ \E leaf \in getJson : leaf.kind = "value" /\ leaf.value = i.node
              \/ Overwritten(i.place)
        /\ \A leaf \in getJson :
              leaf.kind = "value" => leaf.value \in Resolve(leaf.keys)

\* A data set ends the process in three ways only.  While it is selected: one of
\* the services whose results are used without a look at how many there are fails,
\* which are those for a child, for the super types of a placeholder's elements and
\* for the interface of an element that is a plain object; or such an element has
\* no interface.  When it is published: an element is a variable without selected
\* children, whose value getJson cannot extend by its type.
OnlyKnownTerminations ==
    pc = "terminated" =>
        \/ /\ stack # <<>> /\ failures > 0
           /\ IF Top.fun = "BrowsePlaceholder" THEN Plain(Current)
              ELSE Current.rule # "None"
        \/ /\ stack # <<>>
           /\ \E p \in met : \E c \in ChildrenOf(p[2]) :
                 c.rule \in Placeholders
                     /\ \E n \in Instances(p[1], c) : NoInterface(n)
        \/ /\ stack = <<>>
           /\ \E t \in selected :
                 /\ t.kind = "simple" /\ t.def.variable /\ t.children = <<>>
                 /\ t.def = TypeNode(t.def.type)
=============================================================================
