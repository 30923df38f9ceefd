----------------------------- MODULE TypeReader -----------------------------
(****************************************************************************)
(* OpcUaTypeReader::readTypes: browse the variable types and the object     *)
(* types of the server into a tree of StructureBiNodes, merge into each     *)
(* type of an expected namespace the children of its super types, and let   *)
(* the children of these types share the lists of their own types.          *)
(*                                                                          *)
(* The lists hold shared pointers: a type and its subtypes hold the same    *)
(* node, and what a merge adds to the node's list is seen by all of them.   *)
(* A list is modelled by the set of the nodes in it: toStructureNode        *)
(* appends the same pointers again for every subtype, which no look-up by   *)
(* name can tell.                                                           *)
(*                                                                          *)
(* A node of the model is a node of the tree, one per path that browseTypes *)
(* follows.  A type has one super type, so the branch "Found Type again" of *)
(* handleBrowseTypeResult is not taken.                                     *)
(****************************************************************************)
EXTENDS Naturals, FiniteSets

CONSTANTS
    Node,
    NoNode,
    VariableRoot,  \* i=63, BaseDataVariableType
    ObjectRoot,    \* NodeId_BaseObjectType
    Type,          \* nodes of class ObjectType or VariableType
    Parent,        \* NoNode for the two roots
    Ancestors,     \* a node, its parent, the parent's parent, ...
    Depth,         \* the position of a node in a bloodline that contains it
    Name,          \* SpecifiedBrowseName
    Rule,          \* the modelling rule the server has for a node
    TypeOf,        \* SpecifiedTypeNodeId; NoNode: not in the tree
    Container,     \* FolderType and FunctionalGroupType
    Expected,      \* types whose namespace is expected and offered
    Configured,    \* keys of m_identificationTypeOfTypeDefinition
    MaxFailures    \* bound: requests that fail

Rules == {"None", "Optional", "Mandatory", "OptionalPlaceholder",
          "MandatoryPlaceholder"}

ASSUME NodesAssumption ==
    /\ NoNode \notin Node
    /\ VariableRoot \in Type /\ ObjectRoot \in Type
    /\ VariableRoot # ObjectRoot
    /\ Type \subseteq Node
    /\ Expected \subseteq Type
    /\ Configured \subseteq Type
    /\ Container \subseteq Node
    /\ TypeOf \in [Node -> Node \cup {NoNode}]
    /\ Rule \in [Node -> Rules \ {"None"}]
    /\ MaxFailures \in Nat

\* The references that browseTypes follows form a tree (it would not return from
\* a cycle), in which super types are parents and siblings have different names.
ASSUME TreeAssumption ==
    /\ Parent \in [Node -> Node \cup {NoNode}]
    /\ \A n \in Node : Parent[n] = NoNode <=> n \in {VariableRoot, ObjectRoot}
    /\ \A t \in Type : Parent[t] \in Type \cup {NoNode}
    /\ \A c, d \in Node : Parent[c] = Parent[d] /\ Name[c] = Name[d] => c = d
    /\ Depth \in [Node -> Nat]
    /\ \A n \in Node : Parent[n] # NoNode => Depth[n] = Depth[Parent[n]] + 1
    /\ Ancestors \in [Node -> SUBSET Node]
    /\ \A n \in Node : n \in Ancestors[n]
    /\ \A t \in Type : Ancestors[t] \subseteq Type
    /\ \A n \in Node : \A a, b \in Ancestors[n] :
          /\ Depth[a] <= Depth[b] => a \in Ancestors[b]
          /\ Depth[a] = Depth[b] => a = b
    /\ \A n \in Node : \A a \in Ancestors[n] : Ancestors[a] \subseteq Ancestors[n]

VARIABLES
    phase,       \* where readTypes is
    handled,     \* nodes of the tree, with a StructureBiNode
    results,     \* browse results of the open loops that are still to be handled
    cut,         \* nodes for which a browse silently returned too little
    rule,        \* ModellingRule of a handled node
    list,        \* SpecifiedChildNodes as far as the merge has filled them
    current,     \* the type that setupTypeMap is at
    bloodline,   \* its super types still to be merged, itself included
    merged,      \* children that the loop over the current type has passed
    m_typeMap,   \* types entered
    shares,      \* type whose list a child points to since updateTypeMap
    m_expectedObjectTypeNames,
    failures

attempt == <<handled, results, cut, rule, list, current, bloodline, merged,
             shares, m_expectedObjectTypeNames>>
vars == <<phase, attempt, m_typeMap, failures>>

Phases == {"browse", "merge", "done"}

TypeOK ==
    /\ phase \in Phases
    /\ handled \subseteq Node
    /\ results \subseteq Node
    /\ cut \subseteq Node
    /\ rule \in [Node -> Rules]
    /\ list \in [Node -> SUBSET Node]
    /\ current \in Expected \cup {NoNode}
    /\ bloodline \subseteq Type
    /\ merged \subseteq Node \ Type
    /\ m_typeMap \subseteq Expected
    /\ shares \in [Node -> Expected \cup {NoNode}]
    /\ m_expectedObjectTypeNames \subseteq {Name[t] : t \in Configured}
    /\ failures \in 0 .. MaxFailures

BrowsedBelow(n) == {c \in Node : Parent[c] = n}

\* The start type is entered without a request and with the rule Mandatory;
\* its children are the first results.
AttemptInit ==
    /\ handled = {VariableRoot}
    /\ results = BrowsedBelow(VariableRoot)
    /\ cut = {}
    /\ rule = [n \in Node |-> "Mandatory"]
    /\ list = [n \in Node |-> {}]
    /\ current = NoNode
    /\ bloodline = {}
    /\ merged = {}
    /\ shares = [n \in Node |-> NoNode]
    /\ m_expectedObjectTypeNames = {}

NewAttempt ==
    /\ handled' = {VariableRoot}
    /\ results' = BrowsedBelow(VariableRoot)
    /\ cut' = {}
    /\ rule' = [n \in Node |-> "Mandatory"]
    /\ list' = [n \in Node |-> {}]
    /\ current' = NoNode
    /\ bloodline' = {}
    /\ merged' = {}
    /\ shares' = [n \in Node |-> NoNode]
    /\ m_expectedObjectTypeNames' = {}

Init ==
    /\ phase = "browse"
    /\ AttemptInit
    /\ m_typeMap = {}
    /\ failures = 0

-----------------------------------------------------------------------------
(* Browsing. *)

\* Faulty: one of the four names is not compared.
RuleWithoutPlaceholder(n) ==
    IF Rule[n] = "MandatoryPlaceholder" THEN "Optional" ELSE Rule[n]

\* The rule is the one of the objects below the node with the name of a rule.
BrowseModellingRule(n) == Rule[n]

\* An exception leaves the rule None.  A failed service has no results and
\* raises no exception: then the rule is Optional.
FailedRules == {"None", "Optional"}

Handle(n, r, below) ==
    /\ phase = "browse"
    /\ n \in results
    /\ handled' = handled \cup {n}
    /\ rule' = [rule EXCEPT ![n] = r]
    /\ results' = (results \ {n}) \cup below
    /\ UNCHANGED <<phase, list, current, bloodline, merged, m_typeMap, shares,
                   m_expectedObjectTypeNames>>

handleBrowseTypeResult(n) ==
    /\ Handle(n, BrowseModellingRule(n), BrowsedBelow(n))
    /\ UNCHANGED <<cut, failures>>

ModellingRuleFails(n) ==
    /\ failures < MaxFailures
    /\ \E r \in FailedRules : Handle(n, r, BrowsedBelow(n))
    /\ failures' = failures + 1
    /\ UNCHANGED cut

\* BrowseWithContextAndFilter returns an empty list if the service failed, and
\* the first part of the list if the server gave a continuation point.
BrowseReturnsLess(n) ==
    /\ failures < MaxFailures
    /\ \E some \in SUBSET BrowsedBelow(n) :
          /\ some # BrowsedBelow(n)
          /\ Handle(n, BrowseModellingRule(n), some)
    /\ cut' = cut \cup {n}
    /\ failures' = failures + 1

\* ClientNotConnected or a bad status: main calls readTypes again, which begins
\* with a new tree.
BrowseThrows ==
    /\ phase = "browse"
    /\ failures < MaxFailures
    /\ NewAttempt
    /\ failures' = failures + 1
    /\ UNCHANGED <<phase, m_typeMap>>

BrowseObjectTypes ==
    /\ phase = "browse"
    /\ results = {}
    /\ ObjectRoot \notin handled
    /\ handled' = handled \cup {ObjectRoot}
    /\ results' = BrowsedBelow(ObjectRoot)
    /\ UNCHANGED <<phase, cut, rule, list, current, bloodline, merged, m_typeMap,
                   shares, m_expectedObjectTypeNames, failures>>

\* Faulty: the second root is forgotten.
FinishedAfterVariables ==
    /\ phase = "browse"
    /\ results = {}
    /\ phase' = "merge"
    /\ UNCHANGED <<attempt, m_typeMap, failures>>

BrowsingFinished ==
    /\ phase = "browse"
    /\ results = {}
    /\ ObjectRoot \in handled
    /\ phase' = "merge"
    /\ UNCHANGED <<attempt, m_typeMap, failures>>

-----------------------------------------------------------------------------
(* Merging: setupTypeMap, for the namespaces in the server's order and the   *)
(* types in the order of their NodeIds, which may be any.                    *)

BiChildren(n) == {c \in handled : Parent[c] = n}

\* The list of a child: what was browsed below it, and what merges have added.
toStructureNode(c) == list[c] \cup BiChildren(c)

NameIn(n, nodes) == \E x \in nodes : Name[x] = Name[n]

Weak(f) == rule[f] \in {"Optional", "OptionalPlaceholder"}

StartType(t) ==
    /\ phase = "merge"
    /\ current = NoNode
    /\ t \in (Expected \cap handled) \ m_typeMap
    /\ current' = t
    /\ bloodline' = Ancestors[t]
    /\ merged' = {}
    /\ UNCHANGED <<phase, handled, results, cut, rule, list, m_typeMap, shares,
                   m_expectedObjectTypeNames, failures>>

\* The loop goes from the root of the hierarchy down to the type itself.
AtAncestor(a) ==
    /\ current # NoNode
    /\ a \in bloodline
    /\ \A b \in bloodline : Depth[a] <= Depth[b]

ToMerge(a) == BiChildren(a) \ (Type \cup merged)

MergeNewChild(a, c) ==
    /\ AtAncestor(a)
    /\ c \in ToMerge(a)
    /\ ~NameIn(c, list[current])
    /\ list' = [list EXCEPT ![current] = @ \cup {c}]
    /\ merged' = merged \cup {c}
    /\ UNCHANGED <<phase, handled, results, cut, rule, current, bloodline,
                   m_typeMap, shares, m_expectedObjectTypeNames, failures>>

\* Faulty: what f has and c lacks.
MissingSwapped(f, c) == {g \in toStructureNode(f) : ~NameIn(g, toStructureNode(c))}

\* Children that c has and f lacks.
MissingIn(f, c) == {g \in toStructureNode(c) : ~NameIn(g, toStructureNode(f))}

\* Faulty: the subtype always wins.
OverrideAlways(f, c) == (list[current] \ {f}) \cup {c}

\* Only an optional child is replaced by the definition of the subtype.
Override(f, c) == IF Weak(f) THEN (list[current] \ {f}) \cup {c} ELSE list[current]

MergeKnownChild(a, c) ==
    /\ AtAncestor(a)
    /\ c \in ToMerge(a)
    /\ \E f \in list[current] :
          /\ Name[f] = Name[c]
          /\ list' = [list EXCEPT ![f] = @ \cup MissingIn(f, c),
                                  ![current] = Override(f, c)]
    /\ merged' = merged \cup {c}
    /\ UNCHANGED <<phase, handled, results, cut, rule, current, bloodline,
                   m_typeMap, shares, m_expectedObjectTypeNames, failures>>

\* Faulty: the iterator stays.
RepeatAncestor(a) ==
    /\ AtAncestor(a)
    /\ ToMerge(a) = {}
    /\ UNCHANGED vars

NextAncestor(a) ==
    /\ AtAncestor(a)
    /\ ToMerge(a) = {}
    /\ bloodline' = bloodline \ {a}
    /\ UNCHANGED <<phase, handled, results, cut, rule, list, current, merged,
                   m_typeMap, shares, m_expectedObjectTypeNames, failures>>

\* m_typeMap->insert.
InsertType ==
    /\ current # NoNode
    /\ bloodline = {}
    /\ m_typeMap' = m_typeMap \cup {current}
    /\ current' = NoNode
    /\ UNCHANGED <<phase, handled, results, cut, rule, list, bloodline, merged,
                   shares, m_expectedObjectTypeNames, failures>>

-----------------------------------------------------------------------------
(* The end of readTypes. *)

\* Children of the types, and of the folders in them one level deeper.
Shared ==
    LET Top == UNION {list[t] : t \in m_typeMap}
    IN  {c \in Top : TypeOf[c] \notin Container}
        \cup UNION {toStructureNode(c) : c \in {d \in Top : TypeOf[d] \in Container}}

updateTypeMap ==
    shares' = [n \in Node |->
                  IF n \in Shared /\ TypeOf[n] \in m_typeMap THEN TypeOf[n] ELSE NoNode]

updateObjectTypeNames ==
    m_expectedObjectTypeNames' = {Name[t] : t \in Configured \cap m_typeMap}

ReadTypesEnds ==
    /\ phase = "merge"
    /\ current = NoNode
    /\ Expected \cap handled \subseteq m_typeMap
    /\ phase' = "done"
    /\ updateTypeMap
    /\ updateObjectTypeNames
    /\ UNCHANGED <<handled, results, cut, rule, list, current, bloodline, merged,
                   m_typeMap, failures>>

\* The gateway resets: the reader is destroyed, and a new one reads the types.
Reset ==
    /\ phase = "done"
    /\ phase' = "browse"
    /\ NewAttempt
    /\ m_typeMap' = {}
    /\ UNCHANGED failures

Merge ==
    \/ \E t \in Expected : StartType(t)
    \/ \E a \in bloodline : \E c \in handled :
          MergeNewChild(a, c) \/ MergeKnownChild(a, c)
    \/ \E a \in bloodline : NextAncestor(a)
    \/ InsertType
    \/ ReadTypesEnds

Browse ==
    \/ \E n \in results : handleBrowseTypeResult(n)
    \/ BrowseObjectTypes
    \/ BrowsingFinished

Fault ==
    \/ \E n \in results : ModellingRuleFails(n) \/ BrowseReturnsLess(n)
    \/ BrowseThrows

Next == Browse \/ Fault \/ Merge \/ Reset

Spec == Init /\ [][Next]_vars

\* readTypes runs on the main thread, which waits for nothing but the answers.
FairSpec == Spec /\ WF_vars(Browse \/ Merge)

-----------------------------------------------------------------------------
(* Properties. *)

\* The children that a type and its super types define.
Definitions(t) == {c \in handled \ Type : Parent[c] \in Ancestors[t]}

\* x is the first definition of its name that is not optional, seen from the
\* root of the hierarchy, or, if all are optional, the last one.
Wins(x, defs) ==
    /\ \A y \in defs : Name[y] = Name[x] /\ Depth[y] < Depth[x] => Weak(y)
    /\ Weak(x) => \A y \in defs : Name[y] = Name[x] => Depth[y] <= Depth[x]

\* The loops of setupTypeMap compute, in place, for every type of m_typeMap
\* exactly the winning definitions of its bloodline, in whatever order the types
\* are processed and although they share and change each other's nodes.
FirstMandatoryWins ==
    \A t \in m_typeMap :
        list[t] = {x \in Definitions(t) : Wins(x, Definitions(t))}

\* No name that a super type defines is missing in a type of m_typeMap, even
\* where modelling rules were lost to failed requests.
NoNameLost ==
    \A t \in m_typeMap : \A d \in Definitions(t) : NameIn(d, list[t])

\* Two children of one list never have the same name: DashboardClient would
\* resolve both to the same node of a machine.
NamesUnique ==
    /\ \A t \in m_typeMap : \A x, y \in list[t] : Name[x] = Name[y] => x = y
    /\ \A f \in handled \ Type : \A x, y \in toStructureNode(f) :
          Name[x] = Name[y] => x = y

\* As long as no request has failed, what the server declares mandatory in a
\* type or a super type is mandatory in the type: DashboardClient rejects a
\* machine without it.
MandatoryUntilFailure ==
    failures = 0 =>
        \A t \in m_typeMap : \A d \in Definitions(t) :
            Rule[d] \in {"Mandatory", "MandatoryPlaceholder"} =>
                \E x \in list[t] :
                    /\ Name[x] = Name[d]
                    /\ rule[x] \in {"Mandatory", "MandatoryPlaceholder"}

\* A child that is not optional has, by name, all the children that the
\* subtypes' definitions of it add.
RedefinitionsMerged ==
    \A t \in m_typeMap : \A w \in list[t] : ~Weak(w) =>
        \A d \in Definitions(t) :
            Name[d] = Name[w] /\ Depth[d] > Depth[w] =>
                \A g \in BiChildren(d) : NameIn(g, toStructureNode(w))

\* A child of a type has, by name, all the children that the super types'
\* definitions of it have, as the comment in setupTypeMap says.  Violated: an
\* optional child is replaced after the merge, and what it had is gone.
InheritedChildrenMerged ==
    \A t \in m_typeMap : \A w \in list[t] : \A d \in Definitions(t) :
        Name[d] = Name[w] => \A g \in BiChildren(d) : NameIn(g, toStructureNode(w))

\* What a merge adds to a shared node comes from a definition of the same name
\* in a subtype: the sharing leaks to super types and their other subtypes, but
\* never to an unrelated type.
AddedBySubtypes ==
    \A f \in Node \ Type : \A g \in list[f] :
        /\ Parent[g] \in Node \ Type
        /\ Name[Parent[g]] = Name[f]
        /\ Parent[f] \in Ancestors[Parent[Parent[g]]]

\* An attempt that fails leaves m_typeMap empty, and one that ends has every
\* expected type in it, unless a browse silently returned too little.
AllOrNothing ==
    /\ phase = "browse" => m_typeMap = {}
    /\ phase = "done" /\ cut = {} => m_typeMap = Expected /\ handled = Node

\* readTypes returns, after each reset again, once the requests stop failing.
TypesRead == []<>(phase = "done")
=============================================================================
