-------------------------- MODULE TypeReaderProofs --------------------------
(****************************************************************************)
(* The merge of the type reader is right for every hierarchy, every order   *)
(* of the types and every failure of a request.                             *)
(*                                                                          *)
(* The inductive invariant says of the type that is being merged, for the   *)
(* children passed so far, what the properties say of the finished types    *)
(* for all definitions (Settled), and that the loop is at an ancestor below *)
(* which every remaining definition lies (Progress).  That a browse without *)
(* a loss sees every node is a second, smaller invariant (NothingDropped).  *)
(****************************************************************************)
EXTENDS TypeReader, WellFoundedInduction, TLAPS

Settled(t, defs) ==
    /\ list[t] = {x \in defs : Wins(x, defs)}
    /\ \A d \in defs : NameIn(d, list[t])
    /\ \A w \in list[t] : ~Weak(w) =>
          \A d \in defs : Name[d] = Name[w] /\ Depth[d] > Depth[w] =>
              \A g \in BiChildren(d) : NameIn(g, toStructureNode(w))

BrowsingClean ==
    phase = "browse" =>
        current = NoNode /\ m_typeMap = {} /\ list = [n \in Node |-> {}]

Merging ==
    current # NoNode =>
        /\ phase = "merge"
        /\ current \notin m_typeMap
        /\ bloodline \subseteq Ancestors[current]
        /\ merged \subseteq Definitions(current)
        /\ \A c \in Definitions(current) \ merged : Parent[c] \in bloodline
        /\ \A c \in merged : \A b \in bloodline : Depth[c] <= Depth[b] + 1
        /\ Settled(current, merged)

Finished == \A t \in m_typeMap : Settled(t, Definitions(t))

Untouched == \A t \in Type \ m_typeMap : t # current => list[t] = {}

ChildNamesUnique ==
    \A f \in Node \ Type : \A x, y \in toStructureNode(f) :
        Name[x] = Name[y] => x = y

RulesKept ==
    failures = 0 => \A n \in handled \ Type : rule[n] = Rule[n]

Inv ==
    /\ TypeOK
    /\ BrowsingClean
    /\ Merging
    /\ Finished
    /\ Untouched
    /\ ChildNamesUnique
    /\ AddedBySubtypes
    /\ RulesKept

-----------------------------------------------------------------------------
(* Types. *)

LEMMA InitTyped == Init => TypeOK
BY NodesAssumption, TreeAssumption
DEF Init, AttemptInit, TypeOK, Phases, Rules, BrowsedBelow

\* Every step of the reader keeps the types; a fault or a reset does too.
LEMMA StepTyped == TypeOK /\ [Next]_vars => TypeOK'
<1> SUFFICES ASSUME TypeOK, [Next]_vars PROVE TypeOK'
    OBVIOUS
<1> USE NodesAssumption, TreeAssumption DEF TypeOK, Phases
<1>1. ASSUME NEW n \in results, NEW r \in Rules, NEW below \in SUBSET Node,
             Handle(n, r, below),
             cut' \subseteq Node, failures' \in 0 .. MaxFailures
      PROVE  TypeOK'
    BY <1>1 DEF Handle
<1>2. ASSUME NEW n \in results, handleBrowseTypeResult(n) PROVE TypeOK'
    BY <1>1, <1>2 DEF handleBrowseTypeResult, BrowseModellingRule, BrowsedBelow
<1>3. ASSUME NEW n \in results, ModellingRuleFails(n) PROVE TypeOK'
    <2>1. PICK r \in FailedRules : Handle(n, r, BrowsedBelow(n))
        BY <1>3 DEF ModellingRuleFails
    <2>2. r \in Rules /\ BrowsedBelow(n) \in SUBSET Node
        BY DEF FailedRules, Rules, BrowsedBelow
    <2> QED BY <1>1, <1>3, <2>1, <2>2 DEF ModellingRuleFails
<1>4. ASSUME NEW n \in results, BrowseReturnsLess(n) PROVE TypeOK'
    <2>1. PICK some \in SUBSET BrowsedBelow(n) : Handle(n, BrowseModellingRule(n), some)
        BY <1>4 DEF BrowseReturnsLess
    <2>2. BrowseModellingRule(n) \in Rules /\ some \in SUBSET Node
        BY DEF BrowseModellingRule, BrowsedBelow
    <2>3. cut' \subseteq Node /\ failures' \in 0 .. MaxFailures
        BY <1>4 DEF BrowseReturnsLess
    <2> QED BY <1>1, <2>1, <2>2, <2>3
<1>5. ASSUME NewAttempt, phase' = "browse", m_typeMap' \subseteq Expected,
             failures' \in 0 .. MaxFailures
      PROVE  TypeOK'
    BY <1>5 DEF NewAttempt, BrowsedBelow, Rules
<1>6. CASE BrowseThrows BY <1>5, <1>6 DEF BrowseThrows
<1>7. CASE Reset BY <1>5, <1>7 DEF Reset
<1>8. CASE BrowseObjectTypes BY <1>8 DEF BrowseObjectTypes, BrowsedBelow
<1>9. CASE BrowsingFinished BY <1>9 DEF BrowsingFinished, attempt
<1>10. ASSUME NEW t \in Expected, StartType(t) PROVE TypeOK'
    BY <1>10 DEF StartType
<1>11. ASSUME NEW a \in bloodline, NEW c \in handled, MergeNewChild(a, c)
       PROVE  TypeOK'
    BY <1>11 DEF MergeNewChild, AtAncestor, ToMerge, BiChildren
<1>12. ASSUME NEW a \in bloodline, NEW c \in handled, MergeKnownChild(a, c)
       PROVE  TypeOK'
    <2>1. PICK f \in list[current] :
             list' = [list EXCEPT ![f] = @ \cup MissingIn(f, c),
                                  ![current] = Override(f, c)]
        BY <1>12 DEF MergeKnownChild
    <2>2. c \in Node \ Type /\ current \in Node
        BY <1>12 DEF MergeKnownChild, ToMerge, BiChildren, AtAncestor
    <2>3. MissingIn(f, c) \subseteq Node /\ Override(f, c) \subseteq Node
        BY <2>2 DEF MissingIn, toStructureNode, BiChildren, Override
    <2>4. list' \in [Node -> SUBSET Node]
        BY <2>1, <2>2, <2>3
    <2> QED BY <1>12, <2>2, <2>4 DEF MergeKnownChild
<1>13. ASSUME NEW a \in bloodline, NextAncestor(a) PROVE TypeOK'
    BY <1>13 DEF NextAncestor
<1>14. CASE InsertType BY <1>14 DEF InsertType
<1>15. CASE ReadTypesEnds
    <2>1. shares' \in [Node -> Expected \cup {NoNode}]
        BY <1>15 DEF ReadTypesEnds, updateTypeMap
    <2>2. m_expectedObjectTypeNames' \subseteq {Name[t] : t \in Configured}
        BY <1>15 DEF ReadTypesEnds, updateObjectTypeNames
    <2> QED BY <1>15, <2>1, <2>2 DEF ReadTypesEnds
<1>16. CASE UNCHANGED vars BY <1>16 DEF vars, attempt
<1> QED
    BY <1>2, <1>3, <1>4, <1>6, <1>7, <1>8, <1>9, <1>10, <1>11, <1>12, <1>13,
       <1>14, <1>15, <1>16
    DEF Next, Browse, Fault, Merge

\* The state of the reader is always well typed.
THEOREM TypeCorrect == Spec => []TypeOK
BY InitTyped, StepTyped, PTL DEF Spec

-----------------------------------------------------------------------------
(* Facts about definitions. *)

\* A child that is not a type has a parent, one generation above it.
LEMMA ChildHasParent ==
    ASSUME NEW c \in Node \ Type
    PROVE  Parent[c] \in Node /\ Depth[c] = Depth[Parent[c]] + 1
BY NodesAssumption, TreeAssumption

\* In one bloodline, a name is defined at most once per generation.
LEMMA OnePerGeneration ==
    ASSUME TypeOK, NEW t \in Type,
           NEW c \in Definitions(t), NEW d \in Definitions(t),
           Name[c] = Name[d], Depth[c] = Depth[d]
    PROVE  c = d
<1>1. /\ c \in Node \ Type /\ d \in Node \ Type
      /\ Parent[c] \in Ancestors[t] /\ Parent[d] \in Ancestors[t]
    BY DEF Definitions, TypeOK
<1>2. Depth[Parent[c]] = Depth[Parent[d]]
    <2>1. Depth[c] = Depth[Parent[c]] + 1 /\ Depth[d] = Depth[Parent[d]] + 1
        BY <1>1, ChildHasParent
    <2>2. Depth[Parent[c]] \in Nat /\ Depth[Parent[d]] \in Nat
        BY <1>1, ChildHasParent, TreeAssumption
    <2>3. \A x, y \in Nat : x + 1 = y + 1 => x = y
        OBVIOUS
    <2> QED BY <2>1, <2>2, <2>3
<1>3. Parent[c] = Parent[d]
    BY <1>1, <1>2, NodesAssumption, TreeAssumption
<1> QED BY <1>1, <1>3, TreeAssumption

\* The child that the loop merges is younger than those of its name before it.
LEMMA MergedIsYounger ==
    ASSUME TypeOK, Merging, NEW a, NEW c,
           AtAncestor(a), c \in ToMerge(a)
    PROVE  /\ c \in Definitions(current) \ merged
           /\ Parent[c] = a
           /\ \A y \in merged : Depth[y] <= Depth[c]
           /\ \A y \in merged : Name[y] = Name[c] => Depth[y] < Depth[c]
<1>1. current \in Type /\ a \in Ancestors[current] /\ a \in Node
    BY NodesAssumption, TreeAssumption DEF AtAncestor, TypeOK, Merging
<1>2. c \in handled \ Type /\ c \in Node \ Type /\ Parent[c] = a /\ c \notin merged
    BY DEF ToMerge, BiChildren, TypeOK
<1>3. c \in Definitions(current)
    BY <1>1, <1>2 DEF Definitions
<1>4. Depth[c] = Depth[a] + 1
    BY <1>2, ChildHasParent
<1>5. \A y \in merged : Depth[y] <= Depth[c]
    BY <1>1, <1>4 DEF AtAncestor, Merging
<1>6. ASSUME NEW y \in merged, Name[y] = Name[c] PROVE Depth[y] < Depth[c]
    <2>1. y \in Definitions(current) /\ y # c
        BY <1>1, <1>2 DEF Merging, AtAncestor
    <2>2. Depth[y] # Depth[c]
        BY <1>1, <1>3, <1>6, <2>1, OnePerGeneration
    <2>3. Depth[y] \in Nat /\ Depth[c] \in Nat
        BY <1>2, <2>1, TreeAssumption DEF Definitions, TypeOK
    <2> QED BY <1>5, <2>2, <2>3
<1> QED BY <1>2, <1>3, <1>5, <1>6

\* If one list grows and the tree stays, what is settled for another type stays.
LEMMA SettledIsKept ==
    ASSUME NEW t, NEW defs, Settled(t, defs),
           list'[t] = list[t],
           handled' = handled, rule' = rule,
           \A w \in list[t] : list[w] \subseteq list'[w]
    PROVE  Settled(t, defs)'
<1>1. \A n : Weak(n)' = Weak(n) /\ BiChildren(n)' = BiChildren(n)
    BY DEF Weak, BiChildren
<1>2. \A w \in list[t] : toStructureNode(w) \subseteq toStructureNode(w)'
    BY <1>1 DEF toStructureNode
<1>3. \A x : Wins(x, defs)' = Wins(x, defs)
    BY <1>1 DEF Wins
<1>4. list'[t] = {x \in defs : Wins(x, defs)'}
    BY <1>3 DEF Settled
<1>5. \A d \in defs : NameIn(d, list[t])'
    BY DEF Settled, NameIn
<1>6. ASSUME NEW w \in list'[t], ~Weak(w)', NEW d \in defs,
             Name[d] = Name[w], Depth[d] > Depth[w], NEW g \in BiChildren(d)'
      PROVE  NameIn(g, toStructureNode(w))'
    <2>1. NameIn(g, toStructureNode(w))
        BY <1>1, <1>6 DEF Settled
    <2> QED BY <1>2, <1>6, <2>1 DEF NameIn
<1> QED BY <1>4, <1>5, <1>6 DEF Settled

-----------------------------------------------------------------------------
(* The invariant, one lemma per kind of step. *)

LEMMA InitInv == Init => Inv
<1> SUFFICES ASSUME Init PROVE Inv
    OBVIOUS
<1> USE NodesAssumption, TreeAssumption
<1>1. TypeOK
    BY InitTyped
<1>2. /\ current = NoNode /\ m_typeMap = {} /\ list = [n \in Node |-> {}]
      /\ handled = {VariableRoot}
    BY DEF Init, AttemptInit
<1>3. ChildNamesUnique
    BY <1>2 DEF ChildNamesUnique, toStructureNode, BiChildren
<1>4. RulesKept
    BY <1>2 DEF RulesKept
<1> QED
    BY <1>1, <1>2, <1>3, <1>4
    DEF Inv, BrowsingClean, Merging, Finished, Untouched, AddedBySubtypes

\* Before the first merge, nothing can be wrong but the rules.
LEMMA CleanInv ==
    ASSUME TypeOK', current' = NoNode, m_typeMap' = {},
           list' = [n \in Node |-> {}], RulesKept'
    PROVE  Inv'
<1> USE NodesAssumption, TreeAssumption
<1>1. ChildNamesUnique'
    BY DEF ChildNamesUnique, toStructureNode, BiChildren, TypeOK
<1> QED
    BY <1>1
    DEF Inv, BrowsingClean, Merging, Finished, Untouched, AddedBySubtypes

LEMMA BrowseInv ==
    ASSUME Inv, TypeOK',
           \/ Browse
           \/ Fault
           \/ Reset
    PROVE  Inv'
<1> USE NodesAssumption, TreeAssumption DEF TypeOK, Inv
<1>1. ASSUME NEW n \in results, NEW r, NEW below, Handle(n, r, below),
             failures' # 0 \/ (failures' = failures /\ r = Rule[n])
      PROVE  Inv'
    <2>1. current' = NoNode /\ m_typeMap' = {} /\ list' = [m \in Node |-> {}]
        BY <1>1 DEF Handle, BrowsingClean
    <2>2. RulesKept'
        BY <1>1 DEF Handle, RulesKept
    <2> QED BY <2>1, <2>2, CleanInv
<1>2. ASSUME NEW n \in results, handleBrowseTypeResult(n) PROVE Inv'
    BY <1>1, <1>2 DEF handleBrowseTypeResult, BrowseModellingRule
<1>3. ASSUME NEW n \in results, ModellingRuleFails(n) PROVE Inv'
    <2>1. PICK r \in FailedRules : Handle(n, r, BrowsedBelow(n))
        BY <1>3 DEF ModellingRuleFails
    <2>2. failures' # 0
        BY <1>3 DEF ModellingRuleFails
    <2> QED BY <1>1, <2>1, <2>2
<1>4. ASSUME NEW n \in results, BrowseReturnsLess(n) PROVE Inv'
    <2>1. PICK some \in SUBSET BrowsedBelow(n) : Handle(n, BrowseModellingRule(n), some)
        BY <1>4 DEF BrowseReturnsLess
    <2>2. failures' # 0
        BY <1>4 DEF BrowseReturnsLess
    <2> QED BY <1>1, <2>1, <2>2
<1>5. CASE BrowseThrows
    <2>1. m_typeMap' = {} /\ handled' = {VariableRoot}
        BY <1>5 DEF BrowseThrows, NewAttempt, BrowsingClean
    <2>2. current' = NoNode /\ list' = [m \in Node |-> {}]
        BY <1>5 DEF BrowseThrows, NewAttempt
    <2> QED BY <2>1, <2>2, CleanInv DEF RulesKept
<1>6. CASE Reset
    <2>1. m_typeMap' = {} /\ handled' = {VariableRoot}
        BY <1>6 DEF Reset, NewAttempt
    <2>2. current' = NoNode /\ list' = [m \in Node |-> {}]
        BY <1>6 DEF Reset, NewAttempt
    <2> QED BY <2>1, <2>2, CleanInv DEF RulesKept
<1>7. CASE BrowseObjectTypes
    <2>1. current' = NoNode /\ m_typeMap' = {} /\ list' = [m \in Node |-> {}]
        BY <1>7 DEF BrowseObjectTypes, BrowsingClean
    <2>2. RulesKept'
        BY <1>7 DEF BrowseObjectTypes, RulesKept
    <2> QED BY <2>1, <2>2, CleanInv
<1>8. CASE BrowsingFinished
    <2>1. current' = NoNode /\ m_typeMap' = {} /\ list' = [m \in Node |-> {}]
        BY <1>8 DEF BrowsingFinished, BrowsingClean, attempt
    <2>2. RulesKept'
        BY <1>8 DEF BrowsingFinished, RulesKept, attempt
    <2> QED BY <2>1, <2>2, CleanInv
<1> QED
    BY <1>2, <1>3, <1>4, <1>5, <1>6, <1>7, <1>8 DEF Browse, Fault

\* Steps that change no list keep what is settled.
LEMMA SameListsInv ==
    ASSUME Inv, list' = list, handled' = handled, rule' = rule, failures' = failures
    PROVE  /\ \A t, defs : Settled(t, defs) => Settled(t, defs)'
           /\ \A t : Definitions(t)' = Definitions(t)
           /\ ChildNamesUnique' /\ AddedBySubtypes' /\ RulesKept'
<1>1. ASSUME NEW t, NEW defs, Settled(t, defs) PROVE Settled(t, defs)'
    BY <1>1, SettledIsKept
<1>2. \A t : Definitions(t)' = Definitions(t)
    BY DEF Definitions
<1>3. ChildNamesUnique'
    BY DEF Inv, ChildNamesUnique, toStructureNode, BiChildren
<1>4. AddedBySubtypes'
    BY DEF Inv, AddedBySubtypes
<1>5. RulesKept'
    BY DEF Inv, RulesKept
<1> QED BY <1>1, <1>2, <1>3, <1>4, <1>5

LEMMA WalkInv ==
    ASSUME Inv, TypeOK',
           \/ \E t \in Expected : StartType(t)
           \/ \E a \in bloodline : NextAncestor(a)
           \/ InsertType
           \/ ReadTypesEnds
    PROVE  Inv'
<1> USE NodesAssumption, TreeAssumption
<1>1. list' = list /\ handled' = handled /\ rule' = rule /\ failures' = failures
    BY DEF StartType, NextAncestor, InsertType, ReadTypesEnds
<1>2. /\ \A t, defs : Settled(t, defs) => Settled(t, defs)'
      /\ \A t : Definitions(t)' = Definitions(t)
      /\ ChildNamesUnique' /\ AddedBySubtypes' /\ RulesKept'
    BY <1>1, SameListsInv
<1>3. ASSUME NEW t \in Expected, StartType(t) PROVE Inv'
    <2>1. /\ phase = "merge" /\ phase' = "merge" /\ current = NoNode
          /\ current' = t /\ merged' = {} /\ bloodline' = Ancestors[t]
          /\ m_typeMap' = m_typeMap /\ t \notin m_typeMap
        BY <1>3 DEF StartType
    <2>2. list[t] = {}
        BY <2>1 DEF Inv, Untouched, TypeOK
    <2>3. Settled(t, {})
        BY <2>2 DEF Settled
    <2>4. Merging'
        BY <1>2, <2>1, <2>3 DEF Merging, Definitions
    <2>5. Finished'
        BY <1>2, <2>1 DEF Inv, Finished
    <2>6. Untouched'
        BY <1>1, <2>1 DEF Inv, Untouched
    <2> QED BY <1>2, <2>1, <2>4, <2>5, <2>6 DEF Inv, BrowsingClean
<1>4. ASSUME NEW a \in bloodline, NextAncestor(a) PROVE Inv'
    <2>1. /\ AtAncestor(a) /\ ToMerge(a) = {} /\ bloodline' = bloodline \ {a}
          /\ UNCHANGED <<phase, current, merged, m_typeMap>>
        BY <1>4 DEF NextAncestor
    <2>2. current # NoNode
        BY <2>1 DEF AtAncestor
    <2>3. ASSUME NEW c \in Definitions(current) \ merged PROVE Parent[c] \in bloodline'
        <3>1. Parent[c] \in bloodline
            BY <2>2 DEF Inv, Merging
        <3>2. Parent[c] # a
            BY <2>1 DEF ToMerge, BiChildren, Definitions
        <3> QED BY <2>1, <3>1, <3>2
    <2>4. Merging'
        BY <1>2, <2>1, <2>2, <2>3 DEF Inv, Merging
    <2>5. Finished' /\ Untouched' /\ BrowsingClean'
        BY <1>1, <1>2, <2>1 DEF Inv, Finished, Untouched, BrowsingClean
    <2> QED BY <1>2, <2>4, <2>5 DEF Inv
<1>5. CASE InsertType
    <2>1. /\ current # NoNode /\ bloodline = {} /\ current' = NoNode
          /\ m_typeMap' = m_typeMap \cup {current} /\ phase' = phase
        BY <1>5 DEF InsertType
    <2>2. merged = Definitions(current) /\ Settled(current, merged) /\ phase = "merge"
        BY <2>1 DEF Inv, Merging
    <2>3. Finished'
        BY <1>2, <2>1, <2>2 DEF Inv, Finished
    <2>4. Untouched' /\ Merging' /\ BrowsingClean'
        BY <1>1, <2>1, <2>2 DEF Inv, Untouched, Merging, BrowsingClean
    <2> QED BY <1>2, <2>3, <2>4 DEF Inv
<1>6. CASE ReadTypesEnds
    <2>1. current = NoNode /\ current' = NoNode /\ m_typeMap' = m_typeMap /\ phase' = "done"
        BY <1>6 DEF ReadTypesEnds
    <2>2. Finished' /\ Untouched' /\ Merging' /\ BrowsingClean'
        BY <1>1, <1>2, <2>1 DEF Inv, Finished, Untouched, Merging, BrowsingClean
    <2> QED BY <1>2, <2>2 DEF Inv
<1> QED BY <1>3, <1>4, <1>5, <1>6

-----------------------------------------------------------------------------
(* One more definition among those already passed. *)

\* At most one definition per name and generation.
Generations(M) ==
    /\ \A x \in M : Depth[x] \in Nat
    /\ \A x, y \in M : Name[x] = Name[y] /\ Depth[x] = Depth[y] => x = y

LEMMA WinnersUnique ==
    ASSUME NEW M, Generations(M), NEW x \in M, NEW y \in M,
           Wins(x, M), Wins(y, M), Name[x] = Name[y]
    PROVE  x = y
<1>1. Depth[x] \in Nat /\ Depth[y] \in Nat
    BY DEF Generations
<1>2. ~(Depth[x] < Depth[y])
    BY <1>1 DEF Wins
<1>3. ~(Depth[y] < Depth[x])
    BY <1>1 DEF Wins
<1>4. Depth[x] = Depth[y]
    BY <1>1, <1>2, <1>3
<1> QED BY <1>4 DEF Generations

\* A new name: all winners stay, and the new definition joins them.
LEMMA WinnersNew ==
    ASSUME NEW M, NEW c, Depth[c] \in Nat, \A y \in M : Name[y] # Name[c]
    PROVE  {x \in M \cup {c} : Wins(x, M \cup {c})} = {x \in M : Wins(x, M)} \cup {c}
<1>1. Wins(c, M \cup {c})
    BY DEF Wins
<1>2. \A x \in M : Wins(x, M \cup {c}) <=> Wins(x, M)
    BY DEF Wins
<1> QED BY <1>1, <1>2

\* A known name, defined again further down.
LEMMA WinnersKnown ==
    ASSUME NEW M, NEW c, NEW f \in M, Generations(M), Depth[c] \in Nat,
           \A y \in M : Name[y] = Name[c] => Depth[y] < Depth[c],
           Wins(f, M), Name[f] = Name[c]
    PROVE  LET W == {x \in M : Wins(x, M)}
           IN  {x \in M \cup {c} : Wins(x, M \cup {c})}
               = IF Weak(f) THEN (W \ {f}) \cup {c} ELSE W
<1> DEFINE W == {x \in M : Wins(x, M)}
<1>0. c \notin M
    <2>1. ~(Depth[c] < Depth[c])
        OBVIOUS
    <2> QED BY <2>1
<1>1. ASSUME NEW x \in M, Name[x] # Name[c]
      PROVE  Wins(x, M \cup {c}) <=> Wins(x, M)
    BY <1>1 DEF Wins
<1>2. ASSUME NEW x \in M, Name[x] = Name[c]
      PROVE  Wins(x, M \cup {c}) <=> Wins(x, M) /\ ~Weak(x)
    <2>1. Depth[x] \in Nat /\ Depth[x] < Depth[c]
        BY <1>2 DEF Generations
    <2>2. ~(Depth[c] < Depth[x]) /\ ~(Depth[c] <= Depth[x])
        BY <2>1
    <2> QED BY <1>2, <2>2 DEF Wins
<1>3. ASSUME NEW x \in M, Name[x] = Name[c], Wins(x, M) PROVE x = f
    BY <1>3, WinnersUnique
<1>4. Wins(c, M \cup {c}) <=> \A y \in M : Name[y] = Name[c] => Weak(y)
    <2>1. \A y \in M : Name[y] = Name[c] => Depth[y] <= Depth[c]
        BY DEF Generations
    <2>2. Depth[c] <= Depth[c] /\ ~(Depth[c] < Depth[c])
        OBVIOUS
    <2> QED BY <2>1, <2>2 DEF Wins
<1>5. CASE Weak(f)
    <2>1. ASSUME NEW y \in M, Name[y] = Name[c] PROVE Weak(y)
        <3>1. Depth[y] \in Nat /\ Depth[f] \in Nat /\ Depth[y] <= Depth[f]
            BY <1>5, <2>1 DEF Wins, Generations
        <3>2. CASE Depth[y] < Depth[f]
            BY <2>1, <3>2 DEF Wins
        <3>3. CASE Depth[y] = Depth[f]
            BY <1>5, <2>1, <3>3 DEF Generations
        <3> QED BY <3>1, <3>2, <3>3
    <2>2. Wins(c, M \cup {c})
        BY <1>4, <2>1
    <2>3. {x \in M \cup {c} : Wins(x, M \cup {c})} = (W \ {f}) \cup {c}
        BY <1>0, <1>1, <1>2, <1>3, <1>5, <2>2
    <2> QED BY <1>5, <2>3
<1>6. CASE ~Weak(f)
    <2>1. ~Wins(c, M \cup {c})
        BY <1>4, <1>6
    <2>2. {x \in M \cup {c} : Wins(x, M \cup {c})} = W
        BY <1>0, <1>1, <1>2, <1>3, <1>6, <2>1
    <2> QED BY <1>6, <2>2
<1> QED BY <1>5, <1>6

-----------------------------------------------------------------------------
(* The two branches of the merge. *)

LEMMA MergedGenerations ==
    ASSUME TypeOK, Merging, current # NoNode
    PROVE  Generations(merged)
<1>1. current \in Type /\ merged \subseteq Definitions(current)
    BY NodesAssumption DEF TypeOK, Merging
<1>2. \A x \in merged : Depth[x] \in Nat
    BY TreeAssumption DEF TypeOK
<1>3. \A x, y \in merged : Name[x] = Name[y] /\ Depth[x] = Depth[y] => x = y
    BY <1>1, OnePerGeneration
<1> QED BY <1>2, <1>3 DEF Generations

\* What both branches share: the loop has passed c, and only the lists of the
\* current type and of children have changed, the latter by growing.
MergeStep(a, c) ==
    /\ AtAncestor(a)
    /\ c \in ToMerge(a)
    /\ merged' = merged \cup {c}
    /\ UNCHANGED <<phase, handled, rule, current, bloodline, m_typeMap, failures>>
    /\ \A n \in Node : n # current => list[n] \subseteq list'[n]
    /\ \A n \in Type : n # current => list'[n] = list[n]

LEMMA MergeStepInv ==
    ASSUME Inv, TypeOK', NEW a, NEW c, MergeStep(a, c),
           NEW M, M = merged', Settled(current, M)',
           ChildNamesUnique', AddedBySubtypes'
    PROVE  Inv'
<1> USE NodesAssumption, TreeAssumption
<1>1. current \in Type /\ current # NoNode
    BY DEF MergeStep, AtAncestor, Inv, TypeOK
<1>2. /\ c \in Definitions(current) \ merged /\ Parent[c] = a
      /\ c \in Node \ Type
    BY MergedIsYounger DEF MergeStep, Inv, Definitions, TypeOK
<1>3. \A t : Definitions(t)' = Definitions(t)
    BY DEF MergeStep, Definitions
<1>4. ASSUME NEW b \in bloodline PROVE Depth[c] <= Depth[b] + 1
    <2>1. Depth[c] = Depth[a] + 1
        BY <1>2, ChildHasParent
    <2>2. Depth[a] <= Depth[b]
        BY DEF MergeStep, AtAncestor
    <2>3. Depth[a] \in Nat /\ Depth[b] \in Nat
        BY <1>2 DEF MergeStep, AtAncestor, Inv, TypeOK
    <2> QED BY <2>1, <2>2, <2>3
<1>5. Merging'
    BY <1>1, <1>2, <1>3, <1>4 DEF Inv, Merging, MergeStep
<1>6. Finished'
    <2> SUFFICES ASSUME NEW t \in m_typeMap PROVE Settled(t, Definitions(t))'
        BY DEF Finished, MergeStep
    <2>1. t \in Type /\ t # current
        BY <1>1 DEF Inv, TypeOK, Merging
    <2>2. list'[t] = list[t]
        BY <2>1 DEF MergeStep
    <2>3. \A w \in list[t] : list[w] \subseteq list'[w]
        <3>1. Settled(t, Definitions(t))
            BY DEF Inv, Finished
        <3>2. \A w \in list[t] : w \in Node \ Type
            BY <3>1 DEF Settled, Definitions, Inv, TypeOK
        <3> QED BY <1>1, <3>2 DEF MergeStep
    <2>4. handled' = handled /\ rule' = rule
        BY DEF MergeStep
    <2>5. Settled(t, Definitions(t))
        BY DEF Inv, Finished
    <2> DEFINE D == Definitions(t)
    <2>6. D' = D
        BY <1>3
    <2>7. ASSUME NEW E, Settled(t, E) PROVE Settled(t, E)'
        BY <2>2, <2>3, <2>4, <2>7, SettledIsKept
    <2>8. \A E : Settled(t, E) => Settled(t, E)'
        BY <2>7
    <2> QED BY <2>5, <2>6, <2>8
<1>7. Untouched'
    BY DEF Inv, Untouched, MergeStep
<1>8. BrowsingClean' /\ RulesKept'
    BY <1>1 DEF Inv, BrowsingClean, RulesKept, MergeStep, Merging
<1> QED BY <1>5, <1>6, <1>7, <1>8 DEF Inv

LEMMA NewChildInv ==
    ASSUME Inv, TypeOK', NEW a, NEW c, MergeNewChild(a, c)
    PROVE  Inv'
<1> USE NodesAssumption, TreeAssumption
<1>0. PICK M, N : N = merged /\ M = N \cup {c}
    OBVIOUS
<1>1. current \in Type /\ current # NoNode
    BY DEF MergeNewChild, AtAncestor, Inv, TypeOK
<1>2. /\ list' = [list EXCEPT ![current] = @ \cup {c}]
      /\ list'[current] = list[current] \cup {c}
      /\ \A n \in Node : n # current => list'[n] = list[n]
    BY <1>1 DEF MergeNewChild, Inv, TypeOK
<1>3. MergeStep(a, c)
    BY <1>2 DEF MergeNewChild, MergeStep
<1>4. c \in Node \ Type /\ Depth[c] \in Nat
    BY <1>3, MergedIsYounger DEF MergeStep, Inv, Definitions, TypeOK
<1>5. Settled(current, N)
    BY <1>0, <1>1 DEF Inv, Merging
<1>6. \A x \in list[current] : Name[x] # Name[c]
    BY DEF MergeNewChild, NameIn
<1>7. \A y \in N : Name[y] # Name[c]
    BY <1>5, <1>6 DEF Settled, NameIn
<1>8. \A n : Weak(n)' = Weak(n) /\ BiChildren(n)' = BiChildren(n)
    BY <1>3 DEF Weak, BiChildren, MergeStep
<1>9. \A x : Wins(x, M)' = Wins(x, M)
    BY <1>8 DEF Wins
<1>10. \A w \in M : toStructureNode(w)' = toStructureNode(w)
    <2>1. \A w \in M : w \in Node \ Type
        BY <1>0, <1>4 DEF Inv, TypeOK
    <2> QED BY <1>1, <1>2, <1>8, <2>1 DEF toStructureNode
<1>11. Settled(current, M)'
    <2>1. list[current] \cup {c} = {x \in M : Wins(x, M)}
        <3>1. list[current] = {x \in N : Wins(x, N)}
            BY <1>5 DEF Settled
        <3>2. {x \in N \cup {c} : Wins(x, N \cup {c})} = {x \in N : Wins(x, N)} \cup {c}
            BY <1>4, <1>7, WinnersNew
        <3> QED BY <1>0, <3>1, <3>2
    <2>2. list'[current] = {x \in M : Wins(x, M)'}
        BY <1>2, <1>9, <2>1
    <2>3. \A d \in M : NameIn(d, list'[current])
        BY <1>0, <1>2, <1>5 DEF Settled, NameIn
    <2>4. ASSUME NEW w \in list'[current], ~Weak(w), NEW d \in M,
                 Name[d] = Name[w], Depth[d] > Depth[w], NEW g \in BiChildren(d)
          PROVE  NameIn(g, toStructureNode(w)')
        <3>1. w \in M
            BY <2>2
        <3>2. CASE w = c
            <4>1. d = c
                BY <1>0, <1>7, <2>4, <3>2
            <4> QED BY <1>4, <2>4, <3>2, <4>1
        <3>3. CASE w \in list[current]
            <4>1. d \in N
                BY <1>0, <1>6, <2>4, <3>3
            <4>2. NameIn(g, toStructureNode(w))
                BY <1>5, <2>4, <3>3, <4>1 DEF Settled
            <4> QED BY <1>10, <3>1, <4>2
        <3> QED BY <1>2, <3>2, <3>3
    <2>5. current' = current
        BY <1>3 DEF MergeStep
    <2> QED BY <1>8, <2>2, <2>3, <2>4, <2>5 DEF Settled, NameIn
<1>12. \A f \in Node \ Type : list'[f] = list[f] /\ BiChildren(f)' = BiChildren(f)
    BY <1>1, <1>2, <1>8
<1>13. ChildNamesUnique'
    BY <1>12 DEF Inv, ChildNamesUnique, toStructureNode
<1>14. AddedBySubtypes'
    BY <1>12 DEF Inv, AddedBySubtypes
<1>15. M = merged'
    BY <1>0, <1>3 DEF MergeStep
<1> QED BY <1>3, <1>11, <1>13, <1>14, <1>15, MergeStepInv

LEMMA KnownChildInv ==
    ASSUME Inv, TypeOK', NEW a, NEW c, MergeKnownChild(a, c)
    PROVE  Inv'
<1> USE NodesAssumption, TreeAssumption
<1>0. PICK M, N : N = merged /\ M = N \cup {c}
    OBVIOUS
<1>1. current \in Type /\ current # NoNode
    BY DEF MergeKnownChild, AtAncestor, Inv, TypeOK
<1>2. PICK f \in list[current] :
          /\ Name[f] = Name[c]
          /\ list' = [list EXCEPT ![f] = @ \cup MissingIn(f, c),
                                  ![current] = Override(f, c)]
    BY DEF MergeKnownChild
<1>3. Settled(current, N) /\ N \subseteq Node \ Type
    BY <1>0, <1>1 DEF Inv, Merging, TypeOK
<1>4. f \in N /\ Wins(f, N) /\ f \in Node \ Type /\ f # current
    BY <1>1, <1>2, <1>3 DEF Settled
<1>5. /\ list'[current] = Override(f, c)
      /\ list'[f] = list[f] \cup MissingIn(f, c)
      /\ \A n \in Node : n # current /\ n # f => list'[n] = list[n]
    BY <1>1, <1>2, <1>4 DEF Inv, TypeOK
<1>6. MergeStep(a, c)
    BY <1>4, <1>5 DEF MergeKnownChild, MergeStep
<1>7. /\ c \in Definitions(current) /\ c \notin N /\ c \in Node \ Type
      /\ Depth[c] \in Nat /\ Parent[c] \in Ancestors[current]
      /\ \A y \in N : Name[y] = Name[c] => Depth[y] < Depth[c]
    BY <1>0, <1>6, MergedIsYounger DEF MergeStep, Inv, Definitions, TypeOK
<1>8. \A n : Weak(n)' = Weak(n) /\ BiChildren(n)' = BiChildren(n)
    BY <1>6 DEF Weak, BiChildren, MergeStep
<1>9. \A x : Wins(x, M)' = Wins(x, M)
    BY <1>8 DEF Wins
<1>10. \A w \in Node \ Type : toStructureNode(w) \subseteq toStructureNode(w)'
    BY <1>1, <1>5, <1>8 DEF toStructureNode
<1>11. \A x, y \in N : Wins(x, N) /\ Wins(y, N) /\ Name[x] = Name[y] => x = y
    BY <1>0, <1>1, MergedGenerations, WinnersUnique DEF Inv
<1>12. Settled(current, M)'
    <2>1. list[current] = {x \in N : Wins(x, N)}
        BY <1>3 DEF Settled
    <2>2. Override(f, c) = {x \in M : Wins(x, M)}
        <3>1. Generations(N)
            BY <1>0, <1>1, MergedGenerations DEF Inv
        <3>2. {x \in N \cup {c} : Wins(x, N \cup {c})}
              = IF Weak(f) THEN ({x \in N : Wins(x, N)} \ {f}) \cup {c}
                           ELSE {x \in N : Wins(x, N)}
            BY <1>2, <1>4, <1>7, <3>1, WinnersKnown
        <3> QED BY <1>0, <2>1, <3>2 DEF Override
    <2>3. list'[current] = {x \in M : Wins(x, M)'}
        BY <1>5, <1>9, <2>2
    <2>4. \A d \in M : NameIn(d, list'[current])
        <3>1. \A d \in N : NameIn(d, list[current])
            BY <1>3 DEF Settled
        <3>2. \A x \in list[current] : NameIn(x, Override(f, c))
            BY <1>2 DEF Override, NameIn
        <3> QED BY <1>0, <1>2, <1>5, <3>1, <3>2 DEF NameIn
    <2>5. ASSUME NEW w \in list'[current], ~Weak(w), NEW d \in M,
                 Name[d] = Name[w], Depth[d] > Depth[w], NEW g \in BiChildren(d)
          PROVE  NameIn(g, toStructureNode(w)')
        <3>1. w \in M /\ d \in M
            BY <2>3, <2>5
        <3>2. CASE w = c
            <4>1. d \in N => Depth[d] < Depth[c]
                BY <1>7, <2>5, <3>2
            <4>2. d = c \/ d \in N
                BY <1>0, <3>1
            <4>3. Depth[d] \in Nat
                BY <1>3, <1>7, <4>2
            <4> QED BY <1>7, <2>5, <3>2, <4>1, <4>2, <4>3
        <3>3. CASE w # c
            <4>1. w \in list[current]
                BY <1>5, <2>5, <3>3 DEF Override
            <4>2. w \in N /\ Wins(w, N)
                BY <2>1, <4>1
            <4>3. CASE d \in N
                <5>1. NameIn(g, toStructureNode(w))
                    BY <1>3, <2>5, <4>1, <4>3 DEF Settled
                <5>2. toStructureNode(w) \subseteq toStructureNode(w)'
                    BY <1>3, <1>10, <4>2
                <5> QED BY <5>1, <5>2 DEF NameIn
            <4>4. CASE d = c
                <5>1. w = f
                    BY <1>2, <1>4, <1>11, <2>5, <4>2, <4>4
                <5>2. g \in toStructureNode(c)
                    BY <2>5, <4>4 DEF toStructureNode
                <5>3. MissingIn(f, c) \subseteq toStructureNode(f)'
                    BY <1>5 DEF toStructureNode
                <5>4. NameIn(g, toStructureNode(f)) \/ g \in MissingIn(f, c)
                    BY <5>2 DEF MissingIn
                <5>5. toStructureNode(f) \subseteq toStructureNode(f)'
                    BY <1>4, <1>10
                <5> QED BY <5>1, <5>3, <5>4, <5>5 DEF NameIn
            <4> QED BY <1>0, <3>1, <4>3, <4>4
        <3> QED BY <3>2, <3>3
    <2>6. current' = current
        BY <1>6 DEF MergeStep
    <2> QED BY <1>8, <2>3, <2>4, <2>5, <2>6 DEF Settled, NameIn
<1>13. ChildNamesUnique'
    <2> SUFFICES ASSUME NEW h \in Node \ Type,
                        NEW x \in toStructureNode(h)', NEW y \in toStructureNode(h)',
                        Name[x] = Name[y]
                 PROVE  x = y
        BY DEF ChildNamesUnique
    <2>1. \A k \in Node \ Type : \A u, v \in toStructureNode(k) :
             Name[u] = Name[v] => u = v
        BY DEF Inv, ChildNamesUnique
    <2>2. CASE h # f
        <3>1. toStructureNode(h)' = toStructureNode(h)
            BY <1>1, <1>5, <1>8, <2>2 DEF toStructureNode
        <3> QED BY <2>1, <3>1
    <2>3. CASE h = f
        <3>1. toStructureNode(f)' = toStructureNode(f) \cup MissingIn(f, c)
            BY <1>5, <1>8 DEF toStructureNode
        <3>2. \A g \in MissingIn(f, c) :
                 /\ g \in toStructureNode(c)
                 /\ \A k \in toStructureNode(f) : Name[k] # Name[g]
            BY DEF MissingIn, NameIn
        <3> QED BY <1>4, <1>7, <2>1, <2>3, <3>1, <3>2
    <2> QED BY <2>2, <2>3
<1>14. AddedBySubtypes'
    <2> SUFFICES ASSUME NEW h \in Node \ Type, NEW g \in list'[h]
                 PROVE  /\ Parent[g] \in Node \ Type
                        /\ Name[Parent[g]] = Name[h]
                        /\ Parent[h] \in Ancestors[Parent[Parent[g]]]
        BY DEF AddedBySubtypes
    <2>1. CASE g \in list[h]
        BY <2>1 DEF Inv, AddedBySubtypes
    <2>2. CASE g \notin list[h]
        <3>1. h = f /\ g \in MissingIn(f, c)
            BY <1>1, <1>5, <2>2
        <3>2. g \in list[c] \/ Parent[g] = c
            BY <3>1 DEF MissingIn, toStructureNode, BiChildren
        <3>3. Parent[f] \in Ancestors[Parent[c]]
            <4>1. Parent[f] \in Ancestors[current]
                BY <1>0, <1>1, <1>4 DEF Inv, Merging, Definitions
            <4>2. /\ Depth[f] = Depth[Parent[f]] + 1 /\ Depth[c] = Depth[Parent[c]] + 1
                  /\ Depth[f] < Depth[c]
                BY <1>2, <1>4, <1>7, ChildHasParent
            <4>3. Depth[Parent[f]] \in Nat /\ Depth[Parent[c]] \in Nat
                BY <1>4, <1>7, ChildHasParent
            <4>4. \A x, y \in Nat : x + 1 < y + 1 => x <= y
                OBVIOUS
            <4>5. Depth[Parent[f]] <= Depth[Parent[c]]
                BY <4>2, <4>3, <4>4
            <4> QED BY <1>1, <1>7, <4>1, <4>5
        <3>4. CASE Parent[g] = c
            BY <1>2, <1>7, <3>1, <3>3, <3>4
        <3>5. CASE g \in list[c]
            <4>1. /\ Parent[g] \in Node \ Type /\ Name[Parent[g]] = Name[c]
                  /\ Parent[c] \in Ancestors[Parent[Parent[g]]]
                BY <1>7, <3>5 DEF Inv, AddedBySubtypes
            <4>2. Parent[Parent[g]] \in Node
                BY <4>1, ChildHasParent
            <4> QED BY <1>2, <3>1, <3>3, <4>1, <4>2
        <3> QED BY <3>2, <3>4, <3>5
    <2> QED BY <2>1, <2>2
<1>15. M = merged'
    BY <1>0, <1>6 DEF MergeStep
<1> QED BY <1>6, <1>12, <1>13, <1>14, <1>15, MergeStepInv

-----------------------------------------------------------------------------
(* The theorems. *)

LEMMA StepInv == Inv /\ [Next]_vars => Inv'
<1> SUFFICES ASSUME Inv, [Next]_vars PROVE Inv'
    OBVIOUS
<1>1. TypeOK'
    BY StepTyped DEF Inv
<1>2. CASE Browse \/ Fault \/ Reset
    BY <1>1, <1>2, BrowseInv
<1>3. CASE Merge
    <2>1. CASE \E a \in bloodline : \E c \in handled :
                  MergeNewChild(a, c) \/ MergeKnownChild(a, c)
        BY <1>1, <2>1, NewChildInv, KnownChildInv
    <2> QED BY <1>1, <1>3, <2>1, WalkInv DEF Merge
<1>4. CASE UNCHANGED vars
    <2>1. UNCHANGED <<phase, handled, rule, list, current, bloodline, merged, m_typeMap,
                      failures>>
        BY <1>4 DEF vars, attempt
    <2>2. /\ \A t, defs : Settled(t, defs) => Settled(t, defs)'
          /\ \A t : Definitions(t)' = Definitions(t)
          /\ ChildNamesUnique' /\ AddedBySubtypes' /\ RulesKept'
        BY <2>1, SameListsInv
    <2>3. Merging' /\ Finished' /\ Untouched' /\ BrowsingClean'
        BY <2>1, <2>2 DEF Inv, Merging, Finished, Untouched, BrowsingClean
    <2> QED BY <1>1, <2>2, <2>3 DEF Inv
<1> QED BY <1>2, <1>3, <1>4 DEF Next

LEMMA InvHolds == Spec => []Inv
BY InitInv, StepInv, PTL DEF Spec

\* setupTypeMap enters exactly the winning definitions, in any order of the types.
THEOREM MergeIsExact == Spec => []FirstMandatoryWins
<1>1. Inv => FirstMandatoryWins
    BY DEF Inv, Finished, Settled, FirstMandatoryWins
<1> QED BY <1>1, InvHolds, PTL

\* Every type has all the names its super types define.
THEOREM NamesAreInherited == Spec => []NoNameLost
<1>1. Inv => NoNameLost
    BY DEF Inv, Finished, Settled, NoNameLost
<1> QED BY <1>1, InvHolds, PTL

\* No list has a name twice.
THEOREM ListsHaveUniqueNames == Spec => []NamesUnique
<1>1. ASSUME Inv PROVE NamesUnique
    <2>1. ASSUME NEW t \in m_typeMap, NEW x \in list[t], NEW y \in list[t],
                 Name[x] = Name[y]
          PROVE  x = y
        <3>1. PICK D : D = Definitions(t)
            OBVIOUS
        <3>2. Settled(t, D) /\ t \in Type
            BY <1>1, <3>1, NodesAssumption DEF Inv, Finished, TypeOK
        <3>3. Generations(D)
            <4>1. \A u \in D : Depth[u] \in Nat
                BY <1>1, <3>1, TreeAssumption DEF Definitions, Inv, TypeOK
            <4>2. \A u, v \in D : Name[u] = Name[v] /\ Depth[u] = Depth[v] => u = v
                BY <1>1, <3>1, <3>2, OnePerGeneration DEF Inv
            <4> QED BY <4>1, <4>2 DEF Generations
        <3>4. x \in D /\ y \in D /\ Wins(x, D) /\ Wins(y, D)
            BY <2>1, <3>2 DEF Settled
        <3> QED BY <2>1, <3>3, <3>4, WinnersUnique
    <2>2. \A f \in handled \ Type : f \in Node \ Type
        BY <1>1 DEF Inv, TypeOK
    <2> QED BY <1>1, <2>1, <2>2 DEF NamesUnique, Inv, ChildNamesUnique
<1> QED BY <1>1, InvHolds, PTL

\* A child that is not optional gathers what its redefinitions add.
THEOREM RedefinitionsAreMerged == Spec => []RedefinitionsMerged
<1>1. Inv => RedefinitionsMerged
    BY DEF Inv, Finished, Settled, RedefinitionsMerged
<1> QED BY <1>1, InvHolds, PTL

\* Sharing never reaches an unrelated type.
THEOREM SharingStaysInFamily == Spec => []AddedBySubtypes
<1>1. Inv => AddedBySubtypes
    BY DEF Inv
<1> QED BY <1>1, InvHolds, PTL

\* Without failed requests, mandatory stays mandatory.
THEOREM MandatoryIsKept == Spec => []MandatoryUntilFailure
<1>1. ASSUME Inv PROVE MandatoryUntilFailure
    <2> SUFFICES ASSUME failures = 0, NEW t \in m_typeMap, NEW d \in Definitions(t),
                        Rule[d] \in {"Mandatory", "MandatoryPlaceholder"}
                 PROVE  \E x \in list[t] :
                            /\ Name[x] = Name[d]
                            /\ rule[x] \in {"Mandatory", "MandatoryPlaceholder"}
        BY DEF MandatoryUntilFailure
    <2>1. PICK D : D = Definitions(t)
        OBVIOUS
    <2>2. Settled(t, D) /\ t \in Type
        BY <1>1, <2>1, NodesAssumption DEF Inv, Finished, TypeOK
    <2>3. \A n \in D : n \in Node /\ rule[n] = Rule[n] /\ Depth[n] \in Nat
        BY <1>1, <2>1, TreeAssumption DEF Inv, RulesKept, Definitions, TypeOK
    <2>4. PICK x \in list[t] : Name[x] = Name[d]
        BY <2>1, <2>2 DEF Settled, NameIn
    <2>5. x \in D /\ Wins(x, D)
        BY <2>2 DEF Settled
    <2>6. ~Weak(x)
        <3>1. ~Weak(d) /\ d \in D
            BY <2>1, <2>3 DEF Weak
        <3>2. SUFFICES ASSUME Weak(x) PROVE FALSE
            OBVIOUS
        <3>3. Depth[d] <= Depth[x] /\ ~(Depth[d] < Depth[x])
            BY <2>4, <2>5, <3>1, <3>2 DEF Wins
        <3>4. Depth[d] = Depth[x]
            BY <2>3, <2>5, <3>1, <3>3
        <3>5. d = x
            BY <1>1, <2>1, <2>2, <2>4, <2>5, <3>4, OnePerGeneration DEF Inv
        <3> QED BY <3>1, <3>2, <3>5
    <2>7. rule[x] \in Rules \ {"None"}
        BY <2>3, <2>5, NodesAssumption
    <2> QED BY <2>4, <2>6, <2>7 DEF Weak, Rules
<1> QED BY <1>1, InvHolds, PTL

-----------------------------------------------------------------------------
(* Completeness of the browse. *)

\* A child of a node of the tree is in the tree or among the open results, as
\* long as no browse returned too little; merging begins when no results are
\* open, and ends when every expected type is entered.
NothingDropped ==
    /\ VariableRoot \in handled
    /\ cut = {} => \A n \in Node : Parent[n] \in handled => n \in handled \cup results
    /\ phase # "browse" => results = {} /\ ObjectRoot \in handled
    /\ phase = "done" => Expected \cap handled \subseteq m_typeMap

\* A nonempty set of numbers has a least one.
LEMMA LeastNumber ==
    ASSUME NEW S \in SUBSET Nat, S # {}
    PROVE  \E m \in S : \A k \in S : m <= k
<1>1. PICK m \in S : \A k \in S : ~(<<k, m>> \in OpToRel(<, Nat))
    BY NatLessThanWellFounded, WFMin
<1>2. \A k \in S : ~(k < m)
    BY <1>1 DEF OpToRel
<1> QED BY <1>2

\* Nodes that contain both roots, and with a node its children, are all nodes:
\* a missing node of least depth would have a parent that is not missing.
LEMMA ClosedIsComplete ==
    ASSUME NEW S \in SUBSET Node, VariableRoot \in S, ObjectRoot \in S,
           \A n \in Node : Parent[n] \in S => n \in S
    PROVE  S = Node
<1> USE NodesAssumption, TreeAssumption
<1> SUFFICES ASSUME S # Node PROVE FALSE
    OBVIOUS
<1> DEFINE D == {Depth[n] : n \in Node \ S}
<1>1. D \in SUBSET Nat /\ D # {}
    <2>1. D \subseteq Nat
        OBVIOUS
    <2>2. PICK n \in Node : n \notin S
        OBVIOUS
    <2>3. Depth[n] \in D
        BY <2>2
    <2> QED BY <2>1, <2>3
<1>2. PICK m \in D : \A k \in D : m <= k
    BY ONLY <1>1, LeastNumber
<1>3. PICK n \in Node \ S : Depth[n] = m
    BY <1>2
<1>4. Parent[n] \in Node /\ Depth[n] = Depth[Parent[n]] + 1
    BY <1>3
<1>5. Parent[n] \notin S /\ Depth[Parent[n]] \in D /\ Depth[Parent[n]] \in Nat
    BY <1>3, <1>4
<1>6. m <= Depth[Parent[n]]
    BY <1>2, <1>5
<1> QED BY <1>3, <1>4, <1>5, <1>6

\* Every step keeps it.
LEMMA NothingDroppedStep ==
    TypeOK /\ NothingDropped /\ [Next]_vars => NothingDropped'
<1> SUFFICES ASSUME TypeOK, NothingDropped, [Next]_vars PROVE NothingDropped'
    OBVIOUS
<1> USE NodesAssumption, TreeAssumption DEF NothingDropped
<1>1. ASSUME NEW n, NEW r, Handle(n, r, BrowsedBelow(n)), cut' = cut
      PROVE  NothingDropped'
    BY <1>1 DEF Handle, BrowsedBelow
<1>2. ASSUME NEW n, NEW r, NEW below, Handle(n, r, below), cut' # {}
      PROVE  NothingDropped'
    BY <1>2 DEF Handle
<1>3. ASSUME NEW n \in results, handleBrowseTypeResult(n) PROVE NothingDropped'
    BY <1>1, <1>3 DEF handleBrowseTypeResult
<1>4. ASSUME NEW n \in results, ModellingRuleFails(n) PROVE NothingDropped'
    BY <1>1, <1>4 DEF ModellingRuleFails
<1>5. ASSUME NEW n \in results, BrowseReturnsLess(n) PROVE NothingDropped'
    <2>1. cut' # {}
        BY <1>5 DEF BrowseReturnsLess
    <2> QED BY <1>2, <1>5, <2>1 DEF BrowseReturnsLess
<1>6. ASSUME NewAttempt, phase' = "browse" PROVE NothingDropped'
    BY <1>6 DEF NewAttempt, BrowsedBelow
<1>7. CASE BrowseThrows \/ Reset
    BY <1>6, <1>7 DEF BrowseThrows, Reset
<1>8. CASE BrowseObjectTypes
    BY <1>8 DEF BrowseObjectTypes, BrowsedBelow
<1>9. CASE BrowsingFinished
    BY <1>9 DEF BrowsingFinished, attempt
<1>10. CASE ReadTypesEnds
    BY <1>10 DEF ReadTypesEnds
<1>11. ASSUME UNCHANGED <<phase, handled, results, cut>>,
              m_typeMap \subseteq m_typeMap'
       PROVE  NothingDropped'
    BY <1>11
<1>12. CASE Merge
    BY <1>10, <1>11, <1>12 DEF Merge, StartType, MergeNewChild, MergeKnownChild,
       NextAncestor, InsertType
<1>13. CASE UNCHANGED vars
    BY <1>11, <1>13 DEF vars, attempt
<1> QED BY <1>3, <1>4, <1>5, <1>7, <1>8, <1>9, <1>12, <1>13
        DEF Next, Browse, Fault

\* readTypes leaves m_typeMap empty when it is interrupted, and when it ends
\* without a browse that silently returned too little, it has seen every node of
\* both hierarchies and entered every expected type, for every tree of types.
THEOREM ReadsAllOrNothing == Spec => []AllOrNothing
<1>1. Init => NothingDropped
    BY DEF Init, AttemptInit, NothingDropped, BrowsedBelow
<1>2. Inv => TypeOK
    BY DEF Inv
<1>3. Inv /\ NothingDropped => AllOrNothing
    <2> SUFFICES ASSUME Inv, NothingDropped PROVE AllOrNothing
        OBVIOUS
    <2>1. phase = "browse" => m_typeMap = {}
        BY DEF Inv, BrowsingClean
    <2>2. ASSUME phase = "done", cut = {} PROVE m_typeMap = Expected /\ handled = Node
        <3>1. handled = Node
            BY <2>2, ClosedIsComplete DEF NothingDropped, Inv, TypeOK
        <3> QED BY <2>2, <3>1, NodesAssumption DEF NothingDropped, Inv, TypeOK
    <2> QED BY <2>1, <2>2 DEF AllOrNothing
<1> QED BY <1>1, <1>2, <1>3, InvHolds, NothingDroppedStep, PTL DEF Spec
=============================================================================
