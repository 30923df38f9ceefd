------------------------- MODULE MachineTypesProofs -------------------------
(****************************************************************************)
(* For every type hierarchy, even one with cycles, and every list of        *)
(* configured types: a cached type is one the machine has, and the search   *)
(* implements TypeLookup: its answer is the first configured super type, or *)
(* undefined if there is none, unless one of its own requests fails.        *)
(****************************************************************************)
EXTENDS MachineTypes, TLAPS

\* The walk is on the super types of the machine's type, m_superTypes agrees
\* with the server, and the entry made in advance is still there.
WalkInv ==
    /\ \A t \in Types : m_superTypes[t] \in {Unset, SuperOf[t]}
    /\ machineType # NoType =>
         /\ checkType \in SuperTypes(machineType) \cup {NoType}
         /\ knownType[machineType] = Undefined

\* While no request of this search has failed: the known types already compared are no super
\* types, and the one being compared is still ahead of the walk if it is one.
ExactInv ==
    failures = before /\ machineType # NoType =>
        /\ \A n \in 1 .. Len(Known) :
             n < md => Known[n] \notin SuperTypes(machineType)
        /\ md <= Len(Known) /\ Known[md] \in SuperTypes(machineType) =>
             checkType # NoType /\ Known[md] \in SuperTypes(checkType)

IndInv ==
    /\ TypeOK
    /\ WalkInv
    /\ KnownTypeIsSuperType
    /\ ExactInv
    /\ failures = 0 => UndefinedIsForeign

-----------------------------------------------------------------------------
\* A type is among its super types.
LEMMA SelfIsSuper == \A t \in Types : t \in SuperTypes(t)
BY DEF SuperTypes

\* The super types of t are closed under SuperOf.
LEMMA SuperOfSuper ==
    ASSUME NEW t \in Types, NEW x \in SuperTypes(t)
    PROVE  SuperOf[x] \in SuperTypes(t) \cup {NoType}
<1>1. x \in Types /\ SuperOf[x] \in Types \cup {NoType}
  BY TypesAssumption DEF SuperTypes
<1>2. ASSUME SuperOf[x] # NoType PROVE SuperOf[x] \in SuperTypes(t)
  <2>1. ASSUME NEW S \in SUBSET Types, t \in S, Closed(S)
        PROVE  SuperOf[x] \in S
    BY <1>2, <2>1 DEF SuperTypes, Closed
  <2> QED
    BY <1>1, <1>2, <2>1 DEF SuperTypes
<1> QED
  BY <1>2

\* A super type of t other than t is a super type of SuperOf[t].
LEMMA SuperIsAhead ==
    ASSUME NEW t \in Types, NEW x \in SuperTypes(t), x # t
    PROVE  SuperOf[t] # NoType /\ x \in SuperTypes(SuperOf[t])
<1> DEFINE S == {t} \cup (IF SuperOf[t] = NoType THEN {}
                                                ELSE SuperTypes(SuperOf[t]))
<1>1. SuperOf[t] \in Types \cup {NoType}
  BY TypesAssumption
<1>2. S \subseteq Types
  BY DEF SuperTypes
<1>3. ASSUME NEW y \in S PROVE SuperOf[y] \in S \cup {NoType}
  <2>1. CASE y = t
    BY <1>1, <2>1, SelfIsSuper
  <2>2. CASE y # t
    <3>1. SuperOf[t] # NoType /\ y \in SuperTypes(SuperOf[t])
      BY <1>3, <2>2
    <3> QED
      BY <1>1, <3>1, SuperOfSuper
  <2> QED
    BY <2>1, <2>2
<1>4. Closed(S)
  BY <1>3 DEF Closed
<1>5. t \in S
  OBVIOUS
<1>6. x \in S
  <2> HIDE DEF S
  <2> QED
    BY <1>2, <1>4, <1>5 DEF SuperTypes
<1> QED
  BY <1>6

\* Every step keeps the types of the variables.
LEMMA TypeStep == TypeOK /\ [Next]_vars => TypeOK'
<1> SUFFICES ASSUME TypeOK, [Next]_vars PROVE TypeOK'
  OBVIOUS
<1>0. Len(Known) \in Nat /\ \A n \in 1 .. Len(Known) : Known[n] \in KnownTypes
  BY TypesAssumption DEF KnownTypes
<1> USE TypesAssumption, <1>0 DEF TypeOK
<1>1. ASSUME NEW t \in Types, StartSearch(t) PROVE TypeOK'
  BY <1>1 DEF StartSearch
<1>2. ASSUME NEW t \in Types, FilterWalk(t) PROVE TypeOK'
  BY <1>2 DEF FilterWalk, browseSuperType
<1>3. CASE SubtypeFound
  BY <1>3 DEF SubtypeFound, Searching, FoundType
<1>4. CASE NotSubtype
  BY <1>4 DEF NotSubtype, Searching, CompareNext
<1>5. CASE isSameOrSubtype
  <2>1. m_superTypes' \in [Types -> Types \cup {NoType, Unset}]
    BY <1>5 DEF isSameOrSubtype, browseSuperType
  <2>2. m_superTypes'[checkType] # Unset
    BY <1>5 DEF isSameOrSubtype, browseSuperType
  <2>3. checkType' \in Types \cup {NoType}
    BY <1>5, <2>1, <2>2 DEF isSameOrSubtype
  <2> QED
    BY <1>5, <2>1, <2>3 DEF isSameOrSubtype
<1>6. CASE RequestFails
  BY <1>6 DEF RequestFails, Searching, CompareNext
<1>7. CASE SearchEnds
  BY <1>7 DEF SearchEnds
<1>8. CASE Reset
  BY <1>8 DEF Reset, ConfiguredTypes
<1>9. CASE UNCHANGED vars
  BY <1>9 DEF vars
<1> QED
  BY <1>1, <1>2, <1>3, <1>4, <1>5, <1>6, <1>7, <1>8, <1>9 DEF Next, Search

\* Every step keeps the other parts of the invariant.
LEMMA SearchStep ==
    ASSUME IndInv, [Next]_vars
    PROVE  (/\ WalkInv
            /\ KnownTypeIsSuperType
            /\ ExactInv
            /\ failures = 0 => UndefinedIsForeign)'
<1> DEFINE Others == /\ WalkInv
                     /\ KnownTypeIsSuperType
                     /\ ExactInv
                     /\ failures = 0 => UndefinedIsForeign
<1>0. Len(Known) \in Nat /\ \A n \in 1 .. Len(Known) : Known[n] \in KnownTypes
  BY TypesAssumption DEF KnownTypes
<1>a. KnownTypes \subseteq Types /\ Undefined \notin KnownTypes
      /\ Unset \notin KnownTypes
  BY TypesAssumption DEF KnownTypes
<1> USE DEF IndInv, TypeOK
<1>1. ASSUME NEW t \in Types, StartSearch(t) PROVE Others'
  <2>1. /\ machineType' = t /\ checkType' = t /\ md' = 1
        /\ UNCHANGED <<m_superTypes, failures>>
        /\ machineType = NoType
        /\ knownType' = [knownType EXCEPT ![t] = Undefined]
        /\ before' = failures
    BY <1>1 DEF StartSearch
  <2>2. WalkInv'
    BY <2>1, SelfIsSuper DEF WalkInv
  <2>3. KnownTypeIsSuperType'
    BY <1>a, <2>1 DEF KnownTypeIsSuperType
  <2>4. ExactInv'
    BY <1>0, <2>1, TypesAssumption DEF ExactInv
  <2>5. (failures = 0 => UndefinedIsForeign)'
    BY <2>1, TypesAssumption DEF UndefinedIsForeign
  <2> QED
    BY <2>2, <2>3, <2>4, <2>5
<1>2. ASSUME NEW t \in Types, FilterWalk(t) PROVE Others'
  BY <1>2 DEF FilterWalk, browseSuperType, WalkInv, KnownTypeIsSuperType,
     ExactInv, UndefinedIsForeign
<1>3. CASE SubtypeFound
  <2>1. /\ machineType' = NoType
        /\ UNCHANGED <<m_superTypes, failures>>
        /\ knownType' = [knownType EXCEPT ![machineType] = Known[md]]
        /\ machineType \in Types
        /\ checkType = Known[md]
        /\ md \in 1 .. Len(Known)
    BY <1>0, <1>3 DEF SubtypeFound, Searching, FoundType
  <2>2. Known[md] \in KnownTypes /\ Known[md] # NoType /\ Known[md] # Undefined
    BY <1>0, <1>a, <2>1, TypesAssumption
  <2>3. Known[md] \in SuperTypes(machineType)
    BY <2>1, <2>2, TypesAssumption DEF WalkInv
  <2>4. WalkInv' /\ ExactInv'
    BY <2>1 DEF WalkInv, ExactInv
  <2>5. KnownTypeIsSuperType'
    BY <2>1, <2>3 DEF KnownTypeIsSuperType
  <2>6. (failures = 0 => UndefinedIsForeign)'
    BY <2>1, <2>2 DEF UndefinedIsForeign
  <2> QED
    BY <2>4, <2>5, <2>6
<1>4. CASE NotSubtype
  <2>1. /\ md' = md + 1 /\ checkType' = machineType /\ checkType = NoType
        /\ UNCHANGED <<knownType, m_superTypes, machineType, failures, before>>
        /\ machineType \in Types
        /\ md \in 1 .. Len(Known)
    BY <1>0, <1>4 DEF NotSubtype, Searching, CompareNext, RootPassed
  <2>2. WalkInv'
    BY <2>1, SelfIsSuper DEF WalkInv
  <2>3. ExactInv'
    <3>1. ASSUME failures = before, NEW n \in 1 .. Len(Known), n < md + 1
          PROVE  Known[n] \notin SuperTypes(machineType)
      <4>1. CASE n < md
        BY <2>1, <3>1, <4>1, TypesAssumption DEF ExactInv
      <4>2. CASE n = md
        BY <2>1, <3>1, <4>2, TypesAssumption DEF ExactInv
      <4> QED
        BY <1>0, <2>1, <3>1, <4>1, <4>2
    <3> QED
      BY <2>1, <3>1, TypesAssumption DEF ExactInv
  <2>4. (KnownTypeIsSuperType /\ (failures = 0 => UndefinedIsForeign))'
    BY <2>1 DEF KnownTypeIsSuperType, UndefinedIsForeign
  <2> QED
    BY <2>2, <2>3, <2>4
<1>5. CASE isSameOrSubtype
  <2>1. /\ UNCHANGED <<knownType, machineType, md, failures, before>>
        /\ machineType \in Types
        /\ checkType \in Types
        /\ checkType # Known[md]
        /\ md \in 1 .. Len(Known)
    BY <1>0, <1>5 DEF isSameOrSubtype, Searching
  <2>2. /\ m_superTypes'[checkType] = SuperOf[checkType]
        /\ \A t \in Types : m_superTypes'[t] \in {Unset, SuperOf[t]}
    BY <1>5, <2>1 DEF isSameOrSubtype, browseSuperType, WalkInv
  <2>3. checkType' = SuperOf[checkType]
    BY <1>5, <2>2 DEF isSameOrSubtype
  <2>4. checkType \in SuperTypes(machineType)
    BY <2>1, TypesAssumption DEF WalkInv
  <2>5. WalkInv'
    BY <2>1, <2>2, <2>3, <2>4, SuperOfSuper DEF WalkInv
  <2>6. ExactInv'
    <3>1. ASSUME failures = before, Known[md] \in SuperTypes(machineType)
          PROVE  checkType' # NoType /\ Known[md] \in SuperTypes(checkType')
      <4>1. Known[md] \in SuperTypes(checkType)
        BY <1>0, <2>1, <3>1, TypesAssumption DEF ExactInv
      <4> QED
        BY <2>1, <2>3, <4>1, SuperIsAhead
    <3> QED
      BY <2>1, <3>1 DEF ExactInv
  <2>7. (KnownTypeIsSuperType /\ (failures = 0 => UndefinedIsForeign))'
    BY <2>1 DEF KnownTypeIsSuperType, UndefinedIsForeign
  <2> QED
    BY <2>5, <2>6, <2>7
<1>6. CASE RequestFails
  <2>1. /\ checkType' = machineType /\ failures' = failures + 1
        /\ UNCHANGED <<knownType, m_superTypes, machineType, before>>
        /\ machineType \in Types
    BY <1>6, TypesAssumption DEF RequestFails, Searching, CompareNext
  <2>2. WalkInv'
    BY <2>1, SelfIsSuper DEF WalkInv
  <2>3. failures' # 0 /\ failures' # before'
    BY <2>1
  <2> QED
    BY <2>1, <2>2, <2>3 DEF KnownTypeIsSuperType, ExactInv
<1>7. CASE SearchEnds
  <2>1. /\ machineType' = NoType /\ machineType \in Types
        /\ md = Len(Known) + 1
        /\ UNCHANGED <<knownType, m_superTypes, failures>>
    BY <1>0, <1>7 DEF SearchEnds
  <2>2. failures = 0 => SuperTypes(machineType) \cap KnownTypes = {}
    <3>1. failures = 0 => failures = before
      OBVIOUS
    <3> QED
      BY <1>0, <2>1, <3>1, TypesAssumption DEF ExactInv, KnownTypes
  <2>3. (failures = 0 => UndefinedIsForeign)'
    BY <2>1, <2>2 DEF UndefinedIsForeign
  <2> QED
    BY <2>1, <2>3 DEF WalkInv, ExactInv, KnownTypeIsSuperType
<1>8. CASE Reset
  <2>1. /\ machineType' = NoType
        /\ knownType' = ConfiguredTypes
        /\ \A t \in Types : m_superTypes'[t] = Unset
    BY <1>8 DEF Reset
  <2>2. KnownTypeIsSuperType'
    BY <1>a, <2>1, SelfIsSuper DEF KnownTypeIsSuperType, ConfiguredTypes
  <2>3. UndefinedIsForeign'
    BY <1>a, <2>1, TypesAssumption DEF UndefinedIsForeign, ConfiguredTypes
  <2> QED
    BY <2>1, <2>2, <2>3 DEF WalkInv, ExactInv
<1>9. CASE UNCHANGED vars
  BY <1>9 DEF vars, WalkInv, KnownTypeIsSuperType, ExactInv,
     UndefinedIsForeign
<1> QED
  BY <1>1, <1>2, <1>3, <1>4, <1>5, <1>6, <1>7, <1>8, <1>9 DEF Next, Search

\* The inductive invariant holds in every behaviour.
LEMMA IndInvHolds == Spec => []IndInv
<1>1. Init => IndInv
  <2> SUFFICES ASSUME Init PROVE IndInv
    OBVIOUS
  <2>1. TypeOK
    <3>1. Len(Known) \in Nat
      BY TypesAssumption
    <3> QED
      BY <3>1, TypesAssumption DEF Init, TypeOK, ConfiguredTypes
  <2>2. Undefined \notin KnownTypes /\ Unset \notin KnownTypes
    BY TypesAssumption DEF KnownTypes
  <2>3. WalkInv /\ ExactInv
    BY DEF Init, WalkInv, ExactInv
  <2>4. KnownTypeIsSuperType /\ UndefinedIsForeign
    BY <2>2, SelfIsSuper, TypesAssumption
       DEF Init, ConfiguredTypes, KnownTypeIsSuperType, UndefinedIsForeign
  <2> QED
    BY <2>1, <2>3, <2>4 DEF IndInv
<1>2. IndInv /\ [Next]_vars => IndInv'
  BY TypeStep, SearchStep DEF IndInv
<1> QED
  BY <1>1, <1>2, PTL DEF Spec

-----------------------------------------------------------------------------
(* The refinement. *)

\* The answer of a finished search is what TypeLookup allows: the exact one if
\* no request of the search has failed.
LEMMA AnswerImplements ==
    ASSUME IndInv, NEW t \in Types, machineType = t, machineType' = NoType,
           UNCHANGED failures, NEW a \in KnownTypes \cup {Undefined},
           knownType' = [knownType EXCEPT ![t] = a],
           failures = before => Lookup!Exact(t, a),
           Lookup!Possible(t, a)
    PROVE  Lookup!Next
<1> USE DEF IndInv, TypeOK
<1>1. machineType # NoType /\ NoType \notin Types
  BY TypesAssumption
<1>2. a \in Lookup!Answers
  BY DEF Lookup!Answers, KnownTypes
<1> DEFINE old == [x \in Types |-> IF x = machineType THEN Unset
                                                      ELSE knownType[x]]
           new == [x \in Types |-> IF x = machineType' THEN Unset
                                                       ELSE knownType'[x]]
<1>3. old[t] = Unset /\ new = [old EXCEPT ![t] = a]
  BY <1>1
<1>3a. /\ (IF machineType = NoType THEN failures ELSE before) = before
       /\ (IF machineType' = NoType THEN failures' ELSE before') = failures
  BY <1>1
<1> HIDE DEF IndInv, TypeOK
<1>4. CASE failures = before
  <2>1. Lookup!Exact(t, a)
    BY <1>4
  <2>2. Lookup!Lookup(t)
    BY <1>2, <1>3, <1>4, <1>3a, <2>1, Zenon DEF Lookup!Lookup
  <2> QED
    BY <2>2 DEF Lookup!Next
<1>5. CASE failures # before
  <2>1. failures > before
    BY <1>5 DEF IndInv, TypeOK
  <2>2. Lookup!FaultyLookup(t)
    BY <1>2, <1>3, <1>3a, <2>1, Zenon DEF Lookup!FaultyLookup
  <2> QED
    BY <2>2 DEF Lookup!Next
<1> QED
  BY <1>4, <1>5

\* Every step of the search is a step of TypeLookup or leaves its variables.
LEMMA StepImplements ==
    ASSUME IndInv, [Next]_vars
    PROVE  [Lookup!Next]_(Lookup!vars)
<1>0. Len(Known) \in Nat /\ NoType \notin Types
  BY TypesAssumption
<1>a. /\ \A n \in 1 .. Len(Known) : Known[n] \in KnownTypes
      /\ KnownTypes \subseteq Types
  BY TypesAssumption DEF KnownTypes
<1> USE DEF IndInv, TypeOK
<1>1. ASSUME NEW t \in Types, StartSearch(t) PROVE UNCHANGED Lookup!vars
  BY <1>0, <1>1 DEF StartSearch, Lookup!vars
<1>2. ASSUME NEW t \in Types, FilterWalk(t) PROVE UNCHANGED Lookup!vars
  BY <1>2 DEF FilterWalk, Lookup!vars
<1>3. CASE SubtypeFound
  <2>1. /\ machineType' = NoType
        /\ UNCHANGED failures
        /\ knownType' = [knownType EXCEPT ![machineType] = Known[md]]
        /\ machineType \in Types
        /\ checkType = Known[md]
        /\ md \in 1 .. Len(Known)
    BY <1>0, <1>3 DEF SubtypeFound, Searching, FoundType
  <2>2. md \in Lookup!Candidates(machineType)
    BY <1>0, <1>a, <2>1 DEF WalkInv, Lookup!Candidates, Ancestors
  <2>3. Lookup!Possible(machineType, Known[md])
    BY <2>2 DEF Lookup!Possible
  <2>4. ASSUME failures = before PROVE Lookup!Exact(machineType, Known[md])
    <3>1. ASSUME NEW k \in Lookup!Candidates(machineType) PROVE md <= k
      BY <1>0, <2>1, <2>4, <3>1
         DEF ExactInv, Lookup!Candidates, Ancestors
    <3> QED
      BY <2>2, <3>1 DEF Lookup!Exact
  <2>5. Known[md] \in KnownTypes
    BY <1>a, <2>1
  <2> QED
    BY <2>1, <2>3, <2>4, <2>5, AnswerImplements
<1>4. CASE NotSubtype \/ isSameOrSubtype \/ RequestFails
  <2>1. machineType # NoType /\ UNCHANGED <<knownType, machineType, before>>
    BY <1>4 DEF NotSubtype, isSameOrSubtype, RequestFails, Searching
  <2> QED
    BY <2>1 DEF Lookup!vars
<1>5. CASE SearchEnds
  <2>1. /\ machineType' = NoType /\ machineType \in Types
        /\ md = Len(Known) + 1
        /\ UNCHANGED <<knownType, failures>>
    BY <1>0, <1>5 DEF SearchEnds
  <2>2. knownType' = [knownType EXCEPT ![machineType] = Undefined]
    BY <1>0, <2>1 DEF WalkInv
  <2>3. Lookup!Possible(machineType, Undefined)
    BY DEF Lookup!Possible
  <2>4. ASSUME failures = before PROVE Lookup!Exact(machineType, Undefined)
    BY <1>0, <2>1, <2>4
       DEF ExactInv, Lookup!Exact, Lookup!Candidates, Ancestors
  <2> QED
    BY <2>1, <2>2, <2>3, <2>4, AnswerImplements
<1>6. CASE Reset
  <2>1. Lookup!Reset
    BY <1>0, <1>6 DEF Reset, ConfiguredTypes, KnownTypes, Lookup!Reset,
                      Lookup!Configured
  <2> QED
    BY <2>1 DEF Lookup!Next
<1>7. CASE UNCHANGED vars
  BY <1>7 DEF vars, Lookup!vars
<1> QED
  BY <1>1, <1>2, <1>3, <1>4, <1>5, <1>6, <1>7 DEF Next, Search

-----------------------------------------------------------------------------
\* Both caches and the position of the walk are always well typed.
THEOREM TypeCorrect == Spec => []TypeOK
<1>1. IndInv => TypeOK
  BY DEF IndInv
<1> QED
  BY <1>1, IndInvHolds, PTL

\* browseForMachines never takes a machine for one of a configured type that
\* it does not have, for every hierarchy and any pattern of failed requests.
THEOREM CachedTypeIsReal == Spec => []KnownTypeIsSuperType
<1>1. IndInv => KnownTypeIsSuperType
  BY DEF IndInv
<1> QED
  BY <1>1, IndInvHolds, PTL

\* As long as no request has failed, browseForMachines marks a type as
\* undefined only if no super type of it is configured.
THEOREM MarkIsExact == Spec => []MarkExactUntilFailure
<1>1. IndInv => MarkExactUntilFailure
  BY DEF IndInv, MarkExactUntilFailure
<1> QED
  BY <1>1, IndInvHolds, PTL

\* For every hierarchy and every list of configured types, the search of
\* browseForMachines implements TypeLookup: an answer is the first configured
\* super type, or undefined if there is none, unless a request of that very
\* search failed; and it is kept until the gateway resets.
THEOREM SearchImplementsLookup == Spec => ImplementsLookup
<1>1. Init => Lookup!Init
  BY TypesAssumption DEF Init, ConfiguredTypes, KnownTypes, Lookup!Init,
                         Lookup!Configured
<1> QED
  BY <1>1, IndInvHolds, StepImplements, PTL
  DEF Spec, ImplementsLookup, Lookup!Spec
=============================================================================
