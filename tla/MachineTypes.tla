---------------------------- MODULE MachineTypes ----------------------------
(****************************************************************************)
(* How browseForMachines finds the configured type of a machine: it asks    *)
(* isSameOrSubtype for each of m_knownMachineTypeDefinitions, which walks   *)
(* up the type hierarchy of the server.  Two caches outlive the search:     *)
(* OpcUaClient::m_superTypes, and m_subTypeDefinitionToKnown... of the      *)
(* type reader, here `knownType', which also remembers a search that found  *)
(* nothing.  Both last until the gateway resets.                            *)
(*                                                                          *)
(* Any request of the walk may fail.  The exception leaves the walk, and    *)
(* isSameOrSubtype turns it into the answer `false'.                        *)
(****************************************************************************)
EXTENDS Naturals, Sequences

CONSTANTS
    Types,
    NoType,        \* the null NodeId
    Unset,         \* no entry in a cache
    Undefined,     \* NodeId_UndefinedType
    SuperOf,       \* the server's hierarchy; NoType for its root
    Known,         \* m_knownMachineTypeDefinitions, in their order
    MaxFailures    \* bound: requests that fail

ASSUME TypesAssumption ==
    /\ {NoType, Unset, Undefined} \cap Types = {}
    /\ NoType # Unset
    /\ Unset # Undefined
    /\ SuperOf \in [Types -> Types \cup {NoType}]
    /\ Known \in Seq(Types)
    /\ MaxFailures \in Nat

VARIABLES
    knownType,     \* m_subTypeDefinitionToKnownMachineTypeDefinition
    m_superTypes,
    machineType,   \* type of the machine at hand; NoType: none
    md,            \* position in Known of the type that is compared
    checkType,     \* where the walk has arrived
    failures,
    before         \* history: the failures before this search

vars == <<knownType, m_superTypes, machineType, md, checkType, failures,
          before>>

KnownTypes == {Known[n] : n \in 1 .. Len(Known)}

TypeOK ==
    /\ knownType \in [Types -> KnownTypes \cup {Undefined, Unset}]
    /\ m_superTypes \in [Types -> Types \cup {NoType, Unset}]
    /\ machineType \in Types \cup {NoType}
    /\ md \in 1 .. Len(Known) + 1
    /\ checkType \in Types \cup {NoType}
    /\ failures \in 0 .. MaxFailures
    /\ before \in 0 .. failures

\* The constructor of the type reader enters the known types.
ConfiguredTypes == [t \in Types |-> IF t \in KnownTypes THEN t ELSE Unset]

Init ==
    /\ knownType = ConfiguredTypes
    /\ m_superTypes = [t \in Types |-> Unset]
    /\ machineType = NoType
    /\ md = 1
    /\ checkType = NoType
    /\ failures = 0
    /\ before = 0

-----------------------------------------------------------------------------
\* browseForMachines meets a machine whose type has no entry: the type is
\* entered as undefined before the search.
StartSearch(t) ==
    /\ machineType = NoType
    /\ knownType[t] = Unset
    /\ knownType' = [knownType EXCEPT ![t] = Undefined]
    /\ machineType' = t
    /\ md' = 1
    /\ checkType' = t
    /\ before' = failures
    /\ UNCHANGED <<m_superTypes, failures>>

Searching == machineType # NoType /\ md <= Len(Known)

\* Faulty variant: the first configured type is entered.
FirstKnown == Known[1]

FoundType == Known[md]

\* Faulty variant: the search goes on after a match.
SubtypeFoundNoBreak ==
    /\ Searching
    /\ checkType = Known[md]
    /\ knownType' = [knownType EXCEPT ![machineType] = FoundType]
    /\ md' = md + 1
    /\ checkType' = machineType
    /\ UNCHANGED <<m_superTypes, machineType, failures, before>>

\* The walk has reached the known type: it replaces the entry.
SubtypeFound ==
    /\ Searching
    /\ checkType = Known[md]
    /\ knownType' = [knownType EXCEPT ![machineType] = FoundType]
    /\ machineType' = NoType
    /\ checkType' = NoType
    /\ md' = 1
    /\ UNCHANGED <<m_superTypes, failures, before>>

\* The next known type is compared.
CompareNext ==
    /\ md' = md + 1
    /\ checkType' = machineType

RootPassed == checkType = NoType

\* The walk has left the hierarchy: isSameOrSubtype returns false.
NotSubtype ==
    /\ Searching
    /\ RootPassed
    /\ CompareNext
    /\ UNCHANGED <<knownType, m_superTypes, machineType, failures, before>>

\* Faulty variant: the type itself is entered in place of its super type.
SuperIsSelf(t) == t

browseSuperType(t) == SuperOf[t]

\* One call of isSameOrSubtype that goes on to the super type, taken from
\* m_superTypes or from the server.  maxDepth is counted down, not looked at.
isSameOrSubtype ==
    /\ Searching
    /\ checkType # NoType
    /\ checkType # Known[md]
    /\ m_superTypes' = IF m_superTypes[checkType] = Unset
                         THEN [m_superTypes EXCEPT
                                 ![checkType] = browseSuperType(checkType)]
                         ELSE m_superTypes
    /\ checkType' = m_superTypes'[checkType]
    /\ UNCHANGED <<knownType, machineType, md, failures, before>>

\* A request of browseSuperType fails; the exception counts as false.  (If the
\* service has no result at all, the process ends, and both caches with it.)
RequestFails ==
    /\ Searching
    /\ checkType # NoType
    /\ checkType # Known[md]
    /\ m_superTypes[checkType] = Unset
    /\ failures < MaxFailures
    /\ failures' = failures + 1
    /\ CompareNext
    /\ UNCHANGED <<knownType, m_superTypes, machineType, before>>

\* No known type is left.
SearchEnds ==
    /\ machineType # NoType
    /\ md > Len(Known)
    /\ machineType' = NoType
    /\ checkType' = NoType
    /\ md' = 1
    /\ UNCHANGED <<knownType, m_superTypes, failures, before>>

\* BrowseWithResultTypeFilter walks the hierarchy, too, between two searches.
FilterWalk(t) ==
    /\ machineType = NoType
    /\ m_superTypes[t] = Unset
    /\ m_superTypes' = [m_superTypes EXCEPT ![t] = browseSuperType(t)]
    /\ UNCHANGED <<knownType, machineType, md, checkType, failures, before>>

\* A reset of the gateway: a new client and a new type reader.
Reset ==
    /\ machineType = NoType
    /\ knownType' = ConfiguredTypes
    /\ m_superTypes' = [t \in Types |-> Unset]
    /\ UNCHANGED <<machineType, md, checkType, failures, before>>

Search == SubtypeFound \/ NotSubtype \/ isSameOrSubtype \/ SearchEnds

Next ==
    \/ \E t \in Types : StartSearch(t) \/ FilterWalk(t)
    \/ Search
    \/ RequestFails
    \/ Reset

Spec == Init /\ [][Next]_vars

\* The update thread goes on with its search.
FairSpec == Spec /\ WF_vars(Search)

-----------------------------------------------------------------------------
(* Properties. *)

\* t and its super types: what every set has that has t and, with a type, its
\* super type.
Closed(S) == \A x \in S : SuperOf[x] \in S \cup {NoType}
SuperTypes(t) == {x \in Types :
                    \A S \in SUBSET Types : t \in S /\ Closed(S) => x \in S}

\* A machine is only ever served by a type it really has: a cached answer of
\* browseForMachines is the machine's type or one of its super types, whatever
\* requests failed while it was searched for.
KnownTypeIsSuperType ==
    \A t \in Types :
        knownType[t] \in KnownTypes => knownType[t] \in SuperTypes(t)

\* The comment of browseForMachines (MachineObserver.cpp:169): the mark is for
\* a machine that "does not have a proper, configured machine
\* (Super)TypeDefinition".  It outlives the search that set it, also
\* if it is the result of a failed request.
UndefinedIsForeign ==
    \A t \in Types \ {machineType} :
        knownType[t] = Undefined => SuperTypes(t) \cap KnownTypes = {}

\* It is exact while no request fails.
MarkExactUntilFailure == failures = 0 => UndefinedIsForeign

\* The search as a single step: TypeLookup, where a type has its answer once its
\* search is over.
Ancestors == [t \in Types |-> SuperTypes(t)]

Lookup == INSTANCE TypeLookup WITH
    answer   <- [t \in Types |-> IF t = machineType THEN Unset
                                                    ELSE knownType[t]],
    failures <- IF machineType = NoType THEN failures ELSE before

\* A search of browseForMachines answers with the first configured super type, or
\* with undefined if there is none, unless one of its own requests failed: what
\* earlier failures and walks have left in the caches never misleads it.  An
\* answer is kept until the gateway resets.
ImplementsLookup == Lookup!Spec

\* Without a cycle in the hierarchy, every search ends.
SearchTerminates == machineType # NoType ~> machineType = NoType
=============================================================================
