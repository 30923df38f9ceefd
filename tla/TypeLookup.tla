----------------------------- MODULE TypeLookup -----------------------------
(****************************************************************************)
(* What the search for a machine's configured type promises, without the    *)
(* walks, the cached super types and the entry that is made in advance: one *)
(* answer per type, given in a single step and kept until the gateway       *)
(* resets.                                                                  *)
(*                                                                          *)
(*   - The answer is the first configured type, in their order, that the    *)
(*     type has among its super types, or Undefined if it has none.         *)
(*   - Only a lookup during which a request failed may miss one: it answers *)
(*     with some configured super type or with Undefined.                   *)
(****************************************************************************)
EXTENDS Naturals, Sequences

CONSTANTS
    Types, Unset, Undefined, Known,
    Ancestors      \* of each type, itself included

VARIABLES
    answer,        \* of each type; Unset: not looked up yet
    failures       \* requests that have failed

vars == <<answer, failures>>

\* The positions in Known of the configured super types of t.
Candidates(t) == {n \in 1 .. Len(Known) : Known[n] \in Ancestors[t]}

Exact(t, a) ==
    \/ \E n \in Candidates(t) : a = Known[n] /\ \A k \in Candidates(t) : n <= k
    \/ Candidates(t) = {} /\ a = Undefined

Possible(t, a) == a = Undefined \/ \E n \in Candidates(t) : a = Known[n]

\* A configured type is its own answer.
Configured ==
    [t \in Types |-> IF \E n \in 1 .. Len(Known) : Known[n] = t THEN t
                                                               ELSE Unset]

Answers == {Known[n] : n \in 1 .. Len(Known)} \cup {Undefined}

Init == answer = Configured /\ failures = 0

Lookup(t) ==
    /\ answer[t] = Unset
    /\ \E a \in Answers : Exact(t, a) /\ answer' = [answer EXCEPT ![t] = a]
    /\ UNCHANGED failures

FaultyLookup(t) ==
    /\ answer[t] = Unset
    /\ failures' > failures
    /\ \E a \in Answers : Possible(t, a) /\ answer' = [answer EXCEPT ![t] = a]

Reset == answer' = Configured /\ UNCHANGED failures

Next ==
    \/ \E t \in Types : Lookup(t) \/ FaultyLookup(t)
    \/ Reset

Spec == Init /\ [][Next]_vars
=============================================================================
