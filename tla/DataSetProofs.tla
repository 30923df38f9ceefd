---------------------------- MODULE DataSetProofs ----------------------------
(****************************************************************************)
(* Proofs about DataSet: whatever types and server, and whatever requests   *)
(* fail, the tree of an accepted machine is complete, a complete machine is *)
(* selected completely, every variable of the tree is monitored once, its   *)
(* payload is true, and the process ends in three known ways only.          *)
(*                                                                          *)
(* The argument follows the call stack.  Each call holds the trees it has   *)
(* built; they are as they should be (TreeOK), and so is the part of its    *)
(* own loop that is done (FrameOK).  A call that returns adds its entry to  *)
(* its caller; a call that an exception leaves takes its trees with it.     *)
(*                                                                          *)
(* The tree grows from its leaves, so it is well-founded.  ModelToJson, a   *)
(* recursive function, therefore is what its equation says, and what it     *)
(* returns can be shown by induction over the tree.                         *)
(****************************************************************************)
EXTENDS DataSet, SequenceTheorems, WellFoundedInduction, TLAPS

Elems(s) == {s[k] : k \in DOMAIN s}
IsSeq(s) == s \in Seq(Elems(s))

\* The invariant, in parts.  The parameters are: S a set of entries, c whether
\* the run is clean so far, b the nodes browsed and m the nodes met.

\* A set of entries with the children of each of them in the set.
Forest(S) ==
    \A e \in S :
        /\ e.kind \in {"simple", "placeholder"}
        /\ e.children \in Seq(S)

\* No type lists two children of the same name, and no entry has two.
UniqueNames ==
    \A t \in DOMAIN m_typeMap :
        \A j, k \in DOMAIN m_typeMap[t].children :
            m_typeMap[t].children[j].name = m_typeMap[t].children[k].name => j = k

DistinctChildren(e) ==
    \A j, k \in DOMAIN e.children :
        e.children[j].def.name = e.children[k].def.name => j = k

\* The place of a child is directly below that of its parent.
Below(e, d) == \E k \in Nat : d.place = Append(e.place, k)

PlacesOK(e) ==
    /\ e.place \in Seq(Nat)
    /\ \A d \in ChildEntries(e) : Below(e, d)

\* Each entry is as addDataSet promises.
TreeOK(S, c, b) ==
    \A e \in S :
        /\ Genuine(e)
        /\ PlacesOK(e)
        /\ e.def.type \in DOMAIN m_typeMap
        /\ e.kind = "simple" /\ UniqueNames => DistinctChildren(e)
        /\ HasMandatory(e)
        /\ c => HasOffered(e)
        /\ e.node \in b

Closed(S) == \A e \in S : ChildEntries(e) \subseteq S

\* Nothing is in S but the trees of R.
OnlyTreesOf(R, S) == \A U : R \subseteq U /\ Closed(U) => S \subseteq U

\* No entry of S is below itself, so one can argue from the children of an entry
\* to the entry.
WellFounded(S) ==
    \A U : (\A e \in S : ChildEntries(e) \subseteq U => e \in U) => S \subseteq U

IsFrame(f) ==
    f = [fun |-> f.fun, node |-> f.node, def |-> f.def, place |-> f.place,
         first |-> f.first, list |-> f.list, next |-> f.next,
         found |-> f.found, entries |-> f.entries]

\* What a call loops over.  If no request failed, it is all there is.
ListOK(f, c) ==
    /\ f.def.type \in DOMAIN m_typeMap
    /\ \/ /\ f.fun = "TransformToNodeIds"
          /\ f.list = IF f.first THEN m_typeMap[f.def.type].children ELSE <<>>
       \/ /\ f.fun = "BrowsePlaceholder"
          /\ Elems(f.list) \subseteq Instances(f.node, f.def)
          /\ c => f.list = Referenced(f.node, f.def)

\* The loop has added what the children it passed require and offer.
LoopOK(f, c) ==
    \A k \in 1 .. (f.next - 1) :
        /\ f.fun = "TransformToNodeIds" =>
              /\ f.list[k].rule \in {"Mandatory", "MandatoryPlaceholder"} =>
                    Has(Entry(f), f.list[k])
              /\ c /\ Offers(f.node, f.list[k]) => Has(Entry(f), f.list[k])
        /\ f.fun = "BrowsePlaceholder" /\ c /\ KnownType(f.list[k]) =>
              \E d \in Elems(f.found) : d.node = f.list[k]

\* It has entered each child once.
NamesOK(f) ==
    f.fun = "TransformToNodeIds" /\ UniqueNames =>
        /\ DistinctChildren(Entry(f))
        /\ \A k \in DOMAIN f.found : \E j \in 1 .. (f.next - 1) :
              f.found[k].def = f.list[j]

FrameOK(f, c, b, m) ==
    /\ IsFrame(f)
    /\ ListOK(f, c)
    /\ IsSeq(f.list)
    /\ f.next \in 1 .. (Len(f.list) + 1)
    /\ f.found \in Seq(f.entries)
    /\ Forest(f.entries)
    /\ TreeOK(f.entries, c, b)
    /\ OnlyTreesOf(Elems(f.found), f.entries)
    /\ WellFounded(f.entries)
    /\ Genuine(Entry(f))
    /\ PlacesOK(Entry(f))
    /\ LoopOK(f, c)
    /\ NamesOK(f)
    /\ f.node \in b
    /\ f.fun = "TransformToNodeIds" /\ f.first => <<f.node, f.def.type>> \in m

\* f was called for the current child or element of g.
Linked(g, f) ==
    /\ g.next <= Len(g.list)
    /\ Below(Entry(g), Entry(f))
    /\ \/ /\ g.fun = "TransformToNodeIds"
          /\ f.def = g.list[g.next]
          /\ ChildOf(Entry(g), Entry(f))
       \/ /\ g.fun = "BrowsePlaceholder"
          /\ f.node = g.list[g.next]
          /\ ElementOf(Entry(g), Entry(f))

IsRoot(f) ==
    /\ f.fun = "TransformToNodeIds"
    /\ f.node = StartNode
    /\ f.def = TypeNode(StartType)
    /\ f.first

StackOK(s, c, b, m) ==
    /\ IsSeq(s)
    /\ \A k \in 1 .. Len(s) : FrameOK(s[k], c, b, m)
    /\ \A k \in 1 .. (Len(s) - 1) : Linked(s[k], s[k + 1])
    /\ s # <<>> => IsRoot(s[1])

\* The place where a node was met first.
FirstFor(d, n) == d.kind = "simple" /\ d.first /\ d.node = n

\* Each browsed node is being looped over or has its entry.
Covers(s, b) ==
    \A n \in b : \E k \in 1 .. Len(s) :
        \/ FirstFor(Entry(s[k]), n)
        \/ \E d \in s[k].entries : FirstFor(d, n)

Phases == {"add", "transform", "subscribe", "added", "invalid", "terminated"}
HasTree == pc \in {"subscribe", "added"}

TypeInv ==
    /\ m_typeMap \in TypeMaps
    /\ server \in Servers
    /\ pc \in Phases
    /\ exc \in {"none", "other", "invalidChild"}
    /\ failures \in Nat
    /\ pc = "add" => stack = <<>> /\ browsedNodes = {}
    /\ pc = "transform" => stack # <<>>
    /\ HasTree => stack = <<>>

TransformInv ==
    /\ StackOK(stack, Clean, browsedNodes, met)
    /\ Clean /\ pc = "transform" => Covers(stack, browsedNodes)
    /\ exc # "none" \/ pc = "invalid" => ~Clean

TreeInv ==
    /\ Forest(selected)
    /\ TreeOK(selected, Clean, browsedNodes)
    /\ WellFounded(selected)
    /\ HasTree =>
          /\ node \in selected
          /\ node.node = StartNode /\ node.def = TypeNode(StartType) /\ node.first
          /\ node.kind = "simple"
          /\ OnlyTreesOf({node}, selected)
          /\ Clean => \A n \in browsedNodes : \E d \in selected : FirstFor(d, n)

\* subscribeValues: what was visited has been dealt with, and its children are
\* visited or pending.
SubscribeInv ==
    /\ pc \in {"add", "transform", "invalid"} =>
          selected = {} /\ visited = {} /\ subscribed = {}
    /\ visited \subseteq selected
    /\ pending \in Seq(selected)
    /\ HasTree => node \in visited \cup Elems(pending)
    /\ pc = "added" => pending = <<>>
    /\ \A e \in visited :
          /\ ChildEntries(e) \subseteq visited \cup Elems(pending)
          /\ isMandatoryOrOptionalVariable(e) =>
                e.node \in refused \cup {i.node : i \in subscribed}
    /\ \A i, j \in subscribed : i.node = j.node => i = j
    /\ \A i \in subscribed : \E t \in selected :
          isMandatoryOrOptionalVariable(t) /\ t.node = i.node /\ t.place = i.place

Inv == TypeInv /\ TransformInv /\ TreeInv /\ SubscribeInv

-----------------------------------------------------------------------------
(* Sequences. *)

LEMMA SeqFacts ==
    ASSUME NEW S, NEW s \in Seq(S)
    PROVE  /\ IsSeq(s)
           /\ Len(s) \in Nat
           /\ DOMAIN s = 1 .. Len(s)
           /\ Elems(s) \subseteq S
  BY DEF IsSeq, Elems

LEMMA MoreThanOne ==
    ASSUME NEW n \in Nat, n > 1
    PROVE  n # 1
  OBVIOUS

LEMMA NotOne ==
    ASSUME NEW n \in Nat, n > 0, n # 1
    PROVE  n > 1
  OBVIOUS

LEMMA SeqLarger ==
    ASSUME NEW S, NEW T, S \subseteq T, NEW s \in Seq(S)
    PROVE  s \in Seq(T)
  OBVIOUS

LEMMA AppendFacts ==
    ASSUME NEW s, IsSeq(s), NEW x
    PROVE  /\ IsSeq(Append(s, x))
           /\ Len(Append(s, x)) = Len(s) + 1
           /\ \A k \in 1 .. Len(s) : Append(s, x)[k] = s[k]
           /\ Append(s, x)[Len(s) + 1] = x
           /\ Elems(Append(s, x)) = Elems(s) \cup {x}
  <1>1. Append(s, x) \in Seq(Elems(s) \cup {x})
    BY DEF IsSeq
  <1>2. IsSeq(Append(s, x))
    BY <1>1, SeqFacts
  <1>3. /\ Len(Append(s, x)) = Len(s) + 1
        /\ \A k \in 1 .. Len(s) : Append(s, x)[k] = s[k]
        /\ Append(s, x)[Len(s) + 1] = x
    BY DEF IsSeq
  <1>4. /\ DOMAIN s = 1 .. Len(s) /\ Len(s) \in Nat
        /\ DOMAIN Append(s, x) = 1 .. (Len(s) + 1)
    BY <1>1, <1>3, SeqFacts DEF IsSeq
  <1>5. Elems(Append(s, x)) = Elems(s) \cup {x}
    BY <1>3, <1>4 DEF Elems
  <1> QED
    BY <1>2, <1>3, <1>5

LEMMA ConcatElems ==
    ASSUME NEW S, NEW s \in Seq(S), NEW t \in Seq(S)
    PROVE  s \o t \in Seq(S) /\ Elems(s \o t) = Elems(s) \cup Elems(t)
  <1>1. /\ s \o t \in Seq(S)
        /\ Len(s \o t) = Len(s) + Len(t)
        /\ \A k \in 1 .. Len(s) + Len(t) :
              (s \o t)[k] = IF k <= Len(s) THEN s[k] ELSE t[k - Len(s)]
    BY ConcatProperties
  <1>2. /\ Len(s) \in Nat /\ DOMAIN s = 1 .. Len(s)
        /\ Len(t) \in Nat /\ DOMAIN t = 1 .. Len(t)
        /\ DOMAIN (s \o t) = 1 .. (Len(s) + Len(t))
    BY <1>1, SeqFacts
  <1>3. ASSUME NEW x \in Elems(s \o t) PROVE x \in Elems(s) \cup Elems(t)
    <2>1. PICK k \in 1 .. (Len(s) + Len(t)) : x = (s \o t)[k]
      BY <1>2 DEF Elems
    <2>2. CASE k <= Len(s)
      BY <1>1, <1>2, <2>1, <2>2 DEF Elems
    <2>3. CASE ~(k <= Len(s))
      <3>1. k - Len(s) \in DOMAIN t /\ x = t[k - Len(s)]
        BY <1>1, <1>2, <2>1, <2>3
      <3> QED
        BY <3>1 DEF Elems
    <2> QED
      BY <2>2, <2>3
  <1>4. ASSUME NEW x \in Elems(s) PROVE x \in Elems(s \o t)
    <2>1. PICK k \in 1 .. Len(s) : x = s[k]
      BY <1>2 DEF Elems
    <2>2. k \in 1 .. (Len(s) + Len(t)) /\ (s \o t)[k] = x
      BY <1>1, <1>2, <2>1
    <2> QED
      BY <1>2, <2>2 DEF Elems
  <1>5. ASSUME NEW x \in Elems(t) PROVE x \in Elems(s \o t)
    <2>1. PICK k \in 1 .. Len(t) : x = t[k]
      BY <1>2 DEF Elems
    <2>2. /\ Len(s) + k \in 1 .. (Len(s) + Len(t)) /\ ~(Len(s) + k <= Len(s))
          /\ (Len(s) + k) - Len(s) = k
      BY <1>2
    <2>3. (s \o t)[Len(s) + k] = x
      BY <1>1, <2>1, <2>2
    <2> QED
      BY <1>2, <2>2, <2>3 DEF Elems
  <1> QED
    BY <1>1, <1>3, <1>4, <1>5

LEMMA HeadTailElems ==
    ASSUME NEW S, NEW s \in Seq(S), s # <<>>
    PROVE  /\ Head(s) \in S
           /\ Tail(s) \in Seq(S)
           /\ Elems(s) = {Head(s)} \cup Elems(Tail(s))
  <1>1. /\ Head(s) \in S /\ Tail(s) \in Seq(S) /\ Len(Tail(s)) = Len(s) - 1
        /\ \A k \in 1 .. Len(Tail(s)) : Tail(s)[k] = s[k + 1]
    BY HeadTailProperties
  <1>2. /\ Len(s) \in Nat /\ Len(s) > 0 /\ DOMAIN s = 1 .. Len(s)
        /\ DOMAIN Tail(s) = 1 .. (Len(s) - 1) /\ Head(s) = s[1]
    BY <1>1, SeqFacts
  <1>3. ASSUME NEW x \in Elems(s) PROVE x \in {Head(s)} \cup Elems(Tail(s))
    <2>1. PICK k \in 1 .. Len(s) : x = s[k]
      BY <1>2 DEF Elems
    <2>2. CASE k = 1
      BY <1>2, <2>1, <2>2
    <2>3. CASE k # 1
      <3>1. k - 1 \in 1 .. (Len(s) - 1) /\ (k - 1) + 1 = k
        BY <1>2, <2>1, <2>3
      <3>2. Tail(s)[k - 1] = x
        BY <1>1, <2>1, <3>1
      <3> QED
        BY <1>2, <3>1, <3>2 DEF Elems
    <2> QED
      BY <2>2, <2>3
  <1>4. ASSUME NEW x \in Elems(Tail(s)) PROVE x \in Elems(s)
    <2>1. PICK k \in 1 .. (Len(s) - 1) : x = Tail(s)[k]
      BY <1>2 DEF Elems
    <2>2. k + 1 \in 1 .. Len(s) /\ x = s[k + 1]
      BY <1>1, <1>2, <2>1
    <2> QED
      BY <1>2, <2>2 DEF Elems
  <1>5. Head(s) \in Elems(s)
    BY <1>2 DEF Elems
  <1> QED
    BY <1>1, <1>3, <1>4, <1>5

LEMMA PopFacts ==
    ASSUME NEW s, IsSeq(s), Len(s) > 0
    PROVE  LET t == SubSeq(s, 1, Len(s) - 1)
           IN  /\ IsSeq(t)
               /\ Len(t) = Len(s) - 1
               /\ \A k \in 1 .. Len(t) : t[k] = s[k]
  <1> DEFINE t == SubSeq(s, 1, Len(s) - 1)
  <1>1. Len(s) \in Nat /\ \A k \in 1 .. Len(s) : s[k] \in Elems(s)
    BY DEF IsSeq
  <1>2. /\ t \in Seq(Elems(s))
        /\ Len(t) = Len(s) - 1
        /\ \A k \in 1 .. (Len(s) - 1) : t[k] = s[k]
    BY <1>1, SubSeqProperties
  <1>3. IsSeq(t)
    BY <1>2, SeqFacts
  <1> QED
    BY <1>2, <1>3

LEMMA WithTopFacts ==
    ASSUME NEW s, IsSeq(s), Len(s) > 0, NEW f
    PROVE  /\ IsSeq(WithTop(s, f))
           /\ Len(WithTop(s, f)) = Len(s)
           /\ \A k \in 1 .. (Len(s) - 1) : WithTop(s, f)[k] = s[k]
           /\ WithTop(s, f)[Len(s)] = f
  <1>1. WithTop(s, f) \in Seq(Elems(s) \cup {f})
    BY DEF IsSeq, WithTop
  <1>2. IsSeq(WithTop(s, f))
    BY <1>1, SeqFacts
  <1>3. Len(s) \in Nat /\ DOMAIN s = 1 .. Len(s)
    BY SeqFacts DEF IsSeq
  <1>4. DOMAIN WithTop(s, f) = 1 .. Len(s)
    BY <1>3 DEF WithTop
  <1> QED
    BY <1>1, <1>2, <1>3, <1>4 DEF WithTop

-----------------------------------------------------------------------------
(* Calls. *)

LEMMA EntryFields ==
    ASSUME NEW f
    PROVE  /\ Entry(f).node = f.node
           /\ Entry(f).def = f.def
           /\ Entry(f).place = f.place
           /\ Entry(f).first = f.first
           /\ Entry(f).children = f.found
           /\ Entry(f).kind = IF f.fun = "BrowsePlaceholder" THEN "placeholder"
                              ELSE "simple"
           /\ ChildEntries(Entry(f)) = Elems(f.found)
  BY DEF Entry, ChildEntries, Elems

LEMMA AdvanceFields ==
    ASSUME NEW f, IsFrame(f)
    PROVE  /\ IsFrame(Advance(f))
           /\ Advance(f).fun = f.fun
           /\ Advance(f).node = f.node
           /\ Advance(f).def = f.def
           /\ Advance(f).place = f.place
           /\ Advance(f).first = f.first
           /\ Advance(f).list = f.list
           /\ Advance(f).next = f.next + 1
           /\ Advance(f).found = f.found
           /\ Advance(f).entries = f.entries
           /\ Entry(Advance(f)) = Entry(f)
  BY DEF IsFrame, Advance, Entry

LEMMA ReceiveFields ==
    ASSUME NEW g, IsFrame(g), NEW f
    PROVE  /\ IsFrame(Receive(g, f))
           /\ Receive(g, f).fun = g.fun
           /\ Receive(g, f).node = g.node
           /\ Receive(g, f).def = g.def
           /\ Receive(g, f).place = g.place
           /\ Receive(g, f).first = g.first
           /\ Receive(g, f).list = g.list
           /\ Receive(g, f).next = g.next + 1
           /\ Receive(g, f).found = Append(g.found, Entry(f))
           /\ Receive(g, f).entries = g.entries \cup f.entries \cup {Entry(f)}
  <1> DEFINE next == g.next + 1
             found == Append(g.found, Entry(f))
             entries == g.entries \cup f.entries \cup {Entry(f)}
  <1>1. Receive(g, f) =
           [g EXCEPT !.next = next, !.found = found, !.entries = entries]
    BY DEF Receive
  <1> HIDE DEF next, found, entries
  <1>2. /\ IsFrame(Receive(g, f))
        /\ Receive(g, f).fun = g.fun
        /\ Receive(g, f).node = g.node
        /\ Receive(g, f).def = g.def
        /\ Receive(g, f).place = g.place
        /\ Receive(g, f).first = g.first
        /\ Receive(g, f).list = g.list
        /\ Receive(g, f).next = next
        /\ Receive(g, f).found = found
        /\ Receive(g, f).entries = entries
    BY <1>1 DEF IsFrame
  <1> QED
    BY <1>2 DEF next, found, entries

LEMMA CallFields ==
    ASSUME NEW fun, NEW n, NEW def, NEW place, NEW first, NEW list
    PROVE  LET f == Call(fun, n, def, place, first, list)
           IN  /\ IsFrame(f)
               /\ f.fun = fun
               /\ f.node = n
               /\ f.def = def
               /\ f.place = place
               /\ f.first = first
               /\ f.list = list
               /\ f.next = 1
               /\ f.found = <<>>
               /\ f.entries = {}
  BY DEF IsFrame, Call

\* A call that begins.
LEMMA CallOK ==
    ASSUME NEW fun, NEW n, NEW def, NEW place, NEW first, NEW list,
           NEW c, NEW b, NEW m,
           ListOK(Call(fun, n, def, place, first, list), c),
           IsSeq(list),
           place \in Seq(Nat),
           n \in b,
           fun = "TransformToNodeIds" /\ first => <<n, def.type>> \in m
    PROVE  FrameOK(Call(fun, n, def, place, first, list), c, b, m)
  <1> DEFINE f == Call(fun, n, def, place, first, list)
  <1>1. /\ IsFrame(f)
        /\ f.fun = fun /\ f.node = n /\ f.def = def /\ f.place = place
        /\ f.first = first /\ f.list = list /\ f.next = 1 /\ f.found = <<>> /\ f.entries = {}
    BY CallFields
  <1> HIDE DEF f
  <1>2. Elems(f.found) = {}
    BY <1>1 DEF Elems
  <1>3. Genuine(Entry(f)) /\ PlacesOK(Entry(f))
    BY <1>1, <1>2, EntryFields DEF Genuine, PlacesOK
  <1>4. LoopOK(f, c)
    BY <1>1 DEF LoopOK
  <1>5. f.next \in 1 .. (Len(f.list) + 1)
    <2>1. Len(list) \in Nat
      BY SeqFacts DEF IsSeq
    <2> QED
      BY <1>1, <2>1
  <1>6. /\ Forest(f.entries) /\ TreeOK(f.entries, c, b)
        /\ OnlyTreesOf(Elems(f.found), f.entries) /\ WellFounded(f.entries)
        /\ f.found \in Seq(f.entries)
    BY <1>1 DEF Forest, TreeOK, OnlyTreesOf, WellFounded
  <1>7. ListOK(f, c)
    BY DEF f
  <1>8. NamesOK(f)
    BY <1>1, EntryFields DEF NamesOK, DistinctChildren
  <1>9. FrameOK(f, c, b, m)
    BY <1>1, <1>3, <1>4, <1>5, <1>6, <1>7, <1>8 DEF FrameOK
  <1> QED
    BY <1>9 DEF f

\* What holds of a call still holds when more nodes are browsed and met.
LEMMA FrameStays ==
    ASSUME NEW f, NEW c, NEW b, NEW m, NEW c2, NEW b2, NEW m2,
           FrameOK(f, c, b, m), c2 => c, b \subseteq b2, m \subseteq m2
    PROVE  FrameOK(f, c2, b2, m2)
  <1>1. TreeOK(f.entries, c2, b2)
    BY DEF FrameOK, TreeOK
  <1>2. LoopOK(f, c2)
    BY DEF FrameOK, LoopOK
  <1>3. ListOK(f, c2)
    BY DEF FrameOK, ListOK
  <1> QED
    BY <1>1, <1>2, <1>3 DEF FrameOK

\* The loop passes a child or an element of which nothing is needed.
LEMMA AdvanceOK ==
    ASSUME NEW f, NEW c, NEW b, NEW m,
           FrameOK(f, c, b, m),
           f.next <= Len(f.list),
           f.fun = "TransformToNodeIds" =>
               /\ f.list[f.next].rule \notin {"Mandatory", "MandatoryPlaceholder"}
               /\ c => ~Offers(f.node, f.list[f.next]),
           f.fun = "BrowsePlaceholder" => (c => ~KnownType(f.list[f.next]))
    PROVE  FrameOK(Advance(f), c, b, m)
  <1> DEFINE h == Advance(f)
  <1>1. /\ IsFrame(h) /\ h.fun = f.fun /\ h.node = f.node /\ h.def = f.def
        /\ h.first = f.first /\ h.list = f.list /\ h.next = f.next + 1
        /\ h.found = f.found /\ h.entries = f.entries /\ Entry(h) = Entry(f)
    BY AdvanceFields DEF FrameOK
  <1> HIDE DEF h
  <1>2. Len(f.list) \in Nat
    BY SeqFacts DEF FrameOK, IsSeq
  <1>3. f.next \in 1 .. Len(f.list) /\ h.next \in 1 .. (Len(h.list) + 1)
    BY <1>1, <1>2 DEF FrameOK
  <1>4. LoopOK(h, c)
    <2> SUFFICES ASSUME NEW k \in 1 .. (h.next - 1)
                 PROVE  /\ h.fun = "TransformToNodeIds" =>
                              /\ h.list[k].rule \in {"Mandatory", "MandatoryPlaceholder"}
                                    => Has(Entry(h), h.list[k])
                              /\ c /\ Offers(h.node, h.list[k]) => Has(Entry(h), h.list[k])
                        /\ h.fun = "BrowsePlaceholder" /\ c /\ KnownType(h.list[k]) =>
                              \E d \in Elems(h.found) : d.node = h.list[k]
      BY DEF LoopOK
    <2>1. k \in 1 .. (f.next - 1) \/ k = f.next
      BY <1>1, <1>3
    <2>2. CASE k = f.next
      BY <1>1, <2>2
    <2>3. CASE k \in 1 .. (f.next - 1)
      BY <1>1, <2>3 DEF FrameOK, LoopOK
    <2> QED
      BY <2>1, <2>2, <2>3
  <1>5. ListOK(h, c)
    BY <1>1 DEF FrameOK, ListOK
  <1>6. NamesOK(h)
    <2>1. \A j \in 1 .. (f.next - 1) : j \in 1 .. (h.next - 1)
      BY <1>1, <1>3
    <2> QED
      BY <1>1, <2>1 DEF FrameOK, NamesOK
  <1>7. FrameOK(h, c, b, m)
    BY <1>1, <1>3, <1>4, <1>5, <1>6 DEF FrameOK
  <1> QED
    BY <1>7 DEF h

\* The entry of a call whose loop is over.
LEMMA DoneOK ==
    ASSUME NEW f, NEW c, NEW b, NEW m,
           FrameOK(f, c, b, m),
           ~(f.next <= Len(f.list))
    PROVE  /\ HasMandatory(Entry(f))
           /\ c => HasOffered(Entry(f))
  <1>1. Len(f.list) \in Nat /\ DOMAIN f.list = 1 .. Len(f.list)
    BY SeqFacts DEF FrameOK, IsSeq
  <1>2. \A x \in Elems(f.list) : \E k \in 1 .. (f.next - 1) : x = f.list[k]
    <2>1. f.next - 1 = Len(f.list)
      BY <1>1 DEF FrameOK
    <2> QED
      BY <1>1, <2>1 DEF Elems
  <1>3. CASE f.fun = "TransformToNodeIds"
    <2>1. f.first => ChildrenOf(f.def.type) = Elems(f.list)
      BY <1>3 DEF FrameOK, ListOK, ChildrenOf, Elems
    <2>2. \A k \in 1 .. (f.next - 1) :
             /\ f.list[k].rule \in {"Mandatory", "MandatoryPlaceholder"} =>
                   Has(Entry(f), f.list[k])
             /\ c /\ Offers(f.node, f.list[k]) => Has(Entry(f), f.list[k])
      BY <1>3 DEF FrameOK, LoopOK
    <2>3. /\ Entry(f).kind = "simple" /\ Entry(f).first = f.first
          /\ Entry(f).def = f.def /\ Entry(f).node = f.node
      BY <1>3, EntryFields
    <2>4. HasMandatory(Entry(f))
      BY <1>2, <2>1, <2>2, <2>3 DEF HasMandatory
    <2>5. c => HasOffered(Entry(f))
      BY <1>2, <2>1, <2>2, <2>3 DEF HasOffered
    <2> QED
      BY <2>4, <2>5
  <1>4. CASE f.fun = "BrowsePlaceholder"
    <2>1. c => Instances(f.node, f.def) = Elems(f.list)
      BY <1>4 DEF FrameOK, ListOK, Instances, Elems
    <2>2. \A k \in 1 .. (f.next - 1) :
             c /\ KnownType(f.list[k]) => \E d \in Elems(f.found) : d.node = f.list[k]
      BY <1>4 DEF FrameOK, LoopOK
    <2>3. /\ Entry(f).kind = "placeholder" /\ ChildEntries(Entry(f)) = Elems(f.found)
          /\ Entry(f).def = f.def /\ Entry(f).node = f.node
      BY <1>4, EntryFields
    <2> QED
      BY <1>2, <2>1, <2>2, <2>3 DEF HasMandatory, HasOffered
  <1> QED
    BY <1>3, <1>4 DEF FrameOK, ListOK

\* The trees of a call together with its entry.
LEMMA TreesOK ==
    ASSUME NEW f, NEW c, NEW b, NEW m,
           FrameOK(f, c, b, m),
           ~(f.next <= Len(f.list))
    PROVE  /\ Forest(f.entries \cup {Entry(f)})
           /\ TreeOK(f.entries \cup {Entry(f)}, c, b)
           /\ OnlyTreesOf({Entry(f)}, f.entries \cup {Entry(f)})
           /\ WellFounded(f.entries \cup {Entry(f)})
  <1> DEFINE e == Entry(f)
  <1>1. /\ e.node = f.node /\ e.children = f.found
        /\ e.kind \in {"simple", "placeholder"}
        /\ ChildEntries(e) = Elems(f.found)
    BY EntryFields
  <1>2. /\ Genuine(e) /\ PlacesOK(e) /\ HasMandatory(e) /\ (c => HasOffered(e))
        /\ e.def.type \in DOMAIN m_typeMap
        /\ e.kind = "simple" /\ UniqueNames => DistinctChildren(e)
    BY DoneOK, EntryFields DEF FrameOK, NamesOK, ListOK
  <1> HIDE DEF e
  <1>3. Forest(f.entries \cup {e})
    <2>1. \A x \in f.entries \cup {e} : x.children \in Seq(f.entries)
      BY <1>1 DEF FrameOK, Forest
    <2>2. \A x \in f.entries \cup {e} : x.children \in Seq(f.entries \cup {e})
      BY <2>1, SeqLarger
    <2> QED
      BY <1>1, <2>2 DEF FrameOK, Forest
  <1>4. TreeOK(f.entries \cup {e}, c, b)
    BY <1>1, <1>2 DEF FrameOK, TreeOK
  <1>5. OnlyTreesOf({e}, f.entries \cup {e})
    <2> SUFFICES ASSUME NEW U, {e} \subseteq U, Closed(U)
                 PROVE  f.entries \subseteq U
      BY DEF OnlyTreesOf
    <2>1. Elems(f.found) \subseteq U
      BY <1>1 DEF Closed
    <2> QED
      BY <2>1 DEF FrameOK, OnlyTreesOf
  <1>6. WellFounded(f.entries \cup {e})
    <2> SUFFICES ASSUME NEW U,
                        \A x \in f.entries \cup {e} : ChildEntries(x) \subseteq U => x \in U
                 PROVE  f.entries \cup {e} \subseteq U
      BY DEF WellFounded
    <2>1. f.entries \subseteq U
      BY DEF FrameOK, WellFounded
    <2>2. ChildEntries(e) \subseteq f.entries
      BY <1>1, SeqFacts DEF FrameOK
    <2> QED
      BY <2>1, <2>2
  <1> QED
    BY <1>3, <1>4, <1>5, <1>6 DEF e

\* A call returns its entry to its caller.
LEMMA ReceiveOK ==
    ASSUME NEW f, NEW g, NEW c, NEW b, NEW m,
           FrameOK(f, c, b, m),
           FrameOK(g, c, b, m),
           Linked(g, f),
           ~(f.next <= Len(f.list))
    PROVE  FrameOK(Receive(g, f), c, b, m)
  <1> DEFINE e == Entry(f)
             h == Receive(g, f)
             T == f.entries \cup {e}
  <1>1. /\ IsFrame(h) /\ h.fun = g.fun /\ h.node = g.node /\ h.def = g.def
        /\ h.place = g.place
        /\ h.first = g.first /\ h.list = g.list /\ h.next = g.next + 1
        /\ h.found = Append(g.found, e) /\ h.entries = g.entries \cup T
    BY ReceiveFields DEF FrameOK
  <1>2. /\ Entry(h).kind = Entry(g).kind /\ Entry(h).node = Entry(g).node
        /\ Entry(h).def = Entry(g).def /\ Entry(h).place = Entry(g).place
        /\ ChildEntries(Entry(h)) = Elems(h.found)
        /\ ChildEntries(Entry(g)) = Elems(g.found)
    BY <1>1, EntryFields
  <1>3. /\ e.node = f.node /\ e.def = f.def
    BY EntryFields
  <1>4. Forest(T) /\ TreeOK(T, c, b) /\ OnlyTreesOf({e}, T) /\ WellFounded(T)
    BY TreesOK
  <1> HIDE DEF e, h
  <1>5. Elems(h.found) = Elems(g.found) \cup {e}
    <2>1. IsSeq(g.found)
      BY SeqFacts DEF FrameOK
    <2> QED
      BY <1>1, <2>1, AppendFacts
  <1>6. Len(g.list) \in Nat /\ h.next \in 1 .. (Len(h.list) + 1) /\ g.next \in Nat
    <2>1. Len(g.list) \in Nat
      BY SeqFacts DEF FrameOK, IsSeq
    <2> QED
      BY <1>1, <2>1 DEF FrameOK, Linked
  <1>7. h.found \in Seq(h.entries)
    <2>1. g.found \in Seq(h.entries) /\ e \in h.entries
      BY <1>1, SeqLarger DEF FrameOK
    <2> QED
      BY <1>1, <2>1
  <1>8. Forest(h.entries)
    <2>1. \A x \in g.entries : x.children \in Seq(g.entries)
      BY DEF FrameOK, Forest
    <2>2. \A x \in T : x.children \in Seq(T)
      BY <1>4 DEF Forest
    <2>3. \A x \in h.entries : x.children \in Seq(h.entries)
      BY <1>1, <2>1, <2>2, SeqLarger
    <2> QED
      BY <1>1, <1>4, <2>3 DEF FrameOK, Forest
  <1>9. TreeOK(h.entries, c, b)
    BY <1>1, <1>4 DEF FrameOK, TreeOK
  <1>10. OnlyTreesOf(Elems(h.found), h.entries)
    <2> SUFFICES ASSUME NEW U, Elems(h.found) \subseteq U, Closed(U)
                 PROVE  h.entries \subseteq U
      BY DEF OnlyTreesOf
    <2>1. g.entries \subseteq U
      BY <1>5 DEF FrameOK, OnlyTreesOf
    <2>2. T \subseteq U
      BY <1>4, <1>5 DEF OnlyTreesOf
    <2> QED
      BY <1>1, <2>1, <2>2
  <1>11. Genuine(Entry(h))
    <2>1. IF Entry(g).kind = "simple" THEN ChildOf(Entry(g), e) ELSE ElementOf(Entry(g), e)
      BY EntryFields DEF Linked, e
    <2>2. \A d \in Elems(h.found) :
             IF Entry(g).kind = "simple" THEN ChildOf(Entry(g), d)
             ELSE ElementOf(Entry(g), d)
      BY <1>2, <1>5, <2>1 DEF FrameOK, Genuine
    <2>3. \A d : (ChildOf(Entry(h), d) <=> ChildOf(Entry(g), d))
                 /\ (ElementOf(Entry(h), d) <=> ElementOf(Entry(g), d))
      BY <1>2 DEF ChildOf, ElementOf
    <2> QED
      BY <1>2, <2>2, <2>3 DEF Genuine
  <1>12. LoopOK(h, c)
    <2> SUFFICES ASSUME NEW k \in 1 .. (h.next - 1)
                 PROVE  /\ h.fun = "TransformToNodeIds" =>
                              /\ h.list[k].rule \in {"Mandatory", "MandatoryPlaceholder"}
                                    => Has(Entry(h), h.list[k])
                              /\ c /\ Offers(h.node, h.list[k]) => Has(Entry(h), h.list[k])
                        /\ h.fun = "BrowsePlaceholder" /\ c /\ KnownType(h.list[k]) =>
                              \E d \in Elems(h.found) : d.node = h.list[k]
      BY DEF LoopOK
    <2>1. k \in 1 .. (g.next - 1) \/ k = g.next
      BY <1>1, <1>6
    <2>2. CASE k = g.next
      <3>1. g.fun = "TransformToNodeIds" => e.def = g.list[k]
        BY <1>3, <2>2 DEF Linked
      <3>2. g.fun = "BrowsePlaceholder" => e.node = g.list[k]
        BY <1>3, <2>2 DEF Linked
      <3> QED
        BY <1>1, <1>2, <1>5, <3>1, <3>2 DEF Has
    <2>3. CASE k \in 1 .. (g.next - 1)
      <3>1. \A x : Has(Entry(g), x) => Has(Entry(h), x)
        BY <1>2, <1>5 DEF Has
      <3> QED
        BY <1>1, <1>5, <2>3, <3>1 DEF FrameOK, LoopOK
    <2> QED
      BY <2>1, <2>2, <2>3
  <1>13. /\ ListOK(h, c) /\ IsSeq(h.list)
         /\ PlacesOK(Entry(h))
    <2>1. Below(Entry(g), e)
      BY DEF Linked, e
    <2>2. PlacesOK(Entry(g))
      BY DEF FrameOK
    <2>3. PlacesOK(Entry(h))
      BY <1>2, <1>5, <2>1, <2>2 DEF PlacesOK, Below
    <2> QED
      BY <1>1, <2>3 DEF FrameOK, ListOK
  <1>14. /\ h.node \in b
         /\ h.fun = "TransformToNodeIds" /\ h.first => <<h.node, h.def.type>> \in m
    BY <1>1 DEF FrameOK
  <1>15. WellFounded(h.entries)
    <2> SUFFICES ASSUME NEW U,
                        \A x \in h.entries : ChildEntries(x) \subseteq U => x \in U
                 PROVE  h.entries \subseteq U
      BY DEF WellFounded
    <2>1. g.entries \subseteq U
      BY <1>1 DEF FrameOK, WellFounded
    <2>2. T \subseteq U
      BY <1>1, <1>4 DEF WellFounded
    <2> QED
      BY <1>1, <2>1, <2>2
  <1>16. NamesOK(h)
    <2> SUFFICES ASSUME g.fun = "TransformToNodeIds", UniqueNames
                 PROVE  NamesOK(h)
      BY <1>1 DEF NamesOK
    <2>1. /\ IsSeq(g.found) /\ Len(g.found) \in Nat
          /\ DOMAIN g.found = 1 .. Len(g.found)
      BY SeqFacts DEF FrameOK
    <2>2. /\ IsSeq(h.found) /\ Len(h.found) = Len(g.found) + 1
          /\ \A k \in 1 .. Len(g.found) : h.found[k] = g.found[k]
          /\ h.found[Len(g.found) + 1] = e
      BY <1>1, <2>1, AppendFacts
    <2>3. DOMAIN h.found = 1 .. (Len(g.found) + 1)
      BY <2>2, SeqFacts DEF IsSeq
    <2>4. \A k \in DOMAIN h.found : k \in 1 .. Len(g.found) \/ k = Len(g.found) + 1
      BY <2>1, <2>3
    <2>5. \A k \in 1 .. Len(g.found) : \E j \in 1 .. (g.next - 1) :
             h.found[k].def = g.list[j]
      BY <2>1, <2>2 DEF FrameOK, NamesOK
    <2>6. e.def = g.list[g.next] /\ g.next <= Len(g.list)
      BY <1>3 DEF Linked
    <2>7. \A k \in 1 .. Len(g.found) : h.found[k].def.name # e.def.name
      <3>1. /\ g.def.type \in DOMAIN m_typeMap
            /\ g.list = m_typeMap[g.def.type].children \/ g.list = <<>>
        BY DEF FrameOK, ListOK
      <3>2. DOMAIN g.list = 1 .. Len(g.list) /\ g.next \in DOMAIN g.list
        BY <1>6, <2>6, SeqFacts DEF FrameOK, IsSeq
      <3>3. g.list = m_typeMap[g.def.type].children
        BY <3>1, <3>2
      <3>4. \A j, k \in DOMAIN g.list : g.list[j].name = g.list[k].name => j = k
        BY <3>1, <3>3 DEF UniqueNames
      <3>5. \A j \in 1 .. (g.next - 1) : j \in DOMAIN g.list /\ j # g.next
        BY <1>6, <2>6, <3>2
      <3> QED
        BY <2>5, <2>6, <3>2, <3>4, <3>5
    <2>8. \A j, k \in 1 .. Len(g.found) :
             h.found[j].def.name = h.found[k].def.name => j = k
      <3>1. DistinctChildren(Entry(g)) /\ Entry(g).children = g.found
        BY EntryFields DEF FrameOK, NamesOK
      <3>2. \A j, k \in 1 .. Len(g.found) :
               g.found[j].def.name = g.found[k].def.name => j = k
        BY <2>1, <3>1 DEF DistinctChildren
      <3> QED
        BY <2>2, <3>2
    <2>9. \A j, k \in DOMAIN h.found :
             h.found[j].def.name = h.found[k].def.name => j = k
      BY <2>2, <2>4, <2>7, <2>8
    <2>10. \A k \in DOMAIN h.found : \E j \in 1 .. (h.next - 1) :
              h.found[k].def = h.list[j]
      <3> TAKE k \in DOMAIN h.found
      <3>1. \A j \in 1 .. (g.next - 1) : j \in 1 .. (h.next - 1)
        BY <1>1, <1>6
      <3>2. g.next \in 1 .. (h.next - 1)
        <4>1. g.next \in 1 .. (Len(g.list) + 1)
          BY DEF FrameOK
        <4> QED
          BY <1>1, <1>6, <4>1
      <3>3. h.list = g.list
        BY <1>1
      <3>4. CASE k = Len(g.found) + 1
        BY <2>2, <2>6, <3>2, <3>3, <3>4
      <3>5. CASE k \in 1 .. Len(g.found)
        BY <2>5, <3>1, <3>3, <3>5
      <3> QED
        BY <2>4, <3>4, <3>5
    <2>11. Entry(h).children = h.found
      BY EntryFields
    <2> QED
      BY <2>9, <2>10, <2>11 DEF NamesOK, DistinctChildren
  <1>17. FrameOK(h, c, b, m)
    BY <1>1, <1>6, <1>7, <1>8, <1>9, <1>10, <1>11, <1>12, <1>13, <1>14, <1>15,
       <1>16
       DEF FrameOK
  <1> QED
    BY <1>17 DEF h

-----------------------------------------------------------------------------
(* The stack. *)

SameCall(f, h) ==
    /\ h.fun = f.fun /\ h.node = f.node /\ h.def = f.def
    /\ h.place = f.place /\ h.first = f.first

LEMMA LinkedSame ==
    ASSUME NEW g, NEW f, NEW h, Linked(g, f), SameCall(f, h)
    PROVE  Linked(g, h)
  <1>1. /\ Entry(h).kind = Entry(f).kind /\ Entry(h).node = Entry(f).node
        /\ Entry(h).def = Entry(f).def /\ Entry(h).place = Entry(f).place
    BY EntryFields DEF SameCall
  <1>2. ChildOf(Entry(g), Entry(f)) => ChildOf(Entry(g), Entry(h))
    BY <1>1 DEF ChildOf
  <1>3. ElementOf(Entry(g), Entry(f)) => ElementOf(Entry(g), Entry(h))
    BY <1>1 DEF ElementOf
  <1>4. Below(Entry(g), Entry(f)) => Below(Entry(g), Entry(h))
    BY <1>1 DEF Below
  <1> QED
    BY <1>2, <1>3, <1>4 DEF Linked, SameCall

LEMMA StackStays ==
    ASSUME NEW s, NEW c, NEW b, NEW m, NEW c2, NEW b2, NEW m2,
           StackOK(s, c, b, m), c2 => c, b \subseteq b2, m \subseteq m2
    PROVE  StackOK(s, c2, b2, m2)
  <1>1. \A k \in 1 .. Len(s) : FrameOK(s[k], c2, b2, m2)
    BY FrameStays DEF StackOK
  <1> QED
    BY <1>1 DEF StackOK

LEMMA StackLen ==
    ASSUME NEW s, NEW c, NEW b, NEW m, StackOK(s, c, b, m)
    PROVE  /\ IsSeq(s)
           /\ Len(s) \in Nat
           /\ s = <<>> <=> Len(s) = 0
           /\ s # <<>> => Len(s) > 0 /\ FrameOK(s[Len(s)], c, b, m)
  <1>1. IsSeq(s) /\ Len(s) \in Nat
    BY SeqFacts DEF StackOK, IsSeq
  <1>2. s = <<>> <=> Len(s) = 0
    BY <1>1 DEF IsSeq
  <1> QED
    BY <1>1, <1>2 DEF StackOK

LEMMA PushOK ==
    ASSUME NEW s, NEW c, NEW b, NEW m, NEW f,
           StackOK(s, c, b, m), FrameOK(f, c, b, m),
           s = <<>> => IsRoot(f),
           s # <<>> => Linked(s[Len(s)], f)
    PROVE  StackOK(Append(s, f), c, b, m)
  <1> DEFINE t == Append(s, f)
  <1>1. IsSeq(s) /\ Len(s) \in Nat /\ (s = <<>> <=> Len(s) = 0)
    BY StackLen
  <1>2. /\ IsSeq(t) /\ Len(t) = Len(s) + 1
        /\ \A k \in 1 .. Len(s) : t[k] = s[k]
        /\ t[Len(s) + 1] = f
    BY <1>1, AppendFacts
  <1> HIDE DEF t
  <1>3. \A k \in 1 .. Len(t) : FrameOK(t[k], c, b, m)
    <2> TAKE k \in 1 .. Len(t)
    <2>1. k \in 1 .. Len(s) \/ k = Len(s) + 1
      BY <1>1, <1>2
    <2> QED
      BY <1>2, <2>1 DEF StackOK
  <1>4. \A k \in 1 .. (Len(t) - 1) : Linked(t[k], t[k + 1])
    <2> TAKE k \in 1 .. (Len(t) - 1)
    <2>1. k \in 1 .. Len(s) /\ s # <<>>
      BY <1>1, <1>2
    <2>2. CASE k = Len(s)
      BY <1>2, <2>1, <2>2
    <2>3. CASE k # Len(s)
      <3>1. k \in 1 .. (Len(s) - 1) /\ k + 1 \in 1 .. Len(s)
        BY <1>1, <2>1, <2>3
      <3> QED
        BY <1>2, <2>1, <3>1 DEF StackOK
    <2> QED
      BY <2>2, <2>3
  <1>5. IsRoot(t[1])
    <2>1. CASE s = <<>>
      BY <1>1, <1>2, <2>1
    <2>2. CASE s # <<>>
      <3>1. t[1] = s[1]
        BY <1>1, <1>2, <2>2
      <3> QED
        BY <2>2, <3>1 DEF StackOK
    <2> QED
      BY <2>1, <2>2
  <1>6. StackOK(t, c, b, m)
    BY <1>2, <1>3, <1>4, <1>5 DEF StackOK
  <1> QED
    BY <1>6 DEF t

LEMMA WithTopOK ==
    ASSUME NEW s, NEW c, NEW b, NEW m, NEW f,
           StackOK(s, c, b, m), s # <<>>, FrameOK(f, c, b, m),
           SameCall(s[Len(s)], f)
    PROVE  StackOK(WithTop(s, f), c, b, m)
  <1> DEFINE t == WithTop(s, f)
  <1>1. IsSeq(s) /\ Len(s) \in Nat /\ Len(s) > 0
    BY StackLen
  <1>2. /\ IsSeq(t) /\ Len(t) = Len(s)
        /\ \A k \in 1 .. (Len(s) - 1) : t[k] = s[k]
        /\ t[Len(s)] = f
    BY <1>1, WithTopFacts
  <1> HIDE DEF t
  <1>3. \A k \in 1 .. Len(t) : FrameOK(t[k], c, b, m)
    <2> TAKE k \in 1 .. Len(t)
    <2>1. k \in 1 .. (Len(s) - 1) \/ k = Len(s)
      BY <1>1, <1>2
    <2>2. CASE k \in 1 .. (Len(s) - 1)
      BY <1>1, <1>2, <2>2 DEF StackOK
    <2> QED
      BY <1>2, <2>1, <2>2
  <1>4. \A k \in 1 .. (Len(t) - 1) : Linked(t[k], t[k + 1])
    <2> TAKE k \in 1 .. (Len(t) - 1)
    <2>1. Linked(s[k], s[k + 1]) /\ t[k] = s[k]
      BY <1>2 DEF StackOK
    <2>2. CASE k + 1 = Len(s)
      BY <1>2, <2>1, <2>2, LinkedSame
    <2>3. CASE k + 1 # Len(s)
      <3>1. k + 1 \in 1 .. (Len(s) - 1)
        BY <1>1, <1>2, <2>3
      <3> QED
        BY <1>2, <2>1, <3>1
    <2> QED
      BY <2>2, <2>3
  <1>5. IsRoot(t[1])
    <2>1. IsRoot(s[1])
      BY DEF StackOK
    <2>2. CASE Len(s) = 1
      BY <1>2, <2>1, <2>2 DEF IsRoot, SameCall
    <2>3. CASE Len(s) # 1
      BY <1>1, <1>2, <2>1, <2>3
    <2> QED
      BY <2>2, <2>3
  <1>6. StackOK(t, c, b, m)
    BY <1>2, <1>3, <1>4, <1>5 DEF StackOK
  <1> QED
    BY <1>6 DEF t

LEMMA PopOK ==
    ASSUME NEW s, NEW c, NEW b, NEW m, StackOK(s, c, b, m), Len(s) > 1
    PROVE  LET t == SubSeq(s, 1, Len(s) - 1)
           IN  /\ StackOK(t, c, b, m)
               /\ t # <<>>
               /\ Len(t) = Len(s) - 1
               /\ t[Len(t)] = s[Len(s) - 1]
               /\ FrameOK(s[Len(s) - 1], c, b, m)
               /\ Linked(s[Len(s) - 1], s[Len(s)])
  <1> DEFINE t == SubSeq(s, 1, Len(s) - 1)
  <1>1. IsSeq(s) /\ Len(s) \in Nat
    BY StackLen
  <1>2. IsSeq(t) /\ Len(t) = Len(s) - 1 /\ \A k \in 1 .. Len(t) : t[k] = s[k]
    BY <1>1, PopFacts
  <1> HIDE DEF t
  <1>3. \A k \in 1 .. Len(t) : FrameOK(t[k], c, b, m)
    BY <1>1, <1>2 DEF StackOK
  <1>4. \A k \in 1 .. (Len(t) - 1) : Linked(t[k], t[k + 1])
    <2> TAKE k \in 1 .. (Len(t) - 1)
    <2>1. k \in 1 .. (Len(s) - 1) /\ k \in 1 .. Len(t) /\ k + 1 \in 1 .. Len(t)
      BY <1>1, <1>2
    <2> QED
      BY <1>2, <2>1 DEF StackOK
  <1>5. t # <<>> /\ s # <<>> /\ t[1] = s[1] /\ t[Len(t)] = s[Len(s) - 1]
    BY <1>1, <1>2
  <1>6. StackOK(t, c, b, m)
    BY <1>2, <1>3, <1>4, <1>5 DEF StackOK
  <1>7. FrameOK(s[Len(s) - 1], c, b, m) /\ Linked(s[Len(s) - 1], s[Len(s)])
    <2>1. Len(s) - 1 \in 1 .. (Len(s) - 1) /\ Len(s) - 1 \in 1 .. Len(s)
          /\ (Len(s) - 1) + 1 = Len(s)
      BY <1>1
    <2> QED
      BY <2>1 DEF StackOK
  <1> QED
    BY <1>2, <1>5, <1>6, <1>7 DEF t

LEMMA EmptyOK ==
    ASSUME NEW c, NEW b, NEW m
    PROVE  StackOK(<<>>, c, b, m)
  BY DEF StackOK, IsSeq, Elems

-----------------------------------------------------------------------------
(* The types and the server do not change, so what is said of them does not. *)

LEMMA Unchanging ==
    ASSUME UNCHANGED external
    PROVE  /\ \A s, c, b, m : StackOK(s, c, b, m) => StackOK(s, c, b, m)'
           /\ \A S, c, b : TreeOK(S, c, b) => TreeOK(S, c, b)'
           /\ \A t : TypeNode(t)' = TypeNode(t)
  <1>0. m_typeMap' = m_typeMap /\ server' = server
    BY DEF external
  <1>1. \A n, c : Referenced(n, c)' = Referenced(n, c)
    BY <1>0 DEF Referenced
  <1>2. \A t : TypeNode(t)' = TypeNode(t) /\ ChildrenOf(t)' = ChildrenOf(t)
    BY <1>0 DEF TypeNode, ChildrenOf
  <1>3. \A n : /\ KnownType(n)' <=> KnownType(n)
               /\ TypeDefinition(n)' = TypeDefinition(n)
    BY <1>0 DEF KnownType, NoInterface, Plain, TypeDefinition
  <1>4. \A n, c : Instances(n, c)' = Instances(n, c)
    BY <1>1 DEF Instances
  <1>5. \A e, d : ChildOf(e, d)' <=> ChildOf(e, d)
    BY <1>1, <1>2 DEF ChildOf
  <1>6. \A e, d : ElementOf(e, d)' <=> ElementOf(e, d)
    BY <1>2, <1>3, <1>4 DEF ElementOf
  <1>7. \A e : Genuine(e)' <=> Genuine(e)
    BY <1>5, <1>6 DEF Genuine
  <1>8. \A e : HasMandatory(e)' <=> HasMandatory(e)
    BY <1>2 DEF HasMandatory
  <1>9. \A n, c : Offers(n, c)' <=> Offers(n, c)
    BY <1>1 DEF Offers
  <1>10. \A e : HasOffered(e)' <=> HasOffered(e)
    BY <1>2, <1>3, <1>4, <1>9 DEF HasOffered
  <1>11. UniqueNames' <=> UniqueNames
    BY <1>0 DEF UniqueNames
  <1>12. \A S, c, b : TreeOK(S, c, b)' <=> TreeOK(S, c, b)
    BY <1>0, <1>7, <1>8, <1>10, <1>11
       DEF TreeOK, DistinctChildren, PlacesOK, ChildEntries, Below
  <1>13. \A f : NamesOK(f)' <=> NamesOK(f)
    BY <1>11 DEF NamesOK, DistinctChildren, Entry
  <1>14. \A f, c : ListOK(f, c)' <=> ListOK(f, c)
    BY <1>0, <1>1, <1>4 DEF ListOK, Elems
  <1>15. \A f, c : LoopOK(f, c)' <=> LoopOK(f, c)
    BY <1>3, <1>9 DEF LoopOK
  <1>16. \A f, c, b, m : FrameOK(f, c, b, m)' <=> FrameOK(f, c, b, m)
    BY <1>7, <1>14, <1>15, <1>12, <1>13
       DEF FrameOK
  <1>17. \A g, f : Linked(g, f)' <=> Linked(g, f)
    BY <1>5, <1>6 DEF Linked, Below, Entry
  <1>18. \A f : IsRoot(f)' <=> IsRoot(f)
    BY <1>2 DEF IsRoot
  <1>19. \A s, c, b, m : StackOK(s, c, b, m)' <=> StackOK(s, c, b, m)
    BY <1>16, <1>17, <1>18 DEF StackOK
  <1> QED
    BY <1>2, <1>19, <1>12

-----------------------------------------------------------------------------
(* The steps of TransformToNodeIds. *)

LEMMA CleanStays ==
    ASSUME UNCHANGED external, failures \in Nat, met \subseteq met',
           failures' = failures \/ RequestFails
    PROVE  /\ Clean' => Clean
           /\ RequestFails => ~Clean'
  <1>1. \A n, c : Referenced(n, c)' = Referenced(n, c)
    BY DEF Referenced, external
  <1>2. \A t : ChildrenOf(t)' = ChildrenOf(t)
    BY DEF ChildrenOf, external
  <1>3. failures' = 0 => failures = 0 /\ ~RequestFails
    BY DEF RequestFails
  <1> QED
    BY <1>1, <1>2, <1>3 DEF Clean

LEMMA CleanSame ==
    ASSUME UNCHANGED external, failures' = failures, met' = met
    PROVE  Clean' <=> Clean
  <1>1. \A n, c : Referenced(n, c)' = Referenced(n, c)
    BY DEF Referenced, external
  <1>2. \A t : ChildrenOf(t)' = ChildrenOf(t)
    BY DEF ChildrenOf, external
  <1> QED
    BY <1>1, <1>2 DEF Clean

\* Before the tree is there, only the call stack can go wrong.
LEMMA TransformStep ==
    ASSUME Inv,
           pc \in {"add", "transform"},
           pc' \in {"transform", "invalid", "terminated"},
           UNCHANGED <<external, node, values, selected, subscribing>>,
           exc' \in {"none", "other", "invalidChild"},
           failures' \in Nat,
           pc' = "transform" => stack' # <<>>,
           StackOK(stack', Clean', browsedNodes', met'),
           Clean' /\ pc' = "transform" => Covers(stack', browsedNodes'),
           exc' # "none" \/ pc' = "invalid" => ~Clean'
    PROVE  Inv'
  <1>1. TypeInv'
    BY DEF Inv, TypeInv, Phases, external, HasTree
  <1>2. TransformInv'
    <2>1. StackOK(stack, Clean, browsedNodes, met)'
      BY Unchanging
    <2> QED
      BY <2>1 DEF TransformInv, Covers, FirstFor
  <1>3. selected' = {} /\ visited' = {} /\ subscribed' = {} /\ ~HasTree'
    BY DEF Inv, SubscribeInv, HasTree, subscribing
  <1>4. TreeInv'
    BY <1>3 DEF TreeInv, Forest, TreeOK, WellFounded
  <1>5. SubscribeInv'
    <2>1. pending' \in Seq({})
      BY <1>3 DEF Inv, SubscribeInv, subscribing
    <2> QED
      BY <1>3, <2>1 DEF SubscribeInv, HasTree
  <1> QED
    BY <1>1, <1>2, <1>4, <1>5 DEF Inv

\* The children of a type in the map, and the nodes that are referenced.
LEMMA ListsAreSequences ==
    ASSUME TypeInv
    PROVE  /\ \A t \in DOMAIN m_typeMap :
                 /\ m_typeMap[t].children \in Seq(Definitions(DOMAIN m_typeMap))
                 /\ IsSeq(m_typeMap[t].children)
           /\ \A n, c : IsSeq(Referenced(n, c))
           /\ IsSeq(<<>>)
  <1>1. \A t \in DOMAIN m_typeMap :
           m_typeMap[t].children \in Seq(Definitions(DOMAIN m_typeMap))
    BY TypesAssumption DEF TypeInv
  <1>2. \A t \in DOMAIN m_typeMap : IsSeq(m_typeMap[t].children)
    BY <1>1, SeqFacts
  <1>3. \A n, c : Referenced(n, c) \in Seq(Nodes)
    BY ServersAssumption DEF TypeInv, Referenced
  <1>4. \A n, c : IsSeq(Referenced(n, c))
    BY <1>3, SeqFacts
  <1> QED
    BY <1>1, <1>2, <1>4 DEF IsSeq, Elems

\* The current child of a loop over the children of a type.
LEMMA CurrentChild ==
    ASSUME TypeInv, NEW f, NEW c, NEW b, NEW m, FrameOK(f, c, b, m),
           f.fun = "TransformToNodeIds", f.next <= Len(f.list)
    PROVE  LET x == f.list[f.next]
           IN  /\ x \in ChildrenOf(f.def.type)
               /\ x.type \in DOMAIN m_typeMap
               /\ <<f.node, f.def.type>> \in m
  <1> DEFINE x == f.list[f.next]
  <1>1. /\ f.def.type \in DOMAIN m_typeMap
        /\ f.list = IF f.first THEN m_typeMap[f.def.type].children ELSE <<>>
    BY DEF FrameOK, ListOK
  <1>2. f.next \in 1 .. Len(f.list) /\ DOMAIN f.list = 1 .. Len(f.list)
    BY SeqFacts DEF FrameOK, IsSeq
  <1>3. f.first
    BY <1>1, <1>2
  <1>4. f.list \in Seq(Definitions(DOMAIN m_typeMap))
    BY <1>1, <1>3, ListsAreSequences
  <1>5. x \in Definitions(DOMAIN m_typeMap)
    BY <1>2, <1>4
  <1> QED
    BY <1>1, <1>2, <1>3, <1>5 DEF ChildrenOf, Definitions, FrameOK

\* A node that was met lacks a mandatory child.
LEMMA MissingMandatory ==
    ASSUME TypeInv, NEW f, NEW c, NEW b, FrameOK(f, c, b, met),
           f.fun = "TransformToNodeIds", f.next <= Len(f.list),
           f.list[f.next].rule = "Mandatory",
           Referenced(f.node, f.list[f.next]) = <<>>
    PROVE  ~Clean
  <1>1. /\ f.list[f.next] \in ChildrenOf(f.def.type)
        /\ <<f.node, f.def.type>> \in met
    BY CurrentChild
  <1> QED
    BY <1>1 DEF Clean

LEMMA CoversPush ==
    ASSUME NEW s, IsSeq(s), NEW f, NEW b, NEW b2, Covers(s, b),
           \A n \in b2 : n \in b \/ FirstFor(Entry(f), n)
    PROVE  Covers(Append(s, f), b2)
  <1>1. /\ Len(Append(s, f)) = Len(s) + 1
        /\ \A k \in 1 .. Len(s) : Append(s, f)[k] = s[k]
        /\ Append(s, f)[Len(s) + 1] = f
    BY AppendFacts
  <1>2. Len(s) \in Nat
    BY SeqFacts DEF IsSeq
  <1> SUFFICES ASSUME NEW n \in b2
               PROVE  \E k \in 1 .. (Len(s) + 1) :
                          \/ FirstFor(Entry(Append(s, f)[k]), n)
                          \/ \E d \in Append(s, f)[k].entries : FirstFor(d, n)
    BY <1>1 DEF Covers
  <1>3. CASE n \in b
    <2>1. PICK k \in 1 .. Len(s) : \/ FirstFor(Entry(s[k]), n)
                                   \/ \E d \in s[k].entries : FirstFor(d, n)
      BY <1>3 DEF Covers
    <2>2. k \in 1 .. (Len(s) + 1) /\ Append(s, f)[k] = s[k]
      BY <1>1, <1>2
    <2> QED
      BY <2>1, <2>2
  <1>4. CASE n \notin b
    <2>1. Len(s) + 1 \in 1 .. (Len(s) + 1)
      BY <1>2
    <2> QED
      BY <1>1, <1>4, <2>1
  <1> QED
    BY <1>3, <1>4

\* TransformToNodeIds is called.
LEMMA NewCall ==
    ASSUME TypeInv, NEW s, NEW n, NEW def, NEW place,
           StackOK(s, Clean, browsedNodes, met),
           CallTransformToNodeIds(s, n, def, place),
           UNCHANGED <<external, failures>>,
           def.type \in DOMAIN m_typeMap,
           s = <<>> =>
               n = StartNode /\ def = TypeNode(StartType) /\ n \notin browsedNodes,
           place \in Seq(Nat),
           s # <<>> => \A f : (f.fun = "TransformToNodeIds" /\ f.node = n
                               /\ f.def = def /\ f.place = place)
                                 => Linked(s[Len(s)], f),
           Clean => Covers(s, browsedNodes)
    PROVE  /\ StackOK(stack', Clean', browsedNodes', met')
           /\ Clean' => Clean
           /\ Clean' => Covers(stack', browsedNodes')
           /\ stack' # <<>>
  <1> DEFINE first == n \notin browsedNodes
             list == IF first THEN m_typeMap[def.type].children ELSE <<>>
             f == Call("TransformToNodeIds", n, def, place, first, list)
  <1>1. /\ stack' = Append(s, f)
        /\ browsedNodes' = browsedNodes \cup {n}
        /\ met' = IF first THEN met \cup {<<n, def.type>>} ELSE met
    BY DEF CallTransformToNodeIds
  <1>2. Clean' => Clean
    BY <1>1, CleanStays DEF TypeInv
  <1>3. /\ f.fun = "TransformToNodeIds" /\ f.node = n /\ f.def = def
        /\ f.place = place /\ f.first = first /\ f.list = list
    BY CallFields
  <1>4. IsSeq(list)
    BY ListsAreSequences
  <1>5. ListOK(f, Clean')
    BY <1>3 DEF ListOK
  <1>6. FrameOK(f, Clean', browsedNodes', met')
    BY <1>1, <1>4, <1>5, CallOK
  <1> HIDE DEF f
  <1>7. StackOK(s, Clean', browsedNodes', met')
    BY <1>1, <1>2, StackStays
  <1>8. StackOK(Append(s, f), Clean', browsedNodes', met')
    <2>1. s = <<>> => IsRoot(f)
      BY <1>3 DEF IsRoot
    <2>2. s # <<>> => Linked(s[Len(s)], f)
      BY <1>3
    <2> QED
      BY <1>6, <1>7, <2>1, <2>2, PushOK
  <1>9. IsSeq(s)
    BY StackLen
  <1>10. Clean' => Covers(stack', browsedNodes')
    <2>1. first => FirstFor(Entry(f), n)
      BY <1>3, EntryFields DEF FirstFor
    <2>2. \A x \in browsedNodes' : x \in browsedNodes \/ FirstFor(Entry(f), x)
      BY <1>1, <2>1
    <2> QED
      BY <1>1, <1>2, <1>9, <2>2, CoversPush
  <1>11. Append(s, f) # <<>>
    <2>1. s \in Seq(Elems(s) \cup {f})
      BY <1>9 DEF IsSeq
    <2> HIDE DEF f
    <2> QED
      BY <2>1, AppendProperties
  <1> QED
    BY <1>1, <1>2, <1>8, <1>10, <1>11

LEMMA addDataSetStep ==
    ASSUME Inv, addDataSet
    PROVE  Inv'
  <1> USE DEF addDataSet
  <1>1. TypeInv /\ stack = <<>> /\ browsedNodes = {}
    BY DEF Inv, TypeInv
  <1>2. StackOK(<<>>, Clean, browsedNodes, met)
    BY EmptyOK
  <1>3. TypeNode(StartType).type \in DOMAIN m_typeMap
    BY <1>1, TypesAssumption DEF TypeNode, TypeInv
  <1>4. Covers(<<>>, browsedNodes)
    BY <1>1 DEF Covers
  <1>5. /\ StackOK(stack', Clean', browsedNodes', met')
        /\ Clean' => Clean
        /\ Clean' => Covers(stack', browsedNodes')
        /\ stack' # <<>>
    <2>1. <<>> \in Seq(Nat)
      OBVIOUS
    <2> QED
      BY <1>1, <1>2, <1>3, <1>4, <2>1, NewCall
  <1>6. exc' # "none" => ~Clean'
    BY <1>5 DEF Inv, TransformInv
  <1> QED
    BY <1>5, <1>6, TransformStep DEF Inv, TypeInv

LEMMA TypeNodeFields ==
    ASSUME NEW t
    PROVE  TypeNode(t).type = t /\ TypeNode(t).rule = "Optional"
  BY DEF TypeNode

\* The facts about the call that is running.
LEMMA TopFacts ==
    ASSUME Inv, pc = "transform"
    PROVE  /\ TypeInv
           /\ stack # <<>> /\ Len(stack) \in Nat /\ Len(stack) > 0 /\ IsSeq(stack)
           /\ StackOK(stack, Clean, browsedNodes, met)
           /\ FrameOK(Top, Clean, browsedNodes, met)
           /\ Clean => Covers(stack, browsedNodes)
           /\ exc # "none" => ~Clean
  BY StackLen DEF Inv, TypeInv, TransformInv, Top

\* The place of the next child or element.
LEMMA NextPlaceFacts ==
    ASSUME NEW c, NEW b, NEW m, FrameOK(Top, c, b, m)
    PROVE  /\ NextPlace \in Seq(Nat)
           /\ \A f : f.place = NextPlace => Below(Entry(Top), Entry(f))
  <1>1. Top.place \in Seq(Nat) /\ Entry(Top).place = Top.place
    BY EntryFields DEF FrameOK, PlacesOK
  <1>2. Len(Top.found) + 1 \in Nat
    BY DEF FrameOK
  <1>3. NextPlace \in Seq(Nat)
    BY <1>1, <1>2 DEF NextPlace
  <1>4. \A f : f.place = NextPlace => Below(Entry(Top), Entry(f))
    BY <1>1, <1>2, EntryFields DEF NextPlace, Below
  <1> QED
    BY <1>3, <1>4

\* The loop of the running call goes on.
LEMMA AdvanceTop ==
    ASSUME Inv, pc = "transform",
           UNCHANGED <<external, pc, browsedNodes, node, values, met, selected,
                       subscribing>>,
           exc' = "none",
           failures' = failures \/ RequestFails,
           stack' = WithTop(stack, Advance(Top)),
           FrameOK(Advance(Top), Clean', browsedNodes, met)
    PROVE  Inv'
  <1>1. /\ TypeInv
        /\ stack # <<>> /\ Len(stack) \in Nat /\ Len(stack) > 0 /\ IsSeq(stack)
        /\ StackOK(stack, Clean, browsedNodes, met)
        /\ FrameOK(Top, Clean, browsedNodes, met)
        /\ Clean => Covers(stack, browsedNodes)
    BY TopFacts
  <1>2. Clean' => Clean
    BY <1>1, CleanStays DEF TypeInv
  <1>3. StackOK(stack, Clean', browsedNodes, met)
    BY <1>1, <1>2, StackStays
  <1>4. /\ SameCall(Top, Advance(Top)) /\ Entry(Advance(Top)) = Entry(Top)
        /\ Advance(Top).entries = Top.entries
    BY <1>1, AdvanceFields DEF SameCall, FrameOK
  <1>5. StackOK(stack', Clean', browsedNodes', met')
    BY <1>1, <1>3, <1>4, WithTopOK DEF Top
  <1>6. /\ Len(stack') = Len(stack)
        /\ \A k \in 1 .. (Len(stack) - 1) : stack'[k] = stack[k]
        /\ stack'[Len(stack)] = Advance(Top)
    BY <1>1, WithTopFacts
  <1>7. Covers(stack, browsedNodes) => Covers(stack', browsedNodes')
    <2>1. \A k \in 1 .. Len(stack) :
             /\ Entry(stack'[k]) = Entry(stack[k])
             /\ stack'[k].entries = stack[k].entries
      <3> TAKE k \in 1 .. Len(stack)
      <3>1. k = Len(stack) \/ k \in 1 .. (Len(stack) - 1)
        BY <1>1
      <3> QED
        BY <1>4, <1>6, <3>1 DEF Top
    <2> QED
      BY <1>6, <2>1 DEF Covers
  <1>8. stack' # <<>>
    BY <1>1, <1>6
  <1>9. failures' \in Nat
    BY <1>1 DEF TypeInv, RequestFails
  <1> QED
    BY <1>1, <1>2, <1>5, <1>7, <1>8, <1>9, TransformStep

LEMMA SkipChildStep ==
    ASSUME Inv, SkipChild
    PROVE  Inv'
  <1> USE DEF SkipChild, ChildToDo, Running, InLoop, Current
  <1>1. TypeInv /\ FrameOK(Top, Clean, browsedNodes, met)
    BY TopFacts
  <1>2. Clean' => Clean
    BY CleanSame
  <1>3. FrameOK(Top, Clean', browsedNodes, met)
    BY <1>1, <1>2, FrameStays
  <1>4. ~Offers(Top.node, Top.list[Top.next])
    BY DEF Offers, Placeholders
  <1>5. FrameOK(Advance(Top), Clean', browsedNodes, met)
    BY <1>3, <1>4, AdvanceOK
  <1> QED
    BY <1>5, AdvanceTop

LEMMA ChildMissingStep ==
    ASSUME Inv, ChildMissing
    PROVE  Inv'
  <1> USE DEF ChildMissing, ChildToDo, Running, InLoop, Current
  <1>1. /\ TypeInv /\ FrameOK(Top, Clean, browsedNodes, met) /\ stack # <<>>
        /\ StackOK(stack, Clean, browsedNodes, met)
        /\ Clean => Covers(stack, browsedNodes)
    BY TopFacts
  <1>2. (Clean' => Clean) /\ (RequestFails => ~Clean') /\ failures' \in Nat
    BY <1>1, CleanStays DEF TypeInv, RequestFails
  <1>3. CASE Current.rule = "Optional"
    <2>1. exc' = "none" /\ stack' = WithTop(stack, Advance(Top))
      BY <1>3 DEF HandleChild
    <2>2. FrameOK(Top, Clean', browsedNodes, met)
      BY <1>1, <1>2, FrameStays
    <2>3. Clean' => ~Offers(Top.node, Top.list[Top.next])
      BY <1>2, <1>3 DEF Offers, Placeholders
    <2>4. FrameOK(Advance(Top), Clean', browsedNodes, met)
      BY <1>3, <2>2, <2>3, AdvanceOK
    <2> QED
      BY <2>1, <2>4, AdvanceTop
  <1>4. CASE Current.rule = "Mandatory"
    <2>1. exc' = "invalidChild" /\ stack' = stack
      BY <1>4 DEF HandleChild
    <2>2. ~Clean'
      BY <1>1, <1>2, <1>4, MissingMandatory
    <2>3. StackOK(stack, Clean', browsedNodes, met)
      BY <1>1, <1>2, StackStays
    <2> QED
      BY <1>1, <1>2, <2>1, <2>2, <2>3, TransformStep
  <1> QED
    BY <1>3, <1>4

\* A request that is not answered ends the process.
LEMMA UnansweredStep ==
    ASSUME Inv, pc = "transform", pc' = "terminated",
           failures' = failures \/ RequestFails,
           UNCHANGED <<external, stack, exc, browsedNodes, node, values, met,
                       selected, subscribing>>
    PROVE  Inv'
  <1>1. /\ TypeInv /\ stack # <<>> /\ StackOK(stack, Clean, browsedNodes, met)
        /\ exc # "none" => ~Clean
    BY TopFacts
  <1>2. (Clean' => Clean) /\ failures' \in Nat
    BY <1>1, CleanStays DEF TypeInv, RequestFails
  <1>3. StackOK(stack, Clean', browsedNodes, met)
    BY <1>1, <1>2, StackStays
  <1> QED
    BY <1>1, <1>2, <1>3, TransformStep DEF TypeInv

\* The call for the current child or element is linked to the running one.
LEMMA ChildLinked ==
    ASSUME Inv, ChildToDo({"Optional", "Mandatory"} \cup Placeholders), NEW f,
           f.def = Current, f.place = NextPlace,
           \/ /\ Current.rule \in Placeholders
              /\ f.fun = "BrowsePlaceholder" /\ f.node = Top.node
           \/ /\ Current.rule \in {"Optional", "Mandatory"}
              /\ Referenced(Top.node, Current) # <<>>
              /\ f.fun = "TransformToNodeIds"
              /\ f.node = Referenced(Top.node, Current)[1]
    PROVE  Linked(Top, f) /\ Current.type \in DOMAIN m_typeMap
  <1> USE DEF ChildToDo, Running, InLoop, Current
  <1>1. TypeInv /\ FrameOK(Top, Clean, browsedNodes, met)
    BY TopFacts
  <1>2. Current \in ChildrenOf(Top.def.type) /\ Current.type \in DOMAIN m_typeMap
    BY <1>1, CurrentChild
  <1>3. /\ Entry(f).node = f.node /\ Entry(f).def = f.def
        /\ Entry(f).kind = IF f.fun = "BrowsePlaceholder" THEN "placeholder" ELSE "simple"
        /\ Entry(Top).node = Top.node /\ Entry(Top).def = Top.def
    BY EntryFields
  <1>4. ChildOf(Entry(Top), Entry(f))
    BY <1>2, <1>3 DEF ChildOf, Placeholders
  <1>5. Below(Entry(Top), Entry(f))
    BY <1>1, NextPlaceFacts
  <1> QED
    BY <1>2, <1>4, <1>5 DEF Linked

LEMMA ChildFoundStep ==
    ASSUME Inv, ChildFound
    PROVE  Inv'
  <1> USE DEF ChildFound
  <1>1. ChildToDo({"Optional", "Mandatory"} \cup Placeholders) /\ pc = "transform"
    BY DEF ChildToDo, Running
  <1>2. /\ TypeInv /\ stack # <<>> /\ StackOK(stack, Clean, browsedNodes, met)
        /\ Clean => Covers(stack, browsedNodes)
    BY <1>1, TopFacts
  <1> DEFINE n == Referenced(Top.node, Current)[1]
  <1>3. Current.rule \in {"Optional", "Mandatory"}
    BY DEF ChildToDo
  <1>4. \A f : (f.fun = "TransformToNodeIds" /\ f.node = n /\ f.def = Current
               /\ f.place = NextPlace)
                 => Linked(stack[Len(stack)], f)
    BY <1>1, <1>3, ChildLinked DEF Top
  <1>5. Current.type \in DOMAIN m_typeMap
    <2>1. Top.fun = "TransformToNodeIds" /\ Top.next <= Len(Top.list)
      BY DEF ChildToDo, Running, InLoop
    <2>2. FrameOK(Top, Clean, browsedNodes, met)
      BY <1>1, TopFacts
    <2> QED
      BY <1>2, <2>1, <2>2, CurrentChild DEF Current
  <1>6. /\ StackOK(stack', Clean', browsedNodes', met')
        /\ Clean' => Clean
        /\ Clean' => Covers(stack', browsedNodes')
        /\ stack' # <<>>
    <2>1. NextPlace \in Seq(Nat)
      BY <1>1, TopFacts, NextPlaceFacts
    <2> QED
      BY <1>2, <1>4, <1>5, <2>1, NewCall
  <1> QED
    BY <1>1, <1>2, <1>6, TransformStep DEF Inv, TypeInv, TransformInv

\* The answers that the request of BrowsePlaceholder may get.
LEMMA PrefixFacts ==
    ASSUME TypeInv, NEW n, NEW def, NEW k \in 0 .. Len(Referenced(n, def))
    PROVE  LET list == SubSeq(Referenced(n, def), 1, k)
           IN  IsSeq(list) /\ Elems(list) \subseteq Instances(n, def)
  <1> DEFINE all == Referenced(n, def)
             list == SubSeq(all, 1, k)
  <1>1. all \in Seq(Nodes)
    BY ServersAssumption DEF TypeInv, Referenced
  <1>2. Len(all) \in Nat /\ DOMAIN all = 1 .. Len(all)
    BY <1>1, SeqFacts
  <1>3. \A i \in 1 .. k : all[i] \in Nodes
    BY <1>1, <1>2
  <1> HIDE DEF all
  <1>4. /\ list \in Seq(Nodes) /\ Len(list) = k
        /\ \A i \in 1 .. k : list[i] = all[i]
    BY <1>1, <1>2, <1>3, SubSeqProperties DEF all
  <1>5. IsSeq(list) /\ DOMAIN list = 1 .. k
    BY <1>4, SeqFacts
  <1>6. \A i \in 1 .. k : i \in DOMAIN all
    BY <1>2 DEF all
  <1> HIDE DEF list
  <1>7. Elems(list) \subseteq {all[i] : i \in DOMAIN all}
    BY <1>4, <1>5, <1>6 DEF Elems
  <1> QED
    BY <1>5, <1>7 DEF Instances, all, list

LEMMA BrowsePlaceholderStep ==
    ASSUME Inv, BrowsePlaceholder
    PROVE  Inv'
  <1> DEFINE all == Referenced(Top.node, Current)
  <1>0. /\ ChildToDo(Placeholders)
        /\ UNCHANGED <<external, pc, browsedNodes, node, values, met, selected,
                       subscribing>>
        /\ \/ exc' = exc /\ failures' = failures
           \/ RequestFails /\ exc' = "other"
           \/ RequestFails /\ exc' = exc
    BY DEF BrowsePlaceholder
  <1>1. ChildToDo({"Optional", "Mandatory"} \cup Placeholders) /\ pc = "transform"
        /\ exc = "none"
    BY <1>0 DEF ChildToDo, Running
  <1>2. /\ TypeInv /\ stack # <<>> /\ IsSeq(stack) /\ Len(stack) \in Nat
        /\ StackOK(stack, Clean, browsedNodes, met)
        /\ FrameOK(Top, Clean, browsedNodes, met)
        /\ Clean => Covers(stack, browsedNodes)
    BY <1>1, TopFacts
  <1>3. /\ Clean' => Clean
        /\ RequestFails => ~Clean'
        /\ exc' # "none" => ~Clean'
        /\ failures' \in Nat
        /\ exc' \in {"none", "other"}
    BY <1>0, <1>1, <1>2, CleanStays DEF TypeInv, RequestFails
  <1>4. PICK list :
           /\ stack' = Append(stack, Call("BrowsePlaceholder", Top.node, Current,
                                          NextPlace, TRUE, list))
           /\ IsSeq(list) /\ Elems(list) \subseteq Instances(Top.node, Current)
           /\ list = all \/ RequestFails
    <2>1. IsSeq(all) /\ Elems(all) \subseteq Instances(Top.node, Current)
      BY <1>2, ListsAreSequences DEF Instances, Elems
    <2>2. IsSeq(<<>>) /\ Elems(<<>>) \subseteq Instances(Top.node, Current)
      BY DEF IsSeq, Elems
    <2>3. \A k \in 0 .. Len(all) :
             LET l == SubSeq(all, 1, k)
             IN  IsSeq(l) /\ Elems(l) \subseteq Instances(Top.node, Current)
      BY <1>2, PrefixFacts
    <2> HIDE DEF all
    <2> DEFINE Enter(l) == stack' = Append(stack, Call("BrowsePlaceholder", Top.node,
                                               Current, NextPlace, TRUE, l))
    <2>4. \/ Enter(all)
          \/ Enter(<<>>) /\ RequestFails
          \/ \E k \in 0 .. Len(all) : Enter(SubSeq(all, 1, k)) /\ RequestFails
      BY DEF BrowsePlaceholder, all
    <2> QED
      BY <2>1, <2>2, <2>3, <2>4
  <1> DEFINE f == Call("BrowsePlaceholder", Top.node, Current, NextPlace, TRUE, list)
  <1>5. /\ f.fun = "BrowsePlaceholder" /\ f.node = Top.node /\ f.def = Current
        /\ f.place = NextPlace /\ f.list = list
    BY DEF Call
  <1>6. Linked(Top, f) /\ Current.type \in DOMAIN m_typeMap
    <2>1. Current.rule \in Placeholders
      BY <1>0 DEF ChildToDo
    <2> QED
      BY <1>1, <1>5, <2>1, ChildLinked
  <1>7. ListOK(f, Clean')
    BY <1>3, <1>4, <1>5, <1>6 DEF ListOK
  <1>8. FrameOK(f, Clean', browsedNodes, met)
    <2>1. Top.node \in browsedNodes
      BY <1>2 DEF FrameOK
    <2>2. NextPlace \in Seq(Nat)
      BY <1>2, NextPlaceFacts
    <2> QED
      BY <1>4, <1>7, <2>1, <2>2, CallOK
  <1> HIDE DEF f
  <1>9. StackOK(Append(stack, f), Clean', browsedNodes, met)
    <2>1. StackOK(stack, Clean', browsedNodes, met)
      BY <1>2, <1>3, StackStays
    <2> QED
      BY <1>2, <1>6, <1>8, <2>1, PushOK DEF Top
  <1>10. Covers(stack, browsedNodes) => Covers(Append(stack, f), browsedNodes)
    BY <1>2, CoversPush
  <1>11. Append(stack, f) # <<>>
    <2>1. Len(Append(stack, f)) = Len(stack) + 1
      BY <1>2, AppendFacts
    <2> QED
      BY <1>2, <2>1
  <1>12. stack' = Append(stack, f)
    BY <1>4 DEF f
  <1> QED
    BY <1>0, <1>1, <1>2, <1>3, <1>9, <1>10, <1>11, <1>12, TransformStep

LEMMA InterfaceRequestFailsStep ==
    ASSUME Inv, InterfaceRequestFails
    PROVE  Inv'
  <1> USE DEF InterfaceRequestFails, ElementToDo, Running
  <1>1. /\ TypeInv /\ stack # <<>> /\ StackOK(stack, Clean, browsedNodes, met)
    BY TopFacts
  <1>2. ~Clean' /\ failures' \in Nat
    BY <1>1, CleanStays DEF TypeInv, RequestFails
  <1>3. StackOK(stack, Clean', browsedNodes, met)
    BY <1>1, <1>2, StackStays
  <1> QED
    BY <1>1, <1>2, <1>3, TransformStep

LEMMA ElementOfUnknownTypeStep ==
    ASSUME Inv, ElementOfUnknownType
    PROVE  Inv'
  <1> USE DEF ElementOfUnknownType, ElementToDo, Running, InLoop, Current
  <1>1. TypeInv /\ FrameOK(Top, Clean, browsedNodes, met)
    BY TopFacts
  <1>2. Clean' => Clean
    BY CleanSame
  <1>3. FrameOK(Top, Clean', browsedNodes, met)
    BY <1>1, <1>2, FrameStays
  <1>4. FrameOK(Advance(Top), Clean', browsedNodes, met)
    BY <1>3, AdvanceOK
  <1> QED
    BY <1>4, AdvanceTop

\* The current element is one of the instances.
LEMMA CurrentElement ==
    ASSUME NEW c, NEW b, NEW m, FrameOK(Top, c, b, m),
           Top.fun = "BrowsePlaceholder", Top.next <= Len(Top.list)
    PROVE  Current \in Instances(Top.node, Top.def)
  <1>1. Elems(Top.list) \subseteq Instances(Top.node, Top.def)
    BY DEF FrameOK, ListOK
  <1>2. Top.next \in DOMAIN Top.list
    BY SeqFacts DEF FrameOK, IsSeq
  <1> QED
    BY <1>1, <1>2 DEF Elems, Current

LEMMA ElementFoundStep ==
    ASSUME Inv, ElementFound
    PROVE  Inv'
  <1> USE DEF ElementFound
  <1>1. /\ pc = "transform" /\ exc = "none" /\ Top.fun = "BrowsePlaceholder"
        /\ Top.next <= Len(Top.list)
    BY DEF ElementToDo, Running, InLoop
  <1>2. /\ TypeInv /\ stack # <<>> /\ StackOK(stack, Clean, browsedNodes, met)
        /\ FrameOK(Top, Clean, browsedNodes, met)
        /\ Clean => Covers(stack, browsedNodes)
    BY <1>1, TopFacts
  <1> DEFINE def == TypeNode(TypeDefinition(Current))
  <1>3. def.type \in DOMAIN m_typeMap
    BY DEF KnownType, TypeNode
  <1>4. Current \in Instances(Top.node, Top.def)
    BY <1>1, <1>2, CurrentElement
  <1>5. \A f : (f.fun = "TransformToNodeIds" /\ f.node = Current /\ f.def = def
               /\ f.place = NextPlace)
                 => Linked(Top, f)
    <2> SUFFICES ASSUME NEW f, f.fun = "TransformToNodeIds", f.node = Current,
                        f.def = def, f.place = NextPlace
                 PROVE  Linked(Top, f)
      OBVIOUS
    <2>1. /\ Entry(f).node = Current /\ Entry(f).def = def /\ Entry(f).kind = "simple"
          /\ Entry(Top).node = Top.node /\ Entry(Top).def = Top.def
      BY EntryFields
    <2>2. ElementOf(Entry(Top), Entry(f))
      BY <1>4, <2>1 DEF ElementOf
    <2>3. Below(Entry(Top), Entry(f))
      BY <1>2, NextPlaceFacts
    <2> QED
      BY <1>1, <2>2, <2>3 DEF Linked, Current
  <1>6. /\ StackOK(stack', Clean', browsedNodes', met')
        /\ Clean' => Clean
        /\ Clean' => Covers(stack', browsedNodes')
        /\ stack' # <<>>
    <2>1. NextPlace \in Seq(Nat)
      BY <1>2, NextPlaceFacts
    <2> QED
      BY <1>2, <1>3, <1>5, <2>1, NewCall DEF Top
  <1> QED
    BY <1>1, <1>2, <1>6, TransformStep DEF Inv, TypeInv, TransformInv

\* A call returns to its caller.
LEMMA ReturnToCaller ==
    ASSUME Inv, Return, Len(stack) > 1
    PROVE  Inv'
  <1> USE DEF Return
  <1> DEFINE f == Top
             g == stack[Len(stack) - 1]
             h == Receive(g, f)
             t == Callers
  <1>0. Len(stack) # 1
    BY TopFacts, MoreThanOne
  <1>1. /\ pc = "transform" /\ exc = "none" /\ ~(f.next <= Len(f.list))
        /\ stack' = WithTop(t, h) /\ pc' = pc /\ node' = node /\ selected' = selected
        /\ pending' = pending
    BY <1>0, Zenon DEF InLoop
  <1>2. /\ TypeInv /\ IsSeq(stack) /\ Len(stack) \in Nat
        /\ StackOK(stack, Clean, browsedNodes, met)
        /\ FrameOK(f, Clean, browsedNodes, met)
        /\ Clean => Covers(stack, browsedNodes)
    BY <1>1, TopFacts
  <1>3. /\ StackOK(t, Clean, browsedNodes, met) /\ t # <<>>
        /\ Len(t) = Len(stack) - 1 /\ t[Len(t)] = g
        /\ FrameOK(g, Clean, browsedNodes, met)
        /\ Linked(g, f)
    BY <1>2, PopOK DEF Callers, Top
  <1>4. FrameOK(h, Clean, browsedNodes, met)
    BY <1>1, <1>2, <1>3, ReceiveOK
  <1>5. /\ SameCall(g, h)
        /\ h.entries = g.entries \cup f.entries \cup {Entry(f)}
    BY <1>3, ReceiveFields DEF SameCall, FrameOK
  <1>6. Clean' <=> Clean
    BY CleanSame
  <1>7. /\ IsSeq(t) /\ Len(t) \in Nat /\ Len(t) > 0
        /\ \A k \in 1 .. Len(t) : t[k] = stack[k]
    BY <1>2, <1>3, StackLen, PopFacts DEF Callers
  <1> HIDE DEF h, t
  <1>8. StackOK(WithTop(t, h), Clean, browsedNodes, met)
    BY <1>3, <1>4, <1>5, WithTopOK
  <1>9. /\ Len(stack') = Len(t)
        /\ \A k \in 1 .. (Len(t) - 1) : stack'[k] = t[k]
        /\ stack'[Len(t)] = h
    BY <1>1, <1>7, WithTopFacts
  <1>10. Covers(stack, browsedNodes) => Covers(stack', browsedNodes')
    <2> SUFFICES ASSUME Covers(stack, browsedNodes), NEW n \in browsedNodes
                 PROVE  \E k \in 1 .. Len(t) :
                            \/ FirstFor(Entry(stack'[k]), n)
                            \/ \E d \in stack'[k].entries : FirstFor(d, n)
      BY <1>9 DEF Covers
    <2>1. PICK k \in 1 .. Len(stack) : \/ FirstFor(Entry(stack[k]), n)
                                       \/ \E d \in stack[k].entries : FirstFor(d, n)
      BY DEF Covers
    <2>2. CASE k \in 1 .. (Len(t) - 1)
      BY <1>7, <1>9, <2>1, <2>2
    <2>3. CASE k = Len(t)
      <3>1. stack[k] = g
        BY <1>3, <2>3
      <3>2. FirstFor(Entry(g), n) => FirstFor(Entry(h), n)
        BY <1>5, EntryFields DEF FirstFor, SameCall
      <3> QED
        BY <1>5, <1>7, <1>9, <2>1, <2>3, <3>1, <3>2
    <2>4. CASE k = Len(stack)
      <3>1. \E d \in h.entries : FirstFor(d, n)
        BY <1>5, <2>1, <2>4 DEF Top
      <3> QED
        BY <1>7, <1>9, <3>1
    <2> QED
      BY <1>2, <1>3, <2>2, <2>3, <2>4
  <1>11. stack' # <<>>
    BY <1>7, <1>9
  <1> QED
    BY <1>1, <1>2, <1>6, <1>8, <1>10, <1>11, TransformStep DEF TypeInv, subscribing

\* The first call returns the tree.
LEMMA ReturnTree ==
    ASSUME Inv, Return, Len(stack) = 1
    PROVE  Inv'
  <1> USE DEF Return
  <1> DEFINE f == Top
             e == Entry(f)
  <1>1. /\ pc = "transform" /\ exc = "none" /\ ~(f.next <= Len(f.list))
        /\ stack' = <<>> /\ pc' = "subscribe" /\ node' = e
        /\ selected' = f.entries \cup {e} /\ pending' = <<e>>
    BY DEF InLoop
  <1>2. /\ TypeInv /\ stack # <<>>
        /\ StackOK(stack, Clean, browsedNodes, met)
        /\ FrameOK(f, Clean, browsedNodes, met)
        /\ Clean => Covers(stack, browsedNodes)
    BY <1>1, TopFacts
  <1>3. /\ Forest(f.entries \cup {e})
        /\ TreeOK(f.entries \cup {e}, Clean, browsedNodes)
        /\ OnlyTreesOf({e}, f.entries \cup {e})
        /\ WellFounded(f.entries \cup {e})
    BY <1>1, <1>2, TreesOK
  <1>4. IsRoot(f)
    BY <1>2 DEF StackOK, Top
  <1>5. /\ e.node = StartNode /\ e.def = TypeNode(StartType) /\ e.first
        /\ e.kind = "simple"
    BY <1>4, EntryFields DEF IsRoot
  <1>6. Clean => \A n \in browsedNodes : \E d \in f.entries \cup {e} : FirstFor(d, n)
    BY <1>2 DEF Covers, Top
  <1>7. Clean' <=> Clean
    BY CleanSame
  <1> HIDE DEF e
  <1>8. TypeInv'
    BY <1>1, <1>2 DEF TypeInv, Phases, external
  <1>9. TransformInv'
    <2>1. StackOK(<<>>, Clean', browsedNodes', met')
      BY EmptyOK
    <2>2. StackOK(stack, Clean, browsedNodes, met)'
      BY <1>1, <2>1, Unchanging
    <2> QED
      BY <1>1, <2>2 DEF TransformInv
  <1>10. TreeInv'
    <2>1. TreeOK(selected, Clean, browsedNodes)'
      BY <1>1, <1>3, <1>7, Unchanging
    <2>2. Forest(selected)' /\ OnlyTreesOf({node}, selected)' /\ WellFounded(selected)'
      BY <1>1, <1>3 DEF Forest, OnlyTreesOf, Closed, ChildEntries, WellFounded
    <2>3. /\ (node \in selected)'
          /\ (node.node = StartNode /\ node.def = TypeNode(StartType) /\ node.first)'
          /\ (node.kind = "simple")'
      BY <1>1, <1>5, Unchanging
    <2>4. (Clean => \A n \in browsedNodes : \E d \in selected : FirstFor(d, n))'
      BY <1>1, <1>6, <1>7 DEF FirstFor
    <2> QED
      BY <2>1, <2>2, <2>3, <2>4 DEF TreeInv
  <1>11. SubscribeInv'
    <2>1. visited' = {} /\ subscribed' = {}
      BY <1>1 DEF Inv, SubscribeInv
    <2>2. pending' \in Seq(selected')
      BY <1>1
    <2>3. node' \in Elems(pending)'
      BY <1>1 DEF Elems
    <2> QED
      BY <1>1, <2>1, <2>2, <2>3 DEF SubscribeInv
  <1> QED
    BY <1>8, <1>9, <1>10, <1>11 DEF Inv

LEMMA UnwindStep ==
    ASSUME Inv, Unwind
    PROVE  Inv'
  <1> USE DEF Unwind
  <1> DEFINE f == Top
             g == stack[Len(stack) - 1]
             t == Callers
  <1>1. /\ TypeInv /\ stack # <<>> /\ Len(stack) \in Nat
        /\ StackOK(stack, Clean, browsedNodes, met)
        /\ ~Clean
    BY TopFacts
  <1>2. ~Clean'
    BY <1>1, CleanSame
  <1>3. CASE Len(stack) = 1
    <2>1. StackOK(<<>>, Clean', browsedNodes, met)
      BY EmptyOK
    <2> QED
      BY <1>1, <1>2, <1>3, <2>1, TransformStep DEF TypeInv
  <1>4. CASE Len(stack) > 1
    <2>1. /\ StackOK(t, Clean, browsedNodes, met) /\ t # <<>>
          /\ t[Len(t)] = g
          /\ FrameOK(g, Clean, browsedNodes, met)
          /\ Linked(g, f)
      BY <1>1, <1>4, PopOK DEF Callers, Top
    <2>2. /\ exc' = Handle(g, f)
          /\ stack' = IF exc' = "none" THEN WithTop(t, Advance(g)) ELSE t
          /\ pc' = "transform"
      <3>1. Len(stack) # 1
        BY <1>1, <1>4, MoreThanOne
      <3> QED
        BY <3>1, Zenon
    <2>3. exc' \in {"none", "other", "invalidChild"}
      BY <1>1, <2>2 DEF Handle, HandleChild, TypeInv
    <2>4. exc' = "none" =>
             /\ g.fun = "TransformToNodeIds" =>
                   g.list[g.next].rule \notin {"Mandatory", "MandatoryPlaceholder"}
      BY <2>1, <2>2 DEF Handle, HandleChild, Linked
    <2>5. exc' = "none" => FrameOK(Advance(g), Clean, browsedNodes, met)
      <3>1. g.next <= Len(g.list)
        BY <2>1 DEF Linked
      <3> QED
        BY <1>1, <2>1, <2>4, <3>1, AdvanceOK
    <2>6. SameCall(g, Advance(g))
      BY <2>1, AdvanceFields DEF SameCall, FrameOK
    <2> HIDE DEF g, t
    <2>7. StackOK(stack', Clean, browsedNodes, met)
      BY <2>1, <2>2, <2>5, <2>6, WithTopOK
    <2>8. stack' # <<>>
      <3>1. exc' = "none" => Len(stack') = Len(t)
        BY <2>1, <2>2, WithTopFacts, StackLen
      <3> QED
        BY <2>1, <2>2, <3>1, StackLen
    <2>9. StackOK(stack', Clean', browsedNodes, met)
      BY <1>1, <1>2, <2>7, StackStays
    <2> QED
      BY <1>1, <1>2, <2>2, <2>3, <2>8, <2>9, TransformStep DEF TypeInv
  <1> QED
    BY <1>3, <1>4

-----------------------------------------------------------------------------
(* subscribeValues and what follows it. *)

\* The tree stays as it is.
LEMMA TreeStep ==
    ASSUME Inv,
           pc \in {"subscribe", "added"},
           pc' \in {"subscribe", "added", "terminated"},
           UNCHANGED <<external, transforming, node, selected>>
    PROVE  TypeInv' /\ TransformInv' /\ TreeInv'
  <1>0. UNCHANGED <<stack, exc, browsedNodes, failures, met>>
    BY DEF transforming
  <1>1. Clean' <=> Clean
    BY <1>0, CleanSame
  <1>2. TypeInv'
    BY <1>0 DEF Inv, TypeInv, Phases, external, HasTree
  <1>3. TransformInv'
    <2>1. StackOK(stack', Clean', browsedNodes', met')
      BY <1>0, <1>1, StackStays DEF Inv, TransformInv
    <2>2. StackOK(stack, Clean, browsedNodes, met)'
      BY <2>1, Unchanging
    <2>3. exc' # "none" => ~Clean'
      BY <1>0, <1>1 DEF Inv, TransformInv
    <2> QED
      BY <2>2, <2>3 DEF TransformInv
  <1>4. TreeInv'
    <2>1. TreeOK(selected', Clean', browsedNodes')
      BY <1>0, <1>1 DEF Inv, TreeInv, TreeOK
    <2>2. TreeOK(selected, Clean, browsedNodes)'
      BY <2>1, Unchanging
    <2>3. /\ Forest(selected)' /\ OnlyTreesOf({node}, selected)'
          /\ WellFounded(selected)' /\ (node \in selected)'
      BY DEF Inv, TreeInv, HasTree, Forest, OnlyTreesOf, Closed, ChildEntries,
             WellFounded
    <2>4. /\ (node.node = StartNode /\ node.def = TypeNode(StartType) /\ node.first)'
          /\ (node.kind = "simple")'
      BY Unchanging DEF Inv, TreeInv, HasTree
    <2>5. (Clean => \A n \in browsedNodes : \E d \in selected : FirstFor(d, n))'
      BY <1>0, <1>1 DEF Inv, TreeInv, HasTree, FirstFor
    <2> QED
      BY <2>2, <2>3, <2>4, <2>5 DEF TreeInv
  <1> QED
    BY <1>2, <1>3, <1>4

\* A node of the tree is visited.
LEMMA VisitStep ==
    ASSUME Inv, NEW t \in selected, Visit(t),
           subscribed \subseteq subscribed', refused \subseteq refused',
           isMandatoryOrOptionalVariable(t) =>
               t.node \in refused' \cup {i.node : i \in subscribed'},
           \A i, j \in subscribed' : i.node = j.node => i = j,
           \A i \in subscribed' : \E x \in selected :
               isMandatoryOrOptionalVariable(x) /\ x.node = i.node /\ x.place = i.place
    PROVE  Inv'
  <1> USE DEF Visit
  <1>1. TypeInv' /\ TransformInv' /\ TreeInv'
    BY TreeStep
  <1>2. /\ pending \in Seq(selected) /\ t.children \in Seq(selected)
        /\ visited \subseteq selected
        /\ node \in visited \cup Elems(pending)
        /\ \A e \in visited :
              /\ ChildEntries(e) \subseteq visited \cup Elems(pending)
              /\ isMandatoryOrOptionalVariable(e) =>
                    e.node \in refused \cup {i.node : i \in subscribed}
    BY DEF Inv, SubscribeInv, TreeInv, Forest, HasTree
  <1>3. Elems(pending) = {t} \cup Elems(Tail(pending)) /\ Tail(pending) \in Seq(selected)
    BY <1>2, HeadTailElems
  <1>4. /\ pending' \in Seq(selected)
        /\ Elems(pending') = ChildEntries(t) \cup Elems(Tail(pending))
    <2>0. pending' = t.children \o Tail(pending)
      OBVIOUS
    <2>1. ChildEntries(t) = Elems(t.children)
      BY DEF ChildEntries, Elems
    <2> HIDE DEF Visit
    <2>2. /\ t.children \o Tail(pending) \in Seq(selected)
          /\ Elems(t.children \o Tail(pending))
                = Elems(t.children) \cup Elems(Tail(pending))
      <3>1. t.children \in Seq(selected) /\ Tail(pending) \in Seq(selected)
        BY <1>2, <1>3
      <3>2. \A a, z \in Seq(selected) :
               a \o z \in Seq(selected) /\ Elems(a \o z) = Elems(a) \cup Elems(z)
        BY ConcatElems
      <3> QED
        BY <3>1, <3>2, Zenon
    <2> QED
      BY <2>0, <2>1, <2>2, Zenon
  <1>5. visited' \subseteq selected /\ node \in visited' \cup Elems(pending')
    BY <1>2, <1>3, <1>4
  <1>6. \A e \in visited' :
           /\ ChildEntries(e) \subseteq visited' \cup Elems(pending')
           /\ isMandatoryOrOptionalVariable(e) =>
                 e.node \in refused' \cup {i.node : i \in subscribed'}
    BY <1>2, <1>3, <1>4
  <1>7. SubscribeInv'
    BY <1>4, <1>5, <1>6 DEF SubscribeInv, HasTree, Elems, ChildEntries,
                            isMandatoryOrOptionalVariable
  <1> QED
    BY <1>1, <1>7 DEF Inv

LEMMA NothingToSubscribeStep ==
    ASSUME Inv, NothingToSubscribe
    PROVE  Inv'
  <1>1. PICK t \in selected :
           /\ Visit(t)
           /\ isMandatoryOrOptionalVariable(t) => HasItem(t.node)
           /\ UNCHANGED <<subscribed, refused>>
    BY DEF NothingToSubscribe
  <1>2. isMandatoryOrOptionalVariable(t) => t.node \in {i.node : i \in subscribed}
    BY <1>1 DEF HasItem
  <1> QED
    BY <1>1, <1>2, VisitStep DEF Inv, SubscribeInv

LEMMA subscribeValueStep ==
    ASSUME Inv, subscribeValue
    PROVE  Inv'
  <1>1. PICK t \in selected :
           /\ Visit(t)
           /\ isMandatoryOrOptionalVariable(t) /\ ~HasItem(t.node)
           /\ \/ /\ subscribed' =
                        subscribed \cup {[node |-> t.node, place |-> t.place]}
                 /\ UNCHANGED refused
              \/ /\ refused' = refused \cup {t.node}
                 /\ UNCHANGED subscribed
    BY DEF subscribeValue
  <1>2. /\ \A i, j \in subscribed : i.node = j.node => i = j
        /\ \A i \in subscribed : \E x \in selected :
              isMandatoryOrOptionalVariable(x) /\ x.node = i.node /\ x.place = i.place
    BY DEF Inv, SubscribeInv
  <1>3. CASE /\ subscribed' = subscribed \cup {[node |-> t.node, place |-> t.place]}
             /\ UNCHANGED refused
    <2> DEFINE item == [node |-> t.node, place |-> t.place]
    <2>1. t.node \in {i.node : i \in subscribed'}
      <3>1. item \in subscribed' /\ item.node = t.node
        BY <1>3
      <3> QED
        BY <3>1
    <2>2. \A i, j \in subscribed' : i.node = j.node => i = j
      BY <1>1, <1>2, <1>3 DEF HasItem
    <2>3. \A i \in subscribed' : \E x \in selected :
             isMandatoryOrOptionalVariable(x) /\ x.node = i.node /\ x.place = i.place
      BY <1>1, <1>2, <1>3
    <2> QED
      BY <1>1, <1>3, <2>1, <2>2, <2>3, VisitStep
  <1>4. CASE refused' = refused \cup {t.node} /\ UNCHANGED subscribed
    BY <1>1, <1>2, <1>4, VisitStep
  <1> QED
    BY <1>1, <1>3, <1>4

\* The steps after which only pc or a value differs.
LEMMA LaterStep ==
    ASSUME Inv, Subscribed \/ dataChange \/ PublishTerminates
    PROVE  Inv'
  <1>1. /\ pc \in {"subscribe", "added"} /\ pc' \in {"subscribe", "added", "terminated"}
        /\ pc' = "added" => pc = "added" \/ pending = <<>>
        /\ UNCHANGED <<external, transforming, node, selected, subscribing>>
    BY DEF Subscribed, dataChange, PublishTerminates
  <1>2. TypeInv' /\ TransformInv' /\ TreeInv'
    BY <1>1, TreeStep
  <1>3. UNCHANGED <<pending, subscribed, visited, refused>>
    BY <1>1 DEF subscribing
  <1>4. SubscribeInv'
    BY <1>1, <1>3 DEF Inv, SubscribeInv, HasTree, Elems, ChildEntries,
                      isMandatoryOrOptionalVariable
  <1> QED
    BY <1>2, <1>4 DEF Inv

-----------------------------------------------------------------------------
(* The theorems. *)

LEMMA InitInv ==
    ASSUME Init
    PROVE  Inv
  <1> USE DEF Init
  <1>1. TypeInv
    BY DEF TypeInv, Phases
  <1>2. TransformInv
    BY EmptyOK DEF TransformInv
  <1>3. TreeInv
    BY DEF TreeInv, Forest, TreeOK, HasTree, WellFounded
  <1>4. SubscribeInv
    BY DEF SubscribeInv, HasTree
  <1> QED
    BY <1>1, <1>2, <1>3, <1>4 DEF Inv

LEMMA NextInv ==
    ASSUME Inv, [Next]_vars
    PROVE  Inv'
  <1>1. CASE addDataSet
    BY <1>1, addDataSetStep
  <1>2. CASE SkipChild
    BY <1>2, SkipChildStep
  <1>3. CASE ChildMissing
    BY <1>3, ChildMissingStep
  <1>4. CASE ChildFound
    BY <1>4, ChildFoundStep
  <1>5. CASE BrowsePlaceholder
    BY <1>5, BrowsePlaceholderStep
  <1>6. CASE InterfaceRequestFails
    BY <1>6, InterfaceRequestFailsStep
  <1>7. CASE InterfaceMissing
    BY <1>7, UnansweredStep DEF InterfaceMissing, ElementToDo, Running
  <1>8. CASE ElementOfUnknownType
    BY <1>8, ElementOfUnknownTypeStep
  <1>9. CASE ElementFound
    BY <1>9, ElementFoundStep
  <1>10. CASE Return
    BY <1>10, ReturnToCaller, ReturnTree DEF Return
  <1>11. CASE Unwind
    BY <1>11, UnwindStep
  <1>12. CASE NothingToSubscribe
    BY <1>12, NothingToSubscribeStep
  <1>13. CASE subscribeValue
    BY <1>13, subscribeValueStep
  <1>14. CASE Subscribed \/ dataChange \/ PublishTerminates
    BY <1>14, LaterStep
  <1>15. CASE UNCHANGED vars
    <2>1. UNCHANGED external /\ failures' = failures /\ met' = met
      BY <1>15 DEF vars, external
    <2>2. Clean' <=> Clean
      BY <2>1, CleanSame
    <2>3. TypeInv'
      BY <1>15 DEF Inv, TypeInv, vars, HasTree
    <2>4. TransformInv'
      <3>1. StackOK(stack', Clean', browsedNodes', met')
        BY <1>15, <2>2, StackStays DEF Inv, TransformInv, vars
      <3>2. StackOK(stack, Clean, browsedNodes, met)'
        BY <2>1, <3>1, Unchanging
      <3> QED
        BY <1>15, <2>2, <3>2 DEF Inv, TransformInv, vars, Covers, FirstFor, Entry
    <2>5. TreeInv'
      <3>1. TreeOK(selected', Clean', browsedNodes')
        BY <1>15, <2>2 DEF Inv, TreeInv, TreeOK, vars
      <3>2. TreeOK(selected, Clean, browsedNodes)'
        BY <2>1, <3>1, Unchanging
      <3>3. TypeNode(StartType)' = TypeNode(StartType)
        BY <2>1, Unchanging
      <3> QED
        BY <1>15, <2>2, <3>2, <3>3
           DEF Inv, TreeInv, vars, HasTree, Forest, OnlyTreesOf, Closed,
               ChildEntries, FirstFor, WellFounded
    <2>6. SubscribeInv'
      BY <1>15 DEF Inv, SubscribeInv, vars, HasTree, Elems, ChildEntries,
                   isMandatoryOrOptionalVariable
    <2> QED
      BY <2>3, <2>4, <2>5, <2>6 DEF Inv
  <1>16. CASE TranslateUnanswered \/ SuperTypeUnanswered
    BY <1>16, UnansweredStep
       DEF TranslateUnanswered, SuperTypeUnanswered, ChildToDo, Running
  <1> QED
    BY <1>1, <1>2, <1>3, <1>4, <1>5, <1>6, <1>7, <1>8, <1>9, <1>10, <1>11,
       <1>12, <1>13, <1>14, <1>15, <1>16 DEF Next

\* The invariant of TransformToNodeIds and subscribeValues holds in every state.
THEOREM AlwaysInv == Spec => []Inv
  BY InitInv, NextInv, PTL DEF Spec

\* An accepted machine's tree is genuine and has all mandatory children, whatever
\* requests fail while it is selected.
THEOREM AcceptedAlwaysComplete == Spec => []AcceptedIsComplete
  <1>1. Inv => AcceptedIsComplete
    BY DEF Inv, TreeInv, HasTree, TreeOK, AcceptedIsComplete
  <1> QED
    BY <1>1, AlwaysInv, PTL

\* A complete machine on a server that answers is not skipped, and its tree has
\* all that the server offers of the types.
THEOREM CompleteAlwaysSelected == Spec => []CompleteIsSelected
  <1>1. Inv => CompleteIsSelected
    BY DEF Inv, TransformInv, TreeInv, HasTree, TreeOK, CompleteIsSelected, FirstFor
  <1> QED
    BY <1>1, AlwaysInv, PTL

\* Every variable of the tree is monitored, and none twice, in whatever places it
\* occurs: the walk of subscribeValues reaches the whole tree.
THEOREM VariablesAlwaysMonitoredOnce == Spec => []VariablesMonitoredOnce
  <1>1. ASSUME Inv PROVE VariablesMonitoredOnce
    <2>1. ASSUME pc = "added" PROVE selected \subseteq visited
      <3>1. pending = <<>> /\ Elems(pending) = {}
        BY <1>1, <2>1 DEF Inv, SubscribeInv, Elems
      <3>2. node \in visited /\ Closed(visited)
        BY <1>1, <2>1, <3>1 DEF Inv, SubscribeInv, HasTree, Closed
      <3> QED
        BY <1>1, <2>1, <3>2 DEF Inv, TreeInv, HasTree, OnlyTreesOf
    <2> QED
      BY <1>1, <2>1 DEF Inv, SubscribeInv, VariablesMonitoredOnce
  <1> QED
    BY <1>1, AlwaysInv, PTL

\* The history variable selected is the set of the nodes of the tree: it has the
\* root and with each node its children, and any set that has these contains it.
SelectedIsTree ==
    pc \in {"subscribe", "added"} =>
        /\ node \in selected
        /\ Closed(selected)
        /\ \A U : node \in U /\ Closed(U) => selected \subseteq U

\* What the properties above say of selected, they say of the tree that
\* TransformToNodeIds returned.
THEOREM SelectedAlwaysTree == Spec => []SelectedIsTree
  <1>1. ASSUME Inv PROVE SelectedIsTree
    <2>1. Closed(selected)
      BY <1>1, SeqFacts DEF Inv, TreeInv, Forest, Closed, ChildEntries, Elems
    <2> QED
      BY <1>1, <2>1 DEF Inv, TreeInv, HasTree, OnlyTreesOf, SelectedIsTree
  <1> QED
    BY <1>1, AlwaysInv, PTL
-----------------------------------------------------------------------------
(* getJson.  The tree is well-founded, so ModelToJson is what its equation   *)
(* says, and one can argue from the JSON of the children to that of a node.  *)

\* The right-hand side of the equation of ModelToJson.
NodeToJson(t, json) ==
    CASE t.kind = "simple" /\ t.def.variable -> VariableToJson(t, json)
      [] t.kind = "simple" /\ ~t.def.variable -> Children(t, json)
      [] t.kind = "placeholder" -> Elements(t, json)

\* It looks at the JSON of the children only.
LEMMA NodeToJsonLocal ==
    ASSUME NEW t, NEW j1, NEW j2, \A d \in ChildEntries(t) : j1[d] = j2[d]
    PROVE  NodeToJson(t, j1) = NodeToJson(t, j2)
  <1>1. \A k \in DOMAIN t.children : j1[t.children[k]] = j2[t.children[k]]
    BY DEF ChildEntries
  <1>2. Children(t, j1) = Children(t, j2)
    <2>1. [k \in DOMAIN t.children |-> j1[t.children[k]]]
           = [k \in DOMAIN t.children |-> j2[t.children[k]]]
      BY <1>1
    <2> QED
      BY <2>1, Zenon DEF Children
  <1>3. VariableToJson(t, j1) = VariableToJson(t, j2)
    BY <1>2 DEF VariableToJson
  <1>4. Elements(t, j1) = Elements(t, j2)
    <2>1. [k \in DOMAIN t.children |-> ElementToJson(t.children[k], j1[t.children[k]])]
           = [k \in DOMAIN t.children |-> ElementToJson(t.children[k], j2[t.children[k]])]
      BY <1>1
    <2> QED
      BY <2>1, Zenon DEF Elements
  <1> QED
    BY <1>2, <1>3, <1>4 DEF NodeToJson

\* h solves the equation on a part D of the forest.
Solves(D, h) == Closed(D) /\ h = [t \in D |-> NodeToJson(t, h)]

LEMMA SolutionsAgree ==
    ASSUME NEW S, WellFounded(S), NEW D, NEW h, NEW E, NEW k,
           Solves(D, h), Solves(E, k)
    PROVE  \A x \in S : x \in D /\ x \in E => h[x] = k[x]
  <1> DEFINE U == {x \in S : x \in D /\ x \in E => h[x] = k[x]}
  <1>1. ASSUME NEW e \in S, ChildEntries(e) \subseteq U PROVE e \in U
    <2> SUFFICES ASSUME e \in D, e \in E PROVE h[e] = k[e]
      OBVIOUS
    <2>1. ChildEntries(e) \subseteq D /\ ChildEntries(e) \subseteq E
      BY DEF Solves, Closed
    <2>2. \A d \in ChildEntries(e) : h[d] = k[d]
      BY <1>1, <2>1
    <2>3. NodeToJson(e, h) = NodeToJson(e, k)
      BY <2>2, NodeToJsonLocal
    <2>4. h[e] = NodeToJson(e, h) /\ k[e] = NodeToJson(e, k)
      BY DEF Solves
    <2> QED
      BY <2>3, <2>4
  <1>2. S \subseteq U
    BY <1>1 DEF WellFounded
  <1> QED
    BY <1>2

LEMMA SolutionExists ==
    ASSUME NEW S, WellFounded(S), Closed(S)
    PROVE  \E h : h = [t \in S |-> NodeToJson(t, h)]
  <1> DEFINE U == {x \in S : \E D, h : x \in D /\ D \subseteq S /\ Solves(D, h)}
             V(x) == CHOOSE v : \E D, h :
                        x \in D /\ D \subseteq S /\ Solves(D, h) /\ v = h[x]
             G == [x \in U |-> V(x)]
  <1>1. ASSUME NEW D, NEW h, D \subseteq S, Solves(D, h), NEW x \in D
        PROVE  x \in U /\ G[x] = h[x]
    <2>1. x \in U
      BY <1>1
    <2>2. \E v : \E E, k : x \in E /\ E \subseteq S /\ Solves(E, k) /\ v = k[x]
      BY <1>1
    <2>3. PICK E, k : x \in E /\ E \subseteq S /\ Solves(E, k) /\ V(x) = k[x]
      BY <2>2
    <2>4. h[x] = k[x]
      BY <1>1, <2>3, SolutionsAgree
    <2> QED
      BY <2>1, <2>3, <2>4
  <1>2. U \subseteq S
    OBVIOUS
  <1>3. ASSUME NEW x \in U
        PROVE  ChildEntries(x) \subseteq U /\ G[x] = NodeToJson(x, G)
    <2>1. PICK D, h : x \in D /\ D \subseteq S /\ Solves(D, h)
      OBVIOUS
    <2>2. ChildEntries(x) \subseteq D
      BY <2>1 DEF Solves, Closed
    <2>3. \A d \in D : d \in U /\ G[d] = h[d]
      <3> HIDE DEF U, G, V
      <3> QED
        BY <1>1, <2>1
    <2>4. NodeToJson(x, G) = NodeToJson(x, h)
      BY <2>2, <2>3, NodeToJsonLocal
    <2>5. h[x] = NodeToJson(x, h)
      BY <2>1 DEF Solves
    <2> QED
      BY <2>1, <2>2, <2>3, <2>4, <2>5
  <1>4. DOMAIN G = U /\ G = [x \in U |-> G[x]]
    OBVIOUS
  <1> HIDE DEF G, V
  <1>5. G = [x \in U |-> NodeToJson(x, G)] /\ Closed(U)
    BY <1>3, <1>4 DEF Closed
  <1>6. ASSUME NEW e \in S, ChildEntries(e) \subseteq U PROVE e \in U
    <2> DEFINE D == U \cup {e}
               h == [t \in D |-> NodeToJson(t, G)]
    <2>1. \A t \in D : ChildEntries(t) \subseteq U
      BY <1>3, <1>6
    <2>2. \A t \in U : h[t] = G[t]
      BY <1>3
    <2>3. \A t \in D : NodeToJson(t, h) = NodeToJson(t, G)
      BY <2>1, <2>2, NodeToJsonLocal
    <2>4. h = [t \in D |-> NodeToJson(t, h)]
      <3>1. DOMAIN h = D /\ \A t \in D : h[t] = NodeToJson(t, G)
        OBVIOUS
      <3>2. h = [t \in D |-> h[t]]
        OBVIOUS
      <3> HIDE DEF h
      <3> QED
        BY <2>3, <3>1, <3>2
    <2> HIDE DEF h
    <2>5. Solves(D, h)
      BY <2>1, <2>4 DEF Solves, Closed
    <2>6. D \subseteq S /\ e \in D
      BY <1>2
    <2> HIDE DEF D
    <2> QED
      BY <2>5, <2>6
  <1>7. S \subseteq U
    <2> HIDE DEF U
    <2> QED
      BY <1>6 DEF WellFounded
  <1>8. U = S
    BY <1>2, <1>7
  <1> QED
    BY <1>5, <1>8

\* ModelToJson is a solution of its equation.
LEMMA ModelToJsonFacts ==
    ASSUME WellFounded(selected), Closed(selected)
    PROVE  \A t \in selected : ModelToJson[t] = NodeToJson(t, ModelToJson)
  <1>1. \E h : h = [t \in selected |-> NodeToJson(t, h)]
    BY SolutionExists
  <1>2. ModelToJson = CHOOSE h : h = [t \in selected |-> NodeToJson(t, h)]
    BY DEF ModelToJson, NodeToJson
  <1>3. ModelToJson = [t \in selected |-> NodeToJson(t, ModelToJson)]
    BY <1>1, <1>2
  <1> QED
    BY <1>3
\* A JSON value in which nothing was thrown.
JsonOK(json) == \A leaf \in json : IsSeq(leaf.keys) /\ leaf.kind # "throw"

\* The node is a variable whose JSON is its value alone.
Bare(t) == t.kind = "simple" /\ t.def.variable /\ t.children = <<>>

LEMMA LeafOK ==
    ASSUME NEW kind, NEW v, kind # "throw"
    PROVE  JsonOK(Leaf(kind, v)) /\ JsonOK(Null)
  BY DEF JsonOK, Leaf, Null, IsSeq, Elems

LEMMA UnderOK ==
    ASSUME NEW key, NEW json, JsonOK(json)
    PROVE  JsonOK(Under(key, json)) /\ ~IsPrimitive(Under(key, json))
  <1> SUFFICES ASSUME NEW leaf \in Under(key, json)
               PROVE  IsSeq(leaf.keys) /\ leaf.kind # "throw" /\ leaf.keys # <<>>
    BY DEF JsonOK, IsPrimitive
  <1>1. PICK l \in json : leaf = [keys |-> <<key>> \o l.keys, kind |-> l.kind,
                                  value |-> l.value]
    BY DEF Under
  <1>2. IsSeq(l.keys) /\ l.kind # "throw"
    BY DEF JsonOK
  <1> DEFINE S == {key} \cup Elems(l.keys)
  <1>3. l.keys \in Seq(S) /\ <<key>> \in Seq(S) /\ Len(<<key>>) = 1
    BY <1>2, SeqLarger DEF IsSeq
  <1>4. <<key>> \o l.keys \in Seq(S) /\ Len(<<key>> \o l.keys) = 1 + Len(l.keys)
    BY <1>3, ConcatProperties
  <1>5. IsSeq(<<key>> \o l.keys) /\ Len(l.keys) \in Nat
    BY <1>3, <1>4, SeqFacts
  <1>6. <<key>> \o l.keys # <<>>
    BY <1>4, <1>5
  <1> QED
    BY <1>1, <1>2, <1>5, <1>6

LEMMA UnionOK ==
    ASSUME NEW J, \A json \in J : JsonOK(json) /\ ~IsPrimitive(json)
    PROVE  JsonOK(UNION J) /\ ~IsPrimitive(UNION J)
  BY DEF JsonOK, IsPrimitive

LEMMA ObjectOK ==
    ASSUME NEW t, NEW fields, \A k \in DOMAIN t.children : JsonOK(fields[k])
    PROVE  JsonOK(Object(t, fields)) /\ ~IsPrimitive(Object(t, fields))
  <1> DEFINE Kept(k) == {leaf \in fields[k] : leaf.kind = "throw"
                                              \/ ~Replaced(t, k, fields)}
             Field(k) == Under(Key(t, k), Kept(k))
  <1>1. ASSUME NEW k \in Written(t)
        PROVE  JsonOK(Field(k)) /\ ~IsPrimitive(Field(k))
    <2>1. k \in DOMAIN t.children
      BY DEF Written
    <2>2. JsonOK(Kept(k))
      BY <2>1 DEF JsonOK
    <2> HIDE DEF Kept
    <2> QED
      BY <2>2, UnderOK
  <1>2. Object(t, fields) = UNION {Field(k) : k \in Written(t)}
    BY DEF Object
  <1> HIDE DEF Field
  <1>3. \A j \in {Field(k) : k \in Written(t)} : JsonOK(j) /\ ~IsPrimitive(j)
    BY <1>1
  <1> QED
    BY <1>2, <1>3, UnionOK

\* The JSON of a node, if that of its children is in order and no element of a
\* placeholder is a value alone.
LEMMA NodeToJsonOK ==
    ASSUME NEW t, NEW json, t.kind \in {"simple", "placeholder"},
           \A d \in ChildEntries(t) : JsonOK(json[d]) /\ (IsPrimitive(json[d]) => Bare(d)),
           t.kind = "placeholder" => \A d \in ChildEntries(t) : ~Bare(d)
    PROVE  /\ JsonOK(NodeToJson(t, json))
           /\ IsPrimitive(NodeToJson(t, json)) => Bare(t)
  <1>1. JsonOK(Children(t, json)) /\ ~IsPrimitive(Children(t, json))
    <2> DEFINE fields == [k \in DOMAIN t.children |-> json[t.children[k]]]
    <2>1. \A k \in DOMAIN t.children : JsonOK(fields[k])
      BY DEF ChildEntries
    <2>2. Children(t, json) = Object(t, fields)
      BY DEF Children
    <2> HIDE DEF fields
    <2> QED
      BY <2>1, <2>2, ObjectOK
  <1>2. CASE t.kind = "simple" /\ t.def.variable
    <2>0. NodeToJson(t, json) = VariableToJson(t, json)
      BY <1>2 DEF NodeToJson
    <2>1. JsonOK(getValue(t))
      BY LeafOK DEF getValue
    <2>2. CASE t.children = <<>>
      BY <1>2, <2>0, <2>1, <2>2 DEF VariableToJson, Bare
    <2>3. CASE t.children # <<>>
      <3>1. JsonOK(ValueField(t)) /\ ~IsPrimitive(ValueField(t))
        BY <2>1, LeafOK, UnderOK DEF ValueField
      <3>2. /\ JsonOK(Under("properties", Children(t, json)))
            /\ ~IsPrimitive(Under("properties", Children(t, json)))
        BY <1>1, UnderOK
      <3> QED
        BY <2>0, <2>3, <3>1, <3>2 DEF VariableToJson, JsonOK, IsPrimitive
    <2> QED
      BY <2>2, <2>3
  <1>3. CASE t.kind = "simple" /\ ~t.def.variable
    <2>0. NodeToJson(t, json) = Children(t, json)
      BY <1>3 DEF NodeToJson
    <2> QED
      BY <1>1, <2>0
  <1>4. CASE t.kind = "placeholder"
    <2> DEFINE El(k) == ElementToJson(t.children[k], json[t.children[k]])
               fields == [k \in DOMAIN t.children |-> El(k)]
    <2>0. NodeToJson(t, json) = Object(t, fields)
      BY <1>4 DEF NodeToJson, Elements
    <2>1. ASSUME NEW k \in DOMAIN t.children PROVE JsonOK(fields[k])
      <3> DEFINE d == t.children[k]
                 type == Under("$TypeDefinition", Leaf("type", d.def.type))
                 kept == {leaf \in json[d] : leaf.kind = "throw"
                                              \/ leaf.keys[1] # "$TypeDefinition"}
      <3>1. d \in ChildEntries(t)
        BY DEF ChildEntries
      <3>2. JsonOK(json[d]) /\ ~IsPrimitive(json[d])
        BY <1>4, <3>1
      <3>3. JsonOK(type)
        BY LeafOK, UnderOK
      <3>4. El(k) = kept \cup type
        BY <3>2 DEF ElementToJson
      <3> HIDE DEF type
      <3>5. JsonOK(kept \cup type)
        BY <3>2, <3>3 DEF JsonOK
      <3> QED
        BY <3>4, <3>5
    <2> HIDE DEF fields
    <2> QED
      BY <2>0, <2>1, ObjectOK
  <1> QED
    BY <1>2, <1>3, <1>4

\* getJson throws only because of an element that is a value alone.
LEMMA ThrowsOnlyForBareElements ==
    ASSUME Inv, pc = "added", Throws(getJson)
    PROVE  \E t \in selected : Bare(t) /\ t.def = TypeNode(t.def.type)
  <1> SUFFICES ASSUME \A t \in selected : t.def = TypeNode(t.def.type) => ~Bare(t)
               PROVE  FALSE
    OBVIOUS
  <1>1. /\ Forest(selected) /\ WellFounded(selected) /\ node \in selected
        /\ \A e \in selected : Genuine(e)
    BY DEF Inv, TreeInv, HasTree, TreeOK
  <1>2. Closed(selected)
    BY <1>1, SeqFacts DEF Forest, Closed, ChildEntries, Elems
  <1>3. \A t \in selected : ModelToJson[t] = NodeToJson(t, ModelToJson)
    BY <1>1, <1>2, ModelToJsonFacts
  <1> DEFINE U == {t \in selected : /\ JsonOK(ModelToJson[t])
                                    /\ IsPrimitive(ModelToJson[t]) => Bare(t)}
  <1>4. ASSUME NEW e \in selected, ChildEntries(e) \subseteq U PROVE e \in U
    <2>1. e.kind = "placeholder" => \A d \in ChildEntries(e) : ~Bare(d)
      <3> SUFFICES ASSUME e.kind = "placeholder", NEW d \in ChildEntries(e)
                   PROVE  ~Bare(d)
        OBVIOUS
      <3>1. d.def = TypeNode(TypeDefinition(d.node))
        <4>1. Genuine(e) /\ e.kind # "simple"
          BY <1>1
        <4>2. ElementOf(e, d)
          BY <4>1 DEF Genuine
        <4> QED
          BY <4>2 DEF ElementOf
      <3>2. d.def.type = TypeDefinition(d.node)
        BY <3>1, TypeNodeFields
      <3>3. d \in selected
        BY <1>2 DEF Closed
      <3> QED
        BY <3>1, <3>2, <3>3
    <2>2. e.kind \in {"simple", "placeholder"}
      BY <1>1 DEF Forest
    <2>3. \A d \in ChildEntries(e) : /\ JsonOK(ModelToJson[d])
                                     /\ IsPrimitive(ModelToJson[d]) => Bare(d)
      BY <1>4
    <2>4. /\ JsonOK(NodeToJson(e, ModelToJson))
          /\ IsPrimitive(NodeToJson(e, ModelToJson)) => Bare(e)
      BY <2>1, <2>2, <2>3, NodeToJsonOK
    <2> QED
      BY <1>3, <2>4
  <1>5. selected \subseteq U
    <2> HIDE DEF U
    <2> QED
      BY <1>1, <1>4 DEF WellFounded
  <1>6. JsonOK(getJson)
    BY <1>1, <1>5 DEF getJson
  <1> QED
    BY <1>6 DEF Throws, JsonOK

\* A placeholder that is browsed was met as a child of a node's type.
LEMMA PlaceholderMet ==
    ASSUME Inv, ElementToDo, NoInterface(Current)
    PROVE  \E p \in met : \E c \in ChildrenOf(p[2]) :
              c.rule \in Placeholders /\ \E n \in Instances(p[1], c) : NoInterface(n)
  <1>1. /\ pc = "transform" /\ Top.fun = "BrowsePlaceholder"
        /\ Top.next <= Len(Top.list) /\ NoInterface(Current)
    BY DEF ElementToDo, Running, InLoop
  <1>2. /\ TypeInv /\ stack # <<>> /\ Len(stack) \in Nat /\ Len(stack) > 0
        /\ StackOK(stack, Clean, browsedNodes, met)
        /\ FrameOK(Top, Clean, browsedNodes, met)
    BY <1>1, TopFacts
  <1> DEFINE g == stack[Len(stack) - 1]
  <1>3. Len(stack) > 1
    <2>1. Len(stack) # 1
      BY <1>1, <1>2 DEF StackOK, IsRoot, Top
    <2> QED
      BY <1>2, <2>1, NotOne
  <1>4. FrameOK(g, Clean, browsedNodes, met) /\ Linked(g, Top)
    BY <1>2, <1>3, PopOK DEF Top
  <1> HIDE DEF g
  <1>5. /\ Entry(Top).kind = "placeholder" /\ Entry(Top).node = Top.node
        /\ Entry(Top).def = Top.def /\ Entry(g).node = g.node /\ Entry(g).def = g.def
    BY <1>1, EntryFields
  <1>6. /\ g.fun = "TransformToNodeIds" /\ g.next <= Len(g.list)
        /\ ChildOf(Entry(g), Entry(Top))
    BY <1>4, <1>5 DEF Linked, ElementOf
  <1>7. /\ Top.def \in ChildrenOf(g.def.type) /\ Top.def.rule \in Placeholders
        /\ Top.node = g.node
    BY <1>5, <1>6 DEF ChildOf
  <1>8. <<g.node, g.def.type>> \in met
    BY <1>2, <1>4, <1>6, CurrentChild
  <1>9. Current \in Instances(Top.node, Top.def)
    BY <1>1, <1>2, CurrentElement
  <1> DEFINE p == <<g.node, g.def.type>>
  <1>10. p \in met /\ p[1] = Top.node /\ Top.def \in ChildrenOf(p[2])
    BY <1>7, <1>8
  <1> QED
    BY <1>1, <1>7, <1>9, <1>10

\* A data set ends the process in the three known ways only, whatever the types,
\* the server, the requests that fail and the values that arrived.
THEOREM OnlyKnownTerminationsHappen == Spec => []OnlyKnownTerminations
  <1>1. Init => OnlyKnownTerminations
    BY DEF Init, OnlyKnownTerminations
  <1>2. ASSUME Inv, OnlyKnownTerminations, [Next]_vars
        PROVE  OnlyKnownTerminations'
    <2>1. UNCHANGED external
      BY <1>2 DEF Next, vars, external, addDataSet, SkipChild, ChildMissing,
         TranslateUnanswered, ChildFound, BrowsePlaceholder, SuperTypeUnanswered,
         InterfaceRequestFails, InterfaceMissing, ElementOfUnknownType,
         ElementFound, Return, Unwind, NothingToSubscribe, subscribeValue, Visit,
         Subscribed, dataChange, PublishTerminates
    <2>2. /\ \A t : TypeNode(t)' = TypeNode(t) /\ ChildrenOf(t)' = ChildrenOf(t)
          /\ \A n : NoInterface(n)' <=> NoInterface(n)
          /\ \A n : Plain(n)' <=> Plain(n)
          /\ \A n, c : Instances(n, c)' = Instances(n, c)
      BY <2>1 DEF external, TypeNode, ChildrenOf, NoInterface, Plain, Instances,
                  Referenced
    <2>3. CASE InterfaceMissing
      <3>1. /\ stack' = stack /\ met' = met /\ ElementToDo
            /\ pc = "transform" /\ Top.fun = "BrowsePlaceholder"
        BY <2>3 DEF InterfaceMissing, ElementToDo, Running
      <3>2. stack # <<>> /\ failures \in Nat
        BY <1>2, <3>1 DEF Inv, TypeInv
      <3>3. Top' = Top /\ Current' = Current
        BY <3>1 DEF Top, Current
      <3>4. CASE NoInterface(Current)
        BY <1>2, <2>2, <3>1, <3>2, <3>4, PlaceholderMet DEF OnlyKnownTerminations
      <3>5. CASE Plain(Current) /\ RequestFails
        <4>1. failures' > 0
          BY <3>2, <3>5 DEF RequestFails
        <4> QED
          BY <2>2, <3>1, <3>2, <3>3, <3>5, <4>1 DEF OnlyKnownTerminations
      <3> QED
        BY <2>3, <3>4, <3>5 DEF InterfaceMissing
    <2>4. CASE TranslateUnanswered \/ SuperTypeUnanswered
      <3>1. /\ stack' = stack /\ pc = "transform" /\ RequestFails
            /\ Top.fun = "TransformToNodeIds"
            /\ Current.rule # "None"
        BY <2>4 DEF TranslateUnanswered, SuperTypeUnanswered, ChildToDo, Running,
                    Placeholders
      <3>2. stack # <<>> /\ failures \in Nat
        BY <1>2, <3>1 DEF Inv, TypeInv
      <3>3. Top' = Top /\ Current' = Current
        BY <3>1 DEF Top, Current
      <3>4. failures' > 0
        BY <3>1, <3>2 DEF RequestFails
      <3> QED
        BY <3>1, <3>2, <3>3, <3>4 DEF OnlyKnownTerminations
    <2>5. CASE PublishTerminates
      <3>1. /\ selected' = selected /\ pc = "added" /\ Throws(getJson)
            /\ stack' = stack
        BY <2>5 DEF PublishTerminates, transforming
      <3>2. \E t \in selected : Bare(t) /\ t.def = TypeNode(t.def.type)
        BY <1>2, <3>1, ThrowsOnlyForBareElements
      <3>3. stack = <<>>
        BY <1>2, <3>1 DEF Inv, TypeInv, HasTree
      <3> QED
        BY <2>2, <3>1, <3>2, <3>3 DEF OnlyKnownTerminations, Bare
    <2>6. CASE UNCHANGED vars
      <3>1. Top' = Top /\ Current' = Current
        BY <2>6 DEF vars, Top, Current
      <3> QED
        BY <1>2, <2>2, <2>6, <3>1 DEF OnlyKnownTerminations, vars
    <2>7. CASE /\ Next
               /\ ~InterfaceMissing /\ ~TranslateUnanswered /\ ~SuperTypeUnanswered
               /\ ~PublishTerminates
      <3>1. pc' # "terminated"
        BY <2>7 DEF Next, addDataSet, SkipChild, ChildToDo, ChildMissing,
           ChildFound, BrowsePlaceholder, InterfaceRequestFails, ElementToDo,
           ElementOfUnknownType, ElementFound, Return, Unwind, Running,
           NothingToSubscribe, subscribeValue, Visit, Subscribed, dataChange
      <3> QED
        BY <3>1 DEF OnlyKnownTerminations
    <2> QED
      BY <1>2, <2>3, <2>4, <2>5, <2>6, <2>7
  <1> QED
    BY <1>1, <1>2, AlwaysInv, PTL DEF Spec
-----------------------------------------------------------------------------
(* What getJson shows. *)

\* The keys may lead from n to v.
LeadsTo(n, keys, v) ==
    \E path :
        /\ path[0] = n
        /\ path[Len(keys)] = v
        /\ \A k \in 1 .. Len(keys) : path[k] \in Follow(path[k - 1], keys[k])

LEMMA EmptyIsSeq == IsSeq(<<>>)
  <1>1. <<>> \in Seq({})
    OBVIOUS
  <1> QED
    BY <1>1, SeqFacts

LEMMA ThrowFacts ==
    ASSUME NEW leaf \in Throw
    PROVE  leaf.keys = <<>> /\ IsSeq(leaf.keys) /\ leaf.kind = "throw"
  <1>1. leaf = [keys |-> <<>>, kind |-> "throw", value |-> "exception"]
    BY DEF Throw, Leaf
  <1>2. leaf.keys = <<>> /\ leaf.kind = "throw"
    BY <1>1
  <1> QED
    BY <1>2, EmptyIsSeq

LEMMA NoKeys ==
    ASSUME NEW n
    PROVE  LeadsTo(n, <<>>, n)
  <1> DEFINE path == [k \in {0} |-> n]
  <1>1. Len(<<>>) = 0 /\ path[0] = n /\ 1 .. 0 = {}
    OBVIOUS
  <1> HIDE DEF path
  <1> QED
    BY <1>1 DEF LeadsTo

LEMMA ConsFacts ==
    ASSUME NEW key, NEW keys, IsSeq(keys)
    PROVE  LET all == <<key>> \o keys
           IN  /\ IsSeq(all)
               /\ Len(all) = Len(keys) + 1
               /\ all[1] = key
               /\ \A k \in 1 .. Len(keys) : all[k + 1] = keys[k]
               /\ all # <<>>
  <1> DEFINE all == <<key>> \o keys
             S == {key} \cup Elems(keys)
  <1>0. Len(keys) \in Nat
    BY SeqFacts DEF IsSeq
  <1>1. keys \in Seq(S) /\ <<key>> \in Seq(S) /\ Len(<<key>>) = 1 /\ <<key>>[1] = key
    BY SeqLarger DEF IsSeq
  <1>2. /\ all \in Seq(S)
        /\ Len(all) = Len(<<key>>) + Len(keys)
        /\ \A k \in 1 .. Len(<<key>>) + Len(keys) :
              all[k] = IF k <= Len(<<key>>) THEN <<key>>[k] ELSE keys[k - Len(<<key>>)]
    BY <1>1, ConcatProperties
  <1> HIDE DEF all
  <1>3. \A k \in 1 .. 1 + Len(keys) :
           all[k] = IF k <= 1 THEN <<key>>[k] ELSE keys[k - 1]
    BY <1>1, <1>2
  <1>4. all[1] = key
    <2>1. 1 \in 1 .. 1 + Len(keys) /\ 1 <= 1
      BY <1>0
    <2> QED
      BY <1>1, <1>3, <2>1
  <1>5. \A k \in 1 .. Len(keys) : all[k + 1] = keys[k]
    <2> TAKE k \in 1 .. Len(keys)
    <2>1. k + 1 \in 1 .. 1 + Len(keys) /\ ~(k + 1 <= 1) /\ (k + 1) - 1 = k
      BY <1>0
    <2> QED
      BY <1>3, <2>1
  <1>6. IsSeq(all)
    BY <1>2, SeqFacts
  <1>7. Len(all) = Len(keys) + 1
    BY <1>0, <1>1, <1>2
  <1>8. all # <<>>
    BY <1>0, <1>7
  <1> QED
    BY <1>4, <1>5, <1>6, <1>7, <1>8 DEF all

LEMMA FirstKey ==
    ASSUME NEW n, NEW key, NEW keys, IsSeq(keys), NEW v,
           NEW x \in Follow(n, key), LeadsTo(x, keys, v)
    PROVE  LeadsTo(n, <<key>> \o keys, v)
  <1>1. PICK path :
           /\ path[0] = x
           /\ path[Len(keys)] = v
           /\ \A k \in 1 .. Len(keys) : path[k] \in Follow(path[k - 1], keys[k])
    BY DEF LeadsTo
  <1> DEFINE all == <<key>> \o keys
             longer == [k \in 0 .. (Len(keys) + 1) |-> IF k = 0 THEN n ELSE path[k - 1]]
  <1>2. Len(keys) \in Nat
    BY SeqFacts DEF IsSeq
  <1>3. /\ Len(all) = Len(keys) + 1
        /\ all[1] = key
        /\ \A k \in 1 .. Len(keys) : all[k + 1] = keys[k]
    BY ConsFacts
  <1> HIDE DEF all
  <1>4. ASSUME NEW k \in 1 .. (Len(keys) + 1)
        PROVE  longer[k] \in Follow(longer[k - 1], all[k])
    <2>1. CASE k = 1
      <3>1. 0 \in 0 .. (Len(keys) + 1) /\ 1 \in 0 .. (Len(keys) + 1) /\ 1 - 1 = 0
        BY <1>2
      <3>2. longer[1] = path[0] /\ longer[0] = n
        BY <3>1
      <3> HIDE DEF longer
      <3> QED
        BY <1>1, <1>3, <2>1, <3>1, <3>2
    <2>2. CASE k # 1
      <3>1. /\ k - 1 \in 1 .. Len(keys) /\ k - 1 \in 0 .. (Len(keys) + 1)
            /\ k \in 0 .. (Len(keys) + 1) /\ k # 0
            /\ k - 1 # 0 /\ (k - 1) + 1 = k
        BY <1>2, <2>2
      <3>2. longer[k] = path[k - 1] /\ longer[k - 1] = path[(k - 1) - 1]
        BY <3>1
      <3>3. all[k] = keys[k - 1]
        BY <1>3, <3>1
      <3> HIDE DEF longer
      <3> QED
        BY <1>1, <3>1, <3>2, <3>3
    <2> QED
      BY <2>1, <2>2
  <1>5. longer[0] = n /\ longer[Len(all)] = v
    <2>1. /\ Len(keys) + 1 \in 0 .. (Len(keys) + 1) /\ Len(keys) + 1 # 0
          /\ 0 \in 0 .. (Len(keys) + 1)
          /\ (Len(keys) + 1) - 1 = Len(keys)
      BY <1>2
    <2> QED
      BY <1>1, <1>3, <2>1
  <1> HIDE DEF longer
  <1> QED
    BY <1>3, <1>4, <1>5 DEF LeadsTo, all

\* Every set of numbers has a least one.
LEMMA LeastNumber ==
    ASSUME NEW T, T \subseteq Nat, T # {}
    PROVE  \E x \in T : \A y \in T : ~(y < x)
  <1>1. \E x \in T : \A y \in T : ~(<<y, x>> \in OpToRel(<, Nat))
    BY NatLessThanWellFounded, WFMin
  <1> QED
    BY <1>1 DEF OpToRel

\* The function by which Resolve is defined, on the first j keys.
IsLeads(h, keys, j) ==
    h = [k \in 0 .. j |->
            IF k = 0 THEN {StartNode}
            ELSE UNION {Follow(n, keys[k]) : n \in h[k - 1]}]

LEMMA LeadsExists ==
    ASSUME NEW keys
    PROVE  \A j \in Nat : \E h : IsLeads(h, keys, j)
  <1> DEFINE T == {j \in Nat : ~\E h : IsLeads(h, keys, j)}
  <1>1. T = {}
    <2> SUFFICES ASSUME T # {} PROVE FALSE
      OBVIOUS
    <2>1. PICK x \in T : \A y \in T : ~(y < x)
      BY LeastNumber
    <2>2. x # 0
      <3> SUFFICES ASSUME x = 0 PROVE FALSE
        OBVIOUS
      <3> DEFINE h == [k \in 0 .. 0 |-> {StartNode}]
      <3>1. h = [k \in 0 .. 0 |->
                    IF k = 0 THEN {StartNode}
                    ELSE UNION {Follow(n, keys[k]) : n \in h[k - 1]}]
        OBVIOUS
      <3> HIDE DEF h
      <3>2. IsLeads(h, keys, 0)
        BY <3>1 DEF IsLeads
      <3> QED
        BY <3>2
    <2>3. x \in Nat /\ x - 1 \in Nat /\ x - 1 < x
      BY <2>2
    <2>4. PICK h : IsLeads(h, keys, x - 1)
      BY <2>1, <2>3
    <2> DEFINE g == [k \in 0 .. x |->
                        IF k = x THEN UNION {Follow(n, keys[x]) : n \in h[x - 1]}
                        ELSE h[k]]
    <2>5. \A k \in 0 .. (x - 1) :
             h[k] = IF k = 0 THEN {StartNode}
                    ELSE UNION {Follow(n, keys[k]) : n \in h[k - 1]}
      BY <2>4 DEF IsLeads
    <2>6. ASSUME NEW k \in 0 .. x
          PROVE  g[k] = IF k = 0 THEN {StartNode}
                        ELSE UNION {Follow(n, keys[k]) : n \in g[k - 1]}
      <3>1. CASE k = 0
        <4>1. 0 \in 0 .. (x - 1) /\ 0 # x /\ g[0] = h[0]
          BY <2>2, <2>3
        <4> QED
          BY <2>5, <3>1, <4>1
      <3>2. CASE k # 0
        <4>1. k - 1 \in 0 .. x /\ k - 1 # x /\ (k # x => k \in 0 .. (x - 1))
          BY <2>3, <3>2
        <4>2. g[k - 1] = h[k - 1]
          BY <4>1
        <4>3. g[k] = UNION {Follow(n, keys[k]) : n \in h[k - 1]}
          <5>1. CASE k = x
            BY <5>1
          <5>2. CASE k # x
            <6>1. g[k] = h[k]
              BY <5>2
            <6> HIDE DEF g
            <6> QED
              BY <2>5, <3>2, <4>1, <5>2, <6>1
          <5> QED
            BY <5>1, <5>2
        <4> HIDE DEF g
        <4> QED
          BY <3>2, <4>2, <4>3
      <3> QED
        BY <3>1, <3>2
    <2>7. g = [k \in 0 .. x |-> g[k]]
      OBVIOUS
    <2> HIDE DEF g
    <2>8. IsLeads(g, keys, x)
      BY <2>6, <2>7 DEF IsLeads
    <2> QED
      BY <2>8
  <1> QED
    BY <1>1

\* Resolve finds where the keys lead.
LEMMA ResolveLeads ==
    ASSUME NEW keys, IsSeq(keys), NEW v, LeadsTo(StartNode, keys, v)
    PROVE  v \in Resolve(keys)
  <1> DEFINE leads == CHOOSE h : IsLeads(h, keys, Len(keys))
  <1>1. Resolve(keys) = leads[Len(keys)]
    BY DEF Resolve, IsLeads
  <1>2. PICK path :
           /\ path[0] = StartNode
           /\ path[Len(keys)] = v
           /\ \A k \in 1 .. Len(keys) : path[k] \in Follow(path[k - 1], keys[k])
    BY DEF LeadsTo
  <1>3. Len(keys) \in Nat
    BY SeqFacts DEF IsSeq
  <1>4. IsLeads(leads, keys, Len(keys))
    BY <1>3, LeadsExists
  <1> HIDE DEF leads
  <1>5. \A k \in 0 .. Len(keys) :
           leads[k] = IF k = 0 THEN {StartNode}
                      ELSE UNION {Follow(n, keys[k]) : n \in leads[k - 1]}
    BY <1>4 DEF IsLeads
  <1> DEFINE T == {k \in 0 .. Len(keys) : path[k] \notin leads[k]}
  <1>6. T = {}
    <2> SUFFICES ASSUME T # {} PROVE FALSE
      OBVIOUS
    <2>1. T \subseteq Nat
      BY <1>3
    <2>2. PICK x \in T : \A y \in T : ~(y < x)
      BY <2>1, LeastNumber
    <2>3. x # 0
      BY <1>2, <1>5
    <2>4. x - 1 \in 0 .. Len(keys) /\ x - 1 < x /\ x \in 1 .. Len(keys)
      BY <1>3, <2>3
    <2>5. path[x - 1] \in leads[x - 1]
      BY <2>2, <2>4
    <2>6. path[x] \in Follow(path[x - 1], keys[x])
      BY <1>2, <2>4
    <2>7. leads[x] = UNION {Follow(n, keys[x]) : n \in leads[x - 1]}
      BY <1>5, <2>3
    <2> QED
      BY <2>5, <2>6, <2>7
  <1>7. Len(keys) \in 0 .. Len(keys)
    BY <1>3
  <1> QED
    BY <1>1, <1>2, <1>6, <1>7

\* Every value in a JSON value is that of a node to which its keys lead from n.
Leads(json, n) ==
    \A leaf \in json :
        /\ IsSeq(leaf.keys)
        /\ leaf.kind = "value" => LeadsTo(n, leaf.keys, leaf.value)

LEMMA UnderLeads ==
    ASSUME NEW key, NEW json, NEW n, NEW x \in Follow(n, key), Leads(json, x)
    PROVE  Leads(Under(key, json), n)
  <1> SUFFICES ASSUME NEW leaf \in Under(key, json)
               PROVE  /\ IsSeq(leaf.keys)
                      /\ leaf.kind = "value" => LeadsTo(n, leaf.keys, leaf.value)
    BY DEF Leads
  <1>1. PICK l \in json : leaf = [keys |-> <<key>> \o l.keys, kind |-> l.kind,
                                  value |-> l.value]
    BY DEF Under
  <1>2. /\ leaf.keys = <<key>> \o l.keys /\ leaf.kind = l.kind
        /\ leaf.value = l.value
    BY <1>1
  <1>3. IsSeq(l.keys) /\ (l.kind = "value" => LeadsTo(x, l.keys, l.value))
    BY DEF Leads
  <1>4. IsSeq(<<key>> \o l.keys)
    BY <1>3, ConsFacts
  <1> QED
    BY <1>2, <1>3, <1>4, FirstKey

LEMMA LeafLeads ==
    ASSUME NEW kind, NEW v, NEW n, kind = "value" => v = n
    PROVE  Leads(Leaf(kind, v), n) /\ Leads(Null, n)
  <1>1. IsSeq(<<>>) /\ LeadsTo(n, <<>>, n)
    BY NoKeys DEF IsSeq, Elems
  <1> QED
    BY <1>1 DEF Leads, Leaf, Null

\* The key that ModelToJson adds for the type leads nowhere, and the others lead
\* where they should.
LEMMA FollowKey ==
    ASSUME TypeInv, NEW t, t.def.type \in DOMAIN m_typeMap,
           t.kind \in {"simple", "placeholder"}
    PROVE  /\ t.node \in Follow(t.node, "value")
           /\ t.node \in Follow(t.node, "properties")
           /\ \A d : ChildOf(t, d) => d.node \in Follow(t.node, d.def.name.Name)
           /\ \A d : ElementOf(t, d) /\ t.def.rule \in Placeholders
                        /\ (\E u \in DOMAIN m_typeMap : t.def \in ChildrenOf(u))
                 => d.node \in Follow(t.node, server.browseName[d.node].Name)
  <1>1. /\ t.node \in Follow(t.node, "value")
        /\ t.node \in Follow(t.node, "properties")
    BY DEF Follow
  <1>2. ASSUME NEW d, ChildOf(t, d) PROVE d.node \in Follow(t.node, d.def.name.Name)
    <2>1. d.def \in UNION {ChildrenOf(u) : u \in DOMAIN m_typeMap}
      BY <1>2 DEF ChildOf
    <2>2. CASE d.def.rule \in Placeholders
      <3>1. d.node = t.node
        BY <1>2, <2>2 DEF ChildOf
      <3> QED
        BY <2>1, <2>2, <3>1 DEF Follow
    <2>3. CASE d.def.rule \notin Placeholders
      <3>1. /\ Referenced(t.node, d.def) # <<>>
            /\ d.node = Referenced(t.node, d.def)[1]
        BY <1>2, <2>3 DEF ChildOf
      <3> QED
        BY <2>1, <2>3, <3>1 DEF Follow
    <2> QED
      BY <2>2, <2>3
  <1>3. ASSUME NEW d, ElementOf(t, d), t.def.rule \in Placeholders,
               NEW u \in DOMAIN m_typeMap, t.def \in ChildrenOf(u)
        PROVE  d.node \in Follow(t.node, server.browseName[d.node].Name)
    <2>1. Referenced(t.node, t.def) \in Seq(Nodes)
      BY ServersAssumption DEF TypeInv, Referenced
    <2>2. d.node \in Instances(t.node, t.def) /\ d.node \in Nodes
      BY <1>3, <2>1 DEF Instances, ElementOf
    <2>3. t.def \in UNION {ChildrenOf(w) : w \in DOMAIN m_typeMap}
      BY <1>3
    <2> QED
      BY <1>3, <2>2, <2>3 DEF Follow
  <1> QED
    BY <1>1, <1>2, <1>3

\* The definition of a placeholder is a child of some type.
FromType(t) ==
    t.kind = "placeholder" =>
        /\ t.def.rule \in Placeholders
        /\ \E u \in DOMAIN m_typeMap : t.def \in ChildrenOf(u)

LEMMA ObjectLeads ==
    ASSUME NEW t, NEW fields, NEW n,
           \A k \in DOMAIN t.children :
               \E x \in Follow(n, Key(t, k)) : Leads(fields[k], x)
    PROVE  Leads(Object(t, fields), n)
  <1> DEFINE Kept(k) == {leaf \in fields[k] : leaf.kind = "throw"
                                              \/ ~Replaced(t, k, fields)}
  <1>1. ASSUME NEW k \in Written(t) PROVE Leads(Under(Key(t, k), Kept(k)), n)
    <2>1. k \in DOMAIN t.children
      BY DEF Written
    <2>2. PICK x \in Follow(n, Key(t, k)) : Leads(fields[k], x)
      BY <2>1
    <2>3. Leads(Kept(k), x)
      BY <2>2 DEF Leads
    <2> HIDE DEF Kept
    <2> QED
      BY <2>2, <2>3, UnderLeads
  <1>2. Object(t, fields) = UNION {Under(Key(t, k), Kept(k)) : k \in Written(t)}
    BY DEF Object
  <1> HIDE DEF Kept
  <1> QED
    BY <1>1, <1>2 DEF Leads

LEMMA NodeToJsonLeads ==
    ASSUME TypeInv, NEW t, NEW json,
           t.kind \in {"simple", "placeholder"},
           t.def.type \in DOMAIN m_typeMap, Genuine(t), FromType(t),
           \A d \in ChildEntries(t) : Leads(json[d], d.node)
    PROVE  Leads(NodeToJson(t, json), t.node)
  <1>1. t.kind = "simple" => Leads(Children(t, json), t.node)
    <2> SUFFICES ASSUME t.kind = "simple"
                 PROVE  Leads(Children(t, json), t.node)
      OBVIOUS
    <2> DEFINE fields == [k \in DOMAIN t.children |-> json[t.children[k]]]
    <2>1. ASSUME NEW k \in DOMAIN t.children
          PROVE  \E x \in Follow(t.node, Key(t, k)) : Leads(fields[k], x)
      <3>1. t.children[k] \in ChildEntries(t)
        BY DEF ChildEntries
      <3>2. ChildOf(t, t.children[k])
        BY <3>1 DEF Genuine
      <3>3. t.children[k].node \in Follow(t.node, Key(t, k))
        BY <3>2, FollowKey DEF Key
      <3> QED
        BY <3>1, <3>3
    <2>2. Children(t, json) = Object(t, fields)
      BY DEF Children
    <2> HIDE DEF fields
    <2> QED
      BY <2>1, <2>2, ObjectLeads
  <1>2. CASE t.kind = "simple" /\ t.def.variable
    <2>0. NodeToJson(t, json) = VariableToJson(t, json)
      BY <1>2 DEF NodeToJson
    <2>1. Leads(getValue(t), t.node)
      BY LeafLeads DEF getValue
    <2>2. Leads(ValueField(t), t.node)
      <3>1. Leads(Leaf("null", "null"), t.node)
        BY LeafLeads
      <3> QED
        BY <2>1, <3>1, FollowKey, UnderLeads DEF ValueField
    <2>3. Leads(Under("properties", Children(t, json)), t.node)
      BY <1>1, <1>2, FollowKey, UnderLeads
    <2> QED
      BY <2>0, <2>1, <2>2, <2>3 DEF VariableToJson, Leads
  <1>3. CASE t.kind = "simple" /\ ~t.def.variable
    <2>0. NodeToJson(t, json) = Children(t, json)
      BY <1>3 DEF NodeToJson
    <2> QED
      BY <1>1, <1>3, <2>0
  <1>4. CASE t.kind = "placeholder"
    <2> DEFINE El(k) == ElementToJson(t.children[k], json[t.children[k]])
               fields == [k \in DOMAIN t.children |-> El(k)]
    <2>0. NodeToJson(t, json) = Object(t, fields)
      BY <1>4 DEF NodeToJson, Elements
    <2>1. ASSUME NEW k \in DOMAIN t.children
          PROVE  \E x \in Follow(t.node, Key(t, k)) : Leads(fields[k], x)
      <3> DEFINE d == t.children[k]
                 type == Under("$TypeDefinition", Leaf("type", d.def.type))
                 kept == {leaf \in json[d] : leaf.kind = "throw"
                                              \/ leaf.keys[1] # "$TypeDefinition"}
      <3>1. d \in ChildEntries(t)
        BY DEF ChildEntries
      <3>2. ElementOf(t, d)
        BY <1>4, <3>1 DEF Genuine
      <3>3. d.node \in Follow(t.node, Key(t, k))
        BY <1>4, <3>2, FollowKey DEF Key, FromType
      <3>4. Leads(type, d.node) /\ Leads(Throw, d.node)
        <4>1. ASSUME NEW leaf \in type
              PROVE  IsSeq(leaf.keys) /\ leaf.kind # "value"
          <5>1. PICK l \in Leaf("type", d.def.type) :
                   leaf = [keys |-> <<"$TypeDefinition">> \o l.keys, kind |-> l.kind,
                           value |-> l.value]
            BY <4>1 DEF Under
          <5>2. l = [keys |-> <<>>, kind |-> "type", value |-> d.def.type]
            BY <5>1 DEF Leaf
          <5>3. l.keys = <<>> /\ l.kind = "type"
            BY <5>2
          <5>4. IsSeq(<<"$TypeDefinition">> \o <<>>)
            BY EmptyIsSeq, ConsFacts
          <5> QED
            BY <5>1, <5>3, <5>4
        <4> QED
          BY <4>1, ThrowFacts DEF Leads
      <3>5. El(k) = kept \cup type \/ El(k) = Throw
        BY DEF ElementToJson
      <3> HIDE DEF type
      <3>6. Leads(kept \cup type, d.node)
        BY <3>1, <3>4 DEF Leads
      <3>7. Leads(fields[k], d.node)
        BY <3>4, <3>5, <3>6
      <3> QED
        BY <3>3, <3>7
    <2> HIDE DEF fields
    <2> QED
      BY <2>0, <2>1, ObjectLeads
  <1> QED
    BY <1>2, <1>3, <1>4

\* The JSON of every node of the tree has the values of the nodes to which its
\* keys lead.
LEMMA TreeLeads ==
    ASSUME Inv, pc = "added"
    PROVE  /\ \A t \in selected : Leads(ModelToJson[t], t.node)
           /\ \A t \in selected : ModelToJson[t] = NodeToJson(t, ModelToJson)
           /\ Closed(selected)
  <1>1. /\ TypeInv /\ Forest(selected) /\ WellFounded(selected) /\ node \in selected
        /\ OnlyTreesOf({node}, selected)
        /\ node.def = TypeNode(StartType)
        /\ \A e \in selected : Genuine(e) /\ e.def.type \in DOMAIN m_typeMap
    BY DEF Inv, TreeInv, HasTree, TreeOK
  <1>2. Closed(selected)
    BY <1>1, SeqFacts DEF Forest, Closed, ChildEntries, Elems
  <1>3. \A t \in selected : ModelToJson[t] = NodeToJson(t, ModelToJson)
    BY <1>1, <1>2, ModelToJsonFacts
  <1>4. \A t \in selected : FromType(t)
    <2> DEFINE U == {t \in selected : FromType(t)}
    <2>1. node \in U
      <3>1. node.kind = "simple"
        BY DEF Inv, TreeInv, HasTree
      <3> QED
        BY <1>1, <3>1 DEF FromType
    <2>2. ASSUME NEW e \in U, NEW d \in ChildEntries(e) PROVE d \in U
      <3>1. d \in selected /\ Genuine(e) /\ e.def.type \in DOMAIN m_typeMap
        BY <1>1, <1>2 DEF Closed
      <3>2. CASE e.kind = "simple"
        <4>1. ChildOf(e, d)
          BY <3>1, <3>2 DEF Genuine
        <4> QED
          BY <3>1, <4>1 DEF ChildOf, FromType
      <3>3. CASE e.kind # "simple"
        <4>1. ElementOf(e, d)
          BY <3>1, <3>3 DEF Genuine
        <4> QED
          BY <3>1, <4>1 DEF ElementOf, FromType
      <3> QED
        BY <3>2, <3>3
    <2>3. selected \subseteq U
      <3> HIDE DEF U
      <3> QED
        BY <1>1, <2>1, <2>2 DEF OnlyTreesOf, Closed
    <2> QED
      BY <2>3
  <1> DEFINE U == {t \in selected : Leads(ModelToJson[t], t.node)}
  <1>5. ASSUME NEW e \in selected, ChildEntries(e) \subseteq U PROVE e \in U
    <2>1. \A d \in ChildEntries(e) : Leads(ModelToJson[d], d.node)
      BY <1>5
    <2>2. e.kind \in {"simple", "placeholder"}
      BY <1>1 DEF Forest
    <2>3. Leads(NodeToJson(e, ModelToJson), e.node)
      BY <1>1, <1>4, <2>1, <2>2, NodeToJsonLeads
    <2> QED
      BY <1>3, <2>3
  <1>6. selected \subseteq U
    <2> HIDE DEF U
    <2> QED
      BY <1>1, <1>5 DEF WellFounded
  <1> QED
    BY <1>2, <1>3, <1>6

\* The keys of each value of the payload lead to its node.
KeysLeadHome ==
    \A leaf \in getJson : leaf.kind = "value" => leaf.value \in Resolve(leaf.keys)

\* getJson shows a value only under keys that lead to its node on the server, also
\* if types list children repeatedly or names differ in their namespace only.
THEOREM ShownAlwaysTrue == Spec => [](pc = "added" => KeysLeadHome)
  <1>1. ASSUME Inv, pc = "added"
        PROVE  KeysLeadHome
    <2>1. node \in selected /\ node.node = StartNode
      BY <1>1 DEF Inv, TreeInv, HasTree
    <2>2. Leads(getJson, StartNode)
      BY <1>1, <2>1, TreeLeads DEF getJson
    <2> QED
      BY <2>2, ResolveLeads DEF Leads, KeysLeadHome
  <1>2. Inv => (pc = "added" => KeysLeadHome)
    BY <1>1
  <1> QED
    BY <1>2, AlwaysInv, PTL

\* What a JSON value says is in another one, under more keys; but for the field
\* that the type of an element may replace.
Shows(big, json) ==
    \A leaf \in json :
        \/ leaf.keys # <<>> /\ leaf.keys[1] = "$TypeDefinition"
        \/ \E l \in big : l.kind = leaf.kind /\ l.value = leaf.value

\* If a field of another key is shown, so is all its content.
LEMMA UnderShows ==
    ASSUME NEW big, NEW key, NEW json, key # "$TypeDefinition",
           \A leaf \in json : IsSeq(leaf.keys),
           Shows(big, Under(key, json))
    PROVE  \A leaf \in json : \E l \in big : l.kind = leaf.kind /\ l.value = leaf.value
  <1> SUFFICES ASSUME NEW leaf \in json
               PROVE  \E l \in big : l.kind = leaf.kind /\ l.value = leaf.value
    OBVIOUS
  <1> DEFINE x == [keys |-> <<key>> \o leaf.keys, kind |-> leaf.kind,
                   value |-> leaf.value]
  <1>1. x \in Under(key, json)
    BY DEF Under
  <1>2. x.kind = leaf.kind /\ x.value = leaf.value /\ x.keys = <<key>> \o leaf.keys
    OBVIOUS
  <1>3. (<<key>> \o leaf.keys)[1] = key
    BY ConsFacts
  <1> HIDE DEF x
  <1> QED
    BY <1>1, <1>2, <1>3 DEF Shows

LEMMA ShowsPart ==
    ASSUME NEW big, NEW json, NEW part, Shows(big, json), part \subseteq json
    PROVE  Shows(big, part)
  BY DEF Shows

\* A field that is not hidden is in the object.
LEMMA FieldInObject ==
    ASSUME NEW t, NEW fields, NEW k \in Written(t), ~Replaced(t, k, fields)
    PROVE  Under(Key(t, k), fields[k]) \subseteq Object(t, fields)
  <1>1. {leaf \in fields[k] : leaf.kind = "throw" \/ ~Replaced(t, k, fields)} = fields[k]
    OBVIOUS
  <1> QED
    BY <1>1 DEF Object

\* The keys of an object's leaves are sequences if those of its fields are.
LEMMA ObjectSeq ==
    ASSUME NEW t, NEW json,
           \A k \in DOMAIN t.children :
               \A leaf \in json[t.children[k]] : IsSeq(leaf.keys)
    PROVE  \A leaf \in Children(t, json) : IsSeq(leaf.keys)
  <1> SUFFICES ASSUME NEW leaf \in Children(t, json) PROVE IsSeq(leaf.keys)
    OBVIOUS
  <1> DEFINE fields == [j \in DOMAIN t.children |-> json[t.children[j]]]
  <1>1. PICK k \in Written(t) :
           leaf \in Under(Key(t, k), {l \in fields[k] : l.kind = "throw"
                                                        \/ ~Replaced(t, k, fields)})
    BY DEF Children, Object
  <1>2. PICK l \in fields[k] : leaf = [keys |-> <<Key(t, k)>> \o l.keys,
                                       kind |-> l.kind, value |-> l.value]
    BY <1>1 DEF Under
  <1>3. IsSeq(l.keys)
    BY <1>2 DEF Written
  <1>4. IsSeq(<<Key(t, k)>> \o l.keys)
    BY <1>3, ConsFacts
  <1> QED
    BY <1>2, <1>4

\* If the JSON of a node is shown, so is that of each child whose field is not
\* hidden.
LEMMA ShowsChild ==
    ASSUME NEW big, NEW t \in selected, t.kind \in {"simple", "placeholder"},
           NEW S, t.children \in Seq(S),
           t.kind = "simple" => DistinctChildren(t),
           ~Throws(big),
           ModelToJson[t] = NodeToJson(t, ModelToJson),
           Shows(big, ModelToJson[t]),
           NEW k \in DOMAIN t.children, ~Hidden(t, k),
           \A leaf \in ModelToJson[t.children[k]] : IsSeq(leaf.keys),
           \A leaf \in Children(t, ModelToJson) : IsSeq(leaf.keys)
    PROVE  Shows(big, ModelToJson[t.children[k]])
  <1> DEFINE d == t.children[k]
  <1>1. DOMAIN t.children = 1 .. Len(t.children) /\ Len(t.children) \in Nat
    BY SeqFacts
  <1>2. k \in Written(t)
    <2>1. \A earlier \in 1 .. (k - 1) : earlier \in DOMAIN t.children /\ earlier # k
      BY <1>1
    <2> QED
      BY <2>1 DEF Written, DistinctChildren
  <1>3. Key(t, k) # "$TypeDefinition"
    BY DEF Hidden
  <1>4. CASE t.kind = "simple"
    <2> DEFINE fields == [j \in DOMAIN t.children |-> ModelToJson[t.children[j]]]
    <2>1. ~Replaced(t, k, fields)
      BY <1>4 DEF Hidden, Replaced, Written
    <2>2. fields[k] = ModelToJson[d] /\ Children(t, ModelToJson) = Object(t, fields)
      BY DEF Children
    <2> HIDE DEF fields
    <2>3. Under(Key(t, k), ModelToJson[d]) \subseteq Children(t, ModelToJson)
      BY <1>2, <2>1, <2>2, FieldInObject
    <2>4. Shows(big, Children(t, ModelToJson))
      <3>1. CASE t.def.variable
        <4>1. t.children # <<>>
          BY <1>1
        <4>2. ModelToJson[t] = ValueField(t)
                \cup Under("properties", Children(t, ModelToJson))
          BY <1>4, <3>1, <4>1 DEF NodeToJson, VariableToJson
        <4>3. Shows(big, Under("properties", Children(t, ModelToJson)))
          BY <4>2, ShowsPart
        <4> QED
          BY <4>3, UnderShows DEF Shows
      <3>2. CASE ~t.def.variable
        BY <1>4, <3>2 DEF NodeToJson
      <3> QED
        BY <3>1, <3>2
    <2>5. Shows(big, Under(Key(t, k), ModelToJson[d]))
      BY <2>3, <2>4, ShowsPart
    <2> QED
      BY <1>3, <2>5, UnderShows DEF Shows
  <1>5. CASE t.kind = "placeholder"
    <2> DEFINE El(j) == ElementToJson(t.children[j], ModelToJson[t.children[j]])
               fields == [j \in DOMAIN t.children |-> El(j)]
    <2>1. ~Replaced(t, k, fields)
      BY <1>5 DEF Hidden, Replaced
    <2>2. fields[k] = El(k) /\ ModelToJson[t] = Object(t, fields)
      BY <1>5 DEF NodeToJson, Elements
    <2> HIDE DEF fields, El
    <2>3. Shows(big, Under(Key(t, k), El(k)))
      BY <1>2, <2>1, <2>2, FieldInObject, ShowsPart
    <2>4. ~IsPrimitive(ModelToJson[d])
      <3> SUFFICES ASSUME IsPrimitive(ModelToJson[d]) PROVE FALSE
        OBVIOUS
      <3>1. El(k) = Throw
        BY DEF ElementToJson, El
      <3>2. \A leaf \in Throw : IsSeq(leaf.keys)
        BY ThrowFacts
      <3>3. \A leaf \in Throw : \E l \in big : l.kind = leaf.kind
        BY <1>3, <2>3, <3>1, <3>2, UnderShows
      <3>4. \E leaf \in Throw : leaf.kind = "throw"
        BY DEF Throw, Leaf
      <3> QED
        BY <3>3, <3>4 DEF Throws
    <2> DEFINE kept == {leaf \in ModelToJson[d] : leaf.kind = "throw"
                                            \/ leaf.keys[1] # "$TypeDefinition"}
    <2>5. kept \subseteq El(k)
      BY <2>4 DEF ElementToJson, El
    <2>6. Under(Key(t, k), kept) \subseteq Under(Key(t, k), El(k))
      <3> HIDE DEF kept
      <3> QED
        BY <2>5 DEF Under
    <2>7. Shows(big, Under(Key(t, k), kept))
      BY <2>3, <2>6, ShowsPart
    <2>8. \A leaf \in kept : \E l \in big : l.kind = leaf.kind /\ l.value = leaf.value
      <3>1. \A leaf \in kept : IsSeq(leaf.keys)
        OBVIOUS
      <3> HIDE DEF kept
      <3> QED
        BY <1>3, <2>7, <3>1, UnderShows
    <2>9. \A leaf \in ModelToJson[d] : leaf.keys # <<>>
      BY <2>4 DEF IsPrimitive
    <2> QED
      BY <2>8, <2>9 DEF Shows
  <1> QED
    BY <1>4, <1>5

LEMMA PrefixAppend ==
    ASSUME NEW p \in Seq(Nat), NEW q \in Seq(Nat), NEW j \in Nat, IsPrefix(p, q)
    PROVE  IsPrefix(p, Append(q, j))
  <1> DEFINE n == Len(p)
             r == Append(q, j)
  <1>1. /\ n \in Nat /\ Len(q) \in Nat /\ n <= Len(q)
        /\ r \in Seq(Nat) /\ Len(r) = Len(q) + 1
        /\ \A i \in 1 .. Len(q) : r[i] = q[i]
    BY DEF IsPrefix
  <1> HIDE DEF n, r
  <1>2. ASSUME NEW i \in 1 .. n PROVE q[i] \in Nat /\ r[i] \in Nat
    <2>1. i \in 1 .. Len(q)
      BY <1>1
    <2> QED
      BY <1>1, <2>1
  <1>3. /\ SubSeq(q, 1, n) \in Seq(Nat) /\ Len(SubSeq(q, 1, n)) = n
        /\ \A i \in 1 .. n : SubSeq(q, 1, n)[i] = q[i]
    BY <1>1, <1>2, SubSeqProperties
  <1>4. /\ SubSeq(r, 1, n) \in Seq(Nat) /\ Len(SubSeq(r, 1, n)) = n
        /\ \A i \in 1 .. n : SubSeq(r, 1, n)[i] = r[i]
    BY <1>1, <1>2, SubSeqProperties
  <1>5. SubSeq(q, 1, n) = SubSeq(r, 1, n)
    BY <1>1, <1>3, <1>4, SeqEqual
  <1>6. n <= Len(r)
    BY <1>1
  <1> QED
    BY <1>5, <1>6 DEF IsPrefix, n, r

\* What is in an overwritten part of the payload is overwritten.
LEMMA OverwrittenBelow ==
    ASSUME \A e \in selected : PlacesOK(e), Closed(selected),
           NEW e \in selected, NEW d \in ChildEntries(e), Overwritten(e.place)
    PROVE  Overwritten(d.place)
  <1>1. PICK x \in selected : \E k \in DOMAIN x.children :
           Hidden(x, k) /\ IsPrefix(x.children[k].place, e.place)
    BY DEF Overwritten
  <1>2. PICK k \in DOMAIN x.children :
           Hidden(x, k) /\ IsPrefix(x.children[k].place, e.place)
    BY <1>1
  <1>3. x.children[k] \in selected
    BY DEF Closed, ChildEntries
  <1>4. x.children[k].place \in Seq(Nat) /\ e.place \in Seq(Nat)
    BY <1>3 DEF PlacesOK
  <1>5. PICK j \in Nat : d.place = Append(e.place, j)
    BY DEF PlacesOK, Below
  <1>6. IsPrefix(x.children[k].place, d.place)
    BY <1>2, <1>4, <1>5, PrefixAppend
  <1> QED
    BY <1>2, <1>6 DEF Overwritten

\* If no type lists a browse name twice, getJson shows every value that arrived,
\* unless a field of the same Name in another namespace took its place: the
\* payload is true.
THEOREM PayloadAlwaysTrue == Spec => [](UniqueNames => PayloadTrue)
  <1>1. ASSUME Inv, UniqueNames, pc = "added", ~Throws(getJson)
        PROVE  \A i \in subscribed : i.place \in values =>
                   \/ \E leaf \in getJson : leaf.kind = "value" /\ leaf.value = i.node
                   \/ Overwritten(i.place)
    <2>1. /\ Forest(selected) /\ node \in selected
          /\ OnlyTreesOf({node}, selected)
          /\ \A e \in selected : PlacesOK(e)
          /\ \A e \in selected : e.kind = "simple" => DistinctChildren(e)
      BY <1>1 DEF Inv, TreeInv, HasTree, TreeOK
    <2>2. /\ Closed(selected)
          /\ \A t \in selected : ModelToJson[t] = NodeToJson(t, ModelToJson)
          /\ \A t \in selected : \A leaf \in ModelToJson[t] : IsSeq(leaf.keys)
      BY <1>1, TreeLeads DEF Leads
    <2>3. \A t \in selected : Shows(getJson, ModelToJson[t]) \/ Overwritten(t.place)
      <3> DEFINE U == {t \in selected :
                          Shows(getJson, ModelToJson[t]) \/ Overwritten(t.place)}
      <3>1. node \in U
        BY <2>1 DEF getJson, Shows
      <3>2. ASSUME NEW e \in U, NEW d \in ChildEntries(e) PROVE d \in U
        <4>1. d \in selected
          BY <2>2 DEF Closed
        <4>2. /\ e.kind \in {"simple", "placeholder"} /\ e.children \in Seq(selected)
              /\ e.kind = "simple" => DistinctChildren(e)
          BY <2>1 DEF Forest
        <4>3. PICK k \in DOMAIN e.children : d = e.children[k]
          BY DEF ChildEntries
        <4>4. CASE Overwritten(e.place)
          BY <2>1, <2>2, <4>1, <4>4, OverwrittenBelow
        <4>5. CASE Hidden(e, k)
          <5>1. d.place \in Seq(Nat)
            BY <2>1, <4>1 DEF PlacesOK
          <5>2. IsPrefix(d.place, d.place)
            BY <5>1 DEF IsPrefix
          <5> QED
            BY <4>1, <4>3, <4>5, <5>2 DEF Overwritten
        <4>6. CASE Shows(getJson, ModelToJson[e]) /\ ~Hidden(e, k)
          <5>1. \A leaf \in Children(e, ModelToJson) : IsSeq(leaf.keys)
            BY <2>2, <4>2, <4>3, ObjectSeq DEF Closed
          <5>2. Shows(getJson, ModelToJson[d])
            BY <1>1, <2>2, <4>1, <4>2, <4>3, <4>6, <5>1, ShowsChild
          <5> QED
            BY <4>1, <5>2
        <4> QED
          BY <4>4, <4>5, <4>6
      <3>3. Closed(U)
        <4> HIDE DEF U
        <4> QED
          BY <3>2 DEF Closed
      <3>4. selected \subseteq U
        <4> HIDE DEF U
        <4> QED
          BY <2>1, <3>1, <3>3 DEF OnlyTreesOf
      <3> QED
        BY <3>4
    <2>4. ASSUME NEW i \in subscribed, i.place \in values, ~Overwritten(i.place)
          PROVE  \E leaf \in getJson : leaf.kind = "value" /\ leaf.value = i.node
      <3>1. PICK t \in selected : /\ isMandatoryOrOptionalVariable(t)
                                  /\ t.node = i.node /\ t.place = i.place
        BY <1>1 DEF Inv, SubscribeInv
      <3>2. t.kind = "simple" /\ t.def.variable
        BY <3>1 DEF isMandatoryOrOptionalVariable
      <3>3. getValue(t) = {[keys |-> <<>>, kind |-> "value", value |-> t.node]}
        BY <2>4, <3>1 DEF getValue, Leaf
      <3>4. ModelToJson[t] = VariableToJson(t, ModelToJson)
        BY <2>2, <3>2 DEF NodeToJson
      <3>5. Shows(getJson, ModelToJson[t])
        BY <2>3, <2>4, <3>1
      <3>6. CASE t.children = <<>>
        <4>1. ModelToJson[t] = getValue(t)
          BY <3>4, <3>6 DEF VariableToJson
        <4> QED
          BY <3>1, <3>3, <3>5, <4>1 DEF Shows
      <3>7. CASE t.children # <<>>
        <4>1. Under("value", getValue(t)) \subseteq ModelToJson[t]
          BY <2>4, <3>1, <3>4, <3>7 DEF VariableToJson, ValueField
        <4>2. Shows(getJson, Under("value", getValue(t)))
          BY <3>5, <4>1, ShowsPart
        <4>3. \A leaf \in getValue(t) : IsSeq(leaf.keys)
          <5> SUFFICES ASSUME NEW leaf \in getValue(t) PROVE IsSeq(leaf.keys)
            OBVIOUS
          <5>1. leaf = [keys |-> <<>>, kind |-> "value", value |-> t.node]
            BY <3>3
          <5>2. leaf.keys = <<>>
            BY <5>1
          <5> QED
            BY <5>2, EmptyIsSeq
        <4>4. \A leaf \in getValue(t) :
                 \E l \in getJson : l.kind = leaf.kind /\ l.value = leaf.value
          BY <4>2, <4>3, UnderShows
        <4> QED
          BY <3>1, <3>3, <4>4
      <3> QED
        BY <3>6, <3>7
    <2> QED
      BY <2>4
  <1>2. Inv /\ (pc = "added" => KeysLeadHome) => (UniqueNames => PayloadTrue)
    BY <1>1 DEF PayloadTrue, KeysLeadHome
  <1> QED
    BY <1>2, AlwaysInv, ShownAlwaysTrue, PTL
=============================================================================
