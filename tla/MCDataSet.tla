------------------------------ MODULE MCDataSet ------------------------------
(* A machine with a mandatory part, an optional group and placeholders, on   *)
(* all servers that offer some of its nodes and share them.                  *)
EXTENDS DataSet, TLC

MCNodes == {"machine", "a", "b", "v", "w"}

\* The node b is named In("machine", "state") or, in another namespace, has the
\* Name of a.
In(uri, name) == [Uri |-> uri, Name |-> name]

Child(name, rule, variable, type) ==
    [name |-> name, rule |-> rule, variable |-> variable, type |-> type]

\* The list of a group may be there twice, as the type reader leaves the lists
\* of folders.
Types(toolsRule, stateRule, stateName, groupTwice) ==
    LET group == <<Child(In("machine", "item"), "Optional", TRUE, "LeafType"),
                   Child(In("machine", "parts"), "MandatoryPlaceholder", FALSE, "PartType")>>
    IN  [MachineType |->
           [variable |-> FALSE,
            children |-> <<Child(In("machine", "id"), "Mandatory", FALSE, "PartType"),
                           Child(stateName, stateRule, FALSE, "GroupType"),
                           Child(In("machine", "tools"), toolsRule, FALSE, "PartType")>>],
         PartType |->
           [variable |-> FALSE,
            children |-> <<Child(In("machine", "item"), "Mandatory", TRUE, "ItemType")>>],
         GroupType |->
           [variable |-> FALSE,
            children |-> IF groupTwice THEN group \o group ELSE group],
         ItemType |->
           [variable |-> TRUE,
            children |-> <<Child(In("machine", "item"), "Optional", TRUE, "LeafType")>>],
         LeafType |->
           [variable |-> TRUE, children |-> <<>>]]

MCTypeMaps ==
    {Types("OptionalPlaceholder", "Optional", In("machine", "state"), FALSE),
     Types("OptionalPlaceholder", "Optional", In("tools", "id"), FALSE),
     Types("MandatoryPlaceholder", "Optional", In("machine", "state"), TRUE),
     Types("OptionalPlaceholder", "None", In("machine", "state"), FALSE)}

\* What each request may find.  The machine, its parts and b are objects, v and w
\* are variables, and an item may have one of its own.
Offer ==
    [q \in {<<"machine", "id">>, <<"machine", "state">>, <<"machine", "tools">>,
            <<"a", "item">>, <<"b", "item">>, <<"b", "parts">>,
            <<"v", "item">>} |->
        {<<>>} \cup
        CASE q = <<"machine", "id">> -> {<<"a">>}
          [] q = <<"machine", "state">> -> {<<"b">>}
          [] q = <<"machine", "tools">> -> {<<"b">>, <<"v">>, <<"a", "b">>}
          [] q = <<"a", "item">> -> {<<"v">>, <<"w">>}
          [] q = <<"b", "item">> -> {<<"v">>, <<"w">>}
          [] q = <<"b", "parts">> -> {<<"a">>}
          [] q = <<"v", "item">> -> {<<"w">>}]

Requests == DOMAIN Offer

RECURSIVE Combinations(_)

Combinations(Q) ==
    IF Q = {} THEN {<<>>}
    ELSE LET q == CHOOSE x \in Q : TRUE
         IN  {(q :> o) @@ r : o \in Offer[q], r \in Combinations(Q \ {q})}

References == Combinations(Requests)

\* The node b has the name under which the machine references it.
Named(r, name) ==
    [q \in {<<p[1], IF p[2] = "state" THEN name ELSE In("machine", p[2])>> :
               p \in Requests} |->
        IF q[2] = name THEN r[<<q[1], "state">>] ELSE r[<<q[1], q[2].Name>>]]

\* It is of a known type, of an unknown one, or a plain object with or without an
\* interface.
Kinds ==
    {<<In("machine", "state"), "PartType", <<>>>>,
     <<In("machine", "state"), "ForeignType", <<>>>>,
     <<In("machine", "state"), "BaseObjectType", <<>>>>,
     <<In("machine", "state"), "BaseObjectType", <<"PartType">>>>,
     <<In("tools", "id"), "PartType", <<>>>>}

MCServers ==
    {[refs |-> Named(r, b[1]),
      browseName |-> [n \in MCNodes |-> CASE n = "a" -> In("machine", "id")
                                          [] n = "b" -> b[1]
                                          [] n \in {"v", "w"} -> In("machine", "item")
                                          [] OTHER -> In("machine", n)],
      typeOf |-> [n \in MCNodes |-> IF n = "v" THEN "ItemType"
                                    ELSE IF n = "b" THEN b[2] ELSE "PartType"],
      interfaces |-> [n \in MCNodes |-> IF n = "b" THEN b[3] ELSE <<>>]] :
        r \in References, b \in Kinds}
=============================================================================
