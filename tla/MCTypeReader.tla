---------------------------- MODULE MCTypeReader ----------------------------
(* Three object types in a row and a sibling of the third, a child x that    *)
(* each of them defines again with children of its own, a folder, and a      *)
(* variable type.                                                            *)
EXTENDS TypeReader

CONSTANTS none

MCNode == {"V", "V1", "O", "A", "B", "C", "D", "Ax", "Axp", "Bx", "Bxq", "Cx",
           "Cxq", "Cxr", "Ay", "Bf", "Bfv"}

MCType == {"V", "V1", "O", "A", "B", "C", "D"}

MCParent == [n \in MCNode |->
    CASE n \in {"V", "O"} -> none
      [] n = "V1" -> "V"
      [] n = "A" -> "O"
      [] n \in {"B", "D", "Ax", "Ay"} -> "A"
      [] n \in {"C", "Bx", "Bf"} -> "B"
      [] n = "Cx" -> "C"
      [] n = "Axp" -> "Ax"
      [] n = "Bxq" -> "Bx"
      [] n \in {"Cxq", "Cxr"} -> "Cx"
      [] n = "Bfv" -> "Bf"]

Up(S) == S \cup ({MCParent[n] : n \in S} \ {none})

MCAncestors == [n \in MCNode |-> Up(Up(Up(Up(Up({n})))))]

MCDepth == [n \in MCNode |-> Cardinality(MCAncestors[n])]

MCName == [n \in MCNode |->
    CASE n \in {"Ax", "Bx", "Cx"} -> "x"
      [] n = "Axp" -> "p"
      [] n \in {"Bxq", "Cxq"} -> "q"
      [] OTHER -> n]

MCRule == [n \in MCNode |->
    CASE n \in {"Bx", "Bfv"} -> "Mandatory"
      [] n = "Ay" -> "MandatoryPlaceholder"
      [] n = "Cxq" -> "OptionalPlaceholder"
      [] OTHER -> "Optional"]

MCTypeOf == [n \in MCNode |->
    CASE n = "Bf" -> "D"
      [] n = "Bfv" -> "V1"
      [] n \in {"Ax", "Bx"} -> "C"
      [] OTHER -> none]

MCExpected == {"V1", "A", "B", "C", "D"}
=============================================================================
