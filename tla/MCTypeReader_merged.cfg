CONSTANTS
    none = none
    NoNode = none
    Node <- MCNode
    VariableRoot = "V"
    ObjectRoot = "O"
    Type <- MCType
    Parent <- MCParent
    Ancestors <- MCAncestors
    Depth <- MCDepth
    Name <- MCName
    Rule <- MCRule
    TypeOf <- MCTypeOf
    Container = {"D"}
    Expected <- MCExpected
    Configured = {"C"}
    MaxFailures = 0
SPECIFICATION Spec
INVARIANT InheritedChildrenMerged
