------------------------- MODULE MCValueConversion -------------------------
(* Every built-in type as a scalar and as an array of several dimensions,   *)
(* every structure with all, none, one or all but one of its optional       *)
(* members, and results that contain them.                                  *)
EXTENDS ValueConversion

MCTables ==
    { <<"Result", "IJT", "GMS", "Base", "vendor">>,
      <<"vendor", "Base", "Result", "GMS", "IJT">>,
      <<"Base", "vendor", "IJT">>,
      <<"GMS", "vendor">> }

Optional(T) == {m \in DOMAIN Members[T] : Members[T][m].isOptional \/ Members[T][m].isArray}
Mandatory(T) == DOMAIN Members[T] \ Optional(T)

RECURSIVE Sample(_, _, _)

\* A value of type T called name, with all or none of the optional members.
Sample(T, name, all) ==
    IF T = "Variant" THEN [type |-> T, data |-> [type |-> "Int32", data |-> <<name, 0>>]]
    ELSE IF T = "NodeId" THEN [type |-> T, data |-> <<name, 0>>, numeric |-> all]
    ELSE IF T \notin DOMAIN Members THEN [type |-> T, data |-> <<name, 0>>]
    ELSE [type |-> T,
          data |-> [m \in Mandatory(T) \cup (IF all THEN Optional(T) ELSE {}) |->
             IF Members[T][m].isArray
             THEN [type |-> Members[T][m].type, dims |-> <<2>>,
                   data |-> <<Sample(Members[T][m].type, m, TRUE),
                              Sample(Members[T][m].type, m, FALSE)>>]
             ELSE Sample(Members[T][m].type, m, all)]]

\* All values of a structure that have all, none, one or all but one.
Variations(T) ==
    LET Full == Sample(T, T, TRUE)
        Kept(S) == [type |-> T, data |-> [m \in Mandatory(T) \cup S |-> Full.data[m]]]
    IN  {Full, Sample(T, T, FALSE)}
        \cup {Kept({m}) : m \in Optional(T)} \cup {Kept(Optional(T) \ {m}) : m \in Optional(T)}

Ext(u, n, v, ok) ==
    [type |-> "ExtensionObject", uri |-> u, id |-> n, body |-> v, intact |-> ok,
     decoded |-> FALSE]

Sent(u, v) == [uris |-> u, value |-> v, deep |-> TRUE]
Short(v) == [uris |-> {}, value |-> v, deep |-> FALSE]

Vendor == [type |-> "VendorType", data |-> <<"vendor", 0>>]

Scalars ==
    {Short(Sample(T, T, TRUE)) :
        T \in Simple \cup NotImplemented \cup {"NodeId", "LocalizedText", "Range"}}
    \cup {Short(Sample("NodeId", "text", FALSE)),
          Short([type |-> "LocalizedText",
                 data |-> [text |-> [type |-> "String", data |-> <<"too long", 0>>]]])}

Size(dims) == FoldLeft(LAMBDA a, b : a * b, 1, dims)

Arrays ==
    {Sent({}, [type |-> T, dims |-> d,
               data |-> [i \in 1 .. Size(d) |-> [type |-> T, data |-> <<T, i>>]]]) :
        T \in Simple, d \in {<<0>>, <<1>>, <<3>>, <<2, 2>>, <<2, 3>>, <<3, 2>>, <<2, 0>>,
                             <<2, 3, 2>>}}
    \cup {Sent({}, [type |-> T, dims |-> <<2>>,
                    data |-> <<Sample(T, T, TRUE), Sample(T, T, FALSE)>>]) :
             T \in {"LocalizedText", "QualifiedName", "Variant", "EUInformation",
                    "TimeZoneDataType"}}

Known ==
    LET Of(u, n, T) == {Sent({u}, Ext(u, n, v, TRUE)) : v \in Variations(T)}
    IN  Of("Result", 5003, "ProcessingTimesDataType")
        \cup Of("IJT", 5001, "IJT_ProcessingTimesDataType")
        \cup Of("Base", 5079, "EntityDataType")
        \cup Of("Base", 5046, "JoiningResultMetaDataType")
        \cup Of("Base", 5049, "JoiningResultDataType")
        \cup {Sent({"GMS"}, Ext("GMS", 5007, Sample("CartesianWorkspaceType", "w", TRUE), TRUE))}
        \cup {Sent({"vendor"}, Ext("vendor", n, Vendor, TRUE)) :
                 n \in {5007, 5001, 5003, 5008, 5005, 5079, 5030}}
        \cup {Sent({"Base"}, Ext("Base", 5049, Sample("JoiningResultDataType", "j", FALSE), FALSE))}
        \cup {Sent({}, Ext("ns0", 5030, Vendor, TRUE))}

MetaData ==
    {Ext("Result", 5005, v, ok) : v \in Variations("ResultMetaDataType"), ok \in {TRUE}}
    \cup {Ext("Base", 5046, Sample("JoiningResultMetaDataType", "m", TRUE), TRUE),
          Ext("Result", 5005, Sample("ResultMetaDataType", "m", TRUE), FALSE),
          Ext("vendor", 5031, Vendor, TRUE)}

Content ==
    {[type |-> "Variant", data |-> Ext("Base", 5049, v, TRUE)] :
        v \in {Sample("JoiningResultDataType", "c", TRUE)}}
    \cup {[type |-> "Variant", data |-> Ext("Result", 5003, v, TRUE)] :
        v \in {Sample("ProcessingTimesDataType", "c", FALSE)}}
    \cup {Sample("Variant", "c", TRUE)}

Results ==
    {Sent({"Result", "Base", "vendor"},
          Ext("Result", 5008,
              [type |-> "ResultDataType",
               data |-> [ResultMetaData |-> m,
                         ResultContent |-> [type |-> "Variant", dims |-> <<2>>,
                                            data |-> <<c, d>>]]], TRUE)) :
        m \in MetaData, c \in Content, d \in Content}
    \cup {Sent({"Result", "vendor"},
               Ext("Result", 5008,
                   [type |-> "ResultDataType", data |-> [ResultMetaData |-> m]], TRUE)) :
             m \in {n \in MetaData : n.uri # "Base"}}

MCWire == Scalars \cup Arrays \cup Known \cup Results
=============================================================================
