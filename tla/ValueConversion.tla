-------------------------- MODULE ValueConversion --------------------------
(****************************************************************************)
(* From the value in a notification or an answer to the JSON that is        *)
(* published: open62541 decodes what the registered type tables know, under *)
(* the namespace indices that the client has written into these tables, and *)
(* UaDataValueToJsonValue converts the rest.                                *)
(*                                                                          *)
(* A scalar value is [type, data], an array [type, dims, data]; the data of *)
(* a structure are a function on the members that are present.  The data of *)
(* a simple value stand for its content; the text that a date, a number or  *)
(* an identifier is formatted to is left out.  What the code reads through  *)
(* a pointer of another type, or a null pointer, is Misread.                *)
(*                                                                          *)
(* Both callers pass false for serializeStatusInformation, so the status    *)
(* code of a value is never part of the JSON.                               *)
(****************************************************************************)
EXTENDS CustomTypes, Sequences, SequencesExt

CONSTANTS
    Tables,           \* namespace tables the server may have, without index 0
    Wire,             \* values the server may send
    TighteningIndex   \* index in UA_TYPES_TIGHTENING before any update (11)

ASSUME ConversionAssumption ==
    /\ \A t \in Tables : \A i, j \in DOMAIN t : t[i] = t[j] => i = j
    /\ TighteningIndex \in Nat \ {0}

VARIABLES
    table,       \* the server's namespace table
    nsIndex,     \* namespaceIndex in the static type tables
    answer,      \* values last received
    json         \* their JSON

vars == <<table, nsIndex, answer, json>>

Libraries == {"Result", "IJT", "GMS"}

-----------------------------------------------------------------------------
(* JSON. *)

Null == [t |-> "null"]
Misread == [t |-> "misread"]
Leaf(x) == [t |-> "leaf", v |-> x]
JsonArray(s) == [t |-> "array", v |-> s]
JsonObject(f) == IF DOMAIN f = {} THEN Null ELSE [t |-> "object", v |-> f]

-----------------------------------------------------------------------------
(* Type tables. *)

\* fillNamespaceCache calls it for every URI of the table.  A table of types
\* whose URI the server does not have keeps its index.
updateCustomDataTypesNamespace(t, old) ==
    [l \in Libraries |-> IF \E i \in DOMAIN t : t[i] = l
                         THEN CHOOSE i \in DOMAIN t : t[i] = l
                         ELSE old[l]]

InitialIndex == [l \in Libraries |-> IF l = "IJT" THEN TighteningIndex ELSE 0]

NoType == "none"

\* The chain of the registered tables.
findDataType(ns, id) ==
    IF ns = nsIndex["Result"] /\ id \in DOMAIN UA_TYPES_MACHINERY_RESULT
    THEN UA_TYPES_MACHINERY_RESULT[id]
    ELSE IF ns = nsIndex["IJT"] /\ id \in DOMAIN UA_TYPES_TIGHTENING
    THEN UA_TYPES_TIGHTENING[id]
    ELSE IF ns = nsIndex["GMS"] /\ id \in DOMAIN UA_TYPES_GMS
    THEN UA_TYPES_GMS[id]
    ELSE NoType

Found(o) ==
    IF o.uri = "ns0" THEN findDataType(0, o.id)
    ELSE findDataType(CHOOSE i \in DOMAIN table : table[i] = o.uri, o.id)

RECURSIVE Unwrapped(_)

\* The members of a structure that hold extension objects.  One that is not in
\* a variant stays an extension object, with the decoded value inside.
DecodedMembers(b) ==
    IF b.type # "ResultDataType" THEN b
    ELSE [b EXCEPT !.data = [m \in DOMAIN b.data |->
            IF m = "ResultMetaData"
            THEN [b.data[m] EXCEPT !.decoded = Found(b.data[m]) # NoType]
            ELSE [b.data[m] EXCEPT !.data =
                    [i \in DOMAIN b.data[m].data |->
                        [type |-> "Variant", data |-> Unwrapped(b.data[m].data[i].data)]]]]]

\* A variant with an extension object of a registered type becomes a variant
\* of this type.
Unwrapped(v) ==
    IF v.type # "ExtensionObject" \/ "dims" \in DOMAIN v THEN v
    ELSE IF Found(v) = NoType THEN v
    ELSE IF Found(v) = v.body.type THEN DecodedMembers(v.body)
    ELSE [type |-> "Misread"]

-----------------------------------------------------------------------------
(* UaDataValueToJsonValue.  A structure is converted member by member: each  *)
(* step writes one key, if the member's pointer is checked and not null, or  *)
(* unchecked.                                                                *)

Step(key, member, T, isArray, checked) ==
    [key |-> key, member |-> member, type |-> T, isArray |-> isArray,
     checked |-> checked]

Each(T, names) == [i \in DOMAIN names |-> Step(names[i], names[i], T, FALSE, TRUE)]
EachArray(T, names) == [i \in DOMAIN names |-> Step(names[i], names[i], T, TRUE, TRUE)]
Always(T, names) == [i \in DOMAIN names |-> Step(names[i], names[i], T, FALSE, FALSE)]

decodeJoiningResultMetaDataType ==
    << Step("ResultId", "AssemblyType", "Byte", FALSE, TRUE) >>
    \o EachArray("EntityDataType", <<"AssociatedEntities">>)
    \o Each("Byte", <<"Classification">>)
    \o Each("DateTime", <<"CreationTime">>)
    \o Each("LocalizedText", <<"Description">>)
    \o EachArray("KeyValueDataType", <<"ExtendedMetaData">>)
    \o Each("String", <<"ExternalConfigurationId", "ExternalRecipeId">>)
    \o EachArray("String", <<"FileFormat">>)

decodeJoiningResultDataType ==
    EachArray("ErrorInformationDataType", <<"Errors">>)
    \o Each("String", <<"FailingStepResultId">>)
    \o Each("Byte", <<"FailureReason">>)
    \o EachArray("ResultValueDataType", <<"OverallResultValues">>)
    \o EachArray("StepResultDataType", <<"StepResults">>)

\* Three members share one key.
decodeEntityDataType ==
    Always("String", <<"EntityId">>)
    \o Always("Int16", <<"EntityType">>)
    \o << Step("Description", "Description", "String", FALSE, TRUE),
          Step("Description", "EntityOriginId", "String", FALSE, TRUE) >>
    \o Each("String", <<"Name">>)
    \o << Step("Description", "IsExternal", "Boolean", FALSE, TRUE) >>

decodeResultDataType ==
    Always("ExtensionObject", <<"ResultMetaData">>)
    \o EachArray("Variant", <<"ResultContent">>)

\* Faulty: two members exchanged.
StepsExchanged ==
    << Step("ProgramStep", "ProgramStepId", "String", FALSE, TRUE),
       Step("ProgramStepId", "ProgramStep", "String", FALSE, TRUE) >>
    \o Always("String", <<"StepResultId">>)

decodeStepResultDataType ==
    Each("String", <<"Name", "ProgramStep", "ProgramStepId">>)
    \o Each("ResultEvaluationEnum", <<"ResultEvaluation">>)
    \o Each("Double", <<"StartTimeOffset">>)
    \o Always("String", <<"StepResultId">>)
    \o EachArray("ResultValueDataType", <<"StepResultValues">>)
    \o Each("String", <<"StepTraceId">>)

\* Faulty: one pointer is not checked.
LimitUnchecked ==
    Always("Double", <<"MeasuredValue", "LowLimit">>) \o Each("Double", <<"HighLimit">>)

decodeResultValueDataType ==
    Each("EUInformation", <<"EngineeringUnits">>)
    \o Each("Double", <<"HighLimit", "LowLimit">>)
    \o Always("Double", <<"MeasuredValue">>)
    \o Each("String", <<"Name">>)
    \o EachArray("String", <<"ParameterIdList">>)
    \o Each("Byte", <<"PhysicalQuantity">>)
    \o Each("ResultEvaluationEnum", <<"ResultEvaluation">>)
    \o Each("String", <<"ResultStep", "SensorId">>)
    \o Each("Double", <<"TargetValue">>)
    \o Each("Int32", <<"TracePointIndex">>)
    \o Each("Double", <<"TracePointTimeOffset">>)
    \o Each("String", <<"ValueId">>)
    \o Each("Int16", <<"ValueTag">>)
    \o Each("Byte", <<"ViolationConsequence", "ViolationType">>)

ResultMetaDataSteps ==
    Always("String", <<"ResultId">>)
    \o Each("Int32", <<"ResultState">>)
    \o EachArray("String", <<"ResultUri", "FileFormat">>)

ProcessingTimesSteps ==
    Each("Double", <<"AcquisitionDuration", "ProcessingDuration">>)
    \o Always("DateTime", <<"StartTime", "EndTime">>)

\* Branches of the case STRUCTURE.
StructureSteps ==
    "EUInformation" :> (Always("String", <<"NamespaceUri">>) \o Always("Int32", <<"UnitId">>)
                        \o Always("LocalizedText", <<"DisplayName", "Description">>))
    @@ "Range" :> Always("Double", <<"Low", "High">>)
    @@ "TimeZoneDataType" :> (Always("Boolean", <<"daylightSavingInOffset">>)
                              \o Always("Int16", <<"offset">>))
    @@ "KeyValueDataType" :> (Always("String", <<"Key">>) \o Always("Variant", <<"Value">>))
    @@ "ResultDataType" :> decodeResultDataType

\* Branches of the default case, into which ResultDataType falls as well and
\* is written again; the two types named ProcessingTimesDataType share one.
DefaultSteps ==
    "ProcessingTimesDataType" :> ProcessingTimesSteps
    @@ "IJT_ProcessingTimesDataType" :> ProcessingTimesSteps
    @@ "EntityDataType" :> decodeEntityDataType
    @@ "ResultValueDataType" :> decodeResultValueDataType
    @@ "StepResultDataType" :> decodeStepResultDataType

\* Encodings of an extension object, compared without the namespace.
BodyTypes ==
    5005 :> "ResultMetaDataType" @@ 5079 :> "EntityDataType"
    @@ 5046 :> "JoiningResultMetaDataType" @@ 5049 :> "JoiningResultDataType"

BodySteps ==
    "ResultMetaDataType" :> ResultMetaDataSteps
    @@ "EntityDataType" :> decodeEntityDataType
    @@ "JoiningResultMetaDataType" :> decodeJoiningResultMetaDataType
    @@ "JoiningResultDataType" :> decodeJoiningResultDataType

Simple ==
    {"Boolean", "SByte", "Byte", "Int16", "UInt16", "Int32", "UInt32", "Int64",
     "UInt64", "Float", "Double", "String", "DateTime", "Guid", "ByteString"}

NotImplemented ==
    {"XmlElement", "ExpandedNodeId", "StatusCode", "DataValue", "DiagnosticInfo"}

RECURSIVE setValueFromDataValue(_)

\* The later of two steps that write the same key wins.
Steps(steps, x) ==
    LET Writes(i) == steps[i].member \in DOMAIN x.data \/ ~steps[i].checked
        LastWrite(k) == CHOOSE i \in DOMAIN steps :
                      /\ Writes(i) /\ steps[i].key = k
                      /\ \A j \in DOMAIN steps : Writes(j) /\ steps[j].key = k => j <= i
        Converted(s) ==
            IF s.member \notin DOMAIN x.data THEN Misread
            ELSE LET d == x.data[s.member]
                 IN  IF d.type = s.type /\ s.isArray = ("dims" \in DOMAIN d)
                     THEN setValueFromDataValue(d) ELSE Misread
    IN  JsonObject([k \in {steps[i].key : i \in {j \in DOMAIN steps : Writes(j)}} |->
                       Converted(steps[LastWrite(k)])])

\* A switch over the four values of the enumeration.
decodeResultEvaluationEnum(x) == IF x.data = <<"other", 0>> THEN Null ELSE Leaf(x.data)

LocalizedTextJson(x) ==
    JsonObject([k \in {m \in DOMAIN x.data : x.data[m].data # <<"too long", 0>>} |->
                   Leaf(x.data[k].data)])

\* A body that cannot be decoded gives a structure of zeros: the status of the
\* decoder is not looked at.
Zeroed(T) ==
    [type |-> T,
     data |-> [m \in {n \in DOMAIN Members[T] :
                        ~Members[T][n].isOptional /\ ~Members[T][n].isArray} |->
                  [type |-> Members[T][m].type, data |-> <<"zero", 0>>]]]

ExtensionObjectJson(o) ==
    IF o.decoded THEN Misread  \* the type id is read where pointers are
    ELSE IF o.uri = "ns0" \/ o.id \notin DOMAIN BodyTypes THEN Null
    ELSE LET T == BodyTypes[o.id]
         IN  IF ~o.intact THEN Steps(BodySteps[T], Zeroed(T))
             ELSE IF o.body.type = T THEN Steps(BodySteps[T], o.body)
             ELSE Misread

setValueFromScalarVariant(x) ==
    CASE x.type = "Misread" -> Misread
      [] x.type \in Simple -> Leaf(x.data)
      [] x.type = "NodeId" -> IF x.numeric THEN Leaf(x.data) ELSE Misread
      [] x.type = "ExtensionObject" -> ExtensionObjectJson(x)
      [] x.type = "Variant" -> setValueFromDataValue(x.data)
      [] x.type = "LocalizedText" -> LocalizedTextJson(x)
      [] x.type = "QualifiedName" ->
            Steps(Always("String", <<"namespaceIndex", "name">>), x)
      [] x.type = "ResultEvaluationEnum" -> decodeResultEvaluationEnum(x)
      [] x.type \in Structures \cap DOMAIN StructureSteps ->
            Steps(StructureSteps[x.type], x)
      [] x.type \in DOMAIN DefaultSteps \ Structures -> Steps(DefaultSteps[x.type], x)
      [] OTHER -> Null

\* Types whose arrays are converted: a ResultDataType is looked for among the
\* OPTSTRUCTs, where it is not.
ArrayTypes ==
    (Simple \ {"Guid", "ByteString"})
    \cup {"LocalizedText", "NodeId", "ExtensionObject", "QualifiedName", "Variant"}
    \cup {"EUInformation", "Range", "KeyValueDataType"}
    \cup {"EntityDataType", "ResultValueDataType", "StepResultDataType"}

\* Faulty: the product of all dimensions from the current one on.
OffsetWithOwn(dims, k) == FoldLeft(LAMBDA a, b : a * b, 1, SubSeq(dims, k, Len(dims)))

\* The product leaves the last dimension out.
Offset(dims, k) == FoldLeft(LAMBDA a, b : a * b, 1, SubSeq(dims, k + 1, Len(dims) - 1))

RECURSIVE getValueFromDataValueArray(_, _, _)

getValueFromDataValueArray(x, k, base) ==
    [i \in 1 .. x.dims[k] |->
        IF k = Len(x.dims)
        THEN IF base + i \in DOMAIN x.data
             THEN setValueFromScalarVariant(x.data[base + i]) ELSE Misread
        ELSE JsonArray(getValueFromDataValueArray(x, k + 1,
                                                  base + (i - 1) * Offset(x.dims, k)))]

\* push_back turns the null value into an array with the first element.
setValueFromArrayVariant(x) ==
    IF x.type \in ArrayTypes /\ x.dims[1] > 0
    THEN JsonArray(getValueFromDataValueArray(x, 1, 0))
    ELSE Null

setValueFromDataValue(x) ==
    IF "dims" \in DOMAIN x THEN setValueFromArrayVariant(x) ELSE setValueFromScalarVariant(x)

-----------------------------------------------------------------------------
(* Actions. *)

Init ==
    /\ table \in Tables
    /\ nsIndex = updateCustomDataTypesNamespace(table, InitialIndex)
    /\ answer = <<>>
    /\ json = <<>>

\* The server starts with another table, and the gateway resets.  The type
\* tables are static: a new client begins with the indices of the old one.
ServerRestarts ==
    /\ answer = <<>>
    /\ table' \in Tables \ {table}
    /\ nsIndex' = updateCustomDataTypesNamespace(table', nsIndex)
    /\ UNCHANGED <<answer, json>>

Sendable == {w \in Wire : w.uris \subseteq {table[i] : i \in DOMAIN table}}

\* A notification.
dataChange ==
    /\ answer = <<>>
    /\ \E w \in Sendable :
        /\ answer' = <<w>>
        /\ json' = <<setValueFromDataValue(Unwrapped(w.value))>>
        /\ UNCHANGED <<table, nsIndex>>

NoValue == [uris |-> {}, value |-> [type |-> "none"], deep |-> FALSE]

ValueJson(w) ==
    IF w.value.type = "none" THEN Null ELSE setValueFromDataValue(Unwrapped(w.value))

Answers == {w \in Sendable : ~w.deep} \cup {NoValue}

\* An answer with several values.  A bad first status throws; a later value
\* with a bad status is empty, and its JSON is null.
readValues2 ==
    /\ answer = <<>>
    /\ \E a, b \in Answers :
        /\ answer' = <<a, b>>
        /\ json' = IF a.value.type = "none" THEN <<>> ELSE <<ValueJson(a), ValueJson(b)>>
        /\ UNCHANGED <<table, nsIndex>>

\* The callback, or the caller of readValues2, has the JSON.
Returned ==
    /\ answer # <<>>
    /\ answer' = <<>>
    /\ json' = <<>>
    /\ UNCHANGED <<table, nsIndex>>

Next == ServerRestarts \/ dataChange \/ readValues2 \/ Returned

Spec == Init /\ [][Next]_vars

-----------------------------------------------------------------------------
(* Properties. *)

RECURSIVE HasMisread(_)

HasMisread(j) ==
    \/ j.t = "misread"
    \/ j.t \in {"array", "object"} /\ \E k \in DOMAIN j.v : HasMisread(j.v[k])

\* No table of types has the index of a namespace it does not belong to.
TablesCurrent ==
    \A l \in Libraries :
        nsIndex[l] \in DOMAIN table => table[nsIndex[l]] = l

\* A value of a type of the four companion specifications is never read as
\* another type or through a null pointer, in every combination of optional
\* members, as long as no type table has kept the index of a namespace that
\* the server had before.  Encodings of other namespaces are compared without
\* the namespace, and of a NodeId always the number is read.
KnownTypesNeverMisread ==
    TablesCurrent =>
        \A i \in DOMAIN json :
            \/ "vendor" \in answer[i].uris
            \/ answer[i].value.type = "NodeId" /\ ~answer[i].value.numeric
            \/ ~HasMisread(json[i])

\* Keys that are written from members of other names.
Overloaded ==
    {<<"EntityDataType", "Description">>, <<"JoiningResultMetaDataType", "ResultId">>}

RECURSIVE Shaped(_, _)

Shaped(j, dims) ==
    /\ j.t = "array"
    /\ Len(j.v) = dims[1]
    /\ Len(dims) > 1 => \A i \in DOMAIN j.v : Shaped(j.v[i], Tail(dims))

RECURSIVE Faithful(_, _)

Faithful(j, d) ==
    CASE j.t \in {"null", "misread"} -> TRUE
      [] "dims" \in DOMAIN d ->
            Len(d.dims) = 1 => \A i \in DOMAIN j.v : Faithful(j.v[i], d.data[i])
      [] d.type = "Variant" -> Faithful(j, d.data)
      [] d.type = "ExtensionObject" ->
            Faithful(j, IF d.intact THEN d.body ELSE Zeroed(d.body.type))
      [] j.t = "leaf" -> d.type \notin DOMAIN Members /\ d.data = j.v
      [] OTHER -> \A k \in DOMAIN j.v :
            \/ <<d.type, k>> \in Overloaded
            \/ k \in DOMAIN d.data /\ Faithful(j.v[k], d.data[k])

\* What is published under a name is what the server sent for the member of
\* this name, through all nesting of structures, arrays, variants and extension
\* objects, and each value of an answer is in the position of its node, though
\* others are missing.  Two keys are overloaded in the code.
FieldsKeepTheirNames ==
    /\ Len(json) \in {0, Len(answer)}
    /\ \A i \in DOMAIN json :
          json[i].t # "null" => Faithful(json[i], answer[i].value)

\* An array that is published has as many elements in each dimension as the
\* one received, and every element was read inside the received data, although
\* the offset of a row leaves out the last dimension.
ArraysKeepShape ==
    \A i \in DOMAIN json :
        "dims" \in DOMAIN answer[i].value /\ json[i].t # "null" =>
            /\ Shaped(json[i], answer[i].value.dims)
            /\ ~HasMisread(json[i])

\* The result of a joining process is decoded whatever index its namespace has
\* and had before: the structure itself by the type table, its meta data, which
\* must stay encoded for it, and its content by the converter.
ResultsArrive ==
    \A i \in DOMAIN json :
        LET v == answer[i].value
        IN  v.type = "ExtensionObject" /\ "dims" \notin DOMAIN v =>
                (v.uri = "Result" /\ v.id = 5008 =>
                    /\ json[i].t = "object"
                    /\ v.body.data["ResultMetaData"].uri \in {"Result", "Base"} =>
                          json[i].v["ResultMetaData"].t = "object"
                    /\ "ResultContent" \in DOMAIN v.body.data =>
                          \A k \in DOMAIN v.body.data["ResultContent"].data :
                              json[i].v["ResultContent"].v[k].t # "null")
=============================================================================
