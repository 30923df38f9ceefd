---------------------------- MODULE CustomTypes ----------------------------
(****************************************************************************)
(* The static tables of custom data types: the members of the structures    *)
(* that the converter knows, the kinds of all types, and the encodings by   *)
(* which open62541 finds a type.  The companion specifications Machinery    *)
(* Result, IJT (tightening) and GMS are registered with the client; the     *)
(* types of IJT Base are not, the converter decodes them itself.            *)
(****************************************************************************)
EXTENDS Naturals, TLC

Fields(T, names, isArray, isOptional) ==
    [n \in names |-> [type |-> T, isArray |-> isArray, isOptional |-> isOptional]]

One(T, names) == Fields(T, names, FALSE, FALSE)
Opt(T, names) == Fields(T, names, FALSE, TRUE)
Many(T, names) == Fields(T, names, TRUE, FALSE)
OptMany(T, names) == Fields(T, names, TRUE, TRUE)

-----------------------------------------------------------------------------
(* Built-in structures and structures of the namespace 0, by open62541. *)

BuiltinMembers ==
    "LocalizedText" :> Opt("String", {"locale", "text"})
    @@ "QualifiedName" :> One("String", {"namespaceIndex", "name"})
    @@ "Range" :> One("Double", {"Low", "High"})
    @@ "TimeZoneDataType" :>
           (One("Int16", {"offset"}) @@ One("Boolean", {"daylightSavingInOffset"}))
    @@ "EUInformation" :>
           (One("String", {"NamespaceUri"}) @@ One("Int32", {"UnitId"})
            @@ One("LocalizedText", {"DisplayName", "Description"}))

-----------------------------------------------------------------------------
(* Machinery Result. *)

ProcessingTimesDataType ==
    One("DateTime", {"StartTime", "EndTime"})
    @@ Opt("Double", {"AcquisitionDuration", "ProcessingDuration"})

ResultDataType ==
    One("ExtensionObject", {"ResultMetaData"}) @@ Many("Variant", {"ResultContent"})

ResultMetaDataType ==
    One("String", {"ResultId"})
    @@ Opt("Boolean", {"HasTransferableDataOnFile", "IsPartial", "IsSimulated"})
    @@ Opt("Int32", {"ResultState"})
    @@ Opt("String", {"StepId", "PartId", "ExternalRecipeId", "InternalRecipeId",
                      "ProductId", "ExternalConfigurationId",
                      "InternalConfigurationId", "JobId"})
    @@ Opt("DateTime", {"CreationTime"})
    @@ Opt("ProcessingTimesDataType", {"ProcessingTimes"})
    @@ OptMany("String", {"ResultUri", "FileFormat"})
    @@ Opt("ResultEvaluationEnum", {"ResultEvaluation"})
    @@ Opt("Int64", {"ResultEvaluationCode"})
    @@ Opt("LocalizedText", {"ResultEvaluationDetails"})

-----------------------------------------------------------------------------
(* IJT, whose only type has the name of a type of Machinery Result. *)

IJT_ProcessingTimesDataType ==
    One("DateTime", {"StartTime", "EndTime"})
    @@ Opt("Double", {"AcquisitionDuration", "ProcessingDuration"})

-----------------------------------------------------------------------------
(* IJT Base. *)

EntityDataType ==
    One("String", {"EntityId"})
    @@ One("Int16", {"EntityType"})
    @@ Opt("String", {"Name", "Description", "EntityOriginId"})
    @@ Opt("Boolean", {"IsExternal"})

ErrorInformationDataType ==
    One("Byte", {"ErrorType"})
    @@ Opt("String", {"ErrorId", "LegacyError"})
    @@ Opt("LocalizedText", {"ErrorMessage"})

KeyValueDataType == One("String", {"Key"}) @@ One("Variant", {"Value"})

ResultCounterDataType ==
    Opt("String", {"Name"}) @@ One("UInt32", {"CounterValue"})
    @@ One("Int16", {"CounterType"})

\* It repeats the members of ResultMetaDataType, its super type.
JoiningResultMetaDataType ==
    One("String", {"ResultId"})
    @@ Opt("Boolean", {"HasTransferableDataOnFile", "IsPartial", "IsSimulated",
                       "IsGeneratedOffline"})
    @@ Opt("Int32", {"ResultState"})
    @@ Opt("String", {"StepId", "PartId", "ExternalRecipeId", "InternalRecipeId",
                      "ProductId", "ExternalConfigurationId",
                      "InternalConfigurationId", "JobId", "Name"})
    @@ Opt("DateTime", {"CreationTime"})
    @@ Opt("ProcessingTimesDataType", {"ProcessingTimes"})
    @@ OptMany("String", {"ResultUri", "FileFormat"})
    @@ Opt("ResultEvaluationEnum", {"ResultEvaluation"})
    @@ Opt("Int64", {"ResultEvaluationCode"})
    @@ Opt("UInt64", {"SequenceNumber"})
    @@ Opt("LocalizedText", {"ResultEvaluationDetails", "JoiningTechnology",
                             "Description"})
    @@ Opt("Byte", {"Classification", "OperationMode", "AssemblyType",
                    "InterventionType"})
    @@ OptMany("EntityDataType", {"AssociatedEntities"})
    @@ OptMany("ResultCounterDataType", {"ResultCounters"})
    @@ OptMany("KeyValueDataType", {"ExtendedMetaData"})

ResultValueDataType ==
    One("Double", {"MeasuredValue"})
    @@ Opt("String", {"Name", "ValueId", "SensorId", "ResultStep"})
    @@ Opt("ResultEvaluationEnum", {"ResultEvaluation"})
    @@ Opt("Int16", {"ValueTag"})
    @@ Opt("Int32", {"TracePointIndex"})
    @@ Opt("Double", {"TracePointTimeOffset", "LowLimit", "HighLimit", "TargetValue"})
    @@ OptMany("String", {"ParameterIdList"})
    @@ Opt("Byte", {"ViolationType", "ViolationConsequence", "PhysicalQuantity"})
    @@ Opt("EUInformation", {"EngineeringUnits"})

StepResultDataType ==
    One("String", {"StepResultId"})
    @@ Opt("String", {"ProgramStepId", "ProgramStep", "Name", "StepTraceId"})
    @@ Opt("ResultEvaluationEnum", {"ResultEvaluation"})
    @@ Opt("Double", {"StartTimeOffset"})
    @@ OptMany("ResultValueDataType", {"StepResultValues"})

TraceContentDataType ==
    Many("Double", {"Values"})
    @@ Opt("String", {"SensorId", "Name", "Description"})
    @@ Opt("Byte", {"PhysicalQuantity"})
    @@ Opt("EUInformation", {"EngineeringUnits"})

StepTraceDataType ==
    One("String", {"StepTraceId", "StepResultId"})
    @@ One("UInt32", {"NumberOfTracePoints"})
    @@ Opt("Double", {"SamplingInterval", "StartTimeOffset"})
    @@ Many("TraceContentDataType", {"StepTraceContent"})

JoiningTraceDataType ==
    One("String", {"TraceId", "ResultId"}) @@ Many("StepTraceDataType", {"StepTraces"})

JoiningResultDataType ==
    Opt("Byte", {"FailureReason"})
    @@ Many("ResultValueDataType", {"OverallResultValues"})
    @@ OptMany("StepResultDataType", {"StepResults"})
    @@ OptMany("ErrorInformationDataType", {"Errors"})
    @@ Opt("String", {"FailingStepResultId"})
    @@ Opt("JoiningTraceDataType", {"Trace"})

Members ==
    BuiltinMembers
    @@ "ProcessingTimesDataType" :> ProcessingTimesDataType
    @@ "ResultDataType" :> ResultDataType
    @@ "ResultMetaDataType" :> ResultMetaDataType
    @@ "IJT_ProcessingTimesDataType" :> IJT_ProcessingTimesDataType
    @@ "EntityDataType" :> EntityDataType
    @@ "ErrorInformationDataType" :> ErrorInformationDataType
    @@ "KeyValueDataType" :> KeyValueDataType
    @@ "ResultCounterDataType" :> ResultCounterDataType
    @@ "JoiningResultMetaDataType" :> JoiningResultMetaDataType
    @@ "ResultValueDataType" :> ResultValueDataType
    @@ "StepResultDataType" :> StepResultDataType
    @@ "TraceContentDataType" :> TraceContentDataType
    @@ "StepTraceDataType" :> StepTraceDataType
    @@ "JoiningTraceDataType" :> JoiningTraceDataType
    @@ "JoiningResultDataType" :> JoiningResultDataType

-----------------------------------------------------------------------------
(* Kinds and encodings. *)

\* Types of kind STRUCTURE; a structure with optional members is an OPTSTRUCT.
UA_TYPES_IJT_GENERATED ==
    {"JoiningProcessDataType", "KeyValueDataType", "SignalDataType",
     "TraceDataType", "JoiningTraceDataType"}

\* Faulty: the meta data are registered as well.
AllMachineryResult ==
    5001 :> "ResultTransferOptionsDataType" @@ 5003 :> "ProcessingTimesDataType"
    @@ 5008 :> "ResultDataType" @@ 5005 :> "ResultMetaDataType"

\* The encodings of the five types that MachineryResultTypes counts:
\* ResultMetaDataType, the sixth, is not registered.
UA_TYPES_MACHINERY_RESULT ==
    5001 :> "ResultTransferOptionsDataType" @@ 5003 :> "ProcessingTimesDataType"
    @@ 5008 :> "ResultDataType"

UA_TYPES_TIGHTENING == 5001 :> "IJT_ProcessingTimesDataType"

UA_TYPES_GMS == 5007 :> "CartesianWorkspaceType" @@ 5013 :> "CylindricalWorkspaceType"

\* EUInformation, Range and TimeZoneDataType are structures of open62541, and
\* BaseResultTransferOptionsDataType has no encoding.
Structures ==
    UA_TYPES_IJT_GENERATED
    \cup {"EUInformation", "Range", "TimeZoneDataType", "ResultDataType",
          "ResultTransferOptionsDataType", "CartesianWorkspaceType",
          "CylindricalWorkspaceType"}
=============================================================================
