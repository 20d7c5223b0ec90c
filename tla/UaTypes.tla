------------------------------ MODULE UaTypes ------------------------------
(****************************************************************************)
(* The structures and enumerations of the UA specification as the stack     *)
(* knows them (stackcore/opcua_types.c).                                    *)
(*                                                                          *)
(* A structure is given by five functions, Initialize, Clear, GetSize,      *)
(* Encode and Decode, each of which lists the fields, and by an             *)
(* OpcUa_EncodeableType with its three numbers and these functions.  The    *)
(* five lists agree in every structure, in the fields and in their order:   *)
(* one list stands for all of them.  A field is named by its type, and one  *)
(* that is an array of a type by the plural of it.                          *)
(****************************************************************************)
EXTENDS Integers

Structure(typeId, binary, xml, fields) ==
  [ids |-> [TypeId |-> typeId, Binary |-> binary, Xml |-> xml], fields |-> fields]

----------------------------------------------------------------------------
(* The enumerations that structures have fields of: their named values.     *)

\* One that has a value named Invalid takes it for a value without a name.
Enumeration(values)            == [values |-> values, invalid |-> {}]
WithInvalid(values, invalid)   == [values |-> values, invalid |-> {invalid}]

NodeClass == Enumeration({0, 1, 2, 4, 8, 16, 32, 64, 128})
ApplicationType == Enumeration(0 .. 3)
MessageSecurityMode == WithInvalid(0 .. 3, 0)
UserTokenType == Enumeration(0 .. 3)
SecurityTokenRequestType == Enumeration(0 .. 1)
BrowseDirection == WithInvalid(0 .. 3, 3)
FilterOperator == Enumeration(0 .. 17)
TimestampsToReturn == WithInvalid(0 .. 4, 4)
HistoryUpdateType == Enumeration(1 .. 4)
PerformUpdateType == Enumeration(1 .. 4)
MonitoringMode == Enumeration(0 .. 2)
DataChangeTrigger == Enumeration(0 .. 2)
ServerState == Enumeration(0 .. 7)
AxisScaleEnumeration == Enumeration(0 .. 2)

EnumeratedTypes ==
  [NodeClass |-> NodeClass, ApplicationType |-> ApplicationType,
   MessageSecurityMode |-> MessageSecurityMode, UserTokenType |-> UserTokenType,
   SecurityTokenRequestType |-> SecurityTokenRequestType,
   BrowseDirection |-> BrowseDirection, FilterOperator |-> FilterOperator,
   TimestampsToReturn |-> TimestampsToReturn, HistoryUpdateType |-> HistoryUpdateType,
   PerformUpdateType |-> PerformUpdateType, MonitoringMode |-> MonitoringMode,
   DataChangeTrigger |-> DataChangeTrigger, ServerState |-> ServerState,
   AxisScaleEnumeration |-> AxisScaleEnumeration]

----------------------------------------------------------------------------
(* The arrays that structures have fields of, with the type of their items. *)

Element ==
  [ReferenceNodes |-> "ReferenceNode", UInt32s |-> "UInt32", Strings |-> "String",
   ApplicationDescriptions |-> "ApplicationDescription",
   ServerOnNetworks |-> "ServerOnNetwork", UserTokenPolicies |-> "UserTokenPolicy",
   EndpointDescriptions |-> "EndpointDescription", LocalizedTexts |-> "LocalizedText",
   ExtensionObjects |-> "ExtensionObject", StatusCodes |-> "StatusCode",
   DiagnosticInfos |-> "DiagnosticInfo",
   SignedSoftwareCertificates |-> "SignedSoftwareCertificate",
   AddNodesItems |-> "AddNodesItem", AddNodesResults |-> "AddNodesResult",
   AddReferencesItems |-> "AddReferencesItem", DeleteNodesItems |-> "DeleteNodesItem",
   DeleteReferencesItems |-> "DeleteReferencesItem",
   ReferenceDescriptions |-> "ReferenceDescription",
   BrowseDescriptions |-> "BrowseDescription", BrowseResults |-> "BrowseResult",
   ByteStrings |-> "ByteString", RelativePathElements |-> "RelativePathElement",
   BrowsePathTargets |-> "BrowsePathTarget", BrowsePaths |-> "BrowsePath",
   BrowsePathResults |-> "BrowsePathResult", NodeIds |-> "NodeId",
   QueryDataDescriptions |-> "QueryDataDescription", Variants |-> "Variant",
   ContentFilterElements |-> "ContentFilterElement", QualifiedNames |-> "QualifiedName",
   ContentFilterElementResults |-> "ContentFilterElementResult",
   NodeTypeDescriptions |-> "NodeTypeDescription", QueryDataSets |-> "QueryDataSet",
   ParsingResults |-> "ParsingResult", ReadValueIds |-> "ReadValueId",
   DataValues |-> "DataValue", DateTimes |-> "DateTime",
   ModificationInfos |-> "ModificationInfo",
   HistoryEventFieldLists |-> "HistoryEventFieldList",
   HistoryReadValueIds |-> "HistoryReadValueId",
   HistoryReadResults |-> "HistoryReadResult", WriteValues |-> "WriteValue",
   HistoryUpdateResults |-> "HistoryUpdateResult",
   CallMethodRequests |-> "CallMethodRequest", CallMethodResults |-> "CallMethodResult",
   SimpleAttributeOperands |-> "SimpleAttributeOperand",
   MonitoredItemCreateRequests |-> "MonitoredItemCreateRequest",
   MonitoredItemCreateResults |-> "MonitoredItemCreateResult",
   MonitoredItemModifyRequests |-> "MonitoredItemModifyRequest",
   MonitoredItemModifyResults |-> "MonitoredItemModifyResult",
   MonitoredItemNotifications |-> "MonitoredItemNotification",
   EventFieldLists |-> "EventFieldList",
   SubscriptionAcknowledgements |-> "SubscriptionAcknowledgement",
   TransferResults |-> "TransferResult",
   EndpointUrlListDataTypes |-> "EndpointUrlListDataType", Doubles |-> "Double",
   Arguments |-> "Argument"]

----------------------------------------------------------------------------
(* The structures.                                                          *)

Node == Structure(258, 260, 259,
  << "NodeId", "NodeClass", "QualifiedName", "LocalizedText", "LocalizedText", "UInt32",
     "UInt32", "ReferenceNodes" >>)
InstanceNode == Structure(11879, 11889, 11887,
  << "NodeId", "NodeClass", "QualifiedName", "LocalizedText", "LocalizedText", "UInt32",
     "UInt32", "ReferenceNodes" >>)
TypeNode == Structure(11880, 11890, 11888,
  << "NodeId", "NodeClass", "QualifiedName", "LocalizedText", "LocalizedText", "UInt32",
     "UInt32", "ReferenceNodes" >>)
ObjectNode == Structure(261, 263, 262,
  << "NodeId", "NodeClass", "QualifiedName", "LocalizedText", "LocalizedText", "UInt32",
     "UInt32", "ReferenceNodes", "Byte" >>)
ObjectTypeNode == Structure(264, 266, 265,
  << "NodeId", "NodeClass", "QualifiedName", "LocalizedText", "LocalizedText", "UInt32",
     "UInt32", "ReferenceNodes", "Boolean" >>)
VariableNode == Structure(267, 269, 268,
  << "NodeId", "NodeClass", "QualifiedName", "LocalizedText", "LocalizedText", "UInt32",
     "UInt32", "ReferenceNodes", "Variant", "NodeId", "Int32", "UInt32s", "Byte",
     "Byte", "Double", "Boolean" >>)
VariableTypeNode == Structure(270, 272, 271,
  << "NodeId", "NodeClass", "QualifiedName", "LocalizedText", "LocalizedText", "UInt32",
     "UInt32", "ReferenceNodes", "Variant", "NodeId", "Int32", "UInt32s", "Boolean" >>)
ReferenceTypeNode == Structure(273, 275, 274,
  << "NodeId", "NodeClass", "QualifiedName", "LocalizedText", "LocalizedText", "UInt32",
     "UInt32", "ReferenceNodes", "Boolean", "Boolean", "LocalizedText" >>)
MethodNode == Structure(276, 278, 277,
  << "NodeId", "NodeClass", "QualifiedName", "LocalizedText", "LocalizedText", "UInt32",
     "UInt32", "ReferenceNodes", "Boolean", "Boolean" >>)
ViewNode == Structure(279, 281, 280,
  << "NodeId", "NodeClass", "QualifiedName", "LocalizedText", "LocalizedText", "UInt32",
     "UInt32", "ReferenceNodes", "Boolean", "Byte" >>)
DataTypeNode == Structure(282, 284, 283,
  << "NodeId", "NodeClass", "QualifiedName", "LocalizedText", "LocalizedText", "UInt32",
     "UInt32", "ReferenceNodes", "Boolean" >>)
ReferenceNode == Structure(285, 287, 286, << "NodeId", "Boolean", "ExpandedNodeId" >>)
Argument == Structure(296, 298, 297,
  << "String", "NodeId", "Int32", "UInt32s", "LocalizedText" >>)
EnumValueType == Structure(7594, 8251, 7616,
  << "Int64", "LocalizedText", "LocalizedText" >>)
OptionSet == Structure(12755, 12765, 12757, << "ByteString", "ByteString" >>)
TimeZoneDataType == Structure(8912, 8917, 8913, << "Int16", "Boolean" >>)
ApplicationDescription == Structure(308, 310, 309,
  << "String", "String", "LocalizedText", "ApplicationType", "String", "String", "Strings"
     >>)
RequestHeader == Structure(389, 391, 390,
  << "NodeId", "DateTime", "UInt32", "UInt32", "String", "UInt32", "ExtensionObject" >>)
ResponseHeader == Structure(392, 394, 393,
  << "DateTime", "UInt32", "StatusCode", "DiagnosticInfo", "Strings", "ExtensionObject"
     >>)
ServerOnNetwork == Structure(12189, 12207, 12195,
  << "UInt32", "String", "String", "Strings" >>)
UserTokenPolicy == Structure(304, 306, 305,
  << "String", "UserTokenType", "String", "String", "String" >>)
EndpointDescription == Structure(312, 314, 313,
  << "String", "ApplicationDescription", "ByteString", "MessageSecurityMode", "String",
     "UserTokenPolicies", "String", "Byte" >>)
RegisteredServer == Structure(432, 434, 433,
  << "String", "String", "LocalizedTexts", "ApplicationType", "String", "Strings",
     "String", "Boolean" >>)
MdnsDiscoveryConfiguration == Structure(12891, 12901, 12893, << "String", "Strings" >>)
ChannelSecurityToken == Structure(441, 443, 442,
  << "UInt32", "UInt32", "DateTime", "UInt32" >>)
SignedSoftwareCertificate == Structure(344, 346, 345, << "ByteString", "ByteString" >>)
SignatureData == Structure(456, 458, 457, << "String", "ByteString" >>)
UserIdentityToken == Structure(316, 318, 317, << "String" >>)
AnonymousIdentityToken == Structure(319, 321, 320, << "String" >>)
UserNameIdentityToken == Structure(322, 324, 323,
  << "String", "String", "ByteString", "String" >>)
X509IdentityToken == Structure(325, 327, 326, << "String", "ByteString" >>)
IssuedIdentityToken == Structure(938, 940, 939, << "String", "ByteString", "String" >>)
NodeAttributes == Structure(349, 351, 350,
  << "UInt32", "LocalizedText", "LocalizedText", "UInt32", "UInt32" >>)
ObjectAttributes == Structure(352, 354, 353,
  << "UInt32", "LocalizedText", "LocalizedText", "UInt32", "UInt32", "Byte" >>)
VariableAttributes == Structure(355, 357, 356,
  << "UInt32", "LocalizedText", "LocalizedText", "UInt32", "UInt32", "Variant", "NodeId",
     "Int32", "UInt32s", "Byte", "Byte", "Double", "Boolean" >>)
MethodAttributes == Structure(358, 360, 359,
  << "UInt32", "LocalizedText", "LocalizedText", "UInt32", "UInt32", "Boolean", "Boolean"
     >>)
ObjectTypeAttributes == Structure(361, 363, 362,
  << "UInt32", "LocalizedText", "LocalizedText", "UInt32", "UInt32", "Boolean" >>)
VariableTypeAttributes == Structure(364, 366, 365,
  << "UInt32", "LocalizedText", "LocalizedText", "UInt32", "UInt32", "Variant", "NodeId",
     "Int32", "UInt32s", "Boolean" >>)
ReferenceTypeAttributes == Structure(367, 369, 368,
  << "UInt32", "LocalizedText", "LocalizedText", "UInt32", "UInt32", "Boolean", "Boolean",
     "LocalizedText" >>)
DataTypeAttributes == Structure(370, 372, 371,
  << "UInt32", "LocalizedText", "LocalizedText", "UInt32", "UInt32", "Boolean" >>)
ViewAttributes == Structure(373, 375, 374,
  << "UInt32", "LocalizedText", "LocalizedText", "UInt32", "UInt32", "Boolean", "Byte" >>)
AddNodesItem == Structure(376, 378, 377,
  << "ExpandedNodeId", "NodeId", "ExpandedNodeId", "QualifiedName", "NodeClass",
     "ExtensionObject", "ExpandedNodeId" >>)
AddNodesResult == Structure(483, 485, 484, << "StatusCode", "NodeId" >>)
AddReferencesItem == Structure(379, 381, 380,
  << "NodeId", "NodeId", "Boolean", "String", "ExpandedNodeId", "NodeClass" >>)
DeleteNodesItem == Structure(382, 384, 383, << "NodeId", "Boolean" >>)
DeleteReferencesItem == Structure(385, 387, 386,
  << "NodeId", "NodeId", "Boolean", "ExpandedNodeId", "Boolean" >>)
ViewDescription == Structure(511, 513, 512, << "NodeId", "DateTime", "UInt32" >>)
BrowseDescription == Structure(514, 516, 515,
  << "NodeId", "BrowseDirection", "NodeId", "Boolean", "UInt32", "UInt32" >>)
ReferenceDescription == Structure(518, 520, 519,
  << "NodeId", "Boolean", "ExpandedNodeId", "QualifiedName", "LocalizedText", "NodeClass",
     "ExpandedNodeId" >>)
BrowseResult == Structure(522, 524, 523,
  << "StatusCode", "ByteString", "ReferenceDescriptions" >>)
RelativePathElement == Structure(537, 539, 538,
  << "NodeId", "Boolean", "Boolean", "QualifiedName" >>)
RelativePath == Structure(540, 542, 541, << "RelativePathElements" >>)
BrowsePath == Structure(543, 545, 544, << "NodeId", "RelativePath" >>)
BrowsePathTarget == Structure(546, 548, 547, << "ExpandedNodeId", "UInt32" >>)
BrowsePathResult == Structure(549, 551, 550, << "StatusCode", "BrowsePathTargets" >>)
EndpointConfiguration == Structure(331, 333, 332,
  << "Int32", "Boolean", "Int32", "Int32", "Int32", "Int32", "Int32", "Int32", "Int32" >>)
QueryDataDescription == Structure(570, 572, 571,
  << "RelativePath", "UInt32", "String" >>)
NodeTypeDescription == Structure(573, 575, 574,
  << "ExpandedNodeId", "Boolean", "QueryDataDescriptions" >>)
QueryDataSet == Structure(577, 579, 578,
  << "ExpandedNodeId", "ExpandedNodeId", "Variants" >>)
NodeReference == Structure(580, 582, 581,
  << "NodeId", "NodeId", "Boolean", "NodeIds" >>)
ContentFilterElement == Structure(583, 585, 584,
  << "FilterOperator", "ExtensionObjects" >>)
ContentFilter == Structure(586, 588, 587, << "ContentFilterElements" >>)
ElementOperand == Structure(592, 594, 593, << "UInt32" >>)
LiteralOperand == Structure(595, 597, 596, << "Variant" >>)
AttributeOperand == Structure(598, 600, 599,
  << "NodeId", "String", "RelativePath", "UInt32", "String" >>)
SimpleAttributeOperand == Structure(601, 603, 602,
  << "NodeId", "QualifiedNames", "UInt32", "String" >>)
ContentFilterElementResult == Structure(604, 606, 605,
  << "StatusCode", "StatusCodes", "DiagnosticInfos" >>)
ContentFilterResult == Structure(607, 609, 608,
  << "ContentFilterElementResults", "DiagnosticInfos" >>)
ParsingResult == Structure(610, 612, 611,
  << "StatusCode", "StatusCodes", "DiagnosticInfos" >>)
ReadValueId == Structure(626, 628, 627,
  << "NodeId", "UInt32", "String", "QualifiedName" >>)
HistoryReadValueId == Structure(635, 637, 636,
  << "NodeId", "String", "QualifiedName", "ByteString" >>)
HistoryReadResult == Structure(638, 640, 639,
  << "StatusCode", "ByteString", "ExtensionObject" >>)
ReadEventDetails == Structure(644, 646, 645,
  << "UInt32", "DateTime", "DateTime", "EventFilter" >>)
ReadRawModifiedDetails == Structure(647, 649, 648,
  << "Boolean", "DateTime", "DateTime", "UInt32", "Boolean" >>)
ReadProcessedDetails == Structure(650, 652, 651,
  << "DateTime", "DateTime", "Double", "NodeIds", "AggregateConfiguration" >>)
ReadAtTimeDetails == Structure(653, 655, 654, << "DateTimes", "Boolean" >>)
HistoryData == Structure(656, 658, 657, << "DataValues" >>)
ModificationInfo == Structure(11216, 11226, 11218,
  << "DateTime", "HistoryUpdateType", "String" >>)
HistoryModifiedData == Structure(11217, 11227, 11219,
  << "DataValues", "ModificationInfos" >>)
HistoryEvent == Structure(659, 661, 660, << "HistoryEventFieldLists" >>)
WriteValue == Structure(668, 670, 669, << "NodeId", "UInt32", "String", "DataValue" >>)
HistoryUpdateDetails == Structure(677, 679, 678, << "NodeId" >>)
UpdateDataDetails == Structure(680, 682, 681,
  << "NodeId", "PerformUpdateType", "DataValues" >>)
UpdateStructureDataDetails == Structure(11295, 11300, 11296,
  << "NodeId", "PerformUpdateType", "DataValues" >>)
UpdateEventDetails == Structure(683, 685, 684,
  << "NodeId", "PerformUpdateType", "EventFilter", "HistoryEventFieldLists" >>)
DeleteRawModifiedDetails == Structure(686, 688, 687,
  << "NodeId", "Boolean", "DateTime", "DateTime" >>)
DeleteAtTimeDetails == Structure(689, 691, 690, << "NodeId", "DateTimes" >>)
DeleteEventDetails == Structure(692, 694, 693, << "NodeId", "ByteStrings" >>)
HistoryUpdateResult == Structure(695, 697, 696,
  << "StatusCode", "StatusCodes", "DiagnosticInfos" >>)
CallMethodRequest == Structure(704, 706, 705, << "NodeId", "NodeId", "Variants" >>)
CallMethodResult == Structure(707, 709, 708,
  << "StatusCode", "StatusCodes", "DiagnosticInfos", "Variants" >>)
DataChangeFilter == Structure(722, 724, 723,
  << "DataChangeTrigger", "UInt32", "Double" >>)
EventFilter == Structure(725, 727, 726,
  << "SimpleAttributeOperands", "ContentFilter" >>)
AggregateConfiguration == Structure(948, 950, 949,
  << "Boolean", "Boolean", "Byte", "Byte", "Boolean" >>)
AggregateFilter == Structure(728, 730, 729,
  << "DateTime", "NodeId", "Double", "AggregateConfiguration" >>)
EventFilterResult == Structure(734, 736, 735,
  << "StatusCodes", "DiagnosticInfos", "ContentFilterResult" >>)
AggregateFilterResult == Structure(737, 739, 738,
  << "DateTime", "Double", "AggregateConfiguration" >>)
MonitoringParameters == Structure(740, 742, 741,
  << "UInt32", "Double", "ExtensionObject", "UInt32", "Boolean" >>)
MonitoredItemCreateRequest == Structure(743, 745, 744,
  << "ReadValueId", "MonitoringMode", "MonitoringParameters" >>)
MonitoredItemCreateResult == Structure(746, 748, 747,
  << "StatusCode", "UInt32", "Double", "UInt32", "ExtensionObject" >>)
MonitoredItemModifyRequest == Structure(755, 757, 756,
  << "UInt32", "MonitoringParameters" >>)
MonitoredItemModifyResult == Structure(758, 760, 759,
  << "StatusCode", "Double", "UInt32", "ExtensionObject" >>)
NotificationMessage == Structure(803, 805, 804,
  << "UInt32", "DateTime", "ExtensionObjects" >>)
DataChangeNotification == Structure(809, 811, 810,
  << "MonitoredItemNotifications", "DiagnosticInfos" >>)
MonitoredItemNotification == Structure(806, 808, 807, << "UInt32", "DataValue" >>)
EventNotificationList == Structure(914, 916, 915, << "EventFieldLists" >>)
EventFieldList == Structure(917, 919, 918, << "UInt32", "Variants" >>)
HistoryEventFieldList == Structure(920, 922, 921, << "Variants" >>)
StatusChangeNotification == Structure(818, 820, 819,
  << "StatusCode", "DiagnosticInfo" >>)
SubscriptionAcknowledgement == Structure(821, 823, 822, << "UInt32", "UInt32" >>)
TransferResult == Structure(836, 838, 837, << "StatusCode", "UInt32s" >>)
BuildInfo == Structure(338, 340, 339,
  << "String", "String", "String", "String", "String", "DateTime" >>)
RedundantServerDataType == Structure(853, 855, 854,
  << "String", "Byte", "ServerState" >>)
EndpointUrlListDataType == Structure(11943, 11957, 11949, << "Strings" >>)
NetworkGroupDataType == Structure(11944, 11958, 11950,
  << "String", "EndpointUrlListDataTypes" >>)
SamplingIntervalDiagnosticsDataType == Structure(856, 858, 857,
  << "Double", "UInt32", "UInt32", "UInt32" >>)
ServerDiagnosticsSummaryDataType == Structure(859, 861, 860,
  << "UInt32", "UInt32", "UInt32", "UInt32", "UInt32", "UInt32", "UInt32", "UInt32",
     "UInt32", "UInt32", "UInt32", "UInt32" >>)
ServerStatusDataType == Structure(862, 864, 863,
  << "DateTime", "DateTime", "ServerState", "BuildInfo", "UInt32", "LocalizedText" >>)
SessionDiagnosticsDataType == Structure(865, 867, 866,
  << "NodeId", "String", "ApplicationDescription", "String", "String", "Strings",
     "Double", "UInt32", "DateTime", "DateTime", "UInt32", "UInt32", "UInt32",
     "ServiceCounterDataType", "UInt32", "ServiceCounterDataType",
     "ServiceCounterDataType", "ServiceCounterDataType", "ServiceCounterDataType",
     "ServiceCounterDataType", "ServiceCounterDataType", "ServiceCounterDataType",
     "ServiceCounterDataType", "ServiceCounterDataType", "ServiceCounterDataType",
     "ServiceCounterDataType", "ServiceCounterDataType", "ServiceCounterDataType",
     "ServiceCounterDataType", "ServiceCounterDataType", "ServiceCounterDataType",
     "ServiceCounterDataType", "ServiceCounterDataType", "ServiceCounterDataType",
     "ServiceCounterDataType", "ServiceCounterDataType", "ServiceCounterDataType",
     "ServiceCounterDataType", "ServiceCounterDataType", "ServiceCounterDataType",
     "ServiceCounterDataType", "ServiceCounterDataType", "ServiceCounterDataType" >>)
SessionSecurityDiagnosticsDataType == Structure(868, 870, 869,
  << "NodeId", "String", "Strings", "String", "String", "String", "MessageSecurityMode",
     "String", "ByteString" >>)
ServiceCounterDataType == Structure(871, 873, 872, << "UInt32", "UInt32" >>)
StatusResult == Structure(299, 301, 300, << "StatusCode", "DiagnosticInfo" >>)
SubscriptionDiagnosticsDataType == Structure(874, 876, 875,
  << "NodeId", "UInt32", "Byte", "Double", "UInt32", "UInt32", "UInt32", "Boolean",
     "UInt32", "UInt32", "UInt32", "UInt32", "UInt32", "UInt32", "UInt32", "UInt32",
     "UInt32", "UInt32", "UInt32", "UInt32", "UInt32", "UInt32", "UInt32", "UInt32",
     "UInt32", "UInt32", "UInt32", "UInt32", "UInt32", "UInt32", "UInt32" >>)
ModelChangeStructureDataType == Structure(877, 879, 878,
  << "NodeId", "NodeId", "Byte" >>)
SemanticChangeStructureDataType == Structure(897, 899, 898, << "NodeId", "NodeId" >>)
Range == Structure(884, 886, 885, << "Double", "Double" >>)
EUInformation == Structure(887, 889, 888,
  << "String", "Int32", "LocalizedText", "LocalizedText" >>)
ComplexNumberType == Structure(12171, 12181, 12173, << "Float", "Float" >>)
DoubleComplexNumberType == Structure(12172, 12182, 12174, << "Double", "Double" >>)
AxisInformation == Structure(12079, 12089, 12081,
  << "EUInformation", "Range", "LocalizedText", "AxisScaleEnumeration", "Doubles" >>)
XVType == Structure(12080, 12090, 12082, << "Double", "Float" >>)
ProgramDiagnosticDataType == Structure(894, 896, 895,
  << "NodeId", "String", "DateTime", "DateTime", "String", "NodeId", "Arguments",
     "Arguments", "DateTime", "StatusResult" >>)
Annotation == Structure(891, 893, 892, << "String", "String", "DateTime" >>)

----------------------------------------------------------------------------
\* The structures of this module in the table every program starts with.
KnownStructures ==
  [Node |-> Node, InstanceNode |-> InstanceNode, TypeNode |-> TypeNode,
   ObjectNode |-> ObjectNode, ObjectTypeNode |-> ObjectTypeNode,
   VariableNode |-> VariableNode, VariableTypeNode |-> VariableTypeNode,
   ReferenceTypeNode |-> ReferenceTypeNode, MethodNode |-> MethodNode,
   ViewNode |-> ViewNode, DataTypeNode |-> DataTypeNode,
   ReferenceNode |-> ReferenceNode, Argument |-> Argument,
   EnumValueType |-> EnumValueType, OptionSet |-> OptionSet,
   TimeZoneDataType |-> TimeZoneDataType,
   ApplicationDescription |-> ApplicationDescription, RequestHeader |-> RequestHeader,
   ResponseHeader |-> ResponseHeader, ServerOnNetwork |-> ServerOnNetwork,
   UserTokenPolicy |-> UserTokenPolicy, EndpointDescription |-> EndpointDescription,
   RegisteredServer |-> RegisteredServer,
   MdnsDiscoveryConfiguration |-> MdnsDiscoveryConfiguration,
   ChannelSecurityToken |-> ChannelSecurityToken,
   SignedSoftwareCertificate |-> SignedSoftwareCertificate,
   SignatureData |-> SignatureData, UserIdentityToken |-> UserIdentityToken,
   AnonymousIdentityToken |-> AnonymousIdentityToken,
   UserNameIdentityToken |-> UserNameIdentityToken,
   X509IdentityToken |-> X509IdentityToken, IssuedIdentityToken |-> IssuedIdentityToken,
   NodeAttributes |-> NodeAttributes, ObjectAttributes |-> ObjectAttributes,
   VariableAttributes |-> VariableAttributes, MethodAttributes |-> MethodAttributes,
   ObjectTypeAttributes |-> ObjectTypeAttributes,
   VariableTypeAttributes |-> VariableTypeAttributes,
   ReferenceTypeAttributes |-> ReferenceTypeAttributes,
   DataTypeAttributes |-> DataTypeAttributes, ViewAttributes |-> ViewAttributes,
   AddNodesItem |-> AddNodesItem, AddNodesResult |-> AddNodesResult,
   AddReferencesItem |-> AddReferencesItem, DeleteNodesItem |-> DeleteNodesItem,
   DeleteReferencesItem |-> DeleteReferencesItem, ViewDescription |-> ViewDescription,
   BrowseDescription |-> BrowseDescription,
   ReferenceDescription |-> ReferenceDescription, BrowseResult |-> BrowseResult,
   RelativePathElement |-> RelativePathElement, RelativePath |-> RelativePath,
   BrowsePath |-> BrowsePath, BrowsePathTarget |-> BrowsePathTarget,
   BrowsePathResult |-> BrowsePathResult,
   EndpointConfiguration |-> EndpointConfiguration,
   QueryDataDescription |-> QueryDataDescription,
   NodeTypeDescription |-> NodeTypeDescription, QueryDataSet |-> QueryDataSet,
   NodeReference |-> NodeReference, ContentFilterElement |-> ContentFilterElement,
   ContentFilter |-> ContentFilter, ElementOperand |-> ElementOperand,
   LiteralOperand |-> LiteralOperand, AttributeOperand |-> AttributeOperand,
   SimpleAttributeOperand |-> SimpleAttributeOperand,
   ContentFilterElementResult |-> ContentFilterElementResult,
   ContentFilterResult |-> ContentFilterResult, ParsingResult |-> ParsingResult,
   ReadValueId |-> ReadValueId, HistoryReadValueId |-> HistoryReadValueId,
   HistoryReadResult |-> HistoryReadResult, ReadEventDetails |-> ReadEventDetails,
   ReadRawModifiedDetails |-> ReadRawModifiedDetails,
   ReadProcessedDetails |-> ReadProcessedDetails,
   ReadAtTimeDetails |-> ReadAtTimeDetails, HistoryData |-> HistoryData,
   ModificationInfo |-> ModificationInfo, HistoryModifiedData |-> HistoryModifiedData,
   HistoryEvent |-> HistoryEvent, WriteValue |-> WriteValue,
   HistoryUpdateDetails |-> HistoryUpdateDetails,
   UpdateDataDetails |-> UpdateDataDetails,
   UpdateStructureDataDetails |-> UpdateStructureDataDetails,
   UpdateEventDetails |-> UpdateEventDetails,
   DeleteRawModifiedDetails |-> DeleteRawModifiedDetails,
   DeleteAtTimeDetails |-> DeleteAtTimeDetails,
   DeleteEventDetails |-> DeleteEventDetails,
   HistoryUpdateResult |-> HistoryUpdateResult, CallMethodRequest |-> CallMethodRequest,
   CallMethodResult |-> CallMethodResult, DataChangeFilter |-> DataChangeFilter,
   EventFilter |-> EventFilter, AggregateConfiguration |-> AggregateConfiguration,
   AggregateFilter |-> AggregateFilter, EventFilterResult |-> EventFilterResult,
   AggregateFilterResult |-> AggregateFilterResult,
   MonitoringParameters |-> MonitoringParameters,
   MonitoredItemCreateRequest |-> MonitoredItemCreateRequest,
   MonitoredItemCreateResult |-> MonitoredItemCreateResult,
   MonitoredItemModifyRequest |-> MonitoredItemModifyRequest,
   MonitoredItemModifyResult |-> MonitoredItemModifyResult,
   NotificationMessage |-> NotificationMessage,
   DataChangeNotification |-> DataChangeNotification,
   MonitoredItemNotification |-> MonitoredItemNotification,
   EventNotificationList |-> EventNotificationList, EventFieldList |-> EventFieldList,
   HistoryEventFieldList |-> HistoryEventFieldList,
   StatusChangeNotification |-> StatusChangeNotification,
   SubscriptionAcknowledgement |-> SubscriptionAcknowledgement,
   TransferResult |-> TransferResult, BuildInfo |-> BuildInfo,
   RedundantServerDataType |-> RedundantServerDataType,
   EndpointUrlListDataType |-> EndpointUrlListDataType,
   NetworkGroupDataType |-> NetworkGroupDataType,
   SamplingIntervalDiagnosticsDataType |-> SamplingIntervalDiagnosticsDataType,
   ServerDiagnosticsSummaryDataType |-> ServerDiagnosticsSummaryDataType,
   ServerStatusDataType |-> ServerStatusDataType,
   SessionDiagnosticsDataType |-> SessionDiagnosticsDataType,
   SessionSecurityDiagnosticsDataType |-> SessionSecurityDiagnosticsDataType,
   ServiceCounterDataType |-> ServiceCounterDataType, StatusResult |-> StatusResult,
   SubscriptionDiagnosticsDataType |-> SubscriptionDiagnosticsDataType,
   ModelChangeStructureDataType |-> ModelChangeStructureDataType,
   SemanticChangeStructureDataType |-> SemanticChangeStructureDataType, Range |-> Range,
   EUInformation |-> EUInformation, ComplexNumberType |-> ComplexNumberType,
   DoubleComplexNumberType |-> DoubleComplexNumberType,
   AxisInformation |-> AxisInformation, XVType |-> XVType,
   ProgramDiagnosticDataType |-> ProgramDiagnosticDataType, Annotation |-> Annotation]
=============================================================================
