---------------------------- MODULE UaMessages -----------------------------
(****************************************************************************)
(* The requests and responses of the UA services (stackcore/opcua_types.c): *)
(* the structures that begin with a header, given as in UaTypes.            *)
(****************************************************************************)
EXTENDS UaTypes, TLC

ServiceFault == Structure(395, 397, 396, << "ResponseHeader" >>)
FindServersRequest == Structure(420, 422, 421,
  << "RequestHeader", "String", "Strings", "Strings" >>)
FindServersResponse == Structure(423, 425, 424,
  << "ResponseHeader", "ApplicationDescriptions" >>)
FindServersOnNetworkRequest == Structure(12190, 12208, 12196,
  << "RequestHeader", "UInt32", "UInt32", "Strings" >>)
FindServersOnNetworkResponse == Structure(12191, 12209, 12197,
  << "ResponseHeader", "DateTime", "ServerOnNetworks" >>)
GetEndpointsRequest == Structure(426, 428, 427,
  << "RequestHeader", "String", "Strings", "Strings" >>)
GetEndpointsResponse == Structure(429, 431, 430,
  << "ResponseHeader", "EndpointDescriptions" >>)
RegisterServerRequest == Structure(435, 437, 436,
  << "RequestHeader", "RegisteredServer" >>)
RegisterServerResponse == Structure(438, 440, 439, << "ResponseHeader" >>)
RegisterServer2Request == Structure(12193, 12211, 12199,
  << "RequestHeader", "RegisteredServer", "ExtensionObjects" >>)
RegisterServer2Response == Structure(12194, 12212, 12200,
  << "ResponseHeader", "StatusCodes", "DiagnosticInfos" >>)
OpenSecureChannelRequest == Structure(444, 446, 445,
  << "RequestHeader", "UInt32", "SecurityTokenRequestType", "MessageSecurityMode",
     "ByteString", "UInt32" >>)
OpenSecureChannelResponse == Structure(447, 449, 448,
  << "ResponseHeader", "UInt32", "ChannelSecurityToken", "ByteString" >>)
CloseSecureChannelRequest == Structure(450, 452, 451, << "RequestHeader" >>)
CloseSecureChannelResponse == Structure(453, 455, 454, << "ResponseHeader" >>)
CreateSessionRequest == Structure(459, 461, 460,
  << "RequestHeader", "ApplicationDescription", "String", "String", "String",
     "ByteString", "ByteString", "Double", "UInt32" >>)
CreateSessionResponse == Structure(462, 464, 463,
  << "ResponseHeader", "NodeId", "NodeId", "Double", "ByteString", "ByteString",
     "EndpointDescriptions", "SignedSoftwareCertificates", "SignatureData", "UInt32" >>)
ActivateSessionRequest == Structure(465, 467, 466,
  << "RequestHeader", "SignatureData", "SignedSoftwareCertificates", "Strings",
     "ExtensionObject", "SignatureData" >>)
ActivateSessionResponse == Structure(468, 470, 469,
  << "ResponseHeader", "ByteString", "StatusCodes", "DiagnosticInfos" >>)
CloseSessionRequest == Structure(471, 473, 472, << "RequestHeader", "Boolean" >>)
CloseSessionResponse == Structure(474, 476, 475, << "ResponseHeader" >>)
CancelRequest == Structure(477, 479, 478, << "RequestHeader", "UInt32" >>)
CancelResponse == Structure(480, 482, 481, << "ResponseHeader", "UInt32" >>)
AddNodesRequest == Structure(486, 488, 487, << "RequestHeader", "AddNodesItems" >>)
AddNodesResponse == Structure(489, 491, 490,
  << "ResponseHeader", "AddNodesResults", "DiagnosticInfos" >>)
AddReferencesRequest == Structure(492, 494, 493,
  << "RequestHeader", "AddReferencesItems" >>)
AddReferencesResponse == Structure(495, 497, 496,
  << "ResponseHeader", "StatusCodes", "DiagnosticInfos" >>)
DeleteNodesRequest == Structure(498, 500, 499,
  << "RequestHeader", "DeleteNodesItems" >>)
DeleteNodesResponse == Structure(501, 503, 502,
  << "ResponseHeader", "StatusCodes", "DiagnosticInfos" >>)
DeleteReferencesRequest == Structure(504, 506, 505,
  << "RequestHeader", "DeleteReferencesItems" >>)
DeleteReferencesResponse == Structure(507, 509, 508,
  << "ResponseHeader", "StatusCodes", "DiagnosticInfos" >>)
BrowseRequest == Structure(525, 527, 526,
  << "RequestHeader", "ViewDescription", "UInt32", "BrowseDescriptions" >>)
BrowseResponse == Structure(528, 530, 529,
  << "ResponseHeader", "BrowseResults", "DiagnosticInfos" >>)
BrowseNextRequest == Structure(531, 533, 532,
  << "RequestHeader", "Boolean", "ByteStrings" >>)
BrowseNextResponse == Structure(534, 536, 535,
  << "ResponseHeader", "BrowseResults", "DiagnosticInfos" >>)
TranslateBrowsePathsToNodeIdsRequest == Structure(552, 554, 553,
  << "RequestHeader", "BrowsePaths" >>)
TranslateBrowsePathsToNodeIdsResponse == Structure(555, 557, 556,
  << "ResponseHeader", "BrowsePathResults", "DiagnosticInfos" >>)
RegisterNodesRequest == Structure(558, 560, 559, << "RequestHeader", "NodeIds" >>)
RegisterNodesResponse == Structure(561, 563, 562, << "ResponseHeader", "NodeIds" >>)
UnregisterNodesRequest == Structure(564, 566, 565, << "RequestHeader", "NodeIds" >>)
UnregisterNodesResponse == Structure(567, 569, 568, << "ResponseHeader" >>)
QueryFirstRequest == Structure(613, 615, 614,
  << "RequestHeader", "ViewDescription", "NodeTypeDescriptions", "ContentFilter",
     "UInt32", "UInt32" >>)
QueryFirstResponse == Structure(616, 618, 617,
  << "ResponseHeader", "QueryDataSets", "ByteString", "ParsingResults", "DiagnosticInfos",
     "ContentFilterResult" >>)
QueryNextRequest == Structure(619, 621, 620,
  << "RequestHeader", "Boolean", "ByteString" >>)
QueryNextResponse == Structure(622, 624, 623,
  << "ResponseHeader", "QueryDataSets", "ByteString" >>)
ReadRequest == Structure(629, 631, 630,
  << "RequestHeader", "Double", "TimestampsToReturn", "ReadValueIds" >>)
ReadResponse == Structure(632, 634, 633,
  << "ResponseHeader", "DataValues", "DiagnosticInfos" >>)
HistoryReadRequest == Structure(662, 664, 663,
  << "RequestHeader", "ExtensionObject", "TimestampsToReturn", "Boolean",
     "HistoryReadValueIds" >>)
HistoryReadResponse == Structure(665, 667, 666,
  << "ResponseHeader", "HistoryReadResults", "DiagnosticInfos" >>)
WriteRequest == Structure(671, 673, 672, << "RequestHeader", "WriteValues" >>)
WriteResponse == Structure(674, 676, 675,
  << "ResponseHeader", "StatusCodes", "DiagnosticInfos" >>)
HistoryUpdateRequest == Structure(698, 700, 699,
  << "RequestHeader", "ExtensionObjects" >>)
HistoryUpdateResponse == Structure(701, 703, 702,
  << "ResponseHeader", "HistoryUpdateResults", "DiagnosticInfos" >>)
CallRequest == Structure(710, 712, 711, << "RequestHeader", "CallMethodRequests" >>)
CallResponse == Structure(713, 715, 714,
  << "ResponseHeader", "CallMethodResults", "DiagnosticInfos" >>)
CreateMonitoredItemsRequest == Structure(749, 751, 750,
  << "RequestHeader", "UInt32", "TimestampsToReturn", "MonitoredItemCreateRequests" >>)
CreateMonitoredItemsResponse == Structure(752, 754, 753,
  << "ResponseHeader", "MonitoredItemCreateResults", "DiagnosticInfos" >>)
ModifyMonitoredItemsRequest == Structure(761, 763, 762,
  << "RequestHeader", "UInt32", "TimestampsToReturn", "MonitoredItemModifyRequests" >>)
ModifyMonitoredItemsResponse == Structure(764, 766, 765,
  << "ResponseHeader", "MonitoredItemModifyResults", "DiagnosticInfos" >>)
SetMonitoringModeRequest == Structure(767, 769, 768,
  << "RequestHeader", "UInt32", "MonitoringMode", "UInt32s" >>)
SetMonitoringModeResponse == Structure(770, 772, 771,
  << "ResponseHeader", "StatusCodes", "DiagnosticInfos" >>)
SetTriggeringRequest == Structure(773, 775, 774,
  << "RequestHeader", "UInt32", "UInt32", "UInt32s", "UInt32s" >>)
SetTriggeringResponse == Structure(776, 778, 777,
  << "ResponseHeader", "StatusCodes", "DiagnosticInfos", "StatusCodes", "DiagnosticInfos"
     >>)
DeleteMonitoredItemsRequest == Structure(779, 781, 780,
  << "RequestHeader", "UInt32", "UInt32s" >>)
DeleteMonitoredItemsResponse == Structure(782, 784, 783,
  << "ResponseHeader", "StatusCodes", "DiagnosticInfos" >>)
CreateSubscriptionRequest == Structure(785, 787, 786,
  << "RequestHeader", "Double", "UInt32", "UInt32", "UInt32", "Boolean", "Byte" >>)
CreateSubscriptionResponse == Structure(788, 790, 789,
  << "ResponseHeader", "UInt32", "Double", "UInt32", "UInt32" >>)
ModifySubscriptionRequest == Structure(791, 793, 792,
  << "RequestHeader", "UInt32", "Double", "UInt32", "UInt32", "UInt32", "Byte" >>)
ModifySubscriptionResponse == Structure(794, 796, 795,
  << "ResponseHeader", "Double", "UInt32", "UInt32" >>)
SetPublishingModeRequest == Structure(797, 799, 798,
  << "RequestHeader", "Boolean", "UInt32s" >>)
SetPublishingModeResponse == Structure(800, 802, 801,
  << "ResponseHeader", "StatusCodes", "DiagnosticInfos" >>)
PublishRequest == Structure(824, 826, 825,
  << "RequestHeader", "SubscriptionAcknowledgements" >>)
PublishResponse == Structure(827, 829, 828,
  << "ResponseHeader", "UInt32", "UInt32s", "Boolean", "NotificationMessage",
     "StatusCodes", "DiagnosticInfos" >>)
RepublishRequest == Structure(830, 832, 831, << "RequestHeader", "UInt32", "UInt32" >>)
RepublishResponse == Structure(833, 835, 834,
  << "ResponseHeader", "NotificationMessage" >>)
TransferSubscriptionsRequest == Structure(839, 841, 840,
  << "RequestHeader", "UInt32s", "Boolean" >>)
TransferSubscriptionsResponse == Structure(842, 844, 843,
  << "ResponseHeader", "TransferResults", "DiagnosticInfos" >>)
DeleteSubscriptionsRequest == Structure(845, 847, 846, << "RequestHeader", "UInt32s" >>)
DeleteSubscriptionsResponse == Structure(848, 850, 849,
  << "ResponseHeader", "StatusCodes", "DiagnosticInfos" >>)

----------------------------------------------------------------------------
KnownMessages ==
  [ServiceFault |-> ServiceFault, FindServersRequest |-> FindServersRequest,
   FindServersResponse |-> FindServersResponse,
   FindServersOnNetworkRequest |-> FindServersOnNetworkRequest,
   FindServersOnNetworkResponse |-> FindServersOnNetworkResponse,
   GetEndpointsRequest |-> GetEndpointsRequest,
   GetEndpointsResponse |-> GetEndpointsResponse,
   RegisterServerRequest |-> RegisterServerRequest,
   RegisterServerResponse |-> RegisterServerResponse,
   RegisterServer2Request |-> RegisterServer2Request,
   RegisterServer2Response |-> RegisterServer2Response,
   OpenSecureChannelRequest |-> OpenSecureChannelRequest,
   OpenSecureChannelResponse |-> OpenSecureChannelResponse,
   CloseSecureChannelRequest |-> CloseSecureChannelRequest,
   CloseSecureChannelResponse |-> CloseSecureChannelResponse,
   CreateSessionRequest |-> CreateSessionRequest,
   CreateSessionResponse |-> CreateSessionResponse,
   ActivateSessionRequest |-> ActivateSessionRequest,
   ActivateSessionResponse |-> ActivateSessionResponse,
   CloseSessionRequest |-> CloseSessionRequest,
   CloseSessionResponse |-> CloseSessionResponse, CancelRequest |-> CancelRequest,
   CancelResponse |-> CancelResponse, AddNodesRequest |-> AddNodesRequest,
   AddNodesResponse |-> AddNodesResponse, AddReferencesRequest |-> AddReferencesRequest,
   AddReferencesResponse |-> AddReferencesResponse,
   DeleteNodesRequest |-> DeleteNodesRequest,
   DeleteNodesResponse |-> DeleteNodesResponse,
   DeleteReferencesRequest |-> DeleteReferencesRequest,
   DeleteReferencesResponse |-> DeleteReferencesResponse,
   BrowseRequest |-> BrowseRequest, BrowseResponse |-> BrowseResponse,
   BrowseNextRequest |-> BrowseNextRequest, BrowseNextResponse |-> BrowseNextResponse,
   TranslateBrowsePathsToNodeIdsRequest |-> TranslateBrowsePathsToNodeIdsRequest,
   TranslateBrowsePathsToNodeIdsResponse |-> TranslateBrowsePathsToNodeIdsResponse,
   RegisterNodesRequest |-> RegisterNodesRequest,
   RegisterNodesResponse |-> RegisterNodesResponse,
   UnregisterNodesRequest |-> UnregisterNodesRequest,
   UnregisterNodesResponse |-> UnregisterNodesResponse,
   QueryFirstRequest |-> QueryFirstRequest, QueryFirstResponse |-> QueryFirstResponse,
   QueryNextRequest |-> QueryNextRequest, QueryNextResponse |-> QueryNextResponse,
   ReadRequest |-> ReadRequest, ReadResponse |-> ReadResponse,
   HistoryReadRequest |-> HistoryReadRequest,
   HistoryReadResponse |-> HistoryReadResponse, WriteRequest |-> WriteRequest,
   WriteResponse |-> WriteResponse, HistoryUpdateRequest |-> HistoryUpdateRequest,
   HistoryUpdateResponse |-> HistoryUpdateResponse, CallRequest |-> CallRequest,
   CallResponse |-> CallResponse,
   CreateMonitoredItemsRequest |-> CreateMonitoredItemsRequest,
   CreateMonitoredItemsResponse |-> CreateMonitoredItemsResponse,
   ModifyMonitoredItemsRequest |-> ModifyMonitoredItemsRequest,
   ModifyMonitoredItemsResponse |-> ModifyMonitoredItemsResponse,
   SetMonitoringModeRequest |-> SetMonitoringModeRequest,
   SetMonitoringModeResponse |-> SetMonitoringModeResponse,
   SetTriggeringRequest |-> SetTriggeringRequest,
   SetTriggeringResponse |-> SetTriggeringResponse,
   DeleteMonitoredItemsRequest |-> DeleteMonitoredItemsRequest,
   DeleteMonitoredItemsResponse |-> DeleteMonitoredItemsResponse,
   CreateSubscriptionRequest |-> CreateSubscriptionRequest,
   CreateSubscriptionResponse |-> CreateSubscriptionResponse,
   ModifySubscriptionRequest |-> ModifySubscriptionRequest,
   ModifySubscriptionResponse |-> ModifySubscriptionResponse,
   SetPublishingModeRequest |-> SetPublishingModeRequest,
   SetPublishingModeResponse |-> SetPublishingModeResponse,
   PublishRequest |-> PublishRequest, PublishResponse |-> PublishResponse,
   RepublishRequest |-> RepublishRequest, RepublishResponse |-> RepublishResponse,
   TransferSubscriptionsRequest |-> TransferSubscriptionsRequest,
   TransferSubscriptionsResponse |-> TransferSubscriptionsResponse,
   DeleteSubscriptionsRequest |-> DeleteSubscriptionsRequest,
   DeleteSubscriptionsResponse |-> DeleteSubscriptionsResponse]

\* The types every table of types starts with (OpcUa_KnownEncodeableTypes).
KnownTypes == KnownStructures @@ KnownMessages
=============================================================================
