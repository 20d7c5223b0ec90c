----------------------------- MODULE ClientServices -------------------------
(****************************************************************************)
(* The generated client functions (proxystub/clientproxy/opcua_clientapi.c).*)
(*                                                                          *)
(* Every service has a function that waits for the answer and one that does *)
(* not, which fill the same request: ServiceCalls!Invoke with               *)
(* ServiceCalls!Complete, and ServiceCalls!Begin with ServiceCalls!CallBack.*)
(* The services differ in the type of the request, the response they expect *)
(* and the fields their parameters are copied to and from, in the order of  *)
(* the parameters.  An array and its number of items are two parameters and *)
(* one field here.                                                          *)
(****************************************************************************)
Service(request, response, arguments, results) ==
  [request |-> request, response |-> response,
   arguments |-> arguments, results |-> results]

----------------------------------------------------------------------------
(* The services.                                                            *)

FindServers == Service("FindServersRequest", "FindServersResponse",
  << "RequestHeader", "EndpointUrl", "LocaleIds", "ServerUris" >>,
  << "ResponseHeader", "Servers" >>)
FindServersOnNetwork == Service("FindServersOnNetworkRequest", "FindServersOnNetworkResponse",
  << "RequestHeader", "StartingRecordId", "MaxRecordsToReturn",
     "ServerCapabilityFilter" >>,
  << "ResponseHeader", "LastCounterResetTime", "Servers" >>)
GetEndpoints == Service("GetEndpointsRequest", "GetEndpointsResponse",
  << "RequestHeader", "EndpointUrl", "LocaleIds", "ProfileUris" >>,
  << "ResponseHeader", "Endpoints" >>)
RegisterServer == Service("RegisterServerRequest", "RegisterServerResponse",
  << "RequestHeader", "Server" >>,
  << "ResponseHeader" >>)
RegisterServer2 == Service("RegisterServer2Request", "RegisterServer2Response",
  << "RequestHeader", "Server", "DiscoveryConfiguration" >>,
  << "ResponseHeader", "ConfigurationResults", "DiagnosticInfos" >>)
CreateSession == Service("CreateSessionRequest", "CreateSessionResponse",
  << "RequestHeader", "ClientDescription", "ServerUri", "EndpointUrl", "SessionName",
     "ClientNonce", "ClientCertificate", "RequestedSessionTimeout",
     "MaxResponseMessageSize" >>,
  << "ResponseHeader", "SessionId", "AuthenticationToken", "RevisedSessionTimeout",
     "ServerNonce", "ServerCertificate", "ServerEndpoints",
     "ServerSoftwareCertificates", "ServerSignature", "MaxRequestMessageSize" >>)
ActivateSession == Service("ActivateSessionRequest", "ActivateSessionResponse",
  << "RequestHeader", "ClientSignature", "ClientSoftwareCertificates", "LocaleIds",
     "UserIdentityToken", "UserTokenSignature" >>,
  << "ResponseHeader", "ServerNonce", "Results", "DiagnosticInfos" >>)
CloseSession == Service("CloseSessionRequest", "CloseSessionResponse",
  << "RequestHeader", "DeleteSubscriptions" >>,
  << "ResponseHeader" >>)
Cancel == Service("CancelRequest", "CancelResponse",
  << "RequestHeader", "RequestHandle" >>,
  << "ResponseHeader", "CancelCount" >>)
AddNodes == Service("AddNodesRequest", "AddNodesResponse",
  << "RequestHeader", "NodesToAdd" >>,
  << "ResponseHeader", "Results", "DiagnosticInfos" >>)
AddReferences == Service("AddReferencesRequest", "AddReferencesResponse",
  << "RequestHeader", "ReferencesToAdd" >>,
  << "ResponseHeader", "Results", "DiagnosticInfos" >>)
DeleteNodes == Service("DeleteNodesRequest", "DeleteNodesResponse",
  << "RequestHeader", "NodesToDelete" >>,
  << "ResponseHeader", "Results", "DiagnosticInfos" >>)
DeleteReferences == Service("DeleteReferencesRequest", "DeleteReferencesResponse",
  << "RequestHeader", "ReferencesToDelete" >>,
  << "ResponseHeader", "Results", "DiagnosticInfos" >>)

\* OpcUa_ClientApi_Browse.
Browse == Service("BrowseRequest", "BrowseResponse",
  << "RequestHeader", "View", "RequestedMaxReferencesPerNode", "NodesToBrowse" >>,
  << "ResponseHeader", "Results", "DiagnosticInfos" >>)

BrowseNext == Service("BrowseNextRequest", "BrowseNextResponse",
  << "RequestHeader", "ReleaseContinuationPoints", "ContinuationPoints" >>,
  << "ResponseHeader", "Results", "DiagnosticInfos" >>)
TranslateBrowsePathsToNodeIds == Service("TranslateBrowsePathsToNodeIdsRequest", "TranslateBrowsePathsToNodeIdsResponse",
  << "RequestHeader", "BrowsePaths" >>,
  << "ResponseHeader", "Results", "DiagnosticInfos" >>)
RegisterNodes == Service("RegisterNodesRequest", "RegisterNodesResponse",
  << "RequestHeader", "NodesToRegister" >>,
  << "ResponseHeader", "RegisteredNodeIds" >>)
UnregisterNodes == Service("UnregisterNodesRequest", "UnregisterNodesResponse",
  << "RequestHeader", "NodesToUnregister" >>,
  << "ResponseHeader" >>)
QueryFirst == Service("QueryFirstRequest", "QueryFirstResponse",
  << "RequestHeader", "View", "NodeTypes", "Filter", "MaxDataSetsToReturn",
     "MaxReferencesToReturn" >>,
  << "ResponseHeader", "QueryDataSets", "ContinuationPoint", "ParsingResults",
     "DiagnosticInfos", "FilterResult" >>)
QueryNext == Service("QueryNextRequest", "QueryNextResponse",
  << "RequestHeader", "ReleaseContinuationPoint", "ContinuationPoint" >>,
  << "ResponseHeader", "QueryDataSets", "RevisedContinuationPoint" >>)
Read == Service("ReadRequest", "ReadResponse",
  << "RequestHeader", "MaxAge", "TimestampsToReturn", "NodesToRead" >>,
  << "ResponseHeader", "Results", "DiagnosticInfos" >>)
HistoryRead == Service("HistoryReadRequest", "HistoryReadResponse",
  << "RequestHeader", "HistoryReadDetails", "TimestampsToReturn",
     "ReleaseContinuationPoints", "NodesToRead" >>,
  << "ResponseHeader", "Results", "DiagnosticInfos" >>)
Write == Service("WriteRequest", "WriteResponse",
  << "RequestHeader", "NodesToWrite" >>,
  << "ResponseHeader", "Results", "DiagnosticInfos" >>)
HistoryUpdate == Service("HistoryUpdateRequest", "HistoryUpdateResponse",
  << "RequestHeader", "HistoryUpdateDetails" >>,
  << "ResponseHeader", "Results", "DiagnosticInfos" >>)
Call == Service("CallRequest", "CallResponse",
  << "RequestHeader", "MethodsToCall" >>,
  << "ResponseHeader", "Results", "DiagnosticInfos" >>)
CreateMonitoredItems == Service("CreateMonitoredItemsRequest", "CreateMonitoredItemsResponse",
  << "RequestHeader", "SubscriptionId", "TimestampsToReturn", "ItemsToCreate" >>,
  << "ResponseHeader", "Results", "DiagnosticInfos" >>)
ModifyMonitoredItems == Service("ModifyMonitoredItemsRequest", "ModifyMonitoredItemsResponse",
  << "RequestHeader", "SubscriptionId", "TimestampsToReturn", "ItemsToModify" >>,
  << "ResponseHeader", "Results", "DiagnosticInfos" >>)
SetMonitoringMode == Service("SetMonitoringModeRequest", "SetMonitoringModeResponse",
  << "RequestHeader", "SubscriptionId", "MonitoringMode", "MonitoredItemIds" >>,
  << "ResponseHeader", "Results", "DiagnosticInfos" >>)
SetTriggering == Service("SetTriggeringRequest", "SetTriggeringResponse",
  << "RequestHeader", "SubscriptionId", "TriggeringItemId", "LinksToAdd",
     "LinksToRemove" >>,
  << "ResponseHeader", "AddResults", "AddDiagnosticInfos", "RemoveResults",
     "RemoveDiagnosticInfos" >>)
DeleteMonitoredItems == Service("DeleteMonitoredItemsRequest", "DeleteMonitoredItemsResponse",
  << "RequestHeader", "SubscriptionId", "MonitoredItemIds" >>,
  << "ResponseHeader", "Results", "DiagnosticInfos" >>)
CreateSubscription == Service("CreateSubscriptionRequest", "CreateSubscriptionResponse",
  << "RequestHeader", "RequestedPublishingInterval", "RequestedLifetimeCount",
     "RequestedMaxKeepAliveCount", "MaxNotificationsPerPublish", "PublishingEnabled",
     "Priority" >>,
  << "ResponseHeader", "SubscriptionId", "RevisedPublishingInterval",
     "RevisedLifetimeCount", "RevisedMaxKeepAliveCount" >>)
ModifySubscription == Service("ModifySubscriptionRequest", "ModifySubscriptionResponse",
  << "RequestHeader", "SubscriptionId", "RequestedPublishingInterval",
     "RequestedLifetimeCount", "RequestedMaxKeepAliveCount",
     "MaxNotificationsPerPublish", "Priority" >>,
  << "ResponseHeader", "RevisedPublishingInterval", "RevisedLifetimeCount",
     "RevisedMaxKeepAliveCount" >>)
SetPublishingMode == Service("SetPublishingModeRequest", "SetPublishingModeResponse",
  << "RequestHeader", "PublishingEnabled", "SubscriptionIds" >>,
  << "ResponseHeader", "Results", "DiagnosticInfos" >>)
Publish == Service("PublishRequest", "PublishResponse",
  << "RequestHeader", "SubscriptionAcknowledgements" >>,
  << "ResponseHeader", "SubscriptionId", "AvailableSequenceNumbers",
     "MoreNotifications", "NotificationMessage", "Results", "DiagnosticInfos" >>)
Republish == Service("RepublishRequest", "RepublishResponse",
  << "RequestHeader", "SubscriptionId", "RetransmitSequenceNumber" >>,
  << "ResponseHeader", "NotificationMessage" >>)
TransferSubscriptions == Service("TransferSubscriptionsRequest", "TransferSubscriptionsResponse",
  << "RequestHeader", "SubscriptionIds", "SendInitialValues" >>,
  << "ResponseHeader", "Results", "DiagnosticInfos" >>)
DeleteSubscriptions == Service("DeleteSubscriptionsRequest", "DeleteSubscriptionsResponse",
  << "RequestHeader", "SubscriptionIds" >>,
  << "ResponseHeader", "Results", "DiagnosticInfos" >>)

\* The services a client can call.
Services ==
  [FindServers |-> FindServers, FindServersOnNetwork |-> FindServersOnNetwork,
   GetEndpoints |-> GetEndpoints, RegisterServer |-> RegisterServer,
   RegisterServer2 |-> RegisterServer2, CreateSession |-> CreateSession,
   ActivateSession |-> ActivateSession, CloseSession |-> CloseSession,
   Cancel |-> Cancel, AddNodes |-> AddNodes, AddReferences |-> AddReferences,
   DeleteNodes |-> DeleteNodes, DeleteReferences |-> DeleteReferences,
   Browse |-> Browse, BrowseNext |-> BrowseNext,
   TranslateBrowsePathsToNodeIds |-> TranslateBrowsePathsToNodeIds,
   RegisterNodes |-> RegisterNodes, UnregisterNodes |-> UnregisterNodes,
   QueryFirst |-> QueryFirst, QueryNext |-> QueryNext, Read |-> Read,
   HistoryRead |-> HistoryRead, Write |-> Write, HistoryUpdate |-> HistoryUpdate,
   Call |-> Call, CreateMonitoredItems |-> CreateMonitoredItems,
   ModifyMonitoredItems |-> ModifyMonitoredItems,
   SetMonitoringMode |-> SetMonitoringMode, SetTriggering |-> SetTriggering,
   DeleteMonitoredItems |-> DeleteMonitoredItems,
   CreateSubscription |-> CreateSubscription,
   ModifySubscription |-> ModifySubscription,
   SetPublishingMode |-> SetPublishingMode, Publish |-> Publish,
   Republish |-> Republish, TransferSubscriptions |-> TransferSubscriptions,
   DeleteSubscriptions |-> DeleteSubscriptions]
=============================================================================
