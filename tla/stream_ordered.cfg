\* Requests and all the answers, cut anywhere; Envoy answers after the request.
CONSTANTS
  NoConfig = NoConfig
  ParseError = ParseError
  StaticConfig = NoConfig
  Configs <- MCConfigs
  ReqDocs <- MCReqDocs
  RespDocs <- MCRespDocs
  MaxBodySize = 2
  EarlyResponse = FALSE
  SplitRequest = TRUE
  AllowTrailers = FALSE
SPECIFICATION Spec
\* The stream ends: nothing is enabled once the RPC is closed.
CHECK_DEADLOCK FALSE
INVARIANTS
  TypeOK
  PreCallInspects
  PostCallInspectsOnceSniffed
  CapIsExact
PROPERTIES
  RequestIsGated
  ResponseIsGated
  OversizeIsAnEvent
