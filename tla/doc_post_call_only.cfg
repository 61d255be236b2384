\* A request cut into chunks and a configuration file with post_call alone.
CONSTANTS
  NoConfig = NoConfig
  ParseError = ParseError
  StaticConfig <- MCStatic
  Configs <- MCConfigs
  ReqDocs <- MCFewReqDocs
  RespDocs <- MCFewRespDocs
  MaxBodySize = 0
  EarlyResponse = FALSE
  SplitRequest = TRUE
  AllowTrailers = FALSE
SPECIFICATION Spec
\* The stream ends: nothing is enabled once the RPC is closed.
CHECK_DEADLOCK FALSE
INVARIANTS
  PostCallInspects
