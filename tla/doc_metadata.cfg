\* Request metadata and the texts of the answer.
CONSTANTS
  NoConfig = NoConfig
  ParseError = ParseError
  StaticConfig = NoConfig
  Configs <- MCConfigs
  ReqDocs <- MCFewReqDocs
  RespDocs <- MCFewRespDocs
  MaxBodySize = 2
  EarlyResponse = FALSE
  SplitRequest = TRUE
  AllowTrailers = FALSE
SPECIFICATION Spec
\* The stream ends: nothing is enabled once the RPC is closed.
CHECK_DEADLOCK FALSE
INVARIANTS
  MetadataIsPassedBack
