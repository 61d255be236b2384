\* Both directions at once, fair; bodies may end with trailers.
CONSTANTS
  NoConfig = NoConfig
  ParseError = ParseError
  StaticConfig = NoConfig
  Configs <- MCConfigs
  ReqDocs <- MCReqDocs
  RespDocs <- MCFewRespDocs
  MaxBodySize = 2
  EarlyResponse = TRUE
  SplitRequest = TRUE
  AllowTrailers = TRUE
SPECIFICATION FairSpec
\* The stream ends: nothing is enabled once the RPC is closed.
CHECK_DEADLOCK FALSE
INVARIANTS
  InspectorsReady
  IInv
PROPERTIES
  ParserIsStable
  HeldRequestSettles
  HeldResponseSettles
