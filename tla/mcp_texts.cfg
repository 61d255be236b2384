\* Every shape of arguments and content.
CONSTANTS
  Symbols <- MCSymbols
  Wide <- MCWide
  Requests <- MCRequests
  Responses <- MCResponses
SPECIFICATION Spec
\* The message is sent or blocked: nothing is enabled then.
CHECK_DEADLOCK FALSE
INVARIANTS
  TypeOK
  PlainKeysAreAddressable
  RewrittenExactly
  AllOrNothing
  ConformingIsMasked
  OthersPassUntouched
