\* Keys with a dot.
CONSTANTS
  Symbols <- MCSymbols
  Wide <- MCWide
  Requests <- DottedRequests
  Responses <- NoMessages
SPECIFICATION Spec
\* The message is sent or blocked: nothing is enabled then.
CHECK_DEADLOCK FALSE
INVARIANTS
  OtherTextsAreKept
