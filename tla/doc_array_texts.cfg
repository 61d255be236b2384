\* Texts that are items of an array.
CONSTANTS
  Symbols <- MCSymbols
  Wide <- MCWide
  Requests <- PlainRequests
  Responses <- NoMessages
SPECIFICATION Spec
\* The message is sent or blocked: nothing is enabled then.
CHECK_DEADLOCK FALSE
INVARIANTS
  MaskedTextsAreReplaced
