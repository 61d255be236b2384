\* Streams cut anywhere, without a cap and with events of up to five bytes.
CONSTANTS
  Streams <- MCStreams
  MaxEventSizes = {0, 5}
SPECIFICATION Spec
\* The stream ends: nothing is enabled once it is flushed.
CHECK_DEADLOCK FALSE
INVARIANTS
  FramesAreExact
  UnfinishedIsHeld
  EventCapIsExact
  EncodeRoundTrips
