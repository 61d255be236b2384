\* One life of the process, with two streams and two signals.
CONSTANTS
  s1 = s1
  s2 = s2
  low = low
  mask = mask
  Malformed = Malformed
  NoObject = NoObject
  NoPresidio = NoPresidio
  NoConfig = NoConfig
  ParseError = ParseError
  NoStruct = NoStruct
  NoSources = NoSources
  JsonObjects <- MCJsonObjects
  Stream <- MCStream
  ConfigFiles <- MCConfigFiles
  Sources <- MCSources
  MaxSignals = 2
  MaxCalls = 1
SPECIFICATION FairSpec
\* The process ends.
CHECK_DEADLOCK FALSE
INVARIANTS
  TypeOK
  ProcessInv
  OnlyFailuresCut
  FaultlessShutdown
  ReadyMeansListening
  SourcesAgree
  PresidioIsCreated
  ConfiguredByPrecedence
PROPERTIES
  ProbedToTheEnd
  ImplementsService
  SignalEndsProcess
