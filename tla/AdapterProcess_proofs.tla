------------------------ MODULE AdapterProcess_proofs ------------------------
(***************************************************************************)
(* The process ends as promised, and its streams are configured as the     *)
(* sources say, for any number of streams, signals and provider calls.     *)
(***************************************************************************)
EXTENDS AdapterProcess, WellFoundedInduction, TLAPS

-----------------------------------------------------------------------------
(* What the decoders of a configuration return, for all files, metadata    *)
(* and headers.                                                            *)

(* A value that is read is of its key's type, also when it is missing      *)
(* (metadata.go:57, 170-171).                                              *)
LEMMA FieldTyped ==
  ASSUME NEW fields, IsFieldMap(fields), NEW key \in Keys
  PROVE  Field(fields, key) \in FieldValues(key)
<1>1. CASE key = "provider"
  BY <1>1 DEF EmptyValue, FieldValues, Providers, Field, IsFieldMap
<1>2. CASE key = "mode"
  BY <1>2 DEF EmptyValue, FieldValues, Field, IsFieldMap
<1>3. CASE key \in {"score_thresholds", "entity_actions"}
  <2>1. EmptyValue(key) = NoObject
    <3>1. CASE key = "score_thresholds"
      BY <3>1 DEF EmptyValue
    <3>2. CASE key = "entity_actions"
      BY <3>2 DEF EmptyValue
    <3> QED BY <1>3, <3>1, <3>2
  <2>2. FieldValues(key) = Objects \cup {Malformed}
    BY <1>3 DEF FieldValues
  <2> QED BY <2>1, <2>2 DEF Objects, Field, IsFieldMap
<1>4. CASE key = "endpoint"
  BY <1>4 DEF EmptyValue, FieldValues, Endpoints, Field, IsFieldMap
<1>5. CASE key = "language"
  BY <1>5 DEF EmptyValue, FieldValues, Languages, Field, IsFieldMap
<1> QED BY <1>1, <1>2, <1>3, <1>4, <1>5 DEF Keys, SectionKeys

(* parsePresidioConfig returns a section or an error (metadata.go:168-198).*)
LEMMA SectionTyped ==
  ASSUME NEW fields, IsFieldMap(fields), ParsePresidioConfig(fields) # ParseError
  PROVE  ParsePresidioConfig(fields) \in Sections
<1>1. Malformed \notin {Field(fields, "score_thresholds"), Field(fields, "entity_actions")}
  BY DEF ParsePresidioConfig
<1>2. Field(fields, "endpoint") \in Endpoints /\ Field(fields, "language") \in Languages
  BY FieldTyped DEF Keys, SectionKeys, FieldValues
<1>3. Field(fields, "score_thresholds") \in Objects /\ Field(fields, "entity_actions") \in Objects
  BY <1>1, FieldTyped DEF Keys, SectionKeys, FieldValues
<1>4. ParsePresidioConfig(fields) = [key \in SectionKeys |-> Field(fields, key)]
  BY <1>1 DEF ParsePresidioConfig
<1> QED BY <1>2, <1>3, <1>4 DEF Sections, SectionKeys

(* What the two decoders put together is a GuardrailConfig                 *)
(* (metadata.go:62-65, 126-142).                                           *)
LEMMA IsConfig ==
  ASSUME NEW p \in Providers \ {""}, NEW m \in SUBSET (Modes \cup {"typo"}),
         NEW section \in Sections \cup {NoPresidio}
  PROVE  [provider |-> p, modes |-> m, presidio |-> section] \in GuardrailConfigs
BY DEF GuardrailConfigs

(* ParseGuardrailConfig returns nothing, an error or a configuration, and  *)
(* one for presidio-api has its section (metadata.go:55-82).               *)
LEMMA ParsedTyped ==
  ASSUME NEW fields, IsFieldMap(fields),
         ParseGuardrailConfig(fields) \notin {NoConfig, ParseError}
  PROVE  /\ ParseGuardrailConfig(fields) \in GuardrailConfigs
         /\ ParseGuardrailConfig(fields).provider = "presidio-api" =>
              ParseGuardrailConfig(fields).presidio \in Sections
<1>1. Field(fields, "provider") \in Providers /\ Field(fields, "mode") \in SUBSET Entries
  BY FieldTyped DEF Keys, FieldValues
<1>2. ParseModes(Field(fields, "mode")) \in SUBSET (Modes \cup {"typo"})
  BY <1>1 DEF ParseModes, Entries
<1>3. Field(fields, "provider") # ""
  BY DEF ParseGuardrailConfig
<1>4. CASE Field(fields, "provider") = "presidio-api"
  <2>1. ParsePresidioConfig(fields) # ParseError
    BY <1>4 DEF ParseGuardrailConfig
  <2>2. ParseGuardrailConfig(fields) =
          [provider |-> "presidio-api", modes |-> ParseModes(Field(fields, "mode")),
           presidio |-> ParsePresidioConfig(fields)]
    BY <1>4, <2>1 DEF ParseGuardrailConfig
  <2> QED BY <1>2, <2>1, <2>2, SectionTyped DEF GuardrailConfigs, Providers
<1>5. CASE Field(fields, "provider") # "presidio-api"
  <2>1. ParseGuardrailConfig(fields) =
          [provider |-> Field(fields, "provider"), modes |-> ParseModes(Field(fields, "mode")),
           presidio |-> NoPresidio]
    BY <1>3, <1>5 DEF ParseGuardrailConfig
  <2>2. Field(fields, "provider") \in Providers \ {""}
    BY <1>1, <1>3
  <2>3. ParseGuardrailConfig(fields).provider # "presidio-api"
    BY <1>5, <2>1
  <2>4. ParseGuardrailConfig(fields) \in GuardrailConfigs
    BY <1>2, <2>1, <2>2, IsConfig
  <2> QED BY <2>3, <2>4
<1> QED BY <1>4, <1>5

(* ParseGuardrailConfig returns nothing or an error only without a provider*)
(* or with a value that does not decode.                                   *)
LEMMA NothingParsed ==
  ASSUME NEW fields, IsFieldMap(fields), ParseGuardrailConfig(fields) \in {NoConfig, ParseError}
  PROVE  Silent(fields)
<1> SUFFICES ASSUME ~Silent(fields) PROVE FALSE
  OBVIOUS
<1>1. Field(fields, "provider") \in Providers /\ Field(fields, "mode") \in SUBSET Entries
  BY FieldTyped DEF Keys, FieldValues
<1>2. ParseModes(Field(fields, "mode")) \in SUBSET (Modes \cup {"typo"})
  BY <1>1 DEF ParseModes, Entries
<1>3. ParsePresidioConfig(fields) = [key \in SectionKeys |-> Field(fields, key)]
  BY DEF Silent, ParsePresidioConfig
<1>4. ParsePresidioConfig(fields) \in Sections
  <2>1. Field(fields, "endpoint") \in Endpoints /\ Field(fields, "language") \in Languages
    BY FieldTyped DEF Keys, SectionKeys, FieldValues
  <2>2. Field(fields, "score_thresholds") \in Objects /\ Field(fields, "entity_actions") \in Objects
    BY FieldTyped DEF Keys, SectionKeys, FieldValues, Silent
  <2> QED BY <1>3, <2>1, <2>2 DEF Sections, SectionKeys
<1>5. ParseGuardrailConfig(fields) \in GuardrailConfigs
  <2>1. CASE Field(fields, "provider") = "presidio-api"
    BY <1>2, <1>4, <2>1, ConstantsDiffer DEF ParseGuardrailConfig, GuardrailConfigs, Providers
  <2>2. CASE Field(fields, "provider") # "presidio-api"
    BY <1>1, <1>2, <2>2 DEF ParseGuardrailConfig, GuardrailConfigs, Silent
  <2> QED BY <2>1, <2>2
<1> QED BY <1>5, ConstantsDiffer

(* A file that is accepted is a configuration, with its section if it names*)
(* presidio-api (metadata.go:113-165).                                     *)
LEMMA LoadedTyped ==
  ASSUME NEW file \in Files, LoadGuardrailConfigFile(file) # ParseError
  PROVE  /\ LoadGuardrailConfigFile(file) \in GuardrailConfigs
         /\ LoadGuardrailConfigFile(file).provider = "presidio-api" =>
              LoadGuardrailConfigFile(file).presidio \in Sections
<1>1. ValidateGuardrailConfig(file)
  BY DEF LoadGuardrailConfigFile
<1>2. LoadGuardrailConfigFile(file) =
        [provider |-> file.provider, modes |-> {e.name : e \in file.modes},
         presidio |-> file.presidio]
  BY DEF LoadGuardrailConfigFile
<1>3. {e.name : e \in file.modes} \in SUBSET (Modes \cup {"typo"})
  BY <1>1 DEF ValidateGuardrailConfig
<1>4. /\ file.provider \in Providers \ {""}
      /\ file.presidio \in Sections \cup {NoPresidio}
      /\ file.provider = "presidio-api" => file.presidio # NoPresidio
  BY <1>1 DEF ValidateGuardrailConfig, Files
<1>5. LoadGuardrailConfigFile(file) \in GuardrailConfigs
  BY <1>2, <1>3, <1>4, IsConfig
<1>6. LoadGuardrailConfigFile(file).provider = file.provider
      /\ LoadGuardrailConfigFile(file).presidio = file.presidio
  BY <1>2
<1> QED BY <1>4, <1>5, <1>6

(* The decoded headers and structs are field maps (server.go:811-830,      *)
(* 856-862).                                                               *)
LEMMA HeadersTyped ==
  ASSUME NEW src, IsSource(src)
  PROVE  IsFieldMap(HeaderFields(src.headers))
<1> DEFINE hs == src.headers
           isLast(key, i) == /\ hs[i].key = key
                             /\ \A j \in DOMAIN hs : hs[j].key = key => j <= i
<1>1. SUFFICES ASSUME NEW key \in {hs[i].key : i \in DOMAIN hs} \cap Keys
               PROVE  HeaderValue(hs[CHOOSE i \in DOMAIN hs : isLast(key, i)])
                        \in FieldValues(key)
  BY DEF HeaderFields, IsFieldMap
<1> DEFINE found == {i \in DOMAIN hs : hs[i].key = key}
<1> PICK n \in Nat : DOMAIN hs = 1..n
  BY DEF IsSource
<1>2. found # {} /\ found \subseteq 1..n
  BY <1>1
<1>3. PICK last \in found : \A j \in found : j <= last
  <2> DEFINE after == {n - j : j \in found}
  <2>1. after \subseteq Nat /\ after # {}
    BY <1>2
  <2>2. PICK x \in after : \A y \in after : ~(<<y, x>> \in OpToRel(<, Nat))
    BY <2>1, WFMin, NatLessThanWellFounded
  <2>3. \A y \in after : ~(y < x)
    BY <2>1, <2>2 DEF OpToRel
  <2>4. PICK l \in found : x = n - l
    BY <2>2
  <2>5. \A j \in found : n - j >= n - l
    <3> TAKE j \in found
    <3>1. n - j \in after /\ n - l \in after
      OBVIOUS
    <3>2. ~(n - j < n - l)
      BY <3>1, <2>3, <2>4
    <3> QED BY <1>2, <3>2
  <2> QED BY <1>2, <2>5
<1>4. \E i \in DOMAIN hs : isLast(key, i)
  BY <1>3
<1>5. PICK i \in DOMAIN hs : hs[i].key = key /\ i = CHOOSE k \in DOMAIN hs : isLast(key, k)
  BY <1>4
<1>6. {hs[i].value, hs[i].raw} \subseteq FieldValues(key)
  BY <1>5 DEF IsSource, IsHeader
<1> QED BY <1>5, <1>6 DEF HeaderValue

LEMMA StructTyped ==
  ASSUME NEW struct, IsFieldMap(struct)
  PROVE  IsFieldMap(StructFields(struct))
BY DEF IsFieldMap, StructFields

(* Dropping the empty values of a struct does not change what is read      *)
(* (server.go:858).                                                        *)
LEMMA StructSilent ==
  ASSUME NEW struct
  PROVE  Silent(StructFields(struct)) <=> Silent(struct)
<1>1. \A key \in Keys : Field(StructFields(struct), key) = Field(struct, key)
  BY DEF Field, StructFields
<1> QED BY <1>1 DEF Silent, Keys, SectionKeys

(* A stream starts with the file's configuration, with that of a namespace,*)
(* or with that of the headers (server.go:156-187).                        *)
LEMMA ResolvedTyped ==
  ASSUME NEW static \in GuardrailConfigs \cup {NoConfig}, NEW src, IsSource(src),
         NEW c \in HandleRequestHeaders(static, src.metadata, src.headers)
  PROVE  /\ c \in GuardrailConfigs \cup {NoConfig}
         /\ static # NoConfig => c = static
         /\ static = NoConfig /\ c # NoConfig /\ c.provider = "presidio-api" =>
              c.presidio \in Sections
         /\ c = NoConfig =>
              /\ Silent(HeaderFields(src.headers))
              /\ DOMAIN src.metadata # {} =>
                   \E ns \in DOMAIN src.metadata :
                     src.metadata[ns] = NoStruct \/ Silent(src.metadata[ns])
<1> DEFINE md == src.metadata
           found == IF DOMAIN md = {} THEN {NoConfig} ELSE {ParseMetadata(md, ns) : ns \in DOMAIN md}
           settled == {d \in found : d \notin {NoConfig, ParseError}}
           fields == HeaderFields(src.headers)
<1>1. CASE static # NoConfig
  BY <1>1 DEF HandleRequestHeaders
<1>2. CASE static = NoConfig /\ c \in settled
  <2>1. PICK ns \in DOMAIN md : c = ParseMetadata(md, ns)
    BY <1>2
  <2>2. c = ParseGuardrailConfig(StructFields(md[ns])) /\ IsFieldMap(md[ns])
    BY <1>2, <2>1 DEF ParseMetadata, IsSource
  <2>3. IsFieldMap(StructFields(md[ns]))
    BY <2>2, StructTyped
  <2> QED BY <1>2, <2>2, <2>3, ParsedTyped
<1>3. CASE static = NoConfig /\ c \notin settled
  <2>1. found # settled /\ c = FromHeaders(src.headers)
    BY <1>3 DEF HandleRequestHeaders
  <2>2. IsFieldMap(fields)
    BY HeadersTyped
  <2>3. CASE c # NoConfig
    <3>1. c = ParseGuardrailConfig(fields) /\ c # ParseError
      BY <2>1, <2>3 DEF FromHeaders, ParseGuardrailHeaders
    <3> QED BY <1>3, <2>2, <2>3, <3>1, ParsedTyped
  <2>4. CASE c = NoConfig
    <3>1. ParseGuardrailConfig(fields) \in {NoConfig, ParseError}
      BY <2>1, <2>4 DEF FromHeaders, ParseGuardrailHeaders
    <3>2. Silent(fields)
      BY <2>2, <3>1, NothingParsed
    <3>3. ASSUME DOMAIN md # {}
          PROVE  \E ns \in DOMAIN md : md[ns] = NoStruct \/ Silent(md[ns])
      <4>1. PICK ns \in DOMAIN md : ParseMetadata(md, ns) \in {NoConfig, ParseError}
        BY <2>1, <3>3
      <4>2. CASE md[ns] # NoStruct
        <5>1. ParseGuardrailConfig(StructFields(md[ns])) \in {NoConfig, ParseError}
          BY <4>1, <4>2 DEF ParseMetadata
        <5>2. IsFieldMap(StructFields(md[ns]))
          BY <4>2, StructTyped DEF IsSource
        <5> QED BY <5>1, <5>2, NothingParsed, StructSilent
      <4> QED BY <4>1, <4>2
    <3> QED BY <1>3, <2>4, <3>2, <3>3
  <2> QED BY <2>3, <2>4
<1> QED BY <1>1, <1>2, <1>3

-----------------------------------------------------------------------------
(* The steps of the process.                                               *)

(* What main and the health server's goroutine do when they end the        *)
(* process: streams are cut only by a failure (main.go:35-111, 128-131).   *)
LEMMA ExitKeepsInv ==
  ASSUME ProcessInv, Running, NEW code \in {"0", "1", "2", "killed"}, Exit(code),
         signals' \in 0..MaxSignals, faults' \in BOOLEAN, faults => faults',
         InFlight # {} => faults' /\ code = "1",
         main = "serving" /\ ~faults' => code = "0"
  PROVE  ProcessInv'
<1> USE DEF ProcessInv, Running
<1>1. TypeOK'
  <2>1. stream' \in [Stream -> {"idle", "open", "calling", "ended", "cut"}]
    BY DEF Exit, TypeOK
  <2>2. /\ calls' \in [Stream -> 0..MaxCalls]
        /\ sources' \in [Stream -> Sources \cup {NoSources}]
        /\ config' \in [Stream -> GuardrailConfigs \cup {NoConfig}]
    BY ProcessAssumption DEF Exit
  <2> QED BY <2>1, <2>2 DEF Exit, TypeOK
<1>2. GoroutinesInv'
  BY DEF GoroutinesInv, Exit
<1>3. StreamsInv' /\ InFlight' = {}
  BY DEF StreamsInv, InFlight, Exit, TypeOK
<1>4. OnlyFailuresCut'
  <2>1. ASSUME NEW s \in Stream, stream'[s] = "cut"
        PROVE  InFlight # {}
    <3>1. stream[s] # "cut"
      BY DEF OnlyFailuresCut
    <3> QED BY <2>1, <3>1 DEF Exit
  <2> QED BY <2>1 DEF OnlyFailuresCut, Exit
<1>5. FaultlessShutdown'
  BY DEF FaultlessShutdown, Exit
<1> QED BY <1>1, <1>2, <1>3, <1>4, <1>5

(* A step that leaves the streams alone and the process running.           *)
LEMMA QuietStep ==
  ASSUME ProcessInv, Running, UNCHANGED <<exit, streamVars, faults>>,
         main = "serving" => main' = "serving",
         InFlight # {} => grpc' # "stopped"
  PROVE  StreamsInv' /\ OnlyFailuresCut' /\ FaultlessShutdown'
BY DEF ProcessInv, Running, streamVars, StreamsInv, InFlight, OnlyFailuresCut, FaultlessShutdown

(* The main goroutine up to Serve (main.go:26-128).                        *)
LEMMA StartUpKeepsInv ==
  ASSUME ProcessInv, StartUp
  PROVE  ProcessInv'
<1> USE DEF ProcessInv
<1>1. ASSUME Running, main # "serving"
      PROVE  InFlight = {}
  BY <1>1 DEF StreamsInv, InFlight
<1>2. CASE BadFlag
  <2> Running /\ main = "flags" /\ Exit("2") /\ UNCHANGED <<signals, faults>>
    BY <1>2 DEF BadFlag
  <2> QED BY <1>1, ExitKeepsInv DEF TypeOK
<1>3. CASE SizeTooLarge
  <2> Running /\ main = "size" /\ Exit("2") /\ UNCHANGED <<signals, faults>>
    BY <1>3 DEF SizeTooLarge
  <2> QED BY <1>1, ExitKeepsInv DEF TypeOK
<1>4. CASE ListenFails
  <2> Running /\ main = "listen" /\ Exit("1") /\ UNCHANGED <<signals, faults>>
    BY <1>4 DEF ListenFails
  <2> QED BY <1>1, ExitKeepsInv DEF TypeOK
<1>5. ASSUME NEW file \in ConfigFiles, RejectConfig(file)
      PROVE  ProcessInv'
  <2> Running /\ main = "config" /\ Exit("1") /\ UNCHANGED <<signals, faults>>
    BY <1>5 DEF RejectConfig
  <2> QED BY <1>1, ExitKeepsInv DEF TypeOK
<1>6. CASE ParseFlags \/ WithoutFile \/ SizeFits \/ Listen \/ GoHealth \/ Notify \/ GoHandler
  <2>1. TypeOK'
    <3>1. CASE ParseFlags
      BY <3>1 DEF TypeOK, ParseFlags, signalVars, streamVars
    <3>2. CASE WithoutFile
      BY <3>2 DEF TypeOK, WithoutFile, signalVars, streamVars
    <3>3. CASE SizeFits
      BY <3>3 DEF TypeOK, SizeFits, signalVars, streamVars
    <3>4. CASE Listen
      BY <3>4 DEF TypeOK, Listen, signalVars, streamVars
    <3>5. CASE GoHealth
      BY <3>5 DEF TypeOK, GoHealth, signalVars, streamVars
    <3>6. CASE Notify
      BY <3>6 DEF TypeOK, Notify, signalVars, streamVars
    <3>7. CASE GoHandler
      BY <3>7 DEF TypeOK, GoHandler, signalVars, streamVars
    <3> QED BY <1>6, <3>1, <3>2, <3>3, <3>4, <3>5, <3>6, <3>7
  <2>2. GoroutinesInv'
    <3>1. CASE ParseFlags
      BY <3>1 DEF TypeOK, GoroutinesInv, ParseFlags, signalVars
    <3>2. CASE WithoutFile
      BY <3>2 DEF TypeOK, GoroutinesInv, WithoutFile, signalVars
    <3>3. CASE SizeFits
      BY <3>3 DEF TypeOK, GoroutinesInv, SizeFits, signalVars
    <3>4. CASE Listen
      BY <3>4 DEF TypeOK, GoroutinesInv, Listen, signalVars
    <3>5. CASE GoHealth
      BY <3>5 DEF TypeOK, GoroutinesInv, GoHealth, signalVars
    <3>6. CASE Notify
      BY <3>6 DEF TypeOK, GoroutinesInv, Notify, signalVars
    <3>7. CASE GoHandler
      BY <3>7 DEF TypeOK, GoroutinesInv, GoHandler, signalVars
    <3> QED BY <1>6, <3>1, <3>2, <3>3, <3>4, <3>5, <3>6, <3>7
  <2>3. /\ Running /\ main # "serving" /\ UNCHANGED <<exit, streamVars, faults>>
    BY <1>6 DEF ParseFlags, WithoutFile, SizeFits, Listen, GoHealth, Notify, GoHandler
  <2> QED BY <1>1, <2>1, <2>2, <2>3, QuietStep
<1>7. ASSUME NEW file \in ConfigFiles, LoadConfig(file)
      PROVE  ProcessInv'
  <2>1. staticConfig' \in GuardrailConfigs
    BY <1>7, ProcessAssumption, LoadedTyped DEF LoadConfig
  <2>2. TypeOK'
    BY <1>7, <2>1 DEF TypeOK, LoadConfig, signalVars, streamVars
  <2>3. GoroutinesInv'
    BY <1>7 DEF GoroutinesInv, LoadConfig, signalVars
  <2>4. Running /\ main # "serving" /\ UNCHANGED <<exit, streamVars, faults>>
    BY <1>7 DEF LoadConfig
  <2> QED BY <1>1, <2>2, <2>3, <2>4, QuietStep
<1>8. CASE Serve
  <2>1. TypeOK' /\ GoroutinesInv'
    BY <1>8 DEF TypeOK, GoroutinesInv, Serve, signalVars, streamVars
  <2>2. Running /\ main # "serving" /\ UNCHANGED <<exit, streamVars, faults>>
    BY <1>8 DEF Serve
  <2> QED BY <1>1, <2>1, <2>2, QuietStep
<1> QED BY <1>2, <1>3, <1>4, <1>5, <1>6, <1>7, <1>8 DEF StartUp

(* The returns of Serve (main.go:128-131).                                 *)
LEMMA ReturnsKeepInv ==
  ASSUME ProcessInv, ServeStopped \/ ServeFails \/ ServeReturns
  PROVE  ProcessInv'
<1> USE DEF ProcessInv
<1>1. CASE ServeStopped
  <2>1. Running /\ main = "serve" /\ Exit("1") /\ UNCHANGED <<signals, faults>>
    BY <1>1 DEF ServeStopped
  <2>2. InFlight = {}
    BY <2>1 DEF StreamsInv, InFlight
  <2> QED BY <2>1, <2>2, ExitKeepsInv DEF TypeOK
<1>2. CASE ServeFails
  <2>1. Running /\ Exit("1") /\ faults' = TRUE /\ UNCHANGED signals
    BY <1>2 DEF ServeFails
  <2> QED BY <2>1, ExitKeepsInv DEF TypeOK
<1>3. CASE ServeReturns
  <2>1. Running /\ grpc = "stopped" /\ Exit("0") /\ UNCHANGED <<signals, faults>>
    BY <1>3 DEF ServeReturns
  <2>2. InFlight = {}
    BY <2>1 DEF StreamsInv
  <2> QED BY <2>1, <2>2, ExitKeepsInv DEF TypeOK
<1> QED BY <1>1, <1>2, <1>3

(* The health server and the signals (main.go:107-117).                    *)
LEMMA HealthAndSignalsKeepInv ==
  ASSUME ProcessInv, HealthListens \/ HealthFails \/ Signal \/ SignalKills
  PROVE  ProcessInv'
<1> USE DEF ProcessInv
<1>1. CASE HealthListens
  <2>1. TypeOK' /\ GoroutinesInv'
    BY <1>1 DEF TypeOK, GoroutinesInv, HealthListens, signalVars, streamVars
  <2>2. Running /\ UNCHANGED <<main, grpc, exit, streamVars, faults>>
    BY <1>1 DEF HealthListens
  <2>3. InFlight # {} => grpc' # "stopped"
    BY <2>2 DEF StreamsInv
  <2> QED BY <2>1, <2>2, <2>3, QuietStep
<1>2. CASE HealthFails
  <2>1. Running /\ Exit("1") /\ faults' = TRUE /\ UNCHANGED signals
    BY <1>2 DEF HealthFails
  <2> QED BY <2>1, ExitKeepsInv DEF TypeOK
<1>3. CASE Signal
  <2>1. TypeOK' /\ GoroutinesInv'
    BY <1>3, ProcessAssumption DEF TypeOK, GoroutinesInv, Signal, signalVars, streamVars
  <2>2. Running /\ UNCHANGED <<main, grpc, exit, streamVars, faults>>
    BY <1>3 DEF Signal
  <2>3. InFlight # {} => grpc' # "stopped"
    BY <2>2 DEF StreamsInv
  <2> QED BY <2>1, <2>2, <2>3, QuietStep
<1>4. CASE SignalKills
  <2>1. Running /\ ~notified /\ Exit("killed") /\ signals' = signals + 1 /\ UNCHANGED faults
    BY <1>4 DEF SignalKills
  <2>2. main # "serving"
    BY <2>1 DEF GoroutinesInv
  <2>3. InFlight = {}
    BY <2>2 DEF StreamsInv, InFlight
  <2>4. signals' \in 0..MaxSignals
    BY <1>4, ProcessAssumption DEF SignalKills, TypeOK
  <2> QED BY <2>1, <2>2, <2>3, <2>4, ExitKeepsInv DEF TypeOK
<1> QED BY <1>1, <1>2, <1>3, <1>4

(* The goroutine that waits for a signal (main.go:119-124).                *)
LEMMA HandlerKeepsInv ==
  ASSUME ProcessInv, HandlerStep
  PROVE  ProcessInv'
<1> USE DEF ProcessInv
<1>1. Running /\ UNCHANGED <<main, exit, streamVars, faults>>
  BY DEF HandlerStep, TakeSignal, RefuseStreams, StopDone, CloseHealth
<1>2. TypeOK'
  BY DEF TypeOK, HandlerStep, TakeSignal, RefuseStreams, StopDone, CloseHealth, signalVars,
         streamVars
<1>3. CASE TakeSignal
  <2>1. GoroutinesInv' /\ grpc' # "stopped"
    BY <1>3 DEF TypeOK, GoroutinesInv, TakeSignal
  <2> QED BY <1>1, <1>2, <2>1, QuietStep
<1>4. CASE RefuseStreams
  <2>1. GoroutinesInv' /\ grpc' # "stopped"
    BY <1>4 DEF TypeOK, GoroutinesInv, RefuseStreams, signalVars
  <2> QED BY <1>1, <1>2, <2>1, QuietStep
<1>5. CASE StopDone
  <2>1. GoroutinesInv' /\ InFlight = {}
    BY <1>5 DEF TypeOK, GoroutinesInv, StopDone, signalVars
  <2> QED BY <1>1, <1>2, <2>1, QuietStep
<1>6. CASE CloseHealth
  <2>1. GoroutinesInv' /\ grpc' = grpc
    BY <1>6 DEF TypeOK, GoroutinesInv, CloseHealth, signalVars
  <2>2. InFlight # {} => grpc' # "stopped"
    BY <2>1 DEF StreamsInv
  <2> QED BY <1>1, <1>2, <2>1, <2>2, QuietStep
<1> QED BY <1>3, <1>4, <1>5, <1>6 DEF HandlerStep

(* A request's headers settle a configuration, never an error              *)
(* (server.go:152-204).                                                    *)
LEMMA OpenKeepsInv ==
  ASSUME ProcessInv, NEW s \in Stream, NEW src \in Sources, OpenStream(s, src)
  PROVE  ProcessInv'
<1> USE DEF ProcessInv
<1>1. PICK c \in HandleRequestHeaders(staticConfig, src.metadata, src.headers) :
        config' = [config EXCEPT ![s] = c]
  BY DEF OpenStream
<1>2. c \in GuardrailConfigs \cup {NoConfig}
  BY ResolvedTyped, ProcessAssumption DEF TypeOK
<1>3. TypeOK'
  BY <1>1, <1>2 DEF TypeOK, OpenStream, signalVars
<1>4. GoroutinesInv'
  BY DEF GoroutinesInv, OpenStream, signalVars
<1>5. StreamsInv' /\ OnlyFailuresCut' /\ FaultlessShutdown'
  BY DEF TypeOK, StreamsInv, InFlight, OnlyFailuresCut, FaultlessShutdown, Running, OpenStream
<1> QED BY <1>3, <1>4, <1>5

(* A stream's provider calls and its end (server.go:85-111, 421-423).      *)
LEMMA StreamsKeepInv ==
  ASSUME ProcessInv, NEW s \in Stream, StreamStep(s)
  PROVE  ProcessInv'
<1> USE DEF ProcessInv
<1>1. TypeOK'
  <2>1. CASE CallProvider(s)
    BY <2>1, ProcessAssumption DEF TypeOK, CallProvider, signalVars
  <2>2. CASE ProviderAnswers(s)
    BY <2>2 DEF TypeOK, ProviderAnswers, signalVars
  <2>3. CASE EndStream(s)
    BY <2>3, ProcessAssumption DEF TypeOK, EndStream, signalVars
  <2> QED BY <2>1, <2>2, <2>3 DEF StreamStep
<1>2. Running /\ UNCHANGED <<main, exit, grpc, faults>>
  BY DEF StreamStep, CallProvider, ProviderAnswers, EndStream
<1>3. GoroutinesInv'
  BY DEF GoroutinesInv, StreamStep, CallProvider, ProviderAnswers, EndStream, signalVars
<1>4. s \in InFlight
  BY DEF StreamStep, CallProvider, ProviderAnswers, EndStream, InFlight
<1>5. \E next \in {"open", "calling", "ended"} : stream' = [stream EXCEPT ![s] = next]
  BY DEF StreamStep, CallProvider, ProviderAnswers, EndStream
<1>6. StreamsInv' /\ OnlyFailuresCut' /\ FaultlessShutdown'
  BY <1>2, <1>4, <1>5 DEF TypeOK, StreamsInv, InFlight, OnlyFailuresCut, FaultlessShutdown, Running
<1> QED BY <1>1, <1>3, <1>6

LEMMA NextKeepsInv ==
  ASSUME ProcessInv, [Next]_vars
  PROVE  ProcessInv'
<1>1. CASE UNCHANGED vars
  BY <1>1 DEF vars, signalVars, streamVars, ProcessInv, TypeOK, GoroutinesInv, StreamsInv,
              OnlyFailuresCut, FaultlessShutdown, InFlight, Running
<1> QED BY <1>1, StartUpKeepsInv, ReturnsKeepInv, HealthAndSignalsKeepInv, HandlerKeepsInv,
           OpenKeepsInv, StreamsKeepInv DEF Next, MainStep

LEMMA InitInv == Init => ProcessInv
<1> SUFFICES ASSUME Init PROVE ProcessInv
  OBVIOUS
<1> USE DEF Init
<1>1. TypeOK
  <2>1. /\ stream \in [Stream -> {"idle", "open", "calling", "ended", "cut"}]
        /\ sources \in [Stream -> Sources \cup {NoSources}]
        /\ config \in [Stream -> GuardrailConfigs \cup {NoConfig}]
    OBVIOUS
  <2>2. calls \in [Stream -> 0..MaxCalls] /\ signals \in 0..MaxSignals
    BY ProcessAssumption
  <2>3. notified \in BOOLEAN /\ faults \in BOOLEAN
    BY Zenon
  <2>4. sigChan \in 0..1
    OBVIOUS
  <2>5. staticConfig \in GuardrailConfigs \cup {NoConfig}
    OBVIOUS
  <2> QED BY <2>1, <2>2, <2>3, <2>4, <2>5, Zenon DEF TypeOK
<1>2. GoroutinesInv
  BY DEF GoroutinesInv
<1>3. StreamsInv /\ OnlyFailuresCut /\ FaultlessShutdown
  BY DEF StreamsInv, InFlight, OnlyFailuresCut, FaultlessShutdown, Running
<1> QED BY <1>1, <1>2, <1>3 DEF ProcessInv

(* The goroutines of main.go are never further ahead of one another than   *)
(* ProcessInv says.                                                        *)
THEOREM ProcessInvHolds == Spec => []ProcessInv
<1>1. Init => ProcessInv
  BY InitInv
<1>2. ProcessInv /\ [Next]_vars => ProcessInv'
  BY NextKeepsInv
<1> QED BY <1>1, <1>2, PTL DEF Spec

(* Types: among others, no stream ever has an error for a configuration    *)
(* (server.go:161-181).                                                    *)
THEOREM ProcessTypes == Spec => []TypeOK
<1>1. ProcessInv => TypeOK
  BY DEF ProcessInv
<1> QED BY <1>1, ProcessInvHolds, PTL

(* No signal and no return of main cuts a stream off (main.go:117-131).    *)
THEOREM StreamsAreFinished == Spec => []OnlyFailuresCut
<1>1. ProcessInv => OnlyFailuresCut
  BY DEF ProcessInv
<1> QED BY <1>1, ProcessInvHolds, PTL

(* Without a failure, an adapter that has served exits with 0              *)
(* (main.go:109, 122-123, 128).                                            *)
THEOREM ShutdownIsClean == Spec => []FaultlessShutdown
<1>1. ProcessInv => FaultlessShutdown
  BY DEF ProcessInv
<1> QED BY <1>1, ProcessInvHolds, PTL

(* The readiness probe tells the truth about the listener (main.go:90,     *)
(* 107).                                                                   *)
THEOREM ReadinessIsTrue == Spec => []ReadyMeansListening
<1>1. ProcessInv => ReadyMeansListening
  BY DEF ProcessInv, TypeOK, GoroutinesInv, ReadyMeansListening
<1> QED BY <1>1, ProcessInvHolds, PTL

(* A health server that answers goes on answering as long as a stream is   *)
(* under way, however long GracefulStop waits for it (main.go:122-123).    *)
THEOREM LivenessIsProbed == Spec => ProbedToTheEnd
<1>1. ASSUME ProcessInv, Next, health = "up", InFlight' # {}
      PROVE  health' = "up"
  <2>1. ASSUME NEW code, Exit(code) PROVE health' = health
    BY <2>1 DEF Exit
  <2>2. CASE StartUp
    <3>1. main # "health"
      BY <1>1 DEF ProcessInv, GoroutinesInv
    <3> QED BY <1>1, <2>1, <2>2, <3>1
            DEF StartUp, BadFlag, ParseFlags, LoadConfig, RejectConfig, WithoutFile, SizeTooLarge,
                SizeFits, Listen, ListenFails, GoHealth, Notify, GoHandler, Serve
  <2>3. CASE ServeStopped \/ ServeReturns \/ ServeFails \/ HealthFails \/ SignalKills
    BY <1>1, <2>1, <2>3 DEF ServeStopped, ServeReturns, ServeFails, HealthFails, SignalKills
  <2>4. CASE HealthListens \/ Signal \/ TakeSignal \/ RefuseStreams \/ StopDone
    BY <1>1, <2>4 DEF HealthListens, Signal, TakeSignal, RefuseStreams, StopDone
  <2>5. CASE CloseHealth
    <3>1. InFlight = {}
      BY <1>1, <2>5 DEF CloseHealth, ProcessInv, GoroutinesInv, StreamsInv
    <3>2. InFlight' = InFlight
      BY <2>5 DEF CloseHealth, streamVars, InFlight
    <3> QED BY <1>1, <3>1, <3>2
  <2>6. ASSUME NEW s \in Stream, StreamStep(s) \/ \E src \in Sources : OpenStream(s, src)
        PROVE  health' = "up"
    BY <1>1, <2>6 DEF StreamStep, CallProvider, ProviderAnswers, EndStream, OpenStream
  <2> QED BY <1>1, <2>2, <2>3, <2>4, <2>5, <2>6 DEF Next, MainStep, HandlerStep
<1>2. ProcessInv /\ [Next]_vars => [health = "up" /\ InFlight' # {} => health' = "up"]_vars
  BY <1>1
<1> QED BY <1>2, ProcessInvHolds, PTL DEF Spec, ProbedToTheEnd

-----------------------------------------------------------------------------
(* The configuration of the streams.                                       *)

(* A configuration for presidio-api has its section.                       *)
HasSection(c) == c # NoConfig /\ c.provider = "presidio-api" => c.presidio \in Sections

(* Every stream has the configuration its own request and the file gave it.*)
ConfigInv ==
  /\ HasSection(staticConfig)
  /\ \A s \in InFlight :
       /\ sources[s] \in Sources
       /\ config[s] \in HandleRequestHeaders(staticConfig, sources[s].metadata, sources[s].headers)

(* Only LoadConfig changes the file's configuration, only OpenStream those *)
(* of the streams (main.go:53-70, server.go:152-187).                      *)
LEMMA NextKeepsConfigInv ==
  ASSUME ProcessInv, ConfigInv, [Next]_vars
  PROVE  ConfigInv'
<1>1. CASE UNCHANGED vars
  BY <1>1 DEF vars, streamVars, ConfigInv, HasSection, InFlight
<1>2. ASSUME NEW file \in ConfigFiles, LoadConfig(file)
      PROVE  ConfigInv'
  <2>1. HasSection(staticConfig')
    BY <1>2, LoadedTyped, ProcessAssumption DEF LoadConfig, HasSection
  <2>2. InFlight' = {}
    BY <1>2 DEF LoadConfig, streamVars, InFlight, ProcessInv, StreamsInv
  <2> QED BY <2>1, <2>2 DEF ConfigInv
<1>3. ASSUME NEW code, Exit(code)
      PROVE  ConfigInv'
  <2>1. InFlight' = {} /\ staticConfig' = staticConfig
    BY <1>3 DEF Exit, InFlight, ProcessInv, TypeOK
  <2> QED BY <2>1 DEF ConfigInv, HasSection
<1>4. CASE UNCHANGED <<staticConfig, streamVars>>
  BY <1>4 DEF streamVars, ConfigInv, HasSection, InFlight
<1>5. ASSUME NEW s \in Stream, NEW src \in Sources, OpenStream(s, src)
      PROVE  ConfigInv'
  <2>1. /\ staticConfig' = staticConfig
        /\ InFlight' = InFlight \cup {s}
        /\ sources' = [sources EXCEPT ![s] = src]
    BY <1>5 DEF OpenStream, InFlight, ProcessInv, TypeOK
  <2>2. PICK c \in HandleRequestHeaders(staticConfig, src.metadata, src.headers) :
          config' = [config EXCEPT ![s] = c]
    BY <1>5 DEF OpenStream
  <2> QED BY <2>1, <2>2 DEF ConfigInv, HasSection, ProcessInv, TypeOK, InFlight
<1>6. ASSUME NEW s \in Stream, StreamStep(s)
      PROVE  ConfigInv'
  <2>1. CASE CallProvider(s) \/ ProviderAnswers(s)
    <3>1. InFlight' = InFlight /\ UNCHANGED <<staticConfig, sources, config>>
      BY <2>1 DEF CallProvider, ProviderAnswers, InFlight, ProcessInv, TypeOK
    <3> QED BY <3>1 DEF ConfigInv, HasSection
  <2>2. CASE EndStream(s)
    <3>1. /\ staticConfig' = staticConfig
          /\ InFlight' = InFlight \ {s}
          /\ sources' = [sources EXCEPT ![s] = NoSources]
          /\ config' = [config EXCEPT ![s] = NoConfig]
      BY <2>2 DEF EndStream, InFlight, ProcessInv, TypeOK
    <3> QED BY <3>1 DEF ConfigInv, HasSection, ProcessInv, TypeOK, InFlight
  <2> QED BY <1>6, <2>1, <2>2 DEF StreamStep
<1>7. CASE MainStep \/ ServeFails
  <2>1. ASSUME BadFlag \/ SizeTooLarge \/ ListenFails \/ ServeStopped \/ ServeReturns \/ ServeFails
               \/ \E file \in ConfigFiles : RejectConfig(file)
        PROVE  ConfigInv'
    BY <1>3, <2>1 DEF BadFlag, SizeTooLarge, ListenFails, ServeStopped, ServeReturns, ServeFails,
                      RejectConfig
  <2>2. ASSUME ParseFlags \/ WithoutFile \/ SizeFits \/ Listen \/ GoHealth \/ Notify \/ GoHandler
               \/ Serve
        PROVE  ConfigInv'
    BY <1>4, <2>2 DEF ParseFlags, WithoutFile, SizeFits, Listen, GoHealth, Notify, GoHandler, Serve
  <2> QED BY <1>2, <1>7, <2>1, <2>2 DEF MainStep, StartUp
<1>8. CASE HealthListens \/ Signal \/ HandlerStep
  BY <1>4, <1>8 DEF HealthListens, Signal, HandlerStep, TakeSignal, RefuseStreams, StopDone,
                    CloseHealth
<1>9. CASE HealthFails \/ SignalKills
  BY <1>3, <1>9 DEF HealthFails, SignalKills
<1> QED BY <1>1, <1>5, <1>6, <1>7, <1>8, <1>9 DEF Next

THEOREM ConfigInvHolds == Spec => [](ProcessInv /\ ConfigInv)
<1>1. Init => ProcessInv /\ ConfigInv
  <2>1. Init => ConfigInv
    BY DEF Init, ConfigInv, HasSection, InFlight
  <2> QED BY <2>1, InitInv
<1>2. ProcessInv /\ ConfigInv /\ [Next]_vars => ProcessInv' /\ ConfigInv'
  BY NextKeepsInv, NextKeepsConfigInv
<1> QED BY <1>1, <1>2, PTL DEF Spec

(* A stream configured for presidio-api always gets its provider           *)
(* (server.go:415-419, 874-877).                                           *)
THEOREM ProvidersAreCreated == Spec => []PresidioIsCreated
<1>1. ProcessInv /\ ConfigInv => PresidioIsCreated
  <2> SUFFICES ASSUME ProcessInv, ConfigInv, NEW s \in InFlight,
                      config[s] # NoConfig, config[s].provider = "presidio-api"
               PROVE  CreatesProvider(config[s])
    BY DEF PresidioIsCreated
  <2>1. IsSource(sources[s]) /\ staticConfig \in GuardrailConfigs \cup {NoConfig}
    BY ProcessAssumption DEF ConfigInv, ProcessInv, TypeOK
  <2>2. config[s] \in HandleRequestHeaders(staticConfig, sources[s].metadata, sources[s].headers)
    BY DEF ConfigInv
  <2>3. config[s].presidio \in Sections
    BY <2>1, <2>2, ResolvedTyped DEF ConfigInv, HasSection
  <2> QED BY <2>3, ConstantsDiffer DEF CreatesProvider
<1> QED BY <1>1, ConfigInvHolds, PTL

(* The file comes first, and a stream is unconfigured only if nothing      *)
(* configures it (server.go:156-187).                                      *)
THEOREM PrecedenceHolds == Spec => []ConfiguredByPrecedence
<1>1. ProcessInv /\ ConfigInv => ConfiguredByPrecedence
  <2> SUFFICES ASSUME ProcessInv, ConfigInv, NEW s \in InFlight
               PROVE  /\ staticConfig # NoConfig => config[s] = staticConfig
                      /\ config[s] = NoConfig =>
                           /\ Silent(HeaderFields(sources[s].headers))
                           /\ DOMAIN sources[s].metadata # {} =>
                                \E ns \in DOMAIN sources[s].metadata :
                                  \/ sources[s].metadata[ns] = NoStruct
                                  \/ Silent(sources[s].metadata[ns])
    BY DEF ConfiguredByPrecedence
  <2>1. IsSource(sources[s]) /\ staticConfig \in GuardrailConfigs \cup {NoConfig}
    BY ProcessAssumption DEF ConfigInv, ProcessInv, TypeOK
  <2>2. config[s] \in HandleRequestHeaders(staticConfig, sources[s].metadata, sources[s].headers)
    BY DEF ConfigInv
  <2> QED BY <2>1, <2>2, ResolvedTyped
<1> QED BY <1>1, ConfigInvHolds, PTL

(* Fields that say what an accepted file says parse to what it loads to    *)
(* (metadata.go:55-82, 113-165).                                           *)
LEMMA SaidIsParsed ==
  ASSUME NEW fields, IsFieldMap(fields), NEW file \in Files,
         LoadGuardrailConfigFile(file) # ParseError, Says(fields, file)
  PROVE  /\ ParseGuardrailConfig(fields) \notin {NoConfig, ParseError}
         /\ SameEffect(ParseGuardrailConfig(fields), LoadGuardrailConfigFile(file))
<1> DEFINE c == ParseGuardrailConfig(fields)
           d == LoadGuardrailConfigFile(file)
<1>1. /\ d.provider = file.provider
      /\ d.modes = {e.name : e \in file.modes}
      /\ d.presidio = file.presidio
      /\ ValidateGuardrailConfig(file)
  BY DEF LoadGuardrailConfigFile
<1>2. Field(fields, "provider") = file.provider /\ file.provider # ""
  BY <1>1 DEF Says, ValidateGuardrailConfig
<1>3. ParseModes(Field(fields, "mode")) = d.modes
  BY <1>1 DEF Says, ParseModes
<1>4. ASSUME file.provider = "presidio-api"
      PROVE  /\ file.presidio \in Sections
             /\ \A key \in SectionKeys : Field(fields, key) = file.presidio[key]
  <2>1. file.presidio \in Sections
    BY <1>1, <1>4 DEF ValidateGuardrailConfig, Files
  <2>2. file.presidio # NoPresidio /\ DOMAIN file.presidio = SectionKeys
    BY <2>1, ConstantsDiffer DEF Sections, SectionKeys
  <2> QED BY <2>1, <2>2 DEF Says
<1>5. c \notin {NoConfig, ParseError}
  <2>1. ~Silent(fields) \/ file.provider # "presidio-api"
    <3>1. SUFFICES ASSUME file.provider = "presidio-api" PROVE ~Silent(fields)
      OBVIOUS
    <3>2. /\ Field(fields, "score_thresholds") \in Objects
          /\ Field(fields, "entity_actions") \in Objects
      BY <1>4, <3>1 DEF Sections, SectionKeys
    <3> QED BY <1>2, <3>2, ConstantsDiffer DEF Silent
  <2>2. CASE file.provider # "presidio-api"
    <3>1. c = [provider |-> file.provider, modes |-> d.modes, presidio |-> NoPresidio]
      BY <1>2, <1>3, <2>2 DEF ParseGuardrailConfig
    <3>2. d.modes \in SUBSET (Modes \cup {"typo"})
      BY LoadedTyped DEF GuardrailConfigs
    <3>3. c \in GuardrailConfigs
      <4>1. file.provider \in Providers \ {""} /\ NoPresidio \in Sections \cup {NoPresidio}
        BY <1>2 DEF Files
      <4> HIDE DEF c, d
      <4> QED BY <3>1, <3>2, <4>1 DEF GuardrailConfigs
    <3> QED BY <3>3, ConstantsDiffer
  <2> QED BY <2>1, <2>2, NothingParsed
<1>6. CASE file.provider = "presidio-api"
  <2>1. ParsePresidioConfig(fields) # ParseError /\ c.presidio = ParsePresidioConfig(fields)
    BY <1>2, <1>5, <1>6 DEF ParseGuardrailConfig
  <2>2. ParsePresidioConfig(fields) = [key \in SectionKeys |-> Field(fields, key)]
    BY <2>1 DEF ParsePresidioConfig
  <2>3. file.presidio = [key \in SectionKeys |-> file.presidio[key]]
    BY <1>4, <1>6 DEF Sections, SectionKeys
  <2>4. c.presidio = d.presidio
    BY <1>1, <1>4, <1>6, <2>1, <2>2, <2>3
  <2>5. c.provider = file.provider /\ c.modes = d.modes
    BY <1>2, <1>3, <1>5, <1>6 DEF ParseGuardrailConfig
  <2> QED BY <1>1, <1>5, <2>4, <2>5 DEF SameEffect
<1>7. CASE file.provider # "presidio-api"
  <2>1. c.provider = file.provider /\ c.modes = d.modes
    BY <1>2, <1>3, <1>5, <1>7 DEF ParseGuardrailConfig
  <2> QED BY <1>1, <1>5, <1>7, <2>1 DEF SameEffect
<1> QED BY <1>6, <1>7

(* Metadata, headers and a file with the same settings configure a stream  *)
(* alike (metadata.go:55-165, server.go:805-865).                          *)
THEOREM DecodersAgree == Spec => []SourcesAgree
<1>1. ProcessInv /\ ConfigInv => SourcesAgree
  <2> SUFFICES ASSUME ProcessInv, ConfigInv, NEW s \in InFlight, NEW file \in ConfigFiles,
                      staticConfig = NoConfig, LoadGuardrailConfigFile(file) # ParseError,
                      RequestSays(sources[s], file)
               PROVE  /\ config[s] # NoConfig
                      /\ SameEffect(config[s], LoadGuardrailConfigFile(file))
    BY DEF SourcesAgree
  <2> DEFINE src == sources[s]
             md == src.metadata
  <2>1. IsSource(src) /\ file \in Files
    BY ProcessAssumption DEF ConfigInv
  <2>2. config[s] \in HandleRequestHeaders(NoConfig, md, src.headers)
    BY DEF ConfigInv
  <2>3. CASE DOMAIN md # {} /\ \A ns \in DOMAIN md : md[ns] # NoStruct /\ Says(md[ns], file)
    <3>1. ASSUME NEW ns \in DOMAIN md
          PROVE  /\ ParseMetadata(md, ns) \notin {NoConfig, ParseError}
                 /\ SameEffect(ParseMetadata(md, ns), LoadGuardrailConfigFile(file))
      <4>1. IsFieldMap(md[ns])
        BY <2>1, <2>3 DEF IsSource
      <4>2. IsFieldMap(StructFields(md[ns]))
        BY <4>1, StructTyped
      <4>3. \A key \in Keys : Field(StructFields(md[ns]), key) = Field(md[ns], key)
        BY DEF Field, StructFields
      <4>4. \A section \in Sections : DOMAIN section \subseteq Keys
        BY DEF Sections, Keys, SectionKeys
      <4>5. Says(StructFields(md[ns]), file)
        BY <2>1, <2>3, <4>3, <4>4 DEF Says, Keys, Files
      <4>6. ParseMetadata(md, ns) = ParseGuardrailConfig(StructFields(md[ns]))
        BY <2>3 DEF ParseMetadata
      <4> QED BY <2>1, <4>2, <4>5, <4>6, SaidIsParsed
    <3>2. PICK ns \in DOMAIN md : config[s] = ParseMetadata(md, ns)
      BY <2>2, <2>3, <3>1 DEF HandleRequestHeaders
    <3> QED BY <3>1, <3>2
  <2>4. CASE DOMAIN md = {} /\ Says(HeaderFields(src.headers), file)
    <3>1. IsFieldMap(HeaderFields(src.headers))
      BY <2>1, HeadersTyped
    <3>2. /\ ParseGuardrailHeaders(src.headers) \notin {NoConfig, ParseError}
          /\ SameEffect(ParseGuardrailHeaders(src.headers), LoadGuardrailConfigFile(file))
      BY <2>1, <2>4, <3>1, SaidIsParsed DEF ParseGuardrailHeaders
    <3>3. config[s] = FromHeaders(src.headers)
      BY <2>2, <2>4 DEF HandleRequestHeaders
    <3> QED BY <3>2, <3>3 DEF FromHeaders
  <2> QED BY <2>3, <2>4 DEF RequestSays
<1> QED BY <1>1, ConfigInvHolds, PTL

-----------------------------------------------------------------------------
(* The process is the service that GracefulService describes.              *)

(* Every exit is a failure of the service or its stop (main.go:35-131).    *)
LEMMA ExitIsService ==
  ASSUME ProcessInv, Running, NEW code \in {"0", "1", "2", "killed"}, Exit(code),
         code = "0" => grpc = "stopped"
  PROVE  Service!ServiceNext
<1>1. InFlight' = {}
  BY DEF Exit, InFlight, ProcessInv, TypeOK
<1>2. CASE code = "0"
  <2>1. InFlight = {}
    BY <1>2 DEF ProcessInv, StreamsInv
  <2>2. Service!Stop
    BY <1>1, <1>2, <2>1 DEF Service!Stop, Exit, Running
  <2> QED BY <2>2 DEF Service!ServiceNext
<1>3. CASE code # "0"
  <2>1. Service!Fail
    BY <1>1, <1>3 DEF Service!Fail, Exit, Running, ProcessInv, TypeOK
  <2> QED BY <2>1 DEF Service!ServiceNext
<1> QED BY <1>2, <1>3

(* Start, drain, close and stop, a begin and an end for every stream, and  *)
(* only then exit code 0 (main.go:76-131, server.go:78-111).               *)
THEOREM ProcessImplementsService == Spec => ImplementsService
<1>1. Init => Service!ServiceInit
  BY DEF Init, Service!ServiceInit, InFlight, Running
<1>2. ProcessInv /\ [Next]_vars => [Service!ServiceNext]_(Service!serviceVars)
  <2> SUFFICES ASSUME ProcessInv, [Next]_vars
               PROVE  Service!ServiceNext \/ UNCHANGED Service!serviceVars
    OBVIOUS
  <2>1. ASSUME UNCHANGED <<exit, grpc, stream>>
        PROVE  UNCHANGED Service!serviceVars
    BY <2>1 DEF Service!serviceVars, InFlight, Running
  <2>2. CASE BadFlag \/ SizeTooLarge \/ ListenFails \/ ServeStopped \/ ServeFails \/ HealthFails
             \/ SignalKills \/ \E file \in ConfigFiles : RejectConfig(file)
    <3>1. Running /\ \E code \in {"1", "2", "killed"} : Exit(code)
      BY <2>2 DEF BadFlag, SizeTooLarge, ListenFails, ServeStopped, ServeFails, HealthFails,
                  SignalKills, RejectConfig
    <3> QED BY <3>1, ExitIsService
  <2>3. CASE ServeReturns
    <3>1. Running /\ Exit("0") /\ grpc = "stopped"
      BY <2>3 DEF ServeReturns
    <3> QED BY <3>1, ExitIsService
  <2>4. CASE Serve
    <3>1. Service!Start
      BY <2>4 DEF Serve, Service!Start, Running, InFlight, streamVars
    <3> QED BY <3>1 DEF Service!ServiceNext
  <2>5. CASE TakeSignal
    <3>1. grpc \in {"new", "serving"}
      BY <2>5 DEF TakeSignal, ProcessInv, GoroutinesInv
    <3>2. Service!Drain
      BY <2>5, <3>1 DEF TakeSignal, Service!Drain, Running, InFlight, streamVars
    <3> QED BY <3>2 DEF Service!ServiceNext
  <2>6. CASE RefuseStreams
    <3>1. Service!CloseDoors
      BY <2>6 DEF RefuseStreams, Service!CloseDoors, Running, InFlight, streamVars
    <3> QED BY <3>1 DEF Service!ServiceNext
  <2>7. CASE StopDone
    BY <2>7 DEF StopDone, Service!serviceVars, Running, InFlight, streamVars
  <2>8. ASSUME NEW s \in Stream, NEW src \in Sources, OpenStream(s, src)
        PROVE  Service!ServiceNext
    <3>1. InFlight' = InFlight \cup {s} /\ s \notin InFlight
      BY <2>8 DEF OpenStream, InFlight, ProcessInv, TypeOK
    <3>2. Service!Begin(s)
      BY <2>8, <3>1 DEF OpenStream, Service!Begin, Running
    <3> QED BY <3>2 DEF Service!ServiceNext
  <2>9. ASSUME NEW s \in Stream, CallProvider(s) \/ ProviderAnswers(s)
        PROVE  UNCHANGED Service!serviceVars
    <3>1. InFlight' = InFlight /\ UNCHANGED <<exit, grpc>>
      BY <2>9 DEF CallProvider, ProviderAnswers, InFlight, ProcessInv, TypeOK
    <3> QED BY <3>1 DEF Service!serviceVars, Running
  <2>10. ASSUME NEW s \in Stream, EndStream(s)
         PROVE  Service!ServiceNext
    <3>1. InFlight' = InFlight \ {s} /\ s \in InFlight
      BY <2>10 DEF EndStream, InFlight, ProcessInv, TypeOK
    <3>2. grpc \in {"serving", "stopping", "refusing"} /\ exit = "running"
      <4>1. main = "serving" /\ grpc # "stopped" /\ exit = "running"
        BY <3>1 DEF ProcessInv, StreamsInv, InFlight, Running
      <4> QED BY <4>1 DEF ProcessInv, TypeOK, GoroutinesInv
    <3>3. Service!Finish(s)
      BY <2>10, <3>1, <3>2 DEF EndStream, Service!Finish, Running
    <3> QED BY <3>3 DEF Service!ServiceNext
  <2>11. CASE \/ ParseFlags \/ WithoutFile \/ SizeFits \/ Listen \/ GoHealth \/ Notify \/ GoHandler
              \/ HealthListens \/ Signal \/ CloseHealth \/ \E file \in ConfigFiles : LoadConfig(file)
    BY <2>1, <2>11 DEF ParseFlags, WithoutFile, SizeFits, Listen, GoHealth, Notify, GoHandler,
                       HealthListens, Signal, CloseHealth, LoadConfig, streamVars
  <2>12. CASE UNCHANGED vars
    BY <2>1, <2>12 DEF vars, streamVars
  <2> QED BY <2>2, <2>3, <2>4, <2>5, <2>6, <2>7, <2>8, <2>9, <2>10, <2>11, <2>12
          DEF Next, MainStep, StartUp, HandlerStep, StreamStep
<1> QED BY <1>1, <1>2, ProcessInvHolds, PTL DEF Spec, ImplementsService, Service!ServiceSpec
=============================================================================
