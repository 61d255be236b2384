--------------------------- MODULE GuardrailConfig ---------------------------
(***************************************************************************)
(* Where a stream's configuration comes from: the file read at startup,    *)
(* the ext_proc metadata or the x-guardrail-* headers of the request       *)
(* (internal/metadata/metadata.go; handleRequestHeaders,                   *)
(* parseGuardrailHeaders, parseMetadata and createProvider in              *)
(* internal/extproc/server.go).  Three decoders of the same settings.      *)
(***************************************************************************)
EXTENDS Integers, Sequences, FiniteSets

CONSTANTS
  JsonObjects,   \* score_thresholds and entity_actions that decode
  Malformed,     \* one that does not
  NoObject,      \* an absent or empty one: the nil map
  NoPresidio,    \* the nil *PresidioConfig
  NoConfig,      \* the nil *GuardrailConfig
  ParseError,    \* the decoder returned an error
  NoStruct       \* a namespace whose struct is nil

Modes == {"pre_call", "post_call"}
Providers == {"", "presidio-api", "other"}

(* One entry of a list of modes.  Order and repetition do not matter to    *)
(* modeEnabled: a list is the set of its entries.                          *)
Entries == [name : Modes \cup {"", "typo"}, padded : BOOLEAN]

(* PresidioConfig and GuardrailConfig.                                     *)
Endpoints == {"", "url"}
Languages == {"", "en"}
Objects == JsonObjects \cup {NoObject}
Sections ==
  [endpoint : Endpoints, language : Languages, score_thresholds : Objects, entity_actions : Objects]
GuardrailConfigs ==
  [provider : Providers \ {""}, modes : SUBSET (Modes \cup {"typo"}),
   presidio : Sections \cup {NoPresidio}]

ASSUME ConstantsDiffer ==
  /\ Malformed \notin Objects
  /\ NoPresidio \notin Sections
  /\ ParseError \notin Sections \cup GuardrailConfigs
  /\ NoConfig \notin GuardrailConfigs
  /\ NoConfig # ParseError

(* map[string]string, with the prefix guardrail. of its keys left out.  An *)
(* empty set of modes and NoObject stand for the empty string.             *)
SectionKeys == {"endpoint", "language", "score_thresholds", "entity_actions"}
Keys == {"provider", "mode"} \cup SectionKeys

EmptyValue(key) ==
  CASE key = "mode" -> {}
    [] key \in {"score_thresholds", "entity_actions"} -> NoObject
    [] OTHER -> ""

FieldValues(key) ==
  CASE key = "provider" -> Providers
    [] key = "mode" -> SUBSET Entries
    [] key \in {"score_thresholds", "entity_actions"} -> Objects \cup {Malformed}
    [] key = "endpoint" -> Endpoints
    [] key = "language" -> Languages

IsFieldMap(fields) == \A key \in DOMAIN fields : key \in Keys /\ fields[key] \in FieldValues(key)

(* fields[key]: a missing key reads as the empty string.                   *)
Field(fields, key) == IF key \in DOMAIN fields THEN fields[key] ELSE EmptyValue(key)

-----------------------------------------------------------------------------
(* The decoders.                                                           *)

(* Altered: the entries are compared as they stand.                        *)
Altered_ParseModes(entries) ==
  {IF e.padded THEN "typo" ELSE e.name : e \in entries} \ {""}

(* Entries are trimmed, empty ones dropped; unknown names are kept.        *)
ParseModes(entries) == {e.name : e \in entries} \ {""}

(* Altered: a value that does not decode leaves the section out.           *)
Altered_ParsePresidioConfig(fields) ==
  IF Malformed \in {Field(fields, "score_thresholds"), Field(fields, "entity_actions")}
    THEN NoPresidio
    ELSE [key \in SectionKeys |-> Field(fields, key)]

ParsePresidioConfig(fields) ==
  IF Malformed \in {Field(fields, "score_thresholds"), Field(fields, "entity_actions")}
    THEN ParseError
    ELSE [key \in SectionKeys |-> Field(fields, key)]

(* Only presidio-api has a section, and only its values can be malformed.  *)
ParseGuardrailConfig(fields) ==
  LET config(presidio) ==
        [provider |-> Field(fields, "provider"),
         modes    |-> ParseModes(Field(fields, "mode")),
         presidio |-> presidio]
  IN  CASE Field(fields, "provider") = "" -> NoConfig
        [] Field(fields, "provider") = "presidio-api" ->
             IF ParsePresidioConfig(fields) = ParseError
               THEN ParseError
               ELSE config(ParsePresidioConfig(fields))
        [] OTHER -> config(NoPresidio)

Files ==
  [readable : BOOLEAN, strict : BOOLEAN, provider : Providers, modes : SUBSET Entries,
   presidio : Sections \cup {NoPresidio}]

(* The fields configure nothing.                                           *)
Silent(fields) ==
  \/ Field(fields, "provider") = ""
  \/ Malformed \in {Field(fields, "score_thresholds"), Field(fields, "entity_actions")}

(* A file decodes if it can be read, holds no unknown key and no value of  *)
(* another type.                                                           *)
Decodes(file) == file.readable /\ file.strict

ValidateGuardrailConfig(file) ==
  /\ file.provider # ""
  /\ file.modes # {}
  /\ \A e \in file.modes : e.name \in Modes /\ ~e.padded
  /\ file.provider = "presidio-api" =>
       file.presidio # NoPresidio /\ file.presidio.endpoint # ""

LoadGuardrailConfigFile(file) ==
  IF Decodes(file) /\ ValidateGuardrailConfig(file)
    THEN [provider |-> file.provider,
          modes    |-> {e.name : e \in file.modes},
          presidio |-> file.presidio]
    ELSE ParseError

-----------------------------------------------------------------------------
(* The sources of a stream.                                                *)

(* A header with a key of no concern has the key "unrelated".              *)
IsHeader(header) ==
  /\ header.key \in Keys \cup {"unrelated"}
  /\ header.key \in Keys => {header.value, header.raw} \subseteq FieldValues(header.key)

(* Metadata is the function from its namespaces to their structs; a value  *)
(* that is no string reads as the empty one.                               *)
IsSource(src) ==
  /\ \A ns \in DOMAIN src.metadata :
       src.metadata[ns] = NoStruct \/ IsFieldMap(src.metadata[ns])
  /\ Len(src.headers) \in Nat /\ DOMAIN src.headers = 1..Len(src.headers)
  /\ \A i \in DOMAIN src.headers : IsHeader(src.headers[i])

(* A header's raw value is used when it is not empty.                      *)
HeaderValue(header) ==
  IF header.raw # EmptyValue(header.key) THEN header.raw ELSE header.value

(* The x-guardrail-* headers, of which the last one counts.                *)
HeaderFields(headers) ==
  [key \in {headers[i].key : i \in DOMAIN headers} \cap Keys |->
     HeaderValue(headers[CHOOSE i \in DOMAIN headers :
                           /\ headers[i].key = key
                           /\ \A j \in DOMAIN headers : headers[j].key = key => j <= i])]

ParseGuardrailHeaders(headers) == ParseGuardrailConfig(HeaderFields(headers))

(* Fields that are empty or no strings are dropped.                        *)
StructFields(struct) ==
  [key \in {k \in DOMAIN struct : struct[k] # EmptyValue(k)} |-> struct[key]]

(* The namespace the iteration over the map yields first, whichever it is. *)
ParseMetadata(metadata, namespace) ==
  IF metadata[namespace] = NoStruct
    THEN NoConfig
    ELSE ParseGuardrailConfig(StructFields(metadata[namespace]))

(* What the headers yield, an error being logged and no more.              *)
FromHeaders(headers) ==
  IF ParseGuardrailHeaders(headers) = ParseError
    THEN NoConfig
    ELSE ParseGuardrailHeaders(headers)

(* Altered: the file only stands in for missing settings.                  *)
Altered_HandleRequestHeaders(staticConfig, metadata, headers) ==
  LET dynamic == {ParseMetadata(metadata, ns) : ns \in DOMAIN metadata} \ {NoConfig, ParseError}
  IN  CASE dynamic # {} -> dynamic
        [] dynamic = {} /\ FromHeaders(headers) # NoConfig -> {FromHeaders(headers)}
        [] OTHER -> {staticConfig}

(* The configurations a stream may start with: the file's, or what the     *)
(* namespace taken yields, or, if that is nothing or an error, the headers'.*)
HandleRequestHeaders(staticConfig, metadata, headers) ==
  LET found == IF DOMAIN metadata = {}
                 THEN {NoConfig}
                 ELSE {ParseMetadata(metadata, ns) : ns \in DOMAIN metadata}
      settled == {c \in found : c \notin {NoConfig, ParseError}}
  IN  CASE staticConfig # NoConfig -> {staticConfig}
        [] staticConfig = NoConfig /\ found = settled -> settled
        [] OTHER -> settled \cup {FromHeaders(headers)}

(* A provider is made of a presidio-api configuration that has its section.*)
CreatesProvider(config) ==
  /\ config # NoConfig
  /\ config.provider = "presidio-api"
  /\ config.presidio # NoPresidio
=============================================================================
