--------------------------- MODULE MCAdapterProcess ---------------------------
(***************************************************************************)
(* Small files, metadata and headers for TLC.                              *)
(***************************************************************************)
EXTENDS AdapterProcess

CONSTANTS s1, s2, low, mask

MCStream == {s1, s2}
MCJsonObjects == {low, mask}

Plain(name) == [name |-> name, padded |-> FALSE]
Padded(name) == [name |-> name, padded |-> TRUE]

Both == {Plain("pre_call"), Plain("post_call")}
Section == [endpoint |-> "url", language |-> "", score_thresholds |-> low,
            entity_actions |-> mask]
Bare == [Section EXCEPT !.score_thresholds = NoObject, !.entity_actions = NoObject]

File == [readable |-> TRUE, strict |-> TRUE, provider |-> "presidio-api", modes |-> Both,
         presidio |-> Section]

MCConfigFiles ==
  {File, [File EXCEPT !.modes = {Plain("post_call")}, !.presidio = Bare],
   [File EXCEPT !.provider = "other"],
   [File EXCEPT !.readable = FALSE], [File EXCEPT !.strict = FALSE],
   [File EXCEPT !.provider = ""], [File EXCEPT !.modes = {}],
   [File EXCEPT !.modes = {Padded("pre_call")}], [File EXCEPT !.presidio = NoPresidio],
   [File EXCEPT !.presidio.endpoint = ""]}

(* The fields of File, the modes written as a list people write.           *)
Spaced == {Plain("post_call"), Plain(""), Padded("pre_call")}
Fields ==
  [key \in Keys \ {"language"} |->
     CASE key = "provider" -> "presidio-api"
       [] key = "mode" -> Spaced
       [] OTHER -> Section[key]]
BareFields ==
  [key \in {"provider", "mode", "endpoint"} |->
     IF key = "mode" THEN {Plain("post_call")} ELSE Fields[key]]
Other == [BareFields EXCEPT !["provider"] = "other", !["mode"] = Both]
Broken == [Fields EXCEPT !["score_thresholds"] = Malformed]
Empty == [key \in {"provider"} |-> ""]
NoNamespace == [ns \in {} |-> NoStruct]

Header(key, value) == [key |-> key, value |-> value, raw |-> EmptyValue(key)]
Raw(key, value) == [key |-> key, value |-> EmptyValue(key), raw |-> value]

FieldHeaders ==
  <<Header("mode", Spaced), Raw("score_thresholds", low), Header("unrelated", "x"),
    Header("endpoint", "url"), Raw("entity_actions", mask), Raw("provider", "presidio-api")>>
BareHeaders ==
  <<Header("provider", "presidio-api"), Header("endpoint", "url"),
    Raw("mode", {Padded("post_call"), Plain("")})>>
BrokenHeaders == Append(FieldHeaders, Header("entity_actions", Malformed))

From(metadata, headers) == [metadata |-> metadata, headers |-> headers]

MCSources ==
  {From([ns \in {"own"} |-> Fields], BareHeaders),
   From([ns \in {"own"} |-> BareFields], << >>),
   From([ns \in {"own"} |-> Broken], BareHeaders),
   From([ns \in {"own"} |-> Broken], BrokenHeaders),
   From([ns \in {"own", "mesh"} |-> IF ns = "own" THEN Fields ELSE Empty], BareHeaders),
   From([ns \in {"own", "mesh"} |-> IF ns = "own" THEN Fields ELSE NoStruct], << >>),
   From(NoNamespace, FieldHeaders),
   From(NoNamespace, BareHeaders),
   From(NoNamespace, BrokenHeaders),
   From([ns \in {"own"} |-> Other], << >>),
   From(NoNamespace, << >>)}
=============================================================================
