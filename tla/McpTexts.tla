------------------------------ MODULE McpTexts ------------------------------
(***************************************************************************)
(* The rewriting of one MCP message: the body is recognised and decoded,   *)
(* its texts are extracted with their JSON paths, each goes through the    *)
(* provider, and the rewritten ones are put back by path                   *)
(* (internal/protocol, internal/mcp/parser.go, driven by                   *)
(* inspectAndEmitRequest and inspectAndEmitResponse in                     *)
(* internal/extproc/server.go).  Both loops run over Go maps, in any order.*)
(*                                                                         *)
(* A JSON tree is the function from the locations of its leaves to their   *)
(* values; a location is the sequence of the steps that lead to it.  A key *)
(* or a path is a sequence of symbols, of which the path syntax uses ".",  *)
(* "[", "]" and digits.                                                    *)
(***************************************************************************)
EXTENDS Integers, Sequences, FiniteSets, SequencesExt

CONSTANTS
  Symbols,               \* of keys and paths; a field of the message types is one symbol
  Wide,                  \* what becomes of a character that is more than one byte, bytewise
  Requests, Responses    \* JSON trees

Digits == <<"0", "1", "2">>    \* bound: arrays of at most three items

(* The types of JSON and their values; an object or an array is a leaf if  *)
(* it is empty.  A big number is an integer that float64 does not hold.    *)
ValuesOf ==
  [string  |-> {"secret", "plain", "masked", "empty", "text", "tools/call", "2.0"},
   number  |-> {"number", "bignumber", "rounded"},
   boolean |-> {"true"},
   null    |-> {"null"},
   object  |-> {"{}"},
   array   |-> {"[]"}]

(* Fields of the message types in their other spelling, which decodes too. *)
(* Bound: a message has at most one spelling of each.                      *)
Capital ==
  [jsonrpc |-> "JSONRPC", method |-> "Method", params |-> "Params", name |-> "Name",
   arguments |-> "Arguments", result |-> "Result", error |-> "Error", content |-> "Content",
   isError |-> "IsError", type |-> "Type", text |-> "Text"]

Decimal == ToSet(Digits) \cup {"3", "4", "5", "6", "7", "8", "9"}

ASSUME SymbolAssumption ==
  /\ {".", "[", "]"} \cup Decimal \cup DOMAIN Capital \cup {Capital[field] : field \in DOMAIN Capital}
       \subseteq Symbols \ DOMAIN Wide
  /\ DOMAIN Wide \subseteq Symbols    \* the characters from 128 on, of which the bytes are again
  /\ \A symbol \in DOMAIN Wide : Wide[symbol] \in Seq(DOMAIN Wide) /\ Len(Wide[symbol]) > 1

Key(symbols) == [kind |-> "key", key |-> symbols, index |-> 0]
Item(i) == [kind |-> "item", key |-> << >>, index |-> i]

VARIABLES
  side,           \* "request" or "response"
  message,        \* the body as it came
  toInspect,      \* locations of the texts the provider has not seen
  replacements,   \* path -> new text
  toReplace,      \* the paths ReplaceTexts has not come to
  patched,        \* the tree ReplaceTexts works on
  sent,           \* the body that goes out
  phase

vars == <<side, message, toInspect, replacements, toReplace, patched, sent, phase>>
-----------------------------------------------------------------------------
(* Decoding.                                                               *)

Present(tree, loc) == \E l \in DOMAIN tree : IsPrefix(loc, l)

TypeAt(tree, loc) ==
  IF loc \in DOMAIN tree
    THEN CHOOSE type \in DOMAIN ValuesOf : tree[loc] \in ValuesOf[type]
    ELSE IF \E l \in DOMAIN tree : IsPrefix(loc, l) /\ l[Len(loc) + 1].kind = "key"
           THEN "object" ELSE "array"

(* The member of an object that decodes into a field: encoding/json does   *)
(* not tell upper case from lower.                                         *)
Members(tree, node, field) ==
  {loc \in {Append(node, Key(<<spelling>>)) : spelling \in {field, Capital[field]}} :
     Present(tree, loc)}

Items(tree, node) ==
  {loc \in {Append(node, Item(i)) : i \in 0..(Len(Digits) - 1)} : Present(tree, loc)}

(* json.Unmarshal into a struct: a field is absent, null or of its type.   *)
Decodes(tree, node, types) ==
  /\ TypeAt(tree, node) \in {"object", "null"}
  /\ \A field \in DOMAIN types : \A loc \in Members(tree, node, field) :
       TypeAt(tree, loc) \in {types[field], "null"}

Reads(tree, node, field, value) ==
  \E loc \in Members(tree, node, field) : loc \in DOMAIN tree /\ tree[loc] = value

NonEmptyString(tree, loc) == TypeAt(tree, loc) = "string" /\ tree[loc] # "empty"

IsRequest(tree) ==
  /\ Decodes(tree, << >>, [jsonrpc |-> "string", method |-> "string"])
  /\ \E loc \in Members(tree, << >>, "method") : NonEmptyString(tree, loc)

CanParse(tree) == IsRequest(tree) /\ Reads(tree, << >>, "jsonrpc", "2.0")

(* The registry holds the MCP parser alone.                                *)
SelectParser(tree) == IF CanParse(tree) THEN "mcp" ELSE "none"

-----------------------------------------------------------------------------
(* Extraction.                                                             *)

(* Altered: any method is taken for tools/call.                            *)
Altered_ArgumentObjects(tree) ==
  IF IsRequest(tree)
    THEN UNION {Members(tree, params, "arguments") : params \in Members(tree, << >>, "params")}
    ELSE {}

(* The arguments of a tools/call request whose params decode.              *)
ArgumentObjects(tree) ==
  UNION {Members(tree, params, "arguments") :
           params \in {loc \in Members(tree, << >>, "params") :
                        /\ IsRequest(tree)
                        /\ Reads(tree, << >>, "method", "tools/call")
                        /\ Decodes(tree, loc, [name |-> "string", arguments |-> "object"])}}

(* Every non-empty string below them.                                      *)
RequestTexts(tree) ==
  {loc \in DOMAIN tree :
     /\ \E arguments \in ArgumentObjects(tree) : IsStrictPrefix(arguments, loc)
     /\ NonEmptyString(tree, loc)}

(* The content of a result that decodes, in a response without an error.   *)
ContentItems(tree) ==
  UNION {UNION {Items(tree, content) : content \in Members(tree, result, "content")} :
           result \in {loc \in Members(tree, << >>, "result") :
                         /\ Decodes(tree, << >>, [jsonrpc |-> "string", error |-> "null"])
                         /\ Decodes(tree, loc, [content |-> "array", isError |-> "boolean"])}}

(* Altered: an item of another type ends the loop.                         *)
Altered_ResponseTexts(tree) ==
  {loc \in UNION {Members(tree, item, "text") : item \in ContentItems(tree)} :
     /\ NonEmptyString(tree, loc)
     /\ \A item \in ContentItems(tree) :
          /\ Decodes(tree, item, [type |-> "string", text |-> "string"])
          /\ Last(item).index <= loc[3].index => Reads(tree, item, "type", "text")}

(* The non-empty text of every item of type "text", unless one of the      *)
(* items does not decode.                                                  *)
ResponseTexts(tree) ==
  {loc \in UNION {Members(tree, item, "text") : item \in ContentItems(tree)} :
     /\ NonEmptyString(tree, loc)
     /\ Reads(tree, Front(loc), "type", "text")
     /\ \A item \in ContentItems(tree) :
          Decodes(tree, item, [type |-> "string", text |-> "string"])}

(* The parser selected by the request takes the response too.              *)
Texts ==
  IF side = "response" THEN ResponseTexts(message)
    ELSE IF SelectParser(message) = "mcp" THEN RequestTexts(message) ELSE {}

Arguments == <<Key(<<"params">>), Key(<<"arguments">>)>>
TextOf(item) == <<Key(<<"result">>), Key(<<"content">>), item, Key(<<"text">>)>>

(* The location as it is recorded, with the fields in lower case.          *)
Recorded(loc) ==
  IF side = "request" THEN Arguments \o SubSeq(loc, 3, Len(loc)) ELSE TextOf(loc[3])

(* The recorded path: keys after a dot, except the first, which is a field,*)
(* and indices in brackets.                                                *)
Show(steps, i) ==
  IF steps[i].kind = "item" THEN <<"[", Digits[steps[i].index + 1], "]">>
    ELSE (IF i = 1 THEN << >> ELSE <<".">>) \o steps[i].key

Path(steps) ==
  LET path[i \in 0..Len(steps)] == IF i = 0 THEN << >> ELSE path[i - 1] \o Show(steps, i)
  IN  path[Len(steps)]

PathOf(loc) == Path(Recorded(loc))

-----------------------------------------------------------------------------
(* Replacement.                                                            *)

(* What ends a segment; an empty one is dropped.                           *)
Cut(scan) ==
  IF scan.current = << >> THEN scan
    ELSE [scan EXCEPT !.segments = Append(@, scan.current), !.current = << >>]

(* string(ch) takes each byte for the number of a character.               *)
Runes(symbol) == IF symbol \in DOMAIN Wide THEN Wide[symbol] ELSE <<symbol>>

Closing(path, i) == {j \in (i + 1)..Len(path) : path[j] = "]"}

(* Altered: brackets are taken for a part of the key.                      *)
Altered_Look(path, scan, i) ==
  IF path[i] = "." THEN Cut(scan) ELSE [scan EXCEPT !.current = @ \o Runes(path[i])]

(* One round of parsePath's loop: dots and brackets end a segment, and what *)
(* stands between brackets is one whatever it holds.                       *)
Look(path, scan, i) ==
  CASE i <= scan.upTo -> scan
    [] i > scan.upTo /\ path[i] = "[" /\ Closing(path, i) # {} ->
         [Cut(scan) EXCEPT !.segments = Append(@, SubSeq(path, i + 1, Min(Closing(path, i)) - 1)),
                           !.upTo = Min(Closing(path, i))]
    [] i > scan.upTo /\ (path[i] = "." \/ (path[i] = "[" /\ Closing(path, i) = {})) -> Cut(scan)
    [] OTHER -> [scan EXCEPT !.current = @ \o Runes(path[i])]

ParsePath(path) ==
  LET scan[i \in 0..Len(path)] ==
        IF i = 0 THEN [segments |-> << >>, current |-> << >>, upTo |-> 0]
          ELSE Look(path, scan[i - 1], i)
  IN  Cut(scan[Len(path)]).segments

Nodes(tree) == UNION {{SubSeq(loc, 1, k) : k \in 0..Len(loc)} : loc \in DOMAIN tree}

(* Sscanf reads a number behind blanks, a sign and zeros, and leaves what  *)
(* follows its last digit.                                                 *)
ScansAs(segment, i) ==
  \E k \in 1..Len(segment) :
    /\ segment[k] = Digits[i + 1]
    /\ k < Len(segment) => segment[k + 1] \notin Decimal
    /\ \A j \in 1..(k - 1) :
         \/ segment[j] = "0"
         \/ /\ segment[j] \in {" ", "+"} \cup (IF i = 0 THEN {"-"} ELSE {})
            /\ \A h \in 1..(j - 1) : segment[h] = " "

(* A segment names a key of an object or an item of an array.              *)
Follows(step, segment) ==
  step = Key(segment) \/ (step.kind = "item" /\ ScansAs(segment, step.index))

(* Where setValueAtPathRecursive sets the value: below an object that the  *)
(* other segments lead to, whether it has that key or not.                 *)
Targets(tree, segments) ==
  {Append(node, Key(Last(segments))) :
     node \in {n \in Nodes(tree) :
                 /\ Len(n) = Len(segments) - 1
                 /\ TypeAt(tree, n) = "object"
                 /\ \A i \in 1..Len(n) : Follows(n[i], segments[i])}}

(* The value takes the place of whatever was there.                        *)
SetValue(tree, target, value) ==
  [loc \in {l \in DOMAIN tree : ~IsPrefix(target, l) /\ ~IsPrefix(l, target)} \cup {target} |->
     IF loc = target THEN value ELSE tree[loc]]

(* map[string]interface{} holds a number as float64.                       *)
Decoded(tree) ==
  [loc \in DOMAIN tree |-> IF tree[loc] = "bignumber" THEN "rounded" ELSE tree[loc]]

-----------------------------------------------------------------------------
(* What is a message: each leaf has a value of JSON, none lies below another*)
(* one, the children of a node are its members or its items, and a field   *)
(* of the body, of params and of result has at most one spelling.          *)
Steps ==
  [kind : {"key"}, key : Seq(Symbols), index : {0}]
    \cup [kind : {"item"}, key : {<< >>}, index : 0..(Len(Digits) - 1)]

IsTree(tree) ==
  /\ DOMAIN tree \subseteq Seq(Steps)
  /\ \A loc \in DOMAIN tree : \E type \in DOMAIN ValuesOf : tree[loc] \in ValuesOf[type]
  /\ \A l, m \in DOMAIN tree : IsPrefix(l, m) => l = m
  /\ \A l, m \in Nodes(tree) :
       l # << >> /\ m # << >> /\ Front(l) = Front(m) => Last(l).kind = Last(m).kind
  /\ \A node \in Nodes(tree), field \in DOMAIN Capital :
       Len(node) <= 1 => \A l, m \in Members(tree, node, field) : l = m

ASSUME TreeAssumption == \A tree \in Requests \cup Responses : IsTree(tree)

Init ==
  /\ \/ side = "request" /\ message \in Requests
     \/ side = "response" /\ message \in Responses
  /\ toInspect = {}
  /\ replacements = << >>
  /\ toReplace = {}
  /\ patched = << >>
  /\ sent = << >>
  /\ phase = "parse"

(* No parser takes the request, or there is nothing to inspect: another    *)
(* method, an error, no text, or a part that does not decode.              *)
PassThrough ==
  /\ phase = "parse"
  /\ Texts = {}
  /\ phase' = "sent" /\ sent' = message
  /\ UNCHANGED <<side, message, toInspect, replacements, toReplace, patched>>

ExtractTexts ==
  /\ phase = "parse"
  /\ Texts # {}
  /\ phase' = "inspect" /\ toInspect' = Texts
  /\ UNCHANGED <<side, message, replacements, toReplace, patched, sent>>

(* A text the provider leaves alone.                                       *)
KeepText(loc) ==
  /\ phase = "inspect" /\ loc \in toInspect
  /\ message[loc] # "secret"
  /\ toInspect' = toInspect \ {loc}
  /\ UNCHANGED <<side, message, replacements, toReplace, patched, sent, phase>>

(* Altered: only the last replacement is remembered.                       *)
Altered_MaskText(loc) ==
  /\ phase = "inspect" /\ loc \in toInspect
  /\ message[loc] = "secret"
  /\ toInspect' = toInspect \ {loc}
  /\ replacements' = [path \in {PathOf(loc)} |-> "masked"]
  /\ UNCHANGED <<side, message, toReplace, patched, sent, phase>>

MaskText(loc) ==
  /\ phase = "inspect" /\ loc \in toInspect
  /\ message[loc] = "secret"
  /\ toInspect' = toInspect \ {loc}
  /\ replacements' = [path \in DOMAIN replacements \cup {PathOf(loc)} |-> "masked"]
  /\ UNCHANGED <<side, message, toReplace, patched, sent, phase>>

(* The provider refuses a text: the message is blocked.                    *)
BlockText(loc) ==
  /\ phase = "inspect" /\ loc \in toInspect
  /\ phase' = "blocked"
  /\ UNCHANGED <<side, message, toInspect, replacements, toReplace, patched, sent>>

SendUnchanged ==
  /\ phase = "inspect" /\ toInspect = {}
  /\ replacements = << >>
  /\ phase' = "sent" /\ sent' = message
  /\ UNCHANGED <<side, message, toInspect, replacements, toReplace, patched>>

(* Altered: the loop runs over all the texts.                              *)
Altered_StartReplacing ==
  /\ phase = "inspect" /\ toInspect = {}
  /\ replacements # << >>
  /\ phase' = "replace"
  /\ toReplace' = {PathOf(loc) : loc \in Texts}
  /\ patched' = Decoded(message)
  /\ UNCHANGED <<side, message, toInspect, replacements, sent>>

StartReplacing ==
  /\ phase = "inspect" /\ toInspect = {}
  /\ replacements # << >>
  /\ phase' = "replace"
  /\ toReplace' = DOMAIN replacements
  /\ patched' = Decoded(message)
  /\ UNCHANGED <<side, message, toInspect, replacements, sent>>

ReplaceText(path) ==
  /\ phase = "replace" /\ path \in toReplace
  /\ \E target \in Targets(patched, ParsePath(path)) :
       patched' = SetValue(patched, target, replacements[path])
  /\ toReplace' = toReplace \ {path}
  /\ UNCHANGED <<side, message, toInspect, replacements, sent, phase>>

(* Altered: what was patched so far goes out.                              *)
Altered_ReplaceFails(path) ==
  /\ phase = "replace" /\ path \in toReplace
  /\ Targets(patched, ParsePath(path)) = {}
  /\ phase' = "sent" /\ sent' = patched
  /\ UNCHANGED <<side, message, toInspect, replacements, toReplace, patched>>

(* One path that leads nowhere makes ReplaceTexts fail, and the body goes  *)
(* out as it came.                                                         *)
ReplaceFails(path) ==
  /\ phase = "replace" /\ path \in toReplace
  /\ Targets(patched, ParsePath(path)) = {}
  /\ phase' = "sent" /\ sent' = message
  /\ UNCHANGED <<side, message, toInspect, replacements, toReplace, patched>>

SendPatched ==
  /\ phase = "replace" /\ toReplace = {}
  /\ phase' = "sent" /\ sent' = patched
  /\ UNCHANGED <<side, message, toInspect, replacements, toReplace, patched>>

Next ==
  \/ PassThrough
  \/ ExtractTexts
  \/ \E loc \in toInspect : KeepText(loc) \/ MaskText(loc) \/ BlockText(loc)
  \/ SendUnchanged
  \/ StartReplacing
  \/ \E path \in toReplace : ReplaceText(path) \/ ReplaceFails(path)
  \/ SendPatched

Spec == Init /\ [][Next]_vars
-----------------------------------------------------------------------------
Trees ==
  {message} \cup (IF phase = "replace" THEN {patched} ELSE {})
            \cup (IF phase = "sent" THEN {sent} ELSE {})

TypeOK ==
  /\ side \in {"request", "response"}
  /\ phase \in {"parse", "inspect", "replace", "sent", "blocked"}
  /\ toInspect \subseteq Texts
  /\ DOMAIN replacements \subseteq {PathOf(loc) : loc \in Texts}
  /\ toReplace \subseteq DOMAIN replacements
  /\ \A tree \in Trees : \A loc \in DOMAIN tree :
       \E type \in DOMAIN ValuesOf : tree[loc] \in ValuesOf[type]

Addressable(loc) == Targets(message, ParsePath(PathOf(loc))) = {loc}

PlainKeys(loc) ==
  \A i \in DOMAIN loc :
    loc[i].kind = "key" =>
      loc[i].key # << >> /\ ({".", "["} \cup DOMAIN Wide) \cap ToSet(loc[i].key) = {}

Masked ==
  IF \E loc \in Texts : message[loc] = "secret"
    THEN [loc \in DOMAIN message |->
            IF loc \in Texts /\ message[loc] = "secret" THEN "masked" ELSE Decoded(message)[loc]]
    ELSE message

(* The recorded path of a text leads back to it if its keys are not empty, *)
(* in ASCII and without dots and opening brackets, the text is a member of *)
(* an object, and the fields above it are in lower case: parsePath and setValueAtPath *)
(* (parser.go:186-264) undo what extractStringsFromValue (parser.go:125-150)*)
(* wrote, for what the decoder accepted.                                   *)
WrittenPlainly(loc) == Last(loc).kind = "key" /\ PlainKeys(loc) /\ Recorded(loc) = loc

PlainKeysAreAddressable == \A loc \in Texts : WrittenPlainly(loc) => Addressable(loc)

(* When every text can be addressed, exactly the texts the provider masks  *)
(* change, in whatever order the maps are walked, and a number only if     *)
(* there is a mask and float64 does not hold it (server.go:421-450,        *)
(* parser.go:154-175).                                                     *)
RewrittenExactly ==
  phase = "sent" /\ (\A loc \in Texts : Addressable(loc)) => sent = Masked

(* With plain keys and text in lower case, a message goes out as it came   *)
(* or with all its masks, never half rewritten, although ReplaceTexts may  *)
(* fail in mid-loop (parser.go:162-166, server.go:440-444).                *)
AllOrNothing ==
  /\ phase = "sent"
  /\ \A loc \in Texts : PlainKeys(loc) /\ (side = "response" => Last(loc) = Last(Recorded(loc)))
  => sent \in {message, Masked}

(* A message as MCP writes it: the fields in lower case and of their types,*)
(* a request that calls a tool, a response that is no error.               *)
Leaf(loc) == IF loc \in DOMAIN message THEN message[loc] ELSE "null"
Content(i, field) == <<Key(<<"result">>), Key(<<"content">>), Item(i), Key(<<field>>)>>
Fits(loc, type) == Present(message, loc) => TypeAt(message, loc) \in {type, "null"}

Conforming ==
  /\ \A field \in DOMAIN Capital : \A loc \in DOMAIN message :
       Key(<<Capital[field]>>) \notin ToSet(loc)
  /\ Leaf(<<Key(<<"jsonrpc">>)>>) = "2.0"
  /\ side = "request" =>
       /\ Leaf(<<Key(<<"method">>)>>) = "tools/call"
       /\ Fits(<<Key(<<"params">>), Key(<<"name">>)>>, "string")
       /\ Fits(Arguments, "object")
  /\ side = "response" =>
       /\ ~Present(message, <<Key(<<"error">>)>>)
       /\ Fits(<<Key(<<"result">>), Key(<<"isError">>)>>, "boolean")
       /\ \A i \in 0..(Len(Digits) - 1) :
            /\ Fits(Front(Content(i, "type")), "object")
            /\ Fits(Content(i, "type"), "string") /\ Fits(Content(i, "text"), "string")

Guarded ==
  {loc \in DOMAIN message :
     IF side = "request" THEN IsStrictPrefix(Arguments, loc)
       ELSE \E i \in 0..(Len(Digits) - 1) :
              loc = Content(i, "text") /\ Leaf(Content(i, "type")) = "text"}

(* No secret of a conforming message passes: one that goes out as it came, *)
(* or in which a guarded text is still the secret, does not conform or has *)
(* a text that its path does not lead to.  CanParse, ParseRequest or       *)
(* ParseResponse, the extraction, the provider and ReplaceTexts all have a *)
(* part in it (mcpparser.go:29-96, parser.go:60-150, server.go:397-450).   *)
ConformingIsMasked ==
  phase = "sent" /\ Conforming /\ (\A loc \in Texts : Addressable(loc)) =>
    \A loc \in Guarded : loc \in DOMAIN sent /\ sent[loc] # "secret"

(* What is not inspected by MCP's rules goes out as it came: a request that *)
(* calls no tool, and an error (mcpparser.go:50-53, 84-87).                *)
IsOther ==
  \/ /\ side = "request"
     /\ \A method \in {"method", "Method"} : Leaf(<<Key(<<method>>)>>) # "tools/call"
  \/ side = "response" /\ ~Fits(<<Key(<<"error">>)>>, "null")

OthersPassUntouched ==
  phase \in {"sent", "blocked"} /\ IsOther => phase = "sent" /\ sent = message

(* "ReplaceTexts to patch the original JSON body at the recorded paths     *)
(* before forwarding it" (reference.adoc:253), of which reference.adoc:234 *)
(* names params.arguments.input[0] as one.                                 *)
MaskedTextsAreReplaced ==
  phase = "sent" => \A loc \in Texts \cap DOMAIN sent : sent[loc] # "secret"

(* "replaces text at specified JSON paths in the message body"             *)
(* (parser.go:152): a location that held no masked text keeps its value.   *)
OtherTextsAreKept ==
  phase = "sent" =>
    \A loc \in DOMAIN message :
      message[loc] # "secret" => loc \in DOMAIN sent /\ sent[loc] = message[loc]
=============================================================================
