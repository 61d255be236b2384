----------------------------- MODULE MCMcpTexts -----------------------------
(***************************************************************************)
(* Small requests and responses for TLC.                                   *)
(***************************************************************************)
EXTENDS McpTexts

K(field) == Key(<<field>>)
A == K("a")
B == K("b")

(* The tree with the leaves of another one in place of its own.            *)
With(tree, leaves) ==
  [loc \in {l \in DOMAIN tree : \A t \in DOMAIN leaves : ~IsPrefix(t, l) /\ ~IsPrefix(l, t)}
             \cup DOMAIN leaves |->
     IF loc \in DOMAIN leaves THEN leaves[loc] ELSE tree[loc]]

Without(tree, node) == [loc \in {l \in DOMAIN tree : ~IsPrefix(node, l)} |-> tree[loc]]

(* The tree with a field of the message types in its other spelling.       *)
Respelled(tree, field) ==
  LET Respell(loc) == [i \in DOMAIN loc |-> IF loc[i] = K(field) THEN K(Capital[field]) ELSE loc[i]]
  IN  [loc \in {Respell(l) : l \in DOMAIN tree} |-> tree[CHOOSE l \in DOMAIN tree : Respell(l) = loc]]

-----------------------------------------------------------------------------
(* A request with the given texts below params.arguments.                  *)
Request(args) ==
  [loc \in {Arguments \o l : l \in DOMAIN args}
             \cup {<<K("params"), K("name")>>, <<K("jsonrpc")>>, <<K("method")>>} |->
     CASE IsPrefix(Arguments, loc) -> args[SubSeq(loc, 3, Len(loc))]
       [] loc = <<K("jsonrpc")>> -> "2.0"
       [] loc = <<K("method")>> -> "tools/call"
       [] OTHER -> "plain"]

(* The shapes of arguments: flat, nested, arrays of objects and of texts.  *)
PlainShapes ==
  {{<<A>>, <<B>>}, {<<A, A>>, <<A, B>>, <<B>>},
   {<<A, Item(0), B>>, <<A, Item(1), B>>}, {<<A, Item(0)>>, <<A, Item(1)>>, <<B>>}}

(* Keys that the path syntax reads otherwise.                              *)
DottedShapes ==
  {{<<Key(<<"a", ".", "b">>)>>, <<A, B>>, <<B>>}, {<<Key(<<"a", ".", "b">>)>>, <<A, A>>}}
BracketShapes ==
  {{<<Key(<<"a", "[", "0", "]">>)>>, <<A, Item(0), B>>},
   {<<Key(<<"a", "[", "0", "]", "b">>)>>, <<A, Item(0), B>>},
   {<<Key(<<"a", "[">>)>>, <<B>>}, {<<Key(<< >>)>>, <<B>>}, {<<Key(<<"a", "]">>)>>, <<B>>}}

Leaves == {"secret", "plain", "empty", "number", "bignumber"}
Few == {"secret", "plain"}
EmptyOrFew == {"secret", "{}"}

PlainRequests == UNION {{Request(args) : args \in [shape -> Leaves]} : shape \in PlainShapes}
DottedRequests == UNION {{Request(args) : args \in [shape -> Few]} : shape \in DottedShapes}
BracketRequests == UNION {{Request(args) : args \in [shape -> Few]} : shape \in BracketShapes}

(* Keys beyond ASCII, one of them what parsePath makes of the other.       *)
WideShapes == {{<<Key(<<"e acute">>)>>, <<B>>}, {<<Key(<<"e acute">>)>>, <<Key(<<"A tilde", "copyright">>)>>}}
WideRequests == UNION {{Request(args) : args \in [shape -> Few]} : shape \in WideShapes}

(* Keys that an index is read from.                                        *)
NumberShapes ==
  {{<<Key(<<"a", ".">> \o number)>>, <<Key(<<"a", ".">> \o number \o <<".", "b">>)>>, <<A, Item(i), B>>} :
     i \in 0..1, number \in {<<"1">>, <<"0", "1">>, <<"1", "b">>, <<"1", "2">>, <<" ", "+", "1">>, <<"-", "1">>}}
NumberRequests ==
  UNION {{Request(args) : args \in [shape -> {"secret"}]} : shape \in NumberShapes}

(* An empty object that the path of a dotted key leads to.                 *)
EmptyObjects ==
  {Request(args) : args \in [{<<Key(<<"a", ".", "b">>)>>, <<A>>} -> EmptyOrFew]}

(* Other messages, and fields that are missing, of another type or spelled *)
(* in capitals.                                                            *)
Call == Request(<<A>> :> "secret" @@ <<B>> :> "plain")

OtherRequests ==
  {With(Call, <<K("jsonrpc")>> :> v) : v \in {"plain", "number", "null"}}
    \cup {With(Call, <<K("method")>> :> v) : v \in {"plain", "number", "null", "empty"}}
    \cup {With(Call, <<K("params"), K("name")>> :> v) : v \in {"number", "null"}}
    \cup {With(Call, Arguments :> v) : v \in {"plain", "null", "{}", "[]"}}
    \cup {With(With(Call, Arguments :> "null"), Append(Arguments, Item(0)) :> "secret")}
    \cup {With(Call, <<K("params")>> :> v) : v \in {"plain", "null", "{}"}}
    \cup {With(Call, <<K("id")>> :> v) : v \in {"number", "bignumber", "secret"}}
    \cup {Without(Call, <<K(field)>>) : field \in {"jsonrpc", "method", "params"}}
    \cup {Respelled(Call, field) : field \in {"jsonrpc", "method", "params", "arguments", "name"}}
    \cup {With(Call, <<K("result"), K("content"), Item(0), K("text")>> :> "secret")}

MCRequests ==
  PlainRequests \cup DottedRequests \cup BracketRequests \cup WideRequests \cup NumberRequests
    \cup EmptyObjects \cup OtherRequests

-----------------------------------------------------------------------------
(* A response with two items, of type "text" or another.                   *)
Response(types, texts) ==
  [loc \in {Content(i, field) : i \in 0..1, field \in {"type", "text"}} \cup {<<K("jsonrpc")>>} |->
     CASE loc = <<K("jsonrpc")>> -> "2.0"
       [] loc \in {Content(i, "type") : i \in 0..1} -> types[loc[3].index]
       [] OTHER -> texts[loc[3].index]]

PlainResponses ==
  {Response(types, texts) :
     types \in [0..1 -> {"text", "plain"}],
     texts \in [0..1 -> {"secret", "plain", "empty", "number", "null"}]}

Answer == Response(0 :> "text" @@ 1 :> "plain", [i \in 0..1 |-> "secret"])

OtherResponses ==
  {With(Answer, <<K("error"), K("message")>> :> "secret")}
    \cup {With(Answer, <<K("error")>> :> v) : v \in {"plain", "null", "{}"}}
    \cup {With(Answer, <<K("jsonrpc")>> :> v) : v \in {"plain", "number"}}
    \cup {With(Answer, <<K("id")>> :> v) : v \in {"number", "bignumber"}}
    \cup {With(Answer, <<K("result")>> :> v) : v \in {"plain", "null", "{}"}}
    \cup {With(Answer, <<K("result"), K("content")>> :> v) : v \in {"plain", "null", "{}", "[]"}}
    \cup {With(Answer, <<K("result"), K("isError")>> :> v) : v \in {"true", "plain"}}
    \cup {With(Answer, <<K("result"), K("isError"), A>> :> "plain")}
    \cup {With(Answer, <<K("result"), K("content"), Item(1)>> :> v) : v \in {"plain", "null", "{}"}}
    \cup {Without(Answer, <<K("result")>>), Without(Answer, Content(0, "type"))}
    \cup {Respelled(Answer, field) : field \in {"jsonrpc", "result", "content", "type", "text"}}

MCResponses == PlainResponses \cup OtherResponses
NoMessages == {}

(* The two bytes of e acute are the numbers of A tilde and copyright.      *)
MCWide ==
  "e acute" :> <<"A tilde", "copyright">>
    @@ "A tilde" :> <<"A tilde", "131">> @@ "copyright" :> <<"A circumflex", "copyright">>
    @@ "A circumflex" :> <<"A tilde", "130">>
    @@ "131" :> <<"A circumflex", "131">> @@ "130" :> <<"A circumflex", "130">>

MCSymbols ==
  {"a", "b", "id", "message", ".", "[", "]", " ", "+", "-"} \cup Decimal \cup DOMAIN MCWide
    \cup DOMAIN Capital \cup {Capital[field] : field \in DOMAIN Capital}
=============================================================================
