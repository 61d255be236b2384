--------------------------- MODULE MCExtProcStream ---------------------------
(***************************************************************************)
(* Small bodies, responses and configurations for TLC.                     *)
(***************************************************************************)
EXTENDS ExtProcProperties

(* A body that only parses as a whole, and one no parser accepts.          *)
Json(policy) ==
  [policy |-> policy, parses |-> {[i \in 1..Len(policy) |-> i]}, patchable |-> TRUE]
Plain(size) ==
  [policy |-> [i \in 1..size |-> "none"], parses |-> {}, patchable |-> TRUE]

(* White space before the JSON text: the tail of the body parses too.      *)
Indented == [Json(<<"none", "mask">>) EXCEPT !.parses = @ \cup {<<2>>}]

(* A newline behind the JSON text: the body parses without it, too.        *)
Terminated == [Json(<<"mask", "none">>) EXCEPT !.parses = @ \cup {<<1>>}]

(* One JSON text per line: each parses, the body as a whole does not.      *)
Lines == [Plain(2) EXCEPT !.policy = <<"mask", "none">>, !.parses = {<<1>>, <<2>>}]

(* A masked text whose recorded path ReplaceTexts cannot follow.           *)
Unpatchable == [Json(<<"mask", "none">>) EXCEPT !.patchable = FALSE]

Answer(body) == [body |-> body, status |-> "success", sse |-> FALSE, ends |-> {}]
Failed(body) == [Answer(body) EXCEPT !.status = "failure"]

(* An event stream; each event is a JSON text of its own.                  *)
Events(policy, ends, parses) ==
  [body |-> [policy |-> policy, parses |-> parses, patchable |-> TRUE],
   status |-> "success", sse |-> TRUE, ends |-> ends]

MCReqDocs ==
  {Json(<<"mask", "none">>), Json(<<"allow", "block">>), Json(<<"none", "mask", "none">>),
   Indented, Terminated, Lines, Unpatchable, Plain(0), Plain(4)}

(* Requests for the runs about the answers: masked, allowed, and found by a *)
(* fragment only.                                                          *)
MCFewReqDocs == {Json(<<"mask", "none">>), Json(<<"none", "allow">>), Lines}

MCRespDocs ==
  {Answer(Json(<<"mask", "allow">>)), Answer(Json(<<"none", "block", "none">>)),
   Failed(Plain(1)), Answer(Plain(0)),
   Events(<<"mask", "block", "none">>, {1, 3}, {<<1>>, <<2, 3>>}),
   Events(<<"none", "none", "none", "block">>, {3}, {<<1, 2, 3>>, <<4>>}),
   Events(<<"none", "none", "none", "none", "block">>, {5}, {<<1, 2, 3, 4, 5>>}),
   Events(<<"allow", "none", "mask">>, {1}, {<<1>>, <<2, 3>>})}

MCFewRespDocs ==
  {Answer(Json(<<"mask", "allow">>)),
   Events(<<"mask", "block", "none">>, {1, 3}, {<<1>>, <<2, 3>>}),
   Events(<<"none", "none", "none", "block">>, {1}, {<<1>>, <<2, 3, 4>>})}

MCConfigs ==
  [modes : SUBSET Modes, provider : {"presidio-api"}]
    \cup [modes : {Modes}, provider : {"other"}]

(* A configuration file with one mode.                                       *)
MCStatic == [modes |-> {"post_call"}, provider |-> "presidio-api"]
=============================================================================
