-------------------------- MODULE ExtProcProperties --------------------------
(***************************************************************************)
(* What one ext_proc stream must and must not do, stated over the          *)
(* variables of ExtProcStream.                                             *)
(***************************************************************************)
EXTENDS ExtProcStream

(* Each direction implements the gate of BodyGate: whatever mixture of     *)
(* hold, release, reject, error event and silent replies the handlers      *)
(* produce, the peer gets the whole body in order, or nothing of it, or a  *)
(* proper beginning closed by an error event, and nothing after that       *)
(* (handleRequestBody, server.go:281-357).                                 *)
RequestGate == INSTANCE BodyGate
                 WITH Byte <- Nat, taken <- reqIn, given <- reqOut, gate <- reqGate
RequestIsGated == RequestGate!GateSpec

(* The response direction, with its three paths and the silencing of what  *)
(* arrives after an abort (handleResponseBody and handleSSEResponseBody,   *)
(* server.go:510-781).                                                     *)
ResponseGate == INSTANCE BodyGate
                  WITH Byte <- Nat, taken <- respIn, given <- respOut, gate <- respGate
ResponseIsGated == ResponseGate!GateSpec

(* inspectAndEmitResponse and processSSEEvent dereference state.parser and *)
(* state.config without a test (server.go:575, 594, 697, 704): a stream    *)
(* that has taken an inspecting path must still have both, although the    *)
(* request side may go on sniffing after the response side has decided.    *)
InspectorsReady ==
  (responsePath = "buffer" \/ sseDec) =>
    /\ parser # "none"
    /\ ModeEnabled("post_call")
    /\ ~skipResponseBody

(* A parser once selected is never lost to a later sniff of other bytes    *)
(* (server.go:295 and 347), in any order of the two directions' messages.  *)
ParserIsStable == [][parser = "mcp" => parser' = "mcp"]_vars

(* The cap is exact on every buffering path (server.go:331, 547,           *)
(* decoder.go:72 and 96): no buffer outgrows it, and no body is refused as *)
(* too large unless more bytes than the cap had arrived.                   *)
RequestCap ==
  /\ MaxBodySize > 0 => Len(requestBuf) <= MaxBodySize
  /\ reqCode = 413 => MaxBodySize > 0 /\ Len(reqIn) > MaxBodySize

ResponseCap ==
  /\ MaxBodySize > 0 => Len(responseBuf) <= MaxBodySize /\ Len(ssePending) <= MaxBodySize
  /\ respCode = 502 => MaxBodySize > 0 /\ Len(respIn) > MaxBodySize

CapIsExact == RequestCap /\ ResponseCap

(* One byte more than the cap in a row, and no event ends before the last. *)
HasLongEvent(bytes) ==
  /\ MaxBodySize > 0
  /\ \E k \in 0..(Len(bytes) - MaxBodySize - 1) :
       \A i \in 1..MaxBodySize : bytes[k + i] \notin respDoc.ends

(* An answer inspected by events is broken off as too large, by a rejection*)
(* or by an error event, with the message by which an event of it, finished*)
(* or not, has outgrown the cap, and with no other: neither the chunk nor  *)
(* the stream counts, however the events are cut (server.go:658-661,        *)
(* 764-781, decoder.go:72 and 96).                                         *)
OversizeIsAnEvent ==
  [][sseDec /\ ~responseAborted => (~sseDec' <=> HasLongEvent(respIn'))]_vars

Clean(doc, given, masked) ==
  \A p \in ToSet(given) :
    /\ doc.policy[p] # "block"
    /\ doc.policy[p] = "mask" => p \in masked

(* With pre_call inspection by a working provider, a body that is an MCP   *)
(* request is never let through with a text the provider would refuse, or  *)
(* with an unmasked one it would mask, however Envoy cuts it into chunks   *)
(* (server.go:287-319, 344-356).  The paths ReplaceTexts is given must lead*)
(* back to their texts; where they do not, the body goes out as it came.   *)
PreCallInspects ==
  /\ ModeEnabled("pre_call")
  /\ config.provider = "presidio-api"
  /\ Whole(reqDoc) \in reqDoc.parses
  /\ reqDoc.patchable
  => Clean(reqDoc, reqOut, reqMasked)

(* The units the response parser sees: the events of an SSE stream, or the *)
(* body as a whole.                                                        *)
InspectableResponse ==
  /\ respDoc.status = "success"
  /\ respDoc.body.patchable
  /\ Size(respDoc.body) > 0
  /\ IF respDoc.sse
       THEN \A i \in EventEnds(Whole(respDoc.body), TRUE) :
              EventAt(Whole(respDoc.body), i) \in respDoc.body.parses
       ELSE Whole(respDoc.body) \in respDoc.body.parses

(* A successful response to an MCP request, wanted by post_call inspection *)
(* with a working provider.                                                *)
ResponseToInspect ==
  /\ ModeEnabled("post_call")
  /\ config.provider = "presidio-api"
  /\ Size(reqDoc) > 0 /\ Whole(reqDoc) \in reqDoc.parses
  /\ InspectableResponse

(* Nothing the provider refuses or would mask in such a response reaches   *)
(* the caller: server.go:218, 518-521 and 287-294 make this rest on the    *)
(* parser having been sniffed from the request.                            *)
PostCallInspects ==
  ResponseToInspect => Clean(respDoc.body, respOut, respMasked \cup respRestored)

(* It does hold once the parser has been found, and whenever pre_call      *)
(* inspection is on too, because the request is then assembled before the  *)
(* parser is sought for the last time (server.go:347-349): then neither the *)
(* cuts of the request nor those of the answer matter.                     *)
PostCallInspectsOnceSniffed ==
  (ModeEnabled("pre_call") \/ parser = "mcp") => PostCallInspects

(* Bytes held back are not held for ever: once the body has been sent,     *)
(* they have been released or refused, or the stream is gone, or trailers  *)
(* have ended the direction (server.go:340-356 and 134-139).               *)
HeldRequestSettles ==
  (reqGate = "open" /\ reqOut # reqIn) ~> (reqGate # "open" \/ rpc = "closed")

(* The same of a response, plain or event by event (server.go:556-560,     *)
(* 672-685).                                                               *)
HeldResponseSettles ==
  (respGate = "open" /\ respOut # respIn) ~> (respGate # "open" \/ rpc = "closed")

-----------------------------------------------------------------------------
(* The inductive invariant behind the safety properties.                   *)

(* Where the bytes of the request are, by path and verdict.                *)
RequestInv ==
  /\ Len(reqIn) <= Size(reqDoc)
  /\ reqIn = [i \in 1..Len(reqIn) |-> i]
  /\ reqPhase = "headers" =>
       requestPath = "unset" /\ respPhase = "headers" /\ reqGate = "open"
  /\ requestPath = "unset" =>
       /\ reqIn = << >> /\ requestBuf = << >> /\ reqOut = << >>
       /\ parser = "none" /\ ~parserAttempted
       /\ reqGate \in {"open", "ended"}
  /\ requestPath = "pass" => reqOut = reqIn /\ reqGate \in {"open", "ended"}
  /\ requestPath = "buffer" /\ reqGate = "open" => requestBuf = reqIn /\ reqOut = << >>
  /\ reqGate = "rejected" => reqOut = << >> /\ (requestAborted \/ reqPhase = "done")
  /\ reqGate # "cut"
  /\ reqGate = "ended" => reqPhase = "done"
  /\ reqPhase = "done" => reqGate # "open"
  /\ requestAborted => reqGate = "rejected" /\ requestPath = "buffer"

(* A body that pre_call inspection wants is passed through only if it is no*)
(* MCP request; and a parser that was found is final.                      *)
SniffInv ==
  /\ parser = "mcp" => parserAttempted
  /\ requestPath = "pass" /\ ModeEnabled("pre_call") =>
       Whole(reqDoc) \notin reqDoc.parses

(* Where the bytes of the response are.  After an abort the decoder may be *)
(* gone, and only the path decision still to come keeps later chunks from  *)
(* being passed through.                                                   *)
ResponseInv ==
  /\ respPhase = "headers" =>
       responsePath = "unset" /\ ~sseDec /\ ~sseEmitted /\ ~responseAborted
  /\ responsePath = "unset" /\ ~sseDec /\ ~responseAborted => respIn = << >>
  /\ respIn = << >> => respOut = << >> /\ responseBuf = << >> /\ ssePending = << >>
  /\ sseDec => responsePath = "unset"
  /\ sseDec /\ respGate = "open" =>
       /\ respIn = respOut \o ssePending
       /\ (sseEmitted <=> respOut # << >>)
  /\ responsePath = "pass" => respOut = respIn /\ respGate \in {"open", "ended"}
  /\ responsePath = "buffer" /\ respGate = "open" =>
       responseBuf = respIn /\ respOut = << >>
  /\ respGate = "ended" => respPhase = "done"
  /\ respPhase = "done" => respGate # "open"
  /\ responseAborted => respGate \in {"cut", "rejected"}
  /\ respGate \in {"cut", "rejected"} => responseAborted \/ respPhase = "done"
  /\ responsePath = "buffer" \/ sseDec \/ responseAborted =>
       /\ parser # "none"
       /\ ModeEnabled("post_call")
       /\ ~skipResponseBody
       /\ responsePath # "pass"

IInv == TypeOK /\ RequestInv /\ SniffInv /\ ResponseInv /\ PreCallInspects

(* When Envoy answers after the request and no body ends with trailers:    *)
(* the parser that pre_call inspection seeks has been found by the time the *)
(* request is let through,                                                 *)
ParserInv ==
  /\ ModeEnabled("pre_call") /\ reqGate = "ended"
       /\ Size(reqDoc) > 0 /\ Whole(reqDoc) \in reqDoc.parses
     => parser = "mcp"
  /\ respPhase # "headers" => reqGate = "ended"

(* the answer is on an inspecting path if inspection is owed to it,        *)
InspectionOwed == ResponseToInspect /\ (ModeEnabled("pre_call") \/ parser = "mcp")

AnswerPathInv ==
  /\ respPhase # "headers" => (skipResponseBody <=> respDoc.status = "failure")
  /\ sseDec => respDoc.sse
  /\ respPhase # "headers" /\ InspectionOwed =>
       /\ responsePath # "pass"
       /\ respDoc.sse => sseDec \/ responseAborted

(* and what the decoder holds begins where an event begins and ends before *)
(* it does, so that the events scanned are those of the whole body.        *)
EventsInv ==
  /\ Len(respIn) <= Size(respDoc.body)
  /\ respIn = [i \in 1..Len(respIn) |-> i]
  /\ sseDec /\ ~responseAborted /\ respPhase = "body" =>
       /\ respOut = << >> \/ Len(respOut) \in respDoc.ends
       /\ \A i \in 1..Len(ssePending) : ssePending[i] \notin respDoc.ends

(* Behind this is that what the decoder has released ends where an event   *)
(* does, and that no event so far is too long.                             *)
EventsWithinCap ==
  sseDec /\ ~responseAborted =>
    /\ respPhase = "body" => respOut = << >> \/ Last(respOut) \in respDoc.ends
    /\ ~HasLongEvent(respIn)

AnswerInv == ParserInv /\ AnswerPathInv /\ EventsInv /\ PostCallInspectsOnceSniffed

-----------------------------------------------------------------------------
(* What the documentation says and the code does not do.                   *)

(* "either passes the (possibly mutated) body downstream or rejects it     *)
(* with an appropriate HTTP error" (explanation.adoc:14): a request that   *)
(* has ended without a rejection went through whole.                       *)
BodyPassedOrRejected == reqGate = "ended" => reqOut = reqIn

(* "ResponseMetadata ... passed back to ProcessResponse" (reference.adoc:  *)
(* 215): when request texts were masked and the stream inspected the texts *)
(* of the answer, some of them were processed with that metadata.          *)
MetadataIsPassedBack ==
  LET texts == TextsToInspect(respDoc.body, responseBuf)
  IN  (responsePath = "buffer" /\ respGate = "ended" /\ texts # {} /\ requestMetadata # {})
        => Restorable(texts) # {}
=============================================================================
