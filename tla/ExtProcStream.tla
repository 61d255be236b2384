---------------------------- MODULE ExtProcStream ----------------------------
(***************************************************************************)
(* One ext_proc stream of the guardrail adapter: the messages Envoy sends  *)
(* about one HTTP exchange, the handler of each (internal/extproc/server.go)*)
(* and what Envoy lets through as a consequence of the replies.            *)
(*                                                                         *)
(* Process handles one message at a time, so an action receives a message, *)
(* runs its handler to the end, provider calls included, and sends the     *)
(* reply.  What interleaves is the order of the messages: in full-duplex   *)
(* mode those of the two directions arrive in any order, a body is cut     *)
(* into chunks anywhere, and the stream may end between any two messages.  *)
(*                                                                         *)
(* A body is the sequence <<1, ..., n>> of its positions; what the code    *)
(* learns by parsing is an attribute of the document.                      *)
(***************************************************************************)
EXTENDS Integers, Sequences, FiniteSets, SequencesExt

CONSTANTS
  MaxBodySize,    \* --max-body-size; a value <= 0 disables the cap
  StaticConfig,   \* the file configuration, or NoConfig
  Configs,        \* configurations that metadata or headers can carry
  NoConfig,       \* the nil *GuardrailConfig
  ParseError,     \* metadata or headers that are there but do not parse
  ReqDocs,        \* request bodies
  RespDocs,       \* responses
  EarlyResponse,  \* bound: the upstream may answer before the request ends
  SplitRequest,   \* bound: Envoy may cut the request body into chunks
  AllowTrailers   \* bound: a body may end with trailers, not end_of_stream

(* What the provider says of the text at a position; "none" is a position  *)
(* that holds no text an MCP parser extracts.                              *)
Verdicts == {"none", "allow", "mask", "block"}

(* policy: one entry per byte.  parses: the byte sequences (the whole body,*)
(* or a fragment that is complete JSON on its own) the parser accepts.     *)
(* patchable: ReplaceTexts finds every extracted path again.               *)
Docs == [policy : Seq(Verdicts), parses : SUBSET Seq(Nat), patchable : BOOLEAN]

(* status "failure" is a readable non-2xx one.  ends: the positions where  *)
(* an SSE event ends (its blank line).                                     *)
Responses ==
  [body : Docs, status : {"success", "failure", "unreadable"},
   sse : BOOLEAN, ends : SUBSET Nat]

Modes == {"pre_call", "post_call"}
AllConfigs == [modes : SUBSET Modes, provider : {"presidio-api", "other"}]

ASSUME ConfigAssumption ==
  /\ Configs \subseteq AllConfigs
  /\ NoConfig \notin AllConfigs
  /\ ParseError \notin AllConfigs
  /\ ParseError # NoConfig
  /\ StaticConfig \in AllConfigs \cup {NoConfig}

ASSUME DocAssumption ==
  /\ ReqDocs \subseteq Docs
  /\ RespDocs \subseteq Responses

ASSUME BoundAssumption ==
  /\ MaxBodySize \in Int
  /\ {EarlyResponse, SplitRequest, AllowTrailers} \subseteq BOOLEAN

VARIABLES
  \* streamState (server.go:38-56)
  config, parser, parserAttempted, skipResponseBody, requestMetadata,
  requestBuf, requestPath, requestAborted,
  responseBuf, responsePath, responseAborted,
  sseDec,        \* TRUE iff the *sse.Decoder is non-nil
  ssePending,    \* the bytes it holds (raw and buf)
  sseEmitted,
  \* the exchange, as Envoy sees it
  rpc, reqDoc, respDoc, reqPhase, respPhase,
  reqIn, reqOut, reqGate, reqCode, reqMasked,
  respIn, respOut, respGate, respCode, respMasked, respRestored

sniffVars == <<parser, parserAttempted>>
reqState  == <<requestBuf, requestPath, requestAborted>>
respState == <<responseBuf, responsePath, responseAborted>>
sseState  == <<sseDec, ssePending, sseEmitted>>
reqView   == <<reqOut, reqGate, reqCode, reqMasked>>
respView  == <<respOut, respGate, respCode, respMasked, respRestored>>
docs      == <<reqDoc, respDoc>>

vars == <<config, skipResponseBody, requestMetadata, sniffVars, reqState,
          respState, sseState, rpc, docs, reqPhase, respPhase, reqIn, respIn,
          reqView, respView>>

Gates == {"open", "ended", "cut", "rejected"}
Paths == {"unset", "buffer", "pass"}

Size(doc) == Len(doc.policy)
Whole(doc) == [i \in 1..Size(doc) |-> i]

StreamTypeOK ==
  /\ config \in AllConfigs \cup {NoConfig}
  /\ requestMetadata \subseteq ({"params.arguments"} \X Nat)
  /\ rpc \in {"open", "closed"}
  /\ reqDoc \in ReqDocs
  /\ respDoc \in RespDocs

RequestTypeOK ==
  /\ parser \in {"none", "mcp"}
  /\ parserAttempted \in BOOLEAN
  /\ requestBuf \in Seq(Nat)
  /\ requestPath \in Paths
  /\ requestAborted \in BOOLEAN
  /\ reqPhase \in {"headers", "body", "done"}
  /\ reqIn \in Seq(Nat)
  /\ reqOut \in Seq(Nat)
  /\ reqGate \in Gates
  /\ reqCode \in {0, 403, 413}
  /\ reqMasked \subseteq Nat

ResponseTypeOK ==
  /\ skipResponseBody \in BOOLEAN
  /\ responseBuf \in Seq(Nat)
  /\ responsePath \in Paths
  /\ responseAborted \in BOOLEAN
  /\ sseDec \in BOOLEAN
  /\ ssePending \in Seq(Nat)
  /\ sseEmitted \in BOOLEAN
  /\ respPhase \in {"headers", "body", "done"}
  /\ respIn \in Seq(Nat)
  /\ respOut \in Seq(Nat)
  /\ respGate \in Gates
  /\ respCode \in {0, 403, 502}
  /\ respMasked \subseteq Nat
  /\ respRestored \subseteq Nat

TypeOK == StreamTypeOK /\ RequestTypeOK /\ ResponseTypeOK

Init ==
  /\ config = NoConfig
  /\ parser = "none" /\ parserAttempted = FALSE
  /\ skipResponseBody = FALSE
  /\ requestMetadata = {}
  /\ requestBuf = << >> /\ requestPath = "unset" /\ requestAborted = FALSE
  /\ responseBuf = << >> /\ responsePath = "unset" /\ responseAborted = FALSE
  /\ sseDec = FALSE /\ ssePending = << >> /\ sseEmitted = FALSE
  /\ rpc = "open"
  /\ reqDoc \in ReqDocs /\ respDoc \in RespDocs
  /\ reqPhase = "headers" /\ respPhase = "headers"
  /\ reqIn = << >> /\ reqOut = << >> /\ reqGate = "open"
  /\ reqCode = 0 /\ reqMasked = {}
  /\ respIn = << >> /\ respOut = << >> /\ respGate = "open"
  /\ respCode = 0 /\ respMasked = {} /\ respRestored = {}
-----------------------------------------------------------------------------
(* Envoy's side of the stream.                                             *)

(* The next chunk of a body of which taken has been sent: at most the rest, *)
(* never empty unless it carries end_of_stream.                            *)
Chunk(taken, n) == [i \in 1..n |-> Len(taken) + i]

MaySend(taken, doc, n, eos) ==
  /\ n \in 0..(Size(doc) - Len(taken))
  /\ n > 0 \/ eos
  /\ eos => Len(taken) + n = Size(doc)

(* A streamed reply releases bytes, and possibly ends the body.            *)
ReleaseRequest(bytes, eos) ==
  /\ reqOut' = reqOut \o bytes
  /\ reqGate' = IF eos /\ reqGate = "open" THEN "ended" ELSE reqGate

(* Altered: the end-of-stream mark is forgotten.                           *)
Altered_ReleaseResponse(bytes, eos) ==
  /\ respOut' = respOut \o bytes
  /\ respGate' = respGate

ReleaseResponse(bytes, eos) ==
  /\ respOut' = respOut \o bytes
  /\ respGate' = IF eos /\ respGate = "open" THEN "ended" ELSE respGate

(* Altered: the status of the other direction.                             *)
Altered_RejectRequest(code) ==
  /\ reqGate' = "rejected" /\ reqCode' = (IF code = 413 THEN 502 ELSE code)
  /\ UNCHANGED <<reqOut, reqMasked>>

(* An ImmediateResponse replaces what Envoy would have sent on.            *)
RejectRequest(code) ==
  /\ reqGate' = "rejected" /\ reqCode' = code
  /\ UNCHANGED <<reqOut, reqMasked>>

RejectResponse(code) ==
  /\ respGate' = "rejected" /\ respCode' = code
  /\ UNCHANGED <<respOut, respMasked, respRestored>>

-----------------------------------------------------------------------------
(* What the handlers compute.                                              *)

ModeEnabled(mode) == config # NoConfig /\ mode \in config.modes

(* Altered: a body of exactly the cap is too large.                        *)
Altered_OverCap(buf) == MaxBodySize > 0 /\ Len(buf) >= MaxBodySize

OverCap(buf) == MaxBodySize > 0 /\ Len(buf) > MaxBodySize

(* createProvider fails for every other provider, and a failure leaves the *)
(* texts uninspected.                                                      *)
ProviderCreated == config.provider = "presidio-api"

TextsToInspect(doc, bytes) ==
  IF bytes \in doc.parses /\ ProviderCreated
    THEN {p \in ToSet(bytes) : doc.policy[p] # "none"}
    ELSE {}

(* Provider.ProcessRequest on every text: an error, for a BLOCK entity or a*)
(* failed call, refuses the body; a MASK entity rewrites the text.         *)
Refused(doc, texts, failed) == {p \in texts : doc.policy[p] = "block"} \cup (texts \cap failed)
Rewritten(doc, texts) == {p \in texts : doc.policy[p] = "mask"}

RequestTextPath(p) == <<"params.arguments", p>>
ResponseTextPath(p) == <<"result.content", p>>

(* Altered: any request metadata makes every text take that branch.        *)
Altered_Restorable(texts) == IF requestMetadata = {} THEN {} ELSE texts

(* The texts that take the ProcessResponse (deanonymize) branch.           *)
Restorable(texts) == {p \in texts : ResponseTextPath(p) \in requestMetadata}

(* A failed sniff is final only on the last bytes of the body.             *)
SniffParser(sniff, bytes, eos) ==
  CASE bytes \in reqDoc.parses -> [parser |-> "mcp", attempted |-> TRUE]
    [] bytes \notin reqDoc.parses /\ eos -> [parser |-> "none", attempted |-> TRUE]
    [] OTHER -> sniff

(* Altered: every chunk is sniffed, parserAttempted notwithstanding.       *)
Altered_ChunkSniff(chunk, eos) ==
  LET before == [parser |-> parser, attempted |-> parserAttempted]
  IN  IF chunk # << >> THEN SniffParser(before, chunk, eos) ELSE before

(* The sniff at the top of handleRequestBody.                              *)
ChunkSniff(chunk, eos) ==
  LET before == [parser |-> parser, attempted |-> parserAttempted]
  IN  IF ~parserAttempted /\ chunk # << >>
        THEN SniffParser(before, chunk, eos)
        ELSE before

(* Altered: the assembled buffer is not sniffed.                           *)
Altered_BufferSniff(chunk, buf) == ChunkSniff(chunk, TRUE)

(* Altered: it is sniffed even if a parser is known.                       *)
AlteredAgain_BufferSniff(chunk, buf) ==
  IF buf # << >> THEN SniffParser(ChunkSniff(chunk, TRUE), buf, TRUE)
                 ELSE ChunkSniff(chunk, TRUE)

(* The sniff of the assembled buffer at end of stream.                     *)
BufferSniff(chunk, buf) ==
  LET sniff == ChunkSniff(chunk, TRUE)
  IN  IF sniff.parser = "none" /\ buf # << >>
        THEN SniffParser(sniff, buf, TRUE)
        ELSE sniff

(* Altered: an undecided sniff means pass-through.                         *)
Altered_RequestPathFor(sniff) ==
  CASE requestPath # "unset" -> requestPath
    [] requestPath = "unset" /\ ModeEnabled("pre_call")
         /\ sniff.parser # "none" -> "buffer"
    [] OTHER -> "pass"

RequestPathFor(sniff) ==
  CASE requestPath # "unset" -> requestPath
    [] requestPath = "unset" /\ ModeEnabled("pre_call")
         /\ (sniff.parser # "none" \/ ~sniff.attempted) -> "buffer"
    [] OTHER -> "pass"

(* Altered: the parser is not asked for.                                   *)
Altered_ResponsePathNow ==
  CASE responsePath # "unset" -> responsePath
    [] responsePath = "unset" /\ ModeEnabled("post_call")
         /\ ~skipResponseBody -> "buffer"
    [] OTHER -> "pass"

ResponsePathNow ==
  CASE responsePath # "unset" -> responsePath
    [] responsePath = "unset" /\ ModeEnabled("post_call")
         /\ parser # "none" /\ ~skipResponseBody -> "buffer"
    [] OTHER -> "pass"

ResolveConfig(md, hdr) ==
  CASE StaticConfig # NoConfig -> StaticConfig
    [] StaticConfig = NoConfig /\ md \in Configs -> md
    [] StaticConfig = NoConfig /\ md \notin Configs /\ hdr \in Configs -> hdr
    [] OTHER -> NoConfig

-----------------------------------------------------------------------------
(* Requests.                                                               *)

requestSideVars ==
  <<sniffVars, reqState, reqIn, reqPhase, reqView>>
responseSideVars ==
  <<skipResponseBody, respState, sseState, respIn, respPhase, respView>>

RequestHeaders(md, hdr, eos) ==
  /\ rpc = "open" /\ reqPhase = "headers"
  /\ eos => Size(reqDoc) = 0
  /\ config' = ResolveConfig(md, hdr)
  /\ reqPhase' = IF eos THEN "done" ELSE "body"
  /\ reqGate' = IF eos THEN "ended" ELSE reqGate
  /\ UNCHANGED <<sniffVars, reqState, requestMetadata, reqIn, reqOut, reqCode,
                 reqMasked, rpc, docs, responseSideVars>>

(* Recv of a request body message: what every branch of the handler shares.*)
ReceiveRequestBody(n, eos) ==
  /\ rpc = "open" /\ reqPhase = "body"
  /\ MaySend(reqIn, reqDoc, n, eos)
  /\ ~SplitRequest => Len(reqIn) + n = Size(reqDoc)
  /\ reqIn' = reqIn \o Chunk(reqIn, n)
  /\ reqPhase' = IF eos THEN "done" ELSE "body"
  /\ UNCHANGED <<config, rpc, docs, responseSideVars>>

(* The sniff and the path decision made before the branches.               *)
DecideRequestPath(chunk, eos, path) ==
  LET sniff == ChunkSniff(chunk, eos)
  IN  /\ RequestPathFor(sniff) = path
      /\ requestPath' = path
      /\ parser' = sniff.parser /\ parserAttempted' = sniff.attempted

RequestPassThrough(n, eos) ==
  /\ ReceiveRequestBody(n, eos)
  /\ DecideRequestPath(Chunk(reqIn, n), eos, "pass")
  /\ ReleaseRequest(Chunk(reqIn, n), eos)
  /\ UNCHANGED <<requestBuf, requestAborted, requestMetadata, reqCode, reqMasked>>

RequestSilenced(n, eos) ==
  /\ ReceiveRequestBody(n, eos)
  /\ DecideRequestPath(Chunk(reqIn, n), eos, "buffer")
  /\ requestAborted
  /\ ReleaseRequest(<< >>, eos)
  /\ UNCHANGED <<requestBuf, requestAborted, requestMetadata, reqCode, reqMasked>>

(* Altered: the abort is not recorded.                                     *)
Altered_RequestOversize(n, eos) ==
  /\ ReceiveRequestBody(n, eos)
  /\ DecideRequestPath(Chunk(reqIn, n), eos, "buffer")
  /\ ~requestAborted
  /\ OverCap(requestBuf \o Chunk(reqIn, n))
  /\ requestBuf' = << >>
  /\ RejectRequest(413)
  /\ UNCHANGED <<requestAborted, requestMetadata>>

RequestOversize(n, eos) ==
  /\ ReceiveRequestBody(n, eos)
  /\ DecideRequestPath(Chunk(reqIn, n), eos, "buffer")
  /\ ~requestAborted
  /\ OverCap(requestBuf \o Chunk(reqIn, n))
  /\ requestAborted' = TRUE
  /\ requestBuf' = << >>
  /\ RejectRequest(413)
  /\ UNCHANGED requestMetadata

RequestHold(n) ==
  /\ ReceiveRequestBody(n, FALSE)
  /\ DecideRequestPath(Chunk(reqIn, n), FALSE, "buffer")
  /\ ~requestAborted
  /\ ~OverCap(requestBuf \o Chunk(reqIn, n))
  /\ requestBuf' = requestBuf \o Chunk(reqIn, n)
  /\ ReleaseRequest(<< >>, FALSE)
  /\ UNCHANGED <<requestAborted, requestMetadata, reqCode, reqMasked>>

(* The last message of a buffered request: the buffer is assembled and     *)
(* sniffed again if no parser is known.                                    *)
AssembleRequest(n) ==
  LET chunk == Chunk(reqIn, n)
      buf   == requestBuf \o chunk
      sniff == BufferSniff(chunk, buf)
  IN  /\ ReceiveRequestBody(n, TRUE)
      /\ RequestPathFor(ChunkSniff(chunk, TRUE)) = "buffer"
      /\ requestPath' = "buffer"
      /\ ~requestAborted /\ ~OverCap(buf)
      /\ requestBuf' = buf
      /\ parser' = sniff.parser /\ parserAttempted' = sniff.attempted
      /\ UNCHANGED requestAborted

RequestNoParser(n) ==
  /\ AssembleRequest(n)
  /\ parser' = "none"
  /\ ReleaseRequest(requestBuf', TRUE)
  /\ UNCHANGED <<requestMetadata, reqCode, reqMasked>>

(* inspectAndEmitRequest with a BLOCK verdict or a failed call.  The texts  *)
(* come out of a Go map in any order, so any of the rewritten ones may have *)
(* been recorded before the refused one.                                   *)
RequestBlock(n) ==
  LET texts == TextsToInspect(reqDoc, requestBuf')
  IN  /\ AssembleRequest(n)
      /\ parser' # "none"
      /\ \E failed \in SUBSET texts :
           LET refused == Refused(reqDoc, texts, failed)
           IN  /\ refused # {}
               /\ \E recorded \in SUBSET (Rewritten(reqDoc, texts) \ refused) :
                    requestMetadata' =
                      requestMetadata \cup {RequestTextPath(p) : p \in recorded}
      /\ RejectRequest(403)

(* Altered: the assembled body goes out without the end-of-stream mark.    *)
Altered_RequestEmit(n) ==
  /\ AssembleRequest(n)
  /\ parser' # "none"
  /\ Refused(reqDoc, TextsToInspect(reqDoc, requestBuf'), {}) = {}
  /\ ReleaseRequest(requestBuf', FALSE)
  /\ UNCHANGED <<requestMetadata, reqMasked, reqCode>>

(* inspectAndEmitRequest when every text gets through.  If ReplaceTexts    *)
(* fails the body goes out as it came.                                     *)
RequestEmit(n) ==
  LET texts     == TextsToInspect(reqDoc, requestBuf')
      rewritten == Rewritten(reqDoc, texts)
  IN  /\ AssembleRequest(n)
      /\ parser' # "none"
      /\ Refused(reqDoc, texts, {}) = {}
      /\ requestMetadata' =
           requestMetadata \cup {RequestTextPath(p) : p \in rewritten}
      /\ reqMasked' = IF reqDoc.patchable THEN rewritten ELSE {}
      /\ ReleaseRequest(requestBuf', TRUE)
      /\ UNCHANGED reqCode

(* Trailers end the body without an end_of_stream chunk; the handler only  *)
(* acknowledges them, and Envoy ends the direction.                        *)
RequestTrailers ==
  /\ AllowTrailers
  /\ rpc = "open" /\ reqPhase = "body"
  /\ Len(reqIn) = Size(reqDoc)
  /\ reqPhase' = "done"
  /\ ReleaseRequest(<< >>, TRUE)
  /\ UNCHANGED <<config, sniffVars, reqState, requestMetadata, reqIn, reqCode,
                 reqMasked, rpc, docs, responseSideVars>>

-----------------------------------------------------------------------------
(* Responses.                                                              *)

ResponseHeaders(eos) ==
  /\ rpc = "open" /\ respPhase = "headers" /\ reqPhase # "headers"
  /\ reqGate = "ended" \/ (EarlyResponse /\ reqGate = "open")
  /\ eos => Size(respDoc.body) = 0
  /\ skipResponseBody' = (respDoc.status = "failure")
  /\ sseDec' = (respDoc.sse /\ ModeEnabled("post_call") /\ parser # "none"
                 /\ ~skipResponseBody')
  /\ respPhase' = IF eos THEN "done" ELSE "body"
  /\ respGate' = IF eos THEN "ended" ELSE respGate
  /\ UNCHANGED <<ssePending, sseEmitted, respState, respIn, respOut, respCode,
                 respMasked, respRestored, config, requestMetadata, rpc, docs,
                 requestSideVars>>

(* Recv of a response body message.                                        *)
ReceiveResponseBody(n, eos) ==
  /\ rpc = "open" /\ respPhase = "body"
  /\ MaySend(respIn, respDoc.body, n, eos)
  /\ respIn' = respIn \o Chunk(respIn, n)
  /\ respPhase' = IF eos THEN "done" ELSE "body"
  /\ UNCHANGED <<config, requestMetadata, skipResponseBody, rpc, docs,
                 requestSideVars>>

(* The same message when no SSE decoder is installed.                      *)
ReceivePlainResponseBody(n, eos, path) ==
  /\ ReceiveResponseBody(n, eos)
  /\ ~sseDec
  /\ ResponsePathNow = path
  /\ responsePath' = path
  /\ UNCHANGED sseState

ResponsePassThrough(n, eos) ==
  /\ ReceivePlainResponseBody(n, eos, "pass")
  /\ ReleaseResponse(Chunk(respIn, n), eos)
  /\ UNCHANGED <<responseBuf, responseAborted, respCode, respMasked, respRestored>>

ResponseSilenced(n, eos) ==
  /\ ReceivePlainResponseBody(n, eos, "buffer")
  /\ responseAborted
  /\ ReleaseResponse(<< >>, eos)
  /\ UNCHANGED <<responseBuf, responseAborted, respCode, respMasked, respRestored>>

ResponseOversize(n, eos) ==
  /\ ReceivePlainResponseBody(n, eos, "buffer")
  /\ ~responseAborted
  /\ OverCap(responseBuf \o Chunk(respIn, n))
  /\ responseAborted' = TRUE
  /\ responseBuf' = << >>
  /\ RejectResponse(502)

ResponseHold(n) ==
  /\ ReceivePlainResponseBody(n, FALSE, "buffer")
  /\ ~responseAborted
  /\ ~OverCap(responseBuf \o Chunk(respIn, n))
  /\ responseBuf' = responseBuf \o Chunk(respIn, n)
  /\ ReleaseResponse(<< >>, FALSE)
  /\ UNCHANGED <<responseAborted, respCode, respMasked, respRestored>>

AssembleResponse(n) ==
  /\ ReceivePlainResponseBody(n, TRUE, "buffer")
  /\ ~responseAborted
  /\ ~OverCap(responseBuf \o Chunk(respIn, n))
  /\ responseBuf' = responseBuf \o Chunk(respIn, n)
  /\ UNCHANGED responseAborted

(* inspectAndEmitResponse.  A text with request metadata is restored, and a*)
(* failed restore leaves it as it is; any other is inspected anew.         *)
ResponseBlock(n) ==
  LET texts == TextsToInspect(respDoc.body, responseBuf')
      fresh == texts \ Restorable(texts)
  IN  /\ AssembleResponse(n)
      /\ \E failed \in SUBSET fresh : Refused(respDoc.body, fresh, failed) # {}
      /\ RejectResponse(403)

ResponseEmit(n) ==
  LET texts == TextsToInspect(respDoc.body, responseBuf')
      fresh == texts \ Restorable(texts)
  IN  /\ AssembleResponse(n)
      /\ Refused(respDoc.body, fresh, {}) = {}
      /\ \E restored \in SUBSET Restorable(texts) :
           /\ respRestored' = IF respDoc.body.patchable THEN restored ELSE {}
           /\ respMasked' = IF respDoc.body.patchable
                              THEN Rewritten(respDoc.body, fresh)
                              ELSE {}
      /\ ReleaseResponse(responseBuf', TRUE)
      /\ UNCHANGED respCode

ResponseTrailers ==
  /\ AllowTrailers
  /\ rpc = "open" /\ respPhase = "body"
  /\ Len(respIn) = Size(respDoc.body)
  /\ respPhase' = "done"
  /\ ReleaseResponse(<< >>, TRUE)
  /\ UNCHANGED <<config, requestMetadata, skipResponseBody, respState, sseState,
                 respIn, respCode, respMasked, respRestored, rpc, docs,
                 requestSideVars>>

-----------------------------------------------------------------------------
(* Server-sent events: each event is inspected when its end arrives.       *)

(* The indices of s at which an event ends; at end of stream, Flush makes  *)
(* an event of what is left.                                               *)
EventEnds(s, flush) ==
  {i \in 1..Len(s) : s[i] \in respDoc.ends \/ (flush /\ i = Len(s))}

(* The index before the event that ends at i.                              *)
EventStart(s, i) == Max({0} \cup {j \in EventEnds(s, TRUE) : j < i})

EventAt(s, i) == SubSeq(s, EventStart(s, i) + 1, i)

(* Altered: the unfinished event is not measured.                          *)
Altered_EventTooLarge(s) == \E i \in EventEnds(s, FALSE) : OverCap(EventAt(s, i))

(* Altered: all that waits to be scanned is measured as one event.         *)
AlteredAgain_EventTooLarge(s) == OverCap(s)

(* Decoder.Write: no event, complete or in progress, may exceed the cap;   *)
(* if one does, the whole chunk is dropped.                                *)
EventTooLarge(s) == \E i \in EventEnds(s, TRUE) : OverCap(EventAt(s, i))

EventTexts(s, i) == TextsToInspect(respDoc.body, EventAt(s, i))
FreshEventTexts(s, i) == EventTexts(s, i) \ Restorable(EventTexts(s, i))

EventRefused(s, i, failed) ==
  Refused(respDoc.body, FreshEventTexts(s, i), failed) # {}

(* The events are handled in order, so those before the refused one went   *)
(* through with no failed call.                                            *)
FirstRefused(s, ends, i) ==
  /\ \E failed \in SUBSET FreshEventTexts(s, i) : EventRefused(s, i, failed)
  /\ \A j \in ends : j < i => ~EventRefused(s, j, {})

(* The rewritten texts of the released events, those with request metadata *)
(* (a failed restore leaves the text as it is) and the others.             *)
MaskEvents(s, released) ==
  /\ \E restored \in SUBSET UNION {Restorable(EventTexts(s, j)) : j \in released} :
       respRestored' = respRestored \cup
                         (IF respDoc.body.patchable THEN restored ELSE {})
  /\ respMasked' = respMasked \cup
       (IF respDoc.body.patchable
          THEN UNION {Rewritten(respDoc.body, FreshEventTexts(s, j)) : j \in released}
          ELSE {})

ReceiveEvents(n, eos) ==
  /\ ReceiveResponseBody(n, eos)
  /\ sseDec
  /\ UNCHANGED <<responseBuf, responsePath>>

SSESilenced(n, eos) ==
  /\ ReceiveEvents(n, eos)
  /\ responseAborted
  /\ ReleaseResponse(<< >>, eos)
  /\ UNCHANGED <<responseAborted, sseState, respCode, respMasked, respRestored>>

(* Altered: the abort is not recorded, so the next chunk starts afresh.    *)
Altered_SSEOversize(n, eos) ==
  /\ ReceiveEvents(n, eos)
  /\ ~responseAborted
  /\ EventTooLarge(ssePending \o Chunk(respIn, n))
  /\ sseDec' = FALSE /\ ssePending' = << >>
  /\ IF sseEmitted
       THEN respGate' = "cut" /\ UNCHANGED <<respOut, respCode, respMasked, respRestored>>
       ELSE RejectResponse(502)
  /\ UNCHANGED <<responseAborted, sseEmitted>>

(* handleSSEOversize: the decoder is dropped; an immediate response if     *)
(* nothing went out yet, an error event otherwise.                         *)
SSEOversize(n, eos) ==
  /\ ReceiveEvents(n, eos)
  /\ ~responseAborted
  /\ EventTooLarge(ssePending \o Chunk(respIn, n))
  /\ responseAborted' = TRUE
  /\ sseDec' = FALSE /\ ssePending' = << >>
  /\ \/ /\ ~sseEmitted
        /\ RejectResponse(502)
        /\ UNCHANGED sseEmitted
     \/ /\ sseEmitted
        /\ respGate' = "cut"
        /\ UNCHANGED <<sseEmitted, respOut, respCode, respMasked, respRestored>>

(* handleSSEBlock: the refused event is s[k+1] ... s[i].  The events before *)
(* it in the same chunk are released with the error event; those behind it *)
(* that Write has already completed, up to m, are lost.                    *)
SSEBlock(n, eos) ==
  LET s    == ssePending \o Chunk(respIn, n)
      ends == EventEnds(s, eos)
  IN  /\ ReceiveEvents(n, eos)
      /\ ~responseAborted
      /\ ~EventTooLarge(s)
      /\ responseAborted' = TRUE
      /\ UNCHANGED sseDec
      /\ \E i \in ends : \E k \in 0..(i - 1), m \in i..Len(s) :
           /\ FirstRefused(s, ends, i)
           /\ k = EventStart(s, i)
           /\ m = Max({i} \cup EventEnds(s, FALSE))
           /\ ssePending' = SubSeq(s, m + 1, Len(s))
           /\ \/ /\ ~sseEmitted /\ k = 0
                 /\ RejectResponse(403)
                 /\ UNCHANGED sseEmitted
              \/ /\ sseEmitted \/ k > 0
                 /\ respOut' = respOut \o SubSeq(s, 1, k)
                 /\ respGate' = "cut"
                 /\ sseEmitted' = TRUE
                 /\ MaskEvents(s, {j \in ends : j < i})
                 /\ UNCHANGED respCode

(* Nothing refused: the first k bytes make up the finished events.         *)
SSEEmit(n, eos) ==
  LET s    == ssePending \o Chunk(respIn, n)
      ends == EventEnds(s, eos)
  IN  /\ ReceiveEvents(n, eos)
      /\ ~responseAborted
      /\ ~EventTooLarge(s)
      /\ \A j \in ends : ~EventRefused(s, j, {})
      /\ \E k \in 0..Len(s) :
           /\ k = Max({0} \cup ends)
           /\ ReleaseResponse(SubSeq(s, 1, k), eos)
           /\ ssePending' = SubSeq(s, k + 1, Len(s))
           /\ sseEmitted' = (sseEmitted \/ k > 0)
      /\ MaskEvents(s, ends)
      /\ UNCHANGED <<responseAborted, sseDec, respCode>>

-----------------------------------------------------------------------------
(* Recv or Send fails, Envoy half-closes, or the context is cancelled: the *)
(* stream's state is gone, whatever was held with it.                      *)
Close ==
  /\ rpc = "open"
  /\ rpc' = "closed"
  /\ UNCHANGED <<config, skipResponseBody, requestMetadata, sniffVars, reqState,
                 respState, sseState, docs, reqPhase, respPhase, reqIn, respIn,
                 reqView, respView>>

RequestBody(n, eos) ==
  \/ RequestPassThrough(n, eos)
  \/ RequestSilenced(n, eos)
  \/ RequestOversize(n, eos)
  \/ ~eos /\ RequestHold(n)
  \/ eos /\ RequestNoParser(n)
  \/ eos /\ RequestBlock(n)
  \/ eos /\ RequestEmit(n)

ResponseBody(n, eos) ==
  \/ ResponsePassThrough(n, eos)
  \/ ResponseSilenced(n, eos)
  \/ ResponseOversize(n, eos)
  \/ ~eos /\ ResponseHold(n)
  \/ eos /\ ResponseBlock(n)
  \/ eos /\ ResponseEmit(n)
  \/ SSESilenced(n, eos)
  \/ SSEOversize(n, eos)
  \/ SSEBlock(n, eos)
  \/ SSEEmit(n, eos)

Sources == Configs \cup {NoConfig, ParseError}

SomeRequestBody ==
  \E n \in 0..Size(reqDoc), eos \in BOOLEAN : RequestBody(n, eos)

SomeResponseBody ==
  \E n \in 0..Size(respDoc.body), eos \in BOOLEAN : ResponseBody(n, eos)

Next ==
  \/ \E md \in Sources, hdr \in Sources, eos \in BOOLEAN : RequestHeaders(md, hdr, eos)
  \/ SomeRequestBody
  \/ RequestTrailers
  \/ \E eos \in BOOLEAN : ResponseHeaders(eos)
  \/ SomeResponseBody
  \/ ResponseTrailers
  \/ Close

Spec == Init /\ [][Next]_vars

(* Envoy goes on sending a body it has begun, and the provider answers or  *)
(* its call fails, so that every handler returns.                          *)
FairSpec ==
  /\ Spec
  /\ WF_vars(SomeRequestBody)
  /\ WF_vars(SomeResponseBody)
=============================================================================
