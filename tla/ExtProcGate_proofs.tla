------------------------- MODULE ExtProcGate_proofs -------------------------
(***************************************************************************)
(* Each direction of an ext_proc stream implements BodyGate, provided that *)
(* no body ends with trailers.                                             *)
(***************************************************************************)
EXTENDS ExtProcStream_proofs

(* The instances read "prefix" as this module does.                        *)
LEMMA RequestPrefix ==
  ASSUME NEW s, NEW t
  PROVE  RequestGate!IsPrefix(s, t) <=> IsPrefix(s, t)
BY DEF IsPrefix, RequestGate!IsPrefix

(* The same for the response.                                              *)
LEMMA ResponsePrefix ==
  ASSUME NEW s, NEW t
  PROVE  ResponseGate!IsPrefix(s, t) <=> IsPrefix(s, t)
BY DEF IsPrefix, ResponseGate!IsPrefix

-----------------------------------------------------------------------------
(* Requests.                                                               *)

(* A new stream has neither taken nor given anything.                      *)
LEMMA RequestGateInit == Init => RequestGate!GateInit
BY DEF Init, RequestGate!GateInit

(* The pass-through branch: every chunk goes out as it comes.              *)
LEMMA RequestPassThroughGate ==
  ASSUME IInv, NEW n \in Nat, NEW eos \in BOOLEAN, RequestPassThrough(n, eos)
  PROVE  RequestGate!GateNext
<1> DEFINE c == Chunk(reqIn, n)
<1>1. ReceiveRequestBody(n, eos) /\ DecideRequestPath(c, eos, "pass")
  BY DEF RequestPassThrough
<1>2. c \in Seq(Nat) /\ reqIn \in Seq(Nat)
  BY <1>1, RequestBodyArrives DEF IInv, TypeOK, RequestTypeOK
<1>3. reqGate = "open" \/ (reqGate = "rejected" /\ requestAborted)
  BY <1>1, RequestBodyCommon
<1>4. requestPath \in {"unset", "pass"}
  BY <1>1, PathDecision
<1>5. reqOut = reqIn /\ reqGate = "open"
  BY <1>3, <1>4 DEF IInv, RequestInv
<1>6. /\ reqIn' = reqIn \o c /\ reqOut' = reqIn \o c
      /\ reqGate' = (IF eos THEN "ended" ELSE "open")
  BY <1>5 DEF RequestPassThrough, ReceiveRequestBody, ReleaseRequest
<1> HIDE DEF c
<1>7. IsPrefix(reqIn, reqIn \o c) /\ IsPrefix(reqIn \o c, reqIn \o c)
  <2>1. reqIn \o c \in Seq(Nat)
    BY <1>2, ConcatProperties
  <2> QED  BY <2>1, <1>2, ConcatIsPrefix, PrefixReflexive
<1> QED  BY <1>5, <1>6, <1>7, RequestPrefix
         DEF RequestGate!GateNext, RequestGate!Pass, RequestGate!End

(* What arrives extends what had arrived.                                  *)
LEMMA RequestGrows ==
  ASSUME IInv, NEW n \in Nat, NEW eos \in BOOLEAN, ReceiveRequestBody(n, eos)
  PROVE  IsPrefix(reqIn, reqIn')
<1>1. Chunk(reqIn, n) \in Seq(Nat) /\ reqIn \in Seq(Nat)
  BY RequestBodyArrives DEF IInv, TypeOK, RequestTypeOK
<1>2. reqIn' = reqIn \o Chunk(reqIn, n)
  BY DEF ReceiveRequestBody
<1> QED  BY <1>1, <1>2, ConcatIsPrefix

(* The buffering branches: nothing goes out before the verdict, and nothing*)
(* after a rejection.                                                      *)
LEMMA RequestBufferGate ==
  ASSUME IInv, NEW n \in Nat, NEW eos \in BOOLEAN,
         RequestSilenced(n, eos) \/ RequestOversize(n, eos) \/ RequestHold(n)
  PROVE  RequestGate!GateNext
<1> DEFINE c == Chunk(reqIn, n)
<1>1. PICK last \in BOOLEAN : ReceiveRequestBody(n, last) /\ DecideRequestPath(c, last, "buffer")
  BY DEF RequestSilenced, RequestOversize, RequestHold
<1>2. IsPrefix(reqIn, reqIn')
  BY <1>1, RequestGrows
<1>3. reqGate = "open" \/ (reqGate = "rejected" /\ requestAborted)
  BY <1>1, RequestBodyCommon
<1>4. requestPath \in {"unset", "buffer"}
  BY <1>1, PathDecision
<1>5. reqOut = << >> /\ (requestAborted => reqGate = "rejected")
  BY <1>3, <1>4 DEF IInv, RequestInv
<1>6. << >> \in Seq(Nat) /\ reqOut \o << >> = reqOut
  BY <1>5, EmptySeq, ConcatEmptySeq
<1>7. reqIn' \in Seq(Nat)
  BY <1>1, RequestBodyArrives
<1>8. IsPrefix(<< >>, << >>) /\ IsPrefix(<< >>, reqIn')
  BY <1>6, <1>7, PrefixReflexive
<1>9. CASE RequestSilenced(n, eos)
  <2>1. reqGate = "rejected" /\ reqGate' = reqGate /\ reqOut' = reqOut
    BY <1>5, <1>6, <1>9 DEF RequestSilenced, ReleaseRequest
  <2> QED  BY <2>1, <1>2, RequestPrefix DEF RequestGate!GateNext, RequestGate!Ignore
<1>10. CASE RequestOversize(n, eos)
  <2>1. reqGate = "open" /\ reqGate' = "rejected" /\ reqOut' = reqOut
    BY <1>3, <1>10 DEF RequestOversize, RejectRequest
  <2> QED  BY <2>1, <1>2, <1>5, RequestPrefix DEF RequestGate!GateNext, RequestGate!Reject
<1>11. CASE RequestHold(n)
  <2>1. reqGate = "open" /\ reqGate' = "open" /\ reqOut' = reqOut
    BY <1>3, <1>6, <1>11 DEF RequestHold, ReleaseRequest
  <2> QED  BY <2>1, <1>2, <1>5, <1>8, RequestPrefix DEF RequestGate!GateNext, RequestGate!Pass
<1> QED  BY <1>9, <1>10, <1>11

(* The verdict on an assembled request: all of it or nothing.              *)
LEMMA RequestVerdictGate ==
  ASSUME IInv, NEW n \in Nat,
         RequestNoParser(n) \/ RequestBlock(n) \/ RequestEmit(n)
  PROVE  RequestGate!GateNext
<1>1. AssembleRequest(n)
  BY DEF RequestNoParser, RequestBlock, RequestEmit
<1>2. /\ requestBuf' = reqIn' /\ reqIn' \in Seq(Nat)
      /\ reqGate = "open" /\ reqOut = << >>
  BY <1>1, RequestAssembled
<1>3. IsPrefix(reqIn, reqIn')
  BY <1>1, RequestGrows DEF AssembleRequest
<1>4. CASE RequestBlock(n)
  <2>1. reqGate' = "rejected" /\ reqOut' = reqOut
    BY <1>4 DEF RequestBlock, RejectRequest
  <2> QED  BY <2>1, <1>2, <1>3, RequestPrefix DEF RequestGate!GateNext, RequestGate!Reject
<1>5. CASE RequestNoParser(n) \/ RequestEmit(n)
  <2>1. reqOut' = << >> \o reqIn' /\ reqGate' = "ended"
    BY <1>2, <1>5 DEF RequestNoParser, RequestEmit, ReleaseRequest
  <2>2. << >> \o reqIn' = reqIn' /\ IsPrefix(<< >>, reqIn')
    BY <1>2, ConcatEmptySeq, PrefixReflexive
  <2> QED  BY <2>1, <2>2, <1>2, <1>3, RequestPrefix DEF RequestGate!GateNext, RequestGate!End
<1> QED  BY <1>4, <1>5

(* A step that is not about the request's body, or ends an empty one.      *)
LEMMA RequestHeadersGate ==
  ASSUME IInv, NEW md, NEW hdr, NEW eos \in BOOLEAN, RequestHeaders(md, hdr, eos)
  PROVE  [RequestGate!GateNext]_(RequestGate!gateVars)
<1>1. reqIn = << >> /\ reqOut = << >> /\ reqGate = "open"
  BY DEF IInv, RequestInv, RequestHeaders
<1>2. reqIn' = reqIn /\ reqOut' = reqOut /\ reqGate' = (IF eos THEN "ended" ELSE reqGate)
  BY DEF RequestHeaders
<1>3. IsPrefix(<< >>, << >>)
  BY EmptySeq, PrefixReflexive
<1>4. CASE eos
  BY <1>1, <1>2, <1>3, <1>4, RequestPrefix DEF RequestGate!GateNext, RequestGate!End
<1>5. CASE ~eos
  BY <1>2, <1>5 DEF RequestGate!gateVars
<1> QED  BY <1>4, <1>5

(* Every step of the stream is a step of the request's gate or leaves it.  *)
LEMMA RequestGateStep ==
  ASSUME ~AllowTrailers
  PROVE  IInv /\ [Next]_vars => [RequestGate!GateNext]_(RequestGate!gateVars)
<1> SUFFICES ASSUME IInv, [Next]_vars PROVE [RequestGate!GateNext]_(RequestGate!gateVars)
  OBVIOUS
<1> DEFINE kept == reqIn' = reqIn /\ reqOut' = reqOut /\ reqGate' = reqGate
<1>1. kept => UNCHANGED RequestGate!gateVars
  BY DEF RequestGate!gateVars
<1>2. CASE \E md \in Sources, hdr \in Sources, eos \in BOOLEAN : RequestHeaders(md, hdr, eos)
  BY <1>2, RequestHeadersGate
<1>3. CASE SomeRequestBody
  <2>1. PICK n \in 0..Size(reqDoc), eos \in BOOLEAN : RequestBody(n, eos)
    BY <1>3 DEF SomeRequestBody
  <2>2. n \in Nat
    BY ReqDocType, SizeIsNat
  <2>3. CASE RequestPassThrough(n, eos)
    BY <2>2, <2>3, RequestPassThroughGate
  <2>4. CASE RequestSilenced(n, eos) \/ RequestOversize(n, eos) \/ RequestHold(n)
    BY <2>2, <2>4, RequestBufferGate
  <2>5. CASE RequestNoParser(n) \/ RequestBlock(n) \/ RequestEmit(n)
    BY <2>2, <2>5, RequestVerdictGate
  <2> QED  BY <2>1, <2>3, <2>4, <2>5 DEF RequestBody
<1>4. CASE RequestTrailers
  BY <1>4 DEF RequestTrailers
<1>5. CASE \E eos \in BOOLEAN : ResponseHeaders(eos)
  BY <1>1, <1>5 DEF ResponseHeaders, requestSideVars, reqView
<1>6. CASE SomeResponseBody
  <2>1. PICK n \in 0..Size(respDoc.body), eos \in BOOLEAN : ResponseBody(n, eos)
    BY <1>6 DEF SomeResponseBody
  <2>2. PICK last \in BOOLEAN : ReceiveResponseBody(n, last)
    BY <2>1 DEF ResponseBody, ResponsePassThrough, ResponseSilenced, ResponseOversize,
         ResponseHold, ResponseBlock, ResponseEmit, AssembleResponse,
         ReceivePlainResponseBody, SSESilenced, SSEOversize, SSEBlock, SSEEmit,
         ReceiveEvents
  <2> QED  BY <2>2, <1>1 DEF ReceiveResponseBody, requestSideVars, reqView
<1>7. CASE ResponseTrailers
  BY <1>7 DEF ResponseTrailers
<1>8. CASE Close
  BY <1>1, <1>8 DEF Close, reqView
<1>9. CASE UNCHANGED vars
  BY <1>1, <1>9 DEF vars, reqView
<1> QED  BY <1>2, <1>3, <1>4, <1>5, <1>6, <1>7, <1>8, <1>9 DEF Next

(* When no body ends with trailers, the request direction implements its   *)
(* gate: the upstream sees the whole body, or none of it (handleRequestBody*)
(* and inspectAndEmitRequest).                                             *)
THEOREM RequestImplementsGate ==
  ASSUME ~AllowTrailers
  PROVE  Spec => RequestIsGated
<1>1. IInv /\ [Next]_vars => [RequestGate!GateNext]_(RequestGate!gateVars)
  BY RequestGateStep
<1> QED  BY <1>1, RequestGateInit, InvariantHolds, PTL
         DEF Spec, RequestIsGated, RequestGate!GateSpec

-----------------------------------------------------------------------------
(* Responses.                                                              *)

(* A new stream has neither taken nor given anything of the response.      *)
LEMMA ResponseGateInit == Init => ResponseGate!GateInit
BY DEF Init, ResponseGate!GateInit

(* What arrives extends what had arrived.                                  *)
LEMMA ResponseGrows ==
  ASSUME IInv, NEW n \in Nat, NEW eos \in BOOLEAN, ReceiveResponseBody(n, eos)
  PROVE  IsPrefix(respIn, respIn')
<1>1. Chunk(respIn, n) \in Seq(Nat) /\ respIn \in Seq(Nat)
      /\ respIn' = respIn \o Chunk(respIn, n)
  BY ResponseBodyArrives DEF IInv, TypeOK, ResponseTypeOK
<1> QED  BY <1>1, ConcatIsPrefix

(* A response no inspection applies to goes out as it comes.               *)
LEMMA ResponsePassThroughGate ==
  ASSUME IInv, NEW n \in Nat, NEW eos \in BOOLEAN, ResponsePassThrough(n, eos)
  PROVE  ResponseGate!GateNext
<1> DEFINE c == Chunk(respIn, n)
<1>1. ReceivePlainResponseBody(n, eos, "pass")
  BY DEF ResponsePassThrough
<1>2. /\ ReceiveResponseBody(n, eos) /\ ~sseDec /\ ~responseAborted
      /\ responsePath \in {"unset", "pass"}
      /\ responsePath = "unset" /\ ~responseAborted => respIn = << >> /\ respOut = << >>
  BY <1>1, ResponsePathDecision
<1>3. c \in Seq(Nat) /\ respIn \in Seq(Nat) /\ respIn' = respIn \o c
  BY <1>2, ResponseBodyArrives DEF IInv, TypeOK, ResponseTypeOK
<1>4. respGate = "open"
  BY <1>2, ResponseBodyCommon
<1>5. respOut = respIn
  BY <1>2 DEF IInv, ResponseInv
<1>6. respOut' = respIn \o c /\ respGate' = (IF eos THEN "ended" ELSE "open")
  BY <1>4, <1>5 DEF ResponsePassThrough, ReleaseResponse
<1> HIDE DEF c
<1>7. IsPrefix(respIn, respIn \o c) /\ IsPrefix(respIn \o c, respIn \o c)
  <2>1. respIn \o c \in Seq(Nat)
    BY <1>3, ConcatProperties
  <2> QED  BY <2>1, <1>3, ConcatIsPrefix, PrefixReflexive
<1> QED  BY <1>3, <1>4, <1>5, <1>6, <1>7, ResponsePrefix
         DEF ResponseGate!GateNext, ResponseGate!Pass, ResponseGate!End

(* After an abort the replies are empty and the peer sees nothing more.    *)
LEMMA ResponseSilencedGate ==
  ASSUME IInv, NEW n \in Nat, NEW eos \in BOOLEAN,
         ResponseSilenced(n, eos) \/ SSESilenced(n, eos)
  PROVE  ResponseGate!GateNext
<1>1. ReceiveResponseBody(n, eos) /\ responseAborted
  BY DEF ResponseSilenced, ReceivePlainResponseBody, SSESilenced, ReceiveEvents
<1>2. IsPrefix(respIn, respIn')
  BY <1>1, ResponseGrows
<1>3. respGate \in {"cut", "rejected"} /\ respOut \in Seq(Nat)
  BY <1>1 DEF IInv, ResponseInv, TypeOK, ResponseTypeOK
<1>4. respOut' = respOut \o << >> /\ respGate' = respGate
  BY <1>3 DEF ResponseSilenced, SSESilenced, ReleaseResponse
<1>5. respOut' = respOut
  BY <1>3, <1>4, ConcatEmptySeq
<1> QED  BY <1>2, <1>3, <1>4, <1>5, ResponsePrefix
         DEF ResponseGate!GateNext, ResponseGate!Ignore

(* A buffered response: nothing goes out before the verdict.               *)
LEMMA ResponseBufferGate ==
  ASSUME IInv, NEW n \in Nat, NEW eos \in BOOLEAN,
         ResponseOversize(n, eos) \/ ResponseHold(n)
  PROVE  ResponseGate!GateNext
<1>1. ~responseAborted /\ \E last \in BOOLEAN : ReceivePlainResponseBody(n, last, "buffer")
  BY DEF ResponseOversize, ResponseHold
<1>2. PICK last \in BOOLEAN : ReceivePlainResponseBody(n, last, "buffer")
  BY <1>1
<1>3. /\ ReceiveResponseBody(n, last) /\ responsePath \in {"unset", "buffer"}
      /\ responsePath = "unset" /\ ~responseAborted => respOut = << >>
  BY <1>2, ResponsePathDecision
<1>4. respGate = "open"
  BY <1>1, <1>3, ResponseBodyCommon
<1>5. respOut = << >>
  BY <1>1, <1>3, <1>4 DEF IInv, ResponseInv
<1>6. IsPrefix(respIn, respIn') /\ respIn' \in Seq(Nat)
  BY <1>3, ResponseGrows, ResponseBodyArrives
<1>7. << >> \o << >> = << >> /\ IsPrefix(<< >>, << >>) /\ IsPrefix(<< >>, respIn')
  BY <1>6, EmptySeq, ConcatEmptySeq, PrefixReflexive
<1>8. CASE ResponseOversize(n, eos)
  <2>1. respGate' = "rejected" /\ respOut' = respOut
    BY <1>8 DEF ResponseOversize, RejectResponse
  <2> QED  BY <2>1, <1>4, <1>5, <1>6, ResponsePrefix
           DEF ResponseGate!GateNext, ResponseGate!Reject
<1>9. CASE ResponseHold(n)
  <2>1. respGate' = "open" /\ respOut' = << >> \o << >>
    BY <1>4, <1>5, <1>9 DEF ResponseHold, ReleaseResponse
  <2> QED  BY <2>1, <1>4, <1>5, <1>6, <1>7, ResponsePrefix
           DEF ResponseGate!GateNext, ResponseGate!Pass
<1> QED  BY <1>8, <1>9

(* The verdict on an assembled response: all of it or nothing.             *)
LEMMA ResponseVerdictGate ==
  ASSUME IInv, NEW n \in Nat, ResponseBlock(n) \/ ResponseEmit(n)
  PROVE  ResponseGate!GateNext
<1>1. AssembleResponse(n)
  BY DEF ResponseBlock, ResponseEmit
<1>2. /\ responseBuf' = respIn' /\ respIn' \in Seq(Nat)
      /\ respGate = "open" /\ respOut = << >>
  BY <1>1, ResponseAssembled
<1>3. IsPrefix(respIn, respIn')
  BY <1>1, ResponseGrows DEF AssembleResponse, ReceivePlainResponseBody
<1>4. CASE ResponseBlock(n)
  <2>1. respGate' = "rejected" /\ respOut' = respOut
    BY <1>4 DEF ResponseBlock, RejectResponse
  <2> QED  BY <2>1, <1>2, <1>3, ResponsePrefix
           DEF ResponseGate!GateNext, ResponseGate!Reject
<1>5. CASE ResponseEmit(n)
  <2>1. respOut' = << >> \o respIn' /\ respGate' = "ended"
    BY <1>2, <1>5 DEF ResponseEmit, ReleaseResponse
  <2>2. << >> \o respIn' = respIn' /\ IsPrefix(<< >>, respIn')
    BY <1>2, ConcatEmptySeq, PrefixReflexive
  <2> QED  BY <2>1, <2>2, <1>2, <1>3, ResponsePrefix
           DEF ResponseGate!GateNext, ResponseGate!End
<1> QED  BY <1>4, <1>5

(* An oversize event is never empty, so an error event sent in its place   *)
(* cuts something off (handleSSEOversize).                                 *)
LEMMA SSEOversizeGate ==
  ASSUME IInv, NEW n \in Nat, NEW eos \in BOOLEAN, SSEOversize(n, eos)
  PROVE  ResponseGate!GateNext
<1> DEFINE s == ssePending \o Chunk(respIn, n)
<1>1. ReceiveEvents(n, eos) /\ ReceiveResponseBody(n, eos) /\ ~responseAborted
  BY DEF SSEOversize, ReceiveEvents
<1>2. /\ respGate = "open" /\ s \in Seq(Nat) /\ respOut \in Seq(Nat)
      /\ respIn' = respOut \o s /\ (sseEmitted <=> respOut # << >>)
  BY <1>1, EventsScanned
<1>3. IsPrefix(respIn, respIn')
  BY <1>1, ResponseGrows
<1>4. \E i \in 1..Len(s) : TRUE
  BY DEF SSEOversize, EventTooLarge, EventEnds
<1>5. respOut' = respOut
  BY DEF SSEOversize, RejectResponse
<1>6. \/ ~sseEmitted /\ respGate' = "rejected"
      \/ sseEmitted /\ respGate' = "cut"
  BY DEF SSEOversize, RejectResponse
<1> HIDE DEF s
<1>7. s # << >>
  BY <1>4, EmptySeq
<1>8. CASE ~sseEmitted /\ respGate' = "rejected"
  BY <1>2, <1>3, <1>5, <1>8, ResponsePrefix DEF ResponseGate!GateNext, ResponseGate!Reject
<1>9. CASE sseEmitted /\ respGate' = "cut"
  <2>1. IsPrefix(respOut, respOut) /\ IsPrefix(respOut, respIn')
    BY <1>2, ConcatIsPrefix, PrefixReflexive
  <2>2. respOut # respIn'
    BY <1>2, <1>7, ConcatSimplifications
  <2> QED  BY <2>1, <2>2, <1>2, <1>3, <1>5, <1>9, ResponsePrefix
           DEF ResponseGate!GateNext, ResponseGate!Cut
<1> QED  BY <1>6, <1>8, <1>9

(* The peer is cut off before the refused event, at the latest             *)
(* (handleSSEBlock).                                                       *)
LEMMA SSEBlockGate ==
  ASSUME IInv, NEW n \in Nat, NEW eos \in BOOLEAN, SSEBlock(n, eos)
  PROVE  ResponseGate!GateNext
<1> DEFINE s == ssePending \o Chunk(respIn, n)
<1> DEFINE ends == EventEnds(s, eos)
<1>1. ReceiveEvents(n, eos) /\ ReceiveResponseBody(n, eos) /\ ~responseAborted
  BY DEF SSEBlock, ReceiveEvents
<1>2. /\ respGate = "open" /\ s \in Seq(Nat) /\ respOut \in Seq(Nat)
      /\ respIn' = respOut \o s /\ (sseEmitted <=> respOut # << >>)
  BY <1>1, EventsScanned
<1>3. IsPrefix(respIn, respIn')
  BY <1>1, ResponseGrows
<1>4. PICK i \in ends : \E k \in 0..(i - 1) :
        \/ ~sseEmitted /\ RejectResponse(403)
        \/ /\ sseEmitted \/ k > 0
           /\ respOut' = respOut \o SubSeq(s, 1, k)
           /\ respGate' = "cut"
  BY DEF SSEBlock
<1>5. PICK k \in 0..(i - 1) :
        \/ ~sseEmitted /\ RejectResponse(403)
        \/ /\ sseEmitted \/ k > 0
           /\ respOut' = respOut \o SubSeq(s, 1, k)
           /\ respGate' = "cut"
  BY <1>4
<1>6. i \in 1..Len(s)
  BY DEF EventEnds
<1> HIDE DEF s, ends
<1>7. Len(s) \in Nat
  BY <1>2, LenProperties
<1>8. k \in 0..Len(s) /\ k < Len(s)
  BY <1>6, <1>7
<1> DEFINE a == SubSeq(s, 1, k)
<1> DEFINE b == SubSeq(s, k + 1, Len(s))
<1>9. /\ a \in Seq(Nat) /\ b \in Seq(Nat) /\ a \o b = s
      /\ Len(a) = k /\ Len(b) = Len(s) - k
  BY <1>2, <1>8, SplitAt
<1>10. CASE ~sseEmitted /\ RejectResponse(403)
  <2>1. respGate' = "rejected" /\ respOut' = respOut
    BY <1>10 DEF RejectResponse
  <2> QED  BY <2>1, <1>2, <1>3, <1>10, ResponsePrefix
           DEF ResponseGate!GateNext, ResponseGate!Reject
<1>11. CASE /\ sseEmitted \/ k > 0
            /\ respOut' = respOut \o a
            /\ respGate' = "cut"
  <2> HIDE DEF a, b
  <2>1. respOut \o a \in Seq(Nat) /\ IsPrefix(respOut, respOut \o a)
    BY <1>2, <1>9, ConcatProperties, ConcatIsPrefix
  <2>2. respIn' = (respOut \o a) \o b
    BY <1>2, <1>9, JoinAssociative
  <2>3. IsPrefix(respOut \o a, respIn')
    BY <2>1, <2>2, <1>9, ConcatIsPrefix
  <2>4. b # << >>
    BY <1>7, <1>8, <1>9, EmptySeq
  <2>5. respOut \o a # respIn'
    <3>1. \A x, y \in Seq(Nat) : x \o y = x => y = << >>
      BY ConcatSimplifications
    <3> QED  BY <3>1, <2>1, <2>2, <2>4, <1>9
  <2>6. respOut \o a # << >>
    <3>1. respOut # << >> \/ a # << >>
      BY <1>2, <1>8, <1>9, <1>11, EmptySeq
    <3> QED  BY <3>1, <1>2, <1>9, ConcatIsEmpty
  <2> QED  BY <2>1, <2>3, <2>5, <2>6, <1>2, <1>3, <1>11, ResponsePrefix
           DEF ResponseGate!GateNext, ResponseGate!Cut
<1> QED  BY <1>5, <1>10, <1>11

(* At end of stream Flush makes an event of whatever is left, so that the  *)
(* last event ends at the last byte.                                       *)
LEMMA LastEventEnds ==
  ASSUME NEW s \in Seq(Nat)
  PROVE  Max({0} \cup EventEnds(s, TRUE)) = Len(s)
<1> DEFINE S == {0} \cup EventEnds(s, TRUE)
<1>1. Len(s) \in Nat
  BY LenProperties
<1>2. S \subseteq 0..Len(s) /\ Len(s) \in S
  BY <1>1 DEF EventEnds
<1> HIDE DEF S
<1>3. \E x \in S : \A y \in S : x >= y
  BY <1>1, <1>2
<1> DEFINE last == Max(S)
<1>4. last \in S /\ \A y \in S : last >= y
  BY <1>3, Zenon DEF Max
<1> HIDE DEF last
<1>5. last \in 0..Len(s) /\ last >= Len(s)
  BY <1>2, <1>4
<1>6. last = Len(s)
  BY <1>1, <1>5
<1> QED  BY <1>6 DEF S, last

(* Finished events go out in order; the last one with the end of stream.   *)
LEMMA SSEEmitGate ==
  ASSUME IInv, NEW n \in Nat, NEW eos \in BOOLEAN, SSEEmit(n, eos)
  PROVE  ResponseGate!GateNext
<1> DEFINE s == ssePending \o Chunk(respIn, n)
<1>1. ReceiveEvents(n, eos) /\ ReceiveResponseBody(n, eos) /\ ~responseAborted
  BY DEF SSEEmit, ReceiveEvents
<1>2. /\ respGate = "open" /\ s \in Seq(Nat) /\ respOut \in Seq(Nat)
      /\ respIn' = respOut \o s
  BY <1>1, EventsScanned
<1>3. IsPrefix(respIn, respIn')
  BY <1>1, ResponseGrows
<1>4. PICK k \in 0..Len(s) :
        /\ k = Max({0} \cup EventEnds(s, eos))
        /\ ReleaseResponse(SubSeq(s, 1, k), eos)
  BY DEF SSEEmit
<1> DEFINE a == SubSeq(s, 1, k)
<1> DEFINE b == SubSeq(s, k + 1, Len(s))
<1>5. respOut' = respOut \o a /\ respGate' = (IF eos THEN "ended" ELSE "open")
  BY <1>2, <1>4 DEF ReleaseResponse
<1> HIDE DEF s
<1>6. /\ a \in Seq(Nat) /\ b \in Seq(Nat) /\ a \o b = s
      /\ Len(b) = Len(s) - k
  BY <1>2, SplitAt
<1>7. eos => k = Len(s)
  BY <1>2, <1>4, LastEventEnds
<1> HIDE DEF a, b
<1>8. /\ respOut \o a \in Seq(Nat)
      /\ IsPrefix(respOut, respOut \o a)
      /\ respIn' = (respOut \o a) \o b
  BY <1>2, <1>6, JoinAssociative, ConcatProperties, ConcatIsPrefix
<1>9. IsPrefix(respOut \o a, respIn')
  BY <1>6, <1>8, ConcatIsPrefix
<1>10. eos => respIn' = respOut \o a
  <2> SUFFICES ASSUME eos PROVE respIn' = respOut \o a
    OBVIOUS
  <2>1. Len(s) \in Nat
    BY <1>2, LenProperties
  <2>2. Len(b) = 0
    BY <2>1, <1>6, <1>7
  <2>3. b = << >>
    BY <2>2, <1>6, EmptySeq
  <2> QED  BY <2>3, <1>8, ConcatEmptySeq
<1>11. CASE eos
  BY <1>2, <1>3, <1>5, <1>8, <1>10, <1>11, ResponsePrefix
     DEF ResponseGate!GateNext, ResponseGate!End
<1>12. CASE ~eos
  BY <1>2, <1>3, <1>5, <1>8, <1>9, <1>12, ResponsePrefix
     DEF ResponseGate!GateNext, ResponseGate!Pass
<1> QED  BY <1>11, <1>12

(* Headers that carry end_of_stream end an empty body.                     *)
LEMMA ResponseHeadersGate ==
  ASSUME IInv, NEW eos \in BOOLEAN, ResponseHeaders(eos)
  PROVE  [ResponseGate!GateNext]_(ResponseGate!gateVars)
<1>1. respIn = << >> /\ respOut = << >> /\ respGate = "open"
  BY DEF IInv, ResponseInv, ResponseHeaders, TypeOK, ResponseTypeOK, Gates
<1>2. respIn' = respIn /\ respOut' = respOut /\ respGate' = (IF eos THEN "ended" ELSE respGate)
  BY DEF ResponseHeaders
<1>3. IsPrefix(<< >>, << >>)
  BY EmptySeq, PrefixReflexive
<1>4. CASE eos
  BY <1>1, <1>2, <1>3, <1>4, ResponsePrefix DEF ResponseGate!GateNext, ResponseGate!End
<1>5. CASE ~eos
  BY <1>2, <1>5 DEF ResponseGate!gateVars
<1> QED  BY <1>4, <1>5

(* Every step of the stream is a step of the response's gate or leaves it. *)
LEMMA ResponseGateStep ==
  ASSUME ~AllowTrailers
  PROVE  IInv /\ [Next]_vars => [ResponseGate!GateNext]_(ResponseGate!gateVars)
<1> SUFFICES ASSUME IInv, [Next]_vars PROVE [ResponseGate!GateNext]_(ResponseGate!gateVars)
  OBVIOUS
<1> DEFINE kept == respIn' = respIn /\ respOut' = respOut /\ respGate' = respGate
<1>1. kept => UNCHANGED ResponseGate!gateVars
  BY DEF ResponseGate!gateVars
<1>2. CASE \E md \in Sources, hdr \in Sources, eos \in BOOLEAN : RequestHeaders(md, hdr, eos)
  BY <1>1, <1>2 DEF RequestHeaders, responseSideVars, respView
<1>3. CASE SomeRequestBody
  <2>1. PICK n \in 0..Size(reqDoc), eos \in BOOLEAN : RequestBody(n, eos)
    BY <1>3 DEF SomeRequestBody
  <2>2. PICK last \in BOOLEAN : ReceiveRequestBody(n, last)
    BY <2>1 DEF RequestBody, RequestPassThrough, RequestSilenced, RequestOversize,
         RequestHold, RequestNoParser, RequestBlock, RequestEmit, AssembleRequest
  <2> QED  BY <2>2, <1>1 DEF ReceiveRequestBody, responseSideVars, respView
<1>4. CASE RequestTrailers
  BY <1>4 DEF RequestTrailers
<1>5. CASE \E eos \in BOOLEAN : ResponseHeaders(eos)
  BY <1>5, ResponseHeadersGate
<1>6. CASE SomeResponseBody
  <2>1. PICK n \in 0..Size(respDoc.body), eos \in BOOLEAN : ResponseBody(n, eos)
    BY <1>6 DEF SomeResponseBody
  <2>2. n \in Nat
    BY RespDocType, SizeIsNat
  <2>3. CASE ResponsePassThrough(n, eos)
    BY <2>2, <2>3, ResponsePassThroughGate
  <2>4. CASE ResponseSilenced(n, eos) \/ SSESilenced(n, eos)
    BY <2>2, <2>4, ResponseSilencedGate
  <2>5. CASE ResponseOversize(n, eos) \/ ResponseHold(n)
    BY <2>2, <2>5, ResponseBufferGate
  <2>6. CASE ResponseBlock(n) \/ ResponseEmit(n)
    BY <2>2, <2>6, ResponseVerdictGate
  <2>7. CASE SSEOversize(n, eos)
    BY <2>2, <2>7, SSEOversizeGate
  <2>8. CASE SSEBlock(n, eos)
    BY <2>2, <2>8, SSEBlockGate
  <2>9. CASE SSEEmit(n, eos)
    BY <2>2, <2>9, SSEEmitGate
  <2> QED  BY <2>1, <2>3, <2>4, <2>5, <2>6, <2>7, <2>8, <2>9 DEF ResponseBody
<1>7. CASE ResponseTrailers
  BY <1>7 DEF ResponseTrailers
<1>8. CASE Close
  BY <1>1, <1>8 DEF Close, respView
<1>9. CASE UNCHANGED vars
  BY <1>1, <1>9 DEF vars, respView
<1> QED  BY <1>2, <1>3, <1>4, <1>5, <1>6, <1>7, <1>8, <1>9 DEF Next

(* When no body ends with trailers, the response direction implements its  *)
(* gate on each of its paths: whole, refused before the first byte, or a   *)
(* proper beginning closed by an error event (handleResponseBody,          *)
(* handleSSEResponseBody).                                                 *)
THEOREM ResponseImplementsGate ==
  ASSUME ~AllowTrailers
  PROVE  Spec => ResponseIsGated
<1>1. IInv /\ [Next]_vars => [ResponseGate!GateNext]_(ResponseGate!gateVars)
  BY ResponseGateStep
<1> QED  BY <1>1, ResponseGateInit, InvariantHolds, PTL
         DEF Spec, ResponseIsGated, ResponseGate!GateSpec
=============================================================================
