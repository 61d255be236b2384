------------------------ MODULE ExtProcAnswer_proofs ------------------------
(***************************************************************************)
(* The cap of an ext_proc stream is exact, for every cap and every cut of  *)
(* the bodies into chunks; and what post_call inspection lets through is   *)
(* clean, for every response and every cut, when Envoy answers after the   *)
(* request and no body ends with trailers.                                 *)
(***************************************************************************)
EXTENDS ExtProcStream_proofs, WellFoundedInduction

-----------------------------------------------------------------------------
(* Events and their lengths.                                               *)

(* An event lies within the bytes scanned, behind every earlier one.       *)
LEMMA EventProperties ==
  ASSUME NEW s \in Seq(Nat), NEW i \in EventEnds(s, TRUE)
  PROVE  /\ EventStart(s, i) \in 0..(i - 1)
         /\ i \in 1..Len(s)
         /\ EventStart(s, i) = 0 \/ EventStart(s, i) \in EventEnds(s, TRUE)
         /\ Len(EventAt(s, i)) = i - EventStart(s, i)
<1> DEFINE earlier == {0} \cup {j \in EventEnds(s, TRUE) : j < i}
<1>1. Len(s) \in Nat /\ i \in 1..Len(s)
  BY LenProperties DEF EventEnds
<1>2. earlier \subseteq 0..(i - 1) /\ earlier # {}
  BY <1>1 DEF EventEnds
<1>3. i - 1 \in Nat
  BY <1>1
<1>4. EventStart(s, i) = Max(earlier)
  BY DEF EventStart
<1> HIDE DEF earlier
<1>5. EventStart(s, i) \in earlier
  BY <1>2, <1>3, <1>4, MaxOfBounded
<1>6. EventStart(s, i) \in 0..(i - 1)
  BY <1>2, <1>5
<1>7. Len(SubSeq(s, EventStart(s, i) + 1, i)) = i - EventStart(s, i)
  <2> DEFINE b == EventStart(s, i) + 1
  <2>1. b \in Int /\ i \in Int /\ b <= i /\ \A j \in b..i : s[j] \in Nat
    BY <1>1, <1>6, ElementOfSeq
  <2>2. Len(SubSeq(s, b, i)) = i - b + 1
    BY <2>1, SubSeqProperties
  <2> QED BY <1>1, <1>6, <2>2
<1> QED BY <1>1, <1>5, <1>6, <1>7 DEF EventAt, earlier

(* A chunk that makes an event too large brought more than the cap.        *)
LEMMA TooLargeIsLong ==
  ASSUME NEW s \in Seq(Nat), EventTooLarge(s)
  PROVE  MaxBodySize > 0 /\ Len(s) > MaxBodySize
<1>1. PICK i \in EventEnds(s, TRUE) : OverCap(EventAt(s, i))
  BY DEF EventTooLarge
<1>2. Len(EventAt(s, i)) = i - EventStart(s, i) /\ EventStart(s, i) \in 0..(i - 1) /\ i \in 1..Len(s)
  BY EventProperties
<1>3. Len(s) \in Nat
  BY LenProperties
<1> QED BY <1>1, <1>2, <1>3, BoundAssumption DEF OverCap

(* Otherwise what stays in the decoder fits the cap: it is part of the     *)
(* unfinished event.                                                       *)
LEMMA RestIsSmall ==
  ASSUME NEW s \in Seq(Nat), ~EventTooLarge(s), MaxBodySize > 0,
         NEW k \in 0..Len(s),
         \A j \in EventEnds(s, FALSE) : j <= k
  PROVE  Len(SubSeq(s, k + 1, Len(s))) <= MaxBodySize
<1> DEFINE l == Len(s)
<1>1. l \in Nat /\ MaxBodySize \in Nat
  BY LenProperties, BoundAssumption
<1>2. Len(SubSeq(s, k + 1, l)) = l - k
  <2>1. k + 1 \in Int /\ l \in Int /\ \A j \in (k + 1)..l : s[j] \in Nat
    BY <1>1, ElementOfSeq
  <2>2. Len(SubSeq(s, k + 1, l)) = IF k + 1 <= l THEN l - (k + 1) + 1 ELSE 0
    BY <2>1, SubSeqProperties
  <2> QED BY <1>1, <2>2
<1>3. CASE l = 0
  BY <1>1, <1>2, <1>3
<1>4. CASE l # 0
  <2>1. l \in EventEnds(s, TRUE)
    BY <1>1, <1>4 DEF EventEnds
  <2>2. /\ EventStart(s, l) = 0 \/ EventStart(s, l) \in EventEnds(s, TRUE)
        /\ EventStart(s, l) \in 0..(l - 1)
        /\ Len(EventAt(s, l)) = l - EventStart(s, l)
    BY <2>1, EventProperties
  <2>3. EventStart(s, l) <= k
    <3>1. CASE EventStart(s, l) = 0
      BY <1>1, <3>1
    <3>2. CASE EventStart(s, l) \in EventEnds(s, TRUE)
      <4>1. EventStart(s, l) \in EventEnds(s, FALSE)
        BY <1>1, <2>2, <3>2 DEF EventEnds
      <4> QED BY <4>1
    <3> QED BY <2>2, <3>1, <3>2
  <2>4. ~OverCap(EventAt(s, l))
    BY <2>1 DEF EventTooLarge
  <2>5. Len(EventAt(s, l)) <= MaxBodySize
    BY <1>1, <2>2, <2>4 DEF OverCap
  <2> QED BY <1>1, <1>2, <2>2, <2>3, <2>5
<1> QED BY <1>3, <1>4

-----------------------------------------------------------------------------
(* The cap holds step by step.                                             *)

(* A stream begins with empty buffers.                                     *)
LEMMA InitCap == Init => CapIsExact
<1> SUFFICES ASSUME Init PROVE CapIsExact
  OBVIOUS
<1>1. /\ requestBuf = << >> /\ responseBuf = << >> /\ ssePending = << >>
      /\ reqCode = 0 /\ respCode = 0
  BY DEF Init
<1>2. Len(<< >>) = 0
  OBVIOUS
<1> QED BY <1>1, <1>2, BoundAssumption DEF CapIsExact, RequestCap, ResponseCap

(* Steps that leave a side alone.                                          *)
LEMMA RequestCapKept ==
  ASSUME RequestCap, requestBuf' = requestBuf, reqCode' = reqCode, reqIn' = reqIn
  PROVE  RequestCap'
BY DEF RequestCap

LEMMA ResponseCapKept ==
  ASSUME ResponseCap, responseBuf' = responseBuf, ssePending' = ssePending,
         respCode' = respCode, respIn' = respIn
  PROVE  ResponseCap'
BY DEF ResponseCap

(* A request body message (handleRequestBody, server.go:281-357).          *)
LEMMA RequestBodyCap ==
  ASSUME IInv, RequestCap, NEW n \in Nat, NEW eos \in BOOLEAN, RequestBody(n, eos)
  PROVE  RequestCap'
<1> DEFINE c == Chunk(reqIn, n)
<1>1. c \in Seq(Nat) /\ Len(c) = n /\ reqIn \in Seq(Nat) /\ requestBuf \in Seq(Nat)
  BY ChunkProperties DEF IInv, TypeOK, RequestTypeOK
<1>2. reqIn' = reqIn \o c
  BY DEF RequestBody, RequestPassThrough, RequestSilenced, RequestOversize, RequestHold,
         RequestNoParser, RequestBlock, RequestEmit, AssembleRequest, ReceiveRequestBody
<1>3. Len(reqIn') = Len(reqIn) + n /\ Len(reqIn) \in Nat
  BY <1>1, <1>2, ConcatProperties, LenProperties
<1>4. Len(requestBuf \o c) = Len(requestBuf) + n /\ Len(requestBuf) \in Nat
  BY <1>1, ConcatProperties, LenProperties
<1>5. CASE requestBuf' = requestBuf /\ reqCode' = reqCode
  BY <1>3, <1>5, BoundAssumption DEF RequestCap
<1>6. CASE /\ requestBuf' = requestBuf \o c /\ ~OverCap(requestBuf \o c)
           /\ reqCode' \in {reqCode, 403}
  BY <1>3, <1>4, <1>6, BoundAssumption DEF RequestCap, OverCap
<1>7. CASE RequestOversize(n, eos)
  <2>1. /\ ReceiveRequestBody(n, eos) /\ DecideRequestPath(c, eos, "buffer")
        /\ ~requestAborted /\ OverCap(requestBuf \o c)
        /\ requestBuf' = << >> /\ reqCode' = 413
    BY <1>7 DEF RequestOversize, RejectRequest
  <2>2. requestPath \in {"unset", "buffer"}
    BY <2>1, PathDecision
  <2>3. reqGate = "open" \/ (reqGate = "rejected" /\ requestAborted)
    BY <2>1, RequestBodyCommon
  <2>4. requestBuf = reqIn
    BY <2>1, <2>2, <2>3 DEF IInv, RequestInv
  <2>5. Len(requestBuf') = 0
    BY <2>1
  <2> QED BY <1>2, <2>1, <2>4, <2>5, BoundAssumption DEF RequestCap, OverCap
<1>8. CASE AssembleRequest(n) /\ reqCode' \in {reqCode, 403}
  BY <1>6, <1>8 DEF AssembleRequest
<1> QED BY <1>5, <1>6, <1>7, <1>8
        DEF RequestBody, RequestPassThrough, RequestSilenced, RequestHold,
            RequestNoParser, RequestBlock, RequestEmit, RejectRequest

(* A response body message, buffered (server.go:526-560).                  *)
LEMMA PlainResponseCap ==
  ASSUME IInv, ResponseCap, NEW n \in Nat, NEW eos \in BOOLEAN, NEW path,
         ReceivePlainResponseBody(n, eos, path),
         \/ responseBuf' = responseBuf /\ respCode' = respCode
         \/ /\ responseBuf' = responseBuf \o Chunk(respIn, n)
            /\ ~OverCap(responseBuf \o Chunk(respIn, n))
            /\ respCode' \in {respCode, 403}
         \/ /\ path = "buffer" /\ ~responseAborted
            /\ responseBuf' = << >> /\ respCode' = 502
            /\ OverCap(responseBuf \o Chunk(respIn, n))
  PROVE  ResponseCap'
<1> DEFINE c == Chunk(respIn, n)
<1>1. /\ ReceiveResponseBody(n, eos)
      /\ ssePending' = ssePending
      /\ responsePath \in {"unset", path}
      /\ responsePath = "unset" /\ ~responseAborted => respIn = << >> /\ responseBuf = << >>
  BY ResponsePathDecision
<1>2. c \in Seq(Nat) /\ Len(c) = n /\ respIn' = respIn \o c
  BY <1>1, ResponseBodyArrives
<1>3. respIn \in Seq(Nat) /\ responseBuf \in Seq(Nat)
  BY DEF IInv, TypeOK, ResponseTypeOK
<1>4. Len(respIn') = Len(respIn) + n /\ Len(respIn) \in Nat
  BY <1>2, <1>3, ConcatProperties, LenProperties
<1>5. Len(responseBuf \o c) = Len(responseBuf) + n /\ Len(responseBuf) \in Nat
  BY <1>2, <1>3, ConcatProperties, LenProperties
<1>6. CASE responseBuf' = responseBuf /\ respCode' = respCode
  BY <1>1, <1>4, <1>6, BoundAssumption DEF ResponseCap
<1>7. CASE /\ responseBuf' = responseBuf \o c /\ ~OverCap(responseBuf \o c)
           /\ respCode' \in {respCode, 403}
  BY <1>1, <1>4, <1>5, <1>7, BoundAssumption DEF ResponseCap, OverCap
<1>8. CASE /\ path = "buffer" /\ ~responseAborted
           /\ responseBuf' = << >> /\ respCode' = 502 /\ OverCap(responseBuf \o c)
  <2>1. respGate = "open" \/ (respGate \in {"cut", "rejected"} /\ responseAborted)
    BY <1>1, ResponseBodyCommon
  <2>2. responseBuf = respIn
    BY <1>1, <1>8, <2>1 DEF IInv, ResponseInv
  <2>3. Len(responseBuf') = 0
    BY <1>8
  <2> QED BY <1>1, <1>2, <1>8, <2>2, <2>3, BoundAssumption DEF ResponseCap, OverCap
<1> QED BY <1>6, <1>7, <1>8

(* A chunk of events (handleSSEResponseBody, server.go:652-696, and        *)
(* Decoder.Write, decoder.go:61-111).                                      *)
LEMMA EventsCap ==
  ASSUME IInv, ResponseCap, NEW n \in Nat, NEW eos \in BOOLEAN,
         SSESilenced(n, eos) \/ SSEOversize(n, eos) \/ SSEBlock(n, eos) \/ SSEEmit(n, eos)
  PROVE  ResponseCap'
<1> DEFINE c == Chunk(respIn, n)
           s == ssePending \o c
<1>1. ReceiveEvents(n, eos)
  BY DEF SSESilenced, SSEOversize, SSEBlock, SSEEmit
<1>2. /\ c \in Seq(Nat) /\ Len(c) = n /\ respIn' = respIn \o c
      /\ responseBuf' = responseBuf
  BY <1>1, ResponseBodyArrives DEF ReceiveEvents
<1>3. respIn \in Seq(Nat) /\ ssePending \in Seq(Nat) /\ respOut \in Seq(Nat)
  BY DEF IInv, TypeOK, ResponseTypeOK
<1>4. Len(respIn') = Len(respIn) + n /\ Len(respIn) \in Nat
  BY <1>2, <1>3, ConcatProperties, LenProperties
<1>5. s \in Seq(Nat) /\ Len(s) \in Nat
  BY <1>2, <1>3, ConcatProperties, LenProperties
<1>6. ~responseAborted => Len(respIn') = Len(respOut) + Len(s) /\ Len(respOut) \in Nat
  BY <1>1, <1>3, <1>5, EventsScanned, ConcatProperties, LenProperties
<1> HIDE DEF c, s
<1>7. CASE respCode' \in {respCode, 403} /\ (ssePending' = ssePending \/ Len(ssePending') = 0)
  BY <1>2, <1>4, <1>7, BoundAssumption DEF ResponseCap
<1>8. CASE SSESilenced(n, eos)
  BY <1>7, <1>8 DEF SSESilenced, sseState
<1>9. CASE SSEOversize(n, eos)
  <2>1. /\ EventTooLarge(s) /\ ~responseAborted /\ ssePending' = << >>
        /\ respCode' \in {respCode, 502}
    BY <1>9 DEF SSEOversize, RejectResponse, s, c
  <2>2. MaxBodySize > 0 /\ Len(s) > MaxBodySize
    BY <1>5, <2>1, TooLargeIsLong
  <2>3. Len(ssePending') = 0
    BY <2>1
  <2>4. Len(respIn') > MaxBodySize
    BY <1>5, <1>6, <2>1, <2>2, BoundAssumption
  <2> QED BY <1>2, <2>1, <2>2, <2>3, <2>4, BoundAssumption DEF ResponseCap
<1>10. ASSUME NEW k \in 0..Len(s), ~EventTooLarge(s), respCode' \in {respCode, 403},
              \A j \in EventEnds(s, FALSE) : j <= k,
              ssePending' = SubSeq(s, k + 1, Len(s))
       PROVE  ResponseCap'
  <2>1. MaxBodySize > 0 => Len(ssePending') <= MaxBodySize
    BY <1>5, <1>10, RestIsSmall
  <2> QED BY <1>2, <1>4, <1>10, <2>1, BoundAssumption DEF ResponseCap
<1>11. CASE SSEBlock(n, eos)
  <2>1. ~EventTooLarge(s)
    BY <1>11 DEF SSEBlock, s, c
  <2>2. PICK i \in EventEnds(s, eos) : \E m \in i..Len(s) :
          /\ m = Max({i} \cup EventEnds(s, FALSE))
          /\ ssePending' = SubSeq(s, m + 1, Len(s))
          /\ respCode' \in {respCode, 403}
    BY <1>11 DEF SSEBlock, RejectResponse, s, c
  <2>3. PICK m \in i..Len(s) :
          /\ m = Max({i} \cup EventEnds(s, FALSE))
          /\ ssePending' = SubSeq(s, m + 1, Len(s))
          /\ respCode' \in {respCode, 403}
    BY <2>2
  <2>4. {i} \cup EventEnds(s, FALSE) \subseteq 0..Len(s)
    BY <1>5 DEF EventEnds
  <2>5. \A j \in EventEnds(s, FALSE) : j <= m
    BY <1>5, <2>3, <2>4, MaxOfBounded
  <2>6. m \in 0..Len(s)
    <3>1. i \in 0..Len(s)
      BY <2>4
    <3> QED BY <1>5, <2>3, <3>1
  <2> QED BY <1>10, <2>1, <2>3, <2>5, <2>6
<1>12. CASE SSEEmit(n, eos)
  <2>1. ~EventTooLarge(s) /\ respCode' = respCode
    BY <1>12 DEF SSEEmit, s, c
  <2>2. PICK k \in 0..Len(s) :
          /\ k = Max({0} \cup EventEnds(s, eos))
          /\ ssePending' = SubSeq(s, k + 1, Len(s))
    BY <1>12 DEF SSEEmit, s, c
  <2>3. {0} \cup EventEnds(s, eos) \subseteq 0..Len(s)
    BY <1>5 DEF EventEnds
  <2>4. \A j \in EventEnds(s, eos) : j <= k
    BY <1>5, <2>2, <2>3, MaxOfBounded
  <2>5. EventEnds(s, FALSE) \subseteq EventEnds(s, eos)
    BY DEF EventEnds
  <2> QED BY <1>10, <2>1, <2>2, <2>4, <2>5
<1> QED BY <1>8, <1>9, <1>11, <1>12

(* Every message of the stream keeps the cap.                              *)
LEMMA NextCap == IInv /\ CapIsExact /\ [Next]_vars => CapIsExact'
<1> SUFFICES ASSUME IInv, RequestCap, ResponseCap, [Next]_vars PROVE RequestCap' /\ ResponseCap'
  BY DEF CapIsExact
<1>1. requestSideVars' = requestSideVars => RequestCap'
  BY RequestCapKept DEF requestSideVars, reqState, reqView
<1>2. responseSideVars' = responseSideVars => ResponseCap'
  BY ResponseCapKept DEF responseSideVars, respState, sseState, respView
<1>3. CASE SomeRequestBody
  <2>1. Size(reqDoc) \in Nat
    BY ReqDocType, SizeIsNat
  <2>2. PICK n \in 0..Size(reqDoc), eos \in BOOLEAN : RequestBody(n, eos)
    BY <1>3 DEF SomeRequestBody
  <2>3. n \in Nat
    BY <2>1
  <2>4. responseSideVars' = responseSideVars
    BY <2>2 DEF RequestBody, RequestPassThrough, RequestSilenced, RequestOversize,
         RequestHold, RequestNoParser, RequestBlock, RequestEmit, AssembleRequest,
         ReceiveRequestBody
  <2> QED BY <1>2, <2>2, <2>3, <2>4, RequestBodyCap
<1>4. CASE SomeResponseBody
  <2>1. Size(respDoc.body) \in Nat
    BY RespDocType, SizeIsNat
  <2>2. PICK n \in 0..Size(respDoc.body), eos \in BOOLEAN : ResponseBody(n, eos)
    BY <1>4 DEF SomeResponseBody
  <2>3. n \in Nat
    BY <2>1
  <2>4. requestSideVars' = requestSideVars
    BY <2>2 DEF ResponseBody, ResponsePassThrough, ResponseSilenced, ResponseOversize,
         ResponseHold, ResponseBlock, ResponseEmit, AssembleResponse,
         ReceivePlainResponseBody, SSESilenced, SSEOversize, SSEBlock, SSEEmit,
         ReceiveEvents, ReceiveResponseBody
  <2>5. CASE SSESilenced(n, eos) \/ SSEOversize(n, eos) \/ SSEBlock(n, eos) \/ SSEEmit(n, eos)
    BY <1>1, <2>3, <2>4, <2>5, EventsCap
  <2>6. CASE ResponsePassThrough(n, eos) \/ ResponseSilenced(n, eos)
    BY <1>1, <2>3, <2>4, <2>6, PlainResponseCap DEF ResponsePassThrough, ResponseSilenced
  <2>7. CASE ResponseOversize(n, eos)
    BY <1>1, <2>3, <2>4, <2>7, PlainResponseCap DEF ResponseOversize, RejectResponse
  <2>8. CASE ResponseHold(n)
    BY <1>1, <2>3, <2>4, <2>8, PlainResponseCap DEF ResponseHold
  <2>9. CASE ResponseBlock(n) \/ ResponseEmit(n)
    <3>1. AssembleResponse(n) /\ respCode' \in {respCode, 403}
      BY <2>9 DEF ResponseBlock, ResponseEmit, RejectResponse
    <3> QED BY <1>1, <2>3, <2>4, <3>1, PlainResponseCap DEF AssembleResponse
  <2> QED BY <2>2, <2>5, <2>6, <2>7, <2>8, <2>9 DEF ResponseBody
<1>5. CASE \E md \in Sources, hdr \in Sources, eos \in BOOLEAN : RequestHeaders(md, hdr, eos)
  BY <1>2, <1>5, RequestCapKept DEF RequestHeaders, reqState
<1>6. CASE RequestTrailers
  BY <1>2, <1>6, RequestCapKept DEF RequestTrailers, reqState
<1>7. CASE \E eos \in BOOLEAN : ResponseHeaders(eos)
  BY <1>1, <1>7, ResponseCapKept DEF ResponseHeaders, respState
<1>8. CASE ResponseTrailers
  BY <1>1, <1>8, ResponseCapKept DEF ResponseTrailers, respState, sseState
<1>9. CASE Close
  BY <1>9, RequestCapKept, ResponseCapKept DEF Close, reqState, respState, sseState, reqView, respView
<1>10. CASE UNCHANGED vars
  BY <1>10, RequestCapKept, ResponseCapKept DEF vars, reqState, respState, sseState, reqView, respView
<1> QED BY <1>3, <1>4, <1>5, <1>6, <1>7, <1>8, <1>9, <1>10 DEF Next

(* No buffer outgrows the cap, and a 413 or 502 comes only when more bytes *)
(* than the cap have arrived, whatever the cap, the bodies and their cuts  *)
(* (server.go:331, 547, decoder.go:72 and 96).  That among these bytes is  *)
(* an event which is too long is OversizeHolds.                            *)
THEOREM CapHolds == Spec => []CapIsExact
<1>1. Init /\ []IInv /\ [][Next]_vars => []CapIsExact
  BY InitCap, NextCap, PTL
<1> QED BY <1>1, InvariantHolds, PTL DEF Spec

-----------------------------------------------------------------------------
(* A stream of events is broken off for a long event and for nothing else. *)

(* Behind the end of an event no event reaches back: if the bytes given out*)
(* hold none that is too long, the scan finds what the whole holds.        *)
LEMMA ScanFindsLongEvents ==
  ASSUME NEW o \in Seq(Nat), NEW s \in Seq(Nat),
         o = << >> \/ Last(o) \in respDoc.ends,
         ~HasLongEvent(o)
  PROVE  EventTooLarge(s) <=> HasLongEvent(o \o s)
<1> DEFINE l == Len(o)
           m == Len(s)
           both == o \o s
           max == MaxBodySize
<1>0. l \in Nat /\ m \in Nat /\ max \in Int
  BY LenProperties, BoundAssumption
<1>1. /\ l \in Nat /\ m \in Nat /\ max \in Int
      /\ Len(both) = l + m
      /\ \A i \in 1..l : both[i] = o[i]
      /\ \A i \in 1..m : both[l + i] = s[i]
  <2>1. l \in Nat /\ m \in Nat /\ max \in Int
    BY <1>0
  <2>2. /\ Len(both) = l + m
        /\ \A i \in 1..(l + m) : both[i] = IF i <= l THEN o[i] ELSE s[i - l]
    BY ConcatProperties
  <2> HIDE DEF l, m, both
  <2>3. ASSUME NEW i \in 1..m PROVE l + i \in 1..(l + m) /\ ~(l + i <= l) /\ (l + i) - l = i
    BY <2>1
  <2>4. ASSUME NEW i \in 1..l PROVE i \in 1..(l + m) /\ i <= l
    BY <2>1
  <2> QED BY <2>1, <2>2, <2>3, <2>4
<1>2. l # 0 => o[l] \in respDoc.ends
  BY EmptySeq DEF Last
<1>3. /\ EventEnds(s, TRUE) \subseteq 1..m
      /\ m # 0 => m \in EventEnds(s, TRUE)
      /\ \A i \in 1..m : s[i] \in respDoc.ends => i \in EventEnds(s, TRUE)
      /\ \A i \in EventEnds(s, TRUE) : i = m \/ s[i] \in respDoc.ends
  BY <1>1 DEF EventEnds
<1> DEFINE ends == EventEnds(s, TRUE)
<1>4. ASSUME NEW i \in ends
      PROVE  /\ EventStart(s, i) \in 0..(i - 1)
             /\ EventStart(s, i) = 0 \/ EventStart(s, i) \in ends
             /\ \A j \in ends : j < i => j <= EventStart(s, i)
             /\ Len(EventAt(s, i)) = i - EventStart(s, i)
  <2>1. ends \subseteq Nat /\ i \in Nat /\ i > 0
    <3>1. ends \subseteq 1..m
      BY <1>3
    <3> HIDE DEF ends, m
    <3> QED BY <1>0, <3>1
  <2> HIDE DEF ends
  <2>2. \A j \in ends : j < i => j <= Max({0} \cup {j1 \in ends : j1 < i})
    BY <2>1, LatestBefore
  <2> USE DEF ends
  <2> QED BY <2>2, EventProperties DEF EventStart
<1>5. HasLongEvent(both) <=>
        max > 0 /\ \E k \in 0..(Len(both) - max - 1) :
          \A i \in 1..max : both[k + i] \notin respDoc.ends
  BY DEF HasLongEvent
<1>6. HasLongEvent(o) <=>
        max > 0 /\ \E k \in 0..(l - max - 1) : \A i \in 1..max : o[k + i] \notin respDoc.ends
  BY DEF HasLongEvent
<1>7. EventTooLarge(s) <=> max > 0 /\ \E i \in ends : i - EventStart(s, i) > max
  BY <1>4 DEF EventTooLarge, OverCap
<1> HIDE DEF l, m, both, max, ends
<1>8. ASSUME EventTooLarge(s) PROVE HasLongEvent(both)
  <2>1. PICK i \in ends : i - EventStart(s, i) > max
    BY <1>7, <1>8
  <2> DEFINE k == l + EventStart(s, i)
  <2>2. max > 0 /\ i \in 1..m /\ EventStart(s, i) \in 0..(i - 1)
    BY <1>3, <1>4, <1>7, <1>8 DEF ends
  <2>3. k \in 0..(Len(both) - max - 1)
    <3> DEFINE e == EventStart(s, i)
    <3>1. i \in 1..m /\ e \in 0..(i - 1) /\ i - e > max /\ k = l + e
      BY <2>1, <2>2
    <3> HIDE DEF e, k
    <3>2. Len(both) = l + m
      BY <1>1
    <3> QED BY <1>0, <3>1, <3>2
  <2>4. ASSUME NEW j \in 1..max, both[k + j] \in respDoc.ends PROVE FALSE
    <3> DEFINE p == EventStart(s, i) + j
    <3>1. p \in 1..m /\ p < i /\ ~(p <= EventStart(s, i)) /\ l + p = k + j
      <4> DEFINE e == EventStart(s, i)
      <4>1. i \in 1..m /\ e \in 0..(i - 1) /\ i - e > max /\ j \in 1..max
        BY <2>1, <2>2
      <4> HIDE DEF e
      <4>2. e + j \in 1..m /\ e + j < i /\ ~(e + j <= e) /\ l + (e + j) = (l + e) + j
        BY <1>0, <4>1
      <4> QED BY <4>2 DEF e
    <3> HIDE DEF p, k
    <3>2. s[p] \in respDoc.ends
      BY <1>1, <2>4, <3>1
    <3>3. p \in ends
      BY <1>3, <3>1, <3>2 DEF ends
    <3> QED BY <1>4, <3>1, <3>3
  <2> HIDE DEF k
  <2> QED BY <1>5, <2>2, <2>3, <2>4
<1>9. ASSUME HasLongEvent(both) PROVE EventTooLarge(s)
  <2>1. max > 0
    BY <1>5, <1>9
  <2>2. PICK k \in 0..(l + m - max - 1) : \A i \in 1..max : both[k + i] \notin respDoc.ends
    <3>1. PICK k \in 0..(Len(both) - max - 1) : \A i \in 1..max : both[k + i] \notin respDoc.ends
      BY <1>5, <1>9
    <3>2. Len(both) = l + m
      BY <1>1
    <3>3. k \in 0..(l + m - max - 1)
      BY <1>0, <3>1, <3>2
    <3> QED BY <3>1, <3>3
  <2>3. CASE k < l
    <3>1. l # 0 /\ both[l] \in respDoc.ends
      <4>1. l \in 1..l
        BY <1>1, <2>2, <2>3
      <4> QED BY <1>1, <1>2, <4>1
    <3>2. ASSUME l <= k + max PROVE FALSE
      <4>1. l - k \in 1..max /\ k + (l - k) = l
        BY <1>1, <2>2, <2>3, <3>2
      <4> QED BY <2>2, <3>1, <4>1
    <3>3. k \in 0..(l - max - 1)
      BY <1>1, <2>1, <2>2, <3>2
    <3>4. ASSUME NEW i \in 1..max PROVE o[k + i] \notin respDoc.ends
      <4>1. k + i \in 1..l
        BY <1>1, <2>1, <3>3
      <4> QED BY <1>1, <2>2, <4>1
    <3> QED BY <1>6, <2>1, <3>3, <3>4
  <2>4. CASE l <= k
    <3> DEFINE b == k - l
               later == {j \in ends : b < j}
    <3>1. b \in Nat /\ b + max < m /\ b < m /\ m # 0
      <4>1. k \in 0..(l + m - max - 1)
        BY <2>2
      <4> QED BY <1>0, <2>1, <2>4, <4>1
    <3>2. m \in later
      BY <1>3, <3>1 DEF ends
    <3>3. later \in SUBSET Nat /\ later # {}
      <4>1. ends \subseteq 1..m
        BY <1>3 DEF ends
      <4>2. 1..m \subseteq Nat
        BY <1>0
      <4>3. later \subseteq ends
        OBVIOUS
      <4> HIDE DEF later
      <4> QED BY <3>2, <4>1, <4>2, <4>3
    <3> HIDE DEF later
    <3>4. PICK i \in later : \A j \in later : i <= j
      BY <3>3, LeastOf
    <3> USE DEF later
    <3>5. i \in ends /\ b < i /\ i \in 1..m
      BY <1>3, <3>4 DEF ends
    <3>6. ASSUME i <= b + max PROVE FALSE
      <4>1. i - b \in 1..max /\ k + (i - b) = l + i /\ i # m
        <5>1. k \in 0..(l + m - max - 1) /\ i \in 1..m /\ b < i
          BY <2>2, <3>5
        <5> QED BY <1>0, <2>1, <2>4, <3>1, <3>6, <5>1
      <4>2. s[i] \notin respDoc.ends
        <5>1. both[k + (i - b)] \notin respDoc.ends
          BY <2>2, <4>1
        <5>2. both[l + i] = s[i]
          BY <1>1, <3>5
        <5> QED BY <4>1, <5>1, <5>2
      <4> QED BY <1>3, <3>5, <4>1, <4>2 DEF ends
    <3>7. EventStart(s, i) <= b
      <4>1. EventStart(s, i) \in 0..(i - 1) /\ (EventStart(s, i) = 0 \/ EventStart(s, i) \in ends)
        BY <1>4, <3>5
      <4>2. ASSUME b < EventStart(s, i) PROVE FALSE
        <5>1. EventStart(s, i) \in later /\ EventStart(s, i) < i
          BY <3>1, <3>5, <4>1, <4>2
        <5> QED BY <3>4, <3>5, <4>1, <5>1
      <4> QED BY <3>1, <4>1, <4>2
    <3>8. i - EventStart(s, i) > max
      <4> DEFINE e == EventStart(s, i)
      <4>1. e \in 0..(i - 1) /\ e <= b /\ i \in 1..m
        BY <1>4, <3>5, <3>7
      <4> HIDE DEF b, e
      <4>2. i - e > max
        BY <1>0, <3>1, <3>6, <4>1
      <4> QED BY <4>2 DEF e
    <3> QED BY <1>7, <2>1, <3>5, <3>8
  <2> QED BY <1>1, <2>2, <2>3, <2>4
<1> QED BY <1>8, <1>9 DEF both

(* What a beginning of the answer holds, the answer holds.                 *)
LEMMA LongEventStays ==
  ASSUME NEW o \in Seq(Nat), NEW s \in Seq(Nat), HasLongEvent(o)
  PROVE  HasLongEvent(o \o s)
<1> DEFINE l == Len(o)
           both == o \o s
           max == MaxBodySize
<1>1. l \in Nat /\ Len(both) \in Nat /\ l <= Len(both) /\ \A i \in 1..l : both[i] = o[i]
  <2>1. Len(s) \in Nat /\ l \in Nat
    BY LenProperties
  <2>2. Len(both) = l + Len(s)
        /\ \A i \in 1..(l + Len(s)) : both[i] = IF i <= l THEN o[i] ELSE s[i - l]
    BY ConcatProperties
  <2> HIDE DEF both, l
  <2> QED BY <2>1, <2>2
<1>2. max > 0 /\ max \in Int
  BY BoundAssumption DEF HasLongEvent
<1>3. PICK k \in 0..(l - max - 1) : \A i \in 1..max : o[k + i] \notin respDoc.ends
  BY DEF HasLongEvent
<1> HIDE DEF l, both, max
<1>4. k \in 0..(Len(both) - max - 1)
  BY <1>1, <1>2, <1>3
<1>5. ASSUME NEW i \in 1..max PROVE both[k + i] \notin respDoc.ends
  <2>1. k + i \in 1..l
    BY <1>1, <1>2, <1>3
  <2> QED BY <1>1, <1>3, <2>1
<1>6. max > 0 /\ \E j \in 0..(Len(both) - max - 1) :
        \A i \in 1..max : both[j + i] \notin respDoc.ends
  BY <1>2, <1>4, <1>5
<1> QED BY <1>6 DEF HasLongEvent, max, both

(* A stream begins with nothing in the decoder.                            *)
LEMMA InitEvents == Init => EventsWithinCap
BY DEF Init, EventsWithinCap

(* Before the first chunk nothing is too long.                             *)
LEMMA NothingIsLong == ~HasLongEvent(<< >>)
<1>1. Len(<< >>) = 0
  OBVIOUS
<1>2. MaxBodySize > 0 => 0..(0 - MaxBodySize - 1) = {}
  BY BoundAssumption
<1> QED BY <1>1, <1>2 DEF HasLongEvent

(* A step that leaves the answer alone.                                    *)
LEMMA EventsKept ==
  ASSUME EventsWithinCap, respDoc' = respDoc, respIn' = respIn, respOut' = respOut,
         sseDec' = sseDec, responseAborted' = responseAborted,
         respPhase' \in {respPhase, "done"}
  PROVE  /\ EventsWithinCap'
         /\ sseDec /\ ~responseAborted => (~sseDec' <=> HasLongEvent(respIn'))
BY DEF EventsWithinCap, HasLongEvent

(* A chunk of events: Write fails if and only if the stream holds an event *)
(* that is too long, and otherwise releases it up to the end of an event   *)
(* (server.go:645-688).                                                    *)
LEMMA EventsStep ==
  ASSUME IInv, EventsWithinCap, NEW n \in Nat, NEW eos \in BOOLEAN,
         SSESilenced(n, eos) \/ SSEOversize(n, eos) \/ SSEBlock(n, eos) \/ SSEEmit(n, eos)
  PROVE  /\ EventsWithinCap'
         /\ sseDec /\ ~responseAborted => (~sseDec' <=> HasLongEvent(respIn'))
<1> DEFINE c == Chunk(respIn, n)
           s == ssePending \o c
<1>1. ReceiveEvents(n, eos)
  BY DEF SSESilenced, SSEOversize, SSEBlock, SSEEmit
<1>2. ReceiveResponseBody(n, eos) /\ sseDec
  BY <1>1 DEF ReceiveEvents
<1>3. /\ respPhase = "body" /\ respDoc' = respDoc
      /\ respPhase' = IF eos THEN "done" ELSE "body"
  BY <1>2, ResponseBodyArrives, ResponseBodyCommon
<1>4. CASE responseAborted
  <2>1. SSESilenced(n, eos)
    BY <1>4 DEF SSESilenced, SSEOversize, SSEBlock, SSEEmit
  <2> QED BY <1>4, <2>1 DEF SSESilenced, EventsWithinCap
<1>5. CASE ~responseAborted
  <2>1. /\ s \in Seq(Nat) /\ respOut \in Seq(Nat)
        /\ respIn' = respOut \o s
        /\ respGate = "open"
    BY <1>1, <1>5, EventsScanned
  <2>2. respIn = respOut \o ssePending /\ ssePending \in Seq(Nat)
    BY <1>2, <2>1 DEF IInv, ResponseInv, TypeOK, ResponseTypeOK
  <2>3. ~HasLongEvent(respOut)
    <3>1. HasLongEvent(respOut) => HasLongEvent(respOut \o ssePending)
      BY <2>1, <2>2, LongEventStays
    <3> QED BY <1>2, <1>5, <2>2, <3>1 DEF EventsWithinCap
  <2>4. respOut = << >> \/ Last(respOut) \in respDoc.ends
    BY <1>2, <1>3, <1>5 DEF EventsWithinCap
  <2> HIDE DEF s
  <2>5. EventTooLarge(s) <=> HasLongEvent(respIn')
    <3>1. EventTooLarge(s) <=> HasLongEvent(respOut \o s)
      BY <2>1, <2>3, <2>4, ScanFindsLongEvents
    <3> QED BY <2>1, <3>1
  <2>6. HasLongEvent(respIn') <=> HasLongEvent(respIn)'
    BY <1>3 DEF HasLongEvent
  <2>7. CASE SSEOversize(n, eos)
    BY <2>5, <2>7 DEF SSEOversize, EventsWithinCap, s
  <2>8. CASE SSEBlock(n, eos)
    BY <1>2, <2>5, <2>8 DEF SSEBlock, EventsWithinCap, s
  <2>9. CASE SSEEmit(n, eos)
    <3>1. ~EventTooLarge(s) /\ sseDec' = sseDec /\ responseAborted' = responseAborted
      BY <2>9 DEF SSEEmit, s
    <3>2. PICK k \in 0..Len(s) :
            k = Max({0} \cup EventEnds(s, eos)) /\ respOut' = respOut \o SubSeq(s, 1, k)
      BY <2>9 DEF SSEEmit, ReleaseResponse, s
    <3>3. ASSUME ~eos PROVE respOut' = << >> \/ Last(respOut') \in respDoc.ends
      <4>1. Len(s) \in Nat /\ Len(respOut) \in Nat
        BY <2>1, LenProperties
      <4>2. {0} \cup EventEnds(s, eos) \subseteq 0..Len(s)
        BY <4>1 DEF EventEnds
      <4>3. k \in {0} \cup EventEnds(s, eos)
        BY <3>2, <4>1, <4>2, MaxOfBounded
      <4> DEFINE a == SubSeq(s, 1, k)
      <4>4. a \in Seq(Nat) /\ Len(a) = k
        BY <2>1, SplitAt
      <4>5. CASE k = 0
        <5>1. a = << >>
          BY <4>4, <4>5, EmptySeq
        <5> HIDE DEF a
        <5>2. respOut \o a = respOut
          BY <2>1, <5>1, ConcatEmptySeq
        <5> QED BY <2>4, <3>2, <5>2, <1>3 DEF a
      <4>6. CASE k \in EventEnds(s, eos)
        <5>1. k \in 1..Len(s) /\ s[k] \in respDoc.ends
          BY <3>3, <4>6 DEF EventEnds
        <5>2. a[k] = s[k]
          <6>1. \A i \in 1..(k - 0) : SubSeq(s, 0 + 1, k)[i] = s[0 + i]
            BY <2>1, <4>1, <5>1, StretchOf
          <6> QED BY <4>1, <5>1, <6>1
        <5>3. respOut' = respOut \o a
          BY <3>2
        <5> HIDE DEF a
        <5>4. Len(respOut') = Len(respOut) + k
          BY <2>1, <4>4, <5>3, ConcatProperties
        <5>5. respOut'[Len(respOut) + k] = a[k]
          <6>1. /\ Len(respOut) + k \in 1..(Len(respOut) + k)
                /\ ~(Len(respOut) + k <= Len(respOut))
                /\ (Len(respOut) + k) - Len(respOut) = k
            BY <4>1, <5>1
          <6> QED BY <2>1, <4>4, <5>3, <6>1, ConcatProperties
        <5> QED BY <5>1, <5>2, <5>4, <5>5 DEF Last
      <4> QED BY <4>3, <4>5, <4>6
    <3>4. ~HasLongEvent(respIn)'
      BY <2>5, <2>6, <3>1
    <3> QED BY <1>2, <1>3, <2>5, <3>1, <3>3, <3>4 DEF EventsWithinCap
  <2> QED BY <1>5, <2>7, <2>8, <2>9 DEF SSESilenced
<1> QED BY <1>4, <1>5

(* Every message keeps what is known of the events.                        *)
LEMMA NextEvents ==
  ASSUME IInv, EventsWithinCap, [Next]_vars
  PROVE  /\ EventsWithinCap'
         /\ sseDec /\ ~responseAborted => (~sseDec' <=> HasLongEvent(respIn'))
<1>1. CASE SomeResponseBody
  <2>1. Size(respDoc.body) \in Nat
    BY RespDocType, SizeIsNat
  <2>2. PICK n \in 0..Size(respDoc.body), eos \in BOOLEAN : ResponseBody(n, eos)
    BY <1>1 DEF SomeResponseBody
  <2>3. n \in Nat
    BY <2>1
  <2>4. CASE SSESilenced(n, eos) \/ SSEOversize(n, eos) \/ SSEBlock(n, eos) \/ SSEEmit(n, eos)
    BY <2>3, <2>4, EventsStep
  <2>5. CASE \E path \in Paths : ReceivePlainResponseBody(n, eos, path)
    BY <2>5 DEF ReceivePlainResponseBody, EventsWithinCap, sseState
  <2> QED BY <2>2, <2>4, <2>5
          DEF ResponseBody, ResponsePassThrough, ResponseSilenced, ResponseOversize,
              ResponseHold, ResponseBlock, ResponseEmit, AssembleResponse, Paths
<1>2. CASE \E eos \in BOOLEAN : ResponseHeaders(eos)
  <2>1. respPhase = "headers" /\ respIn' = respIn /\ respOut' = respOut
    BY <1>2 DEF ResponseHeaders
  <2>2. ~sseDec
    BY <2>1 DEF IInv, ResponseInv
  <2>3. respIn = << >> /\ respOut = << >>
    BY <2>1 DEF IInv, ResponseInv
  <2>4. ~HasLongEvent(respIn)'
    <3>1. respIn' = << >> /\ respDoc' = respDoc
      BY <1>2, <2>1, <2>3 DEF ResponseHeaders, docs
    <3> QED BY <3>1, NothingIsLong DEF HasLongEvent
  <2> QED BY <2>1, <2>2, <2>3, <2>4 DEF EventsWithinCap
<1>3. CASE SomeRequestBody
  <2>1. PICK n \in 0..Size(reqDoc), eos \in BOOLEAN : RequestBody(n, eos)
    BY <1>3 DEF SomeRequestBody
  <2>2. responseSideVars' = responseSideVars /\ docs' = docs
    BY <2>1 DEF RequestBody, RequestPassThrough, RequestSilenced, RequestOversize,
         RequestHold, RequestNoParser, RequestBlock, RequestEmit, AssembleRequest,
         ReceiveRequestBody
  <2> QED BY <2>2, EventsKept DEF responseSideVars, docs, respState, sseState, respView
<1>4. CASE \E md \in Sources, hdr \in Sources, eos \in BOOLEAN : RequestHeaders(md, hdr, eos)
  <2>1. responseSideVars' = responseSideVars /\ docs' = docs
    BY <1>4 DEF RequestHeaders
  <2> QED BY <2>1, EventsKept DEF responseSideVars, docs, respState, sseState, respView
<1>5. CASE RequestTrailers \/ Close \/ UNCHANGED vars
  <2>1. responseSideVars' = responseSideVars /\ docs' = docs
    BY <1>5 DEF RequestTrailers, Close, vars, responseSideVars
  <2> QED BY <2>1, EventsKept DEF responseSideVars, docs, respState, sseState, respView
<1>6. CASE ResponseTrailers
  <2>1. /\ respDoc' = respDoc /\ respIn' = respIn /\ sseDec' = sseDec
        /\ responseAborted' = responseAborted /\ respPhase' = "done"
    BY <1>6 DEF ResponseTrailers, docs, respState, sseState
  <2> QED BY <2>1 DEF EventsWithinCap, HasLongEvent
<1> QED BY <1>1, <1>2, <1>3, <1>4, <1>5, <1>6 DEF Next

(* An answer inspected by events is broken off as too large when an event  *)
(* of it has outgrown the cap, and for nothing else, whatever the cap, the *)
(* events and their cuts (server.go:658-661, 764-781, decoder.go:72 and 96). *)
THEOREM OversizeHolds == Spec => OversizeIsAnEvent
<1>1. IInv /\ EventsWithinCap /\ [Next]_vars => EventsWithinCap'
  BY NextEvents
<1>2. IInv /\ EventsWithinCap /\ [Next]_vars =>
        [sseDec /\ ~responseAborted => (~sseDec' <=> HasLongEvent(respIn'))]_vars
  BY NextEvents
<1>3. Init /\ []IInv /\ [][Next]_vars => []EventsWithinCap
  BY <1>1, InitEvents, PTL
<1> QED BY <1>2, <1>3, InvariantHolds, PTL DEF Spec, OversizeIsAnEvent

-----------------------------------------------------------------------------
(* The events of a stretch of the body.                                    *)

(* Scanning the bytes behind position o, where an event ends, finds the    *)
(* events of the whole body.                                               *)
LEMMA EventOfTheBody ==
  ASSUME IInv, NEW o \in Nat, NEW s \in Seq(Nat), NEW flush \in BOOLEAN,
         \A i \in 1..Len(s) : s[i] = o + i,
         o + Len(s) <= Size(respDoc.body),
         flush => o + Len(s) = Size(respDoc.body),
         o = 0 \/ o \in respDoc.ends,
         NEW j \in EventEnds(s, flush)
  PROVE  /\ o + j \in EventEnds(Whole(respDoc.body), TRUE)
         /\ EventAt(Whole(respDoc.body), o + j) = EventAt(s, j)
<1> DEFINE n == Size(respDoc.body)
           b == Whole(respDoc.body)
           l == Len(s)
           e == EventStart(s, j)
<1>1. n \in Nat /\ l \in Nat
  BY RespDocType, SizeIsNat, LenProperties
<1>2. b \in Seq(Nat) /\ Len(b) = n /\ \A i \in 1..n : b[i] = i
  BY <1>1 DEF Whole
<1>3. j \in 1..l /\ j \in EventEnds(s, TRUE)
  BY DEF EventEnds
<1>4. e \in 0..(j - 1) /\ (e = 0 \/ e \in EventEnds(s, TRUE))
  BY <1>3, EventProperties
<1>5. \A i \in EventEnds(s, TRUE) : i < j => i <= e
  <2> DEFINE earlier == {0} \cup {i \in EventEnds(s, TRUE) : i < j}
  <2>1. e = Max(earlier)
    BY DEF EventStart
  <2> HIDE DEF e, l, n, b
  <2>2. earlier \subseteq 0..j /\ earlier # {} /\ j \in Nat
    <3>1. j \in Nat /\ 0 \in 0..j
      BY <1>1, <1>3
    <3>2. \A i \in EventEnds(s, TRUE) : i \in 1..l
      BY DEF EventEnds, l
    <3>3. \A i \in 1..l : i < j => i \in 0..j
      BY <1>1, <3>1
    <3> QED BY <3>1, <3>2, <3>3
  <2> HIDE DEF earlier
  <2>3. \A i \in earlier : i <= e
    BY <2>1, <2>2, MaxOfBounded
  <2> QED BY <2>3 DEF earlier
<1>0. /\ o + l <= n /\ (flush => o + l = n)
      /\ \A i \in 1..l : s[i] = o + i
  OBVIOUS
<1>b. \A i \in EventEnds(s, TRUE) : i # l => i \in 1..l /\ s[i] \in respDoc.ends
  BY DEF EventEnds
<1> HIDE DEF n, b, l, e
<1>c. \A i \in 1..l : o + i \in 1..n
  BY <1>1, <1>0
<1>d. \A i \in 1..l : b[o + i] = o + i
  BY <1>2, <1>c
<1>6. o + j \in EventEnds(b, TRUE)
  <2>1. o + j \in 1..n /\ b[o + j] = o + j /\ s[j] = o + j
    BY <1>3, <1>0, <1>c, <1>d
  <2>2. s[j] \in respDoc.ends \/ (flush /\ j = l)
    BY DEF EventEnds, l
  <2>3. b[o + j] \in respDoc.ends \/ o + j = Len(b)
    BY <1>2, <1>0, <2>1, <2>2
  <2> QED BY <1>2, <2>1, <2>3 DEF EventEnds
<1>7. EventStart(b, o + j) = o + e
  <2> DEFINE earlier == {0} \cup {i \in EventEnds(b, TRUE) : i < o + j}
  <2>1. earlier \subseteq 0..n
    BY <1>1, <1>2 DEF EventEnds
  <2>2. o + e \in earlier
    <3>1. CASE e = 0
      <4>1. CASE o = 0
        BY <3>1, <4>1
      <4>2. CASE o # 0
        <5>0. o \in 1..n /\ o < o + j
          BY <1>1, <1>3, <1>0, <4>2
        <5>1. o \in 1..n /\ o < o + j /\ b[o] = o
          BY <1>2, <5>0
        <5>2. o \in EventEnds(b, TRUE)
          BY <1>2, <4>2, <5>1 DEF EventEnds
        <5>3. o + e = o
          BY <3>1
        <5> QED BY <5>1, <5>2, <5>3
      <4> QED BY <4>1, <4>2
    <3>2. CASE e # 0
      <4>1. e \in 1..l /\ e < j /\ e # l /\ e \in EventEnds(s, TRUE)
        <5>1. e \in 1..l /\ e < j /\ e # l
          BY <1>1, <1>3, <1>4, <3>2
        <5> QED BY <1>4, <3>2, <5>1
      <4>2. s[e] \in respDoc.ends /\ s[e] = o + e
        BY <1>0, <1>b, <4>1
      <4>3. o + e \in 1..n /\ o + e < o + j /\ b[o + e] = o + e
        <5>1. o + e < o + j
          BY <1>1, <1>3, <4>1
        <5> QED BY <1>c, <1>d, <4>1, <5>1
      <4> QED BY <1>2, <4>2, <4>3 DEF EventEnds
    <3> QED BY <3>1, <3>2
  <2>3. \A i \in earlier : i <= o + e
    <3> SUFFICES ASSUME NEW i \in earlier, ~(i <= o + e) PROVE FALSE
      OBVIOUS
    <3>0. i > o + e
      BY <1>1, <1>3, <1>4, <2>1
    <3>1. i \in EventEnds(b, TRUE) /\ i < o + j /\ i \in 1..n
      BY <1>2, <1>4, <3>0 DEF EventEnds
    <3>2. b[i] = i /\ i # n
      <4>1. i # n
        BY <1>1, <1>3, <1>0, <3>1
      <4> QED BY <1>2, <3>1, <4>1
    <3>3. i \in respDoc.ends
      BY <1>2, <3>1, <3>2 DEF EventEnds
    <3>4. i - o \in 1..l /\ i - o < j /\ s[i - o] = i
      <4>1. i - o \in 1..l /\ i - o < j /\ o + (i - o) = i
        BY <1>1, <1>3, <1>4, <3>0, <3>1
      <4> QED BY <1>0, <4>1
    <3>5. i - o \in EventEnds(s, TRUE)
      BY <3>3, <3>4 DEF EventEnds, l
    <3>6. i - o <= e
      BY <1>5, <3>4, <3>5
    <3>7. e \in Nat /\ i \in Nat
      BY <1>1, <1>3, <1>4, <3>1
    <3> QED BY <3>0, <3>6, <3>7
  <2>4. EventStart(b, o + j) = Max(earlier)
    BY DEF EventStart
  <2> HIDE DEF earlier
  <2> QED BY <1>1, <2>1, <2>2, <2>3, <2>4, MaxIs
<1>8. SubSeq(b, o + e + 1, o + j) = SubSeq(s, e + 1, j)
  <2> DEFINE x == SubSeq(b, o + e + 1, o + j)
             y == SubSeq(s, e + 1, j)
  <2>1. /\ e \in Nat /\ j \in Nat /\ e <= j /\ j <= l
        /\ o + e \in Nat /\ o + j \in Nat /\ o + e <= o + j /\ o + j <= n
    BY <1>1, <1>3, <1>4, <1>0
  <2>2. \A i \in 1..(j - e) : e + i \in 1..l /\ o + (e + i) = o + e + i /\ o + e + i \in 1..n
    BY <1>1, <1>0, <2>1
  <2>3. /\ x \in Seq(Nat) /\ Len(x) = j - e
        /\ \A i \in 1..(j - e) : x[i] = o + e + i
    <3> DEFINE f == o + e
               h == o + j
    <3>1. f \in Nat /\ h \in Nat /\ f <= h /\ h <= Len(b) /\ h - f = j - e
      BY <1>2, <2>1
    <3>2. \A i \in 1..(j - e) : b[f + i] = o + e + i
      BY <1>2, <2>2
    <3> HIDE DEF f, h, x
    <3>3. /\ SubSeq(b, f + 1, h) \in Seq(Nat) /\ Len(SubSeq(b, f + 1, h)) = h - f
          /\ \A i \in 1..(h - f) : SubSeq(b, f + 1, h)[i] = b[f + i]
      BY <1>2, <3>1, StretchOf
    <3>4. x = SubSeq(b, f + 1, h)
      BY DEF x, f, h
    <3> QED BY <3>1, <3>2, <3>3, <3>4
  <2>4. /\ y \in Seq(Nat) /\ Len(y) = j - e
        /\ \A i \in 1..(j - e) : y[i] = o + e + i
    <3>1. /\ y \in Seq(Nat) /\ Len(y) = j - e
          /\ \A i \in 1..(j - e) : y[i] = s[e + i]
      BY <2>1, StretchOf DEF l
    <3>2. \A i \in 1..(j - e) : s[e + i] = o + e + i
      BY <1>0, <2>2
    <3> QED BY <3>1, <3>2
  <2> HIDE DEF x, y
  <2>5. x = y
    BY <2>3, <2>4, SeqEqual
  <2> QED BY <2>5 DEF x, y
<1> QED BY <1>6, <1>7, <1>8 DEF EventAt, b, e

(* Every byte up to the end of an event lies in one of the events.         *)
LEMMA PositionInEvent ==
  ASSUME NEW s \in Seq(Nat), NEW flush \in BOOLEAN, NEW k \in EventEnds(s, flush),
         NEW i \in 1..k
  PROVE  \E j \in EventEnds(s, flush) : j <= k /\ s[i] \in ToSet(EventAt(s, j))
<1>1. Len(s) \in Nat /\ k \in 1..Len(s) /\ i \in 1..Len(s)
  BY LenProperties DEF EventEnds
<1> DEFINE behind == {j \in EventEnds(s, flush) : i <= j}
<1>2. behind \in SUBSET Nat /\ k \in behind
  BY <1>1 DEF EventEnds
<1> HIDE DEF behind
<1>3. PICK j \in behind : \A x \in behind : j <= x
  BY <1>2, LeastOf
<1>4. j \in EventEnds(s, flush) /\ i <= j /\ j <= k
  BY <1>2, <1>3 DEF behind
<1>5. j \in EventEnds(s, TRUE) /\ j \in 1..Len(s)
  BY <1>4 DEF EventEnds
<1> DEFINE e == EventStart(s, j)
<1>6. e \in 0..(j - 1) /\ (e = 0 \/ e \in EventEnds(s, TRUE))
  BY <1>5, EventProperties
<1> HIDE DEF e
<1>7. e < i
  <2> SUFFICES ASSUME e >= i PROVE FALSE
    BY <1>1, <1>6
  <2>a. e # 0 /\ e # Len(s)
    BY <1>1, <1>5, <1>6
  <2>1. e \in EventEnds(s, TRUE) /\ e # Len(s)
    BY <1>6, <2>a
  <2>2. e \in behind
    BY <1>6, <2>1 DEF EventEnds, behind
  <2> QED BY <1>1, <1>3, <1>5, <1>6, <2>2
<1> DEFINE y == SubSeq(s, e + 1, j)
<1>8. y \in Seq(Nat) /\ Len(y) = j - e /\ \A x \in 1..(j - e) : y[x] = s[e + x]
  <2>1. e \in Nat /\ j \in Nat /\ e <= j /\ j <= Len(s)
    BY <1>1, <1>5, <1>6
  <2> QED BY <2>1, StretchOf
<1> HIDE DEF y
<1>9. i - e \in 1..(j - e) /\ y[i - e] = s[i]
  <2>1. i - e \in 1..(j - e) /\ e + (i - e) = i
    BY <1>1, <1>4, <1>5, <1>6, <1>7
  <2>2. y[i - e] = s[e + (i - e)]
    BY <1>8, <2>1
  <2> QED BY <2>1, <2>2
<1>10. s[i] \in ToSet(y)
  BY <1>8, <1>9 DEF ToSet
<1> QED BY <1>4, <1>10 DEF EventAt, y, e

-----------------------------------------------------------------------------
(* What inspection makes of them.                                          *)

(* No text of the answer has request metadata: the paths never meet.       *)
LEMMA NothingRestorable ==
  ASSUME IInv, NEW texts
  PROVE  Restorable(texts) = {}
<1>1. requestMetadata \subseteq ({"params.arguments"} \X Nat)
  BY DEF IInv, TypeOK, StreamTypeOK
<1>2. "result.content" # "params.arguments"
  OBVIOUS
<1>3. ASSUME NEW p \in texts, <<"result.content", p>> \in requestMetadata PROVE FALSE
  BY <1>1, <1>2, <1>3
<1> QED BY <1>3 DEF Restorable, ResponseTextPath

(* Inspecting some bytes of a document that parse on their own leaves none *)
(* of them with a text to mask or refuse.                                  *)
LEMMA InspectedIsClean ==
  ASSUME NEW doc, NEW bytes, bytes \in doc.parses, config.provider = "presidio-api",
         Refused(doc, TextsToInspect(doc, bytes), {}) = {}
  PROVE  Clean(doc, bytes, Rewritten(doc, TextsToInspect(doc, bytes)))
<1> DEFINE texts == TextsToInspect(doc, bytes)
<1>1. texts = {p \in ToSet(bytes) : doc.policy[p] # "none"}
  BY DEF TextsToInspect, ProviderCreated
<1>2. \A p \in texts : doc.policy[p] # "block"
  BY DEF Refused
<1> HIDE DEF texts
<1>3. \A p \in ToSet(bytes) :
        /\ doc.policy[p] # "block"
        /\ doc.policy[p] = "mask" => p \in texts
  BY <1>1, <1>2
<1> QED BY <1>3 DEF Clean, Rewritten, texts

(* What is clean stays clean when more is masked or sent behind it.        *)
LEMMA CleanJoined ==
  ASSUME NEW doc, NEW a \in Seq(Nat), NEW b \in Seq(Nat), NEW m, NEW w, m \subseteq w,
         Clean(doc, a, m), Clean(doc, b, w)
  PROVE  Clean(doc, a \o b, w)
<1>1. ToSet(a \o b) \subseteq ToSet(a) \cup ToSet(b)
  <2> SUFFICES ASSUME NEW i \in 1..Len(a \o b)
               PROVE  (a \o b)[i] \in ToSet(a) \cup ToSet(b)
    BY DEF ToSet
  <2>1. /\ Len(a \o b) = Len(a) + Len(b) /\ Len(a) \in Nat /\ Len(b) \in Nat
        /\ (a \o b)[i] = IF i <= Len(a) THEN a[i] ELSE b[i - Len(a)]
    BY ConcatProperties, LenProperties
  <2>2. CASE i <= Len(a)
    BY <2>1, <2>2 DEF ToSet
  <2>3. CASE ~(i <= Len(a))
    <3>1. i - Len(a) \in 1..Len(b)
      BY <2>1, <2>3
    <3> QED BY <2>1, <2>3, <3>1 DEF ToSet
  <2> QED BY <2>2, <2>3
<1> QED BY <1>1 DEF Clean

(* The events released up to position k of the bytes scanned are clean     *)
(* (processSSEEvent, server.go:692-750).                                   *)
LEMMA ReleasedEventsAreClean ==
  ASSUME IInv, ResponseToInspect, respDoc.sse,
         NEW o \in Nat, NEW s \in Seq(Nat), NEW flush \in BOOLEAN,
         \A i \in 1..Len(s) : s[i] = o + i,
         o + Len(s) <= Size(respDoc.body),
         flush => o + Len(s) = Size(respDoc.body),
         o = 0 \/ o \in respDoc.ends,
         NEW k \in 0..Len(s), k = 0 \/ k \in EventEnds(s, flush),
         NEW released \in SUBSET EventEnds(s, flush),
         \A j \in EventEnds(s, flush) : j <= k => j \in released,
         \A j \in released : ~EventRefused(s, j, {}),
         MaskEvents(s, released)
  PROVE  /\ Clean(respDoc.body, SubSeq(s, 1, k), respMasked' \cup respRestored')
         /\ respMasked \cup respRestored \subseteq respMasked' \cup respRestored'
<1>1. /\ respDoc.body.patchable /\ config.provider = "presidio-api"
      /\ \A i \in EventEnds(Whole(respDoc.body), TRUE) :
           EventAt(Whole(respDoc.body), i) \in respDoc.body.parses
  BY DEF ResponseToInspect, InspectableResponse
<1> DEFINE masked(j) == Rewritten(respDoc.body, FreshEventTexts(s, j))
<1>2. /\ respMasked' = respMasked \cup UNION {masked(j) : j \in released}
      /\ respRestored \subseteq respRestored'
  BY <1>1 DEF MaskEvents
<1>3. ASSUME NEW j \in released
      PROVE  Clean(respDoc.body, EventAt(s, j), masked(j))
  <2>0. /\ o + j \in EventEnds(Whole(respDoc.body), TRUE)
        /\ EventAt(Whole(respDoc.body), o + j) = EventAt(s, j)
    BY EventOfTheBody
  <2>1. EventAt(s, j) \in respDoc.body.parses
    BY <1>1, <2>0
  <2>2. FreshEventTexts(s, j) = TextsToInspect(respDoc.body, EventAt(s, j))
    BY NothingRestorable DEF FreshEventTexts, EventTexts
  <2>3. Refused(respDoc.body, TextsToInspect(respDoc.body, EventAt(s, j)), {}) = {}
    BY <2>2 DEF EventRefused
  <2> QED BY <1>1, <2>1, <2>2, <2>3, InspectedIsClean
<1>4. \A j \in released : masked(j) \subseteq respMasked'
  BY <1>2
<1> HIDE DEF masked
<1>5. ASSUME NEW p \in ToSet(SubSeq(s, 1, k))
      PROVE  /\ respDoc.body.policy[p] # "block"
             /\ respDoc.body.policy[p] = "mask" => p \in respMasked'
  <2> DEFINE a == SubSeq(s, 1, k)
  <2>1. Len(a) = k /\ k \in Nat /\ k <= Len(s) /\ \A i \in 1..k : a[i] = s[i]
    <3>1. k \in Nat /\ 0 \in Nat /\ 0 <= k /\ k <= Len(s) /\ Len(s) \in Nat
      BY LenProperties
    <3>2. /\ Len(SubSeq(s, 0 + 1, k)) = k - 0
          /\ \A i \in 1..(k - 0) : SubSeq(s, 0 + 1, k)[i] = s[0 + i]
      BY <3>1, StretchOf
    <3> QED BY <3>1, <3>2
  <2>2. p \in ToSet(a)
    BY <1>5
  <2> HIDE DEF a
  <2>3. PICK i \in 1..k : p = s[i]
    BY <2>1, <2>2 DEF ToSet
  <2>4. k \in EventEnds(s, flush)
    BY <2>1, <2>3
  <2>5. PICK j \in EventEnds(s, flush) : j <= k /\ s[i] \in ToSet(EventAt(s, j))
    BY <2>4, PositionInEvent
  <2>6. j \in released
    BY <2>5
  <2>7. Clean(respDoc.body, EventAt(s, j), masked(j)) /\ masked(j) \subseteq respMasked'
    BY <1>3, <1>4, <2>6
  <2> QED BY <2>3, <2>5, <2>7 DEF Clean
<1>6. Clean(respDoc.body, SubSeq(s, 1, k), respMasked' \cup respRestored')
  BY <1>5 DEF Clean
<1> QED BY <1>2, <1>6

-----------------------------------------------------------------------------
(* Each message keeps the invariant.                                       *)

(* What is owed to the answer depends on the documents, the configuration  *)
(* and the parser.                                                         *)
LEMMA OwedKept ==
  ASSUME docs' = docs, config' = config
  PROVE  /\ ResponseToInspect' <=> ResponseToInspect
         /\ parser' = parser => (InspectionOwed' <=> InspectionOwed)
<1>1. reqDoc' = reqDoc /\ respDoc' = respDoc
  BY DEF docs
<1>2. InspectableResponse' <=> InspectableResponse
  BY <1>1 DEF InspectableResponse, Size, Whole, EventEnds, EventAt, EventStart
<1>3. ResponseToInspect' <=> ResponseToInspect
  BY <1>1, <1>2 DEF ResponseToInspect, ModeEnabled, Size, Whole
<1> QED BY <1>3 DEF InspectionOwed, ModeEnabled

(* A stream begins with nothing sent.                                      *)
LEMMA InitAnswer == Init => AnswerInv
<1> SUFFICES ASSUME Init PROVE AnswerInv
  OBVIOUS
<1>1. ParserInv /\ AnswerPathInv
  BY DEF Init, ParserInv, AnswerPathInv
<1>2. EventsInv
  <2>1. respDoc.body \in Docs
    BY DocAssumption DEF Init, Responses
  <2>2. Size(respDoc.body) \in Nat /\ Len(<< >>) = 0 /\ << >> = [i \in 1..0 |-> i]
    BY <2>1, SizeIsNat
  <2> QED BY <2>2 DEF Init, EventsInv
<1>3. PostCallInspectsOnceSniffed
  <2>1. ToSet(respOut) = {}
    BY DEF Init, ToSet
  <2> QED BY <2>1 DEF PostCallInspectsOnceSniffed, PostCallInspects, Clean
<1> QED BY <1>1, <1>2, <1>3 DEF AnswerInv

(* While Envoy has not sent the headers of the answer, the request side may *)
(* do what it likes, if it looks for the parser before it ends.            *)
LEMMA BeforeTheAnswer ==
  ASSUME IInv, AnswerInv, respPhase = "headers",
         responseSideVars' = responseSideVars, respDoc' = respDoc,
         /\ ModeEnabled("pre_call")' /\ reqGate' = "ended"
              /\ Size(reqDoc') > 0 /\ Whole(reqDoc') \in reqDoc'.parses
            => parser' = "mcp"
  PROVE  AnswerInv'
<1>1. /\ respPhase' = "headers" /\ ~sseDec /\ sseDec' = sseDec /\ respOut = << >>
      /\ respOut' = respOut /\ respIn' = respIn
  BY DEF IInv, ResponseInv, responseSideVars, respState, sseState, respView
<1>2. ParserInv'
  BY <1>1 DEF ParserInv
<1>3. AnswerPathInv'
  BY <1>1 DEF AnswerPathInv
<1>4. EventsInv'
  BY <1>1 DEF AnswerInv, EventsInv, Size
<1>5. PostCallInspectsOnceSniffed'
  <2>1. ToSet(respOut') = {}
    BY <1>1 DEF ToSet
  <2> QED BY <2>1 DEF PostCallInspectsOnceSniffed, PostCallInspects, Clean
<1> QED BY <1>2, <1>3, <1>4, <1>5 DEF AnswerInv

(* A request body that pre_call inspection wants ends with the parser found *)
(* (handleRequestBody, server.go:340-356).                                 *)
LEMMA RequestBodyAnswer ==
  ASSUME IInv, IInv', AnswerInv, NEW n \in Nat, NEW eos \in BOOLEAN, RequestBody(n, eos)
  PROVE  AnswerInv'
<1>1. PICK last \in BOOLEAN : ReceiveRequestBody(n, last)
  BY DEF RequestBody, RequestPassThrough, RequestSilenced, RequestOversize, RequestHold,
         RequestNoParser, RequestBlock, RequestEmit, AssembleRequest
<1>2. /\ reqPhase = "body" /\ responseSideVars' = responseSideVars /\ docs' = docs
      /\ config' = config /\ reqDoc' = reqDoc
      /\ reqGate = "open" \/ (reqGate = "rejected" /\ requestAborted)
  BY <1>1, RequestBodyCommon
<1>3. respPhase = "headers" /\ respDoc' = respDoc
  BY <1>2 DEF IInv, TypeOK, ResponseTypeOK, RequestInv, AnswerInv, ParserInv, docs
<1>4. /\ ModeEnabled("pre_call")' /\ reqGate' = "ended"
           /\ Size(reqDoc') > 0 /\ Whole(reqDoc') \in reqDoc'.parses
         => parser' = "mcp"
  <2> SUFFICES ASSUME ModeEnabled("pre_call")', reqGate' = "ended",
                      Size(reqDoc') > 0, Whole(reqDoc') \in reqDoc'.parses
               PROVE  parser' = "mcp"
    OBVIOUS
  <2>1. requestPath' # "pass"
    BY DEF IInv, SniffInv
  <2>2. ~RequestPassThrough(n, eos)
    BY <2>1 DEF RequestPassThrough, DecideRequestPath
  <2>3. ~RequestSilenced(n, eos)
    BY DEF RequestSilenced, ReleaseRequest, IInv, RequestInv
  <2>4. ~RequestOversize(n, eos) /\ ~RequestBlock(n)
    BY DEF RequestOversize, RequestBlock, RejectRequest
  <2>5. ~RequestHold(n)
    BY <1>2 DEF RequestHold, ReleaseRequest
  <2>6. AssembleRequest(n)
    BY <2>2, <2>3, <2>4, <2>5 DEF RequestBody, RequestNoParser, RequestEmit
  <2>7. /\ parser' \in {"none", "mcp"} /\ reqIn' = Whole(reqDoc)
        /\ parser' = "none" => reqIn' = << >> \/ Whole(reqDoc) \notin reqDoc.parses
    BY <2>6, RequestAssembled
  <2>8. reqIn' # << >>
    <3>1. Size(reqDoc) \in Nat /\ Size(reqDoc) > 0
      BY <1>2, ReqDocType, SizeIsNat
    <3>2. Len(reqIn') = Size(reqDoc)
      BY <2>7, <3>1 DEF Whole
    <3> QED BY <3>1, <3>2
  <2> QED BY <1>2, <2>7, <2>8
<1> QED BY <1>2, <1>3, <1>4, BeforeTheAnswer

(* The headers of the request fix the configuration; a body they end is    *)
(* empty.                                                                  *)
LEMMA RequestHeadersAnswer ==
  ASSUME IInv, AnswerInv, NEW md, NEW hdr, NEW eos \in BOOLEAN,
         RequestHeaders(md, hdr, eos)
  PROVE  AnswerInv'
<1>1. /\ reqPhase = "headers" /\ responseSideVars' = responseSideVars
      /\ respDoc' = respDoc /\ reqDoc' = reqDoc
      /\ eos => Size(reqDoc) = 0
      /\ reqGate' = IF eos THEN "ended" ELSE reqGate
  BY DEF RequestHeaders, docs
<1>2. respPhase = "headers" /\ reqGate = "open"
  BY <1>1 DEF IInv, RequestInv
<1>3. reqGate' = "ended" => ~(Size(reqDoc') > 0)
  BY <1>1, <1>2
<1> QED BY <1>1, <1>2, <1>3, BeforeTheAnswer

(* Once the request has ended, inspection is owed only if the parser has   *)
(* been found.                                                             *)
LEMMA OwedWithParser ==
  ASSUME AnswerInv, reqGate = "ended", InspectionOwed
  PROVE  parser = "mcp" /\ respDoc.status = "success" /\ ModeEnabled("post_call")
BY DEF AnswerInv, ParserInv, InspectionOwed, ResponseToInspect, InspectableResponse

(* The headers of the answer install the decoder if inspection is owed     *)
(* (handleResponseHeaders, server.go:213-231).                             *)
LEMMA ResponseHeadersAnswer ==
  ASSUME IInv, AnswerInv, ~EarlyResponse, NEW eos \in BOOLEAN, ResponseHeaders(eos)
  PROVE  AnswerInv'
<1>1. /\ respPhase = "headers" /\ reqGate = "ended"
      /\ requestSideVars' = requestSideVars /\ docs' = docs /\ config' = config
      /\ respDoc' = respDoc /\ reqDoc' = reqDoc /\ parser' = parser /\ reqGate' = reqGate
      /\ skipResponseBody' = (respDoc.status = "failure")
      /\ sseDec' = (respDoc.sse /\ ModeEnabled("post_call") /\ parser # "none"
                     /\ ~skipResponseBody')
      /\ ssePending' = ssePending /\ responsePath' = responsePath
      /\ respIn' = respIn /\ respOut' = respOut
  BY DEF ResponseHeaders, requestSideVars, sniffVars, reqView, docs, respState
<1>2. /\ responsePath = "unset" /\ ~sseDec /\ ~responseAborted
      /\ respIn = << >> /\ respOut = << >> /\ ssePending = << >>
  BY <1>1 DEF IInv, ResponseInv
<1>3. ParserInv'
  BY <1>1 DEF AnswerInv, ParserInv, ModeEnabled, Size, Whole
<1>4. AnswerPathInv'
  <2>1. InspectionOwed' => InspectionOwed
    BY <1>1, OwedKept
  <2>2. InspectionOwed => parser = "mcp" /\ respDoc.status = "success" /\ ModeEnabled("post_call")
    BY <1>1, OwedWithParser
  <2> QED BY <1>1, <1>2, <2>1, <2>2 DEF AnswerPathInv
<1>5. EventsInv'
  <2>1. \A i \in 1..Len(ssePending') : ssePending'[i] \notin respDoc'.ends
    <3>1. Len(ssePending') = 0
      BY <1>1, <1>2
    <3> QED BY <3>1
  <2> QED BY <1>1, <1>2, <2>1 DEF AnswerInv, EventsInv, Size
<1>6. PostCallInspectsOnceSniffed'
  <2>1. ToSet(respOut') = {}
    BY <1>1, <1>2 DEF ToSet
  <2> QED BY <2>1 DEF PostCallInspectsOnceSniffed, PostCallInspects, Clean
<1> QED BY <1>3, <1>4, <1>5, <1>6 DEF AnswerInv

(* A body message of the answer finds the request side at rest.            *)
LEMMA AnswerArrives ==
  ASSUME IInv, AnswerInv, NEW n \in Nat, NEW eos \in BOOLEAN, ReceiveResponseBody(n, eos)
  PROVE  /\ reqGate = "ended" /\ respPhase = "body" /\ respPhase' = (IF eos THEN "done" ELSE "body")
         /\ docs' = docs /\ respDoc' = respDoc /\ config' = config /\ parser' = parser
         /\ skipResponseBody' = skipResponseBody
         /\ ParserInv'
         /\ InspectionOwed' <=> InspectionOwed
         /\ ResponseToInspect' <=> ResponseToInspect
         /\ InspectionOwed => parser = "mcp" /\ ~skipResponseBody /\ ModeEnabled("post_call")
         /\ Len(respIn') <= Size(respDoc.body)
         /\ respIn' = [i \in 1..Len(respIn') |-> i]
         /\ eos => Len(respIn') = Size(respDoc.body)
<1>1. /\ respPhase = "body" /\ requestSideVars' = requestSideVars /\ docs' = docs
      /\ respPhase' = (IF eos THEN "done" ELSE "body")
      /\ config' = config /\ skipResponseBody' = skipResponseBody
      /\ MaySend(respIn, respDoc.body, n, eos) /\ respIn' = respIn \o Chunk(respIn, n)
  BY DEF ReceiveResponseBody
<1>2. /\ parser' = parser /\ reqGate' = reqGate /\ reqDoc' = reqDoc /\ respDoc' = respDoc
  BY <1>1 DEF requestSideVars, sniffVars, reqView, docs
<1>3. reqGate = "ended"
  BY <1>1 DEF AnswerInv, ParserInv
<1>4. ParserInv'
  BY <1>1, <1>2, <1>3 DEF AnswerInv, ParserInv, ModeEnabled, Size, Whole
<1>5. InspectionOwed => parser = "mcp" /\ ~skipResponseBody /\ ModeEnabled("post_call")
  <2>1. skipResponseBody <=> respDoc.status = "failure"
    BY <1>1 DEF AnswerInv, AnswerPathInv
  <2> QED BY <1>3, <2>1, OwedWithParser
<1>6. /\ Len(respIn') = Len(respIn) + n
      /\ respIn' = [i \in 1..(Len(respIn) + n) |-> i]
  BY <1>1, ChunkContinues DEF AnswerInv, EventsInv, IInv, TypeOK, ResponseTypeOK
<1>7. Len(respIn) \in Nat /\ Size(respDoc.body) \in Nat
  BY LenProperties, RespDocType, SizeIsNat DEF IInv, TypeOK, ResponseTypeOK
<1>8. Len(respIn) + n <= Size(respDoc.body) /\ (eos => Len(respIn) + n = Size(respDoc.body))
  BY <1>1, <1>7 DEF MaySend
<1> QED BY <1>1, <1>2, <1>3, <1>4, <1>5, <1>6, <1>8, OwedKept

(* Nothing more is sent of the answer.                                     *)
LEMMA NothingSent ==
  ASSUME AnswerInv, ResponseToInspect' <=> ResponseToInspect, config' = config,
         parser' = parser, respDoc' = respDoc,
         respOut' = respOut, respMasked' = respMasked, respRestored' = respRestored
  PROVE  PostCallInspectsOnceSniffed'
BY DEF AnswerInv, PostCallInspectsOnceSniffed, PostCallInspects, ModeEnabled, Clean

(* A body message without decoder takes the inspecting path if inspection  *)
(* is owed (handleResponseBody, server.go:510-523).                        *)
LEMMA PlainAnswerPath ==
  ASSUME IInv, AnswerInv, NEW n \in Nat, NEW eos \in BOOLEAN, NEW path,
         ReceivePlainResponseBody(n, eos, path), responseAborted => responseAborted'
  PROVE  /\ ParserInv' /\ AnswerPathInv' /\ EventsInv'
         /\ InspectionOwed => path # "pass" /\ (respDoc.sse => responseAborted)
<1>1. /\ ReceiveResponseBody(n, eos)
      /\ ~sseDec /\ sseDec' = sseDec /\ responsePath' = path
      /\ responsePath \in {"unset", path}
      /\ ResponsePathNow = path
  BY ResponsePathDecision DEF ReceivePlainResponseBody
<1>2. /\ respPhase = "body" /\ respDoc' = respDoc /\ parser' = parser
      /\ skipResponseBody' = skipResponseBody /\ ParserInv'
      /\ InspectionOwed' <=> InspectionOwed
      /\ InspectionOwed => parser = "mcp" /\ ~skipResponseBody /\ ModeEnabled("post_call")
      /\ Len(respIn') <= Size(respDoc.body)
      /\ respIn' = [i \in 1..Len(respIn') |-> i]
  BY <1>1, AnswerArrives
<1>3. /\ skipResponseBody <=> respDoc.status = "failure"
      /\ InspectionOwed => responsePath # "pass" /\ (respDoc.sse => responseAborted)
  BY <1>1, <1>2 DEF AnswerInv, AnswerPathInv
<1>4. InspectionOwed => path # "pass"
  BY <1>1, <1>2, <1>3 DEF ResponsePathNow
<1>5. AnswerPathInv'
  BY <1>1, <1>2, <1>3, <1>4 DEF AnswerPathInv
<1>6. EventsInv'
  BY <1>1, <1>2 DEF EventsInv
<1> QED BY <1>2, <1>3, <1>4, <1>5, <1>6

(* A body message of an answer without decoder (handleResponseBody).       *)
LEMMA PlainAnswer ==
  ASSUME IInv, AnswerInv, NEW n \in Nat, NEW eos \in BOOLEAN,
         \/ ResponsePassThrough(n, eos) \/ ResponseSilenced(n, eos)
         \/ ResponseOversize(n, eos)    \/ ResponseHold(n)
         \/ ResponseBlock(n)            \/ ResponseEmit(n)
  PROVE  AnswerInv'
<1>1. PICK last \in BOOLEAN : \E path : ReceivePlainResponseBody(n, last, path)
  BY DEF ResponsePassThrough, ResponseSilenced, ResponseOversize, ResponseHold,
         ResponseBlock, ResponseEmit, AssembleResponse
<1>2. PICK path : ReceivePlainResponseBody(n, last, path)
  BY <1>1
<1>3. responseAborted => responseAborted'
  BY DEF ResponsePassThrough, ResponseSilenced, ResponseOversize, ResponseHold,
         ResponseBlock, ResponseEmit, AssembleResponse
<1>4. ParserInv' /\ AnswerPathInv' /\ EventsInv'
  BY <1>2, <1>3, PlainAnswerPath
<1>5. ReceiveResponseBody(n, last)
  BY <1>2, ResponsePathDecision
<1>6. /\ config' = config /\ parser' = parser /\ respDoc' = respDoc
      /\ ResponseToInspect' <=> ResponseToInspect
      /\ InspectionOwed' <=> InspectionOwed
  BY <1>5, AnswerArrives
<1>7. CASE ResponsePassThrough(n, eos)
  <2>1. ~InspectionOwed
    BY <1>3, <1>7, PlainAnswerPath DEF ResponsePassThrough
  <2>2. ~InspectionOwed'
    BY <1>6, <2>1
  <2>3. PostCallInspectsOnceSniffed'
    BY <2>2 DEF InspectionOwed, PostCallInspectsOnceSniffed, PostCallInspects
  <2> QED BY <1>4, <2>3 DEF AnswerInv
<1>8. CASE ResponseSilenced(n, eos) \/ ResponseOversize(n, eos) \/ ResponseHold(n)
             \/ ResponseBlock(n)
  <2>1. respOut \in Seq(Nat)
    BY DEF IInv, TypeOK, ResponseTypeOK
  <2>2. respOut' = respOut /\ respMasked' = respMasked /\ respRestored' = respRestored
    BY <1>8, <2>1, ConcatEmptySeq
       DEF ResponseSilenced, ResponseOversize, ResponseHold, ResponseBlock,
           ReleaseResponse, RejectResponse
  <2> QED BY <1>4, <1>6, <2>2, NothingSent DEF AnswerInv
<1>9. CASE ResponseEmit(n)
  <2>1. ReceivePlainResponseBody(n, TRUE, "buffer") /\ AssembleResponse(n)
    BY <1>9 DEF ResponseEmit, AssembleResponse
  <2>2. /\ respIn' = Whole(respDoc.body)
        /\ InspectionOwed => (respDoc.sse => responseAborted)
    <3>1. ReceiveResponseBody(n, TRUE)
      BY <2>1, ResponsePathDecision
    <3>2. respIn' = [i \in 1..Len(respIn') |-> i] /\ Len(respIn') = Size(respDoc.body)
      BY <3>1, AnswerArrives
    <3> QED BY <1>3, <2>1, <3>2, PlainAnswerPath DEF Whole
  <2>3. ~responseAborted /\ responseBuf' = respIn' /\ respOut = << >> /\ respIn' \in Seq(Nat)
    BY <2>1, ResponseAssembled
  <2>4. respOut' = Whole(respDoc.body)
    <3>1. respOut' = << >> \o respIn'
      BY <1>9, <2>3 DEF ResponseEmit, ReleaseResponse
    <3> QED BY <2>2, <2>3, <3>1, ConcatEmptySeq
  <2>5. ASSUME InspectionOwed
        PROVE  Clean(respDoc.body, respOut', respMasked')
    <3> DEFINE texts == TextsToInspect(respDoc.body, Whole(respDoc.body))
    <3>1. /\ Whole(respDoc.body) \in respDoc.body.parses /\ respDoc.body.patchable
          /\ config.provider = "presidio-api"
      BY <2>2, <2>3, <2>5 DEF InspectionOwed, ResponseToInspect, InspectableResponse
    <3>2. TextsToInspect(respDoc.body, responseBuf') \ Restorable(TextsToInspect(respDoc.body, responseBuf'))
            = texts
      BY <2>2, <2>3, NothingRestorable
    <3>3. Refused(respDoc.body, texts, {}) = {} /\ respMasked' = Rewritten(respDoc.body, texts)
      BY <1>9, <3>1, <3>2 DEF ResponseEmit
    <3> QED BY <2>4, <3>1, <3>3, InspectedIsClean
  <2>6. PostCallInspectsOnceSniffed'
    <3>1. InspectionOwed' => Clean(respDoc'.body, respOut', respMasked' \cup respRestored')
      BY <1>6, <2>5 DEF Clean
    <3> QED BY <3>1 DEF InspectionOwed, PostCallInspectsOnceSniffed, PostCallInspects
  <2> QED BY <1>4, <2>6 DEF AnswerInv
<1> QED BY <1>7, <1>8, <1>9

(* While nothing is aborted, the decoder scans the bytes behind what has   *)
(* been released, and an event begins with the first of them.              *)
LEMMA ScannedBytes ==
  ASSUME IInv, AnswerInv, NEW n \in Nat, NEW eos \in BOOLEAN, ReceiveEvents(n, eos),
         ~responseAborted
  PROVE  LET s == ssePending \o Chunk(respIn, n)
             o == Len(respOut)
         IN  /\ s \in Seq(Nat) /\ o \in Nat
             /\ \A i \in 1..Len(s) : s[i] = o + i
             /\ o + Len(s) <= Size(respDoc.body)
             /\ eos => o + Len(s) = Size(respDoc.body)
             /\ o = 0 \/ o \in respDoc.ends
             /\ respDoc.sse
             /\ respOut \in Seq(Nat)
             /\ respIn' = respOut \o s
<1> DEFINE s == ssePending \o Chunk(respIn, n)
           o == Len(respOut)
<1>1. /\ s \in Seq(Nat) /\ respOut \in Seq(Nat) /\ respIn' = respOut \o s
  BY EventsScanned
<1>2. sseDec /\ ReceiveResponseBody(n, eos)
  BY DEF ReceiveEvents
<1>3. /\ respPhase = "body"
      /\ Len(respIn') <= Size(respDoc.body)
      /\ respIn' = [i \in 1..Len(respIn') |-> i]
      /\ eos => Len(respIn') = Size(respDoc.body)
  BY <1>2, AnswerArrives
<1>4. respDoc.sse /\ (respOut = << >> \/ o \in respDoc.ends)
  BY <1>2, <1>3 DEF AnswerInv, AnswerPathInv, EventsInv
<1> HIDE DEF s
<1>5. o \in Nat /\ Len(s) \in Nat /\ Len(respIn') = o + Len(s)
  BY <1>1, ConcatProperties, LenProperties
<1>6. ASSUME NEW i \in 1..Len(s) PROVE s[i] = o + i
  <2>1. o + i \in 1..Len(respIn') /\ ~(o + i <= o) /\ (o + i) - o = i
    BY <1>5
  <2>2. respIn'[o + i] = o + i
    BY <1>3, <2>1
  <2>3. (respOut \o s)[o + i] = s[(o + i) - o]
    BY <1>1, <1>5, <2>1, ConcatProperties
  <2> QED BY <1>1, <2>1, <2>2, <2>3
<1>7. o = 0 \/ o \in respDoc.ends
  BY <1>4
<1>8. o + Len(s) <= Size(respDoc.body) /\ (eos => o + Len(s) = Size(respDoc.body))
  BY <1>3, <1>5
<1> QED BY <1>1, <1>4, <1>5, <1>6, <1>7, <1>8 DEF s

(* The events up to position k go out, masked.                             *)
LEMMA EventsGoOut ==
  ASSUME IInv, AnswerInv, NEW n \in Nat, NEW eos \in BOOLEAN, ReceiveEvents(n, eos),
         ~responseAborted,
         NEW s, s = ssePending \o Chunk(respIn, n),
         NEW k \in 0..Len(s), k = 0 \/ k \in EventEnds(s, eos),
         NEW released \in SUBSET EventEnds(s, eos),
         \A j \in EventEnds(s, eos) : j <= k => j \in released,
         \A j \in released : ~EventRefused(s, j, {}),
         MaskEvents(s, released),
         respOut' = respOut \o SubSeq(s, 1, k)
  PROVE  PostCallInspectsOnceSniffed'
<1> DEFINE o == Len(respOut)
           w == respMasked' \cup respRestored'
<1>1. /\ s \in Seq(Nat) /\ o \in Nat
      /\ \A i \in 1..Len(s) : s[i] = o + i
      /\ o + Len(s) <= Size(respDoc.body)
      /\ eos => o + Len(s) = Size(respDoc.body)
      /\ o = 0 \/ o \in respDoc.ends
      /\ respDoc.sse /\ respOut \in Seq(Nat)
  BY ScannedBytes
<1>2. respDoc' = respDoc /\ (InspectionOwed' <=> InspectionOwed)
  <2>1. ReceiveResponseBody(n, eos)
    BY DEF ReceiveEvents
  <2> QED BY <2>1, AnswerArrives
<1>3. ASSUME InspectionOwed PROVE Clean(respDoc.body, respOut', w)
  <2>1. ResponseToInspect /\ Clean(respDoc.body, respOut, respMasked \cup respRestored)
    BY <1>3 DEF InspectionOwed, AnswerInv, PostCallInspectsOnceSniffed, PostCallInspects
  <2> HIDE DEF o
  <2>2. /\ Clean(respDoc.body, SubSeq(s, 1, k), w)
        /\ respMasked \cup respRestored \subseteq w
    BY <1>1, <2>1, ReleasedEventsAreClean
  <2>3. SubSeq(s, 1, k) \in Seq(Nat)
    BY <1>1, SplitAt
  <2> QED BY <1>1, <2>1, <2>2, <2>3, CleanJoined
<1>4. InspectionOwed' => Clean(respDoc'.body, respOut', respMasked' \cup respRestored')
  BY <1>2, <1>3 DEF Clean
<1> QED BY <1>4 DEF InspectionOwed, PostCallInspectsOnceSniffed, PostCallInspects

(* With the decoder dropped or the stream aborted only the path matters.   *)
LEMMA EventsAborted ==
  ASSUME IInv, AnswerInv, NEW n \in Nat, NEW eos \in BOOLEAN, ReceiveEvents(n, eos),
         responseAborted', sseDec' => sseDec
  PROVE  ParserInv' /\ AnswerPathInv' /\ EventsInv'
<1>1. ReceiveResponseBody(n, eos) /\ sseDec /\ responsePath' = responsePath
  BY DEF ReceiveEvents
<1>2. /\ respPhase = "body" /\ respDoc' = respDoc
      /\ skipResponseBody' = skipResponseBody /\ ParserInv'
      /\ InspectionOwed' <=> InspectionOwed
      /\ Len(respIn') <= Size(respDoc.body)
      /\ respIn' = [i \in 1..Len(respIn') |-> i]
  BY <1>1, AnswerArrives
<1>3. AnswerPathInv'
  BY <1>1, <1>2 DEF AnswerInv, AnswerPathInv
<1>4. EventsInv'
  BY <1>2 DEF EventsInv
<1> QED BY <1>2, <1>3, <1>4

(* The finished events go out and the decoder keeps the rest               *)
(* (handleSSEResponseBody, server.go:645-688).                             *)
LEMMA SSEEmitAnswer ==
  ASSUME IInv, AnswerInv, NEW n \in Nat, NEW eos \in BOOLEAN, SSEEmit(n, eos)
  PROVE  AnswerInv'
<1> DEFINE s == ssePending \o Chunk(respIn, n)
           ends == EventEnds(s, eos)
           o == Len(respOut)
<1>1. /\ ReceiveEvents(n, eos) /\ ~responseAborted /\ responseAborted' = responseAborted
      /\ sseDec /\ sseDec' = sseDec /\ responsePath' = responsePath
      /\ \A j \in ends : ~EventRefused(s, j, {})
      /\ MaskEvents(s, ends)
  BY DEF SSEEmit, ReceiveEvents
<1>2. PICK k \in 0..Len(s) :
        /\ k = Max({0} \cup ends)
        /\ respOut' = respOut \o SubSeq(s, 1, k)
        /\ ssePending' = SubSeq(s, k + 1, Len(s))
  BY DEF SSEEmit, ReleaseResponse
<1>3. /\ s \in Seq(Nat) /\ o \in Nat
      /\ \A i \in 1..Len(s) : s[i] = o + i
      /\ o = 0 \/ o \in respDoc.ends
      /\ respOut \in Seq(Nat)
  BY <1>1, ScannedBytes
<1>4. Len(s) \in Nat /\ ends \subseteq 1..Len(s)
  BY <1>3, LenProperties DEF EventEnds
<1>5. (k = 0 \/ k \in ends) /\ \A j \in ends : j <= k
  <2> DEFINE S == {0} \cup ends
  <2>1. S \subseteq 0..Len(s) /\ S # {}
    BY <1>4
  <2>2. k \in S /\ \A j \in S : j <= k
    BY <1>2, <1>4, <2>1, MaxOfBounded
  <2> QED BY <2>2
<1>6. /\ ReceiveResponseBody(n, eos)
      /\ respPhase' = (IF eos THEN "done" ELSE "body")
      /\ respPhase = "body" /\ respDoc' = respDoc
      /\ skipResponseBody' = skipResponseBody /\ ParserInv'
      /\ InspectionOwed' <=> InspectionOwed
      /\ Len(respIn') <= Size(respDoc.body)
      /\ respIn' = [i \in 1..Len(respIn') |-> i]
  BY <1>1, AnswerArrives DEF ReceiveEvents
<1>7. PostCallInspectsOnceSniffed'
  BY <1>1, <1>2, <1>5, EventsGoOut
<1>8. AnswerPathInv'
  BY <1>1, <1>6 DEF AnswerInv, AnswerPathInv
<1> HIDE DEF s, ends
<1>9. ASSUME ~eos PROVE respOut' = << >> \/ Len(respOut') \in respDoc.ends
  <2>1. SubSeq(s, 1, k) \in Seq(Nat) /\ Len(SubSeq(s, 1, k)) = k
    BY <1>3, SplitAt
  <2>2. respOut' \in Seq(Nat) /\ Len(respOut') = o + k
    <3> DEFINE a == SubSeq(s, 1, k)
    <3>1. a \in Seq(Nat) /\ Len(a) = k /\ respOut' = respOut \o a
      BY <1>2, <2>1
    <3> HIDE DEF a
    <3> QED BY <1>3, <3>1, ConcatProperties
  <2>3. CASE k = 0
    <3>1. Len(respOut') = o
      BY <1>3, <2>2, <2>3
    <3> QED BY <1>3, <2>2, <3>1, EmptySeq
  <2>4. CASE k \in ends
    <3>1. k \in 1..Len(s) /\ s[k] \in respDoc.ends
      BY <1>9, <2>4 DEF EventEnds, ends, s
    <3> QED BY <1>3, <2>2, <3>1
  <2> QED BY <1>5, <2>3, <2>4
<1>10. \A i \in 1..Len(ssePending') : ssePending'[i] \notin respDoc.ends
  <2> DEFINE rest == SubSeq(s, k + 1, Len(s))
  <2>1. /\ Len(rest) = Len(s) - k
        /\ \A i \in 1..(Len(s) - k) : rest[i] = s[k + i]
    <3>1. k \in Nat /\ Len(s) \in Nat /\ k <= Len(s)
      BY <1>4
    <3> QED BY <1>3, <3>1, StretchOf
  <2>2. ASSUME NEW i \in 1..(Len(s) - k), s[k + i] \in respDoc.ends PROVE FALSE
    <3>1. k + i \in 1..Len(s) /\ ~(k + i <= k)
      BY <1>4
    <3>2. k + i \in ends
      BY <2>2, <3>1 DEF EventEnds, ends, s
    <3> QED BY <1>5, <3>1, <3>2
  <2> HIDE DEF rest
  <2>3. \A i \in 1..Len(rest) : rest[i] \notin respDoc.ends
    BY <2>1, <2>2
  <2> QED BY <1>2, <2>3 DEF rest
<1>11. EventsInv'
  BY <1>6, <1>9, <1>10 DEF EventsInv
<1> QED BY <1>6, <1>7, <1>8, <1>11 DEF AnswerInv

(* A refused event ends the answer; the ones before it in the same chunk   *)
(* still go out (handleSSEBlock, server.go:752-765).                       *)
LEMMA SSEBlockAnswer ==
  ASSUME IInv, AnswerInv, NEW n \in Nat, NEW eos \in BOOLEAN, SSEBlock(n, eos)
  PROVE  AnswerInv'
<1> DEFINE s == ssePending \o Chunk(respIn, n)
           ends == EventEnds(s, eos)
<1>1. /\ ReceiveEvents(n, eos) /\ ~responseAborted /\ responseAborted' /\ sseDec' = sseDec
  BY DEF SSEBlock
<1>2. ParserInv' /\ AnswerPathInv' /\ EventsInv'
  BY <1>1, EventsAborted
<1>3. /\ s \in Seq(Nat) /\ respOut \in Seq(Nat)
  BY <1>1, ScannedBytes
<1>4. PICK i \in ends : \E k \in 0..(i - 1) :
        /\ FirstRefused(s, ends, i)
        /\ k = EventStart(s, i)
        /\ \/ RejectResponse(403)
           \/ /\ respOut' = respOut \o SubSeq(s, 1, k)
              /\ MaskEvents(s, {j \in ends : j < i})
  BY DEF SSEBlock
<1>5. PICK k \in 0..(i - 1) :
        /\ FirstRefused(s, ends, i)
        /\ k = EventStart(s, i)
        /\ \/ RejectResponse(403)
           \/ /\ respOut' = respOut \o SubSeq(s, 1, k)
              /\ MaskEvents(s, {j \in ends : j < i})
  BY <1>4
<1>6. CASE RejectResponse(403)
  <2>1. /\ config' = config /\ parser' = parser /\ respDoc' = respDoc
        /\ ResponseToInspect' <=> ResponseToInspect
    BY <1>1, AnswerArrives DEF ReceiveEvents
  <2>2. respOut' = respOut /\ respMasked' = respMasked /\ respRestored' = respRestored
    BY <1>6 DEF RejectResponse
  <2> QED BY <1>2, <2>1, <2>2, NothingSent DEF AnswerInv
<1>7. CASE /\ respOut' = respOut \o SubSeq(s, 1, k)
           /\ MaskEvents(s, {j \in ends : j < i})
  <2> DEFINE released == {j \in ends : j < i}
  <2>1. Len(s) \in Nat /\ i \in 1..Len(s) /\ i \in EventEnds(s, TRUE)
    BY <1>3, LenProperties DEF EventEnds
  <2>2. k = 0 \/ k \in EventEnds(s, TRUE)
    BY <1>3, <1>5, <2>1, EventProperties
  <2>3. k \in 0..Len(s) /\ k < i /\ k # Len(s)
    BY <1>5, <2>1
  <2>4. k = 0 \/ k \in EventEnds(s, eos)
    BY <2>2, <2>3 DEF EventEnds
  <2>5. \A j \in released : ~EventRefused(s, j, {})
    BY <1>5 DEF FirstRefused
  <2>6. \A j \in ends : j <= k => j \in released
    <3>1. \A j \in ends : j \in Nat
      BY <2>1 DEF EventEnds
    <3> QED BY <2>1, <2>3, <3>1
  <2>7. released \in SUBSET ends
    OBVIOUS
  <2> HIDE DEF s, released
  <2>8. PostCallInspectsOnceSniffed'
    BY <1>1, <1>7, <2>3, <2>4, <2>5, <2>6, <2>7, EventsGoOut DEF s, released
  <2> QED BY <1>2, <2>8 DEF AnswerInv
<1> QED BY <1>5, <1>6, <1>7

(* Oversize events and what follows an abort add nothing                   *)
(* (handleSSEOversize, server.go:767-781).                                 *)
LEMMA SSEQuietAnswer ==
  ASSUME IInv, AnswerInv, NEW n \in Nat, NEW eos \in BOOLEAN,
         SSESilenced(n, eos) \/ SSEOversize(n, eos)
  PROVE  AnswerInv'
<1>1. ReceiveEvents(n, eos) /\ responseAborted' /\ (sseDec' => sseDec)
  BY DEF SSESilenced, SSEOversize, ReceiveEvents
<1>2. ParserInv' /\ AnswerPathInv' /\ EventsInv'
  BY <1>1, EventsAborted
<1>3. /\ config' = config /\ parser' = parser /\ respDoc' = respDoc
      /\ ResponseToInspect' <=> ResponseToInspect
  BY <1>1, AnswerArrives DEF ReceiveEvents
<1>4. respOut' = respOut /\ respMasked' = respMasked /\ respRestored' = respRestored
  <2>1. respOut \in Seq(Nat)
    BY DEF IInv, TypeOK, ResponseTypeOK
  <2> QED BY <2>1, ConcatEmptySeq DEF SSESilenced, SSEOversize, ReleaseResponse, RejectResponse
<1> QED BY <1>2, <1>3, <1>4, NothingSent DEF AnswerInv

(* Every message of the stream.                                            *)
LEMMA NextAnswer ==
  ASSUME ~EarlyResponse, ~AllowTrailers
  PROVE  IInv /\ IInv' /\ AnswerInv /\ [Next]_vars => AnswerInv'
<1> SUFFICES ASSUME IInv, IInv', AnswerInv, [Next]_vars PROVE AnswerInv'
  OBVIOUS
<1>1. CASE \E md \in Sources, hdr \in Sources, eos \in BOOLEAN : RequestHeaders(md, hdr, eos)
  BY <1>1, RequestHeadersAnswer
<1>2. CASE SomeRequestBody
  <2>1. Size(reqDoc) \in Nat
    BY ReqDocType, SizeIsNat
  <2>2. PICK n \in 0..Size(reqDoc), eos \in BOOLEAN : RequestBody(n, eos)
    BY <1>2 DEF SomeRequestBody
  <2>3. n \in Nat
    BY <2>1
  <2> QED BY <2>2, <2>3, RequestBodyAnswer
<1>3. CASE RequestTrailers \/ ResponseTrailers
  BY <1>3 DEF RequestTrailers, ResponseTrailers
<1>4. CASE \E eos \in BOOLEAN : ResponseHeaders(eos)
  BY <1>4, ResponseHeadersAnswer
<1>5. CASE SomeResponseBody
  <2>1. Size(respDoc.body) \in Nat
    BY RespDocType, SizeIsNat
  <2>2. PICK n \in 0..Size(respDoc.body), eos \in BOOLEAN : ResponseBody(n, eos)
    BY <1>5 DEF SomeResponseBody
  <2>3. n \in Nat
    BY <2>1
  <2>4. CASE SSESilenced(n, eos) \/ SSEOversize(n, eos)
    BY <2>3, <2>4, SSEQuietAnswer
  <2>5. CASE SSEBlock(n, eos)
    BY <2>3, <2>5, SSEBlockAnswer
  <2>6. CASE SSEEmit(n, eos)
    BY <2>3, <2>6, SSEEmitAnswer
  <2> QED BY <2>2, <2>3, <2>4, <2>5, <2>6, PlainAnswer DEF ResponseBody
<1>6. CASE Close \/ UNCHANGED vars
  <2>1. /\ requestSideVars' = requestSideVars /\ responseSideVars' = responseSideVars
        /\ docs' = docs /\ config' = config
    BY <1>6 DEF Close, vars, requestSideVars, responseSideVars
  <2>2. /\ reqDoc' = reqDoc /\ respDoc' = respDoc /\ parser' = parser /\ reqGate' = reqGate
        /\ respPhase' = respPhase /\ skipResponseBody' = skipResponseBody
        /\ sseDec' = sseDec /\ ssePending' = ssePending
        /\ responsePath' = responsePath /\ responseAborted' = responseAborted
        /\ respIn' = respIn /\ respOut' = respOut
        /\ respMasked' = respMasked /\ respRestored' = respRestored
    BY <2>1 DEF requestSideVars, responseSideVars, docs, sniffVars, reqView, respState,
                sseState, respView
  <2>3. /\ InspectionOwed' <=> InspectionOwed
        /\ ResponseToInspect' <=> ResponseToInspect
    BY <2>1, <2>2, OwedKept
  <2>4. ParserInv'
    BY <2>1, <2>2 DEF AnswerInv, ParserInv, ModeEnabled, Size, Whole
  <2>5. AnswerPathInv'
    BY <2>2, <2>3 DEF AnswerInv, AnswerPathInv
  <2>6. EventsInv'
    BY <2>2 DEF AnswerInv, EventsInv, Size
  <2> QED BY <2>1, <2>2, <2>3, <2>4, <2>5, <2>6, NothingSent DEF AnswerInv
<1> QED BY <1>1, <1>2, <1>3, <1>4, <1>5, <1>6 DEF Next

(* Once the parser has been found, or with pre_call inspection on too,     *)
(* nothing the provider refuses or would mask in a successful response to  *)
(* an MCP request reaches the caller, be it buffered or an event stream,   *)
(* if it parses and can be patched, and however both bodies are cut        *)
(* (server.go:218, 287-294, 347-349, 518-521, 645-688).  With post_call    *)
(* alone and no parser found nothing is claimed (doc_post_call_only).      *)
(* It takes an upstream that answers after the request and bodies that do  *)
(* not end with trailers: with an early answer or with trailers the model  *)
(* checker finds a response let through uninspected.                       *)
THEOREM PostCallSafe ==
  ASSUME ~EarlyResponse, ~AllowTrailers
  PROVE  Spec => []PostCallInspectsOnceSniffed
<1>1. IInv /\ IInv' /\ AnswerInv /\ [Next]_vars => AnswerInv'
  BY NextAnswer
<1>2. []IInv /\ Init /\ [][Next]_vars => []AnswerInv
  BY <1>1, InitAnswer, PTL
<1>3. AnswerInv => PostCallInspectsOnceSniffed
  BY DEF AnswerInv
<1> QED BY <1>2, <1>3, InvariantHolds, PTL DEF Spec
=============================================================================
