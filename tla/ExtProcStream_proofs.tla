------------------------ MODULE ExtProcStream_proofs ------------------------
(***************************************************************************)
(* Proofs about one ext_proc stream: the inductive invariant IInv, what it *)
(* implies, and that each direction implements BodyGate.                   *)
(***************************************************************************)
EXTENDS ExtProcProperties, DataLemmas, SequenceTheorems, TLAPS

-----------------------------------------------------------------------------
(* Lemmas about sequences of positions.                                    *)

(* The chunk Envoy sends next continues a body that begins at position 1.  *)
LEMMA ChunkProperties ==
  ASSUME NEW taken \in Seq(Nat), NEW n \in Nat
  PROVE  /\ Chunk(taken, n) \in Seq(Nat)
         /\ Len(Chunk(taken, n)) = n
         /\ \A i \in 1..n : Chunk(taken, n)[i] = Len(taken) + i
<1>1. Len(taken) \in Nat
  BY LenProperties
<1>2. \A i \in 1..n : Len(taken) + i \in Nat
  BY <1>1
<1> QED  BY <1>1, <1>2 DEF Chunk

(* What was sent and the next chunk make up a longer beginning.            *)
LEMMA ChunkContinues ==
  ASSUME NEW taken \in Seq(Nat), NEW n \in Nat,
         taken = [i \in 1..Len(taken) |-> i]
  PROVE  /\ taken \o Chunk(taken, n) \in Seq(Nat)
         /\ Len(taken \o Chunk(taken, n)) = Len(taken) + n
         /\ taken \o Chunk(taken, n) = [i \in 1..(Len(taken) + n) |-> i]
<1> DEFINE c == Chunk(taken, n)
<1> DEFINE k == Len(taken)
<1>1. k \in Nat
  BY LenProperties
<1>2. c \in Seq(Nat) /\ Len(c) = n /\ \A i \in 1..n : c[i] = k + i
  BY ChunkProperties
<1> HIDE DEF c, k
<1>3. /\ taken \o c \in Seq(Nat)
      /\ Len(taken \o c) = k + n
      /\ \A i \in 1..(k + n) : (taken \o c)[i] = IF i <= k THEN taken[i] ELSE c[i - k]
  BY <1>2, ConcatProperties DEF k
<1>4. \A i \in 1..k : taken[i] = i
  BY <1>1 DEF k
<1>5. \A i \in 1..(k + n) : (taken \o c)[i] = i
  <2> TAKE i \in 1..(k + n)
  <2>1. CASE i <= k
    BY <2>1, <1>1, <1>3, <1>4
  <2>2. CASE ~(i <= k)
    <3>1. i - k \in 1..n
      BY <2>2, <1>1
    <3> QED  BY <3>1, <2>2, <1>1, <1>2, <1>3
  <2> QED  BY <2>1, <2>2
<1>6. (taken \o c) = [i \in 1..(k + n) |-> i]
  <2>1. taken \o c = [i \in 1..Len(taken \o c) |-> (taken \o c)[i]]
    BY <1>3, LenProperties
  <2> QED  BY <2>1, <1>3, <1>5
<1> QED  BY <1>3, <1>6 DEF c, k

(* Sequences of positions are joined in any grouping.                      *)
LEMMA JoinAssociative ==
  \A a, b, c \in Seq(Nat) : (a \o b) \o c = a \o (b \o c)
BY ConcatAssociative

-----------------------------------------------------------------------------
(* What the two sides of the stream owe each other.                        *)

(* A body message of the request extends what has arrived, and with        *)
(* end_of_stream completes it.                                             *)
LEMMA RequestBodyArrives ==
  ASSUME IInv, NEW n \in Nat, NEW eos \in BOOLEAN, ReceiveRequestBody(n, eos)
  PROVE  /\ Chunk(reqIn, n) \in Seq(Nat)
         /\ reqIn' \in Seq(Nat)
         /\ Len(reqIn') <= Size(reqDoc)
         /\ reqIn' = [i \in 1..Len(reqIn') |-> i]
         /\ eos => reqIn' = Whole(reqDoc)
<1>1. /\ reqIn \in Seq(Nat) /\ Len(reqIn) <= Size(reqDoc)
      /\ reqIn = [i \in 1..Len(reqIn) |-> i]
  BY DEF IInv, TypeOK, RequestTypeOK, RequestInv
<1>2. Size(reqDoc) \in Nat
  BY DocAssumption, LenProperties DEF IInv, TypeOK, StreamTypeOK, Docs, Size
<1>3. /\ n \in 0..(Size(reqDoc) - Len(reqIn))
      /\ eos => Len(reqIn) + n = Size(reqDoc)
      /\ reqIn' = reqIn \o Chunk(reqIn, n)
  BY DEF ReceiveRequestBody, MaySend
<1>4. Len(reqIn) \in Nat
  BY <1>1, LenProperties
<1>5. /\ reqIn' \in Seq(Nat)
      /\ Len(reqIn') = Len(reqIn) + n
      /\ reqIn' = [i \in 1..(Len(reqIn) + n) |-> i]
  BY <1>1, <1>3, ChunkContinues
<1>6. Chunk(reqIn, n) \in Seq(Nat)
  BY <1>1, ChunkProperties
<1>7. Len(reqIn') <= Size(reqDoc)
  BY <1>2, <1>3, <1>4, <1>5
<1> QED  BY <1>3, <1>5, <1>6, <1>7 DEF Whole

(* The same of the response.                                               *)
LEMMA ResponseBodyArrives ==
  ASSUME IInv, NEW n \in Nat, NEW eos \in BOOLEAN, ReceiveResponseBody(n, eos)
  PROVE  /\ Chunk(respIn, n) \in Seq(Nat)
         /\ respIn' \in Seq(Nat)
         /\ respIn' = respIn \o Chunk(respIn, n)
         /\ n > 0 \/ eos
         /\ Len(Chunk(respIn, n)) = n
         /\ respPhase' = IF eos THEN "done" ELSE "body"
<1>1. respIn \in Seq(Nat)
  BY DEF IInv, TypeOK, ResponseTypeOK
<1>2. Chunk(respIn, n) \in Seq(Nat) /\ Len(Chunk(respIn, n)) = n
  BY <1>1, ChunkProperties
<1> QED  BY <1>1, <1>2, ConcatProperties DEF ReceiveResponseBody, MaySend

(* A step that leaves the request side alone keeps what is known of it.    *)
LEMMA RequestSideKept ==
  ASSUME IInv, requestSideVars' = requestSideVars, docs' = docs, config' = config,
         reqPhase = "headers" => respPhase' = "headers"
  PROVE  RequestTypeOK' /\ RequestInv' /\ SniffInv' /\ PreCallInspects'
<1>1. RequestTypeOK'
  <2>1. /\ parser' = parser /\ parserAttempted' = parserAttempted
        /\ requestBuf' = requestBuf /\ requestPath' = requestPath
        /\ requestAborted' = requestAborted /\ reqPhase' = reqPhase
        /\ reqIn' = reqIn /\ reqOut' = reqOut /\ reqGate' = reqGate
        /\ reqCode' = reqCode /\ reqMasked' = reqMasked
    BY DEF requestSideVars, sniffVars, reqState, reqView
  <2>2. RequestTypeOK
    BY DEF IInv, TypeOK
  <2> QED  BY <2>1, <2>2 DEF RequestTypeOK
<1>2. RequestInv'
  BY DEF IInv, RequestInv, requestSideVars, sniffVars, reqState, reqView, docs, Size
<1>3. SniffInv'
  BY DEF IInv, SniffInv, ModeEnabled, requestSideVars, sniffVars, reqState, docs,
         Whole, Size
<1>4. PreCallInspects'
  BY DEF IInv, PreCallInspects, ModeEnabled, Clean, requestSideVars, reqView, docs,
         Whole, Size
<1> QED  BY <1>1, <1>2, <1>3, <1>4

(* A step of the request side that does not lose the parser keeps what is  *)
(* known of the response.                                                  *)
LEMMA ResponseSideKept ==
  ASSUME IInv, responseSideVars' = responseSideVars,
         config' = config \/ respPhase = "headers",
         parser # "none" => parser' # "none"
  PROVE  ResponseTypeOK' /\ ResponseInv'
<1>1. ResponseTypeOK'
  <2>1. /\ skipResponseBody' = skipResponseBody /\ responseBuf' = responseBuf
        /\ responsePath' = responsePath /\ responseAborted' = responseAborted
        /\ sseDec' = sseDec /\ ssePending' = ssePending /\ sseEmitted' = sseEmitted
        /\ respPhase' = respPhase /\ respIn' = respIn /\ respOut' = respOut
        /\ respGate' = respGate /\ respCode' = respCode
        /\ respMasked' = respMasked /\ respRestored' = respRestored
    BY DEF responseSideVars, respState, sseState, respView
  <2>2. ResponseTypeOK
    BY DEF IInv, TypeOK
  <2> QED  BY <2>1, <2>2 DEF ResponseTypeOK
<1>2. ResponseInv'
  BY DEF IInv, ResponseInv, ModeEnabled, responseSideVars, respState, sseState, respView
<1> QED  BY <1>1, <1>2

(* What the sniff of a chunk can yield.                                    *)
LEMMA ChunkSniffProperties ==
  ASSUME IInv, NEW c, NEW eos \in BOOLEAN
  PROVE  LET sniff == ChunkSniff(c, eos)
         IN  /\ sniff.parser \in {"none", "mcp"}
             /\ sniff.attempted \in BOOLEAN
             /\ parser = "mcp" => sniff.parser = "mcp"
             /\ sniff.parser = "mcp" => sniff.attempted
             /\ sniff.parser = "none" /\ sniff.attempted /\ ~parserAttempted =>
                  eos /\ c \notin reqDoc.parses
<1>1. /\ parser \in {"none", "mcp"} /\ parserAttempted \in BOOLEAN
      /\ parser = "mcp" => parserAttempted
  BY DEF IInv, TypeOK, RequestTypeOK, SniffInv
<1>2. CASE ~parserAttempted /\ c # << >>
  <2>1. CASE c \in reqDoc.parses
    BY <1>1, <1>2, <2>1 DEF ChunkSniff, SniffParser
  <2>2. CASE c \notin reqDoc.parses /\ eos
    BY <1>1, <1>2, <2>2 DEF ChunkSniff, SniffParser
  <2>3. CASE c \notin reqDoc.parses /\ ~eos
    BY <1>1, <1>2, <2>3 DEF ChunkSniff, SniffParser
  <2> QED  BY <2>1, <2>2, <2>3
<1>3. CASE ~(~parserAttempted /\ c # << >>)
  BY <1>1, <1>3 DEF ChunkSniff
<1> QED  BY <1>2, <1>3

(* What the sniff of the assembled buffer can yield: no parser only if     *)
(* there is nothing to parse or it does not parse.                         *)
LEMMA BufferSniffProperties ==
  ASSUME IInv, NEW c, NEW buf
  PROVE  LET sniff == BufferSniff(c, buf)
         IN  /\ sniff.parser \in {"none", "mcp"}
             /\ sniff.attempted \in BOOLEAN
             /\ parser = "mcp" => sniff.parser = "mcp"
             /\ sniff.parser = "mcp" => sniff.attempted
             /\ sniff.parser = "none" => buf = << >> \/ buf \notin reqDoc.parses
<1> DEFINE chunkSniff == ChunkSniff(c, TRUE)
<1>1. /\ chunkSniff.parser \in {"none", "mcp"}
      /\ chunkSniff.attempted \in BOOLEAN
      /\ parser = "mcp" => chunkSniff.parser = "mcp"
      /\ chunkSniff.parser = "mcp" => chunkSniff.attempted
  BY ChunkSniffProperties
<1>2. BufferSniff(c, buf) =
        IF chunkSniff.parser = "none" /\ buf # << >>
          THEN SniffParser(chunkSniff, buf, TRUE) ELSE chunkSniff
  BY DEF BufferSniff
<1> HIDE DEF chunkSniff
<1>3. CASE chunkSniff.parser = "none" /\ buf # << >>
  <2>1. CASE buf \in reqDoc.parses
    BY <1>1, <1>2, <1>3, <2>1 DEF SniffParser
  <2>2. CASE buf \notin reqDoc.parses
    <3>1. SniffParser(chunkSniff, buf, TRUE) = [parser |-> "none", attempted |-> TRUE]
      BY <2>2 DEF SniffParser
    <3>2. BufferSniff(c, buf) = [parser |-> "none", attempted |-> TRUE]
      BY <3>1, <1>2, <1>3
    <3>3. parser # "mcp"
      BY <1>1, <1>3
    <3> QED  BY <3>2, <3>3, <2>2
  <2> QED  BY <2>1, <2>2
<1>4. CASE ~(chunkSniff.parser = "none" /\ buf # << >>)
  BY <1>1, <1>2, <1>4
<1> QED  BY <1>3, <1>4

-----------------------------------------------------------------------------
(* Each message of the request keeps the invariant.                        *)

(* Every message but the first leaves the configuration, the documents and *)
(* the RPC alone, and records only paths of request texts.                 *)
LEMMA StreamTypeKept ==
  ASSUME IInv, config' = config, rpc' = rpc, docs' = docs,
         requestMetadata' \subseteq ({"params.arguments"} \X Nat)
  PROVE  StreamTypeOK'
BY DEF IInv, TypeOK, StreamTypeOK, docs

(* handleRequestHeaders fixes the configuration before any body arrives.   *)
LEMMA RequestHeadersKeeps ==
  ASSUME IInv, NEW md \in Sources, NEW hdr \in Sources, NEW eos \in BOOLEAN,
         RequestHeaders(md, hdr, eos)
  PROVE  IInv'
<1>1. config' \in AllConfigs \cup {NoConfig}
  BY ConfigAssumption DEF RequestHeaders, ResolveConfig
<1>2. StreamTypeOK'
  BY <1>1 DEF IInv, TypeOK, StreamTypeOK, RequestHeaders, docs
<1>3. RequestTypeOK'
  BY DEF IInv, TypeOK, RequestTypeOK, RequestHeaders, sniffVars, reqState, Gates
<1>4. RequestInv' /\ SniffInv'
  BY DEF IInv, RequestInv, SniffInv, RequestHeaders, sniffVars, reqState, docs, Size,
         responseSideVars
<1>5. PreCallInspects'
  <2>1. reqOut' = << >>
    BY DEF IInv, RequestInv, RequestHeaders
  <2>2. ToSet(reqOut') = {}
    BY <2>1 DEF ToSet
  <2> QED  BY <2>2 DEF PreCallInspects, Clean
<1>6. ResponseTypeOK' /\ ResponseInv'
  BY ResponseSideKept DEF IInv, RequestInv, RequestHeaders, sniffVars
<1> QED  BY <1>2, <1>3, <1>4, <1>5, <1>6 DEF IInv, TypeOK

(* The receipt of a body message and the path decision, as far as the       *)
(* branches share them.                                                    *)
LEMMA RequestBodyCommon ==
  ASSUME IInv, NEW n \in Nat, NEW eos \in BOOLEAN, ReceiveRequestBody(n, eos)
  PROVE  /\ reqPhase = "body" /\ reqPhase' = (IF eos THEN "done" ELSE "body")
         /\ reqGate = "open" \/ (reqGate = "rejected" /\ requestAborted)
         /\ respPhase' = respPhase
         /\ config' = config /\ rpc' = rpc /\ docs' = docs /\ reqDoc' = reqDoc
         /\ Size(reqDoc') = Size(reqDoc) /\ Whole(reqDoc') = Whole(reqDoc)
         /\ responseSideVars' = responseSideVars
<1>1. reqPhase = "body" /\ reqPhase' = (IF eos THEN "done" ELSE "body")
  BY DEF ReceiveRequestBody
<1>2. reqGate = "open" \/ (reqGate = "rejected" /\ requestAborted)
  BY <1>1 DEF IInv, TypeOK, RequestTypeOK, Gates, RequestInv
<1>3. /\ config' = config /\ rpc' = rpc /\ docs' = docs
      /\ responseSideVars' = responseSideVars
  BY DEF ReceiveRequestBody
<1>4. respPhase' = respPhase /\ reqDoc' = reqDoc
  BY <1>3 DEF responseSideVars, docs
<1> QED  BY <1>1, <1>2, <1>3, <1>4

(* The path of the request, once decided, stays (handleRequestBody).       *)
LEMMA PathDecision ==
  ASSUME IInv, NEW c, NEW eos \in BOOLEAN, NEW path, DecideRequestPath(c, eos, path)
  PROVE  /\ requestPath' = path
         /\ requestPath \in {"unset", path}
         /\ parser' \in {"none", "mcp"} /\ parserAttempted' \in BOOLEAN
         /\ parser = "mcp" => parser' = "mcp"
         /\ parser' = "mcp" => parserAttempted'
         /\ path = "buffer" /\ requestPath = "unset" => ModeEnabled("pre_call")
         /\ path = "pass" /\ requestPath = "unset" /\ ModeEnabled("pre_call") =>
              eos /\ c \notin reqDoc.parses
<1> DEFINE sniff == ChunkSniff(c, eos)
<1>1. /\ sniff.parser \in {"none", "mcp"}
      /\ sniff.attempted \in BOOLEAN
      /\ parser = "mcp" => sniff.parser = "mcp"
      /\ sniff.parser = "mcp" => sniff.attempted
      /\ sniff.parser = "none" /\ sniff.attempted /\ ~parserAttempted =>
           eos /\ c \notin reqDoc.parses
  BY ChunkSniffProperties
<1>2. /\ RequestPathFor(sniff) = path /\ requestPath' = path
      /\ parser' = sniff.parser /\ parserAttempted' = sniff.attempted
  BY DEF DecideRequestPath
<1> HIDE DEF sniff
<1>3. requestPath = "unset" => ~parserAttempted
  BY DEF IInv, RequestInv
<1>4. requestPath \in Paths
  BY DEF IInv, TypeOK, RequestTypeOK
<1>5. CASE requestPath # "unset"
  BY <1>1, <1>2, <1>5 DEF RequestPathFor
<1>6. CASE requestPath = "unset"
  <2>1. path = IF ModeEnabled("pre_call") /\ (sniff.parser # "none" \/ ~sniff.attempted)
                 THEN "buffer" ELSE "pass"
    BY <1>2, <1>6 DEF RequestPathFor
  <2> QED  BY <1>1, <1>2, <1>3, <1>6, <2>1
<1> QED  BY <1>5, <1>6

(* The pass-through reply sends on exactly what came.                      *)
LEMMA RequestPassThroughKeeps ==
  ASSUME IInv, NEW n \in Nat, NEW eos \in BOOLEAN, RequestPassThrough(n, eos)
  PROVE  IInv'
<1> DEFINE c == Chunk(reqIn, n)
<1>1. ReceiveRequestBody(n, eos) /\ DecideRequestPath(c, eos, "pass")
  BY DEF RequestPassThrough
<1>2. /\ c \in Seq(Nat) /\ reqIn' \in Seq(Nat) /\ Len(reqIn') <= Size(reqDoc)
      /\ reqIn' = [i \in 1..Len(reqIn') |-> i]
      /\ eos => reqIn' = Whole(reqDoc)
  BY <1>1, RequestBodyArrives
<1>3. /\ requestPath' = "pass" /\ requestPath \in {"unset", "pass"}
      /\ parser' \in {"none", "mcp"} /\ parserAttempted' \in BOOLEAN
      /\ parser = "mcp" => parser' = "mcp"
      /\ parser' = "mcp" => parserAttempted'
      /\ requestPath = "unset" /\ ModeEnabled("pre_call") =>
           eos /\ c \notin reqDoc.parses
  BY <1>1, PathDecision
<1>4. /\ reqPhase = "body" /\ reqPhase' = (IF eos THEN "done" ELSE "body")
      /\ reqGate = "open" \/ (reqGate = "rejected" /\ requestAborted)
      /\ respPhase' = respPhase
      /\ config' = config /\ rpc' = rpc /\ docs' = docs /\ reqDoc' = reqDoc
      /\ Size(reqDoc') = Size(reqDoc) /\ Whole(reqDoc') = Whole(reqDoc)
      /\ responseSideVars' = responseSideVars
  BY <1>1, RequestBodyCommon
<1>5. /\ reqIn' = reqIn \o c /\ reqOut' = reqOut \o c
      /\ reqGate' = (IF eos /\ reqGate = "open" THEN "ended" ELSE reqGate)
      /\ requestBuf' = requestBuf /\ requestAborted' = requestAborted
      /\ requestMetadata' = requestMetadata /\ reqCode' = reqCode /\ reqMasked' = reqMasked
  BY DEF RequestPassThrough, ReceiveRequestBody, ReleaseRequest
<1>6. /\ reqIn \in Seq(Nat) /\ reqOut = reqIn /\ reqGate = "open" /\ ~requestAborted
  BY <1>3, <1>4 DEF IInv, TypeOK, RequestTypeOK, RequestInv
<1> HIDE DEF c
<1>7. reqOut' = reqIn'
  BY <1>5, <1>6
<1>8. StreamTypeOK'
  BY <1>4, <1>5, StreamTypeKept DEF IInv, TypeOK, StreamTypeOK
<1>9. RequestTypeOK'
  BY <1>2, <1>3, <1>4, <1>5, <1>6, <1>7 DEF IInv, TypeOK, RequestTypeOK, Paths, Gates
<1>10. RequestInv'
  BY <1>2, <1>3, <1>4, <1>5, <1>6, <1>7 DEF RequestInv
<1>11. SniffInv'
  <2>1. ModeEnabled("pre_call")' = ModeEnabled("pre_call")
    BY <1>4 DEF ModeEnabled
  <2>2. ModeEnabled("pre_call") => Whole(reqDoc) \notin reqDoc.parses
    <3>1. CASE requestPath = "unset"
      <4>1. reqIn = << >>
        BY <3>1 DEF IInv, RequestInv
      <4>2. reqIn' = c
        BY <4>1, <1>2, <1>5, ConcatEmptySeq
      <4> QED  BY <4>2, <3>1, <1>2, <1>3
    <3>2. CASE requestPath = "pass"
      BY <3>2 DEF IInv, SniffInv
    <3> QED  BY <3>1, <3>2, <1>3
  <2> QED  BY <2>1, <2>2, <1>3, <1>4 DEF SniffInv
<1>12. PreCallInspects'
  BY <1>3, <1>4, <1>11 DEF SniffInv, PreCallInspects
<1>13. ResponseTypeOK' /\ ResponseInv'
  BY <1>3, <1>4, ResponseSideKept DEF IInv, TypeOK, RequestTypeOK
<1> QED  BY <1>8, <1>9, <1>10, <1>11, <1>12, <1>13 DEF IInv, TypeOK

(* After an abort the request side swallows what comes.                    *)
LEMMA RequestSilencedKeeps ==
  ASSUME IInv, NEW n \in Nat, NEW eos \in BOOLEAN, RequestSilenced(n, eos)
  PROVE  IInv'
<1> DEFINE c == Chunk(reqIn, n)
<1>1. ReceiveRequestBody(n, eos) /\ DecideRequestPath(c, eos, "buffer")
  BY DEF RequestSilenced
<1>2. /\ c \in Seq(Nat) /\ reqIn' \in Seq(Nat) /\ Len(reqIn') <= Size(reqDoc)
      /\ reqIn' = [i \in 1..Len(reqIn') |-> i]
  BY <1>1, RequestBodyArrives
<1>3. /\ requestPath' = "buffer" /\ requestPath \in {"unset", "buffer"}
      /\ parser' \in {"none", "mcp"} /\ parserAttempted' \in BOOLEAN
      /\ parser = "mcp" => parser' = "mcp"
      /\ parser' = "mcp" => parserAttempted'
  BY <1>1, PathDecision
<1>4. /\ reqPhase = "body" /\ reqPhase' = (IF eos THEN "done" ELSE "body")
      /\ reqGate = "open" \/ (reqGate = "rejected" /\ requestAborted)
      /\ respPhase' = respPhase
      /\ config' = config /\ rpc' = rpc /\ docs' = docs /\ reqDoc' = reqDoc
      /\ Size(reqDoc') = Size(reqDoc) /\ Whole(reqDoc') = Whole(reqDoc)
      /\ responseSideVars' = responseSideVars
  BY <1>1, RequestBodyCommon
<1>5. /\ requestAborted /\ reqOut' = reqOut \o << >>
      /\ reqGate' = (IF eos /\ reqGate = "open" THEN "ended" ELSE reqGate)
      /\ requestBuf' = requestBuf /\ requestAborted' = requestAborted
      /\ requestMetadata' = requestMetadata /\ reqCode' = reqCode /\ reqMasked' = reqMasked
  BY DEF RequestSilenced, ReleaseRequest
<1>6. reqGate = "rejected" /\ reqOut = << >> /\ reqOut' = << >>
  <2>1. reqGate = "rejected" /\ reqOut = << >>
    BY <1>5 DEF IInv, RequestInv
  <2> QED  BY <2>1, <1>5
<1> HIDE DEF c
<1>8. StreamTypeOK'
  BY <1>4, <1>5, StreamTypeKept DEF IInv, TypeOK, StreamTypeOK
<1>9. RequestTypeOK'
  BY <1>2, <1>3, <1>4, <1>5, <1>6 DEF IInv, TypeOK, RequestTypeOK, Paths, Gates
<1>10. RequestInv'
  BY <1>2, <1>3, <1>4, <1>5, <1>6 DEF RequestInv
<1>11. SniffInv'
  BY <1>3 DEF SniffInv
<1>12. PreCallInspects'
  <2>1. ToSet(reqOut') = {}
    BY <1>5, <1>6 DEF ToSet
  <2> QED  BY <2>1 DEF PreCallInspects, Clean
<1>13. ResponseTypeOK' /\ ResponseInv'
  BY <1>3, <1>4, ResponseSideKept DEF IInv, TypeOK, RequestTypeOK
<1> QED  BY <1>8, <1>9, <1>10, <1>11, <1>12, <1>13 DEF IInv, TypeOK

(* Beyond the cap nothing has gone out, and the buffer is dropped.         *)
LEMMA RequestOversizeKeeps ==
  ASSUME IInv, NEW n \in Nat, NEW eos \in BOOLEAN, RequestOversize(n, eos)
  PROVE  IInv'
<1> DEFINE c == Chunk(reqIn, n)
<1>1. ReceiveRequestBody(n, eos) /\ DecideRequestPath(c, eos, "buffer")
  BY DEF RequestOversize
<1>2. /\ c \in Seq(Nat) /\ reqIn' \in Seq(Nat) /\ Len(reqIn') <= Size(reqDoc)
      /\ reqIn' = [i \in 1..Len(reqIn') |-> i]
  BY <1>1, RequestBodyArrives
<1>3. /\ requestPath' = "buffer" /\ requestPath \in {"unset", "buffer"}
      /\ parser' \in {"none", "mcp"} /\ parserAttempted' \in BOOLEAN
      /\ parser = "mcp" => parser' = "mcp"
      /\ parser' = "mcp" => parserAttempted'
  BY <1>1, PathDecision
<1>4. /\ reqPhase = "body" /\ reqPhase' = (IF eos THEN "done" ELSE "body")
      /\ reqGate = "open" \/ (reqGate = "rejected" /\ requestAborted)
      /\ respPhase' = respPhase
      /\ config' = config /\ rpc' = rpc /\ docs' = docs /\ reqDoc' = reqDoc
      /\ Size(reqDoc') = Size(reqDoc) /\ Whole(reqDoc') = Whole(reqDoc)
      /\ responseSideVars' = responseSideVars
  BY <1>1, RequestBodyCommon
<1>5. /\ ~requestAborted /\ requestAborted' = TRUE /\ requestBuf' = << >>
      /\ reqGate' = "rejected" /\ reqCode' = 413 /\ reqOut' = reqOut
      /\ requestMetadata' = requestMetadata /\ reqMasked' = reqMasked
  BY DEF RequestOversize, RejectRequest
<1>6. reqGate = "open" /\ reqOut = << >>
  BY <1>3, <1>4, <1>5 DEF IInv, RequestInv
<1> HIDE DEF c
<1>8. StreamTypeOK'
  BY <1>4, <1>5, StreamTypeKept DEF IInv, TypeOK, StreamTypeOK
<1>9. RequestTypeOK'
  BY <1>2, <1>3, <1>4, <1>5, <1>6 DEF IInv, TypeOK, RequestTypeOK, Paths, Gates
<1>10. RequestInv'
  BY <1>2, <1>3, <1>4, <1>5, <1>6 DEF RequestInv
<1>11. SniffInv'
  BY <1>3 DEF SniffInv
<1>12. PreCallInspects'
  <2>1. ToSet(reqOut') = {}
    BY <1>5, <1>6 DEF ToSet
  <2> QED  BY <2>1 DEF PreCallInspects, Clean
<1>13. ResponseTypeOK' /\ ResponseInv'
  BY <1>3, <1>4, ResponseSideKept DEF IInv, TypeOK, RequestTypeOK
<1> QED  BY <1>8, <1>9, <1>10, <1>11, <1>12, <1>13 DEF IInv, TypeOK

(* A held chunk joins the buffer.                                          *)
LEMMA RequestHoldKeeps ==
  ASSUME IInv, NEW n \in Nat, RequestHold(n)
  PROVE  IInv'
<1> DEFINE c == Chunk(reqIn, n)
<1>1. ReceiveRequestBody(n, FALSE) /\ DecideRequestPath(c, FALSE, "buffer")
  BY DEF RequestHold
<1>2. /\ c \in Seq(Nat) /\ reqIn' \in Seq(Nat) /\ Len(reqIn') <= Size(reqDoc)
      /\ reqIn' = [i \in 1..Len(reqIn') |-> i]
  BY <1>1, RequestBodyArrives
<1>3. /\ requestPath' = "buffer" /\ requestPath \in {"unset", "buffer"}
      /\ parser' \in {"none", "mcp"} /\ parserAttempted' \in BOOLEAN
      /\ parser = "mcp" => parser' = "mcp"
      /\ parser' = "mcp" => parserAttempted'
  BY <1>1, PathDecision
<1>4. /\ reqPhase = "body" /\ reqPhase' = (IF FALSE THEN "done" ELSE "body")
      /\ reqGate = "open" \/ (reqGate = "rejected" /\ requestAborted)
      /\ respPhase' = respPhase
      /\ config' = config /\ rpc' = rpc /\ docs' = docs /\ reqDoc' = reqDoc
      /\ Size(reqDoc') = Size(reqDoc) /\ Whole(reqDoc') = Whole(reqDoc)
      /\ responseSideVars' = responseSideVars
  BY <1>1, RequestBodyCommon
<1>5. /\ ~requestAborted /\ requestAborted' = requestAborted
      /\ requestBuf' = requestBuf \o c /\ reqIn' = reqIn \o c
      /\ reqOut' = reqOut \o << >> /\ reqGate' = reqGate
      /\ requestMetadata' = requestMetadata /\ reqCode' = reqCode /\ reqMasked' = reqMasked
  BY DEF RequestHold, ReleaseRequest, ReceiveRequestBody
<1>6. reqGate = "open" /\ reqOut = << >> /\ reqOut' = << >> /\ requestBuf' = reqIn'
  <2>1. reqGate = "open" /\ reqOut = << >> /\ requestBuf = reqIn
    BY <1>3, <1>4, <1>5 DEF IInv, RequestInv
  <2> QED  BY <2>1, <1>5
<1> HIDE DEF c
<1>8. StreamTypeOK'
  BY <1>4, <1>5, StreamTypeKept DEF IInv, TypeOK, StreamTypeOK
<1>9. RequestTypeOK'
  BY <1>2, <1>3, <1>4, <1>5, <1>6 DEF IInv, TypeOK, RequestTypeOK, Paths, Gates
<1>10. RequestInv'
  BY <1>2, <1>3, <1>4, <1>5, <1>6 DEF RequestInv
<1>11. SniffInv'
  BY <1>3 DEF SniffInv
<1>12. PreCallInspects'
  <2>1. ToSet(reqOut') = {}
    BY <1>5, <1>6 DEF ToSet
  <2> QED  BY <2>1 DEF PreCallInspects, Clean
<1>13. ResponseTypeOK' /\ ResponseInv'
  BY <1>3, <1>4, ResponseSideKept DEF IInv, TypeOK, RequestTypeOK
<1> QED  BY <1>8, <1>9, <1>10, <1>11, <1>12, <1>13 DEF IInv, TypeOK


(* The last message of a buffered request: the buffer is the whole body,   *)
(* and an MCP request is recognised.                                       *)
LEMMA RequestAssembled ==
  ASSUME IInv, NEW n \in Nat, AssembleRequest(n)
  PROVE  /\ requestBuf' = reqIn' /\ reqIn' = Whole(reqDoc) /\ reqIn' \in Seq(Nat)
         /\ Len(reqIn') <= Size(reqDoc)
         /\ reqIn' = [i \in 1..Len(reqIn') |-> i]
         /\ requestPath' = "buffer"
         /\ parser' \in {"none", "mcp"} /\ parserAttempted' \in BOOLEAN
         /\ parser = "mcp" => parser' = "mcp"
         /\ parser' = "mcp" => parserAttempted'
         /\ parser' = "none" => reqIn' = << >> \/ Whole(reqDoc) \notin reqDoc.parses
         /\ ~requestAborted /\ requestAborted' = requestAborted
         /\ reqGate = "open" /\ reqOut = << >>
         /\ reqPhase = "body" /\ reqPhase' = "done" /\ respPhase' = respPhase
         /\ config' = config /\ rpc' = rpc /\ docs' = docs /\ reqDoc' = reqDoc
         /\ Size(reqDoc') = Size(reqDoc) /\ Whole(reqDoc') = Whole(reqDoc)
         /\ responseSideVars' = responseSideVars
<1> DEFINE c == Chunk(reqIn, n)
<1> DEFINE buf == requestBuf \o c
<1>1. ReceiveRequestBody(n, TRUE) /\ RequestPathFor(ChunkSniff(c, TRUE)) = "buffer"
  BY DEF AssembleRequest
<1>2. /\ c \in Seq(Nat) /\ reqIn' \in Seq(Nat) /\ Len(reqIn') <= Size(reqDoc)
      /\ reqIn' = [i \in 1..Len(reqIn') |-> i]
      /\ reqIn' = Whole(reqDoc)
  BY <1>1, RequestBodyArrives
<1>3. /\ reqPhase = "body" /\ reqPhase' = "done"
      /\ reqGate = "open" \/ (reqGate = "rejected" /\ requestAborted)
      /\ respPhase' = respPhase
      /\ config' = config /\ rpc' = rpc /\ docs' = docs /\ reqDoc' = reqDoc
      /\ Size(reqDoc') = Size(reqDoc) /\ Whole(reqDoc') = Whole(reqDoc)
      /\ responseSideVars' = responseSideVars
  BY <1>1, RequestBodyCommon
<1>4. /\ requestPath' = "buffer" /\ ~requestAborted /\ requestAborted' = requestAborted
      /\ requestBuf' = buf /\ reqIn' = reqIn \o c
      /\ parser' = BufferSniff(c, buf).parser
      /\ parserAttempted' = BufferSniff(c, buf).attempted
  BY DEF AssembleRequest, ReceiveRequestBody
<1>5. requestPath \in {"unset", "buffer"}
  BY <1>1 DEF IInv, TypeOK, RequestTypeOK, Paths, RequestPathFor
<1>6. requestBuf = reqIn /\ reqOut = << >> /\ reqGate = "open"
  BY <1>3, <1>4, <1>5 DEF IInv, RequestInv
<1>7. buf = reqIn'
  BY <1>4, <1>6
<1>8. /\ parser' \in {"none", "mcp"} /\ parserAttempted' \in BOOLEAN
      /\ parser = "mcp" => parser' = "mcp"
      /\ parser' = "mcp" => parserAttempted'
      /\ parser' = "none" => buf = << >> \/ buf \notin reqDoc.parses
  BY <1>4, BufferSniffProperties
<1> QED  BY <1>2, <1>3, <1>4, <1>6, <1>7, <1>8

(* The texts found in a document lie at positions of its body.             *)
LEMMA TextsAreNat ==
  ASSUME NEW doc \in Docs, NEW bytes
  PROVE  TextsToInspect(doc, bytes) \subseteq Nat
<1>1. CASE bytes \in doc.parses
  <2>1. bytes \in Seq(Nat)
    BY <1>1 DEF Docs
  <2>2. ToSet(bytes) \subseteq Nat
    BY <2>1, ElementOfSeq, LenProperties DEF ToSet
  <2> QED  BY <2>2 DEF TextsToInspect
<1>2. CASE bytes \notin doc.parses
  BY <1>2 DEF TextsToInspect
<1> QED  BY <1>1, <1>2

(* The request body is a document with a policy entry per position.        *)
LEMMA ReqDocType ==
  ASSUME IInv
  PROVE  reqDoc \in Docs
BY DocAssumption DEF IInv, TypeOK, StreamTypeOK

(* A body has a length.                                                    *)
LEMMA SizeIsNat ==
  ASSUME NEW doc \in Docs
  PROVE  Size(doc) \in Nat
<1>1. doc.policy \in Seq(Verdicts)
  BY DEF Docs
<1> QED  BY <1>1, LenProperties DEF Size

(* The response body is one too.                                           *)
LEMMA RespDocType ==
  ASSUME IInv
  PROVE  respDoc.body \in Docs
BY DocAssumption DEF IInv, TypeOK, StreamTypeOK, Responses

(* A body no parser accepts is no MCP request.                             *)
LEMMA RequestNoParserKeeps ==
  ASSUME IInv, NEW n \in Nat, RequestNoParser(n)
  PROVE  IInv'
<1>1. /\ requestBuf' = reqIn' /\ reqIn' = Whole(reqDoc) /\ reqIn' \in Seq(Nat)
      /\ Len(reqIn') <= Size(reqDoc)
      /\ reqIn' = [i \in 1..Len(reqIn') |-> i]
      /\ requestPath' = "buffer"
      /\ parser' \in {"none", "mcp"} /\ parserAttempted' \in BOOLEAN
      /\ parser = "mcp" => parser' = "mcp"
      /\ parser' = "mcp" => parserAttempted'
      /\ parser' = "none" => reqIn' = << >> \/ Whole(reqDoc) \notin reqDoc.parses
      /\ ~requestAborted /\ requestAborted' = requestAborted
      /\ reqGate = "open" /\ reqOut = << >>
      /\ reqPhase = "body" /\ reqPhase' = "done" /\ respPhase' = respPhase
      /\ config' = config /\ rpc' = rpc /\ docs' = docs /\ reqDoc' = reqDoc
      /\ Size(reqDoc') = Size(reqDoc) /\ Whole(reqDoc') = Whole(reqDoc)
      /\ responseSideVars' = responseSideVars
  BY RequestAssembled DEF RequestNoParser
<1>2. /\ parser' = "none" /\ reqGate' = "ended" /\ reqOut' = reqIn'
      /\ requestMetadata' \subseteq ({"params.arguments"} \X Nat)
      /\ reqCode' = reqCode /\ reqMasked' = reqMasked
  <2>1. reqOut' = << >> \o reqIn'
    BY <1>1 DEF RequestNoParser, ReleaseRequest
  <2>2. reqOut' = reqIn'
    BY <2>1, <1>1, ConcatEmptySeq
  <2> QED  BY <2>2, <1>1 DEF RequestNoParser, ReleaseRequest, IInv, TypeOK, StreamTypeOK
<1>8. StreamTypeOK'
  BY <1>1, <1>2, StreamTypeKept
<1>9. RequestTypeOK'
  BY <1>1, <1>2 DEF IInv, TypeOK, RequestTypeOK, Paths, Gates
<1>10. RequestInv'
  BY <1>1, <1>2 DEF RequestInv
<1>11. SniffInv'
  BY <1>1 DEF SniffInv
<1>12. PreCallInspects'
  <2>1. CASE reqIn' = << >>
    BY <2>1, <1>2 DEF PreCallInspects, Clean, ToSet
  <2>2. CASE Whole(reqDoc) \notin reqDoc.parses
    BY <2>2, <1>1 DEF PreCallInspects
  <2> QED  BY <2>1, <2>2, <1>1, <1>2
<1>13. ResponseTypeOK' /\ ResponseInv'
  BY <1>1, ResponseSideKept DEF IInv, TypeOK, RequestTypeOK
<1> QED  BY <1>8, <1>9, <1>10, <1>11, <1>12, <1>13 DEF IInv, TypeOK

(* inspectAndEmitRequest refuses the body before any of it is out.         *)
LEMMA RequestBlockKeeps ==
  ASSUME IInv, NEW n \in Nat, RequestBlock(n)
  PROVE  IInv'
<1>1. /\ requestBuf' = reqIn' /\ reqIn' = Whole(reqDoc) /\ reqIn' \in Seq(Nat)
      /\ Len(reqIn') <= Size(reqDoc)
      /\ reqIn' = [i \in 1..Len(reqIn') |-> i]
      /\ requestPath' = "buffer"
      /\ parser' \in {"none", "mcp"} /\ parserAttempted' \in BOOLEAN
      /\ parser = "mcp" => parser' = "mcp"
      /\ parser' = "mcp" => parserAttempted'
      /\ parser' = "none" => reqIn' = << >> \/ Whole(reqDoc) \notin reqDoc.parses
      /\ ~requestAborted /\ requestAborted' = requestAborted
      /\ reqGate = "open" /\ reqOut = << >>
      /\ reqPhase = "body" /\ reqPhase' = "done" /\ respPhase' = respPhase
      /\ config' = config /\ rpc' = rpc /\ docs' = docs /\ reqDoc' = reqDoc
      /\ Size(reqDoc') = Size(reqDoc) /\ Whole(reqDoc') = Whole(reqDoc)
      /\ responseSideVars' = responseSideVars
  BY RequestAssembled DEF RequestBlock
<1>2. /\ reqGate' = "rejected" /\ reqOut' = reqOut /\ reqMasked' = reqMasked
      /\ reqCode' = 403
      /\ requestMetadata' \subseteq ({"params.arguments"} \X Nat)
  <2> DEFINE texts == TextsToInspect(reqDoc, requestBuf')
  <2>1. texts \subseteq Nat
    BY ReqDocType, TextsAreNat
  <2>2. PICK recorded \in SUBSET texts :
          requestMetadata' = requestMetadata \cup {RequestTextPath(p) : p \in recorded}
    BY DEF RequestBlock, Rewritten
  <2>3. requestMetadata \subseteq ({"params.arguments"} \X Nat)
    BY DEF IInv, TypeOK, StreamTypeOK
  <2>4. requestMetadata' \subseteq ({"params.arguments"} \X Nat)
    BY <2>1, <2>2, <2>3 DEF RequestTextPath
  <2> QED  BY <2>4 DEF RequestBlock, RejectRequest
<1>8. StreamTypeOK'
  BY <1>1, <1>2, StreamTypeKept
<1>9. RequestTypeOK'
  BY <1>1, <1>2 DEF IInv, TypeOK, RequestTypeOK, Paths, Gates
<1>10. RequestInv'
  BY <1>1, <1>2 DEF RequestInv
<1>11. SniffInv'
  BY <1>1 DEF SniffInv
<1>12. PreCallInspects'
  BY <1>1, <1>2 DEF PreCallInspects, Clean, ToSet
<1>13. ResponseTypeOK' /\ ResponseInv'
  BY <1>1, ResponseSideKept DEF IInv, TypeOK, RequestTypeOK
<1> QED  BY <1>8, <1>9, <1>10, <1>11, <1>12, <1>13 DEF IInv, TypeOK

(* What inspectAndEmitRequest sends on is clean.                           *)
LEMMA RequestEmitKeeps ==
  ASSUME IInv, NEW n \in Nat, RequestEmit(n)
  PROVE  IInv'
<1>1. /\ requestBuf' = reqIn' /\ reqIn' = Whole(reqDoc) /\ reqIn' \in Seq(Nat)
      /\ Len(reqIn') <= Size(reqDoc)
      /\ reqIn' = [i \in 1..Len(reqIn') |-> i]
      /\ requestPath' = "buffer"
      /\ parser' \in {"none", "mcp"} /\ parserAttempted' \in BOOLEAN
      /\ parser = "mcp" => parser' = "mcp"
      /\ parser' = "mcp" => parserAttempted'
      /\ parser' = "none" => reqIn' = << >> \/ Whole(reqDoc) \notin reqDoc.parses
      /\ ~requestAborted /\ requestAborted' = requestAborted
      /\ reqGate = "open" /\ reqOut = << >>
      /\ reqPhase = "body" /\ reqPhase' = "done" /\ respPhase' = respPhase
      /\ config' = config /\ rpc' = rpc /\ docs' = docs /\ reqDoc' = reqDoc
      /\ Size(reqDoc') = Size(reqDoc) /\ Whole(reqDoc') = Whole(reqDoc)
      /\ responseSideVars' = responseSideVars
  BY RequestAssembled DEF RequestEmit
<1> DEFINE texts == TextsToInspect(reqDoc, requestBuf')
<1> DEFINE rewritten == Rewritten(reqDoc, texts)
<1>2. /\ reqGate' = "ended" /\ reqOut' = reqIn' /\ reqCode' = reqCode
      /\ requestMetadata' \subseteq ({"params.arguments"} \X Nat)
      /\ reqMasked' \subseteq Nat
  <2>1. rewritten \subseteq Nat
    BY ReqDocType, TextsAreNat DEF Rewritten
  <2>2. requestMetadata \subseteq ({"params.arguments"} \X Nat)
    BY DEF IInv, TypeOK, StreamTypeOK
  <2>3. requestMetadata' = requestMetadata \cup {RequestTextPath(p) : p \in rewritten}
    BY DEF RequestEmit
  <2> HIDE DEF rewritten
  <2>4. requestMetadata' \subseteq ({"params.arguments"} \X Nat)
    BY <2>1, <2>2, <2>3 DEF RequestTextPath
  <2>5. reqMasked' \subseteq Nat
    <3>1. reqMasked' = IF reqDoc.patchable THEN rewritten ELSE {}
      BY DEF RequestEmit, rewritten
    <3> QED  BY <2>1, <3>1
  <2>6. reqOut' = << >> \o reqIn'
    BY <1>1 DEF RequestEmit, ReleaseRequest
  <2>7. reqOut' = reqIn'
    BY <2>6, <1>1, ConcatEmptySeq
  <2> QED  BY <2>4, <2>5, <2>7, <1>1 DEF RequestEmit, ReleaseRequest
<1>8. StreamTypeOK'
  BY <1>1, <1>2, StreamTypeKept
<1>9. RequestTypeOK'
  BY <1>1, <1>2 DEF IInv, TypeOK, RequestTypeOK, Paths, Gates
<1>10. RequestInv'
  BY <1>1, <1>2 DEF RequestInv
<1>11. SniffInv'
  BY <1>1 DEF SniffInv
<1>12. PreCallInspects'
  <2> SUFFICES ASSUME ModeEnabled("pre_call")', config'.provider = "presidio-api",
                      Whole(reqDoc') \in reqDoc'.parses, reqDoc'.patchable
               PROVE  Clean(reqDoc', reqOut', reqMasked')
    BY DEF PreCallInspects
  <2>1. texts = {p \in ToSet(reqIn') : reqDoc.policy[p] # "none"}
    BY <1>1 DEF TextsToInspect, ProviderCreated
  <2>2. /\ {p \in texts : reqDoc.policy[p] = "block"} = {}
        /\ reqMasked' = {p \in texts : reqDoc.policy[p] = "mask"}
    BY <1>1 DEF RequestEmit, Refused, Rewritten
  <2> HIDE DEF texts, rewritten
  <2>3. \A p \in ToSet(reqIn') :
          reqDoc.policy[p] # "block" /\ (reqDoc.policy[p] = "mask" => p \in reqMasked')
    BY <2>1, <2>2
  <2> QED  BY <2>3, <1>1, <1>2 DEF Clean
<1>13. ResponseTypeOK' /\ ResponseInv'
  BY <1>1, ResponseSideKept DEF IInv, TypeOK, RequestTypeOK
<1> QED  BY <1>8, <1>9, <1>10, <1>11, <1>12, <1>13 DEF IInv, TypeOK

(* Trailers end the direction; what was held is not sent on.               *)
LEMMA RequestTrailersKeeps ==
  ASSUME IInv, RequestTrailers
  PROVE  IInv'
<1>1. /\ reqPhase = "body" /\ reqPhase' = "done"
      /\ config' = config /\ rpc' = rpc /\ docs' = docs /\ reqDoc' = reqDoc
      /\ parser' = parser /\ parserAttempted' = parserAttempted
      /\ requestBuf' = requestBuf /\ requestPath' = requestPath
      /\ requestAborted' = requestAborted /\ requestMetadata' = requestMetadata
      /\ reqIn' = reqIn /\ reqCode' = reqCode /\ reqMasked' = reqMasked
      /\ responseSideVars' = responseSideVars /\ respPhase' = respPhase
  BY DEF RequestTrailers, sniffVars, reqState, docs, responseSideVars
<1>2. /\ reqOut' = reqOut
      /\ reqGate' = (IF reqGate = "open" THEN "ended" ELSE reqGate)
  <2>1. reqOut \in Seq(Nat)
    BY DEF IInv, TypeOK, RequestTypeOK
  <2> QED  BY <2>1, ConcatEmptySeq DEF RequestTrailers, ReleaseRequest
<1>3. StreamTypeOK'
  BY <1>1, StreamTypeKept DEF IInv, TypeOK, StreamTypeOK
<1>4. RequestTypeOK'
  BY <1>1, <1>2 DEF IInv, TypeOK, RequestTypeOK, Gates
<1>5. RequestInv'
  BY <1>1, <1>2 DEF IInv, TypeOK, RequestTypeOK, RequestInv, Gates, Size
<1>6. SniffInv' /\ PreCallInspects'
  BY <1>1, <1>2 DEF IInv, SniffInv, PreCallInspects, ModeEnabled, Clean, Whole, Size
<1>7. ResponseTypeOK' /\ ResponseInv'
  BY <1>1, ResponseSideKept
<1> QED  BY <1>3, <1>4, <1>5, <1>6, <1>7 DEF IInv, TypeOK

-----------------------------------------------------------------------------
(* Each message of the response keeps the invariant.                       *)

(* handleResponseHeaders installs the decoder only with a parser.          *)
LEMMA ResponseHeadersKeeps ==
  ASSUME IInv, NEW eos \in BOOLEAN, ResponseHeaders(eos)
  PROVE  IInv'
<1>1. /\ respPhase = "headers" /\ reqPhase # "headers"
      /\ requestSideVars' = requestSideVars /\ docs' = docs /\ config' = config
      /\ rpc' = rpc /\ requestMetadata' = requestMetadata /\ parser' = parser
  BY DEF ResponseHeaders, requestSideVars, sniffVars
<1>2. /\ skipResponseBody' \in BOOLEAN
      /\ sseDec' \in BOOLEAN
      /\ sseDec' => ModeEnabled("post_call") /\ parser # "none" /\ ~skipResponseBody'
  BY DEF ResponseHeaders
<1>3. /\ respPhase' = (IF eos THEN "done" ELSE "body")
      /\ respGate' = (IF eos THEN "ended" ELSE respGate)
      /\ ssePending' = ssePending /\ sseEmitted' = sseEmitted
      /\ responseBuf' = responseBuf /\ responsePath' = responsePath
      /\ responseAborted' = responseAborted /\ respIn' = respIn /\ respOut' = respOut
      /\ respCode' = respCode /\ respMasked' = respMasked
      /\ respRestored' = respRestored
  BY DEF ResponseHeaders, respState
<1>4. StreamTypeOK'
  BY <1>1, StreamTypeKept DEF IInv, TypeOK, StreamTypeOK
<1>5. RequestTypeOK' /\ RequestInv' /\ SniffInv' /\ PreCallInspects'
  BY <1>1, RequestSideKept
<1>6. ResponseTypeOK'
  BY <1>2, <1>3 DEF IInv, TypeOK, ResponseTypeOK, Gates
<1>7. ModeEnabled("post_call")' = ModeEnabled("post_call")
  BY <1>1 DEF ModeEnabled
<1>8. /\ responsePath = "unset" /\ ~sseDec /\ ~responseAborted
      /\ respIn = << >> /\ respOut = << >> /\ ssePending = << >> /\ responseBuf = << >>
      /\ respGate = "open" /\ ~sseEmitted
  BY <1>1 DEF IInv, TypeOK, ResponseTypeOK, Gates, ResponseInv
<1>9. << >> = << >> \o << >>
  BY EmptySeq, ConcatEmptySeq
<1>10. ResponseInv'
  BY <1>1, <1>2, <1>3, <1>7, <1>8, <1>9 DEF ResponseInv
<1> QED  BY <1>4, <1>5, <1>6, <1>10 DEF IInv, TypeOK

(* What every body message of the response leaves alone.                   *)
LEMMA ResponseBodyCommon ==
  ASSUME IInv, NEW n \in Nat, NEW eos \in BOOLEAN, ReceiveResponseBody(n, eos)
  PROVE  /\ respPhase = "body"
         /\ respGate = "open" \/ (respGate \in {"cut", "rejected"} /\ responseAborted)
         /\ respGate = "open" => ~responseAborted
         /\ skipResponseBody' = skipResponseBody /\ parser' = parser
         /\ ModeEnabled("post_call")' = ModeEnabled("post_call")
         /\ respDoc' = respDoc
         /\ StreamTypeOK' /\ RequestTypeOK' /\ RequestInv' /\ SniffInv' /\ PreCallInspects'
<1>1. /\ respPhase = "body" /\ skipResponseBody' = skipResponseBody
      /\ requestSideVars' = requestSideVars /\ docs' = docs /\ config' = config
      /\ rpc' = rpc /\ requestMetadata' = requestMetadata
  BY DEF ReceiveResponseBody
<1>2. respGate = "open" \/ (respGate \in {"cut", "rejected"} /\ responseAborted)
  BY <1>1 DEF IInv, TypeOK, ResponseTypeOK, Gates, ResponseInv
<1>3. respGate = "open" => ~responseAborted
  BY DEF IInv, ResponseInv
<1>4. parser' = parser /\ respDoc' = respDoc
  BY <1>1 DEF requestSideVars, sniffVars, docs
<1>5. ModeEnabled("post_call")' = ModeEnabled("post_call")
  BY <1>1 DEF ModeEnabled
<1>6. reqPhase # "headers"
  BY <1>1 DEF IInv, RequestInv
<1>7. StreamTypeOK'
  BY <1>1, StreamTypeKept DEF IInv, TypeOK, StreamTypeOK
<1>8. RequestTypeOK' /\ RequestInv' /\ SniffInv' /\ PreCallInspects'
  BY <1>1, <1>6, RequestSideKept
<1> QED  BY <1>1, <1>2, <1>3, <1>4, <1>5, <1>7, <1>8

(* The path decision of a response without decoder.                        *)
LEMMA ResponsePathDecision ==
  ASSUME IInv, NEW n \in Nat, NEW eos \in BOOLEAN, NEW path,
         ReceivePlainResponseBody(n, eos, path)
  PROVE  /\ ReceiveResponseBody(n, eos)
         /\ ~sseDec /\ sseDec' = sseDec /\ ssePending' = ssePending
         /\ sseEmitted' = sseEmitted
         /\ responsePath' = path
         /\ path \in {"buffer", "pass"}
         /\ responsePath \in {"unset", path}
         /\ path = "buffer" =>
              parser # "none" /\ ModeEnabled("post_call") /\ ~skipResponseBody
         /\ path = "pass" => ~responseAborted
         /\ responsePath = "unset" /\ ~responseAborted =>
              respIn = << >> /\ respOut = << >> /\ responseBuf = << >>
<1>1. /\ ReceiveResponseBody(n, eos)
      /\ ~sseDec /\ sseDec' = sseDec /\ ssePending' = ssePending
      /\ sseEmitted' = sseEmitted
      /\ ResponsePathNow = path /\ responsePath' = path
  BY DEF ReceivePlainResponseBody, sseState
<1>2. responsePath \in Paths
  BY DEF IInv, TypeOK, ResponseTypeOK
<1>3. responsePath = "unset" /\ ~responseAborted =>
        respIn = << >> /\ respOut = << >> /\ responseBuf = << >>
  BY <1>1 DEF IInv, ResponseInv
<1>4. CASE responsePath # "unset"
  BY <1>1, <1>2, <1>3, <1>4 DEF ResponsePathNow, Paths, IInv, ResponseInv
<1>5. CASE responsePath = "unset"
  BY <1>1, <1>3, <1>5 DEF ResponsePathNow, IInv, ResponseInv
<1> QED  BY <1>4, <1>5

(* A response passed through has no decoder and no abort behind it.        *)
LEMMA ResponsePassThroughKeeps ==
  ASSUME IInv, NEW n \in Nat, NEW eos \in BOOLEAN, ResponsePassThrough(n, eos)
  PROVE  IInv'
<1> DEFINE c == Chunk(respIn, n)
<1>1. ReceivePlainResponseBody(n, eos, "pass")
  BY DEF ResponsePassThrough
<1>2. /\ ReceiveResponseBody(n, eos)
      /\ ~sseDec /\ sseDec' = sseDec /\ ssePending' = ssePending
      /\ sseEmitted' = sseEmitted
      /\ responsePath' = "pass" /\ responsePath \in {"unset", "pass"}
      /\ ~responseAborted
      /\ responsePath = "unset" => respIn = << >> /\ respOut = << >> /\ responseBuf = << >>
  BY <1>1, ResponsePathDecision
<1>3. /\ c \in Seq(Nat) /\ respIn' \in Seq(Nat) /\ respIn' = respIn \o c
      /\ Len(c) = n
      /\ respPhase' = (IF eos THEN "done" ELSE "body")
  BY <1>2, ResponseBodyArrives
<1>4. /\ respPhase = "body"
      /\ respGate = "open" \/ (respGate \in {"cut", "rejected"} /\ responseAborted)
      /\ skipResponseBody' = skipResponseBody /\ parser' = parser
      /\ ModeEnabled("post_call")' = ModeEnabled("post_call")
      /\ StreamTypeOK' /\ RequestTypeOK' /\ RequestInv' /\ SniffInv' /\ PreCallInspects'
  BY <1>2, ResponseBodyCommon
<1>5. /\ respOut' = respOut \o c
      /\ respGate' = (IF eos /\ respGate = "open" THEN "ended" ELSE respGate)
      /\ responseBuf' = responseBuf /\ responseAborted' = responseAborted
      /\ respCode' = respCode /\ respMasked' = respMasked /\ respRestored' = respRestored
  BY DEF ResponsePassThrough, ReleaseResponse
<1>6. respGate = "open" /\ respOut = respIn
  BY <1>2, <1>4 DEF IInv, ResponseInv
<1> HIDE DEF c
<1>7. respOut' = respIn'
  BY <1>3, <1>5, <1>6
<1>8. ResponseTypeOK'
  BY <1>2, <1>3, <1>4, <1>5, <1>6, <1>7 DEF IInv, TypeOK, ResponseTypeOK, Paths, Gates
<1>9. respIn' = << >> => responseBuf' = << >> /\ ssePending' = << >>
  <2>1. respIn \in Seq(Nat)
    BY DEF IInv, TypeOK, ResponseTypeOK
  <2>2. respIn' = << >> => respIn = << >>
    BY <2>1, <1>3, ConcatIsEmpty
  <2> QED  BY <2>2, <1>2, <1>5 DEF IInv, ResponseInv
<1>10. ResponseInv'
  BY <1>2, <1>3, <1>4, <1>5, <1>6, <1>7, <1>9 DEF ResponseInv
<1> QED  BY <1>4, <1>8, <1>10 DEF IInv, TypeOK

(* After an abort the response side swallows what comes.                   *)
LEMMA ResponseSilencedKeeps ==
  ASSUME IInv, NEW n \in Nat, NEW eos \in BOOLEAN, ResponseSilenced(n, eos)
  PROVE  IInv'
<1> DEFINE c == Chunk(respIn, n)
<1>1. ReceivePlainResponseBody(n, eos, "buffer")
  BY DEF ResponseSilenced
<1>2. /\ ReceiveResponseBody(n, eos)
      /\ ~sseDec /\ sseDec' = sseDec /\ ssePending' = ssePending
      /\ sseEmitted' = sseEmitted
      /\ responsePath' = "buffer" /\ responsePath \in {"unset", "buffer"}
      /\ parser # "none" /\ ModeEnabled("post_call") /\ ~skipResponseBody
      /\ responsePath = "unset" /\ ~responseAborted =>
           respIn = << >> /\ respOut = << >> /\ responseBuf = << >>
  BY <1>1, ResponsePathDecision
<1>3. /\ c \in Seq(Nat) /\ respIn' \in Seq(Nat) /\ respIn' = respIn \o c
      /\ respPhase' = (IF eos THEN "done" ELSE "body")
  BY <1>2, ResponseBodyArrives
<1>4. /\ respPhase = "body"
      /\ respGate = "open" \/ (respGate \in {"cut", "rejected"} /\ responseAborted)
      /\ skipResponseBody' = skipResponseBody /\ parser' = parser
      /\ ModeEnabled("post_call")' = ModeEnabled("post_call")
      /\ StreamTypeOK' /\ RequestTypeOK' /\ RequestInv' /\ SniffInv' /\ PreCallInspects'
  BY <1>2, ResponseBodyCommon
<1>5. /\ responseAborted /\ respOut' = respOut \o << >>
      /\ respGate' = (IF eos /\ respGate = "open" THEN "ended" ELSE respGate)
      /\ responseBuf' = responseBuf /\ responseAborted' = responseAborted
      /\ respCode' = respCode /\ respMasked' = respMasked /\ respRestored' = respRestored
  BY DEF ResponseSilenced, ReleaseResponse
<1>6. respGate \in {"cut", "rejected"} /\ respGate' = respGate /\ respOut' = respOut
  <2>1. respGate \in {"cut", "rejected"}
    BY <1>5 DEF IInv, ResponseInv
  <2>2. respOut \in Seq(Nat)
    BY DEF IInv, TypeOK, ResponseTypeOK
  <2> QED  BY <2>1, <2>2, <1>5, ConcatEmptySeq
<1> HIDE DEF c
<1>7. ResponseTypeOK'
  BY <1>2, <1>3, <1>4, <1>5, <1>6 DEF IInv, TypeOK, ResponseTypeOK, Paths, Gates
<1>8. respIn' = << >> => respIn = << >>
  BY <1>3, ConcatIsEmpty DEF IInv, TypeOK, ResponseTypeOK
<1>9. respIn = << >> => respOut = << >> /\ responseBuf = << >> /\ ssePending = << >>
  BY DEF IInv, ResponseInv
<1>10. ResponseInv'
  BY <1>2, <1>3, <1>4, <1>5, <1>6, <1>8, <1>9 DEF ResponseInv
<1> QED  BY <1>4, <1>7, <1>10 DEF IInv, TypeOK

(* Beyond the cap nothing of the response has gone out.                    *)
LEMMA ResponseOversizeKeeps ==
  ASSUME IInv, NEW n \in Nat, NEW eos \in BOOLEAN, ResponseOversize(n, eos)
  PROVE  IInv'
<1> DEFINE c == Chunk(respIn, n)
<1>1. ReceivePlainResponseBody(n, eos, "buffer")
  BY DEF ResponseOversize
<1>2. /\ ReceiveResponseBody(n, eos)
      /\ ~sseDec /\ sseDec' = sseDec /\ ssePending' = ssePending
      /\ sseEmitted' = sseEmitted
      /\ responsePath' = "buffer" /\ responsePath \in {"unset", "buffer"}
      /\ parser # "none" /\ ModeEnabled("post_call") /\ ~skipResponseBody
      /\ responsePath = "unset" /\ ~responseAborted =>
           respIn = << >> /\ respOut = << >> /\ responseBuf = << >>
  BY <1>1, ResponsePathDecision
<1>3. /\ c \in Seq(Nat) /\ respIn' \in Seq(Nat) /\ respIn' = respIn \o c
      /\ respPhase' = (IF eos THEN "done" ELSE "body")
  BY <1>2, ResponseBodyArrives
<1>4. /\ respPhase = "body"
      /\ respGate = "open" \/ (respGate \in {"cut", "rejected"} /\ responseAborted)
      /\ skipResponseBody' = skipResponseBody /\ parser' = parser
      /\ ModeEnabled("post_call")' = ModeEnabled("post_call")
      /\ StreamTypeOK' /\ RequestTypeOK' /\ RequestInv' /\ SniffInv' /\ PreCallInspects'
  BY <1>2, ResponseBodyCommon
<1>5. /\ ~responseAborted /\ responseAborted' = TRUE /\ responseBuf' = << >>
      /\ respOut' = respOut /\ respGate' = "rejected"
      /\ respCode' = 502 /\ respMasked' = respMasked /\ respRestored' = respRestored
  BY DEF ResponseOversize, RejectResponse
<1>6. respGate = "open" /\ respOut = << >>
  BY <1>2, <1>4, <1>5 DEF IInv, ResponseInv
<1> HIDE DEF c
<1>7. ResponseTypeOK'
  BY <1>2, <1>3, <1>4, <1>5, <1>6 DEF IInv, TypeOK, ResponseTypeOK, Paths, Gates
<1>8. respIn' = << >> => respIn = << >>
  BY <1>3, ConcatIsEmpty DEF IInv, TypeOK, ResponseTypeOK
<1>9. respIn = << >> => respOut = << >> /\ responseBuf = << >> /\ ssePending = << >>
  BY DEF IInv, ResponseInv
<1>10. ResponseInv'
  BY <1>2, <1>3, <1>4, <1>5, <1>6, <1>8, <1>9 DEF ResponseInv
<1> QED  BY <1>4, <1>7, <1>10 DEF IInv, TypeOK

(* A held chunk of the response joins the buffer.                          *)
LEMMA ResponseHoldKeeps ==
  ASSUME IInv, NEW n \in Nat, ResponseHold(n)
  PROVE  IInv'
<1> DEFINE c == Chunk(respIn, n)
<1>1. ReceivePlainResponseBody(n, FALSE, "buffer")
  BY DEF ResponseHold
<1>2. /\ ReceiveResponseBody(n, FALSE)
      /\ ~sseDec /\ sseDec' = sseDec /\ ssePending' = ssePending
      /\ sseEmitted' = sseEmitted
      /\ responsePath' = "buffer" /\ responsePath \in {"unset", "buffer"}
      /\ parser # "none" /\ ModeEnabled("post_call") /\ ~skipResponseBody
      /\ responsePath = "unset" /\ ~responseAborted =>
           respIn = << >> /\ respOut = << >> /\ responseBuf = << >>
  BY <1>1, ResponsePathDecision
<1>3. /\ c \in Seq(Nat) /\ respIn' \in Seq(Nat) /\ respIn' = respIn \o c
      /\ respPhase' = (IF FALSE THEN "done" ELSE "body")
  BY <1>2, ResponseBodyArrives
<1>4. /\ respPhase = "body"
      /\ respGate = "open" \/ (respGate \in {"cut", "rejected"} /\ responseAborted)
      /\ skipResponseBody' = skipResponseBody /\ parser' = parser
      /\ ModeEnabled("post_call")' = ModeEnabled("post_call")
      /\ StreamTypeOK' /\ RequestTypeOK' /\ RequestInv' /\ SniffInv' /\ PreCallInspects'
  BY <1>2, ResponseBodyCommon
<1>5. /\ ~responseAborted /\ responseAborted' = responseAborted
      /\ responseBuf' = responseBuf \o c
      /\ respOut' = respOut \o << >> /\ respGate' = respGate
      /\ respCode' = respCode /\ respMasked' = respMasked /\ respRestored' = respRestored
  BY DEF ResponseHold, ReleaseResponse
<1>6. respGate = "open" /\ respOut' = << >> /\ responseBuf' = respIn'
  <2>1. respGate = "open" /\ respOut = << >> /\ responseBuf = respIn
    BY <1>2, <1>4, <1>5 DEF IInv, ResponseInv
  <2> QED  BY <2>1, <1>3, <1>5
<1> HIDE DEF c
<1>7. ResponseTypeOK'
  BY <1>2, <1>3, <1>4, <1>5, <1>6 DEF IInv, TypeOK, ResponseTypeOK, Paths, Gates
<1>8. respIn' = << >> => respIn = << >>
  BY <1>3, ConcatIsEmpty DEF IInv, TypeOK, ResponseTypeOK
<1>9. respIn = << >> => respOut = << >> /\ responseBuf = << >> /\ ssePending = << >>
  BY DEF IInv, ResponseInv
<1>10. ResponseInv'
  BY <1>2, <1>3, <1>4, <1>5, <1>6, <1>8, <1>9 DEF ResponseInv
<1> QED  BY <1>4, <1>7, <1>10 DEF IInv, TypeOK


(* The last message of a buffered response.                                *)
LEMMA ResponseAssembled ==
  ASSUME IInv, NEW n \in Nat, AssembleResponse(n)
  PROVE  /\ ~sseDec /\ sseDec' = sseDec /\ ssePending' = ssePending
         /\ sseEmitted' = sseEmitted
         /\ responsePath' = "buffer"
         /\ parser # "none" /\ ModeEnabled("post_call") /\ ~skipResponseBody
         /\ respIn' \in Seq(Nat) /\ respPhase' = "done"
         /\ ~responseAborted /\ responseAborted' = responseAborted
         /\ responseBuf' = respIn' /\ respGate = "open" /\ respOut = << >>
         /\ respIn' = << >> => ssePending = << >>
         /\ skipResponseBody' = skipResponseBody /\ parser' = parser /\ respDoc' = respDoc
         /\ ModeEnabled("post_call")' = ModeEnabled("post_call")
         /\ StreamTypeOK' /\ RequestTypeOK' /\ RequestInv' /\ SniffInv' /\ PreCallInspects'
<1> DEFINE c == Chunk(respIn, n)
<1>1. ReceivePlainResponseBody(n, TRUE, "buffer")
  BY DEF AssembleResponse
<1>2. /\ ReceiveResponseBody(n, TRUE)
      /\ ~sseDec /\ sseDec' = sseDec /\ ssePending' = ssePending
      /\ sseEmitted' = sseEmitted
      /\ responsePath' = "buffer" /\ responsePath \in {"unset", "buffer"}
      /\ parser # "none" /\ ModeEnabled("post_call") /\ ~skipResponseBody
      /\ responsePath = "unset" /\ ~responseAborted =>
           respIn = << >> /\ respOut = << >> /\ responseBuf = << >>
  BY <1>1, ResponsePathDecision
<1>3. /\ c \in Seq(Nat) /\ respIn' \in Seq(Nat) /\ respIn' = respIn \o c
      /\ respPhase' = (IF TRUE THEN "done" ELSE "body")
  BY <1>2, ResponseBodyArrives
<1>4. /\ respPhase = "body"
      /\ respGate = "open" \/ (respGate \in {"cut", "rejected"} /\ responseAborted)
      /\ skipResponseBody' = skipResponseBody /\ parser' = parser
      /\ ModeEnabled("post_call")' = ModeEnabled("post_call")
      /\ StreamTypeOK' /\ RequestTypeOK' /\ RequestInv' /\ SniffInv' /\ PreCallInspects'
  BY <1>2, ResponseBodyCommon
<1>5. /\ ~responseAborted /\ responseAborted' = responseAborted
      /\ responseBuf' = responseBuf \o c /\ respPhase' = "done"
  BY <1>3 DEF AssembleResponse
<1>6. respGate = "open" /\ respOut = << >> /\ responseBuf = respIn
  BY <1>2, <1>4, <1>5 DEF IInv, ResponseInv
<1>7. responseBuf' = respIn'
  BY <1>3, <1>5, <1>6
<1>8. respDoc' = respDoc
  BY <1>2, ResponseBodyCommon
<1> HIDE DEF c
<1>9. respIn' = << >> => ssePending = << >>
  <2>1. respIn' = << >> => respIn = << >>
    BY <1>3, ConcatIsEmpty DEF IInv, TypeOK, ResponseTypeOK
  <2> QED  BY <2>1 DEF IInv, ResponseInv
<1> QED  BY <1>2, <1>3, <1>4, <1>5, <1>6, <1>7, <1>8, <1>9

(* inspectAndEmitResponse refuses a body nothing of which is out.          *)
LEMMA ResponseBlockKeeps ==
  ASSUME IInv, NEW n \in Nat, ResponseBlock(n)
  PROVE  IInv'
<1>1. /\ ~sseDec /\ sseDec' = sseDec /\ ssePending' = ssePending
      /\ sseEmitted' = sseEmitted
      /\ responsePath' = "buffer"
      /\ parser # "none" /\ ModeEnabled("post_call") /\ ~skipResponseBody
      /\ respIn' \in Seq(Nat) /\ respPhase' = "done"
      /\ ~responseAborted /\ responseAborted' = responseAborted
      /\ responseBuf' = respIn' /\ respGate = "open" /\ respOut = << >>
      /\ respIn' = << >> => ssePending = << >>
      /\ skipResponseBody' = skipResponseBody /\ parser' = parser /\ respDoc' = respDoc
      /\ ModeEnabled("post_call")' = ModeEnabled("post_call")
      /\ StreamTypeOK' /\ RequestTypeOK' /\ RequestInv' /\ SniffInv' /\ PreCallInspects'
  BY ResponseAssembled DEF ResponseBlock
<1>2. /\ respGate' = "rejected" /\ respOut' = respOut /\ respCode' = 403
      /\ respMasked' = respMasked /\ respRestored' = respRestored
  BY DEF ResponseBlock, RejectResponse
<1>3. ResponseTypeOK'
  BY <1>1, <1>2 DEF IInv, TypeOK, ResponseTypeOK, Paths, Gates
<1>4. ResponseInv'
  BY <1>1, <1>2 DEF ResponseInv
<1> QED  BY <1>1, <1>3, <1>4 DEF IInv, TypeOK

(* inspectAndEmitResponse sends on the whole buffer.                       *)
LEMMA ResponseEmitKeeps ==
  ASSUME IInv, NEW n \in Nat, ResponseEmit(n)
  PROVE  IInv'
<1>1. /\ ~sseDec /\ sseDec' = sseDec /\ ssePending' = ssePending
      /\ sseEmitted' = sseEmitted
      /\ responsePath' = "buffer"
      /\ parser # "none" /\ ModeEnabled("post_call") /\ ~skipResponseBody
      /\ respIn' \in Seq(Nat) /\ respPhase' = "done"
      /\ ~responseAborted /\ responseAborted' = responseAborted
      /\ responseBuf' = respIn' /\ respGate = "open" /\ respOut = << >>
      /\ respIn' = << >> => ssePending = << >>
      /\ skipResponseBody' = skipResponseBody /\ parser' = parser /\ respDoc' = respDoc
      /\ ModeEnabled("post_call")' = ModeEnabled("post_call")
      /\ StreamTypeOK' /\ RequestTypeOK' /\ RequestInv' /\ SniffInv' /\ PreCallInspects'
  BY ResponseAssembled DEF ResponseEmit
<1>2. /\ respGate' = "ended" /\ respOut' = respIn' /\ respCode' = respCode
      /\ respMasked' \subseteq Nat /\ respRestored' \subseteq Nat
  <2> DEFINE texts == TextsToInspect(respDoc.body, responseBuf')
  <2>1. texts \subseteq Nat
    BY RespDocType, TextsAreNat
  <2>2. respRestored' \subseteq texts /\ respMasked' \subseteq texts
    BY DEF ResponseEmit, Restorable, Rewritten
  <2> HIDE DEF texts
  <2>3. respOut' = << >> \o respIn'
    BY <1>1 DEF ResponseEmit, ReleaseResponse
  <2>4. respOut' = respIn'
    BY <2>3, <1>1, ConcatEmptySeq
  <2> QED  BY <2>1, <2>2, <2>4, <1>1 DEF ResponseEmit, ReleaseResponse
<1>3. ResponseTypeOK'
  BY <1>1, <1>2 DEF IInv, TypeOK, ResponseTypeOK, Paths, Gates
<1>4. ResponseInv'
  BY <1>1, <1>2 DEF ResponseInv
<1> QED  BY <1>1, <1>3, <1>4 DEF IInv, TypeOK

(* Trailers of a response: as those of a request.                          *)
LEMMA ResponseTrailersKeeps ==
  ASSUME IInv, ResponseTrailers
  PROVE  IInv'
<1>1. /\ respPhase = "body" /\ respPhase' = "done"
      /\ config' = config /\ rpc' = rpc /\ docs' = docs
      /\ requestMetadata' = requestMetadata
      /\ skipResponseBody' = skipResponseBody /\ responseBuf' = responseBuf
      /\ responsePath' = responsePath /\ responseAborted' = responseAborted
      /\ sseDec' = sseDec /\ ssePending' = ssePending /\ sseEmitted' = sseEmitted
      /\ respIn' = respIn /\ respCode' = respCode /\ respMasked' = respMasked
      /\ respRestored' = respRestored
      /\ requestSideVars' = requestSideVars /\ parser' = parser
  BY DEF ResponseTrailers, respState, sseState, requestSideVars, sniffVars
<1>2. /\ respOut' = respOut
      /\ respGate' = (IF respGate = "open" THEN "ended" ELSE respGate)
  <2>1. respOut \in Seq(Nat)
    BY DEF IInv, TypeOK, ResponseTypeOK
  <2> QED  BY <2>1, ConcatEmptySeq DEF ResponseTrailers, ReleaseResponse
<1>3. StreamTypeOK'
  BY <1>1, StreamTypeKept DEF IInv, TypeOK, StreamTypeOK
<1>4. RequestTypeOK' /\ RequestInv' /\ SniffInv' /\ PreCallInspects'
  <2>1. reqPhase # "headers"
    BY <1>1 DEF IInv, RequestInv
  <2> QED  BY <2>1, <1>1, RequestSideKept
<1>5. ResponseTypeOK'
  BY <1>1, <1>2 DEF IInv, TypeOK, ResponseTypeOK, Gates
<1>6. ModeEnabled("post_call")' = ModeEnabled("post_call")
  BY <1>1 DEF ModeEnabled
<1>7. respGate \in {"open", "cut", "rejected"}
  BY <1>1 DEF IInv, TypeOK, ResponseTypeOK, Gates, ResponseInv
<1>8. ResponseInv'
  BY <1>1, <1>2, <1>6, <1>7 DEF IInv, ResponseInv
<1> QED  BY <1>3, <1>4, <1>5, <1>8 DEF IInv, TypeOK

-----------------------------------------------------------------------------
(* Server-sent events.                                                     *)

(* What the branches of handleSSEResponseBody share.                       *)
LEMMA EventsArrive ==
  ASSUME IInv, NEW n \in Nat, NEW eos \in BOOLEAN, ReceiveEvents(n, eos)
  PROVE  /\ sseDec
         /\ respPhase = "body" /\ respPhase' = (IF eos THEN "done" ELSE "body")
         /\ respIn' \in Seq(Nat)
         /\ responsePath = "unset" /\ responsePath' = responsePath
         /\ responseBuf' = responseBuf
         /\ parser # "none" /\ ModeEnabled("post_call") /\ ~skipResponseBody
         /\ skipResponseBody' = skipResponseBody /\ parser' = parser
         /\ ModeEnabled("post_call")' = ModeEnabled("post_call")
         /\ StreamTypeOK' /\ RequestTypeOK' /\ RequestInv' /\ SniffInv' /\ PreCallInspects'
         /\ respIn' = << >> => respIn = << >> /\ respOut = << >> /\ responseBuf = << >>
                               /\ ssePending = << >>
<1>1. ReceiveResponseBody(n, eos) /\ sseDec
      /\ responseBuf' = responseBuf /\ responsePath' = responsePath
  BY DEF ReceiveEvents
<1>2. /\ Chunk(respIn, n) \in Seq(Nat) /\ respIn' \in Seq(Nat)
      /\ respIn' = respIn \o Chunk(respIn, n)
      /\ respPhase' = (IF eos THEN "done" ELSE "body")
  BY <1>1, ResponseBodyArrives
<1>3. /\ respPhase = "body"
      /\ skipResponseBody' = skipResponseBody /\ parser' = parser
      /\ ModeEnabled("post_call")' = ModeEnabled("post_call")
      /\ StreamTypeOK' /\ RequestTypeOK' /\ RequestInv' /\ SniffInv' /\ PreCallInspects'
  BY <1>1, ResponseBodyCommon
<1>4. /\ responsePath = "unset"
      /\ parser # "none" /\ ModeEnabled("post_call") /\ ~skipResponseBody
  BY <1>1 DEF IInv, ResponseInv
<1>5. respIn' = << >> => respIn = << >>
  <2>1. respIn \in Seq(Nat)
    BY DEF IInv, TypeOK, ResponseTypeOK
  <2> QED  BY <2>1, <1>2, ConcatIsEmpty
<1>6. respIn = << >> => respOut = << >> /\ responseBuf = << >> /\ ssePending = << >>
  BY DEF IInv, ResponseInv
<1> QED  BY <1>1, <1>2, <1>3, <1>4, <1>5, <1>6

(* While nothing is aborted, what arrived is what was released and what the*)
(* decoder now scans.                                                      *)
LEMMA EventsScanned ==
  ASSUME IInv, NEW n \in Nat, NEW eos \in BOOLEAN, ReceiveEvents(n, eos),
         ~responseAborted
  PROVE  LET s == ssePending \o Chunk(respIn, n)
         IN  /\ respGate = "open"
             /\ s \in Seq(Nat)
             /\ respOut \in Seq(Nat)
             /\ respIn' = respOut \o s
             /\ sseEmitted <=> respOut # << >>
<1> DEFINE c == Chunk(respIn, n)
<1>1. ReceiveResponseBody(n, eos) /\ sseDec
  BY DEF ReceiveEvents
<1>2. c \in Seq(Nat) /\ respIn' = respIn \o c
  BY <1>1, ResponseBodyArrives
<1>3. respGate = "open"
  BY <1>1, ResponseBodyCommon
<1>4. respIn = respOut \o ssePending /\ (sseEmitted <=> respOut # << >>)
  BY <1>1, <1>3 DEF IInv, ResponseInv
<1>5. respOut \in Seq(Nat) /\ ssePending \in Seq(Nat)
  BY DEF IInv, TypeOK, ResponseTypeOK
<1> HIDE DEF c
<1>6. Regroups(respOut, ssePending, c)
  BY <1>2, <1>5, JoinsRegroup
<1>7. ssePending \o c \in Seq(Nat)
  BY <1>2, <1>5, ConcatProperties
<1> DEFINE s == ssePending \o c
<1>8. respIn' = respOut \o s
  <2>1. respIn' = (respOut \o ssePending) \o c
    BY <1>2, <1>4
  <2> QED BY <1>6, <2>1 DEF Regroups
<1>9. s \in Seq(Nat)
  BY <1>7
<1>10. s = ssePending \o Chunk(respIn, n)
  BY DEF c
<1> HIDE DEF s
<1> QED  BY <1>3, <1>4, <1>5, <1>8, <1>9, <1>10

(* The texts recorded as rewritten are positions.                          *)
LEMMA MaskEventsType ==
  ASSUME IInv, NEW s, NEW released, MaskEvents(s, released)
  PROVE  respMasked' \subseteq Nat /\ respRestored' \subseteq Nat
<1>1. \A j : EventTexts(s, j) \subseteq Nat
  BY RespDocType, TextsAreNat DEF EventTexts
<1>2. /\ \A j : Restorable(EventTexts(s, j)) \subseteq Nat
      /\ \A j : Rewritten(respDoc.body, FreshEventTexts(s, j)) \subseteq Nat
  BY <1>1 DEF Restorable, Rewritten, FreshEventTexts
<1>3. respMasked \subseteq Nat /\ respRestored \subseteq Nat
  BY DEF IInv, TypeOK, ResponseTypeOK
<1>4. respRestored' \subseteq Nat
  <2>1. PICK restored \in SUBSET UNION {Restorable(EventTexts(s, j)) : j \in released} :
          respRestored' = respRestored \cup
                            (IF respDoc.body.patchable THEN restored ELSE {})
    BY DEF MaskEvents
  <2>2. restored \subseteq Nat
    BY <1>2
  <2> QED  BY <2>1, <2>2, <1>3
<1>5. respMasked' \subseteq Nat
  <2>1. respMasked' = respMasked \cup
          (IF respDoc.body.patchable
             THEN UNION {Rewritten(respDoc.body, FreshEventTexts(s, j)) : j \in released}
             ELSE {})
    BY DEF MaskEvents
  <2>2. UNION {Rewritten(respDoc.body, FreshEventTexts(s, j)) : j \in released} \subseteq Nat
    BY <1>2
  <2> QED  BY <2>1, <2>2, <1>3
<1> QED  BY <1>4, <1>5

(* Chunks behind a refused event are swallowed.                            *)
LEMMA SSESilencedKeeps ==
  ASSUME IInv, NEW n \in Nat, NEW eos \in BOOLEAN, SSESilenced(n, eos)
  PROVE  IInv'
<1>1. /\ sseDec
      /\ respPhase = "body" /\ respPhase' = (IF eos THEN "done" ELSE "body")
      /\ respIn' \in Seq(Nat)
      /\ responsePath = "unset" /\ responsePath' = responsePath
      /\ responseBuf' = responseBuf
      /\ parser # "none" /\ ModeEnabled("post_call") /\ ~skipResponseBody
      /\ skipResponseBody' = skipResponseBody /\ parser' = parser
      /\ ModeEnabled("post_call")' = ModeEnabled("post_call")
      /\ StreamTypeOK' /\ RequestTypeOK' /\ RequestInv' /\ SniffInv' /\ PreCallInspects'
      /\ respIn' = << >> => respIn = << >> /\ respOut = << >> /\ responseBuf = << >>
                            /\ ssePending = << >>
  BY EventsArrive DEF SSESilenced
<1>2. /\ responseAborted /\ responseAborted' = responseAborted
      /\ sseDec' = sseDec /\ ssePending' = ssePending /\ sseEmitted' = sseEmitted
      /\ respCode' = respCode /\ respMasked' = respMasked /\ respRestored' = respRestored
  BY DEF SSESilenced, sseState
<1>3. respGate \in {"cut", "rejected"} /\ respGate' = respGate /\ respOut' = respOut
  <2>1. respGate \in {"cut", "rejected"}
    BY <1>2 DEF IInv, ResponseInv
  <2>2. respOut \in Seq(Nat)
    BY DEF IInv, TypeOK, ResponseTypeOK
  <2> QED  BY <2>1, <2>2, ConcatEmptySeq DEF SSESilenced, ReleaseResponse
<1>4. ResponseTypeOK'
  BY <1>1, <1>2, <1>3 DEF IInv, TypeOK, ResponseTypeOK, Paths, Gates
<1>5. ResponseInv'
  BY <1>1, <1>2, <1>3 DEF ResponseInv
<1> QED  BY <1>1, <1>4, <1>5 DEF IInv, TypeOK

(* handleSSEOversize drops the decoder and records the abort.              *)
LEMMA SSEOversizeKeeps ==
  ASSUME IInv, NEW n \in Nat, NEW eos \in BOOLEAN, SSEOversize(n, eos)
  PROVE  IInv'
<1>1. /\ sseDec
      /\ respPhase = "body" /\ respPhase' = (IF eos THEN "done" ELSE "body")
      /\ respIn' \in Seq(Nat)
      /\ responsePath = "unset" /\ responsePath' = responsePath
      /\ responseBuf' = responseBuf
      /\ parser # "none" /\ ModeEnabled("post_call") /\ ~skipResponseBody
      /\ skipResponseBody' = skipResponseBody /\ parser' = parser
      /\ ModeEnabled("post_call")' = ModeEnabled("post_call")
      /\ StreamTypeOK' /\ RequestTypeOK' /\ RequestInv' /\ SniffInv' /\ PreCallInspects'
      /\ respIn' = << >> => respIn = << >> /\ respOut = << >> /\ responseBuf = << >>
                            /\ ssePending = << >>
  BY EventsArrive DEF SSEOversize
<1>2. /\ responseAborted' = TRUE /\ sseDec' = FALSE /\ ssePending' = << >>
      /\ sseEmitted' = sseEmitted /\ respOut' = respOut
      /\ respGate' \in {"cut", "rejected"} /\ respCode' \in {respCode, 502}
      /\ respMasked' = respMasked /\ respRestored' = respRestored
  BY DEF SSEOversize, RejectResponse
<1>3. ResponseTypeOK'
  <2>1. ssePending' \in Seq(Nat)
    BY <1>2, EmptySeq
  <2>3. responseAborted' \in BOOLEAN /\ sseDec' \in BOOLEAN
    BY <1>2
  <2>2. respGate' \in Gates /\ respCode' \in {0, 403, 502}
    BY <1>2 DEF Gates, IInv, TypeOK, ResponseTypeOK
  <2> QED  BY <1>1, <2>1, <2>2, <2>3, <1>2 DEF IInv, TypeOK, ResponseTypeOK
<1>4. ResponseInv'
  BY <1>1, <1>2 DEF ResponseInv
<1> QED  BY <1>1, <1>3, <1>4 DEF IInv, TypeOK

(* handleSSEBlock releases the events before the refused one.              *)
LEMMA SSEBlockKeeps ==
  ASSUME IInv, NEW n \in Nat, NEW eos \in BOOLEAN, SSEBlock(n, eos)
  PROVE  IInv'
<1>1. /\ sseDec
      /\ respPhase = "body" /\ respPhase' = (IF eos THEN "done" ELSE "body")
      /\ respIn' \in Seq(Nat)
      /\ responsePath = "unset" /\ responsePath' = responsePath
      /\ responseBuf' = responseBuf
      /\ parser # "none" /\ ModeEnabled("post_call") /\ ~skipResponseBody
      /\ skipResponseBody' = skipResponseBody /\ parser' = parser
      /\ ModeEnabled("post_call")' = ModeEnabled("post_call")
      /\ StreamTypeOK' /\ RequestTypeOK' /\ RequestInv' /\ SniffInv' /\ PreCallInspects'
      /\ respIn' = << >> => respIn = << >> /\ respOut = << >> /\ responseBuf = << >>
                            /\ ssePending = << >>
  BY EventsArrive DEF SSEBlock
<1> DEFINE s == ssePending \o Chunk(respIn, n)
<1> DEFINE ends == EventEnds(s, eos)
<1>2. ReceiveEvents(n, eos) /\ ~responseAborted /\ responseAborted' = TRUE /\ sseDec' = sseDec
  BY DEF SSEBlock
<1>3. /\ respGate = "open" /\ s \in Seq(Nat) /\ respOut \in Seq(Nat)
      /\ sseEmitted <=> respOut # << >>
  BY <1>2, EventsScanned
<1>4. PICK i \in ends : \E k \in 0..(i - 1), m \in i..Len(s) :
        /\ FirstRefused(s, ends, i)
        /\ k = EventStart(s, i)
        /\ m = Max({i} \cup EventEnds(s, FALSE))
        /\ ssePending' = SubSeq(s, m + 1, Len(s))
        /\ \/ /\ ~sseEmitted /\ k = 0
              /\ RejectResponse(403)
              /\ UNCHANGED sseEmitted
           \/ /\ sseEmitted \/ k > 0
              /\ respOut' = respOut \o SubSeq(s, 1, k)
              /\ respGate' = "cut"
              /\ sseEmitted' = TRUE
              /\ MaskEvents(s, {j \in ends : j < i})
              /\ UNCHANGED respCode
  BY DEF SSEBlock
<1>5. PICK k \in 0..(i - 1), m \in i..Len(s) :
        /\ ssePending' = SubSeq(s, m + 1, Len(s))
        /\ \/ RejectResponse(403) /\ sseEmitted' = sseEmitted
           \/ /\ respOut' = respOut \o SubSeq(s, 1, k)
              /\ respGate' = "cut"
              /\ sseEmitted' = TRUE
              /\ MaskEvents(s, {j \in ends : j < i})
              /\ respCode' = respCode
  BY <1>4
<1>6. i \in 1..Len(s) /\ k \in 0..Len(s) /\ m \in 0..Len(s)
  <2>1. i \in 1..Len(s)
    BY DEF EventEnds
  <2>2. Len(s) \in Nat
    BY <1>3, LenProperties
  <2> QED  BY <2>1, <2>2
<1> HIDE DEF s, ends
<1>7. ssePending' \in Seq(Nat) /\ SubSeq(s, 1, k) \in Seq(Nat)
  BY <1>3, <1>5, <1>6, SplitAt
<1>8. /\ respGate' \in {"cut", "rejected"} /\ respOut' \in Seq(Nat)
      /\ respCode' \in {respCode, 403} /\ sseEmitted' \in BOOLEAN
      /\ respMasked' \subseteq Nat /\ respRestored' \subseteq Nat
  <2>1. CASE RejectResponse(403) /\ sseEmitted' = sseEmitted
    BY <2>1, <1>3 DEF RejectResponse, IInv, TypeOK, ResponseTypeOK
  <2>2. CASE /\ respOut' = respOut \o SubSeq(s, 1, k)
             /\ respGate' = "cut"
             /\ sseEmitted' = TRUE
             /\ MaskEvents(s, {j \in ends : j < i})
             /\ respCode' = respCode
    <3>1. respMasked' \subseteq Nat /\ respRestored' \subseteq Nat
      BY <2>2, MaskEventsType
    <3>2. respOut' \in Seq(Nat)
      BY <2>2, <1>3, <1>7, ConcatProperties
    <3> QED  BY <2>2, <3>1, <3>2
  <2> QED  BY <1>5, <2>1, <2>2
<1>9. ResponseTypeOK'
  <2>1. responseAborted' \in BOOLEAN /\ sseDec' \in BOOLEAN
    BY <1>2 DEF IInv, TypeOK, ResponseTypeOK
  <2>2. respGate' \in Gates /\ respCode' \in {0, 403, 502}
    BY <1>8 DEF Gates, IInv, TypeOK, ResponseTypeOK
  <2> QED  BY <1>1, <1>7, <1>8, <2>1, <2>2 DEF IInv, TypeOK, ResponseTypeOK
<1>10. respIn' # << >>
  <2>1. respIn' = respOut \o s
    BY <1>2, EventsScanned DEF s
  <2>2. s # << >>
    BY <1>6, EmptySeq
  <2> QED  BY <2>1, <2>2, <1>3, ConcatIsEmpty
<1>11. ResponseInv'
  BY <1>1, <1>2, <1>8, <1>10 DEF ResponseInv
<1> QED  BY <1>1, <1>9, <1>11 DEF IInv, TypeOK

(* What the decoder still holds continues what was released.               *)
LEMMA SSEEmitKeeps ==
  ASSUME IInv, NEW n \in Nat, NEW eos \in BOOLEAN, SSEEmit(n, eos)
  PROVE  IInv'
<1>1. /\ sseDec
      /\ respPhase = "body" /\ respPhase' = (IF eos THEN "done" ELSE "body")
      /\ respIn' \in Seq(Nat)
      /\ responsePath = "unset" /\ responsePath' = responsePath
      /\ responseBuf' = responseBuf
      /\ parser # "none" /\ ModeEnabled("post_call") /\ ~skipResponseBody
      /\ skipResponseBody' = skipResponseBody /\ parser' = parser
      /\ ModeEnabled("post_call")' = ModeEnabled("post_call")
      /\ StreamTypeOK' /\ RequestTypeOK' /\ RequestInv' /\ SniffInv' /\ PreCallInspects'
      /\ respIn' = << >> => respIn = << >> /\ respOut = << >> /\ responseBuf = << >>
                            /\ ssePending = << >>
  BY EventsArrive DEF SSEEmit
<1> DEFINE s == ssePending \o Chunk(respIn, n)
<1> DEFINE ends == EventEnds(s, eos)
<1>2. /\ ReceiveEvents(n, eos) /\ ~responseAborted
      /\ responseAborted' = responseAborted /\ sseDec' = sseDec /\ respCode' = respCode
      /\ MaskEvents(s, ends)
  BY DEF SSEEmit
<1>3. /\ respGate = "open" /\ s \in Seq(Nat) /\ respOut \in Seq(Nat)
      /\ respIn' = respOut \o s
      /\ sseEmitted <=> respOut # << >>
  BY <1>2, EventsScanned
<1>4. PICK k \in 0..Len(s) :
        /\ k = Max({0} \cup ends)
        /\ ReleaseResponse(SubSeq(s, 1, k), eos)
        /\ ssePending' = SubSeq(s, k + 1, Len(s))
        /\ sseEmitted' = (sseEmitted \/ k > 0)
  BY DEF SSEEmit
<1>5. respMasked' \subseteq Nat /\ respRestored' \subseteq Nat
  BY <1>2, MaskEventsType
<1> HIDE DEF s, ends
<1> DEFINE released == SubSeq(s, 1, k)
<1>6. /\ released \in Seq(Nat) /\ Len(released) = k
      /\ ssePending' \in Seq(Nat)
      /\ released \o ssePending' = s
  BY <1>3, <1>4, SplitAt
<1>7. /\ respOut' = respOut \o released
      /\ respGate' = (IF eos THEN "ended" ELSE "open")
      /\ sseEmitted' <=> (sseEmitted \/ k > 0)
  BY <1>3, <1>4 DEF ReleaseResponse
<1> HIDE DEF released
<1>8. respOut' \in Seq(Nat) /\ respIn' = respOut' \o ssePending'
  <2>1. respOut \o released \in Seq(Nat)
    BY <1>3, <1>6, ConcatProperties
  <2>2. (respOut \o released) \o ssePending' = respOut \o (released \o ssePending')
    BY <1>3, <1>6, JoinAssociative
  <2> QED  BY <2>1, <2>2, <1>3, <1>6, <1>7
<1>9. sseEmitted' <=> respOut' # << >>
  <2>1. CASE k > 0
    <3>1. released # << >>
      BY <2>1, <1>6, EmptySeq
    <3>2. respOut' # << >>
      BY <3>1, <1>3, <1>6, <1>7, ConcatIsEmpty
    <3> QED  BY <2>1, <3>2, <1>7
  <2>2. CASE k = 0
    <3>1. released = << >>
      BY <2>2, <1>6, EmptySeq
    <3>2. respOut' = respOut
      BY <3>1, <1>3, <1>7, ConcatEmptySeq
    <3> QED  BY <2>2, <3>2, <1>3, <1>7
  <2>3. Len(s) \in Nat
    BY <1>3, LenProperties
  <2> QED  BY <2>1, <2>2, <2>3
<1>10. ResponseTypeOK'
  <2>1. sseEmitted' \in BOOLEAN
    BY <1>4
  <2>2. respGate' \in Gates
    BY <1>7 DEF Gates
  <2> QED  BY <1>1, <1>2, <1>5, <1>6, <1>8, <2>1, <2>2 DEF IInv, TypeOK, ResponseTypeOK
<1>11. respIn' = << >> => respOut' = << >> /\ ssePending' = << >>
  BY <1>6, <1>8, ConcatIsEmpty
<1>12. ResponseInv'
  BY <1>1, <1>2, <1>7, <1>8, <1>9, <1>11 DEF ResponseInv
<1> QED  BY <1>1, <1>10, <1>12 DEF IInv, TypeOK

(* The end of the stream changes nothing but the stream.                   *)
LEMMA CloseKeeps ==
  ASSUME IInv, Close
  PROVE  IInv'
<1>1. /\ requestSideVars' = requestSideVars /\ responseSideVars' = responseSideVars
      /\ config' = config /\ docs' = docs /\ parser' = parser /\ respPhase' = respPhase
      /\ rpc' \in {"open", "closed"} /\ requestMetadata' = requestMetadata
  BY DEF Close, requestSideVars, responseSideVars, sniffVars
<1>2. StreamTypeOK'
  BY <1>1 DEF IInv, TypeOK, StreamTypeOK, docs
<1>3. reqPhase = "headers" => respPhase' = "headers"
  BY <1>1 DEF IInv, RequestInv
<1>4. RequestTypeOK' /\ RequestInv' /\ SniffInv' /\ PreCallInspects'
  BY <1>1, <1>3, RequestSideKept
<1>5. ResponseTypeOK' /\ ResponseInv'
  BY <1>1, ResponseSideKept
<1> QED  BY <1>2, <1>4, <1>5 DEF IInv, TypeOK

(* A handler that returns without a change keeps everything.               *)
LEMMA StutterKeeps ==
  ASSUME IInv, UNCHANGED vars
  PROVE  IInv'
<1>1. /\ requestSideVars' = requestSideVars /\ responseSideVars' = responseSideVars
      /\ config' = config /\ docs' = docs /\ parser' = parser /\ respPhase' = respPhase
      /\ rpc' = rpc /\ requestMetadata' = requestMetadata
  BY DEF vars, requestSideVars, responseSideVars, sniffVars
<1>2. StreamTypeOK'
  BY <1>1, StreamTypeKept DEF IInv, TypeOK, StreamTypeOK
<1>3. reqPhase = "headers" => respPhase' = "headers"
  BY <1>1 DEF IInv, RequestInv
<1>4. RequestTypeOK' /\ RequestInv' /\ SniffInv' /\ PreCallInspects'
  BY <1>1, <1>3, RequestSideKept
<1>5. ResponseTypeOK' /\ ResponseInv'
  BY <1>1, ResponseSideKept
<1> QED  BY <1>2, <1>4, <1>5 DEF IInv, TypeOK

-----------------------------------------------------------------------------
(* The invariant of the stream.                                            *)

(* A new streamState satisfies the invariant.                              *)
LEMMA InitIInv == Init => IInv
<1> SUFFICES ASSUME Init PROVE IInv
  OBVIOUS
<1>1. << >> \in Seq(Nat) /\ Len(<< >>) = 0
  BY EmptySeq
<1>2. StreamTypeOK
  BY DEF Init, StreamTypeOK
<1>3. RequestTypeOK
  BY <1>1 DEF Init, RequestTypeOK, Paths, Gates
<1>4. ResponseTypeOK
  BY <1>1 DEF Init, ResponseTypeOK, Paths, Gates
<1>5. RequestInv
  <2>1. Size(reqDoc) \in Nat
    BY <1>2, DocAssumption, SizeIsNat DEF StreamTypeOK
  <2> QED  BY <1>1, <2>1 DEF Init, RequestInv
<1>6. SniffInv
  BY DEF Init, SniffInv
<1>7. ResponseInv
  BY DEF Init, ResponseInv
<1>8. PreCallInspects
  BY DEF Init, PreCallInspects, ModeEnabled
<1> QED  BY <1>2, <1>3, <1>4, <1>5, <1>6, <1>7, <1>8 DEF IInv, TypeOK

(* Every branch of handleRequestBody keeps the invariant.                  *)
LEMMA RequestBodyKeeps ==
  ASSUME IInv, NEW n \in Nat, NEW eos \in BOOLEAN, RequestBody(n, eos)
  PROVE  IInv'
<1>1. CASE RequestPassThrough(n, eos)
  BY <1>1, RequestPassThroughKeeps
<1>2. CASE RequestSilenced(n, eos)
  BY <1>2, RequestSilencedKeeps
<1>3. CASE RequestOversize(n, eos)
  BY <1>3, RequestOversizeKeeps
<1>4. CASE RequestHold(n)
  BY <1>4, RequestHoldKeeps
<1>5. CASE RequestNoParser(n)
  BY <1>5, RequestNoParserKeeps
<1>6. CASE RequestBlock(n)
  BY <1>6, RequestBlockKeeps
<1>7. CASE RequestEmit(n)
  BY <1>7, RequestEmitKeeps
<1> QED  BY <1>1, <1>2, <1>3, <1>4, <1>5, <1>6, <1>7 DEF RequestBody

(* Every branch of handleResponseBody and handleSSEResponseBody keeps it.  *)
LEMMA ResponseBodyKeeps ==
  ASSUME IInv, NEW n \in Nat, NEW eos \in BOOLEAN, ResponseBody(n, eos)
  PROVE  IInv'
<1>1. CASE ResponsePassThrough(n, eos)
  BY <1>1, ResponsePassThroughKeeps
<1>2. CASE ResponseSilenced(n, eos)
  BY <1>2, ResponseSilencedKeeps
<1>3. CASE ResponseOversize(n, eos)
  BY <1>3, ResponseOversizeKeeps
<1>4. CASE ResponseHold(n)
  BY <1>4, ResponseHoldKeeps
<1>5. CASE ResponseBlock(n)
  BY <1>5, ResponseBlockKeeps
<1>6. CASE ResponseEmit(n)
  BY <1>6, ResponseEmitKeeps
<1>7. CASE SSESilenced(n, eos)
  BY <1>7, SSESilencedKeeps
<1>8. CASE SSEOversize(n, eos)
  BY <1>8, SSEOversizeKeeps
<1>9. CASE SSEBlock(n, eos)
  BY <1>9, SSEBlockKeeps
<1>10. CASE SSEEmit(n, eos)
  BY <1>10, SSEEmitKeeps
<1> QED  BY <1>1, <1>2, <1>3, <1>4, <1>5, <1>6, <1>7, <1>8, <1>9, <1>10
         DEF ResponseBody

(* Every message of the stream keeps it.                                   *)
LEMMA NextKeeps == IInv /\ [Next]_vars => IInv'
<1> SUFFICES ASSUME IInv, [Next]_vars PROVE IInv'
  OBVIOUS
<1>1. CASE \E md \in Sources, hdr \in Sources, eos \in BOOLEAN : RequestHeaders(md, hdr, eos)
  BY <1>1, RequestHeadersKeeps
<1>2. CASE SomeRequestBody
  <2>1. Size(reqDoc) \in Nat
    BY ReqDocType, SizeIsNat
  <2>2. PICK n \in 0..Size(reqDoc), eos \in BOOLEAN : RequestBody(n, eos)
    BY <1>2 DEF SomeRequestBody
  <2>3. n \in Nat
    BY <2>1
  <2> QED  BY <2>2, <2>3, RequestBodyKeeps
<1>3. CASE RequestTrailers
  BY <1>3, RequestTrailersKeeps
<1>4. CASE \E eos \in BOOLEAN : ResponseHeaders(eos)
  BY <1>4, ResponseHeadersKeeps
<1>5. CASE SomeResponseBody
  <2>1. Size(respDoc.body) \in Nat
    BY RespDocType, SizeIsNat
  <2>2. PICK n \in 0..Size(respDoc.body), eos \in BOOLEAN : ResponseBody(n, eos)
    BY <1>5 DEF SomeResponseBody
  <2>3. n \in Nat
    BY <2>1
  <2> QED  BY <2>2, <2>3, ResponseBodyKeeps
<1>6. CASE ResponseTrailers
  BY <1>6, ResponseTrailersKeeps
<1>7. CASE Close
  BY <1>7, CloseKeeps
<1>8. CASE UNCHANGED vars
  BY <1>8, StutterKeeps
<1> QED  BY <1>1, <1>2, <1>3, <1>4, <1>5, <1>6, <1>7, <1>8 DEF Next

(* The inductive invariant holds throughout a stream, for every cap, every *)
(* set of bodies and every configuration: each handler of server.go keeps  *)
(* it, whatever the order of the messages.                                 *)
THEOREM InvariantHolds == Spec => []IInv
BY InitIInv, NextKeeps, PTL DEF Spec

(* The fields of streamState keep their types.                             *)
THEOREM TypeCorrect == Spec => []TypeOK
<1>1. IInv => TypeOK
  BY DEF IInv
<1> QED  BY <1>1, InvariantHolds, PTL

(* With pre_call inspection no part of an MCP request goes out uninspected,*)
(* however the body is cut (handleRequestBody and inspectAndEmitRequest).  *)
THEOREM PreCallSafe == Spec => []PreCallInspects
<1>1. IInv => PreCallInspects
  BY DEF IInv
<1> QED  BY <1>1, InvariantHolds, PTL

(* The parser and the configuration that inspectAndEmitResponse and        *)
(* processSSEEvent dereference are always there.                           *)
THEOREM InspectorsAreReady == Spec => []InspectorsReady
<1>1. IInv => InspectorsReady
  BY DEF IInv, ResponseInv, InspectorsReady
<1> QED  BY <1>1, InvariantHolds, PTL

(* A later sniff of other bytes never loses the parser (sniffParser).      *)
LEMMA ParserKept == IInv /\ [Next]_vars => (parser = "mcp" => parser' = "mcp")
<1> SUFFICES ASSUME IInv, [Next]_vars, parser = "mcp" PROVE parser' = "mcp"
  OBVIOUS
<1>1. CASE \E md \in Sources, hdr \in Sources, eos \in BOOLEAN : RequestHeaders(md, hdr, eos)
  BY <1>1 DEF RequestHeaders, sniffVars
<1>2. CASE SomeRequestBody
  <2>1. PICK n \in 0..Size(reqDoc), eos \in BOOLEAN : RequestBody(n, eos)
    BY <1>2 DEF SomeRequestBody
  <2>2. n \in Nat
    BY ReqDocType, SizeIsNat
  <2>3. CASE \E path : DecideRequestPath(Chunk(reqIn, n), eos, path)
    BY <2>3, PathDecision
  <2>4. CASE \E path : DecideRequestPath(Chunk(reqIn, n), FALSE, path)
    BY <2>4, PathDecision
  <2>5. CASE AssembleRequest(n)
    BY <2>2, <2>5, RequestAssembled
  <2> QED  BY <2>1, <2>3, <2>4, <2>5
           DEF RequestBody, RequestPassThrough, RequestSilenced, RequestOversize,
               RequestHold, RequestNoParser, RequestBlock, RequestEmit
<1>3. CASE RequestTrailers
  BY <1>3 DEF RequestTrailers, sniffVars
<1>4. CASE \E eos \in BOOLEAN : ResponseHeaders(eos)
  BY <1>4 DEF ResponseHeaders, requestSideVars, sniffVars
<1>5. CASE SomeResponseBody
  <2>1. PICK n \in 0..Size(respDoc.body), eos \in BOOLEAN : ResponseBody(n, eos)
    BY <1>5 DEF SomeResponseBody
  <2>2. ReceiveResponseBody(n, eos) \/ ReceiveResponseBody(n, FALSE)
          \/ ReceiveResponseBody(n, TRUE)
    BY <2>1 DEF ResponseBody, ResponsePassThrough, ResponseSilenced, ResponseOversize,
         ResponseHold, ResponseBlock, ResponseEmit, AssembleResponse,
         ReceivePlainResponseBody, SSESilenced, SSEOversize, SSEBlock, SSEEmit,
         ReceiveEvents
  <2> QED  BY <2>2 DEF ReceiveResponseBody, requestSideVars, sniffVars
<1>6. CASE ResponseTrailers
  BY <1>6 DEF ResponseTrailers, requestSideVars, sniffVars
<1>7. CASE Close
  BY <1>7 DEF Close, sniffVars
<1>8. CASE UNCHANGED vars
  BY <1>8 DEF vars, sniffVars
<1> QED  BY <1>1, <1>2, <1>3, <1>4, <1>5, <1>6, <1>7, <1>8 DEF Next

(* A parser once selected stays selected, in whatever order the messages of*)
(* the two directions arrive (server.go:295, 347).                         *)
THEOREM ParserStable == Spec => ParserIsStable
BY InvariantHolds, ParserKept, PTL DEF Spec, ParserIsStable
=============================================================================
