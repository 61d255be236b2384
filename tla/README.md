# A verification of the guardrail adapter

The adapter is an Envoy external-processing (ext_proc) server.  Envoy opens one
gRPC stream per HTTP exchange and sends it the headers, body chunks and trailers
of the request and of the response; the adapter passes a body on, holds it back
until it is complete, rewrites texts in it, or refuses it, according to what a
guardrail provider (Presidio) says of the texts an MCP parser finds in it.

These TLA+ modules model what one stream does, message by message, the decoder
of event streams on its response path, the recognition of a message and the
rewriting of its texts, the provider's judgement of them, where a stream's
configuration comes from, the process around the streams from its start to its
exit, and what these parts promise.  TLC checks the
promises on small instances; TLAPS proves the most important ones for all
documents, configurations, texts and caps.

## The system

| part | source | state | operations |
|---|---|---|---|
| ext_proc stream | `internal/extproc/server.go` | `streamState`: the configuration, the parser and whether it was sought, per direction a buffer, a path (buffer or pass-through) and an abort flag, the SSE decoder, request metadata | one handler per message kind; `inspectAndEmit*`, `handleSSE*`, `sniffParser` |
| SSE decoder, encoder | `internal/sse` | unscanned bytes, the raw bytes and fields of the event in progress, a sticky error | `Write`, `Flush`, `Encode` |
| parser registry, MCP parser | `internal/protocol`, `internal/mcp` | none that changes | `SelectParser`, `CanParse`, `ParseRequest`, `ParseResponse`, `ReplaceTexts` |
| provider | `internal/provider` | none (an HTTP client) | `ProcessRequest` (analyze, filter, act, anonymize), `ProcessResponse` (deanonymize) |
| configuration | `internal/metadata`, `handleRequestHeaders` | none | `ParseGuardrailConfig`, `LoadGuardrailConfigFile`, `validateGuardrailConfig`, the choice among file, metadata and headers |
| process | `cmd/adapter/main.go` | two servers, a signal channel, three goroutines | startup, health, graceful stop, exit codes |
| logging | `internal/logging` | none | builds a handler |

`Process` reads one message, runs its handler to the end (provider calls are
made inside it) and sends the reply, so the handlers of one stream never overlap
and streams share nothing but the immutable `Server`.  What makes the
stream hard is not parallel execution but order:

- Envoy is configured with `FullDuplexStreamed` bodies (`deploy/local/*/ext-proc-policy.yaml`):
  it does not wait for a reply before it sends the next chunk, and the two
  directions' messages arrive in any order;
- a body is cut into chunks anywhere, and the parser is sought in single chunks
  before it is sought in the assembled body; the response side decides from what
  the request side has found so far;
- a refusal can come when nothing, or when part of the body, is already out, and
  chunks that were in flight keep arriving after it;
- event streams are inspected event by event, so one chunk can hold finished
  events, a refused one and the beginning of another;
- trailers may end a body that never carried `end_of_stream`;
- the stream may end between any two messages, and a provider call may fail.

Goroutines do run in parallel around the streams: the one in `main`, which ends the
process when `Serve` returns, the health server's, which may end it with `os.Exit`,
and the one that waits for a signal.  And settings reach a stream through three
decoders (YAML file, metadata, headers) written apart from each other.

What should be true of each part, and is stated in the modules:

- *stream*: a direction never lets out anything but a prefix of its body, an end
  mark only behind all of it, a rejection only before any of it, and nothing
  after a rejection or an error event; nothing uninspected goes out where the
  configuration asks for inspection; the cap is exact, for a stream of events by the event;
  what is held settles;
  the response side never inspects without a parser.
- *decoder*: its events do not depend on the cuts; it holds exactly the unfinished
  event; the cap is per event and exact; a rewritten event keeps name and id.
- *MCP texts*: every text of a message in the documented form is seen, and a message
  that is none of ours is not touched; a recorded path leads back to its text; exactly
  the masked texts change, in whatever order the maps are walked; a message is never
  half rewritten.
- *provider*: a body passes only with nothing to block in it and everything to
  mask anonymized, whichever call fails; two calls per text amount to one verdict.
- *configuration*: the same settings have the same effect from every source; the file
  cannot be got around; a stream configured for Presidio gets its provider.
- *process*: a signal ends it, open streams are finished first and only a server
  that fails by itself cuts them off, be it the health server that cannot have its address;
  `/health` answers only while the streams have their listener, and once it does it goes on
  until the last stream has ended (before it listens, right after the start, nothing answers);
  the exit code is 0 without a failure.

## The modules

- `BodyGate` is the abstract promise about one direction: `taken` is what Envoy
  handed over, `given` what was released, `gate` the verdict.  It knows no paths,
  buffers or parsers.
- `ExtProcStream` is the stream.  The variables in the first group are the fields of
  `streamState` (`requestPath` stands for the pair `requestPathSet`,
  `requestBuffered`; `sseDec` and `ssePending` for the decoder).  The second group
  is what Envoy sees: how much of each body it has sent (`reqIn`), what was
  released (`reqOut`), the verdict and its status, and which texts were rewritten.
  Each action is one message with its whole handler; the branches of a handler are
  actions of their own (`RequestPassThrough`, `RequestSilenced`,
  `RequestOversize`, `RequestHold`, `RequestNoParser`, `RequestBlock`,
  `RequestEmit`, and likewise for responses and for events) that share the
  reception of the message and the decisions made before the branches.
  An operator `Altered_X` before a definition `X` is a variant with a plausible
  mistake in it, used to see that a property would notice; nothing else uses it.
- `ExtProcProperties` states the properties, the inductive invariant `IInv`, and
  the two claims of the documentation about streams that the code does not meet.
- `SSEDecoder` is the decoder at the level of its lines and the encoder.  `Rounds` is
  the loop of `Write`, byte by byte.  What it is compared with says of a byte sequence
  as a whole where its events end and begin (`BlankEnds`, `BlockStart`, `EventEnds`,
  `TailEnds`) and what the event that ends at a position holds (`IsEventAt`); `Frames`
  relates a list of events to a set of such positions.  No loop occurs in it.
- `McpTexts` is what happens to one message.  `SelectParser`, `CanParse`, `Decodes` and
  `Reads` are the registry and what `encoding/json` accepts for the message types
  (a field in any case, a value of another type as an error, null as absent);
  `PassThrough` and `ExtractTexts` are the two ways out of the extraction.  Then come
  the loop that takes each text to the provider (`KeepText`, `MaskText`,
  `BlockText`) and the loop of `ReplaceTexts` (`ReplaceText`, `ReplaceFails`), both
  over Go maps and so in any order.  A JSON tree is the function from the locations
  of its leaves to their values, and `IsTree` says which functions are one.  `Show`,
  `Path` and `PathOf` write a path as the extraction does; `Look` is a round of the
  loop of `parsePath`, `ParsePath` the loop, and `Targets` what
  `setValueAtPathRecursive` makes of the segments, with `ScansAs` for the number that
  `Sscanf` reads: whether a mask reaches its text, or another, hangs on these characters.
  Keys and paths are sequences of `Symbols`; for a character of more
  than one byte `Wide` gives the characters that `string(ch)` makes of its bytes, which are
  from 128 on and so again of more than one byte (`SymbolAssumption`).
  A conforming message (`Conforming`) is one whose fields have their types.
  It refines the attributes `parses` and `patchable` of a document in `ExtProcStream`.
- `TextPolicy` is what a provider owes the stream: one verdict per text, a body
  passed only when each has been honoured.  `Presidio` is the provider with its
  analyzer and anonymizer calls (one text at a time, a failure possible at either),
  score thresholds, entity actions and the `ALL` entry.  It implements
  `TextPolicy`, which is what the attribute `policy` of a document stands for in
  `ExtProcStream`.
- `GuardrailConfig` holds the decoders, as operators: `ParseGuardrailConfig` with
  `ParseModes` and `ParsePresidioConfig` for the fields of metadata and headers,
  `LoadGuardrailConfigFile` with `ValidateGuardrailConfig` for the file,
  `ParseMetadata`, `HeaderFields` and `HandleRequestHeaders` for the choice among
  them, which is a set of possible configurations because a namespace is taken
  in map order.
- `AdapterProcess` is the process, over `GuardrailConfig`: `main` is the line the main
  goroutine is at, `handler` the goroutine that waits for a signal, `health` the
  health server, `grpc` the gRPC server, `exit` how the process ended.  The steps of
  `StartUp` are main's in their order; `Exit` ends every goroutine at once and cuts
  off what is under way, as `os.Exit` and the return of `main` do.  A stream begins with its
  headers (`OpenStream`, which settles `config`), calls the provider and ends.
- `GracefulService` is what the process promises: exchanges begin and end, the doors
  close, and the clean stop comes last.  `AdapterProcess` implements it.
- `MCExtProcStream`, `MCSSEDecoder`, `MCMcpTexts`, `MCPresidio` and `MCAdapterProcess`
  give TLC documents, answers, configurations, streams, trees, bodies, files and
  headers.
- `DataLemmas`, `ExtProcStream_proofs`, `ExtProcGate_proofs`, `ExtProcAnswer_proofs`,
  `SSEDecoder_proofs`, `McpTexts_proofs`, `Presidio_proofs` and `AdapterProcess_proofs`
  hold the proofs.

How the parts meet: `AdapterProcess` opens streams with the configurations that
`ExtProcStream` then takes as its `Configs`; a document there says of each byte
sequence whether `McpTexts` would recognise it, and of each text what `Presidio`
would answer; `SSEDecoder` justifies that events are cut where the document says.

Abstractions.  A body is the sequence of its positions 1..n, so that a release
shows which bytes went out and in which order; a rewritten byte counts as the byte
it replaces, and `reqMasked`, `respMasked` and `respRestored` say which were
rewritten.  What parsing yields is an attribute of the document: `parses` is the
set of byte sequences (the body or a fragment) that are a JSON-RPC message of
their own, `policy` what the provider says of the text at a position, `patchable`
whether `ReplaceTexts` succeeds.  The provider's calls appear as their outcome: a
call on any text may fail, which is a refusal on the request side and for fresh
response texts.  In `ExtProcStream` an event is the bytes up to a position in
`ends`; `SSEDecoder` is where lines, terminators and fields are modelled, and a
stray blank line, which `Write` drops, occurs only there.  `SSEDecoder` keeps the
data lines of an event as a sequence, which the code joins with newlines.
In `McpTexts` an array has at most three items (`Digits`), a message has at most
one spelling of each field (`Capital`), an object no key twice, the name of a field is
one symbol, and a body is a JSON
object (what is none does not decode, which is the attribute `parses` in
`ExtProcStream`).  A masked body is decoded and encoded as a whole, so an integer that
`float64` does not hold is rounded there (`Decoded`), wherever it stands.  The provider appears there by its answer to a value, in
`Presidio` by what the analyzer can find in a text; an anonymizer that returns the text as it was
is not told apart from one that changed it.  `ProcessResponse` appears only as an
outcome in `ExtProcStream`, where it is never reached (`doc_metadata`).
JSON error bodies, log lines and header mutations are left out.

In `GuardrailConfig` a list of modes is the set of its entries, each a name with or
without white space around it, because `modeEnabled` looks for membership only; a
JSON object is one that decodes (`JsonObjects`) or one that does not
(`Malformed`); endpoints and languages are empty or not.  In `AdapterProcess` the
gRPC server, the HTTP server and the delivery of signals are external and modelled
as `main.go` relies on them: `GracefulStop` first lets streams begin that were on their way
(`TakeSignal`, GOAWAY), then refuses them (`RefuseStreams`) and waits for those under
way (`StopDone`); `Serve` returns only when it is done, and returns an error if the
stop came before it; `signal.Notify` drops a signal for which the channel has no
room, and before it a signal kills.  Each member of `Stream` lives once.
`MaxSignals` and `MaxCalls` bound the signals sent and a stream's provider calls.

Envoy's side is external: the messages of a direction come in order, a chunk is
empty only if it carries `end_of_stream`, a response begins after the request has
been let through or, with `EarlyResponse`, while it is still open; after an
immediate response Envoy may still deliver what it had in flight, which is why
the silent branches exist and are modelled.

## The runs

| run | what is varied | bounds | shows |
|---|---|---|---|
| `stream_ordered` | nine requests (JSON, indented, newline behind it, one JSON text per line, unpatchable, empty, no JSON) and plain, failed, empty and event-stream answers, all cut anywhere; all modes; configuration from metadata, headers, both, neither or unparsable | bodies up to 5, cap 2 | `TypeOK`, `PreCallInspects`, `PostCallInspectsOnceSniffed`, `CapIsExact`, `OversizeIsAnEvent`, `RequestIsGated`, `ResponseIsGated` |
| `stream_duplex` | both directions interleaved, early answers, trailers, fair | bodies up to 4, cap 2 | `InspectorsReady`, `IInv` (`PreCallInspects` is a conjunct), `ParserIsStable`, `HeldRequestSettles`, `HeldResponseSettles` |
| `sse_decoder` | every stream of up to three lines (each field, comments, blank lines, both terminators, a CR before either) and an unterminated tail, cut anywhere | no cap, cap 5 | `FramesAreExact`, `UnfinishedIsHeld`, `EventCapIsExact`, `EncodeRoundTrips` |
| `mcp_texts` | requests with flat, nested and array arguments and with keys that hold dots, brackets, numbers or characters beyond ASCII or are empty; answers with items of two types; every field missing, null, of another type, empty or in capitals; integers of any size; all orders | two or three texts, arrays of two items | `TypeOK`, `PlainKeysAreAddressable`, `RewrittenExactly`, `AllOrNothing`, `ConformingIsMasked`, `OthersPassUntouched` |
| `presidio` | every action map in which `ALL` stands alone; thresholds that are scores, do not parse or are NaN; failures at every call | two texts, two entity types, scores 1 and 2 | `PassedIsClean`, `ImplementsPolicy` |
| `adapter_process` | ten files of which three are accepted, eleven requests with metadata in no, one or two namespaces and headers in two forms; a failure at each step of the start; both servers failing at any moment; signals at any moment | two streams, two signals, one provider call each | `TypeOK`, `ProcessInv`, `OnlyFailuresCut`, `FaultlessShutdown`, `ReadyMeansListening`, `ProbedToTheEnd`, `SourcesAgree`, `PresidioIsCreated`, `ConfiguredByPrecedence`, `ImplementsService`, `SignalEndsProcess` |

The bounds reach what the properties are about: a body is longer than the cap by
two, so that a chunk arrives after the oversize verdict; the cap falls on, below
and above an event's end; answers hold two events with a verdict each and cuts
fall inside, between and behind them; a fragment parses where the body does
not and the other way round; two texts suffice for a path that hits another text and
for a replacement that fails behind one that succeeded; two entity types for a text
that is to be blocked and masked at once; two streams for one that ends and one that begins
while the other is in a call, two signals for one that finds the channel full or the
first under way.  `StaticConfig` is set, and the cap off, in
`doc_post_call_only`.  `SplitRequest`, `EarlyResponse` and `AllowTrailers` are bounds of the
environment and named as such.  Deadlock is not checked: a closed stream, a
flushed decoder, a message that is out, a body with its verdict and a process
that has exited stop.

Each property of a passing run has a variant of the code under which TLC finds it
violated (`PROJECT.json`, "mutants").

## Where the code and its documentation disagree

Each of these is a run that must find a counterexample.

- `doc_trailers` (`BodyPassedOrRejected`): a request that ends with trailers was held
  by the body handler and is never assembled; `handleRequest` acknowledges the
  trailers only (server.go:134).  explanation.adoc:14 promises that a body is passed
  or rejected.  The same holds for buffered responses.
- `doc_post_call_only` (`PostCallInspects`): without `pre_call` the request passes
  through and the assembled body is never sniffed (server.go:322 before :347).
  When the request comes in several chunks the parser is not found and the answer
  is not inspected, against the comment at server.go:290-293.  With `pre_call` also
  on, or once the parser has been found, the property holds for every cut
  (`PostCallInspectsOnceSniffed`).
- `doc_metadata` (`MetadataIsPassedBack`): what `ProcessRequest` returns for a request
  text is stored under the request text's path, and looked up under a response
  text's path; the two name spaces are disjoint, so nothing is passed back
  (reference.adoc:215).
- `doc_array_texts` (`MaskedTextsAreReplaced`): a text that is an item of an array
  is extracted under `params.arguments.input[0]`, but `setValueAtPathRecursive`
  sets a last segment only in an object (parser.go:236); `ReplaceTexts` fails and
  the body goes out as it came, with all its masked texts.  reference.adoc:234 and
  :253 say it is patched at that path.
- `doc_dotted_keys` (`OtherTextsAreKept`): the path of a key with a dot is split at
  the dot (parser.go:127, :193), so the mask is set at another location and the
  text itself stays, against parser.go:152 and reference.adoc:253.
- `doc_catch_all` (`PassedIsClean`): the analyzer is asked only for entity types
  with an entry of their own (presidio.go:135-144); beside such an entry `ALL` judges
  nothing, against presidio.go:30.  Alone it does what it says (`presidio`).

More were read off the modules and have no run.

- A refused answer is rejected with 403 (server.go:922) where reference.adoc:87 and
  :103 say 502.
- A body no parser matches is buffered while that is undecided and may be rejected
  with 413, where reference.adoc:152 speaks of matched requests.
- A block of comments is an event for the decoder, without data and passed on as it
  came, where the comment at decoder.go:129-131 says that none is dispatched.
- The configuration file is accepted with any provider that is not empty and with
  any actions (metadata.go:168-198), where reference.adoc:60-66 says that only
  `presidio-api` is supported and that all fields are validated.  A stream so
  configured gets no provider and its bodies pass; `PresidioIsCreated` is therefore
  about `presidio-api`.
- The metadata namespace is whichever the map iteration yields first
  (server.go:847), not a default one as the comment before it says; with several, a stream may
  go unconfigured although one of them configures it.  `ConfiguredByPrecedence` says
  exactly when.
- An answer that begins before the request's parser has been found, or after a request
  that ended with trailers, passes uninspected (server.go:520).  That is why
  `PostCallInspectsOnceSniffed` is checked with `EarlyResponse` and `AllowTrailers` off; with
  either on, TLC finds it violated.
- A masked body is encoded anew as a whole, so integers above 2^53 are rounded
  elsewhere in it too, in its id for one (`RewrittenExactly` allows for it).
- `encoding/json` reads `Params` or `Text` as the field, `ReplaceTexts` looks for the
  exact key: a text found below such a field is inspected and may be refused, but
  its mask has no place to go, and the body goes out as it came.
- `parsePath` appends `string(ch)` for a byte `ch` (parser.go:213), which is the
  character of that number: a key beyond ASCII is read as another key.  Its text stays
  as it was, secret or not, and since `setValueAtPathRecursive` sets a last segment
  whether the object has that key or not, the mask goes out under a key the body did
  not have, or on the text of another.  `PlainKeysAreAddressable` therefore speaks of
  keys in ASCII; how far this limit and those of `doc_array_texts` and `doc_dotted_keys`
  reach is proved exactly (`OnlyPlainKeysLeadBack`).
- `Sscanf` reads an index from any segment that begins with a number (parser.go:254),
  so the path of a key `a.1b` can lead to an item of the array `a`.
- An event whose name or id ends in a CR (a line `event:x` ended by CR CR LF) loses it when
  it is encoded anew (encoder.go:11-27): the next decoder takes it for a part of the
  terminator.  `EncodeRoundTrips` leaves such events out.
- A threshold `NaN` parses (presidio.go:222) and no score reaches it (presidio.go:203),
  so that every detection it applies to is dropped, where one that does not parse drops
  none; reference.adoc:69 speaks of a number from 0.0 to 1.0.  `PassedIsClean` follows the
  code.
- A signal between `signal.Notify` and `Serve` may make the process exit with 1, and
  before `signal.Notify` it is killed by it; neither cuts a stream off.

## Fairness

`FairSpec` asks for weak fairness of `SomeRequestBody` and `SomeResponseBody`: Envoy
goes on sending a body it has begun, and a handler that was entered returns.  The
second rests on the provider: `http.Client{}` has no timeout (presidio.go:121), so
a provider that never answers holds the stream until Envoy cancels it, which is
`Close`.  No fairness is assumed of `Close`, of headers or of trailers.  Trailers end a
direction and so settle it, although what was held is lost then (`doc_trailers`);
that nothing is lost without them is `RequestIsGated` and `ResponseIsGated`.

`AdapterProcess!FairSpec` asks for weak fairness of `MainStep` and `HandlerStep`, which is
the scheduling of goroutines that can run, and of each stream's `StreamStep`: Envoy
ends a stream some time, or cancels it while the provider is silent.  That is what
`SignalEndsProcess` rests on, for `GracefulStop` has no time limit (main.go:122): a provider that
hangs while Envoy keeps the stream open holds the process for as long.
Nothing is assumed of signals, of failures, of the health server or of requests:
streams may go on beginning until the doors close.  That streams cannot call the
provider for ever is `MaxCalls`.

## What is proved

The theorems hold for every set of documents, configurations and caps that meets
`ConfigAssumption`, `DocAssumption` and `BoundAssumption` of `ExtProcStream`
(the constants have the types the code gives them; TLC evaluates the assumptions
in every run).

`ExtProcStream_proofs`:

- `InvariantHolds`: `Spec => []IInv`, from `InitIInv` and one lemma per action.
- `TypeCorrect`, `PreCallSafe`, `InspectorsAreReady`: its consequences.
- `ParserStable`: `Spec => ParserIsStable`.

`ExtProcGate_proofs`, with `~AllowTrailers`:

- `RequestImplementsGate` and `ResponseImplementsGate`: each direction implements
  `BodyGate`, the initial states and every step.

`ExtProcAnswer_proofs`:

- `CapHolds`: `Spec => []CapIsExact`, from `IInv`: no buffer outgrows the cap, and a 413 or
  502 comes only when more bytes than the cap have arrived.  `CapIsExact` is `RequestCap /\ ResponseCap`
  and inductive relative to `IInv`, which says that a held body is all of what came;
  the event part needs that `TooLarge` picks a longest event (`MaxOfBounded`,
  `TooLargeIsLong`) and that what is left behind the others is within the cap
  (`RestIsSmall`).
- `OversizeHolds`: `Spec => OversizeIsAnEvent`, which `CapHolds` leaves open: that a stream of
  events is broken off for an event too long, at the message that makes it so, and never
  for a long chunk or a long stream.  `EventsWithinCap` is the strengthening: what the decoder has
  released ends where an event does, and no event that has arrived is too long.
  Hence a scan of what is pending finds a long event if and only if all that has arrived
  holds one (`ScanFindsLongEvents`).
- `PostCallSafe`: `Spec => []PostCallInspectsOnceSniffed`, with `~EarlyResponse` and
  `~AllowTrailers`; with either on, TLC finds the property violated.  It says nothing of
  `post_call` alone when the parser is not found from the request, where
  `PostCallInspects` is false (`doc_post_call_only`).  `AnswerInv` is the
  invariant: with `pre_call` the parser has been found by the time the request is let
  through (`ParserInv`); an answer that inspection is owed to is on an inspecting path, with
  a decoder if it is an event stream (`AnswerPathInv`); what the decoder holds
  begins where an event begins and reaches into no other (`EventsInv`).  The last makes the
  events found in a stretch of the body those of the whole body
  (`EventOfTheBody`), however the stretches were cut.

`SSEDecoder_proofs`, for all streams, all cuts of them into chunks and all caps that
meet `StreamAssumption`:

- `DecoderInvHolds`: `Spec => []DecoderInv`.  TLC checked `DecoderInv` first.  It ties what the
  decoder holds to the stream: the lines that have ended have been taken, the fields are
  those of the lines behind the last blank one, what is left of the last line is in
  the buffer, and there is an error if and only if some stretch since a blank line is longer
  than the cap.
- `EventsAreFramed` (`FramesAreExact`), `UnfinishedHeld`
  (`UnfinishedIsHeld`) and `CapHoldsForEvents` (`EventCapIsExact`) follow.
- `EncodedEventsRoundTrip`: `Spec => []EncodeRoundTrips`.  The name and the id of an event
  handed over fit on one line each (`EventsFit`): since `FramesAreExact`, each is a
  field of a line of the stream, and a line holds no terminator.  What `Encode` writes for
  such an event, cut into lines, is the name line, the id line, the line of data and a blank one
  (`EncodingIsOneEvent`), each of which reads back as the field it was written for.

The library's induction theorems cannot be instantiated, so an argument about a loop
is made by the least number for which the statement fails
(`DataLemmas`, `WellFoundedInduction`): that the function `Rounds` defines exists at all,
and that after k rounds it has taken the lines that end within k bytes.  From that,
`Scan` leaves the state `HasTaken` describes, and `Flush` what `TailEnds` says.

`McpTexts_proofs`, for all messages that are trees (`TreeAssumption`), of any depth and
any width of their objects, and keys over any symbols that meet `SymbolAssumption`:

- `TextsInvHolds`: `Spec => []TextsInv`, which relates the replacements to the texts
  inspected so far and the tree under way to the replacements already made: it is the message with
  exactly those masks, provided no mask is set elsewhere (`Exact`).  `TextTypes` and
  `MasksAreExact` (`RewrittenExactly`) follow.
- `PlainKeysLeadBack`: `Spec => []PlainKeysAreAddressable`.  `PathIsRead` says that
  `ParsePath` undoes `Path`: by induction over the steps and, for each key, over its
  symbols, the loop stands behind every step with the segments of the steps so far.
  `NodeReached` then says that these segments lead to one node of a tree, because siblings are
  of one kind.
- `OnlyPlainKeysLeadBack`: `Spec => []OnlyPlainKeysAre`, the converse.  It is no requirement
  but the exact extent of a limitation, and no run checks it: it holds for every nesting of
  dots, brackets and wide characters in the keys.  If a path leads back to its text, the
  loop has as many segments as there are steps, and the segment of each key is that key
  (`AddressIsRead`, `Returns`).  By `ReadOrigins` a segment is a run of letters or what stands
  between brackets, so an empty key, or one with a dot or a bracket, has to be read from
  behind a bracket of the path.  `NoLateOpener` says that no bracket in a key is read as an
  earlier segment: that key would in turn be read from behind a bracket in a later key
  (`OpenedBehind`), and there is a last one.  The first key that is not plain is
  therefore read from behind a bracket of its own, with dots and brackets alone before
  it (`OnlyDotsBefore`); the last bracket of the key recurs behind the key and is that of an
  item (`RecursInItem`), so the key ends with a digit, and yet it repeats
  the dots and brackets it began with (`PeriodicKey`, `KeyIsRun`).  A key with a wide
  character has become longer when the loop is past it, and what is under way only grows
  (`Onward`, `KeyIsNarrow`).  What is left is a path of plain keys, to which `PathIsRead`
  applies: a field in another spelling would have been read as recorded.
- `MasksAreAllOrNothing` (`AllOrNothing`): for plain keys a path leads to its text or, if
  it is an item or below a field in another spelling, nowhere (`OtherSpelling`,
  `PlainIsReached`), and the first that leads nowhere sends the message as it came.
- `ConformingMasked` (`ConformingIsMasked`): `CallIsTaken` and `AnswerIsTaken` say that each
  guarded text of a conforming message is extracted.
- `OthersPass` (`OthersPassUntouched`).

The bounds that remain are those of the model: `Digits` (arrays of three items) and one
spelling of each field.  Attempting these proofs corrected what the properties
said.  A request whose `arguments` is an array, and a response whose `isError` is an object,
do not decode, so a conforming message has its fields of the right types; an error that is an object
is an error too.  TLC now has each of these as an input.

`Presidio_proofs`, for all entity types, scores, bodies and configurations that
meet the assumptions of `Presidio`:

- `ProviderInvHolds`: `Spec => []ProviderInv`.
- `PassedBodiesAreClean`: `Spec => []PassedIsClean`.
- `ProviderImplementsPolicy`: `Spec => ImplementsPolicy`.

They assume `CatchAllAlone`: with `ALL` beside other entries they are false
(`doc_catch_all`).  The lemma that rests on it is `JudgedIsAsked`: an entity some
action other than `ALLOW` judges is one the analyzer is asked for.  `ProviderInv`
adds to the types that every text already answered was answered as its
verdict says, that the text at the anonymizer is one to be masked, and that a
passed body has no text left; `PassedIsClean` alone says nothing of a body under way.

`IInv` is needed because none of the properties is inductive.  `RequestInv` says where
the bytes of the request are: before the path is decided none arrived; on the
pass-through path `reqOut = reqIn`; on the buffering path, as long as the gate is
open, they are all in `requestBuf`.  `ResponseInv` does the same for three places
(`responseBuf`, `ssePending`, `respOut`), and records two facts that are easy to
overlook in the code: after an oversize event the decoder is gone while the path is
still undecided, and what then keeps later chunks from the caller is that the
parser and the configuration which installed the decoder are still there, so that
the buffering path is chosen; and a stream with an abort never takes the
pass-through path.  That needs the parser to be stable, which `SniffInv` supplies:
a parser that was found makes `parserAttempted` true, and the second sniff is
guarded by `parser = "none"`.  `SniffInv` also says that with `pre_call` a body is passed through
only if it is no MCP request: the only final negative sniff of a single chunk is
one that is the whole body.  `PreCallInspects` itself completes the conjunction.
The gate's steps are then read off `IInv`: every release appends to `given` a
sequence that keeps it a prefix of `taken` (`DataLemmas`), and a rejection finds
`given` empty.

The hypothesis `~AllowTrailers` is not a convenience: with trailers the request
direction does not implement the gate (`doc_trailers`).

`AdapterProcess_proofs` begins with lemmas about the decoders of `GuardrailConfig`: what
each returns, and that none yields a `presidio-api` configuration without its section.
For any streams, files, sources and bounds that meet
`ProcessAssumption` and `ConstantsDiffer`:

- `ProcessInvHolds`: `Spec => []ProcessInv`, one lemma per group of steps, and from it
  `ProcessTypes`, `StreamsAreFinished` (`OnlyFailuresCut`), `ShutdownIsClean`
  (`FaultlessShutdown`), `ReadinessIsTrue` (`ReadyMeansListening`) and `LivenessIsProbed`
  (`ProbedToTheEnd`).  `GoroutinesInv` is the strengthening: it says how far main, the
  signal handler and the servers can be ahead of one another, so that `Serve` has
  nothing to return behind before `GracefulStop` has seen the last stream end.
- `ConfigInvHolds` adds to it that the file was accepted and that each stream's
  configuration is one its sources and the file yield; `ProvidersAreCreated`,
  `PrecedenceHolds` and `DecodersAgree` follow.
- `ProcessImplementsService`: `Spec => ImplementsService`.

Only model-checked:

- the liveness properties `HeldRequestSettles`, `HeldResponseSettles` and `SignalEndsProcess`
  (ENABLED and fairness are beyond the prover);
- the six `doc_` runs, which each find a statement of the documentation violated.

Each invariant and each action property of a run that passes is the statement of a theorem.

## Not modelled

Left out for good:

- `internal/logging` reads two environment variables and builds a handler; the only
  effect is on log lines.  Log statements, JSON error bodies, the content-length
  mutation, gRPC reflection and the gRPC health service, manifests and scripts.
- `ProcessResponse` with Presidio's deanonymizer (presidio.go:353-428), except for its outcome in
  `ExtProcStream`.  No state of the program reaches it: it is called for an answer's
  text whose path holds metadata of a request's text, and the former begin with
  `result`, the latter with `params` (`doc_metadata`).
- What Envoy does with a second `end_of_stream` (server.go:650, :761) is not to be seen in
  the repository.
- `AddParser`, which nothing calls.
