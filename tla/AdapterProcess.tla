---------------------------- MODULE AdapterProcess ----------------------------
(***************************************************************************)
(* The adapter's process (cmd/adapter/main.go): the main goroutine, the    *)
(* goroutine of the health server, the goroutine that waits for a signal,  *)
(* and the gRPC server with its ext_proc streams (Process in               *)
(* internal/extproc/server.go).  A stream is taken here from its first     *)
(* message, which settles its configuration, to its end; what it does with *)
(* the bodies is the matter of ExtProcStream.                              *)
(*                                                                         *)
(* os.Exit and the return of main end every goroutine, wherever it is.     *)
(* The gRPC and HTTP servers are external: Serve, GracefulStop and Close   *)
(* are modelled as main.go relies on them.                                 *)
(***************************************************************************)
EXTENDS GuardrailConfig

CONSTANTS
  Stream,        \* ext_proc streams; each lives once
  ConfigFiles,   \* what GUARDRAIL_CONFIG_FILE may name
  Sources,       \* metadata and headers of a request
  NoSources,
  MaxSignals,    \* bound: signals sent to the process
  MaxCalls       \* bound: provider calls of one stream

ASSUME ProcessAssumption ==
  /\ ConfigFiles \subseteq Files
  /\ \A src \in Sources : IsSource(src)
  /\ NoSources \notin Sources
  /\ MaxSignals \in Nat
  /\ MaxCalls \in Nat

VARIABLES
  main,          \* what the main goroutine does next
  exit,          \* "running", an exit code, or "killed" by a signal
  staticConfig,
  lis,           \* the listener of --addr: "none", "bound" or "closed"
  health,        \* the health server: "none", "starting", "up" or "closed"
  notified,      \* signal.Notify has been called
  sigChan,       \* signals in the channel of capacity one
  handler,       \* the goroutine that waits for a signal
  grpc,          \* "new", "serving", "stopping", "refusing" or "stopped"
  stream,        \* stream -> "idle", "open", "calling", "ended" or "cut"
  calls,         \* stream -> provider calls so far
  sources,       \* stream -> what its request carried
  config,        \* stream -> its configuration
  signals,       \* signals sent
  faults         \* a server has failed by itself

signalVars == <<notified, sigChan, signals>>
streamVars == <<stream, calls, sources, config>>
vars == <<main, exit, staticConfig, lis, health, signalVars, handler, grpc, streamVars, faults>>

Running == exit = "running"
InFlight == {s \in Stream : stream[s] \in {"open", "calling"}}

TypeOK ==
  /\ main \in {"flags", "config", "size", "listen", "health", "notify", "handler",
               "serve", "serving"}
  /\ exit \in {"running", "0", "1", "2", "killed"}
  /\ lis \in {"none", "bound", "closed"}
  /\ health \in {"none", "starting", "up", "closed"}
  /\ notified \in BOOLEAN
  /\ sigChan \in 0..1
  /\ handler \in {"none", "waiting", "stopping", "closing", "done"}
  /\ grpc \in {"new", "serving", "stopping", "refusing", "stopped"}
  /\ stream \in [Stream -> {"idle", "open", "calling", "ended", "cut"}]
  /\ calls \in [Stream -> 0..MaxCalls]
  /\ sources \in [Stream -> Sources \cup {NoSources}]
  /\ staticConfig \in GuardrailConfigs \cup {NoConfig}
  /\ config \in [Stream -> GuardrailConfigs \cup {NoConfig}]
  /\ signals \in 0..MaxSignals
  /\ faults \in BOOLEAN

Init ==
  /\ main = "flags"
  /\ exit = "running"
  /\ staticConfig = NoConfig
  /\ lis = "none"
  /\ health = "none"
  /\ notified = FALSE /\ sigChan = 0 /\ signals = 0
  /\ handler = "none"
  /\ grpc = "new"
  /\ stream = [s \in Stream |-> "idle"]
  /\ calls = [s \in Stream |-> 0]
  /\ sources = [s \in Stream |-> NoSources]
  /\ config = [s \in Stream |-> NoConfig]
  /\ faults = FALSE

-----------------------------------------------------------------------------
(* The end of the process: whatever is under way is cut off.               *)
Exit(code) ==
  /\ exit' = code
  /\ stream' = [s \in Stream |-> IF s \in InFlight THEN "cut" ELSE stream[s]]
  /\ calls' = [s \in Stream |-> 0]
  /\ sources' = [s \in Stream |-> NoSources]
  /\ config' = [s \in Stream |-> NoConfig]
  /\ UNCHANGED <<main, staticConfig, lis, health, notified, sigChan, handler, grpc>>

(* The main goroutine.                                                     *)

BadFlag ==
  /\ Running /\ main = "flags"
  /\ Exit("2")
  /\ UNCHANGED <<signals, faults>>

ParseFlags ==
  /\ Running /\ main = "flags"
  /\ main' = "config"
  /\ UNCHANGED <<staticConfig, exit, lis, health, signalVars, handler, grpc, streamVars, faults>>

LoadConfig(file) ==
  /\ Running /\ main = "config"
  /\ LoadGuardrailConfigFile(file) # ParseError
  /\ staticConfig' = LoadGuardrailConfigFile(file)
  /\ main' = "size"
  /\ UNCHANGED <<exit, lis, health, signalVars, handler, grpc, streamVars, faults>>

RejectConfig(file) ==
  /\ Running /\ main = "config"
  /\ LoadGuardrailConfigFile(file) = ParseError
  /\ Exit("1")
  /\ UNCHANGED <<signals, faults>>

WithoutFile ==
  /\ Running /\ main = "config"
  /\ main' = "size"
  /\ UNCHANGED <<staticConfig, exit, lis, health, signalVars, handler, grpc, streamVars, faults>>

(* A size that humanize accepts and an int64 does not.                     *)
SizeTooLarge ==
  /\ Running /\ main = "size"
  /\ Exit("2")
  /\ UNCHANGED <<signals, faults>>

(* Altered: listening is left to Serve.                                    *)
Altered_SizeFits ==
  /\ Running /\ main = "size"
  /\ main' = "health"
  /\ UNCHANGED <<staticConfig, exit, lis, health, signalVars, handler, grpc, streamVars, faults>>

SizeFits ==
  /\ Running /\ main = "size"
  /\ main' = "listen"
  /\ UNCHANGED <<staticConfig, exit, lis, health, signalVars, handler, grpc, streamVars, faults>>

Listen ==
  /\ Running /\ main = "listen"
  /\ lis' = "bound"
  /\ main' = "health"
  /\ UNCHANGED <<staticConfig, exit, health, signalVars, handler, grpc, streamVars, faults>>

ListenFails ==
  /\ Running /\ main = "listen"
  /\ Exit("1")
  /\ UNCHANGED <<signals, faults>>

GoHealth ==
  /\ Running /\ main = "health"
  /\ health' = "starting"
  /\ main' = "notify"
  /\ UNCHANGED <<staticConfig, exit, lis, signalVars, handler, grpc, streamVars, faults>>

(* Altered: the call is forgotten.                                         *)
Altered_Notify ==
  /\ Running /\ main = "notify"
  /\ main' = "handler"
  /\ UNCHANGED <<staticConfig, exit, lis, health, signalVars, handler, grpc, streamVars, faults>>

Notify ==
  /\ Running /\ main = "notify"
  /\ notified' = TRUE
  /\ main' = "handler"
  /\ UNCHANGED <<staticConfig, exit, lis, health, sigChan, signals, handler, grpc, streamVars,
                 faults>>

GoHandler ==
  /\ Running /\ main = "handler"
  /\ handler' = "waiting"
  /\ main' = "serve"
  /\ UNCHANGED <<staticConfig, exit, lis, health, signalVars, grpc, streamVars, faults>>

Serve ==
  /\ Running /\ main = "serve"
  /\ grpc = "new"
  /\ grpc' = "serving"
  /\ main' = "serving"
  /\ UNCHANGED <<staticConfig, exit, lis, health, signalVars, handler, streamVars, faults>>

(* GracefulStop came first: Serve closes the listener and returns an error.*)
ServeStopped ==
  /\ Running /\ main = "serve"
  /\ grpc # "new"
  /\ Exit("1")
  /\ UNCHANGED <<signals, faults>>

(* Accept fails although nobody stopped the server.                        *)
ServeFails ==
  /\ Running /\ main = "serving"
  /\ grpc = "serving"
  /\ Exit("1")
  /\ faults' = TRUE /\ UNCHANGED signals

(* Altered: Serve returns as soon as the listener is closed.               *)
Altered_ServeReturns ==
  /\ Running /\ main = "serving"
  /\ grpc \in {"stopping", "refusing", "stopped"}
  /\ Exit("0")
  /\ UNCHANGED <<signals, faults>>

(* Serve waits for GracefulStop; then main returns.                        *)
ServeReturns ==
  /\ Running /\ main = "serving"
  /\ grpc = "stopped"
  /\ Exit("0")
  /\ UNCHANGED <<signals, faults>>

-----------------------------------------------------------------------------
(* The goroutine of the health server.                                     *)

HealthListens ==
  /\ Running /\ health = "starting"
  /\ health' = "up"
  /\ UNCHANGED <<main, staticConfig, exit, lis, signalVars, handler, grpc, streamVars, faults>>

(* Its address is taken, or accept fails: os.Exit, whatever is under way.  *)
HealthFails ==
  /\ Running /\ health \in {"starting", "up"}
  /\ Exit("1")
  /\ faults' = TRUE /\ UNCHANGED signals

-----------------------------------------------------------------------------
(* Signals and the goroutine that waits for one.                           *)

(* Altered: the channel has no buffer.                                     *)
Altered_Signal ==
  /\ Running /\ notified
  /\ signals < MaxSignals
  /\ signals' = signals + 1
  /\ sigChan' = IF handler = "waiting" THEN 1 ELSE sigChan
  /\ UNCHANGED <<main, staticConfig, exit, lis, health, notified, handler, grpc, streamVars,
                 faults>>

(* Altered: no signal is dropped.                                          *)
AlteredAgain_Signal ==
  /\ Running /\ notified
  /\ signals < MaxSignals
  /\ signals' = signals + 1
  /\ sigChan' = sigChan + 1
  /\ UNCHANGED <<main, staticConfig, exit, lis, health, notified, handler, grpc, streamVars,
                 faults>>

(* The runtime does not wait for room in the channel.                      *)
Signal ==
  /\ Running /\ notified
  /\ signals < MaxSignals
  /\ signals' = signals + 1
  /\ sigChan' = 1
  /\ UNCHANGED <<main, staticConfig, exit, lis, health, notified, handler, grpc, streamVars,
                 faults>>

(* Before signal.Notify a signal has its default effect.                   *)
SignalKills ==
  /\ Running /\ ~notified
  /\ signals < MaxSignals
  /\ Exit("killed")
  /\ signals' = signals + 1 /\ UNCHANGED faults

(* Altered: the health server is closed first.                             *)
Altered_TakeSignal ==
  /\ Running /\ handler = "waiting" /\ sigChan = 1
  /\ sigChan' = 0
  /\ handler' = "stopping"
  /\ grpc' = "stopping"
  /\ lis' = IF grpc = "serving" THEN "closed" ELSE lis
  /\ health' = "closed"
  /\ UNCHANGED <<main, staticConfig, exit, notified, signals, streamVars, faults>>

(* The one receive, and GracefulStop, which closes the listener if Serve   *)
(* has been given it and tells the connected peers to go away.             *)
TakeSignal ==
  /\ Running /\ handler = "waiting" /\ sigChan = 1
  /\ sigChan' = 0
  /\ handler' = "stopping"
  /\ grpc' = "stopping"
  /\ lis' = IF grpc = "serving" THEN "closed" ELSE lis
  /\ UNCHANGED <<main, staticConfig, exit, health, notified, signals, streamVars, faults>>

(* The peers have acknowledged: no stream begins any more.                 *)
RefuseStreams ==
  /\ Running /\ handler = "stopping" /\ grpc = "stopping"
  /\ grpc' = "refusing"
  /\ UNCHANGED <<main, staticConfig, exit, lis, health, signalVars, handler, streamVars, faults>>

(* Altered: Stop instead of GracefulStop.                                  *)
Altered_StopDone ==
  /\ Running /\ handler = "stopping" /\ grpc = "refusing"
  /\ grpc' = "stopped"
  /\ handler' = "closing"
  /\ UNCHANGED <<main, staticConfig, exit, lis, health, signalVars, streamVars, faults>>

(* GracefulStop waits for the streams under way.                           *)
StopDone ==
  /\ Running /\ handler = "stopping" /\ grpc = "refusing"
  /\ InFlight = {}
  /\ grpc' = "stopped"
  /\ handler' = "closing"
  /\ UNCHANGED <<main, staticConfig, exit, lis, health, signalVars, streamVars, faults>>

(* Altered: ErrServerClosed is an error like any other.                    *)
Altered_CloseHealth ==
  /\ Running /\ handler = "closing"
  /\ Exit("1")
  /\ UNCHANGED <<signals, faults>>

(* ListenAndServe returns ErrServerClosed, and its goroutine ends.         *)
CloseHealth ==
  /\ Running /\ handler = "closing"
  /\ handler' = "done"
  /\ health' = "closed"
  /\ UNCHANGED <<main, staticConfig, exit, lis, signalVars, grpc, streamVars, faults>>

-----------------------------------------------------------------------------
(* The streams.                                                            *)

(* The request's headers settle the configuration.                         *)
OpenStream(s, src) ==
  /\ Running /\ grpc \in {"serving", "stopping"} /\ main = "serving"
  /\ stream[s] = "idle"
  /\ stream' = [stream EXCEPT ![s] = "open"]
  /\ sources' = [sources EXCEPT ![s] = src]
  /\ \E c \in HandleRequestHeaders(staticConfig, src.metadata, src.headers) :
       config' = [config EXCEPT ![s] = c]
  /\ UNCHANGED <<main, staticConfig, exit, lis, health, signalVars, handler, grpc, calls, faults>>

(* A text goes to the provider, which has no time limit.                   *)
CallProvider(s) ==
  /\ Running /\ stream[s] = "open"
  /\ CreatesProvider(config[s]) /\ config[s].modes \cap Modes # {}
  /\ calls[s] < MaxCalls
  /\ stream' = [stream EXCEPT ![s] = "calling"]
  /\ calls' = [calls EXCEPT ![s] = @ + 1]
  /\ UNCHANGED <<main, staticConfig, exit, lis, health, signalVars, handler, grpc, sources, config,
                 faults>>

ProviderAnswers(s) ==
  /\ Running /\ stream[s] = "calling"
  /\ stream' = [stream EXCEPT ![s] = "open"]
  /\ UNCHANGED <<main, staticConfig, exit, lis, health, signalVars, handler, grpc, calls, sources,
                 config, faults>>

(* Envoy ends the stream, or cancels it during a call, whose context ends  *)
(* with it.                                                                *)
EndStream(s) ==
  /\ Running /\ s \in InFlight
  /\ stream' = [stream EXCEPT ![s] = "ended"]
  /\ calls' = [calls EXCEPT ![s] = 0]
  /\ sources' = [sources EXCEPT ![s] = NoSources]
  /\ config' = [config EXCEPT ![s] = NoConfig]
  /\ UNCHANGED <<main, staticConfig, exit, lis, health, signalVars, handler, grpc, faults>>

-----------------------------------------------------------------------------
StartUp ==
  \/ BadFlag \/ ParseFlags
  \/ WithoutFile \/ \E file \in ConfigFiles : LoadConfig(file) \/ RejectConfig(file)
  \/ SizeTooLarge \/ SizeFits
  \/ Listen \/ ListenFails
  \/ GoHealth \/ Notify \/ GoHandler \/ Serve

MainStep == StartUp \/ ServeStopped \/ ServeReturns

HandlerStep == TakeSignal \/ RefuseStreams \/ StopDone \/ CloseHealth

StreamStep(s) == CallProvider(s) \/ ProviderAnswers(s) \/ EndStream(s)

Next ==
  \/ MainStep \/ ServeFails
  \/ HealthListens \/ HealthFails
  \/ Signal \/ SignalKills
  \/ HandlerStep
  \/ \E s \in Stream : StreamStep(s) \/ \E src \in Sources : OpenStream(s, src)

Spec == Init /\ [][Next]_vars

(* The runtime schedules every goroutine; Envoy ends its streams, or the   *)
(* provider answers.  Nothing is assumed of signals, failures, or of       *)
(* requests.                                                               *)
FairSpec ==
  /\ Spec
  /\ WF_vars(MainStep)
  /\ WF_vars(HandlerStep)
  /\ \A s \in Stream : WF_vars(StreamStep(s))

-----------------------------------------------------------------------------
(* Only a server that fails by itself cuts streams off, be it the health   *)
(* server that cannot have its address (main.go:108-112): no signal, at    *)
(* whatever moment and however often, and no return of main                *)
(* (main.go:117-131).                                                      *)
OnlyFailuresCut == (\E s \in Stream : stream[s] = "cut") => faults /\ exit = "1"

(* A process that has served and met no failure exits with 0, although     *)
(* Serve, GracefulStop and the health server's ListenAndServe return in    *)
(* three goroutines in any order (main.go:109, 122-123, 128).              *)
FaultlessShutdown == ~Running /\ main = "serving" /\ ~faults => exit = "0"

(* While /health answers, used as the readiness probe (reference.adoc:185),*)
(* the listener of the streams is bound, until a signal is taken           *)
(* (main.go:90, 107).                                                      *)
ReadyMeansListening ==
  Running /\ health = "up" /\ handler \in {"none", "waiting"} => lis = "bound"

(* Once the health server is up it answers the liveness probe as long as a *)
(* stream is under way, also while GracefulStop waits for one and however  *)
(* many signals come: only behind the last it is closed (main.go:122-123). *)
(* Before it listens nothing is answered (main.go:107-109).                *)
ProbedToTheEnd == [][health = "up" /\ InFlight' # {} => health' = "up"]_vars

(* A signal ends the process, even one that comes before its receiver is   *)
(* there (main.go:116), as a second one or during a provider call.         *)
SignalEndsProcess == signals > 0 ~> ~Running

(* The process with its streams is the service that was promised.          *)
Service ==
  INSTANCE GracefulService
    WITH inFlight <- InFlight,
         phase <- CASE exit = "0" -> "stopped"
                    [] exit \in {"1", "2", "killed"} -> "failed"
                    [] Running /\ grpc = "new" -> "starting"
                    [] Running /\ grpc = "serving" -> "serving"
                    [] Running /\ grpc = "stopping" -> "draining"
                    [] OTHER -> "closing"
ImplementsService == Service!ServiceSpec

(* The inductive invariant behind these: how far the goroutines can be     *)
(* ahead of one another.                                                   *)
GoroutinesInv ==
  /\ handler = "none" <=> main \notin {"serve", "serving"}
  /\ notified <=> main \in {"handler", "serve", "serving"}
  /\ health = "none" <=> main \in {"flags", "config", "size", "listen", "health"}
  /\ health = "closed" => handler = "done"
  /\ handler \in {"none", "waiting"} => grpc = IF main = "serving" THEN "serving" ELSE "new"
  /\ handler = "stopping" => grpc \in {"stopping", "refusing"}
  /\ handler \in {"closing", "done"} => grpc = "stopped"
  /\ main \in {"health", "notify", "handler", "serve", "serving"} => lis # "none"
  /\ handler \in {"none", "waiting"} => lis # "closed"

StreamsInv ==
  /\ \A s \in Stream : stream[s] # "idle" => main = "serving"
  /\ InFlight # {} => Running /\ grpc # "stopped"

ProcessInv ==
  TypeOK /\ GoroutinesInv /\ StreamsInv /\ OnlyFailuresCut /\ FaultlessShutdown

-----------------------------------------------------------------------------
(* The configuration of the streams.                                       *)

(* The fields ask for what a file asks for, the modes in any order, padded *)
(* and with empty entries between them.                                    *)
Says(fields, file) ==
  /\ Field(fields, "provider") = file.provider
  /\ {e.name : e \in Field(fields, "mode")} \ {""} = {e.name : e \in file.modes}
  /\ file.presidio # NoPresidio =>
       \A key \in DOMAIN file.presidio : Field(fields, key) = file.presidio[key]

(* The request says what a file says: in every namespace, or, without      *)
(* metadata, by one header for each key.                                   *)
RequestSays(src, file) ==
  \/ /\ DOMAIN src.metadata # {}
     /\ \A ns \in DOMAIN src.metadata :
          src.metadata[ns] # NoStruct /\ Says(src.metadata[ns], file)
  \/ /\ DOMAIN src.metadata = {}
     /\ \A i, j \in DOMAIN src.headers : src.headers[i].key = src.headers[j].key => i = j
     /\ Says(HeaderFields(src.headers), file)

SameEffect(c, d) ==
  /\ c.provider = d.provider
  /\ c.modes = d.modes
  /\ c.provider = "presidio-api" => c.presidio = d.presidio

(* The three decoders agree: a request that says what an acceptable file   *)
(* says gives its stream the configuration that file would give it         *)
(* (metadata.go:55-165 and 168-198, server.go:805-865).                    *)
SourcesAgree ==
  \A s \in InFlight : \A file \in ConfigFiles :
    /\ staticConfig = NoConfig
    /\ LoadGuardrailConfigFile(file) # ParseError
    /\ RequestSays(sources[s], file)
    => config[s] # NoConfig /\ SameEffect(config[s], LoadGuardrailConfigFile(file))

(* createProvider does not fail for a stream configured for presidio-api,  *)
(* whatever its source: a failure there would pass every body uninspected  *)
(* (server.go:415-419, 874-877).                                           *)
PresidioIsCreated ==
  \A s \in InFlight :
    config[s] # NoConfig /\ config[s].provider = "presidio-api" => CreatesProvider(config[s])

(* No request gets around the file the process was started with, and       *)
(* without one a stream is unconfigured only if the headers name no        *)
(* provider or do not decode, and some namespace, if there is any, does    *)
(* neither (server.go:156-187).                                            *)
ConfiguredByPrecedence ==
  \A s \in InFlight :
    /\ staticConfig # NoConfig => config[s] = staticConfig
    /\ config[s] = NoConfig =>
         LET metadata == sources[s].metadata
         IN  /\ Silent(HeaderFields(sources[s].headers))
             /\ DOMAIN metadata # {} =>
                  \E ns \in DOMAIN metadata : metadata[ns] = NoStruct \/ Silent(metadata[ns])
=============================================================================
