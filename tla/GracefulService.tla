--------------------------- MODULE GracefulService ---------------------------
(***************************************************************************)
(* What the adapter promises to those who start and stop it: exchanges     *)
(* begin only while it serves or has just been told to stop, a clean stop  *)
(* comes last and finds none of them under way, and only a failure cuts    *)
(* them off.                                                               *)
(***************************************************************************)
CONSTANT Stream

VARIABLES
  phase,      \* "starting", "serving", "draining", "closing", "stopped" or "failed"
  inFlight    \* streams under way

serviceVars == <<phase, inFlight>>

ServiceInit == phase = "starting" /\ inFlight = {}

Start == phase = "starting" /\ phase' = "serving" /\ UNCHANGED inFlight

Begin(s) ==
  /\ phase \in {"serving", "draining"}
  /\ s \notin inFlight
  /\ inFlight' = inFlight \cup {s}
  /\ UNCHANGED phase

Finish(s) ==
  /\ phase \in {"serving", "draining", "closing"}
  /\ s \in inFlight
  /\ inFlight' = inFlight \ {s}
  /\ UNCHANGED phase

Drain == phase \in {"starting", "serving"} /\ phase' = "draining" /\ UNCHANGED inFlight

CloseDoors == phase = "draining" /\ phase' = "closing" /\ UNCHANGED inFlight

Stop ==
  /\ phase = "closing"
  /\ inFlight = {}
  /\ phase' = "stopped"
  /\ UNCHANGED inFlight

Fail ==
  /\ phase \notin {"stopped", "failed"}
  /\ phase' = "failed"
  /\ inFlight' = {}

ServiceNext ==
  \/ Start \/ Drain \/ CloseDoors \/ Stop \/ Fail
  \/ \E s \in Stream : Begin(s) \/ Finish(s)

ServiceSpec == ServiceInit /\ [][ServiceNext]_serviceVars
=============================================================================
