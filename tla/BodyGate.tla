------------------------------ MODULE BodyGate ------------------------------
(***************************************************************************)
(* What the adapter promises about one direction of one HTTP exchange,     *)
(* whatever path (pass-through, buffer-until-EOS, frame-aware SSE) the     *)
(* code takes: the proxy hands it the bytes of a body and it either lets   *)
(* them all through in order, or refuses the body before the peer has seen *)
(* any of it, or, once some of it is out, cuts it short with an error      *)
(* event.  After that verdict the peer receives nothing more.  A byte that *)
(* was rewritten (masked) still counts as the byte it replaces.            *)
(***************************************************************************)
EXTENDS Sequences, SequencesExt

CONSTANT Byte

VARIABLES
  taken,   \* bytes the proxy has handed over, in order
  given,   \* bytes released to the peer, in order
  gate     \* "open", "ended" (complete), "cut" (error event) or "rejected"

gateVars == <<taken, given, gate>>

GateTypeOK ==
  /\ taken \in Seq(Byte)
  /\ given \in Seq(Byte)
  /\ gate \in {"open", "ended", "cut", "rejected"}

GateInit ==
  /\ taken = << >>
  /\ given = << >>
  /\ gate = "open"

(* Bytes come in; those released are a prefix of those that came in.       *)
Pass ==
  /\ gate = "open" /\ gate' = "open"
  /\ IsPrefix(taken, taken')
  /\ IsPrefix(given, given')
  /\ IsPrefix(given', taken')

(* The end-of-stream mark goes out behind the last byte, never earlier.    *)
End ==
  /\ gate = "open" /\ gate' = "ended"
  /\ IsPrefix(taken, taken')
  /\ IsPrefix(given, given')
  /\ given' = taken'

(* An immediate response replaces the body: the peer must not have seen a  *)
(* byte of it.                                                             *)
Reject ==
  /\ gate = "open" /\ gate' = "rejected"
  /\ IsPrefix(taken, taken')
  /\ given = << >> /\ given' = << >>

(* Too late for an immediate response: what was released stays a proper    *)
(* beginning of the body and an error event ends it.                       *)
Cut ==
  /\ gate = "open" /\ gate' = "cut"
  /\ IsPrefix(taken, taken')
  /\ IsPrefix(given, given')
  /\ IsPrefix(given', taken')
  /\ given' # << >>
  /\ given' # taken'

(* Bytes still in flight after the verdict are swallowed.                  *)
Ignore ==
  /\ gate # "open"
  /\ IsPrefix(taken, taken')
  /\ UNCHANGED <<given, gate>>

GateNext == Pass \/ End \/ Reject \/ Cut \/ Ignore

GateSpec == GateInit /\ [][GateNext]_gateVars
=============================================================================
