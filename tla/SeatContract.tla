---------------------------- MODULE SeatContract ----------------------------
(***************************************************************************)
(* What an activation promises about seats, with no requests, retries,     *)
(* pages or failures in sight.                                             *)
(*                                                                         *)
(* A call takes at most one seat.  It gives up a seat only if it is its    *)
(* own, only when asked to undo an over-limit activation and only after an *)
(* over-limit verdict.  A seat can appear after the call has returned only *)
(* when the call reported that it could not tell (the reply was lost).     *)
(* Seats that were there before are never touched.                         *)
(***************************************************************************)
CONSTANTS Calls

VARIABLES
  phase,      \* idle, running or done
  auto,       \* the caller asked to undo an over-limit activation
  answer,     \* the verdict of the validation, none before it
  outcome,    \* what the call returned
  seat,       \* none, held, released (by the call) or culled
  installed   \* the seats from before

contractVars == <<phase, auto, answer, outcome, seat, installed>>

\* The outcomes after which the caller cannot know whether it has a seat.
Unsure == {"TRANSPORT", "OUT_OF_MEMORY"}

\* The outcomes that tell the caller it took no seat.
Refused == {"FINGERPRINT_TAKEN", "LIMIT_EXCEEDED"}

ContractInit ==
  /\ phase = [c \in Calls |-> "idle"]
  /\ auto \in [Calls -> BOOLEAN]
  /\ answer = [c \in Calls |-> "none"]
  /\ outcome = [c \in Calls |-> "none"]
  /\ seat = [c \in Calls |-> "none"]

Start(c, a) ==
  /\ phase[c] = "idle"
  /\ phase' = [phase EXCEPT ![c] = "running"]
  /\ auto' = [auto EXCEPT ![c] = a]
  /\ UNCHANGED <<answer, outcome, seat, installed>>

Take(c) ==
  /\ seat[c] = "none"
  /\ \/ phase[c] = "running"
     \/ phase[c] = "done" /\ outcome[c] \in Unsure
  /\ seat' = [seat EXCEPT ![c] = "held"]
  /\ UNCHANGED <<phase, auto, answer, outcome, installed>>

Learn(c, v) ==
  /\ phase[c] = "running"
  /\ answer[c] = "none"
  /\ answer' = [answer EXCEPT ![c] = v]
  /\ UNCHANGED <<phase, auto, outcome, seat, installed>>

GiveUp(c) ==
  /\ seat[c] = "held"
  /\ auto[c]
  /\ answer[c] = "OVERAGE"
  /\ seat' = [seat EXCEPT ![c] = "released"]
  /\ UNCHANGED <<phase, auto, answer, outcome, installed>>

LoseSeat(c) ==
  /\ seat[c] = "held"
  /\ seat' = [seat EXCEPT ![c] = "culled"]
  /\ UNCHANGED <<phase, auto, answer, outcome, installed>>

\* A call returns; a validation that succeeds may be learnt in the same step.
Return(c, s, v) ==
  /\ phase[c] = "running"
  /\ phase' = [phase EXCEPT ![c] = "done"]
  /\ outcome' = [outcome EXCEPT ![c] = s]
  /\ \/ answer[c] = "none"
     \/ v = answer[c]
  /\ answer' = [answer EXCEPT ![c] = v]
  /\ (s = "OK") <=> (v # "none")
  /\ s \in Refused => seat[c] = "none"
  /\ UNCHANGED <<auto, seat, installed>>

ContractNext ==
  \E c \in Calls :
    \/ \E a \in BOOLEAN : Start(c, a)
    \/ Take(c)
    \/ \E v \in {"VALID", "OVERAGE", "UNKNOWN"} : Learn(c, v)
    \/ GiveUp(c)
    \/ LoseSeat(c)
    \/ \E s \in {"OK", "FINGERPRINT_TAKEN", "LIMIT_EXCEEDED", "RATE_LIMITED",
                 "SERVER", "TRANSPORT", "OUT_OF_MEMORY", "NULL_ARGUMENT",
                 "INVALID_JSON"},
          v \in {"none", "VALID", "OVERAGE", "UNKNOWN"} : Return(c, s, v)

Contract == ContractInit /\ [][ContractNext]_contractVars
=============================================================================
