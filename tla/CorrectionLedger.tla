-------------------------- MODULE CorrectionLedger --------------------------
(***************************************************************************)
(* What steering promises about one correction of a running turn, with no  *)
(* bridge, hook or stream in sight: the provider's conversation takes it   *)
(* at most once, and the user is told that it was injected only if it was. *)
(* A correction that is given up may still be heard once, late.            *)
(***************************************************************************)
EXTENDS Naturals

CONSTANT Steers

\* correction[s]: how often the conversation has heard s, and what the user was told
VARIABLE correction

Ask(s) ==
  /\ correction[s] = [heard |-> 0, verdict |-> "unasked"]
  /\ correction' = [correction EXCEPT ![s].verdict = "open"]

Hear(s) ==
  /\ correction[s].verdict \in {"open", "rejected"} /\ correction[s].heard = 0
  /\ correction' = [correction EXCEPT ![s].heard = 1]

Confirm(s) ==
  /\ correction[s] = [heard |-> 1, verdict |-> "open"]
  /\ correction' = [correction EXCEPT ![s].verdict = "injected"]

\* All the corrections that are still open are given up together.
GiveUp ==
  correction' = [s \in Steers |->
    IF correction[s].verdict = "open" THEN [correction[s] EXCEPT !.verdict = "rejected"]
    ELSE correction[s]]

CorrectionInit == correction = [s \in Steers |-> [heard |-> 0, verdict |-> "unasked"]]

CorrectionNext == (\E s \in Steers : Ask(s) \/ Hear(s) \/ Confirm(s)) \/ GiveUp

CorrectionSpec == CorrectionInit /\ [][CorrectionNext]_correction
=============================================================================
