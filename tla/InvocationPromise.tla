------------------------- MODULE InvocationPromise -------------------------
(***************************************************************************)
(* What one capability invocation promises its caller and the auditor,     *)
(* whichever surface it arrives on: it is answered once; work is done for  *)
(* it at most once and only before the answer; its record, if it leaves    *)
(* one, is written in the step that answers it, and a record that says     *)
(* "denied" belongs to a call for which no work was done.                  *)
(***************************************************************************)
CONSTANT Calls

VARIABLES phase,  \* [Calls -> {"waiting", "acting", "answered"}]
          trail   \* [Calls -> the phase its record carries, or "none"]

pVars == <<phase, trail>>

PInit == /\ phase = [c \in Calls |-> "waiting"]
         /\ trail = [c \in Calls |-> "none"]

(* Answered without any work: refused, unknown, or it failed beforehand. *)
Decline(c) == /\ phase[c] = "waiting"
              /\ phase' = [phase EXCEPT ![c] = "answered"]
              /\ \E p \in {"none", "denied", "failed"} : trail' = [trail EXCEPT ![c] = p]

Act(c) == /\ phase[c] = "waiting"
          /\ phase' = [phase EXCEPT ![c] = "acting"]
          /\ UNCHANGED trail

Finish(c) == /\ phase[c] = "acting"
             /\ phase' = [phase EXCEPT ![c] = "answered"]
             /\ \E p \in {"none", "failed", "succeeded"} : trail' = [trail EXCEPT ![c] = p]

PNext == \E c \in Calls : Decline(c) \/ Act(c) \/ Finish(c)

PSpec == PInit /\ [][PNext]_pVars
=============================================================================
