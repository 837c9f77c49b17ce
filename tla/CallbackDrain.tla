---------------------------- MODULE CallbackDrain ----------------------------
(***************************************************************************)
(* What TokenManager.Stop promises (pkg/daemon/token_manager.go, Stop and  *)
(* the callbackWg field): background work may come and go while the        *)
(* manager runs; once Stop has begun it only drains; Stop returns when     *)
(* none is left, and none appears afterwards.                              *)
(***************************************************************************)
EXTENDS Naturals

VARIABLES
  phase,  \* running, draining (Stop has begun) or drained (Stop returned)
  tasks   \* armed timers and running callbacks

Init == phase = "running" /\ tasks \in Nat

\* Timers are armed, stopped and re-armed, callbacks return.
Work ==
  /\ phase = "running"
  /\ tasks' \in Nat /\ UNCHANGED phase

\* Stop cancels what has not fired yet.
BeginStop ==
  /\ phase = "running" /\ phase' = "draining"
  /\ tasks' \in 0..tasks

Finish ==
  /\ phase = "draining" /\ tasks > 0
  /\ tasks' = tasks - 1 /\ UNCHANGED phase

Return ==
  /\ phase = "draining" /\ tasks = 0
  /\ phase' = "drained" /\ UNCHANGED tasks

Next == Work \/ BeginStop \/ Finish \/ Return

Spec == Init /\ [][Next]_<<phase, tasks>>

=============================================================================
