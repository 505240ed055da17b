---------------------------- MODULE JobLifecycle ----------------------------
(***************************************************************************)
(* What the job pipeline promises the client that polls a job: the         *)
(* attempts at it follow one another, it ends once, a success publishes    *)
(* the artifacts of the last attempt complete and at once and keeps them   *)
(* so, and nothing fails before it was attempted.  JobPipeline implements  *)
(* this (its property ImplementsLifecycle).                                *)
(***************************************************************************)
EXTENDS Integers

CONSTANT Jobs

VARIABLES
  phase,      \* what the client sees of the job
  attempt,    \* how many attempts have begun
  published   \* the attempt whose complete artifacts are on offer, 0 for none

lifecycleVars == <<phase, attempt, published>>

Init ==
  /\ phase = [j \in Jobs |-> "absent"]
  /\ attempt = [j \in Jobs |-> 0]
  /\ published = [j \in Jobs |-> 0]

Move(j, from, to) == phase[j] \in from /\ phase' = [phase EXCEPT ![j] = to]

Accept(j) == Move(j, {"absent"}, "waiting") /\ UNCHANGED <<attempt, published>>

\* An attempt begins on a waiting job or supersedes the running one.
Begin(j) ==
  /\ Move(j, {"waiting", "working"}, "working")
  /\ attempt' = [attempt EXCEPT ![j] = @ + 1]
  /\ UNCHANGED published

GiveBack(j) == Move(j, {"working"}, "waiting") /\ UNCHANGED <<attempt, published>>

Succeed(j) ==
  /\ Move(j, {"working"}, "succeeded")
  /\ published' = [published EXCEPT ![j] = attempt[j]]
  /\ UNCHANGED attempt

Fail(j) ==
  /\ Move(j, {"waiting", "working"}, "failed")
  /\ attempt[j] > 0
  /\ UNCHANGED <<attempt, published>>

Next == \E j \in Jobs : \/ Accept(j) \/ Begin(j) \/ GiveBack(j)
                        \/ Succeed(j) \/ Fail(j)

Spec == Init /\ [][Next]_lifecycleVars

=============================================================================
