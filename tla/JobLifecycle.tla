---------------------------- MODULE JobLifecycle ----------------------------
(***************************************************************************)
(* What the background-job table promises the code that enqueues into it   *)
(* (boardman/broker/job_queue.py, boardman/jobs/deferred.py): a job is     *)
(* submitted, taken by one runner, and settled; it never goes back, and    *)
(* its handler is begun once.  Whether a runner finishes the job or the    *)
(* stale sweep gives it up (several jobs in one statement), the job is     *)
(* settled.  JobQueue.tla is shown to implement this when the database     *)
(* claims a row in one step.                                               *)
(***************************************************************************)
EXTENDS Naturals

CONSTANT Jobs

VARIABLES
  phase,    \* [Jobs -> Phases]
  begun     \* [Jobs -> {0, 1}]: how many times the job's handler was begun

Phases == {"new", "queued", "taken", "settled"}

Init ==
  /\ phase = [j \in Jobs |-> "new"]
  /\ begun = [j \in Jobs |-> 0]

Submit(j) ==
  /\ phase[j] = "new"
  /\ phase' = [phase EXCEPT ![j] = "queued"]
  /\ UNCHANGED begun

Take(j) ==
  /\ phase[j] = "queued"
  /\ phase' = [phase EXCEPT ![j] = "taken"]
  /\ begun' = [begun EXCEPT ![j] = 1]

Settle(S) ==
  /\ \A j \in S : phase[j] = "taken"
  /\ phase' = [j \in Jobs |-> IF j \in S THEN "settled" ELSE phase[j]]
  /\ UNCHANGED begun

Next ==
  \/ \E j \in Jobs : Submit(j) \/ Take(j)
  \/ \E S \in SUBSET Jobs : Settle(S)

vars == <<phase, begun>>
Spec == Init /\ [][Next]_vars
=============================================================================
