---------------------------- MODULE WebhookProofs ----------------------------
(***************************************************************************)
(* Proofs about the job queue, and about the webhook deliveries that run   *)
(* on it.                                                                  *)
(***************************************************************************)
EXTENDS WebhookDelivery, FiniteSetTheorems, TLAPS

-----------------------------------------------------------------------------
(***************************************************************************)
(* Safety of the job queue for every set of jobs and workers, every stale  *)
(* threshold and every number of crashes, in every deployment whose claims *)
(* are safe: the database claims a row in one step, or one worker is the   *)
(* only runner.  Everything rests on one inductive invariant, IInv: a      *)
(* job's handler has been begun exactly when its row has left the queue,   *)
(* and a runner that holds a job is alone with it.                         *)
(***************************************************************************)

(* With neither, a job can be begun twice: the run queue_double_claim. *)
ClaimsAreSafe ==
  \A d \in Deployments :
    d.atomic \/ (~d.deferring /\ \A v, w \in d.workers : v = w)

Holds(w, j) == worker[w].pc = "running" /\ worker[w].job = j

LoopOK ==
  \A w \in Workers :
    /\ worker[w].pc # "down" => w \in deployment.workers
    /\ worker[w].pc \in {"picked", "running"} => worker[w].job \in Jobs
    /\ worker[w].pc = "picked" =>
         ~deployment.atomic /\ row[worker[w].job].status = "pending"

DeferredOK == \A j \in Jobs : deferred[j] # "none" => deployment.deferring

BegunOnceClaimed ==
  \A j \in Jobs :
    begun[j] = IF row[j].status \in {"absent", "pending"} THEN 0 ELSE 1

Exclusive ==
  \A j \in Jobs :
    /\ \A v, w \in Workers : Holds(v, j) /\ Holds(w, j) => v = w
    /\ deferred[j] = "running" => \A w \in Workers : ~Holds(w, j)

HeldOK ==
  \A j \in Jobs :
    (deferred[j] = "running" \/ \E w \in Workers : Holds(w, j)) =>
      \/ row[j].status = "running"
      \/ row[j].status = "incomplete" /\ row[j].started + StaleAfter < now

IInv == TypeOK /\ LoopOK /\ DeferredOK /\ BegunOnceClaimed /\ Exclusive /\ HeldOK

-----------------------------------------------------------------------------
LEMMA InitEstablishes == ASSUME ClaimsAreSafe PROVE Init => IInv
PROOF
  BY JobQueueAssumption
  DEF Init, IInv, TypeOK, LoopOK, DeferredOK, BegunOnceClaimed, Exclusive, HeldOK, Holds,
      Rows, Loops, Statuses, Time, Down

LEMMA ClaimIsTyped ==
  ASSUME TypeOK, NEW j \in Jobs, NEW at \in Time, SetRunning(j, at), Begin(j)
  PROVE  row' \in [Jobs -> Rows] /\ begun' \in [Jobs -> Nat]
<1>1. row' \in [Jobs -> Rows]   BY ZenonT(60) DEF TypeOK, SetRunning, Rows, Statuses
<1>2. begun' \in [Jobs -> Nat]  BY DEF TypeOK, Begin
<1>3. QED                       BY <1>1, <1>2

LEMMA FinishIsTyped ==
  ASSUME TypeOK, NEW j \in Jobs, NEW outcome \in Terminal, MarkJobFinished(j, outcome)
  PROVE  row' \in [Jobs -> Rows]
BY DEF TypeOK, MarkJobFinished, Rows, Statuses, Terminal

LEMMA LoopIsTyped ==
  ASSUME TypeOK, NEW w \in Workers, NEW j \in Jobs,
         NEW at \in Time,
         worker' = [worker EXCEPT ![w] = [pc |-> "running", job |-> j, at |-> at]]
  PROVE  worker' \in [Workers -> Loops]
BY DEF TypeOK, Loops

(***************************************************************************)
(* A worker whose claim has picked a row and not yet taken it is the only  *)
(* runner there is.                                                        *)
(***************************************************************************)
LEMMA PickedIsAlone ==
  ASSUME ClaimsAreSafe, IInv, NEW w \in Workers, worker[w].pc = "picked"
  PROVE  /\ \A v \in Workers : v # w => worker[v].pc = "down"
         /\ \A j \in Jobs : deferred[j] = "none"
PROOF
<1>1. w \in deployment.workers /\ ~deployment.atomic /\ deployment \in Deployments
  BY DEF IInv, LoopOK, TypeOK
<1>2. ~deployment.deferring /\ \A u, v \in deployment.workers : u = v
  BY <1>1 DEF ClaimsAreSafe
<1>3. QED
  BY <1>1, <1>2 DEF IInv, LoopOK, DeferredOK

(***************************************************************************)
(* The claims and finishes of a job j leave every other job alone.         *)
(***************************************************************************)
LEMMA StepPreserves == ASSUME ClaimsAreSafe, IInv, [Next]_vars PROVE IInv'
PROOF
<1> USE JobQueueAssumption
    DEF IInv, TypeOK, Rows, Loops, Statuses, Terminal, Time, Holds
<1>1. ASSUME NEW j \in Jobs, EnqueueJob(j) \/ EnqueueAndRunSoon(j) PROVE IInv'
  <2> USE <1>1 DEF EnqueueJob, EnqueueAndRunSoon, Insert
  <2>1. TypeOK'            BY SMTT(30)
  <2>2. row[j].status = "absent" /\ \A k \in Jobs : k # j => row'[k] = row[k]
    OBVIOUS
  <2>3. LoopOK'            BY <2>2 DEF LoopOK
  <2>4. DeferredOK'        BY DEF DeferredOK
  <2>5. BegunOnceClaimed'  BY DEF BegunOnceClaimed
  <2>6. Exclusive'         BY DEF Exclusive
  <2>7. HeldOK'            BY <2>2 DEF HeldOK
  <2>8. QED                BY <2>1, <2>3, <2>4, <2>5, <2>6, <2>7
<1>3. ASSUME NEW j \in Jobs, DeferredClaims(j) PROVE IInv'
  <2>0. row' \in [Jobs -> Rows] /\ begun' \in [Jobs -> Nat]
    BY ONLY <1>3, IInv, ClaimIsTyped DEF IInv, DeferredClaims, TypeOK
  <2> USE <1>3 DEF DeferredClaims, SetRunning, Begin
  <2>1. row[j].status = "pending" /\ \A w \in Workers : ~Holds(w, j)
    BY DEF HeldOK
  <2>2. TypeOK'            BY <2>0
  <2>3. LoopOK'
    <3>1. \A w \in Workers : worker[w].pc # "picked"
      BY ONLY <1>3, ClaimsAreSafe, IInv, PickedIsAlone DEF DeferredClaims
    <3>2. QED              BY ONLY <3>1, <1>3, IInv DEF IInv, LoopOK, DeferredClaims
  <2>4. DeferredOK'        BY DEF DeferredOK
  <2>5. BegunOnceClaimed'  BY DEF BegunOnceClaimed
  <2>6. Exclusive'         BY <2>1 DEF Exclusive
  <2>7. HeldOK'            BY DEF HeldOK
  <2>8. QED                BY <2>2, <2>3, <2>4, <2>5, <2>6, <2>7
<1>4. ASSUME NEW j \in Jobs, DeferredLosesClaim(j) PROVE IInv'
  BY <1>4 DEF DeferredLosesClaim, LoopOK, DeferredOK, BegunOnceClaimed, Exclusive, HeldOK
<1>5. ASSUME NEW j \in Jobs, DeferredFinishes(j) PROVE IInv'
  <2> USE <1>5 DEF DeferredFinishes, MarkJobFinished
  <2>1. TypeOK'            OBVIOUS
  <2>2. /\ row[j].status \in {"running", "incomplete"} /\ row'[j].status \in Terminal
        /\ \A k \in Jobs : k # j => row'[k] = row[k]
    BY DEF HeldOK
  <2>3. LoopOK'            BY <2>2 DEF LoopOK
  <2>4. DeferredOK'        BY DEF DeferredOK
  <2>5. BegunOnceClaimed'  BY <2>2 DEF BegunOnceClaimed
  <2>6. Exclusive'         BY DEF Exclusive
  <2>7. HeldOK'            BY <2>2 DEF HeldOK, Exclusive
  <2>8. QED                BY <2>1, <2>3, <2>4, <2>5, <2>6, <2>7
<1>6. ASSUME NEW w \in Workers, NEW j \in Jobs, NEW at \in Time,
             row[j].status = "pending", worker[w].pc \in {"idle", "picked"},
             \A v \in Workers : v # w => worker[v].pc # "picked",
             SetRunning(j, at), Begin(j),
             worker' = [worker EXCEPT ![w] = [pc |-> "running", job |-> j, at |-> at]],
             UNCHANGED <<deployment, deferred, now, crashes>>
      PROVE  IInv'
  <2>0. row' \in [Jobs -> Rows] /\ begun' \in [Jobs -> Nat] /\ worker' \in [Workers -> Loops]
    BY ONLY <1>6, IInv, ClaimIsTyped, LoopIsTyped DEF IInv, TypeOK
  <2>1. /\ deferred[j] # "running" /\ \A v \in Workers : ~Holds(v, j)
        /\ row'[j].status = "running" /\ begun[j] = 0 /\ begun'[j] = 1
    BY <1>6 DEF HeldOK, BegunOnceClaimed, SetRunning, Begin
  <2>2. \A k \in Jobs : k # j => row'[k] = row[k] /\ begun'[k] = begun[k]
    BY <1>6 DEF SetRunning, Begin
  <2>3. \A v \in Workers : v # w => worker'[v] = worker[v]
    BY <1>6
  <2>4. worker'[w] = [pc |-> "running", job |-> j, at |-> at]
    BY <1>6
  <2> HIDE DEF TypeOK, Holds
  <2>5. TypeOK'            BY ONLY <1>6, <2>0, IInv DEF IInv, TypeOK
  <2>6. LoopOK'            BY ONLY <1>6, <2>3, <2>4, IInv DEF IInv, LoopOK
  <2>7. DeferredOK'        BY ONLY <1>6, IInv DEF IInv, DeferredOK
  <2>8. BegunOnceClaimed'  BY ONLY <2>1, <2>2, IInv DEF IInv, BegunOnceClaimed
  <2>9. Exclusive'         BY ONLY <1>6, <2>1, <2>3, <2>4, IInv DEF IInv, Exclusive, Holds
  <2>10. HeldOK'           BY ONLY <1>6, <2>1, <2>2, <2>3, <2>4, IInv DEF IInv, HeldOK, Holds
  <2>11. QED               BY ONLY <2>5, <2>6, <2>7, <2>8, <2>9, <2>10 DEF IInv
<1>7. ASSUME NEW w \in Workers, NEW j \in Jobs, WorkerClaims(w, j) PROVE IInv'
  <2>1. \A v \in Workers : worker[v].pc # "picked"
    BY <1>7 DEF WorkerClaims, LoopOK
  <2>2. row[j].status = "pending" /\ now \in Time
    BY <1>7 DEF WorkerClaims, Oldest
  <2>3. QED
    BY ONLY <1>6, <1>7, <2>1, <2>2 DEF WorkerClaims
<1>8. ASSUME NEW w \in Workers, NEW j \in Jobs, WorkerPicks(w, j) PROVE IInv'
  <2> USE <1>8 DEF WorkerPicks, Oldest
  <2>1. TypeOK'            OBVIOUS
  <2>2. LoopOK'            BY DEF LoopOK
  <2>3. QED
    BY <2>1, <2>2 DEF DeferredOK, BegunOnceClaimed, Exclusive, HeldOK
<1>9. ASSUME NEW w \in Workers, WorkerUpdates(w) PROVE IInv'
  <2>1. /\ worker[w].pc = "picked" /\ worker[w].job \in Jobs /\ worker[w].at \in Time
        /\ row[worker[w].job].status = "pending"
    BY <1>9 DEF WorkerUpdates, LoopOK
  <2>2. \A v \in Workers : v # w => worker[v].pc # "picked"
    BY ONLY <2>1, ClaimsAreSafe, IInv, PickedIsAlone
  <2>3. worker' = [worker EXCEPT ![w] = [pc |-> "running", job |-> worker[w].job,
                                         at |-> worker[w].at]]
    <3>1. worker[w] \in Loops
      BY ONLY IInv DEF IInv, TypeOK
    <3>2. [worker[w] EXCEPT !.pc = "running"] =
            [pc |-> "running", job |-> worker[w].job, at |-> worker[w].at]
      BY ONLY <3>1 DEF Loops
    <3>3. worker' = [worker EXCEPT ![w] = [worker[w] EXCEPT !.pc = "running"]]
      BY ONLY <1>9 DEF WorkerUpdates
    <3>4. QED  BY ONLY <3>2, <3>3
  <2>4. QED
    BY ONLY <1>6, <1>9, <2>1, <2>2, <2>3 DEF WorkerUpdates
<1>10. ASSUME NEW w \in Workers, WorkerFinishes(w) PROVE IInv'
  <2> DEFINE j == worker[w].job
  <2>0. row' \in [Jobs -> Rows]
    BY ONLY <1>10, IInv, FinishIsTyped DEF IInv, LoopOK, WorkerFinishes
  <2> USE <1>10 DEF WorkerFinishes, MarkJobFinished, Idle
  <2>1. TypeOK'            BY <2>0
  <2>2. /\ j \in Jobs /\ row[j].status \in {"running", "incomplete"}
        /\ row'[j].status \in Terminal /\ \A k \in Jobs : k # j => row'[k] = row[k]
    BY DEF LoopOK, HeldOK
  <2>3. LoopOK'            BY <2>2 DEF LoopOK
  <2>4. DeferredOK'        BY DEF DeferredOK
  <2>5. BegunOnceClaimed'  BY <2>2 DEF BegunOnceClaimed
  <2>6. Exclusive'         BY DEF Exclusive
  <2>7. HeldOK'            BY <2>2 DEF HeldOK, Exclusive
  <2>8. QED                BY <2>1, <2>3, <2>4, <2>5, <2>6, <2>7
<1>11. ASSUME NEW w \in Workers, WorkerStarts(w) PROVE IInv'
  <2> USE <1>11 DEF WorkerStarts, Idle
  <2>1. \A k \in Jobs :
          /\ row'[k].created = row[k].created /\ row'[k].started = row[k].started
          /\ row'[k].status = IF Stale(k) THEN "incomplete" ELSE row[k].status
    BY DEF FailStaleRunningJobs
  <2>2. row' \in [Jobs -> Rows]  BY DEF FailStaleRunningJobs
  <2>3. TypeOK'            BY <2>2
  <2>4. LoopOK'            BY <2>1 DEF LoopOK, Stale
  <2>5. DeferredOK'        BY DEF DeferredOK
  <2>6. BegunOnceClaimed'  BY <2>1 DEF BegunOnceClaimed, Stale
  <2>7. Exclusive'         BY DEF Exclusive
  <2>8. HeldOK'            BY <2>1 DEF HeldOK, Stale
  <2>9. QED                BY <2>3, <2>4, <2>5, <2>6, <2>7, <2>8
<1>12. ASSUME NEW w \in Workers, WorkerCrashes(w) PROVE IInv'
  BY <1>12 DEF WorkerCrashes, Down, LoopOK, DeferredOK, BegunOnceClaimed, Exclusive, HeldOK
<1>13. ASSUME ApiCrashes PROVE IInv'
  BY <1>13 DEF ApiCrashes, LoopOK, DeferredOK, BegunOnceClaimed, Exclusive, HeldOK
<1>14. ASSUME Tick PROVE IInv'
  BY <1>14 DEF Tick, LoopOK, DeferredOK, BegunOnceClaimed, Exclusive, HeldOK
<1>15. ASSUME UNCHANGED vars PROVE IInv'
  BY <1>15 DEF vars, LoopOK, DeferredOK, BegunOnceClaimed, Exclusive, HeldOK
<1>16. QED
  BY ONLY <1>1, <1>3, <1>4, <1>5, <1>7, <1>8, <1>9, <1>10, <1>11, <1>12, <1>13, <1>14, <1>15,
          [Next]_vars
  DEF Next, WorkerSleeps

LEMMA Invariance == ASSUME ClaimsAreSafe PROVE Spec => []IInv
PROOF
<1>1. Init => IInv                  BY InitEstablishes
<1>2. IInv /\ [Next]_vars => IInv'  BY StepPreserves
<1>3. QED                           BY <1>1, <1>2, PTL DEF Spec

-----------------------------------------------------------------------------
(* Types need only that a loop at work on a job has one. *)
HasJob == \A w \in Workers : worker[w].pc \in {"picked", "running"} => worker[w].job \in Jobs

TypeInv == TypeOK /\ HasJob

LEMMA TypesArePreserved == ASSUME TypeInv, [Next]_vars PROVE TypeInv'
PROOF
<1> USE JobQueueAssumption DEF TypeInv
<1> DEFINE Alone(w, s) == worker' = [worker EXCEPT ![w] = s]
<1>1. ASSUME NEW j \in Jobs, EnqueueJob(j) \/ EnqueueAndRunSoon(j) PROVE TypeInv'
  BY SMTT(30), <1>1 DEF EnqueueJob, EnqueueAndRunSoon, Insert, TypeOK, HasJob, Rows, Statuses, Time
<1>2. ASSUME NEW j \in Jobs, DeferredClaims(j) PROVE TypeInv'
  <2>1. row' \in [Jobs -> Rows] /\ begun' \in [Jobs -> Nat]
    BY <1>2, ClaimIsTyped DEF DeferredClaims, TypeOK
  <2>2. QED
    BY <1>2, <2>1 DEF DeferredClaims, TypeOK, HasJob
<1>3. ASSUME NEW j \in Jobs, DeferredLosesClaim(j) PROVE TypeInv'
  BY <1>3 DEF DeferredLosesClaim, TypeOK, HasJob
<1>4. ASSUME NEW j \in Jobs, DeferredFinishes(j) PROVE TypeInv'
  <2>1. row' \in [Jobs -> Rows]
    BY <1>4, FinishIsTyped DEF DeferredFinishes
  <2>2. QED
    BY <1>4, <2>1 DEF DeferredFinishes, TypeOK, HasJob
<1>5. ASSUME NEW w \in Workers, NEW j \in Jobs, NEW at \in Time, SetRunning(j, at), Begin(j),
             Alone(w, [pc |-> "running", job |-> j, at |-> at]),
             UNCHANGED <<deployment, deferred, now, crashes>>
      PROVE  TypeInv'
  <2>1. /\ row' \in [Jobs -> Rows] /\ begun' \in [Jobs -> Nat]
        /\ worker' \in [Workers -> Loops]
    BY <1>5, ClaimIsTyped, LoopIsTyped
  <2>2. HasJob'
    BY <1>5 DEF TypeOK, HasJob
  <2>3. QED
    BY <1>5, <2>1, <2>2 DEF TypeOK
<1>6. ASSUME NEW w \in Workers, NEW j \in Jobs, WorkerClaims(w, j) PROVE TypeInv'
  <2>1. now \in Time
    BY DEF TypeOK
  <2>2. QED
    BY <1>5, <1>6, <2>1 DEF WorkerClaims
<1>7. ASSUME NEW w \in Workers, NEW j \in Jobs, WorkerPicks(w, j) PROVE TypeInv'
  <2>1. worker' \in [Workers -> Loops] /\ HasJob'
    BY <1>7 DEF WorkerPicks, TypeOK, HasJob, Loops
  <2>2. QED
    BY <1>7, <2>1 DEF WorkerPicks, TypeOK
<1>8. ASSUME NEW w \in Workers, WorkerUpdates(w) PROVE TypeInv'
  <2>1. worker[w] \in Loops /\ worker[w].job \in Jobs
    BY <1>8 DEF WorkerUpdates, TypeOK, HasJob
  <2>2. worker[w].at \in Time
    BY <2>1 DEF Loops
  <2>3. [worker[w] EXCEPT !.pc = "running"] =
          [pc |-> "running", job |-> worker[w].job, at |-> worker[w].at]
    BY <2>1 DEF Loops
  <2>4. worker' = [worker EXCEPT ![w] = [worker[w] EXCEPT !.pc = "running"]]
    BY <1>8 DEF WorkerUpdates
  <2>5. Alone(w, [pc |-> "running", job |-> worker[w].job, at |-> worker[w].at])
    BY <2>3, <2>4
  <2>6. QED
    BY <1>5, <1>8, <2>1, <2>2, <2>5 DEF WorkerUpdates
<1>9. ASSUME NEW w \in Workers, WorkerFinishes(w) PROVE TypeInv'
  <2>1. row' \in [Jobs -> Rows]
    BY <1>9, FinishIsTyped DEF WorkerFinishes, HasJob
  <2>2. QED
    BY <1>9, <2>1 DEF WorkerFinishes, Idle, TypeOK, HasJob, Loops, Time
<1>10. ASSUME NEW w \in Workers, WorkerStarts(w) PROVE TypeInv'
  <2>1. row' \in [Jobs -> Rows]
    BY <1>10 DEF WorkerStarts, FailStaleRunningJobs, TypeOK, Rows, Statuses
  <2>2. QED
    BY <1>10, <2>1 DEF WorkerStarts, Idle, TypeOK, HasJob, Loops, Time
<1>11. ASSUME NEW w \in Workers, WorkerCrashes(w) PROVE TypeInv'
  BY <1>11 DEF WorkerCrashes, Down, TypeOK, HasJob, Loops, Time
<1>12. ASSUME ApiCrashes \/ Tick \/ UNCHANGED vars PROVE TypeInv'
  BY <1>12 DEF ApiCrashes, Tick, vars, TypeOK, HasJob, Time
<1>13. QED
  BY <1>1, <1>2, <1>3, <1>4, <1>6, <1>7, <1>8, <1>9, <1>10, <1>11, <1>12, [Next]_vars
  DEF Next, WorkerSleeps

(***************************************************************************)
(* Every variable of the queue keeps its type, also where claims race.     *)
(***************************************************************************)
THEOREM TypeCorrect == Spec => []TypeOK
PROOF
<1>1. Init => TypeInv
  BY JobQueueAssumption DEF Init, TypeInv, TypeOK, HasJob, Rows, Loops, Statuses, Time, Down
<1>2. TypeInv /\ [Next]_vars => TypeInv'
  BY TypesArePreserved
<1>3. TypeInv => TypeOK
  BY DEF TypeInv
<1>4. QED
  BY <1>1, <1>2, <1>3, PTL DEF Spec

(***************************************************************************)
(* No job's handler is ever begun twice: claim_next_job_row and            *)
(* claim_job_by_id may race, and the processes behind them crash.          *)
(***************************************************************************)
THEOREM BegunAtMostOnce == ASSUME ClaimsAreSafe PROVE Spec => []AtMostOnce
PROOF
<1>1. ASSUME IInv, NEW j \in Jobs PROVE begun[j] <= 1
  <2>1. begun[j] = 0 \/ begun[j] = 1  BY <1>1 DEF IInv, BegunOnceClaimed
  <2>2. QED                           BY <2>1
<1>2. IInv => AtMostOnce  BY <1>1 DEF AtMostOnce
<1>3. QED                 BY <1>2, Invariance, PTL

(***************************************************************************)
(* No two runners ever execute one job at the same time.                   *)
(***************************************************************************)
THEOREM ExclusiveRunner == ASSUME ClaimsAreSafe PROVE Spec => []OneRunner
PROOF
<1>1. IInv => OneRunner  BY DEF IInv, Exclusive, OneRunner, Holders, Holds
<1>2. QED                BY <1>1, Invariance, PTL

(***************************************************************************)
(* While a runner holds a job nobody else records an outcome for it, the   *)
(* stale sweep of fail_stale_running_jobs excepted.                        *)
(***************************************************************************)
THEOREM HeldJobSafe == ASSUME ClaimsAreSafe PROVE Spec => []HeldJobIsRunningOrGivenUp
PROOF
<1>1. IInv => HeldJobIsRunningOrGivenUp
  BY DEF IInv, HeldOK, HeldJobIsRunningOrGivenUp, Holders, Holds
<1>2. QED  BY <1>1, Invariance, PTL

-----------------------------------------------------------------------------
(***************************************************************************)
(* Every step of the queue is a step of JobLifecycle or none at all.       *)
(***************************************************************************)
LEMMA StepRefines ==
  ASSUME ClaimsAreSafe, IInv, [Next]_vars
  PROVE  [Lifecycle!Next]_(Lifecycle!vars)
PROOF
<1> USE DEF IInv, TypeOK, Rows, Loops, Statuses, Terminal, Holds, phase
<1>1. ASSUME NEW j \in Jobs, Insert(j), UNCHANGED begun PROVE Lifecycle!Submit(j)
  BY <1>1 DEF Insert, Lifecycle!Submit
<1>2. ASSUME NEW j \in Jobs, row[j].status = "pending", NEW at, SetRunning(j, at), Begin(j)
      PROVE  Lifecycle!Take(j)
  <2>1. phase' = [phase EXCEPT ![j] = "taken"]   BY <1>2 DEF SetRunning
  <2>2. begun[j] = 0                             BY <1>2 DEF BegunOnceClaimed
  <2>3. begun' = [begun EXCEPT ![j] = 1]         BY <1>2, <2>2 DEF Begin
  <2>4. QED                                      BY <1>2, <2>1, <2>3 DEF Lifecycle!Take
<1>3. ASSUME NEW j \in Jobs, NEW outcome \in Terminal, MarkJobFinished(j, outcome),
             row[j].status \in {"running", "incomplete"}, UNCHANGED begun
      PROVE  Lifecycle!Settle({j}) \/ UNCHANGED Lifecycle!vars
  <2>1. phase' = [phase EXCEPT ![j] = "settled"]  BY <1>3 DEF MarkJobFinished
  <2>2. CASE row[j].status = "running"
    BY <1>3, <2>1, <2>2 DEF Lifecycle!Settle
  <2>3. CASE row[j].status = "incomplete"
    BY <1>3, <2>1, <2>3 DEF Lifecycle!vars
  <2>4. QED  BY <1>3, <2>2, <2>3
<1>4. ASSUME NEW j \in Jobs, EnqueueJob(j) \/ EnqueueAndRunSoon(j)
      PROVE  Lifecycle!Next
  BY <1>4, <1>1 DEF EnqueueJob, EnqueueAndRunSoon, Lifecycle!Next
<1>5. ASSUME NEW j \in Jobs, DeferredClaims(j) PROVE Lifecycle!Next
  BY <1>5, <1>2 DEF DeferredClaims, Lifecycle!Next
<1>6. ASSUME NEW w \in Workers, NEW j \in Jobs, WorkerClaims(w, j) PROVE Lifecycle!Next
  BY <1>6, <1>2 DEF WorkerClaims, Oldest, Lifecycle!Next
<1>7. ASSUME NEW w \in Workers, WorkerUpdates(w) PROVE Lifecycle!Next
  <2>1. PICK k \in Jobs : k = worker[w].job /\ row[k].status = "pending"
    BY <1>7 DEF WorkerUpdates, LoopOK
  <2>2. SetRunning(k, worker[w].at) /\ Begin(k)
    BY <1>7, <2>1 DEF WorkerUpdates
  <2>3. Lifecycle!Take(k)
    BY <2>1, <2>2, <1>2
  <2>4. QED  BY <2>3 DEF Lifecycle!Next
<1>8. ASSUME NEW j \in Jobs, DeferredFinishes(j) PROVE [Lifecycle!Next]_(Lifecycle!vars)
  BY <1>8, <1>3 DEF DeferredFinishes, HeldOK, Lifecycle!Next
<1>9. ASSUME NEW w \in Workers, WorkerFinishes(w) PROVE [Lifecycle!Next]_(Lifecycle!vars)
  <2>1. PICK k \in Jobs : k = worker[w].job /\ row[k].status \in {"running", "incomplete"}
    BY <1>9 DEF WorkerFinishes, LoopOK, HeldOK
  <2>2. PICK outcome \in Terminal : MarkJobFinished(k, outcome)
    BY <1>9, <2>1 DEF WorkerFinishes
  <2>3. UNCHANGED begun
    BY <1>9 DEF WorkerFinishes
  <2>4. Lifecycle!Settle({k}) \/ UNCHANGED Lifecycle!vars
    BY <1>3, <2>1, <2>2, <2>3
  <2>5. QED  BY <2>4 DEF Lifecycle!Next
<1>10. ASSUME NEW w \in Workers, WorkerStarts(w) PROVE Lifecycle!Next
  <2>1. PICK S \in SUBSET Jobs : \A j \in Jobs : j \in S <=> Stale(j)
    <3>1. {j \in Jobs : Stale(j)} \in SUBSET Jobs  OBVIOUS
    <3>2. QED                                      BY <3>1
  <2>2. phase' = [j \in Jobs |-> IF j \in S THEN "settled" ELSE phase[j]]
    BY <1>10, <2>1 DEF WorkerStarts, FailStaleRunningJobs, Stale
  <2>3. Lifecycle!Settle(S)
    BY <1>10, <2>1, <2>2 DEF WorkerStarts, Stale, Lifecycle!Settle
  <2>4. QED  BY <2>3 DEF Lifecycle!Next
<1>11. ASSUME UNCHANGED <<row, begun>> PROVE UNCHANGED Lifecycle!vars
  BY <1>11 DEF Lifecycle!vars
<1>12. QED
  BY <1>4, <1>5, <1>6, <1>7, <1>8, <1>9, <1>10, <1>11
  DEF Next, DeferredLosesClaim, WorkerPicks, WorkerSleeps, WorkerCrashes,
      ApiCrashes, Tick, LoopOK, vars

(***************************************************************************)
(* The queue keeps the promise JobLifecycle states: each job is submitted, *)
(* taken once and settled, in that order and for good.                     *)
(***************************************************************************)
THEOREM Refinement == ASSUME ClaimsAreSafe PROVE Spec => ImplementsLifecycle
PROOF
<1>1. Init => Lifecycle!Init
  BY DEF Init, phase, Lifecycle!Init
<1>2. IInv /\ [Next]_vars => [Lifecycle!Next]_(Lifecycle!vars)
  BY StepRefines
<1>3. QED
  BY <1>1, <1>2, Invariance, PTL DEF Spec, ImplementsLifecycle, Lifecycle!Spec

-----------------------------------------------------------------------------
(***************************************************************************)
(* The status GET /agent/jobs/{id} reports never goes back.                *)
(***************************************************************************)
LEMMA StepAdvances ==
  ASSUME ClaimsAreSafe, IInv, [Next]_vars, NEW j \in Jobs
  PROVE  Progress(row'[j].status) >= Progress(row[j].status)
PROOF
<1> USE DEF IInv, TypeOK, Rows, Loops, Statuses, Terminal, Holds, Progress
<1>1. CASE \E k \in Jobs : EnqueueJob(k) \/ EnqueueAndRunSoon(k)
  BY SMTT(30), <1>1 DEF EnqueueJob, EnqueueAndRunSoon, Insert
<1>2. CASE \E k \in Jobs : DeferredClaims(k) \/ DeferredFinishes(k)
  <2>1. ASSUME NEW k \in Jobs, DeferredClaims(k)
        PROVE  Progress(row'[j].status) >= Progress(row[j].status)
    BY <2>1 DEF DeferredClaims, SetRunning
  <2>2. ASSUME NEW k \in Jobs, DeferredFinishes(k)
        PROVE  Progress(row'[j].status) >= Progress(row[j].status)
    BY <2>2 DEF DeferredFinishes, MarkJobFinished, HeldOK
  <2>3. QED  BY ONLY <1>2, <2>1, <2>2
<1>3. CASE \E w \in Workers, k \in Jobs : WorkerClaims(w, k)
  BY <1>3 DEF WorkerClaims, Oldest, SetRunning
<1>8. CASE \E w \in Workers : WorkerUpdates(w)
  <2>1. PICK w \in Workers : WorkerUpdates(w)  BY <1>8
  <2>2. worker[w].job \in Jobs /\ row[worker[w].job].status = "pending"
    BY <2>1 DEF WorkerUpdates, LoopOK
  <2>3. QED  BY <2>1, <2>2 DEF WorkerUpdates, SetRunning
<1>7. CASE \E w \in Workers : WorkerFinishes(w)
  <2>1. PICK w \in Workers : WorkerFinishes(w)  BY <1>7
  <2>2. worker[w].job \in Jobs /\ row[worker[w].job].status \in {"running", "incomplete"}
    BY <2>1 DEF WorkerFinishes, LoopOK, HeldOK
  <2>3. QED  BY <2>1, <2>2 DEF WorkerFinishes, MarkJobFinished
<1>4. CASE \E w \in Workers : WorkerStarts(w)
  BY <1>4 DEF WorkerStarts, FailStaleRunningJobs, Stale
<1>5. CASE UNCHANGED row
  BY <1>5
<1>6. QED
  BY <1>1, <1>2, <1>3, <1>4, <1>5, <1>7, <1>8
  DEF Next, DeferredLosesClaim, WorkerPicks, WorkerSleeps, WorkerCrashes,
      ApiCrashes, Tick, LoopOK, vars

THEOREM NeverGoesBack == ASSUME ClaimsAreSafe PROVE Spec => StatusOnlyAdvances
PROOF
<1>1. IInv /\ [Next]_vars =>
        [\A j \in Jobs : Progress(row'[j].status) >= Progress(row[j].status)]_vars
  BY StepAdvances
<1>2. QED  BY <1>1, Invariance, PTL DEF Spec, StatusOnlyAdvances

-----------------------------------------------------------------------------
(***************************************************************************)
(* Safety of webhook deliveries for any number of deliveries, requests,    *)
(* jobs, workers and crashes, in both modes and on both databases, claims  *)
(* that race included.  The argument counts who was ever given a delivery: *)
(* until its row fails or ages, nobody but the request that inserted the   *)
(* row, and then the one job it enqueued.                                  *)
(***************************************************************************)

(* A request past its lookup, and a job, are about a delivery; a runner's  *)
(* job has been enqueued; the retry loop starts anew with each job.        *)
NamesOK ==
  /\ \A r \in Requests : ~At(r, "idle") => Of(r) \in Deliveries
  /\ \A r \in Requests : At(r, "idle") => Of(r) = NoDelivery
  /\ \A j \in Jobs : row[j].status # "absent" => jobOf[j] \in Deliveries
  /\ \A j \in Jobs : row[j].status = "absent" => jobOf[j] = NoDelivery
  /\ \A w \in Workers : worker[w].pc \in {"picked", "running"} =>
       row[worker[w].job].status # "absent"
  /\ \A w \in Workers : worker[w].pc # "running" => attempt[w] = FirstAttempt

(* Whoever is about to write `processed` has seen a dispatch succeed. *)
AppliedOK ==
  /\ \A r \in Requests : At(r, "dispatched") => Of(r) \in applied
  /\ \A w \in Workers : attempt[w].end \in {"applied", "succeeded"} => JobOf(w) \in applied
  /\ ProcessedWasApplied

(* A failure is remembered, and a row is found only by a request that may  *)
(* work on it again.                                                       *)
FailedOK ==
  /\ \A d \in Deliveries : delivery[d].status = "failed" => d \in hasFailed
  /\ \A d \in Deliveries : d \in hasFailed => delivery[d].status # "absent"
  /\ \A r \in Requests : At(r, "looked") /\ ~request[r].fresh =>
       delivery[Of(r)].status # "absent" /\ (Of(r) \in hasFailed \/ Aged(Of(r)))

(* The jobs ever enqueued for a delivery. *)
Given(d) == {j \in Jobs : jobOf[j] = d}

(* Without a committed row only the request that inserts it is at work;    *)
(* and until the row fails or ages, one request or one job was ever given  *)
(* the delivery.                                                           *)
Alone(d) ==
  /\ delivery[d].status = "absent" =>
       Given(d) = {} /\ \A r \in Serving(d) : unsaved[d] = r /\ ~At(r, "committed")
  /\ d \notin hasFailed /\ ~Aged(d) =>
       /\ \A r, s \in Serving(d) : r = s
       /\ \A j, k \in Given(d) : j = k
       /\ Serving(d) = {} \/ Given(d) = {}

AloneOK == \A d \in Deliveries : Alone(d)

HookInv == HookTypeOK /\ HasJob /\ NamesOK /\ AppliedOK /\ FailedOK /\ AloneOK

-----------------------------------------------------------------------------
LEMMA HookInitEstablishes == HookInit => HookInv
<1> SUFFICES ASSUME HookInit PROVE HookInv
  OBVIOUS
<1> USE JobQueueAssumption, WebhookAssumption DEF HookInit, Init
<1>1. TypeInv
  BY DEF TypeInv, TypeOK, HasJob, Rows, Loops, Statuses, Time, Down
<1>2. HookTypeOK
  BY <1>1 DEF TypeInv, HookTypeOK, Marks, RoutePCs, Time, FirstAttempt, NoReq
<1>3. NamesOK /\ AppliedOK /\ FailedOK /\ AloneOK
  BY DEF NamesOK, AppliedOK, FailedOK, AloneOK, Alone, ProcessedWasApplied, At, Of, NoReq, Down,
         FirstAttempt, Serving, Given
<1>4. QED
  BY <1>1, <1>2, <1>3 DEF HookInv, TypeInv

(* What the queue's own variables do in a step of the composition. *)
LEMMA QueueIsTyped == ASSUME HookInv, [HookNext]_allVars PROVE TypeInv'
<1> USE DEF HookInv, HookTypeOK
<1>1. TypeInv
  BY DEF TypeInv
<1>2. ASSUME [Next]_vars PROVE TypeInv'
  BY <1>1, <1>2, TypesArePreserved
<1>3. ASSUME CrashApi PROVE TypeInv'
  BY <1>1, <1>3, JobQueueAssumption DEF CrashApi, TypeInv, TypeOK, HasJob
<1>4. ASSUME UNCHANGED allVars PROVE TypeInv'
  BY <1>2, <1>4 DEF allVars
<1>5. ASSUME NEW r \in Requests,
             (\E d \in Deliveries : Receive(r, d) \/ AnswerDuplicate(r, d))
               \/ RouteStep(r) \/ HandlerCommits(r)
      PROVE  TypeInv'
  <2>1. ASSUME NEW j \in Jobs, EnqueueDelivery(r, j) PROVE TypeInv'
    BY <1>2, <2>1 DEF EnqueueDelivery, Next
  <2>2. ASSUME UNCHANGED vars PROVE TypeInv'
    BY <1>2, <2>2
  <2>3. QED
    BY <1>5, <2>1, <2>2
    DEF Receive, AnswerDuplicate, RouteStep, HandlerCommits, RefuseInsert, SettleAtOnce,
        CommitMarker, EnqueueFails, InsertMarker, DispatchSucceeds, MarkProcessed, DispatchFails,
        DispatchRaises, allVars
<1>6. ASSUME NEW w \in Workers, WorkerStep(w) \/ IdleWorker(w) \/ CrashWorker(w) PROVE TypeInv'
  BY <1>2, <1>6
  DEF WorkerStep, ClaimWebhookJob, AttemptApplies, AttemptCommits, AttemptFails, FinishWebhookJob,
      StartWorker, IdleWorker, CrashWorker, Next
<1>7. ASSUME TimePasses PROVE TypeInv'
  BY <1>2, <1>7 DEF TimePasses, Next
<1>8. QED
  BY <1>3, <1>4, <1>5, <1>6, <1>7 DEF HookNext
-----------------------------------------------------------------------------
(* What a step of the route leaves of its request r and their delivery d,  *)
(* everything else being untouched.                                        *)
Calls == [pc : RoutePCs, of : Deliveries \cup {NoDelivery}, fresh : BOOLEAN]
Table == [Deliveries -> [status : Marks, created : Time]]

OnlyRequest(r) == request' \in [Requests -> Calls] /\ \A s \in Requests \ {r} : request'[s] = request[s]
OnlyRow(d) ==
  /\ delivery' \in Table /\ \A e \in Deliveries \ {d} : delivery'[e] = delivery[e]
  /\ delivery[d].status # "absent" =>
       delivery'[d].status # "absent" /\ delivery'[d].created = delivery[d].created
OnlyUnsaved(d) ==
  /\ unsaved' \in [Deliveries -> Requests \cup {NoRequest}]
  /\ \A e \in Deliveries \ {d} : unsaved'[e] = unsaved[e]

RouteEffect(r, d) ==
  /\ UNCHANGED <<async, vars, jobOf, attempt>>
  /\ OnlyRequest(r) /\ OnlyRow(d) /\ OnlyUnsaved(d)
  /\ Of(r) \in {d, NoDelivery} /\ Of(r)' \in {d, NoDelivery}
  /\ At(r, "idle")' <=> Of(r)' = NoDelivery
  /\ applied' \in {applied, applied \cup {d}} /\ hasFailed' \in {hasFailed, hasFailed \cup {d}}
  /\ At(r, "dispatched")' => d \in applied'
  /\ delivery'[d].status = "processed" =>
       delivery[d].status = "processed" \/ d \in applied' \cup Malformed
  /\ delivery'[d].status = "failed" => d \in hasFailed'
  /\ d \in hasFailed' => d \in hasFailed \/ delivery'[d].status # "absent"
  /\ At(r, "looked")' /\ ~request'[r].fresh =>
       delivery'[d].status # "absent" /\ (d \in hasFailed' \/ Aged(d)')

LEMMA RouteEffectIsSound ==
  ASSUME HookInv, TypeInv', NEW r \in Requests, NEW d \in Deliveries, RouteEffect(r, d), Alone(d)'
  PROVE  HookInv'
<1> USE DEF HookInv, RouteEffect
<1>0. NoDelivery \notin Deliveries /\ NoRequest \notin Requests
  BY WebhookAssumption
<1>1. HookTypeOK' /\ HasJob'
  <2>1. /\ TypeOK' /\ HasJob' /\ async' \in BOOLEAN /\ jobOf' = jobOf /\ attempt' = attempt
        /\ applied' \subseteq Deliveries /\ hasFailed' \subseteq Deliveries
    BY DEF TypeInv, HookTypeOK
  <2>2. QED
    BY <2>1 DEF HookTypeOK, OnlyRequest, OnlyRow, OnlyUnsaved, Calls, Table
<1>2. NamesOK'
  BY <1>0 DEF NamesOK, OnlyRequest, At, Of, vars
<1>3. AppliedOK'
  <2>1. \A s \in Requests : At(s, "dispatched")' => Of(s)' \in applied'
    BY <1>0 DEF AppliedOK, OnlyRequest, At, Of
  <2>2. \A w \in Workers : attempt'[w].end \in {"applied", "succeeded"} => JobOf(w)' \in applied'
    BY DEF AppliedOK, JobOf, vars
  <2>3. ProcessedWasApplied'
    BY DEF AppliedOK, ProcessedWasApplied, OnlyRow
  <2>4. QED
    BY <2>1, <2>2, <2>3 DEF AppliedOK
<1>4. \A e \in Deliveries : Aged(e) => Aged(e)'
  BY DEF Aged, OnlyRow, vars
<1>5. FailedOK'
  <2>1. \A e \in Deliveries : delivery'[e].status = "failed" => e \in hasFailed'
    BY DEF FailedOK, OnlyRow
  <2>2. \A e \in Deliveries : e \in hasFailed' => delivery'[e].status # "absent"
    BY DEF FailedOK, OnlyRow
  <2>3. ASSUME NEW s \in Requests, At(s, "looked")', ~request'[s].fresh
        PROVE  delivery'[Of(s)'].status # "absent" /\ (Of(s)' \in hasFailed' \/ Aged(Of(s))')
    <3>1. CASE s = r
      BY <1>0, <2>3, <3>1, <1>2 DEF NamesOK, At, Of
    <3>2. CASE s # r
      <4>1. request'[s] = request[s] /\ Of(s) \in Deliveries /\ At(s, "looked")
        BY <2>3, <3>2 DEF OnlyRequest, At, Of, NamesOK
      <4>2. delivery[Of(s)].status # "absent" /\ (Of(s) \in hasFailed \/ Aged(Of(s)))
        BY <2>3, <4>1 DEF FailedOK
      <4>3. QED
        BY <1>4, <4>1, <4>2 DEF OnlyRow, Of
    <3>3. QED
      BY <3>1, <3>2
  <2>4. QED
    BY <2>1, <2>2, <2>3 DEF FailedOK
<1>6. ASSUME NEW e \in Deliveries, e # d PROVE Alone(e)'
  <2>1. Serving(e)' = Serving(e) /\ Given(e)' = Given(e)
    BY <1>6, <1>0 DEF Serving, Given, OnlyRequest, At, Of
  <2>2. \A s \in Serving(e) : request'[s] = request[s]
    BY <1>6, <1>0 DEF Serving, OnlyRequest, Of
  <2>3. delivery'[e] = delivery[e] /\ unsaved'[e] = unsaved[e]
    BY <1>6 DEF OnlyRow, OnlyUnsaved
  <2>4. Alone(e)
    BY DEF AloneOK
  <2>5. (e \in hasFailed' <=> e \in hasFailed) /\ (Aged(e)' <=> Aged(e))
    BY <1>6, <2>3 DEF Aged, vars
  <2>6. QED
    BY <2>1, <2>2, <2>3, <2>4, <2>5 DEF Alone, At
<1>7. QED
  BY <1>1, <1>2, <1>3, <1>5, <1>6 DEF AloneOK
LEMMA GoIsTyped ==
  ASSUME HookTypeOK, NEW r \in Requests, NEW pc \in RoutePCs, Go(r, pc)
  PROVE  OnlyRequest(r) /\ request'[r] = [request[r] EXCEPT !.pc = pc]
BY DEF HookTypeOK, Go, OnlyRequest, Calls

LEMMA AnswerIsTyped ==
  ASSUME HookTypeOK, NEW r \in Requests, Answer(r)
  PROVE  OnlyRequest(r) /\ request'[r] = NoReq
BY DEF HookTypeOK, Answer, OnlyRequest, Calls, NoReq, RoutePCs

LEMMA StatusIsTyped ==
  ASSUME HookTypeOK, NEW d \in Deliveries, NEW s \in Marks \ {"absent"},
         delivery' = [delivery EXCEPT ![d].status = s]
  PROVE  OnlyRow(d) /\ delivery'[d].status = s /\ delivery'[d].created = delivery[d].created
BY DEF HookTypeOK, OnlyRow, Table

LEMMA RowIsTyped ==
  ASSUME HookTypeOK, NEW d \in Deliveries, NEW s \in Marks \ {"absent"}, NEW t \in Time,
         delivery[d].status = "absent" \/ t = delivery[d].created,
         delivery' = [delivery EXCEPT ![d] = [status |-> s, created |-> t]]
  PROVE  OnlyRow(d) /\ delivery'[d] = [status |-> s, created |-> t]
BY DEF HookTypeOK, OnlyRow, Table

(* A request finds its row in the state that let it register. *)
LEMMA Registering ==
  ASSUME HookInv, NEW r \in Requests, CanRegister(r)
  PROVE  /\ Of(r) \in Deliveries
         /\ request[r].fresh => /\ delivery[Of(r)].status = "absent" /\ Serving(Of(r)) = {}
                                /\ Given(Of(r)) = {} /\ unsaved[Of(r)] = NoRequest
         /\ ~request[r].fresh => /\ delivery[Of(r)].status # "absent"
                                 /\ Of(r) \in hasFailed \/ Aged(Of(r))
<1>1. Of(r) \in Deliveries
  BY DEF CanRegister, HookInv, NamesOK, At
<1>2. ASSUME request[r].fresh
      PROVE  /\ delivery[Of(r)].status = "absent" /\ Serving(Of(r)) = {}
             /\ Given(Of(r)) = {} /\ unsaved[Of(r)] = NoRequest
  <2>1. delivery[Of(r)].status = "absent" /\ unsaved[Of(r)] = NoRequest
    BY <1>2 DEF CanRegister
  <2>2. Given(Of(r)) = {} /\ \A s \in Serving(Of(r)) : unsaved[Of(r)] = s
    BY <1>1, <2>1 DEF HookInv, AloneOK, Alone
  <2>3. QED
    BY <2>1, <2>2, WebhookAssumption DEF Serving
<1>3. QED
  BY <1>1, <1>2 DEF CanRegister, HookInv, FailedOK

(* The request at work on a delivery leaves it, or stays with a row that is *)
(* committed: nobody else is at work then.                                  *)
LEMMA AloneAfterwards ==
  ASSUME HookInv, NEW r \in Requests, NEW d \in Deliveries, r \in Serving(d),
         OnlyRequest(r), OnlyRow(d), Of(r)' \in {d, NoDelivery}, UNCHANGED <<vars, jobOf>>,
         d \in hasFailed => d \in hasFailed',
         Of(r)' = d => ~At(r, "looked")',
         delivery'[d].status = "absent" =>
           Of(r)' # d \/ (unsaved'[d] = r /\ ~At(r, "committed")')
  PROVE  Alone(d)'
<1>1. Given(d)' = Given(d)
  BY DEF Given
<1>2. Serving(d)' \subseteq Serving(d)
  BY DEF Serving, OnlyRequest, At, Of
<1>3. Alone(d)
  BY DEF HookInv, AloneOK
<1>4. Aged(d) => Aged(d)'
  BY DEF Aged, OnlyRow, vars
<1>5. ASSUME delivery'[d].status = "absent"
      PROVE  Given(d)' = {} /\ \A s \in Serving(d)' : unsaved'[d] = s /\ ~At(s, "committed")'
  <2>1. delivery[d].status = "absent"
    BY <1>5 DEF OnlyRow
  <2>2. Given(d) = {} /\ \A s \in Serving(d) : unsaved[d] = s
    BY <1>3, <2>1 DEF Alone
  <2>3. \A s \in Serving(d)' : s = r
    BY <1>2, <2>2
  <2>4. r \in Serving(d)' => Of(r)' = d
    BY DEF Serving, Of
  <2>5. QED
    BY <1>1, <1>5, <2>2, <2>3, <2>4
<1>6. ASSUME d \notin hasFailed', ~Aged(d)'
      PROVE  /\ \A s, t \in Serving(d)' : s = t
             /\ \A j, k \in Given(d)' : j = k
             /\ Serving(d)' = {} \/ Given(d)' = {}
  BY <1>1, <1>2, <1>3, <1>4, <1>6 DEF Alone
<1>7. QED
  BY <1>5, <1>6 DEF Alone

(* A request that starts work on a delivery starts it alone, or on one that *)
(* has failed or aged.                                                      *)
LEMMA AloneFromNow ==
  ASSUME HookInv, NEW r \in Requests, CanRegister(r), NEW d \in Deliveries, d = Of(r),
         OnlyRequest(r), OnlyRow(d), Of(r)' \in {d, NoDelivery}, UNCHANGED <<vars, jobOf, hasFailed>>,
         delivery'[d].status = "absent" =>
           request[r].fresh /\ (Of(r)' # d \/ (unsaved'[d] = r /\ ~At(r, "committed")'))
  PROVE  Alone(d)'
<1>1. Given(d)' = Given(d)
  BY DEF Given
<1>2. ASSUME request[r].fresh PROVE Alone(d)'
  <2>1. Given(d) = {} /\ Serving(d) = {}
    BY <1>2, Registering
  <2>2. \A s \in Serving(d)' : s = r /\ Of(r)' = d
    BY <2>1 DEF Serving, OnlyRequest, At, Of
  <2>3. QED
    BY <1>1, <2>1, <2>2 DEF Alone
<1>3. ASSUME ~request[r].fresh PROVE Alone(d)'
  <2>1. d \in hasFailed \/ Aged(d)
    BY <1>3, Registering
  <2>2. Aged(d) => Aged(d)'
    BY DEF Aged, OnlyRow, vars
  <2>3. QED
    BY <1>3, <2>1, <2>2 DEF Alone
<1>4. QED
  BY <1>2, <1>3
-----------------------------------------------------------------------------
LEMMA RoutePreserves ==
  ASSUME HookInv, TypeInv', NEW r \in Requests,
         \/ \E d \in Deliveries : Receive(r, d) \/ AnswerDuplicate(r, d)
         \/ RouteStep(r) \/ HandlerCommits(r)
  PROVE  HookInv'
<1> PICK d : d = Of(r)
  OBVIOUS
<1>0. /\ d = Of(r) /\ HookTypeOK /\ NamesOK /\ AppliedOK /\ FailedOK
      /\ NoDelivery \notin Deliveries /\ NoRequest \notin Requests
  BY WebhookAssumption DEF HookInv
<1>1. ASSUME NEW e \in Deliveries, Receive(r, e) PROVE HookInv'
  <2>1. /\ OnlyRequest(r) /\ OnlyRow(e) /\ OnlyUnsaved(e)
        /\ request'[r].pc = "looked" /\ request'[r].of = e
        /\ request'[r].fresh <=> delivery[e].status = "absent"
    BY <1>0, <1>1 DEF Receive, HookTypeOK, OnlyRequest, OnlyRow, OnlyUnsaved, Calls, Table, RoutePCs
  <2>2. delivery[e].status # "absent" => e \in hasFailed \/ Aged(e)
    BY <1>0, <1>1 DEF Receive, IsDuplicate, InFlight, FailedOK, HookTypeOK, Marks
  <2>3. RouteEffect(r, e)
    BY <1>0, <1>1, <2>1, <2>2 DEF RouteEffect, Receive, At, Of, NamesOK, FailedOK, Aged, vars
  <2>4. Serving(e)' = Serving(e) /\ Given(e)' = Given(e) /\ \A s \in Serving(e) : request'[s] = request[s]
    BY <1>0, <1>1, <2>1 DEF Receive, Serving, Given, OnlyRequest, NamesOK, At, Of
  <2>5. Alone(e)'
    BY <1>1, <2>4 DEF Receive, HookInv, AloneOK, Alone, Aged, vars, At
  <2>6. QED
    BY <2>3, <2>5, RouteEffectIsSound
<1>2. ASSUME NEW e \in Deliveries, AnswerDuplicate(r, e) PROVE HookInv'
  BY <1>2 DEF AnswerDuplicate, allVars, hookVars, vars, HookInv, HookTypeOK, TypeOK, HasJob, NamesOK,
              AppliedOK, ProcessedWasApplied, JobOf, FailedOK, Aged, AloneOK, Alone, Serving, Given,
              At, Of
<1>3. ASSUME RefuseInsert(r) PROVE HookInv'
  <2>1. d \in Deliveries /\ At(r, "looked")
    BY <1>0, <1>3 DEF RefuseInsert, NamesOK, At
  <2>2. OnlyRequest(r) /\ request'[r] = NoReq
    BY <1>0, <1>3, AnswerIsTyped DEF RefuseInsert
  <2>3. OnlyRow(d) /\ OnlyUnsaved(d)
    BY <1>0, <1>3, <2>1 DEF RefuseInsert, HookTypeOK, OnlyRow, OnlyUnsaved, Table
  <2>4. RouteEffect(r, d)
    BY <1>0, <1>3, <2>1, <2>2, <2>3 DEF RouteEffect, RefuseInsert, At, Of, NoReq, FailedOK
  <2>5. Serving(d)' = Serving(d) /\ Given(d)' = Given(d) /\ \A s \in Serving(d) : request'[s] = request[s]
    BY <1>0, <1>3, <2>1, <2>2 DEF RefuseInsert, Serving, Given, OnlyRequest, At, Of, NoReq
  <2>6. Alone(d)'
    BY <1>3, <2>1, <2>5 DEF RefuseInsert, HookInv, AloneOK, Alone, Aged, vars, At
  <2>7. QED
    BY <2>1, <2>4, <2>6, RouteEffectIsSound
<1>4. ASSUME SettleAtOnce(r) PROVE HookInv'
  <2>1. CanRegister(r) /\ d \in Deliveries /\ Of(r) = d
    BY <1>0, <1>4, Registering DEF SettleAtOnce
  <2>2. OnlyRequest(r) /\ request'[r] = NoReq
    BY <1>0, <1>4, AnswerIsTyped DEF SettleAtOnce
  <2>3. PICK t \in Time : /\ delivery' = [delivery EXCEPT ![d] = [status |-> "processed", created |-> t]]
                          /\ delivery[d].status = "absent" \/ t = delivery[d].created
    <3>1. now \in Time /\ delivery[d].created \in Time
      BY <1>0, <2>1 DEF HookTypeOK, TypeOK
    <3>2. CASE request[r].fresh
      BY <1>0, <1>4, <2>1, <3>1, <3>2, Registering DEF SettleAtOnce
    <3>3. CASE ~request[r].fresh
      BY <1>0, <1>4, <3>1, <3>3 DEF SettleAtOnce
    <3>4. QED
      BY <3>2, <3>3
  <2>4. OnlyRow(d) /\ delivery'[d].status = "processed"
    <3>1. "processed" \in Marks \ {"absent"}
      BY DEF Marks
    <3>2. OnlyRow(d) /\ delivery'[d] = [status |-> "processed", created |-> t]
      BY <1>0, <2>1, <2>3, <3>1, RowIsTyped
    <3>3. QED
      BY <3>2
  <2>5. OnlyUnsaved(d)
    BY <1>0, <1>4 DEF SettleAtOnce, HookTypeOK, OnlyUnsaved
  <2>6. applied' \in {applied, applied \cup {d}} /\ d \in applied' \cup Malformed
    BY <1>0, <1>4, <2>1 DEF SettleAtOnce, Apply
  <2>7. RouteEffect(r, d)
    BY <1>0, <1>4, <2>1, <2>2, <2>4, <2>5, <2>6 DEF RouteEffect, SettleAtOnce, At, Of, NoReq
  <2>8. Alone(d)'
    BY <1>0, <1>4, <2>1, <2>2, <2>4, AloneFromNow DEF SettleAtOnce, Of, NoReq
  <2>9. QED
    BY <2>1, <2>7, <2>8, RouteEffectIsSound
<1>5. ASSUME CommitMarker(r) PROVE HookInv'
  <2>1. CanRegister(r) /\ d \in Deliveries
    BY <1>0, <1>5, Registering DEF CommitMarker
  <2>2. OnlyRequest(r) /\ request'[r] = [request[r] EXCEPT !.pc = "committed"]
    BY <1>0, <1>5, GoIsTyped DEF CommitMarker, RoutePCs
  <2>3. /\ OnlyRow(d) /\ delivery'[d].status # "absent"
        /\ delivery'[d].status \in {delivery[d].status, "processing"}
    <3>1. CASE request[r].fresh
      <4>1. now \in Time /\ "processing" \in Marks \ {"absent"}
        BY <1>0 DEF HookTypeOK, TypeOK, Marks
      <4>2. /\ delivery[d].status = "absent"
            /\ delivery' = [delivery EXCEPT ![d] = [status |-> "processing", created |-> now]]
        BY <1>0, <1>5, <2>1, <3>1, Registering DEF CommitMarker
      <4>3. OnlyRow(d) /\ delivery'[d] = [status |-> "processing", created |-> now]
        BY <1>0, <2>1, <4>1, <4>2, RowIsTyped
      <4>4. QED
        BY <4>3
    <3>2. CASE ~request[r].fresh
      BY <1>0, <1>5, <2>1, <3>2, Registering DEF CommitMarker, HookTypeOK, OnlyRow, Table
    <3>3. QED
      BY <3>1, <3>2
  <2>4. OnlyUnsaved(d)
    BY <1>0, <1>5 DEF CommitMarker, HookTypeOK, OnlyUnsaved
  <2>5. request'[r].pc = "committed" /\ Of(r)' = d
    BY <1>0, <2>2 DEF HookTypeOK, Of
  <2>6. RouteEffect(r, d)
    BY <1>0, <1>5, <2>1, <2>2, <2>3, <2>4, <2>5 DEF RouteEffect, CommitMarker, At, FailedOK
  <2>7. Alone(d)'
    BY <1>0, <1>5, <2>1, <2>2, <2>3, <2>5, AloneFromNow DEF CommitMarker
  <2>8. QED
    BY <2>1, <2>6, <2>7, RouteEffectIsSound
<1>6. ASSUME InsertMarker(r) PROVE HookInv'
  <2>1. CanRegister(r) /\ d \in Deliveries
    BY <1>0, <1>6, Registering DEF InsertMarker
  <2>2. OnlyRequest(r) /\ request'[r] = [request[r] EXCEPT !.pc = "dispatching"]
    BY <1>0, <1>6, GoIsTyped DEF InsertMarker, RoutePCs
  <2>3. OnlyRow(d) /\ delivery'[d].status = delivery[d].status /\ OnlyUnsaved(d)
    <3>1. now \in Time
      BY <1>0 DEF HookTypeOK, TypeOK
    <3>2. CASE request[r].fresh
      <4>1. delivery[d].status = "absent" /\ delivery' = [delivery EXCEPT ![d].created = now]
        BY <1>0, <1>6, <2>1, <3>2, Registering DEF InsertMarker
      <4>2. OnlyRow(d) /\ delivery'[d].status = delivery[d].status
        BY <1>0, <2>1, <3>1, <4>1 DEF HookTypeOK, OnlyRow, Table
      <4>3. OnlyUnsaved(d)
        BY <1>0, <1>6, <2>1, <3>2 DEF InsertMarker, HookTypeOK, OnlyUnsaved
      <4>4. QED
        BY <4>2, <4>3
    <3>3. CASE ~request[r].fresh
      BY <1>0, <1>6, <2>1, <3>3 DEF InsertMarker, HookTypeOK, OnlyRow, OnlyUnsaved, Table
    <3>4. QED
      BY <3>2, <3>3
  <2>4. request'[r].pc = "dispatching" /\ Of(r)' = d
    BY <1>0, <2>2 DEF HookTypeOK, Of
  <2>5. delivery'[d].status = "absent" => request[r].fresh /\ unsaved'[d] = r
    BY <1>0, <1>6, <2>1, <2>3, Registering DEF InsertMarker, HookTypeOK
  <2>6. RouteEffect(r, d)
    BY <1>0, <1>6, <2>1, <2>2, <2>3, <2>4 DEF RouteEffect, InsertMarker, At, FailedOK
  <2>7. Alone(d)'
    BY <1>0, <1>6, <2>1, <2>2, <2>3, <2>4, <2>5, AloneFromNow DEF InsertMarker, At
  <2>8. QED
    BY <2>1, <2>6, <2>7, RouteEffectIsSound
<1>7. ASSUME NEW pc \in {"committed", "dispatching", "dispatched"}, At(r, pc)
      PROVE  d \in Deliveries /\ r \in Serving(d)
  BY <1>0, <1>7 DEF NamesOK, Serving, At, Of
<1>8. ASSUME NEW s \in {"processed", "failed"}, MarkDelivery(r, s), Answer(r),
             At(r, "committed") \/ At(r, "dispatching") \/ At(r, "dispatched"),
             s = "processed" => At(r, "dispatched"),
             UNCHANGED <<async, vars, jobOf, attempt, applied>>
      PROVE  HookInv'
  <2>1. d \in Deliveries /\ r \in Serving(d)
    BY <1>0, <1>7, <1>8
  <2>2. OnlyRequest(r) /\ request'[r] = NoReq
    BY <1>0, <1>8, AnswerIsTyped
  <2>3. OnlyRow(d) /\ delivery'[d].status \in {delivery[d].status, s}
    <3>1. CASE delivery' = [delivery EXCEPT ![d].status = s]
      BY <1>0, <2>1, <3>1, StatusIsTyped DEF Marks
    <3>2. CASE UNCHANGED delivery
      BY <1>0, <2>1, <3>2 DEF HookTypeOK, OnlyRow, Table
    <3>3. QED
      BY <1>8, <3>1, <3>2 DEF MarkDelivery
  <2>4. OnlyUnsaved(d)
    BY <1>0, <1>8, <2>1 DEF MarkDelivery, HookTypeOK, OnlyUnsaved
  <2>5. hasFailed' = IF delivery'[d].status = "failed" THEN hasFailed \cup {d} ELSE hasFailed
    BY <1>0, <1>8 DEF MarkDelivery
  <2>6. s = "processed" => d \in applied
    BY <1>0, <1>8 DEF AppliedOK
  <2>7. RouteEffect(r, d)
    BY <1>0, <1>8, <2>1, <2>2, <2>3, <2>4, <2>5, <2>6 DEF RouteEffect, At, Of, NoReq, FailedOK
  <2>8. Alone(d)'
    BY <1>0, <1>8, <2>1, <2>2, <2>3, <2>5, AloneAfterwards DEF Of, NoReq
  <2>9. QED
    BY <2>1, <2>7, <2>8, RouteEffectIsSound
<1>9. ASSUME HandlerCommits(r) PROVE HookInv'
  <2>1. d \in Deliveries /\ r \in Serving(d) /\ At(r, "dispatching")
    BY <1>7, <1>9 DEF HandlerCommits
  <2>2. OnlyRequest(r) /\ request' = request
    BY <1>0, <1>9 DEF HandlerCommits, HookTypeOK, OnlyRequest, Calls
  <2>3. OnlyRow(d) /\ delivery'[d].status = "processing"
    BY <1>0, <1>9, <2>1, StatusIsTyped DEF HandlerCommits, Marks
  <2>4. OnlyUnsaved(d)
    BY <1>0, <1>9, <2>1 DEF HandlerCommits, HookTypeOK, OnlyUnsaved
  <2>5. RouteEffect(r, d)
    BY <1>0, <1>9, <2>1, <2>2, <2>3, <2>4 DEF RouteEffect, HandlerCommits, At, Of
  <2>6. Alone(d)'
    BY <1>9, <2>1, <2>2, <2>3, AloneAfterwards DEF HandlerCommits, Of, At
  <2>7. QED
    BY <2>1, <2>5, <2>6, RouteEffectIsSound
<1>10. ASSUME DispatchSucceeds(r) PROVE HookInv'
  <2>1. d \in Deliveries /\ r \in Serving(d) /\ At(r, "dispatching")
    BY <1>7, <1>10 DEF DispatchSucceeds
  <2>2. OnlyRequest(r) /\ request'[r] = [request[r] EXCEPT !.pc = "dispatched"]
    BY <1>0, <1>10, GoIsTyped DEF DispatchSucceeds, RoutePCs
  <2>3. OnlyRow(d) /\ OnlyUnsaved(d) /\ delivery' = delivery /\ unsaved' = unsaved
    BY <1>0, <1>10, <2>1 DEF DispatchSucceeds, HookTypeOK, OnlyRow, OnlyUnsaved, Table
  <2>4. request'[r].pc = "dispatched" /\ Of(r)' = d
    BY <1>0, <2>2 DEF HookTypeOK, Of
  <2>5. RouteEffect(r, d)
    BY <1>0, <1>10, <2>1, <2>2, <2>3, <2>4 DEF RouteEffect, DispatchSucceeds, Apply, At, FailedOK
  <2>6. delivery[d].status = "absent" => unsaved[d] = r
    BY <2>1 DEF HookInv, AloneOK, Alone
  <2>7. Alone(d)'
    BY <1>10, <2>1, <2>2, <2>3, <2>4, <2>6, AloneAfterwards DEF DispatchSucceeds, At
  <2>8. QED
    BY <2>1, <2>5, <2>7, RouteEffectIsSound
<1>11. ASSUME DispatchRaises(r) PROVE HookInv'
  <2>1. d \in Deliveries /\ r \in Serving(d)
    BY <1>7, <1>11 DEF DispatchRaises
  <2>2. OnlyRequest(r) /\ request'[r] = NoReq
    BY <1>0, <1>11, AnswerIsTyped DEF DispatchRaises
  <2>3. /\ OnlyRow(d)
        /\ \/ delivery[d].status = "absent" /\ UNCHANGED <<delivery, hasFailed>>
           \/ delivery'[d].status = "failed" /\ hasFailed' = hasFailed \cup {d}
    <3>1. CASE delivery[d].status = "absent"
      BY <1>0, <1>11, <2>1, <3>1 DEF DispatchRaises, HookTypeOK, OnlyRow, Table
    <3>2. CASE delivery[d].status # "absent"
      BY <1>0, <1>11, <2>1, <3>2, StatusIsTyped DEF DispatchRaises, Marks
    <3>3. QED
      BY <3>1, <3>2
  <2>4. OnlyUnsaved(d)
    BY <1>0, <1>11, <2>1 DEF DispatchRaises, HookTypeOK, OnlyUnsaved
  <2>5. RouteEffect(r, d)
    BY <1>0, <1>11, <2>1, <2>2, <2>3, <2>4 DEF RouteEffect, DispatchRaises, At, Of, NoReq
  <2>6. Alone(d)'
    BY <1>0, <1>11, <2>1, <2>2, <2>3, AloneAfterwards DEF DispatchRaises, Of, NoReq
  <2>7. QED
    BY <2>1, <2>5, <2>6, RouteEffectIsSound
<1>12. ASSUME NEW j \in Jobs, EnqueueDelivery(r, j) PROVE HookInv'
  <2>1. /\ d \in Deliveries /\ r \in Serving(d) /\ delivery[d].status # "absent"
        /\ row[j].status = "absent" /\ jobOf[j] = NoDelivery
    BY <1>0, <1>7, <1>12 DEF EnqueueDelivery, EnqueueJob, Insert, HookInv, AloneOK, Alone, NamesOK
  <2>2. OnlyRequest(r) /\ request'[r] = NoReq
    BY <1>0, <1>12, AnswerIsTyped DEF EnqueueDelivery
  <2>3. /\ jobOf' = [jobOf EXCEPT ![j] = d] /\ row'[j].status = "pending"
        /\ \A k \in Jobs \ {j} : row'[k] = row[k]
        /\ UNCHANGED <<worker, now, async, delivery, unsaved, attempt, applied, hasFailed>>
    BY <1>0, <1>12 DEF EnqueueDelivery, EnqueueJob, Insert, HookTypeOK, TypeOK
  <2>4. HookTypeOK' /\ HasJob'
    BY <1>0, <2>1, <2>2, <2>3 DEF HookTypeOK, TypeInv, OnlyRequest, Calls
  <2>5. \A w \in Workers : worker[w].pc \in {"picked", "running"} => worker[w].job # j /\ worker[w].job \in Jobs
    BY <1>0, <2>1 DEF NamesOK, HookInv, HasJob
  <2>6. NamesOK'
    <3>1. \A s \in Requests : IF At(s, "idle")' THEN Of(s)' = NoDelivery ELSE Of(s)' \in Deliveries
      BY <1>0, <2>2 DEF NamesOK, OnlyRequest, NoReq, At, Of
    <3>2. \A k \in Jobs : IF row'[k].status = "absent" THEN jobOf'[k] = NoDelivery
                                                      ELSE jobOf'[k] \in Deliveries
      BY <1>0, <2>1, <2>3 DEF NamesOK, HookTypeOK
    <3>3. \A w \in Workers : /\ worker'[w].pc \in {"picked", "running"} =>
                                  row'[worker'[w].job].status # "absent"
                             /\ worker'[w].pc # "running" => attempt'[w] = FirstAttempt
      BY <1>0, <2>3, <2>5 DEF NamesOK
    <3>4. QED
      BY <3>1, <3>2, <3>3 DEF NamesOK
  <2>7. \A w \in Workers : attempt[w].end \in {"applied", "succeeded"} => JobOf(w)' = JobOf(w)
    BY <1>0, <2>3, <2>5 DEF NamesOK, HookTypeOK, TypeOK, Loops, FirstAttempt, JobOf
  <2>8. AppliedOK'
    BY <1>0, <2>2, <2>3, <2>7 DEF AppliedOK, ProcessedWasApplied, OnlyRequest, NoReq, At, Of
  <2>9. FailedOK'
    BY <1>0, <2>2, <2>3 DEF FailedOK, Aged, OnlyRequest, NoReq, At, Of
  <2>10. ASSUME NEW e \in Deliveries PROVE Alone(e)'
    <3>1. Alone(e)
      BY DEF HookInv, AloneOK
    <3>2. Serving(e)' = Serving(e) \ {r} /\ \A s \in Serving(e)' : request'[s] = request[s]
      BY <1>0, <2>2 DEF Serving, OnlyRequest, NoReq, At, Of
    <3>3. Given(e)' = IF e = d THEN Given(e) \cup {j} ELSE Given(e)
      BY <1>0, <2>1, <2>3 DEF Given, HookTypeOK
    <3>4. QED
      BY <2>1, <2>3, <3>1, <3>2, <3>3 DEF Alone, Aged, At
  <2>11. QED
    BY <2>4, <2>6, <2>8, <2>9, <2>10 DEF HookInv, AloneOK
<1>13. QED
  BY <1>1, <1>2, <1>3, <1>4, <1>5, <1>6, <1>8, <1>9, <1>10, <1>11, <1>12
  DEF RouteStep, EnqueueFails, MarkProcessed, DispatchFails
-----------------------------------------------------------------------------
(* The worker: it touches the row of the delivery its job names, a row     *)
(* that is there, and gives nobody anything.                               *)
LEMMA NobodyIsGiven ==
  ASSUME HookInv, TypeInv', UNCHANGED <<async, request, unsaved, jobOf>>,
         delivery' \in Table, attempt' \in [Workers -> [no : 1 .. Attempts,
                                  end : {"none", "applied", "succeeded", "exhausted"}]],
         \A e \in Deliveries : \/ delivery'[e] = delivery[e]
                               \/ /\ delivery[e].status # "absent" /\ delivery'[e].status # "absent"
                                  /\ delivery'[e].created = delivery[e].created,
         \A e \in Deliveries : delivery'[e].status = "failed" => e \in hasFailed',
         \A e \in Deliveries : delivery'[e].status = "processed" =>
            delivery[e].status = "processed" \/ e \in applied',
         applied \subseteq applied', applied' \subseteq Deliveries,
         hasFailed \subseteq hasFailed',
         hasFailed' \subseteq {e \in Deliveries : e \in hasFailed \/ delivery'[e].status # "absent"},
         now <= now',
         \A j \in Jobs : row'[j].status = "absent" <=> row[j].status = "absent",
         \A w \in Workers : worker'[w].pc \in {"picked", "running"} => row[worker'[w].job].status # "absent",
         \A w \in Workers : worker'[w].pc # "running" => attempt'[w] = FirstAttempt,
         \A w \in Workers : attempt'[w].end \in {"applied", "succeeded"} => JobOf(w)' \in applied'
  PROVE  HookInv'
<1> USE DEF HookInv
<1>0. now \in Nat /\ now' \in Nat /\ Window \in Nat /\ \A e \in Deliveries : delivery[e].created \in Nat
  BY JobQueueAssumption, WebhookAssumption DEF HookTypeOK, TypeInv, TypeOK, Time
<1>1. HookTypeOK' /\ HasJob'
  BY DEF HookTypeOK, TypeInv, Table
<1>2. NamesOK'
  BY DEF NamesOK, At, Of, TypeInv, HasJob
<1>3. AppliedOK'
  BY DEF AppliedOK, ProcessedWasApplied, At, Of
<1>4. \A e \in Deliveries : Aged(e) => Aged(e)'
  BY <1>0 DEF Aged
<1>5. FailedOK'
  <2>1. \A r \in Requests : At(r, "looked") => Of(r) \in Deliveries
    BY DEF NamesOK, At
  <2>2. QED
    BY <1>4, <2>1 DEF FailedOK, At, Of
<1>6. ASSUME NEW e \in Deliveries PROVE Alone(e)'
  <2>1. Serving(e)' = Serving(e) /\ Given(e)' = Given(e)
    BY DEF Serving, Given, At
  <2>2. Alone(e)
    BY DEF AloneOK
  <2>3. delivery'[e].status = "absent" => delivery[e].status = "absent"
    OBVIOUS
  <2>4. QED
    BY <1>4, <2>1, <2>2, <2>3 DEF Alone, At
<1>7. QED
  BY <1>1, <1>2, <1>3, <1>5, <1>6 DEF AloneOK
LEMMA WorkerPreserves ==
  ASSUME HookInv, TypeInv', NEW w \in Workers, WorkerStep(w) \/ IdleWorker(w) \/ CrashWorker(w)
  PROVE  HookInv'
<1> DEFINE Ends == {"none", "applied", "succeeded", "exhausted"}
<1>0. /\ HookTypeOK /\ HasJob /\ NamesOK /\ AppliedOK /\ FailedOK /\ delivery \in Table
      /\ now \in Nat /\ attempt \in [Workers -> [no : 1 .. Attempts, end : Ends]]
      /\ FirstAttempt \in [no : 1 .. Attempts, end : Ends]
  BY JobQueueAssumption, WebhookAssumption
  DEF HookInv, HookTypeOK, Table, TypeOK, Time, FirstAttempt
(* The queue's steps: hookVars stay, or this worker's loop starts anew. *)
<1>1. ASSUME NEW a \in {attempt[w], FirstAttempt}, attempt' = [attempt EXCEPT ![w] = a],
             UNCHANGED <<async, delivery, unsaved, request, jobOf, applied, hasFailed, now>>,
             \A v \in Workers \ {w} : worker'[v] = worker[v],
             a # FirstAttempt => worker'[w] = worker[w],
             worker'[w].pc \in {"picked", "running"} => row[worker'[w].job].status # "absent",
             \A j \in Jobs : row'[j].status = "absent" <=> row[j].status = "absent"
      PROVE  HookInv'
  <2>1. /\ attempt' \in [Workers -> [no : 1 .. Attempts, end : Ends]] /\ attempt'[w] = a
        /\ \A v \in Workers \ {w} : attempt'[v] = attempt[v]
    BY <1>0, <1>1
  <2>2. \A v \in Workers : worker'[v].pc # "running" => attempt'[v] = FirstAttempt
    BY <1>0, <1>1, <2>1 DEF NamesOK
  <2>3. \A v \in Workers : attempt'[v].end \in {"applied", "succeeded"} => JobOf(v)' \in applied'
    BY <1>0, <1>1, <2>1 DEF AppliedOK, JobOf, FirstAttempt
  <2>4. \A v \in Workers : worker'[v].pc \in {"picked", "running"} => row[worker'[v].job].status # "absent"
    BY <1>0, <1>1 DEF NamesOK
  <2>5. QED
    BY <1>0, <1>1, <2>1, <2>2, <2>3, <2>4, NobodyIsGiven DEF FailedOK, HookTypeOK
<1>2. ASSUME UNCHANGED hookVars, UNCHANGED now,
             \A v \in Workers \ {w} : worker'[v] = worker[v],
             worker[w].pc # "running" \/ worker'[w] = worker[w],
             worker'[w].pc \in {"picked", "running"} => row[worker'[w].job].status # "absent",
             \A j \in Jobs : row'[j].status = "absent" <=> row[j].status = "absent"
      PROVE  HookInv'
  <2>1. attempt' = [attempt EXCEPT ![w] = attempt[w]]
    BY <1>0, <1>2 DEF hookVars
  <2>2. attempt[w] # FirstAttempt => worker'[w] = worker[w]
    BY <1>0, <1>2 DEF NamesOK
  <2>3. QED
    BY <1>1, <1>2, <2>1, <2>2 DEF hookVars
<1>3. ASSUME ClaimWebhookJob(w) PROVE HookInv'
  <2>1. ASSUME NEW j \in Jobs, WorkerClaims(w, j) \/ WorkerPicks(w, j) PROVE HookInv'
    <3>1. row[j].status # "absent" /\ worker[w].pc = "idle" /\ now' = now
      BY <2>1 DEF WorkerClaims, WorkerPicks, Oldest
    <3>2. worker'[w].job = j /\ \A v \in Workers \ {w} : worker'[v] = worker[v]
      BY <1>0, <2>1 DEF WorkerClaims, WorkerPicks, HookTypeOK, TypeOK, Loops
    <3>3. \A k \in Jobs : row'[k].status = "absent" <=> row[k].status = "absent"
      BY <1>0, <2>1, <3>1 DEF WorkerClaims, WorkerPicks, SetRunning, HookTypeOK, TypeOK, Rows
    <3>4. QED
      BY <1>2, <1>3, <3>1, <3>2, <3>3 DEF ClaimWebhookJob
  <2>2. ASSUME WorkerUpdates(w) PROVE HookInv'
    <3>1. worker[w].job \in Jobs /\ row[worker[w].job].status # "absent" /\ worker[w].pc = "picked"
      BY <1>0, <2>2 DEF WorkerUpdates, HasJob, NamesOK
    <3>2. /\ worker'[w].job = worker[w].job /\ \A v \in Workers \ {w} : worker'[v] = worker[v]
          /\ now' = now
      BY <1>0, <2>2 DEF WorkerUpdates, HookTypeOK, TypeOK, Loops
    <3>3. \A j \in Jobs : row'[j].status = "absent" <=> row[j].status = "absent"
      BY <1>0, <2>2, <3>1 DEF WorkerUpdates, SetRunning, HookTypeOK, TypeOK, Rows
    <3>4. QED
      BY <1>2, <1>3, <3>1, <3>2, <3>3 DEF ClaimWebhookJob
  <2>3. QED
    BY <1>3, <2>1, <2>2 DEF ClaimWebhookJob
<1>4. ASSUME StartWorker(w) PROVE HookInv'
  BY <1>0, <1>2, <1>4
  DEF StartWorker, WorkerStarts, FailStaleRunningJobs, Stale, Idle, HookTypeOK, TypeOK, Rows
<1>5. ASSUME IdleWorker(w) PROVE HookInv'
  BY <1>0, <1>2, <1>5 DEF IdleWorker, WorkerSleeps, vars, NamesOK
<1>6. ASSUME CrashWorker(w) PROVE HookInv'
  BY <1>0, <1>1, <1>6 DEF CrashWorker, WorkerCrashes, Down, HookTypeOK, TypeOK
<1>7. ASSUME FinishWebhookJob(w) PROVE HookInv'
  <2>1. worker[w].job \in Jobs /\ row[worker[w].job].status # "absent"
    BY <1>0, <1>7 DEF FinishWebhookJob, Running, HasJob, NamesOK
  <2>2. \A j \in Jobs : row'[j].status = "absent" <=> row[j].status = "absent"
    BY <1>0, <1>7, <2>1
    DEF FinishWebhookJob, WorkerFinishes, MarkJobFinished, Terminal, HookTypeOK, TypeOK, Rows
  <2>3. QED
    BY <1>0, <1>1, <1>7, <2>2 DEF FinishWebhookJob, WorkerFinishes, Idle, HookTypeOK, TypeOK
(* The attempts: the job's delivery has a row. *)
<1>8. ASSUME Running(w)
      PROVE  /\ JobOf(w) \in Deliveries /\ delivery[JobOf(w)].status # "absent"
             /\ worker[w].job \in Jobs
  <2>1. worker[w].job \in Jobs /\ jobOf[worker[w].job] \in Deliveries
    BY <1>0, <1>8 DEF Running, HasJob, NamesOK
  <2>2. worker[w].job \in Given(JobOf(w)) /\ Alone(JobOf(w))
    BY <2>1 DEF Given, JobOf, HookInv, AloneOK
  <2>3. QED
    BY <2>1, <2>2 DEF Alone, JobOf
<1>9. ASSUME NEW s \in {"none", "processed", "failed", "processing"}, NEW a \in [no : 1 .. Attempts, end : Ends],
             Running(w), UNCHANGED <<async, vars, unsaved, request, jobOf>>,
             attempt' = [attempt EXCEPT ![w] = a],
             IF s = "none" THEN UNCHANGED delivery
                           ELSE delivery' = [delivery EXCEPT ![JobOf(w)].status = s],
             applied' \in {applied, applied \cup {JobOf(w)}},
             hasFailed' = IF s = "failed" THEN hasFailed \cup {JobOf(w)} ELSE hasFailed,
             s = "processed" \/ a.end \in {"applied", "succeeded"} => JobOf(w) \in applied'
      PROVE  HookInv'
  <2>1. /\ JobOf(w) \in Deliveries /\ delivery[JobOf(w)].status # "absent" /\ worker[w].job \in Jobs
    BY <1>8, <1>9
  <2>2. /\ delivery' \in Table
        /\ \A e \in Deliveries : delivery'[e].created = delivery[e].created
        /\ \A e \in Deliveries \ {JobOf(w)} : delivery'[e] = delivery[e]
        /\ delivery'[JobOf(w)].status = IF s = "none" THEN delivery[JobOf(w)].status ELSE s
    <3>1. CASE s = "none"
      BY <1>0, <1>9, <3>1
    <3>2. CASE s # "none"
      <4> PICK d \in Deliveries : d = JobOf(w)
        BY <2>1
      <4>1. s \in Marks \ {"absent"} /\ delivery' = [delivery EXCEPT ![d].status = s]
        BY <1>9, <3>2 DEF Marks
      <4>2. OnlyRow(d) /\ delivery'[d].status = s /\ delivery'[d].created = delivery[d].created
        BY ZenonT(60), <1>0, <4>1, StatusIsTyped
      <4>3. QED
        BY <3>2, <4>2 DEF OnlyRow
    <3>3. QED
      BY <3>1, <3>2
  <2>3. /\ attempt' \in [Workers -> [no : 1 .. Attempts, end : Ends]] /\ attempt'[w] = a
        /\ \A v \in Workers \ {w} : attempt'[v] = attempt[v]
    BY <1>0, <1>9
  <2>4. \A v \in Workers : attempt'[v].end \in {"applied", "succeeded"} => JobOf(v)' \in applied'
    BY <1>0, <1>9, <2>3 DEF AppliedOK, JobOf, vars
  <2>5. \A e \in Deliveries : delivery'[e].status = "failed" => e \in hasFailed'
    BY <1>0, <1>9, <2>2 DEF FailedOK
  <2>6. /\ applied \subseteq applied' /\ applied' \subseteq Deliveries /\ hasFailed \subseteq hasFailed'
        /\ hasFailed' \subseteq {e \in Deliveries : e \in hasFailed \/ delivery'[e].status # "absent"}
    BY <1>0, <1>9, <2>1, <2>2 DEF HookTypeOK
  <2>7. \A v \in Workers : worker'[v].pc # "running" => attempt'[v] = FirstAttempt
    BY <1>0, <1>9, <2>3 DEF NamesOK, vars, Running
  <2>8. \A v \in Workers : worker'[v].pc \in {"picked", "running"} => row[worker'[v].job].status # "absent"
    BY <1>0, <1>9 DEF NamesOK, vars
  <2>9. \A e \in Deliveries : \/ delivery'[e] = delivery[e]
                              \/ /\ delivery[e].status # "absent" /\ delivery'[e].status # "absent"
                                 /\ delivery'[e].created = delivery[e].created
    BY <1>9, <2>1, <2>2
  <2>10. \A e \in Deliveries : delivery'[e].status = "processed" =>
           delivery[e].status = "processed" \/ e \in applied'
    BY <1>9, <2>2
  <2>11. now <= now' /\ \A j \in Jobs : row'[j].status = "absent" <=> row[j].status = "absent"
    BY <1>0, <1>9 DEF vars
  <2>12. QED
    BY <1>9, <2>2, <2>3, <2>4, <2>5, <2>6, <2>7, <2>8, <2>9, <2>10, <2>11, NobodyIsGiven
<1>10. ASSUME AttemptApplies(w) PROVE HookInv'
  <2>1. [attempt[w] EXCEPT !.end = "applied"] \in [no : 1 .. Attempts, end : Ends]
    BY <1>0
  <2>2. attempt' = [attempt EXCEPT ![w] = [attempt[w] EXCEPT !.end = "applied"]]
    BY <1>10 DEF AttemptApplies
  <2>3. QED
    BY <1>9, <1>10, <2>1, <2>2 DEF AttemptApplies, Apply
<1>11. ASSUME AttemptCommits(w) PROVE HookInv'
  <2>1. [attempt[w] EXCEPT !.end = "succeeded"] \in [no : 1 .. Attempts, end : Ends]
    BY <1>0
  <2>2. attempt' = [attempt EXCEPT ![w] = [attempt[w] EXCEPT !.end = "succeeded"]]
    BY <1>11 DEF AttemptCommits
  <2>3. JobOf(w) \in applied
    BY <1>0, <1>11 DEF AttemptCommits, AppliedOK
  <2>4. QED
    BY <1>9, <1>11, <2>1, <2>2, <2>3 DEF AttemptCommits
<1>12. ASSUME AttemptFails(w) PROVE HookInv'
  <2>1. CASE attempt[w].no >= Attempts
    <3>1. [attempt[w] EXCEPT !.end = "exhausted"] \in [no : 1 .. Attempts, end : Ends]
      BY <1>0
    <3>2. attempt' = [attempt EXCEPT ![w] = [attempt[w] EXCEPT !.end = "exhausted"]]
      BY <1>12, <2>1 DEF AttemptFails
    <3>3. [attempt[w] EXCEPT !.end = "exhausted"].end = "exhausted"
      BY <1>0
    <3>4. QED
      BY <1>9, <1>12, <2>1, <3>1, <3>2, <3>3 DEF AttemptFails, Trying
  <2>2. CASE ~(attempt[w].no >= Attempts)
    <3>1. [no |-> attempt[w].no + 1, end |-> "none"] \in [no : 1 .. Attempts, end : Ends]
      BY <1>0, <2>2, WebhookAssumption
    <3>2. attempt' = [attempt EXCEPT ![w] = [no |-> attempt[w].no + 1, end |-> "none"]]
      BY <1>12, <2>2 DEF AttemptFails
    <3>3. QED
      BY <1>9, <1>12, <2>2, <3>1, <3>2 DEF AttemptFails, Trying
  <2>3. QED
    BY <2>1, <2>2
<1>13. QED
  BY <1>3, <1>4, <1>5, <1>6, <1>7, <1>10, <1>11, <1>12 DEF WorkerStep

-----------------------------------------------------------------------------
LEMMA StopsAndTimePreserve ==
  ASSUME HookInv, TypeInv', CrashApi \/ TimePasses \/ UNCHANGED allVars PROVE HookInv'
<1>0. /\ HookTypeOK /\ HasJob /\ NamesOK /\ AppliedOK /\ FailedOK /\ delivery \in Table
      /\ now \in Nat
  BY JobQueueAssumption DEF HookInv, HookTypeOK, Table, TypeOK, Time
<1>1. ASSUME CrashApi PROVE HookInv'
  <2>1. HookTypeOK' /\ HasJob'
    BY <1>0, <1>1 DEF CrashApi, HookTypeOK, TypeInv, NoReq, RoutePCs
  <2>2. NamesOK'
    BY <1>0, <1>1 DEF CrashApi, NamesOK, NoReq, At, Of
  <2>3. AppliedOK'
    BY <1>0, <1>1 DEF CrashApi, AppliedOK, ProcessedWasApplied, JobOf, NoReq, At
  <2>4. FailedOK'
    BY <1>0, <1>1 DEF CrashApi, FailedOK, NoReq, At
  <2>5. ASSUME NEW d \in Deliveries PROVE Alone(d)'
    <3>1. Serving(d)' = {} /\ Given(d)' = Given(d) /\ Alone(d)
      BY <1>0, <1>1, WebhookAssumption DEF CrashApi, Serving, Given, NoReq, HookInv, AloneOK
    <3>2. QED
      BY <1>1, <3>1 DEF CrashApi, Alone, Aged
  <2>6. QED
    BY <2>1, <2>2, <2>3, <2>4, <2>5 DEF HookInv, AloneOK
<1>2. ASSUME UNCHANGED hookVars, UNCHANGED <<row, worker>>, now <= now' PROVE HookInv'
  BY <1>0, <1>2, NobodyIsGiven
  DEF hookVars, FailedOK, NamesOK, AppliedOK, JobOf, HookTypeOK
<1>3. QED
  BY <1>0, <1>1, <1>2 DEF TimePasses, Tick, allVars, vars

(***************************************************************************)
(* An invariant of the composition of the route, its row and the queue.    *)
(***************************************************************************)
LEMMA HookInvariance == HookSpec => []HookInv
<1>1. HookInit => HookInv
  BY HookInitEstablishes
<1>2. HookInv /\ [HookNext]_allVars => HookInv'
  <2>1. SUFFICES ASSUME HookInv, [HookNext]_allVars PROVE HookInv'
    OBVIOUS
  <2>2. TypeInv'
    BY <2>1, QueueIsTyped
  <2>3. QED
    BY <2>1, <2>2, RoutePreserves, WorkerPreserves, StopsAndTimePreserve DEF HookNext
<1>3. QED
  BY <1>1, <1>2, PTL DEF HookSpec

(***************************************************************************)
(* A row says `processed` only of what was applied or rejected, and a      *)
(* first try is made by one request or one job at a time, for any number   *)
(* of deliveries, redeliveries, workers and crashes.                       *)
(***************************************************************************)
THEOREM DeliveriesAreSound == HookSpec => []DeliveryIsSound
<1>1. ASSUME HookInv PROVE DeliveryIsSound
  <2>1. HookTypeOK /\ ProcessedWasApplied
    BY <1>1 DEF HookInv, AppliedOK
  <2>2. ASSUME NEW d \in Deliveries, d \notin hasFailed, ~Aged(d)
        PROVE  Cardinality(Serving(d) \cup Queued(d)) <= 1
    <3>1. /\ \A r, s \in Serving(d) : r = s
          /\ \A j, k \in Given(d) : j = k
          /\ Serving(d) = {} \/ Given(d) = {}
      BY <1>1, <2>2 DEF HookInv, AloneOK, Alone
    <3>2. Queued(d) \subseteq Given(d)
      BY DEF Queued, Given
    <3>3. \A x, y \in Serving(d) \cup Queued(d) : x = y
      BY <3>1, <3>2
    <3>4. CASE Serving(d) \cup Queued(d) = {}
      BY <3>4, FS_EmptySet
    <3>5. CASE Serving(d) \cup Queued(d) # {}
      <4>1. PICK x : Serving(d) \cup Queued(d) = {x}
        BY <3>3, <3>5
      <4>2. QED
        BY <4>1, FS_Singleton
    <3>6. QED
      BY <3>4, <3>5
  <2>3. QED
    BY <2>1, <2>2 DEF DeliveryIsSound, FirstTryIsExclusive
<1>2. QED
  BY <1>1, HookInvariance, PTL
=============================================================================
