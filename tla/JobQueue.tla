------------------------------ MODULE JobQueue ------------------------------
(***************************************************************************)
(* The database-backed job queue (boardman/broker/job_queue.py) with its   *)
(* two kinds of runner: the standalone worker loop                         *)
(* (boardman/sqlite_worker.py) and the task the API process starts behind  *)
(* its own reply (boardman/jobs/deferred.py).                              *)
(*                                                                         *)
(* The table is durable; what the worker and API processes hold in memory  *)
(* is lost when they crash.  A handler's own work is abstracted to the     *)
(* step that begins it (counted in `begun`) and the outcome that ends it.  *)
(***************************************************************************)
EXTENDS Naturals

CONSTANTS
  Jobs,           \* the job ids enqueue_job may draw
  Workers,        \* processes running sqlite_worker.run_worker_forever
  Deployments,    \* the ways the service is deployed, see Deployment
  StaleAfter,     \* settings.queue_worker_stale_running_seconds, in ticks
  MaxTime,        \* bound on the clock
  MaxCrashes,     \* bound on the crashes of worker and API processes
  NoJob           \* "holds no job"

Deployment ==
  [atomic    : BOOLEAN,          \* TRUE: SQLite, the claim statement excludes other writers;
                                 \* FALSE: Postgres READ COMMITTED, it reads, then updates
   workers   : SUBSET Workers,   \* the worker processes it runs
   deferring : BOOLEAN]          \* the assistant, which runs jobs behind its reply, is used

(* The deployments there are: SQLite with every runner; Postgres behind a   *)
(* single worker, with jobs enqueued by the routes only, as webhook jobs    *)
(* always are; and Postgres with the assistant's deferred jobs as well.     *)
SqliteOrLone ==
  {[atomic |-> TRUE, workers |-> Workers, deferring |-> TRUE]}
  \cup {[atomic |-> FALSE, workers |-> {w}, deferring |-> FALSE] : w \in Workers}
PostgresRoutes    == {[atomic |-> FALSE, workers |-> Workers, deferring |-> FALSE]}
PostgresDeferring == {[atomic |-> FALSE, workers |-> Workers, deferring |-> TRUE]}

ASSUME JobQueueAssumption ==
  /\ Deployments \subseteq Deployment
  /\ StaleAfter \in Nat
  /\ MaxTime \in Nat
  /\ MaxCrashes \in Nat
  /\ NoJob \notin Jobs

VARIABLES
  deployment, \* how the service is deployed, fixed
  row,        \* table background_jobs: status, created_at, started_at
  worker,     \* per worker process: what its loop is at, and with which job
  deferred,   \* per job: the asyncio task of the API process that runs it
  begun,      \* history: how many times each job's handler was begun
  now,        \* the clock both processes read (datetime.utcnow)
  crashes     \* how many crashes have happened

vars == <<deployment, row, worker, deferred, begun, now, crashes>>

Statuses == {"absent", "pending", "running", "complete", "incomplete"}
Terminal == {"complete", "incomplete"}
Time     == 0 .. MaxTime

Rows    == [status : Statuses, created : Time, started : Time]
Loops   == [pc : {"down", "idle", "picked", "running"},
            job : Jobs \cup {NoJob}, at : Time]

TypeOK ==
  /\ deployment \in Deployments
  /\ row \in [Jobs -> Rows]
  /\ worker \in [Workers -> Loops]
  /\ deferred \in [Jobs -> {"none", "scheduled", "running"}]
  /\ begun \in [Jobs -> Nat]
  /\ now \in Time
  /\ crashes \in 0 .. MaxCrashes

Idle == [pc |-> "idle", job |-> NoJob, at |-> 0]
Down == [pc |-> "down", job |-> NoJob, at |-> 0]

Init ==
  /\ deployment \in Deployments
  /\ row = [j \in Jobs |-> [status |-> "absent", created |-> 0, started |-> 0]]
  /\ worker = [w \in Workers |-> Down]
  /\ deferred = [j \in Jobs |-> "none"]
  /\ begun = [j \in Jobs |-> 0]
  /\ now = 0
  /\ crashes = 0

-----------------------------------------------------------------------------
(* SqliteJobQueue.enqueue_job: one INSERT, committed before it returns. *)
Insert(j) ==
  /\ row[j].status = "absent"
  /\ row' = [row EXCEPT ![j] = [status |-> "pending", created |-> now, started |-> 0]]

EnqueueJob(j) ==
  /\ Insert(j)
  /\ UNCHANGED <<deployment, worker, deferred, begun, now, crashes>>

(* enqueue_and_run_soon: nothing is awaited between the committed INSERT *)
(* and create_task, so the API process does both in one step.            *)
EnqueueAndRunSoon(j) ==
  /\ deployment.deferring
  /\ Insert(j)
  /\ deferred' = [deferred EXCEPT ![j] = "scheduled"]
  /\ UNCHANGED <<deployment, worker, begun, now, crashes>>

(* The statement shared by both claims: the row becomes `running`. *)
SetRunning(j, at) ==
  row' = [row EXCEPT ![j].status = "running", ![j].started = at]

Begin(j) == begun' = [begun EXCEPT ![j] = @ + 1]

(* Mutation: the claim by id forgets to test the status. *)
DeferredClaimsBlindly(j) ==
  /\ deferred[j] = "scheduled"
  /\ SetRunning(j, now)
  /\ deferred' = [deferred EXCEPT ![j] = "running"]
  /\ Begin(j)
  /\ UNCHANGED <<deployment, worker, now, crashes>>

(* CLAIM_ONE_SQL tests the status in the statement that changes it, on     *)
(* both databases: the loser's claim returns None and its task ends there. *)
DeferredClaims(j) ==
  /\ deferred[j] = "scheduled"
  /\ row[j].status = "pending"
  /\ SetRunning(j, now)
  /\ deferred' = [deferred EXCEPT ![j] = "running"]
  /\ Begin(j)
  /\ UNCHANGED <<deployment, worker, now, crashes>>

DeferredLosesClaim(j) ==
  /\ deferred[j] = "scheduled"
  /\ row[j].status # "pending"
  /\ deferred' = [deferred EXCEPT ![j] = "none"]
  /\ UNCHANGED <<deployment, row, worker, begun, now, crashes>>

(* Mutation: the webhook table's word for a failure. *)
MarkJobFailed(j, outcome) ==
  row' = [row EXCEPT ![j].status = IF outcome = "complete" THEN outcome ELSE "failed"]

(* mark_job_finished: an UPDATE on the id alone, whatever the status is.  *)
(* A handler that is missing, raises or reports {"ok": False} ends its    *)
(* job `incomplete`; any other return ends it `complete`.                 *)
MarkJobFinished(j, outcome) == row' = [row EXCEPT ![j].status = outcome]

DeferredFinishes(j) ==
  /\ deferred[j] = "running"
  /\ \E outcome \in Terminal : MarkJobFinished(j, outcome)
  /\ deferred' = [deferred EXCEPT ![j] = "none"]
  /\ UNCHANGED <<deployment, worker, begun, now, crashes>>

-----------------------------------------------------------------------------
(* Mutation: an unfinished job holds up the jobs behind it. *)
OldestOfUnfinished(j) ==
  /\ row[j].status = "pending"
  /\ \A k \in Jobs :
       row[k].status \in {"pending", "running"} => row[j].created <= row[k].created

(* The order in which CLAIM_SQL picks: ORDER BY created_at LIMIT 1. *)
Oldest(j) ==
  /\ row[j].status = "pending"
  /\ \A k \in Jobs : row[k].status = "pending" => row[j].created <= row[k].created

(* CLAIM_SQL on SQLite: the CTE and the UPDATE are one write transaction. *)
WorkerClaims(w, j) ==
  /\ deployment.atomic
  /\ worker[w].pc = "idle"
  /\ Oldest(j)
  /\ SetRunning(j, now)
  /\ worker' = [worker EXCEPT ![w] = [pc |-> "running", job |-> j, at |-> now]]
  /\ Begin(j)
  /\ UNCHANGED <<deployment, deferred, now, crashes>>

(* CLAIM_SQL on Postgres: the CTE picks an id in the statement's snapshot *)
(* and takes no lock ...                                                  *)
WorkerPicks(w, j) ==
  /\ ~deployment.atomic
  /\ worker[w].pc = "idle"
  /\ Oldest(j)
  /\ worker' = [worker EXCEPT ![w] = [pc |-> "picked", job |-> j, at |-> now]]
  /\ UNCHANGED <<deployment, row, deferred, begun, now, crashes>>

(* ... and the UPDATE, which waits for any writer of that row, only asks  *)
(* whether the id is still among those picked: the outer WHERE does not   *)
(* mention the status.                                                    *)
WorkerUpdates(w) ==
  /\ worker[w].pc = "picked"
  /\ SetRunning(worker[w].job, worker[w].at)
  /\ worker' = [worker EXCEPT ![w].pc = "running"]
  /\ Begin(worker[w].job)
  /\ UNCHANGED <<deployment, deferred, now, crashes>>

(* No row to take: claim_next_job_row returns None and the loop sleeps. *)
WorkerSleeps(w) ==
  /\ worker[w].pc = "idle"
  /\ \A j \in Jobs : ~Oldest(j)
  /\ UNCHANGED vars

(* The end of _run_one. *)
WorkerFinishes(w) ==
  /\ worker[w].pc = "running"
  /\ \E outcome \in Terminal : MarkJobFinished(worker[w].job, outcome)
  /\ worker' = [worker EXCEPT ![w] = Idle]
  /\ UNCHANGED <<deployment, deferred, begun, now, crashes>>

-----------------------------------------------------------------------------
(* Mutation: every running job is taken for lost. *)
Unfinished(j) == row[j].status = "running"

Stale(j) == row[j].status = "running" /\ row[j].started + StaleAfter < now

(* Mutation: the sweep puts lost jobs back into the queue. *)
RequeueStaleJobs ==
  row' = [j \in Jobs |-> IF Stale(j) THEN [row[j] EXCEPT !.status = "pending"]
                                     ELSE row[j]]

(* fail_stale_running_jobs: one UPDATE over every stale row. *)
FailStaleRunningJobs ==
  row' = [j \in Jobs |-> IF Stale(j) THEN [row[j] EXCEPT !.status = "incomplete"]
                                     ELSE row[j]]

(* run_worker_forever sweeps once, before its loop, and never again. *)
WorkerStarts(w) ==
  /\ w \in deployment.workers
  /\ worker[w].pc = "down"
  /\ FailStaleRunningJobs
  /\ worker' = [worker EXCEPT ![w] = Idle]
  /\ UNCHANGED <<deployment, deferred, begun, now, crashes>>

WorkerCrashes(w) ==
  /\ worker[w].pc # "down"
  /\ crashes < MaxCrashes
  /\ worker' = [worker EXCEPT ![w] = Down]
  /\ crashes' = crashes + 1
  /\ UNCHANGED <<deployment, row, deferred, begun, now>>

(* The API process holds every deferred task; a restart forgets them all. *)
ApiCrashes ==
  /\ crashes < MaxCrashes
  /\ \E j \in Jobs : deferred[j] # "none"
  /\ deferred' = [j \in Jobs |-> "none"]
  /\ crashes' = crashes + 1
  /\ UNCHANGED <<deployment, row, worker, begun, now>>

Tick ==
  /\ now < MaxTime
  /\ now' = now + 1
  /\ UNCHANGED <<deployment, row, worker, deferred, begun, crashes>>

Next ==
  \/ \E j \in Jobs : \/ EnqueueJob(j)
                     \/ EnqueueAndRunSoon(j)
                     \/ DeferredClaims(j)
                     \/ DeferredLosesClaim(j)
                     \/ DeferredFinishes(j)
  \/ \E w \in Workers : \/ \E j \in Jobs : WorkerClaims(w, j) \/ WorkerPicks(w, j)
                        \/ WorkerUpdates(w)
                        \/ WorkerSleeps(w)
                        \/ WorkerFinishes(w)
                        \/ WorkerStarts(w)
                        \/ WorkerCrashes(w)
  \/ ApiCrashes
  \/ Tick

Spec == Init /\ [][Next]_vars

(* The worker process is restarted by its supervisor (docker-compose.yml,  *)
(* restart: unless-stopped) and its loop keeps taking turns; handlers      *)
(* return; the event loop of the API process runs the tasks it holds.      *)
Fairness ==
  /\ \A w \in Workers :
       /\ WF_vars(\E j \in Jobs : WorkerClaims(w, j) \/ WorkerPicks(w, j))
       /\ WF_vars(WorkerUpdates(w))
       /\ WF_vars(WorkerFinishes(w))
       /\ WF_vars(WorkerStarts(w))
  /\ \A j \in Jobs : /\ WF_vars(DeferredClaims(j) \/ DeferredLosesClaim(j))
                     /\ WF_vars(DeferredFinishes(j))

FairSpec == Spec /\ Fairness

-----------------------------------------------------------------------------
Holders(j) == {w \in Workers : worker[w].pc = "running" /\ worker[w].job = j}

(***************************************************************************)
(* A job's handler is begun at most once, whichever runners race for it    *)
(* and whatever crashes: claim_next_job_row and claim_job_by_id.           *)
(***************************************************************************)
AtMostOnce == \A j \in Jobs : begun[j] <= 1

(***************************************************************************)
(* At no time do two runners execute the same job: not two workers, and    *)
(* not a worker and the API's deferred task.                               *)
(***************************************************************************)
OneRunner ==
  \A j \in Jobs :
    /\ \A v, w \in Holders(j) : v = w
    /\ deferred[j] = "running" => Holders(j) = {}

(***************************************************************************)
(* A client polling GET /agent/jobs/{id} never sees a job go back: queued, *)
(* in progress, and then an outcome for good (fetch_public_job).           *)
(***************************************************************************)
Progress(status) ==
  CASE status = "absent" -> 0 [] status = "pending" -> 1
    [] status = "running" -> 2 [] OTHER -> 3

StatusOnlyAdvances ==
  [][\A j \in Jobs : Progress(row'[j].status) >= Progress(row[j].status)]_vars

(***************************************************************************)
(* The stale sweep gives up a job only when a runner has had it for longer *)
(* than the threshold; and a job some live runner still holds is, for the  *)
(* row, either running or given up that way: its outcome is never recorded *)
(* by anybody else first.                                                  *)
(***************************************************************************)
HeldJobIsRunningOrGivenUp ==
  \A j \in Jobs :
    (deferred[j] = "running" \/ Holders(j) # {}) =>
      \/ row[j].status = "running"
      \/ row[j].status = "incomplete" /\ row[j].started + StaleAfter < now

(***************************************************************************)
(* Work is never left in the queue: a pending job is eventually claimed,   *)
(* although its API process or its workers crash on the way.               *)
(***************************************************************************)
PendingIsClaimed ==
  \A j \in Jobs : row[j].status = "pending" ~> row[j].status # "pending"

(***************************************************************************)
(* The promise this queue makes to the code that uses it.                  *)
(***************************************************************************)
phase ==
  [j \in Jobs |->
     CASE row[j].status = "absent"  -> "new"
       [] row[j].status = "pending" -> "queued"
       [] row[j].status = "running" -> "taken"
       [] OTHER                     -> "settled"]

Lifecycle == INSTANCE JobLifecycle WITH phase <- phase, begun <- begun
ImplementsLifecycle == Lifecycle!Spec
=============================================================================
