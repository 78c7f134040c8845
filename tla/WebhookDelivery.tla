--------------------------- MODULE WebhookDelivery ---------------------------
(***************************************************************************)
(* What becomes of one GitHub webhook delivery: the route that receives it *)
(* (boardman/routes/github_events.py), its row in                          *)
(* github_webhook_deliveries, and, when github_webhook_async_enabled is    *)
(* set, the job that dispatches it (boardman_github_webhook_job in         *)
(* boardman/jobs/handlers.py) running on the queue of JobQueue.            *)
(*                                                                         *)
(* GitHub may send a delivery again at any time, also while an earlier     *)
(* request for it is still being served.  The domain handlers are          *)
(* abstracted to one dispatch that succeeds, reports {"ok": False} or      *)
(* raises.  Deliveries without a delivery id keep no row and are left out. *)
(***************************************************************************)
EXTENDS JobQueue, FiniteSets

CONSTANTS
  Deliveries,     \* X-GitHub-Delivery ids
  Requests,       \* HTTP requests being served at the same time
  Malformed,      \* deliveries with a body or an event the route rejects
  Modelless,      \* repository, create, delete and push events
  Attempts,       \* settings.github_webhook_job_retries + 1
  Window,         \* _PROCESSING_STALE_SECONDS, in ticks
  LastArrival,    \* bound: no delivery is first sent after this time
  NoDelivery, NoRequest

ASSUME WebhookAssumption ==
  /\ Malformed \subseteq Deliveries /\ Modelless \subseteq Deliveries
  /\ Attempts \in Nat \ {0}
  /\ Window \in Nat /\ LastArrival \in Nat
  /\ NoDelivery \notin Deliveries /\ NoRequest \notin Requests

VARIABLES
  async,      \* settings.github_webhook_async_enabled, fixed while the process lives
  delivery,   \* table github_webhook_deliveries: status, created_at
  unsaved,    \* per delivery: the request whose INSERT is not committed yet
  request,    \* per request: where the route is, and what its SELECT found
  jobOf,      \* the delivery named in each job's payload
  attempt,    \* per worker: how far the retry loop of its webhook job is
  applied,    \* history: deliveries some dispatch succeeded for
  hasFailed   \* history: deliveries whose row has been `failed`

routeVars == <<delivery, unsaved, request>>
hookVars  == <<async, delivery, unsaved, request, jobOf, attempt, applied, hasFailed>>
allVars   == <<vars, hookVars>>

Marks == {"absent", "processing", "processed", "failed"}
RoutePCs == {"idle", "looked", "committed", "dispatching", "dispatched"}

HookTypeOK ==
  /\ TypeOK
  /\ async \in BOOLEAN
  /\ delivery \in [Deliveries -> [status : Marks, created : Time]]
  /\ unsaved \in [Deliveries -> Requests \cup {NoRequest}]
  /\ request \in [Requests -> [pc : RoutePCs, of : Deliveries \cup {NoDelivery},
                               fresh : BOOLEAN]]
  /\ jobOf \in [Jobs -> Deliveries \cup {NoDelivery}]
  /\ attempt \in [Workers -> [no : 1 .. Attempts, end : {"none", "applied", "succeeded", "exhausted"}]]
  /\ applied \subseteq Deliveries
  /\ hasFailed \subseteq Deliveries

FirstAttempt == [no |-> 1, end |-> "none"]
NoReq == [pc |-> "idle", of |-> NoDelivery, fresh |-> FALSE]

HookInit ==
  /\ Init
  /\ async \in BOOLEAN
  /\ delivery = [d \in Deliveries |-> [status |-> "absent", created |-> 0]]
  /\ unsaved = [d \in Deliveries |-> NoRequest]
  /\ request = [r \in Requests |-> NoReq]
  /\ jobOf = [j \in Jobs |-> NoDelivery]
  /\ attempt = [w \in Workers |-> FirstAttempt]
  /\ applied = {}
  /\ hasFailed = {}

-----------------------------------------------------------------------------
(* The row as a request reads it, and the steps that write it. *)
Aged(d) == delivery[d].status # "absent" /\ delivery[d].created + Window <= now

(* Mutation: `processing` is final, however old. *)
InFlightForever(d) == delivery[d].status = "processing"

InFlight(d) == delivery[d].status = "processing" /\ ~Aged(d)

(* Mutation: only what is processed is turned away. *)
IsProcessed(d) == delivery[d].status = "processed"

IsDuplicate(d) == delivery[d].status = "processed" \/ InFlight(d)

At(r, pc) == request[r].pc = pc
Of(r)     == request[r].of
Go(r, pc) == request' = [request EXCEPT ![r].pc = pc]
Answer(r) == request' = [request EXCEPT ![r] = NoReq]

(* _mark_delivery: writes the row if there is one, the request's own       *)
(* uncommitted INSERT included, and commits.                               *)
MarkDelivery(r, status) ==
  LET d == Of(r) IN
  /\ IF delivery[d].status # "absent" \/ unsaved[d] = r
     THEN delivery' = [delivery EXCEPT ![d].status = status]
     ELSE UNCHANGED delivery
  /\ unsaved' = [unsaved EXCEPT ![d] = IF @ = r THEN NoRequest ELSE @]
  /\ hasFailed' = IF delivery'[d].status = "failed" THEN hasFailed \cup {d} ELSE hasFailed

Apply(d) == applied' = applied \cup {d}

-----------------------------------------------------------------------------
(* The SELECT, and the early answer to a delivery that is processed or in  *)
(* flight.  `fresh` records that no row was found.                         *)
Receive(r, d) ==
  /\ At(r, "idle")
  /\ ~IsDuplicate(d)
  /\ delivery[d].status = "absent" => now <= LastArrival
  /\ request' = [request EXCEPT
       ![r] = [pc |-> "looked", of |-> d, fresh |-> delivery[d].status = "absent"]]
  /\ UNCHANGED <<async, vars, delivery, unsaved, jobOf, attempt, applied, hasFailed>>

AnswerDuplicate(r, d) ==
  /\ At(r, "idle")
  /\ IsDuplicate(d)
  /\ UNCHANGED allVars

(* The INSERT is refused: another request has inserted the row, or holds   *)
(* it uncommitted and does not let go of it in time.  The route fails.     *)
RefuseInsert(r) ==
  /\ At(r, "looked")
  /\ request[r].fresh
  /\ delivery[Of(r)].status # "absent" \/ unsaved[Of(r)] # NoRequest
  /\ Answer(r)
  /\ UNCHANGED <<async, vars, delivery, unsaved, jobOf, attempt, applied, hasFailed>>

CanRegister(r) ==
  /\ At(r, "looked")
  /\ request[r].fresh => delivery[Of(r)].status = "absent" /\ unsaved[Of(r)] = NoRequest

(* A body that does not parse, a ping or an unsupported event: the row is  *)
(* `processed`.  Events without a payload model are dispatched here, which *)
(* only forgets caches.                                                    *)
SettleAtOnce(r) ==
  /\ CanRegister(r)
  /\ Of(r) \in Malformed \cup Modelless
  /\ delivery' = [delivery EXCEPT ![Of(r)] =
       [status |-> "processed", created |-> IF request[r].fresh THEN now ELSE @.created]]
  /\ IF Of(r) \in Modelless THEN Apply(Of(r)) ELSE UNCHANGED applied
  /\ Answer(r)
  /\ UNCHANGED <<async, vars, unsaved, jobOf, attempt, hasFailed>>

Ordinary(d) == d \notin Malformed \cup Modelless

(* Mutation: the row is added without a status, and the column's default *)
(* is `processed`.                                                       *)
CommitDefaultMarker(r) ==
  /\ async
  /\ CanRegister(r)
  /\ Ordinary(Of(r))
  /\ IF request[r].fresh
     THEN delivery' = [delivery EXCEPT ![Of(r)] = [status |-> "processed", created |-> now]]
     ELSE UNCHANGED delivery
  /\ Go(r, "committed")
  /\ UNCHANGED <<async, vars, unsaved, jobOf, attempt, applied, hasFailed>>

(* Asynchronous: the marker is committed before the job is enqueued.  A    *)
(* row that was there already is left as it is.                            *)
CommitMarker(r) ==
  /\ async
  /\ CanRegister(r)
  /\ Ordinary(Of(r))
  /\ IF request[r].fresh
     THEN delivery' = [delivery EXCEPT ![Of(r)] = [status |-> "processing", created |-> now]]
     ELSE UNCHANGED delivery
  /\ Go(r, "committed")
  /\ UNCHANGED <<async, vars, unsaved, jobOf, attempt, applied, hasFailed>>

EnqueueDelivery(r, j) ==
  /\ At(r, "committed")
  /\ EnqueueJob(j)
  /\ jobOf' = [jobOf EXCEPT ![j] = Of(r)]
  /\ Answer(r)
  /\ UNCHANGED <<async, delivery, unsaved, attempt, applied, hasFailed>>

EnqueueFails(r) ==
  /\ At(r, "committed")
  /\ MarkDelivery(r, "failed")
  /\ Answer(r)
  /\ UNCHANGED <<async, vars, jobOf, attempt, applied>>

-----------------------------------------------------------------------------
(* Synchronous: the INSERT stays uncommitted while the handler runs, until *)
(* the handler commits; created_at is the time of the INSERT.              *)
InsertMarker(r) ==
  /\ ~async
  /\ CanRegister(r)
  /\ Ordinary(Of(r))
  /\ IF request[r].fresh
     THEN /\ unsaved' = [unsaved EXCEPT ![Of(r)] = r]
          /\ delivery' = [delivery EXCEPT ![Of(r)].created = now]
     ELSE UNCHANGED <<unsaved, delivery>>
  /\ Go(r, "dispatching")
  /\ UNCHANGED <<async, vars, jobOf, attempt, applied, hasFailed>>

(* Any commit the handler makes on the request's session. *)
HandlerCommits(r) ==
  /\ At(r, "dispatching")
  /\ unsaved[Of(r)] = r
  /\ delivery' = [delivery EXCEPT ![Of(r)].status = "processing"]
  /\ unsaved' = [unsaved EXCEPT ![Of(r)] = NoRequest]
  /\ UNCHANGED <<async, vars, request, jobOf, attempt, applied, hasFailed>>

DispatchSucceeds(r) ==
  /\ At(r, "dispatching")
  /\ Apply(Of(r))
  /\ Go(r, "dispatched")
  /\ UNCHANGED <<async, vars, delivery, unsaved, jobOf, attempt, hasFailed>>

MarkProcessed(r) ==
  /\ At(r, "dispatched")
  /\ MarkDelivery(r, "processed")
  /\ Answer(r)
  /\ UNCHANGED <<async, vars, jobOf, attempt, applied>>

(* The handler reported {"ok": False}. *)
DispatchFails(r) ==
  /\ At(r, "dispatching")
  /\ MarkDelivery(r, "failed")
  /\ Answer(r)
  /\ UNCHANGED <<async, vars, jobOf, attempt, applied>>

(* The handler raised: the session is rolled back, an uncommitted INSERT   *)
(* with it, and only then is the row marked.                               *)
DispatchRaises(r) ==
  /\ At(r, "dispatching")
  /\ unsaved' = [unsaved EXCEPT ![Of(r)] = IF @ = r THEN NoRequest ELSE @]
  /\ IF delivery[Of(r)].status = "absent"
     THEN UNCHANGED <<delivery, hasFailed>>
     ELSE /\ delivery' = [delivery EXCEPT ![Of(r)].status = "failed"]
          /\ hasFailed' = hasFailed \cup {Of(r)}
  /\ Answer(r)
  /\ UNCHANGED <<async, vars, jobOf, attempt, applied>>

-----------------------------------------------------------------------------
(* The worker's side: the queue's own steps, with the webhook job as the   *)
(* handler that runs between the claim and the finish.                     *)
Running(w)   == worker[w].pc = "running"
JobOf(w)     == jobOf[worker[w].job]
Trying(w)    == Running(w) /\ attempt[w].end \in {"none", "applied"}

AttemptApplies(w) ==
  /\ Running(w) /\ attempt[w].end = "none"
  /\ Apply(JobOf(w))
  /\ attempt' = [attempt EXCEPT ![w].end = "applied"]
  /\ UNCHANGED <<async, vars, delivery, unsaved, request, jobOf, hasFailed>>

AttemptCommits(w) ==
  /\ Running(w) /\ attempt[w].end = "applied"
  /\ delivery' = [delivery EXCEPT ![JobOf(w)].status = "processed"]
  /\ attempt' = [attempt EXCEPT ![w].end = "succeeded"]
  /\ UNCHANGED <<async, vars, unsaved, request, jobOf, applied, hasFailed>>

(* Mutation: one attempt too many. *)
AttemptFailsLate(w) ==
  /\ Trying(w)
  /\ IF attempt[w].no > Attempts
     THEN /\ delivery' = [delivery EXCEPT ![JobOf(w)].status = "failed"]
          /\ hasFailed' = hasFailed \cup {JobOf(w)}
          /\ attempt' = [attempt EXCEPT ![w].end = "exhausted"]
     ELSE /\ delivery' = [delivery EXCEPT ![JobOf(w)].status = "processing"]
          /\ attempt' = [attempt EXCEPT ![w] = [no |-> @.no + 1, end |-> "none"]]
          /\ UNCHANGED hasFailed
  /\ UNCHANGED <<async, vars, unsaved, request, jobOf, applied>>

(* The dispatch reported {"ok": False} or raised, or the commit after it   *)
(* failed: the next attempt dispatches again.                              *)
AttemptFails(w) ==
  /\ Trying(w)
  /\ IF attempt[w].no >= Attempts
     THEN /\ delivery' = [delivery EXCEPT ![JobOf(w)].status = "failed"]
          /\ hasFailed' = hasFailed \cup {JobOf(w)}
          /\ attempt' = [attempt EXCEPT ![w].end = "exhausted"]
     ELSE /\ delivery' = [delivery EXCEPT ![JobOf(w)].status = "processing"]
          /\ attempt' = [attempt EXCEPT ![w] = [no |-> @.no + 1, end |-> "none"]]
          /\ UNCHANGED hasFailed
  /\ UNCHANGED <<async, vars, unsaved, request, jobOf, applied>>

FinishWebhookJob(w) ==
  /\ Running(w)
  /\ ~Trying(w)
  /\ WorkerFinishes(w)
  /\ row'[worker[w].job].status =
       IF attempt[w].end = "succeeded" THEN "complete" ELSE "incomplete"
  /\ attempt' = [attempt EXCEPT ![w] = FirstAttempt]
  /\ UNCHANGED <<async, delivery, unsaved, request, jobOf, applied, hasFailed>>

ClaimWebhookJob(w) ==
  /\ \/ \E j \in Jobs : WorkerClaims(w, j) \/ WorkerPicks(w, j)
     \/ WorkerUpdates(w)
  /\ UNCHANGED hookVars

StartWorker(w) == WorkerStarts(w) /\ UNCHANGED hookVars

IdleWorker(w) == WorkerSleeps(w) /\ UNCHANGED hookVars

CrashWorker(w) ==
  /\ WorkerCrashes(w)
  /\ attempt' = [attempt EXCEPT ![w] = FirstAttempt]
  /\ UNCHANGED <<async, delivery, unsaved, request, jobOf, applied, hasFailed>>

(* The API process dies: its requests are gone and their sessions rolled back. *)
CrashApi ==
  /\ crashes < MaxCrashes
  /\ \E r \in Requests : ~At(r, "idle")
  /\ request' = [r \in Requests |-> NoReq]
  /\ unsaved' = [d \in Deliveries |-> NoRequest]
  /\ crashes' = crashes + 1
  /\ UNCHANGED <<async, deployment, row, worker, deferred, begun, now,
                 delivery, jobOf, attempt, applied, hasFailed>>

(* The clock is bounded, so that a row inserted at its end would never age: *)
(* it waits at LastArrival for the requests that have still to insert.      *)
TimePasses ==
  /\ Tick
  /\ now >= LastArrival => \A r \in Requests : ~(At(r, "looked") /\ request[r].fresh)
  /\ UNCHANGED hookVars

RouteStep(r) ==
  \/ RefuseInsert(r) \/ SettleAtOnce(r)
  \/ CommitMarker(r) \/ EnqueueFails(r) \/ \E j \in Jobs : EnqueueDelivery(r, j)
  \/ InsertMarker(r) \/ DispatchSucceeds(r) \/ MarkProcessed(r)
  \/ DispatchFails(r) \/ DispatchRaises(r)

WorkerStep(w) ==
  \/ ClaimWebhookJob(w) \/ AttemptApplies(w) \/ AttemptCommits(w) \/ AttemptFails(w)
  \/ FinishWebhookJob(w) \/ StartWorker(w)

HookNext ==
  \/ \E r \in Requests : \/ \E d \in Deliveries : Receive(r, d) \/ AnswerDuplicate(r, d)
                         \/ RouteStep(r)
                         \/ HandlerCommits(r)
  \/ \E w \in Workers : WorkerStep(w) \/ IdleWorker(w) \/ CrashWorker(w)
  \/ CrashApi
  \/ TimePasses

HookSpec == HookInit /\ [][HookNext]_allVars

(* Requests are served to their end, workers keep working and are          *)
(* restarted, time passes, and GitHub goes on redelivering what was not    *)
(* answered 200 (the comment at _PROCESSING_STALE_SECONDS: "the only       *)
(* recovery there is").                                                    *)
HookFairness ==
  /\ \A r \in Requests : WF_allVars(RouteStep(r))
  /\ \A w \in Workers : WF_allVars(WorkerStep(w))
  /\ \A d \in Deliveries :
       SF_allVars(\E r \in Requests : Receive(r, d) /\ delivery[d].status # "absent")
  /\ WF_allVars(TimePasses)

HookFairSpec == HookSpec /\ HookFairness

-----------------------------------------------------------------------------
(* Who is at work on a delivery: requests past the lookup, and jobs that   *)
(* are waiting or running.                                                 *)
Serving(d) == {r \in Requests : request[r].of = d /\ ~At(r, "looked")}
Queued(d)  == {j \in Jobs : jobOf[j] = d /\ row[j].status \in {"pending", "running"}}

(***************************************************************************)
(* A row says `processed` only of a delivery some dispatch succeeded for,  *)
(* or that the route rejected: neither crashes nor redeliveries nor a      *)
(* second job can make an unapplied event look done, which would turn      *)
(* every redelivery away (IsDuplicate).                                    *)
(***************************************************************************)
ProcessedWasApplied ==
  \A d \in Deliveries :
    delivery[d].status = "processed" => d \in applied \cup Malformed

(***************************************************************************)
(* Until its row has been `failed` or has outlived the stale window, a     *)
(* delivery is worked on by one request or one job at a time, however      *)
(* often and however concurrently GitHub sends it.                         *)
(***************************************************************************)
FirstTryIsExclusive ==
  \A d \in Deliveries :
    d \notin hasFailed /\ ~Aged(d) => Cardinality(Serving(d) \cup Queued(d)) <= 1

(* Neither concurrency nor retries nor crashes make a row claim more than was  *)
(* done, or begin a first try twice.                                           *)
DeliveryIsSound == HookTypeOK /\ ProcessedWasApplied /\ FirstTryIsExclusive

(***************************************************************************)
(* The door stays open: whatever crashes, a delivery whose row says        *)
(* `processing` is eventually processed or failed, because after the       *)
(* window a redelivery is served again.                                    *)
(***************************************************************************)
ProcessingIsResolved ==
  \A d \in Deliveries :
    delivery[d].status = "processing" ~> delivery[d].status \in {"processed", "failed"}
=============================================================================
