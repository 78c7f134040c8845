---------------------------- MODULE DeferredTasks ----------------------------
(* Tasks that the assistant creates behind its reply: the batch it proposes and *)
(* reports as created (agent/tools/plaky_tools.py, _plaky_create_tasks_deferred *)
(* and the writing itself), the job that writes it (plaky_create_tasks_job, run *)
(* by the API's own task or by the worker), and the correction that later turns *)
(* of the chat open with when a write failed (agent/write_failures.py).         *)
EXTENDS Naturals, Sequences, SequencesExt, FiniteSets, FiniteSetsExt

CONSTANTS Chats, TaskTitles, BatchRegimes

VARIABLES
  batchRegime,   \* the circumstances
  onBoard,       \* <<[title, job]>>: the cards of the board, in order of creation
  batches,       \* the jobs, in order of their proposal
  today,         \* the clock that the correction's window is read on
  batchLeft      \* budget left

batchVars == <<batchRegime, onBoard, batches, today, batchLeft>>

BatchInit ==
  /\ batchRegime \in BatchRegimes /\ batchLeft = batchRegime.budget
  /\ onBoard = <<>> /\ batches = <<>> /\ today = 0

SpendsBatch(what) == batchLeft[what] > 0 /\ batchLeft' = [batchLeft EXCEPT ![what] = @ - 1]
----------------------------------------------------------------------------
(* Proposing.                                                                *)

(* Mutation: only a title written the same is the same task. *)
SameWords(a, b) == a = b

(* The same task: the same words, or nearly the same (not a transitive thing). *)
TitlesMatch(a, b) == a = b \/ {a, b} \in batchRegime.alike
TitlesOnBoard == {onBoard[i].title : i \in DOMAIN onBoard}
Matched(title, titles) == \E known \in titles : TitlesMatch(title, known)

(* The group wanted for, else the one named after the repository, else nothing  *)
(* is proposed.  Groups that could not be listed count as unknown, not absent. *)
NoGroup == "no group"
RealGroup(wanted, listed, hinted) ==
  IF listed = {} \/ wanted \in listed THEN wanted
  ELSE IF hinted \in listed THEN hinted
  ELSE NoGroup

(* The reply reports the batch as created, but for what the board already has,  *)
(* when the board could be listed; only the rest is a job.                      *)
Proposes(chat) ==
  /\ SpendsBatch("proposals")
  /\ \E p \in batchRegime.proposals, listed \in {TRUE} \cup batchRegime.mayFail,
        groups \in {batchRegime.groups} \cup {{} : f \in batchRegime.mayFail} :
       LET seen == IF listed THEN TitlesOnBoard ELSE {}
           rows == SelectSeq(p.rows, LAMBDA title : ~Matched(title, seen))
           group == RealGroup(p.group, groups, p.hint)
       IN IF group = NoGroup \/ rows = <<>> THEN UNCHANGED batches
          ELSE batches' = Append(batches,
                 [chat |-> chat, rows |-> rows, group |-> group, groups |-> groups,
                  stage |-> "queued", since |-> 0, at |-> 0, works |-> "not yet",
                  knows |-> {}, boardWas |-> 0, listed |-> FALSE,
                  done |-> {}, refused |-> {}, unsure |-> {}, told |-> "nothing"])
  /\ UNCHANGED <<batchRegime, onBoard, today>>
----------------------------------------------------------------------------
(* Writing.                                                                  *)

Job(j) == batches[j]
Becomes(j, with) == batches' = [batches EXCEPT ![j] = with]

Claims(j) ==
  /\ Job(j).stage = "queued"
  /\ Becomes(j, [Job(j) EXCEPT !.stage = "running", !.since = today, !.works = "listing"])
  /\ UNCHANGED <<batchRegime, onBoard, today, batchLeft>>

(* The board is listed once more, and a listing that fails stops nothing.      *)
Lists(j) ==
  /\ Job(j).works = "listing"
  /\ \E listed \in {TRUE} \cup batchRegime.mayFail :
       Becomes(j, [Job(j) EXCEPT !.works = "writing", !.listed = listed,
                                 !.boardWas = Len(onBoard),
                                 !.knows = IF listed THEN TitlesOnBoard ELSE {}])
  /\ UNCHANGED <<batchRegime, onBoard, today, batchLeft>>

(* Mutation: what the listing showed is not looked at when a row is written. *)
NeverKnown(title, j) == FALSE
Exists(title, j) == Matched(title, Job(j).knows)

(* Two lanes write the rows, in no order.  A row is created, refused (always   *)
(* in a group that the board does not have), or created with its answer lost.  *)
WritesRow(j, title) ==
  /\ Job(j).works = "writing" /\ title \in ToSet(Job(j).rows) \ Job(j).done
  /\ LET done == [Job(j) EXCEPT !.done = @ \cup {title}]
         creates == onBoard' = Append(onBoard, [title |-> title, job |-> j])
         fails == [done EXCEPT !.refused = @ \cup {title}]
     IN \/ /\ Exists(title, j)
           /\ Becomes(j, done) /\ UNCHANGED <<onBoard, batchLeft>>
        \/ /\ ~Exists(title, j) /\ Job(j).group \in batchRegime.groups
           /\ \/ creates /\ Becomes(j, done) /\ UNCHANGED batchLeft
              \/ creates /\ Becomes(j, [fails EXCEPT !.unsure = @ \cup {title}])
                 /\ SpendsBatch("lost")
        \/ /\ ~Exists(title, j)
           /\ IF Job(j).group \in batchRegime.groups
              THEN SpendsBatch("refusals") ELSE UNCHANGED batchLeft
           /\ Becomes(j, fails) /\ UNCHANGED onBoard
  /\ UNCHANGED <<batchRegime, today>>

(* Mutation: a batch succeeds when any of its rows does. *)
AnyRowWill(j) == Job(j).refused # ToSet(Job(j).rows)
Succeeds(j) == Job(j).refused = {}

(* The outcome is recorded, row by row, over whatever the job is marked as.    *)
Finishes(j) ==
  /\ Job(j).works = "writing" /\ Job(j).done = ToSet(Job(j).rows)
  /\ Becomes(j, [Job(j) EXCEPT !.stage = IF Succeeds(j) THEN "complete" ELSE "incomplete",
                               !.at = today, !.since = 0, !.told = "rows", !.works = "no more"])
  /\ UNCHANGED <<batchRegime, onBoard, today, batchLeft>>

(* The process that writes stops; a worker that starts gives up what has been  *)
(* running for long, whether or not it still runs.                             *)
Stops(j) ==
  /\ Job(j).works \in {"listing", "writing"} /\ SpendsBatch("stops")
  /\ Becomes(j, [Job(j) EXCEPT !.works = "no more"])
  /\ UNCHANGED <<batchRegime, onBoard, today>>
SweepsStale ==
  LET stale == {j \in DOMAIN batches : Job(j).stage = "running"
                                       /\ Job(j).since + batchRegime.stale < today}
  IN /\ stale # {}
     /\ batches' = [j \in DOMAIN batches |->
          IF j \in stale
          THEN [Job(j) EXCEPT !.stage = "swept", !.at = today, !.told = "batch"] ELSE Job(j)]
     /\ UNCHANGED <<batchRegime, onBoard, today, batchLeft>>

DayPasses ==
  /\ today < batchRegime.until /\ today' = today + 1
  /\ UNCHANGED <<batchRegime, onBoard, batches, batchLeft>>

BatchNext ==
  \/ \E chat \in batchRegime.chats : Proposes(chat)
  \/ \E j \in DOMAIN batches :
       \/ Claims(j) \/ Lists(j) \/ Finishes(j) \/ Stops(j)
       \/ \E title \in TaskTitles : WritesRow(j, title)
  \/ SweepsStale \/ DayPasses
----------------------------------------------------------------------------
(* The correction (recent_failed_task_writes): the newest failed jobs of all    *)
(* chats within the window, then this chat's among them, the first titles of    *)
(* each: the rows that failed, or the whole batch when no rows were recorded.   *)

Failed == {j \in DOMAIN batches : Job(j).stage \in {"incomplete", "swept"}
                                  /\ today <= Job(j).at + batchRegime.window}
NewerThan(j) == {k \in Failed : Job(k).at > Job(j).at}

(* Mutation: the whole batch is named. *)
WholeBatch(j) == Job(j).rows
FailedRows(j) ==
  IF Job(j).told = "rows" THEN SelectSeq(Job(j).rows, LAMBDA title : title \in Job(j).refused)
  ELSE Job(j).rows
Shown(j) == SubSeq(FailedRows(j), 1, IF Len(FailedRows(j)) < batchRegime.names
                                     THEN Len(FailedRows(j)) ELSE batchRegime.names)

(* Mutation: another chat's failures are told as well. *)
EveryChats(chat, some) == some
OwnOf(chat, some) == {j \in some : Job(j).chat = chat}
(* Jobs that ended at the same time come in any order.                         *)
Newest == {some \in SUBSET Failed :
             /\ Cardinality(some) = IF Cardinality(Failed) < batchRegime.jobs
                                    THEN Cardinality(Failed) ELSE batchRegime.jobs
             /\ \A j \in some : NewerThan(j) \subseteq some}
Notices(chat) == {UNION {ToSet(Shown(j)) : j \in OwnOf(chat, some)} : some \in Newest}
----------------------------------------------------------------------------
OfJob(j) == {onBoard[i].title : i \in {n \in DOMAIN onBoard : onBoard[n].job = j}}

(* What the chat was told is created and is not: it is named while the window   *)
(* lasts, if it is among the first of its batch's and fewer jobs have failed    *)
(* since than one correction takes.                                             *)
FailuresAreTold ==
  \A j \in Failed :
    Cardinality({k \in Failed : Job(k).at >= Job(j).at}) <= batchRegime.jobs =>
      \A notice \in Notices(Job(j).chat) :
        /\ ToSet(Shown(j)) \subseteq notice
        /\ Len(Job(j).rows) <= batchRegime.names =>
             \A title \in ToSet(Job(j).rows) :
               Matched(title, TitlesOnBoard) \/ title \in notice \/ Job(j).stage = "swept"

(* A correction names only what its own chat's jobs have not created: but for   *)
(* an answer that was lost, and for a job given up, all of whose batch it names.*)
CorrectionsAreTrue ==
  \A chat \in Chats : \A notice \in Notices(chat) : \A title \in notice :
    \E j \in Failed :
      /\ Job(j).chat = chat /\ title \in ToSet(Job(j).rows)
      /\ title \in OfJob(j) => title \in Job(j).unsure \/ Job(j).told = "batch"

(* Two cards of the same task by two jobs: the later job could not list the     *)
(* board, or listed it before the first card was there.                         *)
TwinsAreExplained ==
  \A p, q \in DOMAIN onBoard :
    p < q /\ onBoard[p].job # onBoard[q].job
    /\ {onBoard[p].title, onBoard[q].title}
         \in batchRegime.alike \cup {{onBoard[p].title}} =>
      LET later == Job(onBoard[q].job) IN ~later.listed \/ later.boardWas < p

(* Nothing that is on the board when a batch is done is missing from it: every  *)
(* row of a job that reports success is there, in its words or nearly.          *)
SuccessIsReal ==
  \A j \in DOMAIN batches :
    Job(j).stage = "complete" => \A title \in ToSet(Job(j).rows) : Matched(title, TitlesOnBoard)

(* A batch is only proposed for a group that the board has, if its groups could *)
(* be listed, and then no row of it is refused for its group.                   *)
GroupsAreReal ==
  \A j \in DOMAIN batches :
    Job(j).groups # {} => Job(j).group \in batchRegime.groups

CorrectionsAreRight ==
  /\ FailuresAreTold /\ CorrectionsAreTrue /\ TwinsAreExplained
  /\ SuccessIsReal /\ GroupsAreReal
=============================================================================
