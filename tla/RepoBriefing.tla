---------------------------- MODULE RepoBriefing ----------------------------
(* What the assistant remembers of a repository (agent/repo_context.py,      *)
(* agent/brain.py, services/repo_knowledge.py): one row with what was read of *)
(* it, the revision that was read, and what else was concluded.  A chat turn *)
(* answers from the row and has it refreshed behind the answer, a sweep      *)
(* compares revisions.                                                       *)
EXTENDS Naturals, FiniteSets

CONSTANTS BriefRegimes    (* the writers, how the row is looked up, what may fail *)

VARIABLES briefRegime, briefLeft,
          headRev,      (* GitHub: the newest revision                           *)
          briefing,     (* ProjectContext: {} or {[plan, rich, rev, at, notes]}: *)
                        (* the revision the content shows, whether it has the    *)
                        (* tree and the code, the revision it is stamped with,   *)
                        (* when it was read, and what reconciliation noted       *)
          updater,      (* who reads GitHub or the row, and has it to write      *)
          refreshJobs,  (* refresh jobs that wait                                *)
          cooling,      (* _revalidating: a chat turn asked for one lately       *)
          briefAge,     (* time, as far as freshness goes                        *)
          fullest,      (* history: the most that the row has held so far        *)
          passed,       (* history: the revision at which the sweep last left    *)
                        (* the repository alone                                  *)
          crossed       (* history: a row was written over what its writer had   *)
                        (* not read, or a push came while GitHub was read        *)
briefVars == <<briefRegime, briefLeft, headRev, briefing, updater, refreshJobs, cooling,
               briefAge, fullest, passed, crossed>>

Writers == briefRegime.writers
Ttl == briefRegime.ttl
SpendsBrief(what) == briefLeft[what] > 0 /\ briefLeft' = [briefLeft EXCEPT ![what] = @ - 1]

NoContent == [plan |-> 0, rich |-> FALSE, rev |-> 0, at |-> 0, notes |-> 0]
(* A writer reads GitHub, then the row (was), and has it changed (is) in its *)
(* session until that flushes.                                               *)
Resting == [at |-> "idle", was |-> {}, is |-> NoContent]

BriefInit ==
  /\ briefRegime \in BriefRegimes /\ briefLeft = briefRegime.budget
  /\ headRev = 1 /\ briefing = {} /\ refreshJobs = 0 /\ cooling = FALSE /\ briefAge = 1
  /\ updater = [w \in Writers |-> Resting] /\ fullest = NoContent /\ passed = 0 /\ crossed = FALSE

OnlyWriter(w, s) == updater' = [updater EXCEPT ![w] = s]
TheRow == CHOOSE r \in briefing : TRUE

(* ------------------------------------------------------------------- GitHub *)
PushArrives ==
  /\ SpendsBrief("pushes") /\ headRev' = headRev + 1
  /\ crossed' = (crossed \/ \E w \in Writers : updater[w].at = "reads")
  /\ UNCHANGED <<briefRegime, briefing, updater, refreshJobs, cooling, briefAge, fullest, passed>>
TimeGoes ==
  /\ briefAge < briefRegime.until /\ briefAge' = briefAge + 1 /\ cooling' = FALSE
  /\ UNCHANGED <<briefRegime, briefLeft, headRev, briefing, updater, refreshJobs, fullest, passed, crossed>>

(* --------------------------------------------------------------- a chat turn *)
(* _load_briefing: old content is served too, and says so; a row with notes  *)
(* alone is a briefing of unknown age.                                       *)
State ==
  IF briefing = {} THEN "miss"
  ELSE IF TheRow.at # 0 /\ briefAge - TheRow.at <= Ttl THEN "fresh" ELSE "stale"
(* schedule_revalidation: the turn waits for nothing; if the job cannot be   *)
(* queued the next turn asks again.                                          *)
TurnAsks ==
  /\ SpendsBrief("turns")
  /\ IF State = "fresh" \/ cooling THEN UNCHANGED <<refreshJobs, cooling>>
     ELSE \/ refreshJobs' = refreshJobs + 1 /\ cooling' = TRUE
          \/ briefRegime.mayFail /\ UNCHANGED <<refreshJobs, cooling>>
  /\ UNCHANGED <<briefRegime, headRev, briefing, updater, briefAge, fullest, passed, crossed>>

(* -------------------------------------------------------------- the snapshot *)
(* _github_repo_planning_context_uncached, begun by a job, by the sweep, or by *)
(* a tool of a chat turn when load_planning_snapshot has nothing fresh.      *)
BeginsRead(w) == OnlyWriter(w, [Resting EXCEPT !.at = "reads"])
JobBegins(w) ==
  /\ refreshJobs > 0 /\ updater[w].at = "idle" /\ refreshJobs' = refreshJobs - 1 /\ BeginsRead(w)
  /\ UNCHANGED <<briefRegime, briefLeft, headRev, briefing, cooling, briefAge, fullest, passed, crossed>>
ToolBegins(w) ==
  /\ State # "fresh" /\ updater[w].at = "idle" /\ SpendsBrief("turns") /\ BeginsRead(w)
  /\ UNCHANGED <<briefRegime, headRev, briefing, refreshJobs, cooling, briefAge, fullest, passed, crossed>>
(* stored_revision looks the row up by the name as written, and rows are kept *)
(* under the folded one.                                                     *)
StoredRevision == IF briefing = {} \/ ~briefRegime.nameIsFolded THEN 0 ELSE TheRow.rev
(* Mutation: any row will do.                                              *)
SameIfThere(live) == briefing # {}
Unmoved(live) == StoredRevision # 0 /\ StoredRevision = live
(* refresh_if_moved: one call to GitHub, and a read of everything only if the *)
(* repository moved.                                                         *)
SweepLooks(w) ==
  /\ updater[w].at = "idle" /\ SpendsBrief("sweeps")
  /\ IF Unmoved(headRev) THEN passed' = headRev /\ UNCHANGED updater
     ELSE BeginsRead(w) /\ UNCHANGED passed
  /\ UNCHANGED <<briefRegime, headRev, briefing, refreshJobs, cooling, briefAge, fullest, crossed>>

(* merge_planning_snapshot: what this read did not get of the tree and the   *)
(* code stays as it was.                                                     *)
(* Mutation: a read replaces all. *)
Replaced(old, rich) == rich
Merged(old, rich) == old.rich \/ rich
(* save_planning_snapshot, in the session of the chat turn or of the job: the *)
(* row is read and changed, and not written yet.  A failed part of the read is *)
(* content that says nothing; without the repository itself nothing is saved. *)
SavesRow(w) ==
  /\ updater[w].at = "reads"
  /\ \E rich \in IF briefRegime.mayFail THEN BOOLEAN ELSE {TRUE} :
       LET old == IF briefing = {} THEN NoContent ELSE TheRow IN
       OnlyWriter(w, [at |-> "flushes", was |-> briefing,
                      is |-> [old EXCEPT !.plan = headRev, !.rich = Merged(old, rich),
                                         !.rev = headRev, !.at = briefAge]])
  /\ UNCHANGED <<briefRegime, briefLeft, headRev, briefing, refreshJobs, cooling, briefAge, fullest, passed, crossed>>
ReadFails(w) ==
  /\ updater[w].at = "reads" /\ briefRegime.mayFail /\ OnlyWriter(w, Resting)
  /\ UNCHANGED <<briefRegime, briefLeft, headRev, briefing, refreshJobs, cooling, briefAge, fullest, passed, crossed>>
(* save_cognition_state: the notes are spliced into the content that was read, *)
(* and stamp nothing.                                                        *)
(* Mutation: the notes are all that is stored. *)
NotesAlone(old) == [NoContent EXCEPT !.notes = old.notes + 1]
Spliced(old) == [old EXCEPT !.notes = @ + 1]
Notes(w) ==
  /\ updater[w].at = "idle" /\ SpendsBrief("notes")
  /\ OnlyWriter(w, [at |-> "flushes", was |-> briefing,
                    is |-> Spliced(IF briefing = {} THEN NoContent ELSE TheRow)])
  /\ UNCHANGED <<briefRegime, headRev, briefing, refreshJobs, cooling, briefAge, fullest, passed, crossed>>

(* The flush: content is one column, the stamp and the time are others, and  *)
(* only columns that differ from what was read are written.  A row that      *)
(* somebody else made meanwhile is taken over.                               *)
(* Mutation: the stamp is written before what it stands for. *)
StampFirst(w, now) ==
  LET s == updater[w] IN [s.is EXCEPT !.plan = now.plan, !.rich = now.rich, !.notes = now.notes]
Columns(w, now) ==
  LET s == updater[w]
      old == IF s.was = {} THEN NoContent ELSE CHOOSE r \in s.was : TRUE
  IN [s.is EXCEPT !.rev = IF s.is.rev # old.rev THEN s.is.rev ELSE now.rev,
                  !.at = IF s.is.at # old.at THEN s.is.at ELSE now.at]
Better(r) ==
  [fullest EXCEPT !.plan = IF r.plan > @ THEN r.plan ELSE @, !.rich = @ \/ r.rich,
               !.notes = IF r.notes > @ THEN r.notes ELSE @]
Flushes(w) ==
  /\ updater[w].at = "flushes"
  /\ briefing' = {Columns(w, IF briefing = {} THEN NoContent ELSE TheRow)}
  /\ crossed' = (crossed \/ briefing # updater[w].was)
  /\ fullest' = Better(CHOOSE r \in briefing' : TRUE) /\ OnlyWriter(w, Resting)
  /\ UNCHANGED <<briefRegime, briefLeft, headRev, refreshJobs, cooling, briefAge, passed>>
(* The process stops, and with it the jobs it ran and the turn's memory.     *)
BriefStops ==
  /\ SpendsBrief("stops")
  /\ updater' = [w \in Writers |-> Resting] /\ cooling' = FALSE
  /\ UNCHANGED <<briefRegime, headRev, briefing, refreshJobs, briefAge, fullest, passed, crossed>>

BriefNext ==
  \/ PushArrives \/ TimeGoes \/ TurnAsks \/ BriefStops
  \/ \E w \in Writers :
       \/ JobBegins(w) \/ ToolBegins(w) \/ SweepLooks(w) \/ SavesRow(w) \/ ReadFails(w)
       \/ Notes(w) \/ Flushes(w)

(* --------------------------------------------------------------- correctness *)
(* What holds unless two writers crossed or a push came while GitHub was read. *)
(* The sweep leaves a repository alone whose stamp is the newest revision: the *)
(* content is then what the stamp says.                                      *)
BriefStampIsTrue ==
  \A r \in briefing : r.rev = r.plan /\ passed <= r.plan

(* What is known of the tree and the code stays known, whatever a later read *)
(* failed to get; notes are not lost to a refresh, nor content to notes.     *)
NothingIsForgotten ==
  \A r \in briefing : r.rich = fullest.rich /\ r.notes = fullest.notes /\ r.plan = fullest.plan

BriefingIsTrue == crossed \/ (BriefStampIsTrue /\ NothingIsForgotten)
=============================================================================
