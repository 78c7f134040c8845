---------------------------- MODULE ReviewNudges ----------------------------
(***************************************************************************)
(* Who is @mentioned on a pull request that waits, and when: the table     *)
(* pr_review_nudges, the handlers that keep it                             *)
(* (boardman/services/pr_review_nudges.py, called by the pull-request and  *)
(* review handlers) and the sweep of the worker.                           *)
(*                                                                         *)
(* A handler's change to a row is one step.  The sweep reads all rows,     *)
(* then awaits GitHub for each row that is due, and stores what it did in  *)
(* one commit at its end; handlers, days and restarts come in between.     *)
(* One worker runs the sweep.                                              *)
(***************************************************************************)
EXTENDS Naturals, Sequences, SequencesExt, FiniteSetsExt

CONSTANTS
  PullRequests,
  Author,          \* the GitHub account that opened them
  Testers,         \* accounts that are asked for a review, or join in unasked
  NudgeRegimes,    \* the circumstances to consider, see NudgeRegime
  NotTracked, NoPull

NudgeBudget ==
  [acts    : Nat,    \* comments, reviews and pushes
   assigns : Nat,    \* assignments of a reviewer
   endings : Nat,    \* merges, closes
   reopens : Nat,
   lost    : Nat,    \* merges and closes the service never hears of
   unread  : Nat,    \* reads of a pull request's state that fail
   refused : Nat,    \* comments GitHub refuses
   unheard : Nat,    \* comments GitHub posts, though the answer is lost
   crashes : Nat]    \* restarts of the worker

NudgeRegime ==
  [pulls   : SUBSET PullRequests,
   people  : SUBSET (Testers \cup {Author}),   \* who is assigned, comments, reviews or pushes
   maxDay  : Nat,                              \* bound on the date
   inOrder : BOOLEAN,                          \* events are handled in GitHub's order
   budget  : NudgeBudget]

ASSUME NudgeAssumption ==
  /\ Author \notin Testers
  /\ NudgeRegimes \subseteq NudgeRegime

VARIABLES
  nudgeRegime,  \* the circumstances, fixed
  day,          \* the date, for GitHub and the service
  pull,         \* each pull request on GitHub: open or ended
  feed,         \* events sent and not handled
  assigning,    \* assignments that have found their pull request active
  nudge,        \* table pr_review_nudges
  rowsMade,     \* the serial of each pull request's latest row, its primary key
  sweep,        \* the sweep: where it is, the rows as it read them, what it will store
  acted,        \* history: who was heard of last on each tracked pull request, and when
                \* that was; its reviewer is asked when it comes to be tracked
  mentioned,    \* history: the mentions posted
  repeats,      \* history: how many of them said again what had been said
  forgotten,    \* history: how many mentions were posted and never stored
  late,         \* history: mentions since each pull request's end
  spare         \* what is left of the bounds

nudgeVars == <<nudgeRegime, day, pull, feed, assigning, nudge, rowsMade, sweep, acted,
               mentioned, repeats, forgotten, late, spare>>

Accounts == Testers \cup {Author}
Sides    == {"qa", "developer"}
ChipIn   == 2     \* _CHIP_IN_THRESHOLD

NudgeRow == [no : Nat, qa : Testers, chips : [Testers -> 0 .. ChipIn],
             waiting : Sides, last : Nat, stage : Nat,
             turn : Nat]     \* history: how often the turn was set anew
Event    == [kind : {"acted", "ended"}, pr : PullRequests, who : Accounts, at : Nat]
Said     == [pr : PullRequests, no : Nat, turn : Nat, side : Sides, stage : Nat]

NudgeTypeOK ==
  /\ nudgeRegime \in NudgeRegimes
  /\ day \in Nat
  /\ pull \in [PullRequests -> {"open", "ended"}]
  /\ feed \in Seq(Event)
  /\ assigning \subseteq PullRequests \X Testers
  /\ nudge \in [PullRequests -> NudgeRow \cup {NotTracked}]
  /\ rowsMade \in [PullRequests -> Nat]
  /\ sweep.pc \in {"idle", "scanning", "commenting"} /\ sweep.at \in Nat
  /\ sweep.rows \in [PullRequests -> NudgeRow \cup {NotTracked}]
  /\ sweep.left \subseteq PullRequests /\ sweep.on \in PullRequests \cup {NoPull}
  /\ sweep.stage \in [PullRequests -> Nat]
  /\ sweep.gone \subseteq PullRequests \X Nat
  /\ acted \in [PullRequests -> [side : Sides, at : Nat]]
  /\ sweep.acted \in [PullRequests -> [side : Sides, at : Nat]]
  /\ mentioned \subseteq Said
  /\ repeats \in Nat /\ forgotten \in Nat
  /\ late \in [PullRequests -> Nat]
  /\ spare \in NudgeBudget

NoSweep ==
  [pc |-> "idle", at |-> 0, rows |-> [p \in PullRequests |-> NotTracked], left |-> {},
   on |-> NoPull, stage |-> [p \in PullRequests |-> 0], gone |-> {},
   acted |-> [p \in PullRequests |-> [side |-> "developer", at |-> 0]]]

NudgeInit ==
  /\ nudgeRegime \in NudgeRegimes
  /\ day = 0
  /\ pull = [p \in PullRequests |-> "open"]
  /\ feed = <<>> /\ assigning = {}
  /\ nudge = [p \in PullRequests |-> NotTracked]
  /\ rowsMade = [p \in PullRequests |-> 0]
  /\ sweep = NoSweep
  /\ acted = NoSweep.acted
  /\ mentioned = {} /\ repeats = 0 /\ forgotten = 0
  /\ late = [p \in PullRequests |-> 0]
  /\ spare = nudgeRegime.budget

Charge(what) == spare[what] > 0 /\ spare' = [spare EXCEPT ![what] = @ - 1]
Tracked(p)   == nudge[p] # NotTracked

-----------------------------------------------------------------------------
(* How many mentions should have gone out after so many days (_target_stage). *)
TargetStage(days) ==
  IF days < 3 THEN 0 ELSE IF days <= 15 THEN days \div 3 ELSE 5 + (days - 15)

(* Mutation: a stage is due again until the next one is. *)
DueAgain(row, today) ==
  /\ TargetStage(today - row.last) > 0
  /\ TargetStage(today - row.last) >= row.stage

DueOn(row, today) == TargetStage(today - row.last) > row.stage

-----------------------------------------------------------------------------
(* ensure_tracked: a new row waits for the reviewer from now on; on an old  *)
(* one only the reviewer is replaced.  The assignment asked GitHub first    *)
(* whether the pull request is active, and went on if it could not tell.    *)
AssignmentBegins(p, q) ==
  /\ Charge("assigns")
  /\ assigning' = assigning \cup {<<p, q>>}
  /\ pull[p] = "open"
  /\ UNCHANGED <<nudgeRegime, day, pull, feed, nudge, rowsMade, sweep, acted, mentioned,
                 repeats, forgotten, late>>

AssignmentTracks(p, q) ==
  /\ <<p, q>> \in assigning
  /\ assigning' = assigning \ {<<p, q>>}
  /\ IF Tracked(p)
     THEN /\ nudge' = [nudge EXCEPT ![p].qa = q]
          /\ UNCHANGED <<rowsMade, acted>>
     ELSE /\ nudge' = [nudge EXCEPT ![p] =
               [no |-> rowsMade[p] + 1, qa |-> q, chips |-> [t \in Testers |-> 0],
                waiting |-> "qa", last |-> day, stage |-> 0, turn |-> 0]]
          /\ rowsMade' = [rowsMade EXCEPT ![p] = @ + 1]
          /\ acted' = [acted EXCEPT ![p] = [side |-> "developer", at |-> day]]
  /\ UNCHANGED <<nudgeRegime, day, pull, feed, sweep, mentioned, repeats, forgotten, late, spare>>

(* record_activity: who acted, and whose turn it is now. *)
Chips(row, who) ==
  IF who \in Testers \ {row.qa}
  THEN [row.chips EXCEPT ![who] = IF @ < ChipIn THEN @ + 1 ELSE @]
  ELSE row.chips

SideOf(row, who) ==
  IF who = Author THEN "developer"
  ELSE IF who = row.qa \/ Chips(row, who)[who] = ChipIn THEN "qa" ELSE "other"

(* Mutation: the turn is the author's. *)
AuthorOpposite(side) == IF side = "qa" THEN "author" ELSE "qa"

Opposite(side) == IF side = "qa" THEN "developer" ELSE "qa"

(* Mutation: a turn that changes sides keeps its clock. *)
TurnKeepsClock(row, side, at) ==
  IF Opposite(side) # row.waiting
  THEN [row EXCEPT !.waiting = Opposite(side), !.stage = 0, !.turn = @ + 1]
  ELSE IF at > row.last THEN [row EXCEPT !.last = at, !.stage = 0, !.turn = @ + 1] ELSE row

Turn(row, side, at) ==
  IF Opposite(side) # row.waiting \/ at > row.last
  THEN [row EXCEPT !.waiting = Opposite(side), !.last = at, !.stage = 0, !.turn = @ + 1]
  ELSE row

RecordActivity(e) ==
  LET row  == nudge[e.pr]
      side == SideOf(row, e.who)
      kept == [row EXCEPT !.chips = Chips(row, e.who)]
  IN IF ~Tracked(e.pr) THEN UNCHANGED <<nudge, acted>>
     ELSE IF side = "other"
     THEN /\ nudge' = [nudge EXCEPT ![e.pr] = kept]
          /\ UNCHANGED acted
     ELSE /\ nudge' = [nudge EXCEPT ![e.pr] = Turn(kept, side, e.at)]
          /\ acted' = [acted EXCEPT ![e.pr] = [side |-> side, at |-> e.at]]

(* retire, from the merge and close handlers. *)
Retire(p) == nudge' = [nudge EXCEPT ![p] = NotTracked]

HandleEvent(i) ==
  LET e == feed[i] IN
  /\ nudgeRegime.inOrder => i = 1
  /\ feed' = RemoveAt(feed, i)
  /\ \/ e.kind = "acted" /\ RecordActivity(e)
     \/ e.kind = "ended" /\ Retire(e.pr) /\ UNCHANGED acted
  /\ UNCHANGED <<nudgeRegime, day, pull, assigning, rowsMade, sweep, mentioned, repeats,
                 forgotten, late, spare>>

-----------------------------------------------------------------------------
(* sweep_due_nudges. *)

Due(p) == Tracked(p) /\ DueOn(nudge[p], day)

(* The SELECT.  A sweep that finds nothing due changes nothing: left out. *)
SweepReads ==
  /\ sweep.pc = "idle"
  /\ \E p \in PullRequests : Due(p)
  /\ sweep' = [NoSweep EXCEPT !.pc = "scanning", !.at = day, !.rows = nudge,
                              !.left = {p \in PullRequests : Due(p)}, !.acted = acted]
  /\ UNCHANGED <<nudgeRegime, day, pull, feed, assigning, nudge, rowsMade, acted, mentioned,
                 repeats, forgotten, late, spare>>

Drop(p) == [sweep EXCEPT !.left = @ \ {p}]

(* Mutations: the sweep trusts the row; an ended pull request's row is passed over. *)
SweepTrusts(p) ==
  /\ sweep.pc = "scanning" /\ p \in sweep.left
  /\ \/ sweep' = [Drop(p) EXCEPT !.pc = "commenting", !.on = p] /\ UNCHANGED spare
     \/ Charge("unread") /\ sweep' = Drop(p)
  /\ UNCHANGED <<nudgeRegime, day, pull, feed, assigning, nudge, rowsMade, acted, mentioned,
                 repeats, forgotten, late>>

SweepPassesOver(p) ==
  /\ sweep.pc = "scanning" /\ p \in sweep.left
  /\ \/ pull[p] = "open" /\ sweep' = [Drop(p) EXCEPT !.pc = "commenting", !.on = p] /\ UNCHANGED spare
     \/ pull[p] = "ended" /\ sweep' = Drop(p) /\ UNCHANGED spare
     \/ Charge("unread") /\ sweep' = Drop(p)
  /\ UNCHANGED <<nudgeRegime, day, pull, feed, assigning, nudge, rowsMade, acted, mentioned,
                 repeats, forgotten, late>>

(* pr_lifecycle_state, asked of each due row: an ended pull request's row, *)
(* as the table has it now, is to be deleted; one that cannot be read is   *)
(* left for the next sweep.                                                *)
SweepChecks(p) ==
  /\ sweep.pc = "scanning" /\ p \in sweep.left
  /\ \/ /\ pull[p] = "open"
        /\ sweep' = [Drop(p) EXCEPT !.pc = "commenting", !.on = p]
        /\ UNCHANGED spare
     \/ /\ pull[p] = "ended"
        /\ sweep' = [Drop(p) EXCEPT !.gone = @ \cup (IF Tracked(p) THEN {<<p, nudge[p].no>>} ELSE {})]
        /\ UNCHANGED spare
     \/ Charge("unread") /\ sweep' = Drop(p)
  /\ UNCHANGED <<nudgeRegime, day, pull, feed, assigning, nudge, rowsMade, acted, mentioned,
                 repeats, forgotten, late>>

TargetOf(p) == TargetStage(sweep.at - sweep.rows[p].last)

Mention(p) ==
  LET row == sweep.rows[p]
      m   == [pr |-> p, no |-> row.no, turn |-> row.turn, side |-> row.waiting,
              stage |-> TargetOf(p)]
  IN /\ mentioned' = mentioned \cup {m}
     /\ repeats' = IF m \in mentioned THEN repeats + 1 ELSE repeats
     /\ late' = IF pull[p] = "ended" THEN [late EXCEPT ![p] = @ + 1] ELSE late

(* comment_on_pr, and what the sweep makes of its answer. *)
SweepComments ==
  LET p == sweep.on IN
  /\ sweep.pc = "commenting"
  /\ \/ /\ Mention(p)
        /\ sweep' = [sweep EXCEPT !.pc = "scanning", !.on = NoPull, !.stage[p] = TargetOf(p)]
        /\ UNCHANGED <<forgotten, spare>>
     \/ /\ Mention(p) /\ Charge("unheard")
        /\ forgotten' = forgotten + 1
        /\ sweep' = [sweep EXCEPT !.pc = "scanning", !.on = NoPull]
     \/ /\ Charge("refused")
        /\ sweep' = [sweep EXCEPT !.pc = "scanning", !.on = NoPull]
        /\ UNCHANGED <<mentioned, repeats, late, forgotten>>
  /\ UNCHANGED <<nudgeRegime, day, pull, feed, assigning, nudge, rowsMade, acted>>

Stored == {p \in PullRequests : sweep.stage[p] > 0}
Moved(p) == ~Tracked(p) \/ nudge[p].no # sweep.rows[p].no

(* Mutation: the deletions of the sweep are stored, its stages are not. *)
SweepStoresDeletions ==
  /\ sweep.pc = "scanning" /\ sweep.left = {}
  /\ sweep' = NoSweep
  /\ nudge' = [p \in PullRequests |->
                 IF Tracked(p) /\ <<p, nudge[p].no>> \in sweep.gone THEN NotTracked ELSE nudge[p]]
  /\ UNCHANGED <<nudgeRegime, day, pull, feed, assigning, rowsMade, acted, mentioned, repeats,
                 forgotten, late, spare>>

(* The one commit at the end.  A stage to be stored in a row that is gone  *)
(* meanwhile fails it (the UPDATE matches no row), and with it everything. *)
SweepCommits ==
  /\ sweep.pc = "scanning" /\ sweep.left = {}
  /\ sweep' = NoSweep
  /\ IF \E p \in Stored : Moved(p)
     THEN /\ forgotten' = forgotten + Cardinality(Stored)
          /\ UNCHANGED nudge
     ELSE /\ nudge' = [p \in PullRequests |->
               IF p \in Stored THEN [nudge[p] EXCEPT !.stage = sweep.stage[p]]
               ELSE IF Tracked(p) /\ <<p, nudge[p].no>> \in sweep.gone THEN NotTracked
               ELSE nudge[p]]
          /\ UNCHANGED forgotten
  /\ UNCHANGED <<nudgeRegime, day, pull, feed, assigning, rowsMade, acted, mentioned, repeats,
                 late, spare>>

SweepDies ==
  /\ sweep.pc # "idle" /\ Charge("crashes")
  /\ sweep' = NoSweep
  /\ forgotten' = forgotten + Cardinality(Stored)
  /\ UNCHANGED <<nudgeRegime, day, pull, feed, assigning, nudge, rowsMade, acted, mentioned,
                 repeats, late>>

-----------------------------------------------------------------------------
(* The environment. *)

(* Somebody comments, reviews or pushes: a push counts as the author's. *)
Acts(p, who) ==
  /\ Charge("acts")
  /\ feed' = Append(feed, [kind |-> "acted", pr |-> p, who |-> who, at |-> day])
  /\ UNCHANGED <<nudgeRegime, day, pull, assigning, nudge, rowsMade, sweep, acted, mentioned,
                 repeats, forgotten, late>>

(* Merged or closed, and perhaps nobody is told. *)
Ends(p) ==
  /\ pull[p] = "open"
  /\ pull' = [pull EXCEPT ![p] = "ended"]
  /\ late' = [late EXCEPT ![p] = 0]
  /\ \/ /\ Charge("endings")
        /\ feed' = Append(feed, [kind |-> "ended", pr |-> p, who |-> Author, at |-> day])
     \/ Charge("lost") /\ UNCHANGED feed
  /\ UNCHANGED <<nudgeRegime, day, assigning, nudge, rowsMade, sweep, acted, mentioned, repeats,
                 forgotten>>

Reopens(p) ==
  /\ pull[p] = "ended" /\ Charge("reopens")
  /\ pull' = [pull EXCEPT ![p] = "open"]
  /\ UNCHANGED <<nudgeRegime, day, feed, assigning, nudge, rowsMade, sweep, acted, mentioned,
                 repeats, forgotten, late>>

DayBreaks ==
  /\ day < nudgeRegime.maxDay
  /\ day' = day + 1
  /\ UNCHANGED <<nudgeRegime, pull, feed, assigning, nudge, rowsMade, sweep, acted, mentioned,
                 repeats, forgotten, late, spare>>

SweepStep ==
  \/ SweepReads \/ SweepComments \/ SweepCommits
  \/ \E p \in sweep.left : SweepChecks(p)

NudgeNext ==
  \/ \E p \in nudgeRegime.pulls :
       \/ \E q \in Testers \cap nudgeRegime.people : AssignmentBegins(p, q) \/ AssignmentTracks(p, q)
       \/ \E who \in nudgeRegime.people : Acts(p, who)
       \/ Ends(p) \/ Reopens(p)
  \/ \E i \in DOMAIN feed : HandleEvent(i)
  \/ SweepStep \/ SweepDies
  \/ DayBreaks

NudgeSpec == NudgeInit /\ [][NudgeNext]_nudgeVars

(* _pr_review_nudge_loop: a sweep that raises is followed by the next, and *)
(* the worker is restarted.                                                *)
NudgeFairness == WF_nudgeVars(SweepStep)

-----------------------------------------------------------------------------
(***************************************************************************)
(* Nobody is mentioned who was heard of last, nor anybody within three     *)
(* days of the last thing either side was heard to do, in whatever order   *)
(* events are handled (record_activity, _target_stage).                    *)
(***************************************************************************)
OnlyAfterSilence ==
  [][\A m \in mentioned' \ mentioned :
       /\ m.side # sweep.acted[m.pr].side
       /\ sweep.acted[m.pr].at + 3 <= sweep.at]_nudgeVars

(***************************************************************************)
(* A pull request that has ended is mentioned at most once more, by the    *)
(* comment that was under way, whatever the service was told or not told   *)
(* and whatever an assignment overtaken by the end has put back            *)
(* (pr_lifecycle_state; the incident in the module's docstring).           *)
(***************************************************************************)
EndSilences == \A p \in PullRequests : pull[p] = "ended" => late[p] <= 1

(***************************************************************************)
(* "knows what it already said and never repeats a stage" (PrReviewNudge): *)
(* except for the mentions a restart, a lost answer or a commit that       *)
(* failed made it forget, one repetition for each.                         *)
(***************************************************************************)
NoIdleRepeats == repeats <= forgotten

(***************************************************************************)
(* A row that is due does not stay due: its stage is said and stored, the  *)
(* turn moves, or the row of an ended pull request is retired.             *)
(***************************************************************************)
DueIsDealtWith == \A p \in PullRequests : []<>~Due(p)
=============================================================================
