------------------------------ MODULE IssueSync ------------------------------
(***************************************************************************)
(* One GitHub issue and its Plaky card: the handlers of                    *)
(* boardman/services/issue_handler.py, called by the webhook route, by the *)
(* reconciliation sweep (boardman/services/reconcile.py) and by the poller *)
(* (boardman/services/github_poller.py).                                   *)
(*                                                                         *)
(* A handler first looks (at the mapping, the board, the sync log) and     *)
(* awaits Plaky in between, then writes: those are two steps, and other    *)
(* handlers may run in between if the regime has several.                  *)
(* Creating a card is reserve, create, and patch-and-commit.               *)
(*                                                                         *)
(* Of the board, the status column and the assignee column are modelled;   *)
(* type, priority, title and the mirrored comments are not.  A diff_only   *)
(* write leaves what it would leave anyway.                                *)
(***************************************************************************)
EXTENDS Naturals, Sequences, FiniteSetsExt

CONSTANTS
  Logins,         \* GitHub accounts
  OnBoard,        \* those that resolve to a person of the board
  Eligible,       \* those of them who may be a developer (filter_developer)
  Handlers,       \* handlers that may run at the same time
  Regimes,        \* the circumstances to consider, see Regime
  Nobody, NoPlace, Unreadable

Budget == [changes : Nat,    \* GitHub changes the issue this often
           lost    : Nat,    \* webhooks lost
           again   : Nat,    \* webhooks delivered once more
           refused : Nat,    \* Plaky writes refused
           blind   : Nat,    \* Plaky reads that fail
           crashes : Nat,    \* restarts of the service
           moves   : Nat]    \* the card is moved by a person or the pull-request handlers

(* How the issue's changes reach the service, and the bounds. *)
Regime == [webhooks : BOOLEAN,
           polls    : BOOLEAN,
           sweeps   : BOOLEAN,
           inOrder  : BOOLEAN,    \* webhooks are handled in GitHub's order
           handlers : SUBSET Handlers,    \* those at work: with one, no two overlap
           people   : SUBSET Logins,
           budget   : Budget]

ASSUME IssueAssumption ==
  /\ Eligible \subseteq OnBoard /\ OnBoard \subseteq Logins
  /\ Nobody \notin Logins
  /\ IsFiniteSet(Handlers)
  /\ Regimes \subseteq Regime

VARIABLES
  regime,      \* the circumstances, fixed
  issue,       \* the issue on GitHub
  inbox,       \* webhooks sent and not handled
  seen,        \* the poller's memory of the issue
  mapped,      \* issue_task_map has a committed row
  card,        \* the mapped card: its place and its assignee
  patchFailed, \* sync_logs: issue_created with post_create_update_ok false
  log,         \* sync_logs: rows issue_closed that captured a place, and issue_reopened
  task,        \* per handler: where it is, with which snapshot, and what it saw
  cards,       \* how many cards were created for the issue
  mishaps,     \* history: creations interrupted after Plaky made the card
  episode,     \* history: where the last close found the card
  budget       \* what is left of the bounds

vars == <<regime, issue, inbox, seen, mapped, card, patchFailed, log, task, cards,
          mishaps, episode, budget>>

People == Logins \cup {Nobody}
Places == {"needs_assigned", "assigned", "in_progress", "in_qa", "completed"}
Kinds  == {"opened", "assigned", "unassigned", "labeled", "edited", "closed", "reopened"}
PCs    == {"idle", "reserve", "create", "finish", "write"}

ASSUME PlaceAssumption == NoPlace \notin Places /\ Unreadable \notin Places \cup {NoPlace}

Snapshot == [kind : Kinds, open : BOOLEAN, owner : People]
Look     == [place : Places \cup {NoPlace, Unreadable}, who : People,
             resume : Places \cup {NoPlace}]
Row      == [kind : {"issue_closed", "issue_reopened"}, place : Places \cup {NoPlace}]

Idle     == [pc |-> "idle", msg |-> [kind |-> "opened", open |-> TRUE, owner |-> Nobody],
             saw |-> [place |-> NoPlace, who |-> Nobody, resume |-> NoPlace]]
Unseen   == [known |-> FALSE, open |-> TRUE, owner |-> Nobody]

TypeOK ==
  /\ regime \in Regimes
  /\ issue \in [exists : BOOLEAN, open : BOOLEAN, owner : People]
  /\ inbox \in Seq(Snapshot)
  /\ seen \in [known : BOOLEAN, open : BOOLEAN, owner : People]
  /\ mapped \in BOOLEAN
  /\ card \in [place : Places, who : People]
  /\ card.who \in Eligible \cup {Nobody}
  /\ patchFailed \in BOOLEAN
  /\ log \in Seq(Row)
  /\ task \in [Handlers -> [pc : PCs, msg : Snapshot, saw : Look]]
  /\ cards \in Nat /\ mishaps \in Nat
  /\ episode \in Places \cup {NoPlace}
  /\ budget \in Budget

Init ==
  /\ regime \in Regimes
  /\ issue = [exists |-> FALSE, open |-> TRUE, owner |-> Nobody]
  /\ inbox = <<>> /\ seen = Unseen
  /\ mapped = FALSE
  /\ card = [place |-> "needs_assigned", who |-> Nobody]
  /\ patchFailed = FALSE
  /\ log = <<>>
  /\ task = [h \in Handlers |-> Idle]
  /\ cards = 0 /\ mishaps = 0
  /\ episode = NoPlace
  /\ budget = regime.budget

service == <<seen, mapped, card, patchFailed, log, task, cards, mishaps, episode>>

Spend(what) == budget[what] > 0 /\ budget' = [budget EXCEPT ![what] = @ - 1]

-----------------------------------------------------------------------------
(* The order of places: WORKFLOW_RANK of boardman/services/sync_state.py. *)
Rank(place) ==
  CASE place = "needs_assigned" -> 0 [] place = "assigned" -> 1
    [] place = "in_progress" -> 2 [] place = "in_qa" -> 4 [] place = "completed" -> 6

AboutOwnership == {"needs_assigned", "assigned"}

(* Mutation: an unreadable board does not hold the write back. *)
RegressesIfRead(now, next) ==
  now \in Places \ AboutOwnership /\ next \in AboutOwnership /\ Rank(next) < Rank(now)

(* status_intent_would_regress *)
WouldRegress(now, next) ==
  /\ next \in AboutOwnership
  /\ \/ now = Unreadable
     \/ now \in Places \ AboutOwnership /\ Rank(next) < Rank(now)

(* Mutation: whoever resolves is pushed. *)
EngineerOnBoard(login) == IF login \in OnBoard THEN login ELSE Nobody

(* Who lands in the assignee column: resolved, and let through by filter_developer. *)
Engineer(login) == IF login \in Eligible THEN login ELSE Nobody

(* issue_status_intent *)
StatusIntent(m, engineer) ==
  IF ~m.open THEN "completed"
  ELSE IF engineer # Nobody THEN "assigned" ELSE "needs_assigned"

-----------------------------------------------------------------------------
(* The sync log. *)
Closes(l)  == {i \in DOMAIN l : l[i].kind = "issue_closed"}
Reopens(l) == {i \in DOMAIN l : l[i].kind = "issue_reopened"}

PlaceOfNewest(l, rows) ==
  LET newest == {i \in rows : \A j \in rows : j <= i}
  IN  IF newest = {} THEN NoPlace ELSE l[CHOOSE i \in newest : TRUE].place

(* Mutation: only rows younger than the last reopen are considered. *)
PreCloseAfterReopen(l) ==
  PlaceOfNewest(l, {i \in Closes(l) : \A r \in Reopens(l) : r < i})

(* _pre_close_status: the newest captured place, from the row on that the *)
(* last reopen restored, or after that reopen when there was none.        *)
PreCloseStatus(l) ==
  LET restored == {i \in Closes(l) : Reopens(l) # {} /\ i < Max(Reopens(l))}
      first    == IF restored # {} THEN Max(restored)
                  ELSE IF Reopens(l) # {} THEN Max(Reopens(l)) + 1 ELSE 1
  IN  PlaceOfNewest(l, {i \in Closes(l) : i >= first})

(* A close that captured nothing is never read back, and a reopen right *)
(* after a reopen moves no limit: neither row is kept.                  *)
WithClose(l, place) ==
  IF place = NoPlace THEN l ELSE Append(l, [kind |-> "issue_closed", place |-> place])

WithReopen(l) ==
  IF l # <<>> /\ l[Len(l)].kind = "issue_reopened" THEN l
  ELSE Append(l, [kind |-> "issue_reopened", place |-> NoPlace])

-----------------------------------------------------------------------------
(* GitHub. *)
Message(kind) == [kind |-> kind, open |-> issue'.open, owner |-> issue'.owner]

Send(kind) ==
  /\ Spend("changes")
  /\ inbox' = IF regime.webhooks THEN Append(inbox, Message(kind)) ELSE inbox
  /\ UNCHANGED <<regime, service>>

Raise(owner) ==
  /\ ~issue.exists
  /\ issue' = [exists |-> TRUE, open |-> TRUE, owner |-> owner]
  /\ Send("opened")

Assign(owner) ==
  /\ issue.exists /\ issue.owner = Nobody
  /\ issue' = [issue EXCEPT !.owner = owner]
  /\ Send("assigned")

Unassign ==
  /\ issue.exists /\ issue.owner # Nobody
  /\ issue' = [issue EXCEPT !.owner = Nobody]
  /\ Send("unassigned")

Relabel ==
  /\ issue.exists
  /\ UNCHANGED issue
  /\ Send("labeled")

Close ==
  /\ issue.exists /\ issue.open
  /\ issue' = [issue EXCEPT !.open = FALSE]
  /\ Send("closed")

Reopen ==
  /\ issue.exists /\ ~issue.open
  /\ issue' = [issue EXCEPT !.open = TRUE]
  /\ Send("reopened")

Rest(i) == [j \in 1 .. Len(inbox) - 1 |-> IF j < i THEN inbox[j] ELSE inbox[j + 1]]

Lose(i) ==
  /\ Spend("lost")
  /\ inbox' = Rest(i)
  /\ UNCHANGED <<regime, issue, service>>

Redeliver(i) ==
  /\ Spend("again")
  /\ inbox' = SubSeq(inbox, 1, i) \o SubSeq(inbox, i, Len(inbox))
  /\ UNCHANGED <<regime, issue, service>>

(* A person drags the card, or a pull request's handler moves it. *)
MoveCard(place) ==
  /\ mapped
  /\ Spend("moves")
  /\ card' = [card EXCEPT !.place = place]
  /\ episode' = NoPlace
  /\ UNCHANGED <<regime, issue, inbox, seen, mapped, patchFailed, log, task, cards, mishaps>>

-----------------------------------------------------------------------------
(* How a handler starts. *)
Start(h, m, saw) ==
  task' = [task EXCEPT ![h] =
    IF mapped THEN [pc |-> "write", msg |-> m, saw |-> saw]
    ELSE IF m.kind = "opened" THEN [Idle EXCEPT !.pc = "reserve", !.msg = m]
    ELSE Idle]       \* "no Plaky task mapped for this issue"

(* What the board says.  An unread board shows no assignee and no place to *)
(* resume; only the reading of the status tells it from an empty one.      *)
Begin(h, m) ==
  /\ task[h].pc = "idle"
  /\ LET resume == IF m.kind = "reopened" /\ m.owner # Nobody THEN PreCloseStatus(log)
                   ELSE NoPlace
     IN  \/ /\ Start(h, m, [place |-> card.place, who |-> card.who, resume |-> resume])
            /\ UNCHANGED budget
         \/ /\ mapped /\ Spend("blind")
            /\ Start(h, m, [place |-> Unreadable, who |-> Nobody, resume |-> resume])
  /\ UNCHANGED <<regime, issue, mapped, card, patchFailed, log, cards, mishaps, episode>>

(* The webhook route. *)
Receive(h, i) ==
  /\ regime.inOrder => i = 1
  /\ Begin(h, inbox[i])
  /\ inbox' = Rest(i)
  /\ UNCHANGED seen

Current(kind) == [kind |-> kind, open |-> issue.open, owner |-> issue.owner]

(* Mutation: the sweep only follows the cards there are. *)
SweepMapped(h) ==
  /\ regime.sweeps /\ issue.exists /\ mapped
  /\ Begin(h, Current(IF issue.open THEN "edited" ELSE "closed"))
  /\ UNCHANGED <<inbox, seen>>

(* Mutation: the sweep passes over closed issues. *)
SweepOpen(h) ==
  /\ regime.sweeps /\ issue.exists /\ issue.open
  /\ Begin(h, Current(IF mapped THEN "edited" ELSE "opened"))
  /\ UNCHANGED <<inbox, seen>>

(* reconcile_repo *)
Sweep(h) ==
  /\ regime.sweeps /\ issue.exists
  /\ \/ ~mapped /\ issue.open /\ Begin(h, Current("opened"))
     \/ mapped /\ Begin(h, Current(IF issue.open THEN "edited" ELSE "closed"))
  /\ UNCHANGED <<inbox, seen>>

(* _poll_issues: one action per poll, the first that applies; everything  *)
(* it saw counts as seen before the handler runs.                         *)
News ==
  IF ~seen.known THEN "opened"
  ELSE IF seen.open # issue.open THEN IF issue.open THEN "reopened" ELSE "closed"
  ELSE "labeled"

Poll(h) ==
  /\ regime.polls /\ issue.exists
  /\ ~seen.known \/ seen.open # issue.open \/ seen.owner # issue.owner
  /\ Begin(h, Current(News))
  /\ seen' = [known |-> TRUE, open |-> issue.open, owner |-> issue.owner]
  /\ UNCHANGED inbox

-----------------------------------------------------------------------------
(* handle_issue_opened, for an issue without a card. *)
At(h, pc)  == task[h].pc = pc
Done(h)    == task' = [task EXCEPT ![h] = Idle]
Go(h, pc)  == task' = [task EXCEPT ![h].pc = pc]

(* Mutation: nothing keeps a second handler from creating. *)
ReserveUnguarded(h) ==
  /\ At(h, "reserve")
  /\ IF mapped THEN Done(h) ELSE Go(h, "create")
  /\ UNCHANGED <<regime, issue, inbox, seen, mapped, card, patchFailed, log, cards, mishaps,
                 episode, budget>>

(* The INSERT waits for whoever has inserted and not committed; if that    *)
(* one commits a card, the unique index refuses it: "Issue already mapped". *)
Reserve(h) ==
  /\ At(h, "reserve")
  /\ \A g \in Handlers : task[g].pc \notin {"create", "finish"}
  /\ IF mapped THEN Done(h) ELSE Go(h, "create")
  /\ UNCHANGED <<regime, issue, inbox, seen, mapped, card, patchFailed, log, cards, mishaps,
                 episode, budget>>

CreateTask(h) ==
  /\ At(h, "create")
  /\ cards' = cards + 1
  /\ Go(h, "finish")
  /\ UNCHANGED <<regime, issue, inbox, seen, mapped, card, patchFailed, log, mishaps,
                 episode, budget>>

(* Plaky refuses, or makes the card and its answer is lost: the reservation goes. *)
CreateFails(h) ==
  /\ At(h, "create")
  /\ Spend("refused")
  /\ Done(h)
  /\ \/ UNCHANGED <<cards, mishaps>>
     \/ cards' = cards + 1 /\ mishaps' = mishaps + 1
  /\ UNCHANGED <<regime, issue, inbox, seen, mapped, card, patchFailed, log, episode>>

(* The post-create patch, and the commit.  The status is derived from who  *)
(* the login resolves to, and filter_developer applied on the way out.     *)
FinishOpened(h) ==
  LET m == task[h].msg IN
  /\ At(h, "finish")
  /\ mapped' = TRUE
  /\ \/ /\ card' = [place |-> StatusIntent(m, IF m.owner \in OnBoard THEN m.owner ELSE Nobody),
                    who |-> Engineer(m.owner)]
        /\ patchFailed' = FALSE
        /\ UNCHANGED budget
     \/ /\ Spend("refused")
        /\ patchFailed' = TRUE
        /\ UNCHANGED card
  /\ Done(h)
  /\ UNCHANGED <<regime, issue, inbox, seen, log, cards, mishaps, episode>>

-----------------------------------------------------------------------------
(* handle_issue_changed. *)
ChangeKinds == {"opened", "assigned", "unassigned", "labeled", "edited"}
Owns(m)     == m.kind \in {"assigned", "unassigned"}
Repairs(m)  == m.kind = "opened" /\ patchFailed

StatesStatus(m) == ~m.open \/ Owns(m) \/ Repairs(m)

HeldBack(m, saw) ==
  /\ Owns(m) /\ m.open
  /\ WouldRegress(saw.place, StatusIntent(m, Engineer(m.owner)))

(* On an unreadable board an assignment is not applied at all. *)
Dropped(m, saw) == HeldBack(m, saw) /\ saw.place = Unreadable

(* Mutation: any event empties the column. *)
ClearsAnyway(m, saw) == m.owner = Nobody

(* Mutation: with the status held back, the column is held back too. *)
ClearsUnlessHeld(m, saw) == Owns(m) /\ m.owner = Nobody /\ ~HeldBack(m, saw)

Clears(m, saw) == Owns(m) /\ m.owner = Nobody /\ ~Dropped(m, saw)

(* Only an assignment event replaces an engineer; the others fill. *)
Pushes(m, saw) ==
  IF Dropped(m, saw) \/ (~Owns(m) /\ saw.who # Nobody) THEN Nobody ELSE Engineer(m.owner)

(* The status goes out in the same patch as the engineer ... *)
Stated(m, saw) ==
  IF StatesStatus(m) /\ ~HeldBack(m, saw) THEN StatusIntent(m, Engineer(m.owner)) ELSE NoPlace

Patched(m, saw) ==
  [place |-> IF Stated(m, saw) # NoPlace THEN Stated(m, saw) ELSE card.place,
   who   |-> IF Pushes(m, saw) # Nobody THEN Pushes(m, saw)
             ELSE IF Clears(m, saw) THEN Nobody ELSE card.who]

(* ... and, with no status asked for, bump_status_for_assignee follows in a *)
(* write of its own, whatever became of the patch.                          *)
Bumps(m, saw) == Pushes(m, saw) # Nobody /\ Stated(m, saw) = NoPlace

Bumped(c) == IF c.place = "needs_assigned" THEN [c EXCEPT !.place = "assigned"] ELSE c

NoteCompletion(place) ==
  episode' = IF card.place # "completed" /\ card'.place = "completed" THEN place ELSE episode

HandleChanged(h) ==
  LET m == task[h].msg  saw == task[h].saw
      wanted == Patched(m, saw)
  IN
  /\ At(h, "write") /\ m.kind \in ChangeKinds
  /\ \/ /\ card' = IF Bumps(m, saw) THEN Bumped(wanted) ELSE wanted
        /\ UNCHANGED budget
     \/ /\ Spend("refused")
        /\ Bumps(m, saw) \/ wanted # card
        /\ card' \in {card} \cup (IF Bumps(m, saw) THEN {Bumped(card), wanted} ELSE {})
  /\ NoteCompletion(NoPlace)
  /\ Done(h)
  /\ UNCHANGED <<regime, issue, inbox, seen, mapped, patchFailed, log, cards, mishaps>>

-----------------------------------------------------------------------------
(* handle_issue_closed and handle_issue_reopened: _issue_status_transition. *)
Captured(saw) ==
  IF saw.place \in {Unreadable, "completed"} THEN NoPlace ELSE saw.place

(* The row is logged, and the delivery succeeds, also when Plaky refused. *)
HandleClosed(h) ==
  LET captured == Captured(task[h].saw) IN
  /\ At(h, "write") /\ task[h].msg.kind = "closed"
  /\ \/ card' = [card EXCEPT !.place = "completed"] /\ UNCHANGED budget
     \/ Spend("refused") /\ card.place # "completed" /\ UNCHANGED card
  /\ log' = WithClose(log, captured)
  /\ NoteCompletion(captured)
  /\ Done(h)
  /\ UNCHANGED <<regime, issue, inbox, seen, mapped, patchFailed, cards, mishaps>>

(* Only an owned issue, by its GitHub login, resumes where it was; a refused *)
(* resumption falls back to Assigned in a second write.                      *)
HandleReopened(h) ==
  LET m      == task[h].msg
      resume == task[h].saw.resume
      ladder == IF m.owner # Nobody THEN "assigned" ELSE "needs_assigned"
  IN
  /\ At(h, "write") /\ m.kind = "reopened"
  /\ \/ /\ card' = [card EXCEPT !.place = IF resume # NoPlace THEN resume ELSE ladder]
        /\ UNCHANGED budget
     \/ /\ Spend("refused")
        /\ \/ UNCHANGED card
           \/ resume # NoPlace /\ card' = [card EXCEPT !.place = ladder]
  /\ log' = WithReopen(log)
  /\ Done(h)
  /\ UNCHANGED <<regime, issue, inbox, seen, mapped, patchFailed, cards, mishaps, episode>>

(* A restart: handlers, their reservations and the poller's memory are gone. *)
Restart ==
  /\ Spend("crashes")
  /\ task' = [h \in Handlers |-> Idle]
  /\ mishaps' = mishaps + Cardinality({h \in Handlers : At(h, "finish")})
  /\ seen' = Unseen
  /\ UNCHANGED <<regime, issue, inbox, mapped, card, patchFailed, log, cards, episode>>

-----------------------------------------------------------------------------
GitHubStep ==
  \/ \E l \in regime.people \cup {Nobody} : Raise(l)
  \/ \E l \in regime.people : Assign(l)
  \/ Unassign \/ Relabel \/ Close \/ Reopen

Environment ==
  \/ \E i \in DOMAIN inbox : Lose(i) \/ Redeliver(i)
  \/ \E place \in {"in_progress", "in_qa", "completed"} : MoveCard(place)
  \/ Restart

Works(h) ==
  \/ Reserve(h) \/ CreateTask(h) \/ CreateFails(h) \/ FinishOpened(h)
  \/ HandleChanged(h) \/ HandleClosed(h) \/ HandleReopened(h)

Next ==
  \/ GitHubStep \/ Environment
  \/ \E h \in regime.handlers :
                        \/ \E i \in DOMAIN inbox : Receive(h, i)
                        \/ Sweep(h) \/ Poll(h) \/ Works(h)

Spec == Init /\ [][Next]_vars

(* A handler that was started goes on; the sweep comes round every fifteen *)
(* minutes.  Nothing is assumed of webhooks and of the poller.             *)
FairSpec ==
  /\ Spec
  /\ \A h \in Handlers : WF_vars(Works(h))
  /\ WF_vars(\E h \in regime.handlers : Sweep(h))

-----------------------------------------------------------------------------
(***************************************************************************)
(* An issue gets one card.  Every further card on the board was left by a  *)
(* creation that was interrupted after Plaky had made it: concurrent and   *)
(* repeated `opened` snapshots never make one (handle_issue_opened).       *)
(***************************************************************************)
OneCard == cards <= 1 + mishaps

(***************************************************************************)
(* The board never reads Assigned with nobody in the Assignee column: the  *)
(* state the board rules forbid (_resolve_issue_engineer_id).              *)
(***************************************************************************)
AssignedHasSomebody == mapped /\ card.place = "assigned" => card.who # Nobody

(***************************************************************************)
(* The code keeps to that rule as long as every change arrives, in order,  *)
(* with one handler at a time and no read or write failing, and owners may *)
(* be developers, whatever is repeated, swept or moved in between.         *)
(***************************************************************************)
Delivered ==
  /\ regime.webhooks /\ regime.inOrder /\ Cardinality(regime.handlers) = 1
  /\ \A what \in {"lost", "refused", "blind", "crashes"} : regime.budget[what] = 0

AssignedInOrder ==
  Delivered /\ ~regime.polls /\ regime.people \subseteq Eligible => AssignedHasSomebody

(***************************************************************************)
(* A reopened issue that has an owner resumes the place it was closed      *)
(* from, however many duplicates, sweeps and polls came in between, when   *)
(* no two handlers overlap and Plaky takes the write (_pre_close_status).  *)
(***************************************************************************)
ReopenResumes ==
  [][\A h \in Handlers :
       /\ At(h, "write") /\ task'[h] = Idle
       /\ task[h].msg.kind = "reopened" /\ task[h].msg.owner # Nobody
       /\ Cardinality(regime.handlers) = 1 /\ budget' = budget
       /\ card.place = "completed" /\ card'.place # "completed"
       /\ episode # NoPlace
       => card'.place = episode]_vars

(***************************************************************************)
(* Who owns an open issue says nothing about how far the work has got: no  *)
(* assignment, label or edit moves a card back that is past Assigned, as   *)
(* long as the handler's reading of the board was not overtaken            *)
(* (status_intent_would_regress).                                          *)
(***************************************************************************)
OwnershipNeverRewinds ==
  [][\A h \in Handlers :
       /\ At(h, "write") /\ task'[h] = Idle
       /\ task[h].msg.kind \in ChangeKinds \ {"opened"} /\ task[h].msg.open
       /\ task[h].saw.place \in {card.place, Unreadable}
       /\ card.place \notin AboutOwnership
       => card'.place = card.place]_vars

(***************************************************************************)
(* With every webhook delivered, in order and at least once, and nothing   *)
(* refused, a service that has nothing left to do shows on the board what  *)
(* GitHub says: the column names the owner if he may be a developer, also  *)
(* on a card that work has moved on, and unless others moved the card it   *)
(* is Completed exactly when the issue is closed.                          *)
(***************************************************************************)
AtRest == inbox = <<>> /\ \A h \in Handlers : At(h, "idle")

InStep ==
  Delivered /\ AtRest /\ issue.exists =>
    /\ mapped
    /\ card.who = Engineer(issue.owner)
    /\ regime.budget.moves = 0 => (issue.open <=> card.place # "completed")

(* Delivered in order, the card has its owner and its place.               *)
CardIsKept == AssignedInOrder /\ InStep

(***************************************************************************)
(* The sweep gives every open issue a card, and takes the card of a closed *)
(* one to Completed, whatever was lost, refused or interrupted before.     *)
(***************************************************************************)
SweepRepairs ==
  <>[](regime.sweeps /\ issue.exists =>
         /\ issue.open => mapped
         /\ mapped /\ ~issue.open => card.place = "completed")
=============================================================================
