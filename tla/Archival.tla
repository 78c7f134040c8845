------------------------------ MODULE Archival ------------------------------
(* What becomes of the cards of pull requests (services/pr_task_lifecycle.py,  *)
(* swept by the worker): a card made for a pull request that matched nothing   *)
(* is deleted after a while, and one that was matched and is done goes to the  *)
(* archive board.  Plaky cannot move a card: it is copied and then deleted.    *)
EXTENDS Naturals, FiniteSets

CONSTANTS ArchRegimes     (* pull requests, cards, the time to live, what happens *)

(* A card made for a pull request lives for some time (settings.py: 14 days). *)
ASSUME ArchAssumption == \A r \in ArchRegimes : r.ttl \in Nat \ {0}

VARIABLES archRegime, archLeft,
          day,
          board,        (* Plaky: each card is "none" yet, "there" or "gone"; done *)
          copies,       (* Plaky: how often each card is on the archive board      *)
          links,        (* pull_request_task_links: pull, card, source, merged     *)
          due,          (* pr_task_lifecycle: when each card made is to go, or 0   *)
          settled,      (* pr_task_lifecycle: the cards with a deleted_at          *)
          pass,         (* the worker's sweep                                      *)
          archived,     (* cards that the archive deleted                          *)
          doubtful      (* cards with a lost answer, a failed delete, or a sweep   *)
                        (* that ended between the copy and the delete              *)
archVars == <<archRegime, archLeft, day, board, copies, links, due, settled, pass, archived,
              doubtful>>

ArchCards == archRegime.cards
NoPass == [at |-> "idle", todo |-> {}, gone |-> {}, link |-> {}, began |-> 0, clean |-> TRUE,
           whole |-> FALSE]

ArchInit ==
  /\ archRegime \in ArchRegimes /\ archLeft = archRegime.budget /\ day = 1
  /\ board = [c \in ArchCards |->
                [at |-> IF c \in archRegime.existing THEN "there" ELSE "none", done |-> FALSE]]
  /\ copies = [c \in ArchCards |-> 0] /\ links = {}
  /\ due = [c \in ArchCards |-> 0] /\ settled = {}
  /\ pass = NoPass /\ archived = {} /\ doubtful = {}

SpendsArch(what) == archLeft[what] > 0 /\ archLeft' = [archLeft EXCEPT ![what] = @ - 1]
Tracking == <<links, due>>

(* ------------------------------------------ pull requests, people and time *)
(* Nothing matches the pull request: a card is made for it (pr_handler.py).    *)
MakesCard(p, c) ==
  /\ board[c].at = "none" /\ \A l \in links : l.pull # p
  /\ board' = [board EXCEPT ![c].at = "there"]
  /\ links' = links \cup {[pull |-> p, card |-> c, source |-> "pr_task_created", merged |-> FALSE]}
  /\ due' = [due EXCEPT ![c] = day + archRegime.ttl]
  /\ UNCHANGED <<archRegime, archLeft, day, copies, settled, pass, archived, doubtful>>
LinksCard(p, c) ==
  /\ board[c].at = "there" /\ \A l \in links : l.pull # p
  /\ links' = links \cup {[pull |-> p, card |-> c, source |-> "match", merged |-> FALSE]}
  /\ UNCHANGED <<archRegime, archLeft, day, board, copies, due, settled, pass, archived, doubtful>>
MergesPull(p) ==
  /\ \E l \in links : l.pull = p /\ ~l.merged
  /\ links' = {IF l.pull = p THEN [l EXCEPT !.merged = TRUE] ELSE l : l \in links}
  /\ UNCHANGED <<archRegime, archLeft, day, board, copies, due, settled, pass, archived, doubtful>>
SetsDone(c) ==
  /\ board[c].at = "there" /\ SpendsArch("work") /\ board' = [board EXCEPT ![c].done = ~@]
  /\ UNCHANGED <<archRegime, day, copies, Tracking, settled, pass, archived, doubtful>>
DayPasses ==
  /\ SpendsArch("days") /\ day' = day + 1
  /\ UNCHANGED <<archRegime, board, copies, Tracking, settled, pass, archived, doubtful>>

(* --------------------------------------------------- cleanup_orphaned_pr_tasks *)
(* Mutation: a card is let live for a day more. *)
DueTomorrow(today) == {c \in ArchCards \ settled : due[c] > 0 /\ due[c] < today}
DueCards(today) == {c \in ArchCards \ settled : due[c] > 0 /\ due[c] <= today}

BeginPass ==
  /\ pass.at = "idle" /\ SpendsArch("passes")
  /\ pass' = [NoPass EXCEPT !.at = "delete", !.todo = DueCards(day), !.began = day]
  /\ UNCHANGED <<archRegime, day, board, copies, Tracking, settled, archived, doubtful>>

(* delete_board_item, by the board's id: carried out, refused, or carried out  *)
(* without a good answer.  Of a card that is gone, or on another board, it is  *)
(* refused.                                                                    *)
Deletes(c, ok) ==
  \/ /\ board[c].at = "there" /\ c \notin archRegime.away /\ ok
     /\ board' = [board EXCEPT ![c].at = "gone"] /\ UNCHANGED <<archLeft, doubtful>>
  \/ /\ board[c].at = "gone" \/ c \in archRegime.away
     /\ ~ok /\ doubtful' = doubtful \cup {c} /\ UNCHANGED <<archLeft, board>>
  \/ /\ SpendsArch("failures") /\ ~ok /\ doubtful' = doubtful \cup {c}
     /\ board' \in {board, [board EXCEPT ![c].at = IF c \in archRegime.away THEN @ ELSE "gone"]}

(* Mutation: a row is settled whatever the answer. *)
SettlesAnyway(gone, c, ok) == gone \cup {c}
SettlesIf(gone, c, ok) == IF ok THEN gone \cup {c} ELSE gone
DeleteDue ==
  /\ pass.at = "delete"
  /\ \E c \in pass.todo, ok \in BOOLEAN :
       /\ Deletes(c, ok)
       /\ pass' = [pass EXCEPT !.todo = @ \ {c}, !.gone = SettlesIf(@, c, ok), !.clean = @ /\ ok]
  /\ UNCHANGED <<archRegime, day, copies, Tracking, settled, archived>>

(* ------------------------------------------- archive_completed_matched_tasks *)
(* Mutation: the cards made for a pull request go to the archive too. *)
AllMerged == {l \in links : l.merged}
ToArchive == {l \in links : l.merged /\ l.source = "match"}
SettleRows ==
  /\ pass.at = "delete" /\ pass.todo = {}
  /\ settled' = settled \cup pass.gone
  /\ pass' = [pass EXCEPT !.at = "read", !.todo = ToArchive, !.gone = {}]
  /\ UNCHANGED <<archRegime, archLeft, day, board, copies, Tracking, archived, doubtful>>

(* One link after the other: without a board, or an answer, or done work, the  *)
(* next.                                                                       *)
(* Mutation: an answer that there is no such card is not looked at. *)
WhateverItAnswers(c) == board[c].done
LooksDone(c) == board[c].at = "there" /\ board[c].done
ReadCard ==
  /\ pass.at = "read"
  /\ \E l \in pass.todo :
       \/ /\ LooksDone(l.card)
          /\ pass' = [pass EXCEPT !.at = "copy", !.todo = @ \ {l}, !.link = {l}]
          /\ UNCHANGED archLeft
       \/ ~LooksDone(l.card) /\ pass' = [pass EXCEPT !.todo = @ \ {l}] /\ UNCHANGED archLeft
       \/ SpendsArch("failures") /\ pass' = [pass EXCEPT !.todo = @ \ {l}, !.clean = FALSE]
  /\ UNCHANGED <<archRegime, day, board, copies, Tracking, settled, archived, doubtful>>
(* Mutation: a copy that failed does not keep the original. *)
GoesOnAnyway(ok) == [pass EXCEPT !.at = "remove"]
AfterCopy(ok) ==
  IF ok THEN [pass EXCEPT !.at = "remove"]
  ELSE [pass EXCEPT !.at = "read", !.link = {}, !.clean = FALSE]
CopyCard ==
  /\ pass.at = "copy"
  /\ \E l \in pass.link :
       \/ /\ copies' = [copies EXCEPT ![l.card] = @ + 1] /\ pass' = AfterCopy(TRUE)
          /\ UNCHANGED <<archLeft, doubtful>>
       \/ /\ SpendsArch("failures") /\ pass' = AfterCopy(FALSE)
          /\ \/ UNCHANGED <<copies, doubtful>>
             \/ copies' = [copies EXCEPT ![l.card] = @ + 1] /\ doubtful' = doubtful \cup {l.card}
  /\ UNCHANGED <<archRegime, day, board, Tracking, settled, archived>>
RemoveCard ==
  /\ pass.at = "remove"
  /\ \E l \in pass.link, ok \in BOOLEAN :
       /\ Deletes(l.card, ok)
       /\ archived' = IF board'[l.card].at = "gone" THEN archived \cup {l.card} ELSE archived
       /\ pass' = [pass EXCEPT !.at = "read", !.link = {}, !.clean = @ /\ ok]
  /\ UNCHANGED <<archRegime, day, copies, Tracking, settled>>
EndPass ==
  /\ pass.at = "read" /\ pass.todo = {}
  /\ pass' = [pass EXCEPT !.at = "idle", !.whole = TRUE]
  /\ UNCHANGED <<archRegime, archLeft, day, board, copies, Tracking, settled, archived, doubtful>>

(* The worker stops, or Plaky cannot be reached, anywhere in a pass: what was  *)
(* not committed is rolled back.                                               *)
PassFails ==
  /\ pass.at # "idle" /\ SpendsArch("crashes") /\ pass' = NoPass
  /\ doubtful' = doubtful \cup pass.gone \cup {l.card : l \in pass.link}
  /\ UNCHANGED <<archRegime, day, board, copies, Tracking, settled, archived>>

ArchNext ==
  \/ \E p \in archRegime.pulls, c \in ArchCards : MakesCard(p, c) \/ LinksCard(p, c)
  \/ \E p \in archRegime.pulls : MergesPull(p)
  \/ \E c \in ArchCards : SetsDone(c)
  \/ DayPasses \/ BeginPass \/ DeleteDue \/ SettleRows \/ ReadCard \/ CopyCard \/ RemoveCard
  \/ EndPass \/ PassFails

(* --------------------------------------------------------------- correctness *)
(* "Moved": a card that the archive deleted is on the archive board, whatever  *)
(* was refused or lost on the way, and a card made for a pull request, which   *)
(* nothing else is linked to, never goes there.                                *)
MovedIsThere ==
  /\ \A c \in archived : copies[c] > 0
  /\ \A c \in ArchCards : copies[c] > 0 => \E l \in links : l.card = c /\ l.source = "match"

(* And it is there once, however many pull requests were linked to it; except  *)
(* that each failed delete, lost answer or stop in between brings another.     *)
MovedOnce == \A c \in ArchCards : copies[c] <= 1 \/ c \in doubtful

(* A row says that its card was deleted only if it was, and after a pass in    *)
(* which nothing failed it says so of every card that was due.                 *)
RowsAreTrue ==
  /\ \A c \in settled : board[c].at = "gone"
  /\ pass.whole /\ pass.clean => \A c \in ArchCards : due[c] \in 1..pass.began => c \in settled

ArchiveIsTrue == MovedIsThere /\ MovedOnce /\ RowsAreTrue

(* models.py: a card made for a pull request is deleted "UNLESS the PR went on *)
(* to merge/link something real in the meantime": a pull request merged within *)
(* the time keeps its card, and so does another that was linked to it.         *)
MergedWorkIsKept ==
  \A l \in links : l.merged /\ due[l.card] > 0 /\ l.card \notin archived =>
    board[l.card].at = "there" \/ l.card \in doubtful
=============================================================================
