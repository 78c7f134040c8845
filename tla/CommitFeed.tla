------------------------------ MODULE CommitFeed ------------------------------
(* Commits that name an issue are commented on the issue's card                *)
(* (github_poller.py, _poll_commits and _comment_commits): the poller reads    *)
(* the default branch and those of open pull requests, remembers which commits *)
(* it has processed, and the sync log which comments were posted.              *)
EXTENDS Naturals, FiniteSets, Sequences, SequencesExt, Ranks

CONSTANTS CommitRegimes   (* branches, commits, what they name, the page, the cut *)

ASSUME CommitAssumption ==
  \A r \in CommitRegimes :
    /\ r.page \in Nat /\ r.cut \in Nat /\ "main" \in DOMAIN r.pushes
    /\ \A b \in DOMAIN r.pushes : IsFiniteSet(r.pushes[b]) /\ r.pushes[b] \subseteq Nat

VARIABLES commitRegime, commitLeft,
          branches,     (* GitHub: the commits of each branch; a number is a date *)
          tracked,      (* the default branch and pr_branches                     *)
          mapped,       (* issues that have a card                                *)
          since,        (* the baseline of this process's life                    *)
          processed,    (* proc["commits"], of this process's life                *)
          sweep,        (* _poll_commits: where it stands                         *)
          synced,       (* SyncLog: <<commit, issue>> recorded as commented       *)
          posted,       (* Plaky: the comments, <<commit, issue>>, in order       *)
          owed,         (* by branch, what the last poll found when it began      *)
          waived,       (* pairs cut, refused, lost, or without a card in time    *)
          unrecorded    (* pairs posted of which no row says so                   *)
commitVars == <<commitRegime, commitLeft, branches, tracked, mapped, since, processed, sweep,
                synced, posted, owed, waived, unrecorded>>

Branches == DOMAIN commitRegime.pushes
PairsOf(commits) == {p \in commits \X commitRegime.issues : p[2] \in commitRegime.names[p[1]]}
NoSweep == [at |-> "idle", left |-> {}, found |-> <<>>, todo |-> {}, rows |-> {}]
NoneOwed == [b \in Branches |-> {}]

CommitInit ==
  /\ commitRegime \in CommitRegimes /\ commitLeft = commitRegime.budget
  /\ branches = [b \in Branches |-> {}] /\ tracked = {"main"}
  /\ mapped = commitRegime.mapped /\ since = 1 /\ processed = {} /\ sweep = NoSweep
  /\ synced = {} /\ posted = <<>> /\ owed = NoneOwed /\ waived = {} /\ unrecorded = {}

SpendsCommit(what) == commitLeft[what] > 0 /\ commitLeft' = [commitLeft EXCEPT ![what] = @ - 1]
Repository == <<branches, tracked, mapped>>
CardComments == <<synced, posted, unrecorded>>

(* ------------------------------------------------- GitHub and the registry *)
(* The commits of a branch come in their order; one that is merged from        *)
(* another branch is on both.                                                  *)
Push(b) ==
  /\ \E c \in commitRegime.pushes[b] \ branches[b] :
       branches' = [branches EXCEPT ![b] = @ \cup {d \in commitRegime.pushes[b] : d <= c}]
  /\ UNCHANGED <<commitRegime, commitLeft, tracked, mapped, since, processed, sweep, CardComments,
                 owed, waived>>
TracksBranch(b) ==
  /\ b \notin tracked /\ tracked' = tracked \cup {b}
  /\ UNCHANGED <<commitRegime, commitLeft, branches, mapped, since, processed, sweep, CardComments,
                 owed, waived>>
GetsCard(i) ==
  /\ i \notin mapped /\ mapped' = mapped \cup {i}
  /\ UNCHANGED <<commitRegime, commitLeft, branches, tracked, since, processed, sweep, CardComments,
                 owed, waived>>

(* ------------------------------------------------------------- _poll_commits *)
(* One page of a branch, the newest, and nothing from before the baseline.     *)
BranchPage(b) ==
  {c \in branches[b] : c >= since
     /\ Cardinality({d \in branches[b] : d > c}) < commitRegime.page}
(* Mutation: the default branch alone. *)
DefaultAlone(all) == all \cap {"main"}
BranchesToRead(all) == all

BeginCommits ==
  /\ sweep.at = "idle" /\ SpendsCommit("polls")
  /\ sweep' = [NoSweep EXCEPT !.at = "read", !.left = BranchesToRead(tracked)]
  /\ owed' = [b \in Branches |->
                IF b \in tracked THEN {p \in PairsOf(BranchPage(b)) : p[2] \in mapped} ELSE {}]
  /\ UNCHANGED <<commitRegime, Repository, since, processed, CardComments, waived>>

(* What was not processed before is taken up, and is processed from now on.    *)
ReadBranch ==
  /\ sweep.at = "read" /\ sweep.left # {}
  /\ LET b == IF "main" \in sweep.left THEN "main" ELSE CHOOSE b \in sweep.left : TRUE
         new == Descending(BranchPage(b) \ processed)
         onward == [sweep EXCEPT !.left = @ \ {b}]
     IN \/ /\ processed' = processed \cup BranchPage(b)
           /\ sweep' = [onward EXCEPT !.found = @ \o new]
           /\ UNCHANGED <<commitLeft, owed, waived>>
        \/ (* an answer other than 200 passes the branch over *)
           /\ SpendsCommit("refusals") /\ sweep' = onward
           /\ owed' = [owed EXCEPT ![b] = {}] /\ UNCHANGED <<processed, waived>>
        \/ (* no answer ends the poll; what was processed stays processed *)
           /\ SpendsCommit("failures") /\ sweep' = NoSweep /\ owed' = NoneOwed
           /\ waived' = waived \cup PairsOf(Range(sweep.found)) /\ UNCHANGED processed
  /\ UNCHANGED <<commitRegime, Repository, since, CardComments>>

(* ---------------------------------------------------------- _comment_commits *)
(* So many of them, and of each the issues it names; the rest is cut.          *)
CutCommits ==
  /\ sweep.at = "read" /\ sweep.left = {}
  /\ LET n == Len(sweep.found)
         kept == IF n < commitRegime.cut THEN n ELSE commitRegime.cut
     IN /\ sweep' = IF n = 0 THEN NoSweep
                    ELSE [sweep EXCEPT !.at = "comment",
                                       !.todo = PairsOf(Range(SubSeq(sweep.found, 1, kept)))]
        /\ waived' = waived \cup PairsOf(Range(SubSeq(sweep.found, kept + 1, n)))
  /\ UNCHANGED <<commitRegime, commitLeft, Repository, since, processed, CardComments, owed>>

(* comment_already_synced: the marker names the commit and the issue.          *)
(* Mutation: the marker names the commit alone. *)
CommitIsSynced(p) == \E r \in synced \cup sweep.rows : r[1] = p[1]
(* Mutation: the memory of the process is trusted to be enough. *)
NeverSynced(p) == FALSE
AlreadySynced(p) == p \in synced \cup sweep.rows
(* Mutation: a refused comment is recorded like another. *)
RecordsRefused(p, rows, ok) == rows \cup {p}
RecordedRows(p, rows, ok) == IF ok THEN rows \cup {p} ELSE rows

CommentOne ==
  /\ sweep.at = "comment"
  /\ \E p \in sweep.todo :
       LET onward(ok) == [sweep EXCEPT !.todo = @ \ {p}, !.rows = RecordedRows(p, @, ok)] IN
       \/ /\ p[2] \notin mapped \/ AlreadySynced(p)
          /\ sweep' = [sweep EXCEPT !.todo = @ \ {p}]
          /\ waived' = IF p[2] \in mapped THEN waived ELSE waived \cup {p}
          /\ UNCHANGED <<commitLeft, posted, unrecorded>>
       \/ /\ p[2] \in mapped /\ ~AlreadySynced(p)
          /\ \/ posted' = Append(posted, p) /\ sweep' = onward(TRUE)
                /\ UNCHANGED <<commitLeft, waived, unrecorded>>
             \/ SpendsCommit("refusals") /\ sweep' = onward(FALSE)
                /\ waived' = waived \cup {p} /\ UNCHANGED <<posted, unrecorded>>
             \/ SpendsCommit("failures") /\ sweep' = onward(FALSE)
                /\ posted' = Append(posted, p) /\ unrecorded' = unrecorded \cup {p}
                /\ UNCHANGED waived
  /\ UNCHANGED <<commitRegime, Repository, since, processed, synced, owed>>

CommitRows ==
  /\ sweep.at = "comment" /\ sweep.todo = {}
  /\ synced' = synced \cup sweep.rows /\ sweep' = NoSweep
  /\ UNCHANGED <<commitRegime, commitLeft, Repository, since, processed, posted, owed, waived,
                 unrecorded>>

(* The database fails, and the rows of this poll are rolled back.              *)
CommentsFail ==
  /\ sweep.at = "comment" /\ SpendsCommit("failures")
  /\ sweep' = NoSweep /\ owed' = NoneOwed
  /\ unrecorded' = unrecorded \cup (sweep.rows \cap Range(posted))
  /\ waived' = waived \cup sweep.todo
  /\ UNCHANGED <<commitRegime, Repository, since, processed, synced, posted>>

(* The process starts again, with a baseline of its own.                       *)
StartsOver ==
  /\ SpendsCommit("restarts")
  /\ \E s \in since..commitRegime.latest : since' = s
  /\ processed' = {} /\ sweep' = NoSweep /\ owed' = NoneOwed
  /\ unrecorded' = unrecorded \cup (sweep.rows \cap Range(posted))
  /\ UNCHANGED <<commitRegime, Repository, synced, posted, waived>>

CommitNext ==
  \/ \E b \in Branches : Push(b) \/ TracksBranch(b)
  \/ \E i \in commitRegime.issues : GetsCard(i)
  \/ BeginCommits \/ ReadBranch \/ CutCommits \/ CommentOne \/ CommitRows
  \/ CommentsFail \/ StartsOver

(* --------------------------------------------------------------- correctness *)
(* A commit is commented on a card once, on however many branches it is read   *)
(* and however often the process starts again; except that a comment of which  *)
(* no row could be written may come again.                                     *)
CommentedOnce ==
  \A i, j \in DOMAIN posted : posted[i] = posted[j] => i = j \/ posted[i] \in unrecorded

(* After a poll, every commit that the page of a tracked branch showed when it *)
(* began, and still does, is on the card of every issue it names, if the issue *)
(* had one; but for those that were cut, refused, or read in a poll that ended *)
(* early, and those first read before their issue had a card: for them nobody  *)
(* comes back, nor for what newer commits pushed off the page before it was read. *)
CommitsArrive ==
  sweep.at = "idle" =>
    \A b \in Branches : \A p \in owed[b] :
      p[1] \in BranchPage(b) => p \in Range(posted) \cup waived

(* What is recorded as commented is on the card.                               *)
RecordedIsThere == synced \subseteq Range(posted)

CommitsAreTold == CommentedOnce /\ CommitsArrive /\ RecordedIsThere
=============================================================================
