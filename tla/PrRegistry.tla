------------------------------ MODULE PrRegistry ------------------------------
(***************************************************************************)
(* The table pr_task_links and the operations on it                        *)
(* (boardman/services/pr_task_registry.py).  A row says that a pull        *)
(* request drives a Plaky card; its key is the pull request and the issue  *)
(* that connects them, or Standalone (the code's issue number 0) when no   *)
(* issue does.  One repository; the handlers that call these operations    *)
(* are in PrLinks.                                                         *)
(*                                                                         *)
(* A table is a function from keys to rows, and a key nobody has inserted  *)
(* maps to NoRow.  stamp is withdrawn_github_at, 0 for NULL; the times     *)
(* merged_at and withdrawn_at count only as being set or not.              *)
(***************************************************************************)
EXTENDS Naturals

CONSTANTS
  Prs,          \* pull requests
  Issues,       \* issues of the repository
  Standalone,   \* the slot of a link no issue accounts for
  Cards,        \* Plaky cards
  NoCard

ASSUME RegistryAssumption == Standalone \notin Issues /\ NoCard \notin Cards

Slots == Issues \cup {Standalone}
Keys  == Prs \X Slots

PrOwned        == {"pr_task_pending", "pr_task_created"}
Weak           == {"branch_ref", "issue_keyword_title"}
UnSuperseding  == {"issue_keyword", "issue_keyword_title"}
Superseded     == "superseded_by_issue_link"
LinkSources    == UnSuperseding \cup Weak \cup PrOwned \cup {"auto_link", Superseded}

NoRow == [source |-> "none", card |-> NoCard, merged |-> FALSE, withdrawn |-> FALSE, stamp |-> 0]
Row   == [source : LinkSources, card : Cards, merged : BOOLEAN, withdrawn : BOOLEAN, stamp : Nat]
Table == [Keys -> Row \cup {NoRow}]

-----------------------------------------------------------------------------
(* Reading the table. *)

(* merged_at and withdrawn_at are both NULL; the source plays no part. *)
Active(row) == row # NoRow /\ ~row.merged /\ ~row.withdrawn

(* Not superseded, whether the pull request is open or not. *)
Driving(row) == row # NoRow /\ row.source # Superseded

(* distinct_task_ids_for_pr: the cards a pull request's events go to. *)
TasksOf(table, p) == {table[<<p, s>>].card : s \in {t \in Slots : Driving(table[<<p, t>>])}}

(* Mutation: only the standalone links are asked. *)
StandaloneOpenPr(table, c) ==
  \E p \in Prs : Active(table[<<p, Standalone>>]) /\ table[<<p, Standalone>>].card = c

HasAnyOpenPr(table, c) == \E k \in Keys : Active(table[k]) /\ table[k].card = c

-----------------------------------------------------------------------------
(* Writing a link. *)

StaysSuperseded(existing, incoming) == existing = Superseded /\ incoming \notin UnSuperseding

(* Mutation: the card a pull request opened is repointed like any other. *)
AcceptsRepoint(existing, incoming, sameTask) == FALSE

DeclinesRepoint(existing, incoming, sameTask) ==
  ~sameTask /\ existing \in PrOwned /\ incoming \notin PrOwned

KeptSource(existing, incoming, sameTask) ==
  IF sameTask /\ existing \in PrOwned /\ incoming \notin PrOwned THEN existing ELSE incoming

(* upsert_pr_task_link, for one row. *)
Upserted(row, c, source) ==
  IF row = NoRow
  THEN [NoRow EXCEPT !.source = source, !.card = c]
  ELSE IF StaysSuperseded(row.source, source) \/ DeclinesRepoint(row.source, source, row.card = c)
  THEN row
  ELSE [row EXCEPT !.source = KeptSource(row.source, source, row.card = c), !.card = c,
                   !.merged = FALSE, !.withdrawn = FALSE]

(* Links p to the card of every issue in is; source[i] says how it is named. *)
LinkIssues(table, p, is, cardOf, source) ==
  [k \in Keys |-> IF k[1] = p /\ k[2] \in is
                  THEN Upserted(table[k], cardOf[k[2]], source[k[2]])
                  ELSE table[k]]

-----------------------------------------------------------------------------
(* Closing, reopening and merging: the operations on all rows of p. *)

(* The close is not newer than the one this row was last withdrawn for. *)
AlreadyWithdrawn(row, at) == row.stamp # 0 /\ at # 0 /\ at <= row.stamp

(* The rows mark_pr_withdrawn stamps and returns. *)
NewlyWithdrawn(table, p, at) ==
  {k \in Keys : k[1] = p /\ table[k] # NoRow /\ ~table[k].withdrawn
                 /\ ~AlreadyWithdrawn(table[k], at)}

MarkWithdrawn(table, p, at) ==
  [k \in Keys |-> IF k \in NewlyWithdrawn(table, p, at)
                  THEN [table[k] EXCEPT !.withdrawn = TRUE, !.stamp = at] ELSE table[k]]

(* _payload_is_older_than: built before the close that withdrew the row. *)
OlderThanClose(row, at) == row.stamp # 0 /\ at # 0 /\ at < row.stamp

(* Mutation: a superseded link is revived like any other. *)
RevivesSuperseded(table, p, at) ==
  {k \in Keys : k[1] = p /\ table[k] # NoRow /\ table[k].withdrawn
                 /\ ~OlderThanClose(table[k], at)}

(* Mutation: only the links to issues are revived. *)
RevivesIssueLinks(table, p, at) ==
  {k \in Keys : k[1] = p /\ k[2] # Standalone /\ table[k] # NoRow /\ table[k].withdrawn
                 /\ table[k].source # Superseded /\ ~OlderThanClose(table[k], at)}

Revivable(table, p, at) ==
  {k \in Keys : k[1] = p /\ table[k] # NoRow /\ table[k].withdrawn
                 /\ table[k].source # Superseded /\ ~OlderThanClose(table[k], at)}

Revive(table, p, at) ==
  [k \in Keys |-> IF k \in Revivable(table, p, at)
                  THEN [table[k] EXCEPT !.withdrawn = FALSE] ELSE table[k]]

(* The rows mark_pr_merged stamps and returns. *)
NewlyMerged(table, p) ==
  {k \in Keys : k[1] = p /\ table[k] # NoRow /\ ~table[k].merged
                 /\ table[k].source # Superseded}

MarkMerged(table, p) ==
  [k \in Keys |-> IF k \in NewlyMerged(table, p) THEN [table[k] EXCEPT !.merged = TRUE]
                  ELSE table[k]]

(* The rows in ks stop being links of their pull request, for good. *)
Retire(table, ks) ==
  [k \in Keys |-> IF k \in ks THEN [table[k] EXCEPT !.withdrawn = TRUE, !.source = Superseded]
                  ELSE table[k]]
=============================================================================
