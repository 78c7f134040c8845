------------------------------- MODULE PrLinks -------------------------------
(***************************************************************************)
(* Which Plaky cards a pull request drives, and when merging it completes  *)
(* them: the pull-request handlers of boardman/services/pr_handler.py over *)
(* the registry of PrRegistry, the sweep of boardman/services/reconcile.py *)
(* and the start-up catch-up of boardman/services/github_poller.py.        *)
(*                                                                         *)
(* GitHub is the environment: a pull request is opened, edited, closed,    *)
(* reopened and merged, and every change sends a snapshot of it.  The      *)
(* service handles snapshots one at a time, in GitHub's order if the       *)
(* regime has it so, and otherwise in any order.  A handler is one step,   *)
(* except that the matching of an unlinked pull request with existing      *)
(* cards (minutes of Plaky and model calls, nothing written before it) is  *)
(* a step of its own: other snapshots are handled while it runs, unless    *)
(* they come in order.                                                     *)
(*                                                                         *)
(* All pull requests are ready for review, none is excluded from syncing;  *)
(* a card's place on the board is `open` (anything before review),         *)
(* `needs_qa` (waiting for or under review) or `completed`.                *)
(***************************************************************************)
EXTENDS PrRegistry, FiniteSets

CONSTANTS
  Statements,    \* what an author may write: [body, title, branch], sets of issues
  OwnCard,       \* the card orphan triage creates for a pull request
  IssueCard,     \* the card an issue's own sync creates
  Matches,       \* existing cards the fuzzy pipeline may decide on
  Regimes        \* the circumstances to consider, see Regime

Budget == [refusals : Nat,   \* Plaky refuses this many writes
           lost     : Nat,   \* this many snapshots are lost
           restarts : Nat,   \* the poller starts anew and catches up on a pull request
           byHand   : Nat]   \* a person moves a completed card back this often

(* A regime says how deliveries behave, where things start from, and what *)
(* bounds them.                                                           *)
Regime ==
  [inOrder : BOOLEAN,            \* snapshots of a pull request are handled in GitHub's order
   sweeps  : BOOLEAN,            \* the reconciliation sweep runs
   texts   : SUBSET Statements,  \* what authors write
   mapped  : SUBSET Issues,      \* issues that have their card from the start
   matches : SUBSET Matches,     \* cards the fuzzy pipeline decides on
   maxAt   : [Prs -> Nat],       \* changes of each pull request
   budget  : Budget]

ASSUME LinksAssumption ==
  /\ Statements \subseteq [body : SUBSET Issues, title : SUBSET Issues, branch : SUBSET Issues]
  /\ Statements # {}
  /\ IsFiniteSet(Cards)
  /\ OwnCard \in [Prs -> Cards] /\ IssueCard \in [Issues -> Cards]
  /\ \A p, q \in Prs : OwnCard[p] = OwnCard[q] => p = q
  /\ \A p \in Prs : OwnCard[p] \notin Matches /\ \A i \in Issues : OwnCard[p] # IssueCard[i]
  /\ Matches \subseteq Cards /\ Regimes \subseteq Regime

VARIABLES
  regime,     \* the circumstances, fixed
  github,     \* each pull request as GitHub has it: state, statement, updated_at
  inbox,      \* snapshots sent and not handled
  matching,   \* snapshots whose pipeline is running
  links,      \* table pr_task_links
  cardOf,     \* table issue_task_map
  triaged,    \* pull requests with a pr_ambiguous_triage row in sync_logs
  mergeLog,   \* <<pull request, card>> with a pr_merged row in sync_logs
  board,      \* the cards' places on the Plaky board
  said,       \* history: the issues each pull request's body has ever named
  budget      \* what is left of the bounds

service == <<links, cardOf, triaged, mergeLog, board>>
vars == <<regime, github, inbox, matching, links, cardOf, triaged, mergeLog, board, said, budget>>

Places     == {"open", "needs_qa", "completed"}
PrStates   == {"none", "open", "closed", "merged"}
Kinds      == {"opened", "edited", "reopened", "closed", "sweep", "replayed"}
Delivery   == [pr : Prs, kind : Kinds, state : PrStates, text : Statements, at : Nat]

TypeOK ==
  /\ regime \in Regimes
  /\ github \in [Prs -> [state : PrStates, text : Statements, at : Nat]]
  /\ inbox \subseteq Delivery /\ matching \subseteq Delivery
  /\ links \in Table
  /\ cardOf \in [Issues -> Cards \cup {NoCard}]
  /\ triaged \subseteq Prs
  /\ mergeLog \subseteq Prs \X Cards
  /\ board \in [Cards -> Places]
  /\ said \in [Prs -> SUBSET Issues]
  /\ budget \in Budget

Init ==
  /\ regime \in Regimes
  /\ github = [p \in Prs |-> [state |-> "none", text |-> CHOOSE s \in Statements : TRUE, at |-> 0]]
  /\ inbox = {} /\ matching = {}
  /\ links = [k \in Keys |-> NoRow]
  /\ cardOf = [i \in Issues |-> IF i \in regime.mapped THEN IssueCard[i] ELSE NoCard]
  /\ triaged = {} /\ mergeLog = {}
  /\ board = [c \in Cards |-> "open"]
  /\ said = [p \in Prs |-> {}]
  /\ budget = regime.budget

-----------------------------------------------------------------------------
(* What a snapshot says about issues (services/issue_handler.py). *)

Written(d)    == d.text.body \cup d.text.title
Referenced(d) == IF Written(d) = {} THEN d.text.branch ELSE Written(d)

IssueLinkSource(d) ==
  [i \in Issues |-> IF i \in d.text.body THEN "issue_keyword"
                    ELSE IF i \in Written(d) THEN "issue_keyword_title" ELSE "branch_ref"]

(* Mutation: issues without a card are not filtered out. *)
AnyIssue(is) == is

HasCard(is) == {i \in is : cardOf[i] # NoCard}

(* The first issue a pull request names; the body is read before the title. *)
FirstWritten(d) == IF d.text.body # {} THEN d.text.body ELSE d.text.title

-----------------------------------------------------------------------------
(* Places on the board. *)

(* Mutation: a re-run asks for QA whatever the card's place. *)
LateAlways(place) == "needs_qa"

(* status_would_move_backwards lets a re-run ask for QA only from before it. *)
LateNeedsQa(place) == IF place = "open" THEN "needs_qa" ELSE place

(* The open pipeline's status writes on the cards cs. *)
AskForQa(bd, cs, late) ==
  [c \in Cards |-> IF c \in cs THEN IF late THEN LateNeedsQa(bd[c]) ELSE "needs_qa" ELSE bd[c]]

OutOfReview(bd, cs) ==
  [c \in Cards |-> IF c \in cs /\ bd[c] = "needs_qa" THEN "open" ELSE bd[c]]

-----------------------------------------------------------------------------
(* The handlers, as functions of the registry table. *)

(* _ensure_links_live *)
EnsureLinksLive(table, d) ==
  IF d.state = "open" THEN Revive(table, d.pr, d.at) ELSE table

Attached(table, d, is) == {i \in is : table[<<d.pr, i>>].source # Superseded}

(* handle_pr_opened up to the matching: the table with the named issues linked. *)
OpenedTable(table, d) ==
  LinkIssues(EnsureLinksLive(table, d), d.pr, HasCard(Referenced(d)), cardOf, IssueLinkSource(d))

OpenedCards(table, d) ==
  {cardOf[i] : i \in Attached(OpenedTable(table, d), d, HasCard(Referenced(d)))}

(* reconcile_pr_issue_links: the rows it reads, and what it decides. *)
IssueRows(table, p)  == {i \in Issues : Driving(table[<<p, i>>])}
HasStandalone(table, p) == Driving(table[<<p, Standalone>>])

(* Mutation: settled issue links hide a standalone card that is still live. *)
NothingToReconcileEarly(table, d) ==
  \/ Referenced(d) = {}
  \/ IssueRows(table, d.pr) = Referenced(d)
  \/ Written(d) = {} /\ (IssueRows(table, d.pr) # {} \/ HasStandalone(table, d.pr))

NothingToReconcile(table, d) ==
  \/ Referenced(d) = {}
  \/ IssueRows(table, d.pr) = Referenced(d) /\ ~HasStandalone(table, d.pr)
  \/ Written(d) = {} /\ (IssueRows(table, d.pr) # {} \/ HasStandalone(table, d.pr))

NewlyNamed(table, d) == HasCard(Referenced(d)) \ IssueRows(table, d.pr)

Relinked(table, d) ==
  LinkIssues(table, d.pr, NewlyNamed(table, d), cardOf, IssueLinkSource(d))

(* The issues whose links stand after the edit. *)
StillLinked(table, d) ==
  Attached(Relinked(table, d), d, NewlyNamed(table, d)) \cup (IssueRows(table, d.pr) \cap Referenced(d))

(* Mutation: old links go as soon as another issue is named, card or no card. *)
RetiredSlotsEagerly(table, d) ==
  IF Written(d) = {} THEN {}
  ELSE {i \in IssueRows(table, d.pr) : i \notin Referenced(d)}
       \cup {s \in {Standalone} : HasStandalone(table, d.pr)}

RetiredSlots(table, d) ==
  IF Written(d) = {} \/ StillLinked(table, d) = {} THEN {}
  ELSE {i \in IssueRows(table, d.pr) : i \notin Referenced(d)}
       \cup {s \in {Standalone} : HasStandalone(table, d.pr)}

Reconciled(table, d) ==
  IF NothingToReconcile(table, d) THEN table
  ELSE Retire(Relinked(table, d), {d.pr} \X RetiredSlots(table, d))

(* _retire_superseded_task rewinds a card this pull request opened. *)
RewoundCards(table, d) ==
  LET row == table[<<d.pr, Standalone>>]
  IN {c \in {row.card} : /\ Standalone \in RetiredSlots(table, d)
                         /\ row.source \in PrOwned
                         /\ \A i \in StillLinked(table, d) : Relinked(table, d)[<<d.pr, i>>].card # c}

ReconciledBoard(table, d) ==
  IF NothingToReconcile(table, d) THEN board
  ELSE OutOfReview(AskForQa(board, {cardOf[i] : i \in Attached(Relinked(table, d), d, NewlyNamed(table, d))},
                            TRUE),
                   RewoundCards(table, d))

(* handle_pr_merged: links what the author wrote, then stamps every row. *)
LinkedAtMerge(d) == LinkIssues(links, d.pr, HasCard(Written(d)), cardOf, IssueLinkSource(d))
MergedTable(d)   == MarkMerged(LinkedAtMerge(d), d.pr)
MergedRows(d)    == {LinkedAtMerge(d)[k] : k \in NewlyMerged(LinkedAtMerge(d), d.pr)}

AffectedCards(d) == {r.card : r \in MergedRows(d)} \cup {cardOf[i] : i \in HasCard(Written(d))}

(* The pull request's own card also answers to an issue the body does not close. *)
ClaimedElsewhere(d) ==
  {r.card : r \in {q \in MergedRows(d) : q.source \in PrOwned /\
                     \E i \in Issues \ d.text.body : cardOf[i] = q.card}}

(* Mutation: every linked card is one the author said this merge finishes. *)
AffectedAsStated(d) == AffectedCards(d)

StatedCards(d) ==
  ({r.card : r \in {q \in MergedRows(d) : q.source \notin Weak}} \ ClaimedElsewhere(d))
  \cup {cardOf[i] : i \in HasCard(d.text.body)}

(* Mutation: the sync log is not asked whether this merge was applied before. *)
DueEveryTime(d) ==
  {c \in AffectedCards(d) \cap StatedCards(d) : ~HasAnyOpenPr(MergedTable(d), c)}

(* Mutation: the gate reads the table as it was before the merge was stamped. *)
DueBeforeStamping(d) ==
  {c \in AffectedCards(d) \cap StatedCards(d) :
     ~HasAnyOpenPr(LinkedAtMerge(d), c) /\ <<d.pr, c>> \notin mergeLog}

DueCards(d) ==
  {c \in AffectedCards(d) \cap StatedCards(d) :
     ~HasAnyOpenPr(MergedTable(d), c) /\ <<d.pr, c>> \notin mergeLog}

-----------------------------------------------------------------------------
(* The handlers as steps.  Every one leaves the environment alone. *)

Late(d) == d.kind # "opened"

OpenPipeline(table, bd, d) ==
  /\ links' = OpenedTable(table, d)
  /\ board' = AskForQa(bd, OpenedCards(table, d), Late(d))
  /\ matching' = IF TasksOf(OpenedTable(table, d), d.pr) = {} THEN matching \cup {d} ELSE matching
  /\ UNCHANGED <<cardOf, triaged, mergeLog>>

HandleOpened(d) == OpenPipeline(links, board, d)

HandleEdited(d) ==
  LET live == EnsureLinksLive(links, d)
      after == Reconciled(live, d)
  IN IF d.state # "open" THEN UNCHANGED <<service, matching>>
     ELSE IF TasksOf(after, d.pr) = {} THEN OpenPipeline(after, ReconciledBoard(live, d), d)
     ELSE /\ links' = after
          /\ board' = ReconciledBoard(live, d)
          /\ UNCHANGED <<cardOf, triaged, mergeLog, matching>>

HandleClosedWithoutMerge(d) ==
  LET after == MarkWithdrawn(links, d.pr, d.at)
  IN /\ links' = after
     /\ board' = OutOfReview(board, {c \in TasksOf(links, d.pr) : ~HasAnyOpenPr(after, c)})
     /\ UNCHANGED <<cardOf, triaged, mergeLog, matching>>

(* Plaky may refuse the writes of some of the cards that are due. *)
HandleMerged(d) ==
  \E refused \in SUBSET DueCards(d) :
    LET done == DueCards(d) \ refused
    IN /\ Cardinality(refused) <= budget.refusals
       /\ links' = MergedTable(d)
       /\ board' = [c \in Cards |-> IF c \in done THEN "completed" ELSE board[c]]
       /\ mergeLog' = mergeLog \cup ({d.pr} \X done)
       /\ budget' = [budget EXCEPT !.refusals = @ - Cardinality(refused)]
       /\ UNCHANGED <<cardOf, triaged, matching>>

(* reconcile_repo, for one pull request of the listing. *)
HandleSweep(d) ==
  IF TasksOf(links, d.pr) = {}
  THEN IF d.state = "open" THEN HandleOpened(d) ELSE UNCHANGED <<service, matching>>
  ELSE IF d.state = "open" THEN HandleEdited(d)
  ELSE HandleClosedWithoutMerge(d)

(* Where dispatch_github_event, the poller and the sweep send a snapshot. *)
Dispatch(d) ==
  \/ d.kind \in {"opened", "reopened", "replayed"} /\ HandleOpened(d) /\ UNCHANGED budget
  \/ d.kind = "edited" /\ HandleEdited(d) /\ UNCHANGED budget
  \/ d.kind = "closed" /\ d.state = "merged" /\ HandleMerged(d)
  \/ d.kind = "closed" /\ d.state # "merged" /\ HandleClosedWithoutMerge(d) /\ UNCHANGED budget
  \/ d.kind = "sweep" /\ d.state = "merged" /\ TasksOf(links, d.pr) # {} /\ HandleMerged(d)
  \/ /\ d.kind = "sweep" /\ (d.state # "merged" \/ TasksOf(links, d.pr) = {})
     /\ HandleSweep(d) /\ UNCHANGED budget

(* After replaying `opened` the poller hands over the close of the same listing. *)
FollowUp(d) ==
  IF d.kind = "replayed" /\ d.state # "open" THEN {[d EXCEPT !.kind = "closed"]} ELSE {}

Pending(p) == {d \in inbox : d.pr = p}
Matching(p) == {d \in matching : d.pr = p}

Handle(d) ==
  /\ d \in inbox
  /\ regime.inOrder => /\ \A e \in Pending(d.pr) : d.at <= e.at
                       /\ Matching(d.pr) = {}
  /\ Dispatch(d)
  /\ inbox' = (inbox \ {d}) \cup (IF matching' = matching THEN FollowUp(d) ELSE {})
  /\ UNCHANGED <<regime, github, said>>

-----------------------------------------------------------------------------
(* The end of a matching: a fuzzy link, a card of its own, or nothing. *)

EndMatching(d) ==
  /\ d \in matching
  /\ matching' = matching \ {d}
  /\ inbox' = inbox \cup FollowUp(d)
  /\ UNCHANGED <<regime, github, said>>

FuzzyLink(d, c) ==
  LET k == <<d.pr, Standalone>>
      row == Upserted(links[k], c, "auto_link")
  IN /\ EndMatching(d)
     /\ Written(d) = {}
     /\ links' = [links EXCEPT ![k] = row]
     /\ board' = IF row.source = Superseded THEN board ELSE AskForQa(board, {c}, Late(d))
     /\ UNCHANGED <<cardOf, triaged, mergeLog, budget>>

(* _maybe_triage_ambiguous_pr goes ahead; the reservation's key was free. *)
Triages(d) ==
  d.state = "open" /\ d.pr \notin triaged /\ links[<<d.pr, Standalone>>] = NoRow

TriageCreates(d) ==
  /\ EndMatching(d) /\ Triages(d)
  /\ links' = [links EXCEPT ![<<d.pr, Standalone>>] =
                 [NoRow EXCEPT !.source = "pr_task_created", !.card = OwnCard[d.pr]]]
  /\ board' = [board EXCEPT ![OwnCard[d.pr]] = "needs_qa"]
  /\ triaged' = triaged \cup {d.pr}
  /\ \/ FirstWritten(d) = {} /\ UNCHANGED cardOf
     \/ \E i \in FirstWritten(d) :
          cardOf' = [cardOf EXCEPT ![i] = IF @ = NoCard THEN OwnCard[d.pr] ELSE @]
  /\ UNCHANGED <<mergeLog, budget>>

TriageRefused(d) ==
  /\ EndMatching(d) /\ Triages(d)
  /\ budget.refusals > 0
  /\ budget' = [budget EXCEPT !.refusals = @ - 1]
  /\ UNCHANGED service

TriageSkips(d) == EndMatching(d) /\ ~Triages(d) /\ UNCHANGED <<service, budget>>

Match(d) ==
  \/ \E c \in regime.matches : FuzzyLink(d, c)
  \/ TriageCreates(d) \/ TriageRefused(d) \/ TriageSkips(d)

-----------------------------------------------------------------------------
(* The environment: GitHub, a person at the board, the other components. *)

Snapshot(p, kind) ==
  [pr |-> p, kind |-> kind, state |-> github[p].state, text |-> github[p].text, at |-> github[p].at]

Change(p, kind, state, text) ==
  /\ github[p].at < regime.maxAt[p]
  /\ github' = [github EXCEPT ![p] = [state |-> state, text |-> text, at |-> @.at + 1]]
  /\ inbox' = inbox \cup {[pr |-> p, kind |-> kind, state |-> state, text |-> text,
                           at |-> github[p].at + 1]}
  /\ said' = [said EXCEPT ![p] = @ \cup text.body]
  /\ UNCHANGED <<regime, service, matching, budget>>

Open(p, s)  == github[p].state = "none" /\ Change(p, "opened", "open", s)
Edit(p, s)  == github[p].state \in {"open", "closed"} /\ Change(p, "edited", github[p].state, s)
Close(p)    == github[p].state = "open" /\ Change(p, "closed", "closed", github[p].text)
Reopen(p)   == github[p].state = "closed" /\ Change(p, "reopened", "open", github[p].text)
Merge(p)    == github[p].state = "open" /\ Change(p, "closed", "merged", github[p].text)

Sweep(p) ==
  /\ regime.sweeps /\ github[p].state # "none"
  /\ inbox' = inbox \cup {Snapshot(p, "sweep")}
  /\ UNCHANGED <<regime, github, matching, service, said, budget>>

(* A restarted poller finds p in its listing and takes it for new. *)
CatchUp(p) ==
  /\ budget.restarts > 0 /\ github[p].state # "none"
  /\ budget' = [budget EXCEPT !.restarts = @ - 1]
  /\ inbox' = inbox \cup {Snapshot(p, "replayed")}
  /\ UNCHANGED <<regime, github, matching, service, said>>

Lose(d) ==
  /\ d \in inbox /\ budget.lost > 0
  /\ inbox' = inbox \ {d}
  /\ budget' = [budget EXCEPT !.lost = @ - 1]
  /\ UNCHANGED <<regime, github, matching, service, said>>

(* handle_issue_opened gives an issue a card of its own. *)
SyncIssue(i) ==
  /\ cardOf[i] = NoCard
  /\ cardOf' = [cardOf EXCEPT ![i] = IssueCard[i]]
  /\ UNCHANGED <<regime, github, inbox, matching, links, triaged, mergeLog, board, said, budget>>

MoveByHand(c) ==
  /\ board[c] = "completed" /\ budget.byHand > 0
  /\ board' = [board EXCEPT ![c] = "open"]
  /\ budget' = [budget EXCEPT !.byHand = @ - 1]
  /\ UNCHANGED <<regime, github, inbox, matching, links, cardOf, triaged, mergeLog, said>>

GitHubStep(p) ==
  \/ \E s \in regime.texts : Open(p, s) \/ Edit(p, s)
  \/ Close(p) \/ Reopen(p) \/ Merge(p)

Next ==
  \/ \E p \in Prs : GitHubStep(p) \/ Sweep(p) \/ CatchUp(p)
  \/ \E d \in inbox : Handle(d) \/ Lose(d)
  \/ \E d \in matching : Match(d)
  \/ \E i \in Issues : SyncIssue(i)
  \/ \E c \in Cards : MoveByHand(c)

Spec == Init /\ [][Next]_vars

(* Every source of snapshots is served, matchings end, and the sweep comes *)
(* round again.  Changes are finitely many, so what the webhooks of one    *)
(* pull request bring needs no fairness among themselves.                  *)
Sources == {{"opened", "edited", "reopened", "closed"}, {"sweep"}, {"replayed"}}

Fairness ==
  \A p \in Prs : /\ \A kinds \in Sources : WF_vars(\E d \in Pending(p) : d.kind \in kinds /\ Handle(d))
                 /\ WF_vars(\E d \in Matching(p) : Match(d))
                 /\ WF_vars(Sweep(p))

FairSpec == Spec /\ Fairness

-----------------------------------------------------------------------------
(* Properties. *)

(* A card retired because its pull request named an issue never counts as   *)
(* an open pull request's card: the merge gate asks only for the two dates. *)
SupersededIsWithdrawn ==
  \A k \in Keys : links[k].source = Superseded => links[k].withdrawn

(* Once a pull request has been linked, its reviews, comments and merge     *)
(* always have a card to go to: no edit, relink or redelivery strands it.   *)
NeverStranded ==
  \A p \in Prs : (\E s \in Slots : links[<<p, s>>] # NoRow) => TasksOf(links, p) # {}

(* The card opened for a pull request stays on its row, as that pull        *)
(* request's own or as a retired one: the row is the only reference to it.  *)
OwnCardIsKept ==
  \A p \in triaged :
    LET row == links[<<p, Standalone>>]
    IN row.card = OwnCard[p] /\ row.source \in PrOwned \cup {Superseded}

Quiet(p) == Pending(p) = {} /\ Matching(p) = {}

(* When everything that happened to a pull request has been handled, in     *)
(* order, its links say what GitHub says: open, closed or merged.           *)
RegistryAgrees(p) ==
  \A s \in Slots :
    LET row == links[<<p, s>>]
    IN Driving(row) => CASE github[p].state = "open"   -> Active(row)
                         [] github[p].state = "closed" -> row.withdrawn /\ ~row.merged
                         [] github[p].state = "merged" -> row.merged
                         [] OTHER -> FALSE

ToldInOrder == regime.inOrder /\ regime.budget.restarts = 0 /\ regime.budget.lost = 0

CaughtUp ==
  ToldInOrder =>
    \A p \in Prs : Quiet(p) => RegistryAgrees(p)

(* The case of it that the merge gate of every other pull request of the    *)
(* card depends on, with a poller that restarts: a closed pull request      *)
(* holds no live link.                                                      *)
ClosedHoldsNoLiveLink ==
  \A p \in Prs : Quiet(p) /\ github[p].state = "closed" =>
                   \A s \in Slots : ~Active(links[<<p, s>>])

(* A merge completes no card that also belongs to a pull request which is   *)
(* open on GitHub and about which the service has been told everything, in  *)
(* order.                                                                   *)
MergeWaitsForOthers ==
  [][\A c \in Cards :
       ToldInOrder /\ board[c] # "completed" /\ board'[c] = "completed" =>
       \A p \in Prs : Quiet(p) /\ github[p].state = "open" => c \notin TasksOf(links', p)]_vars

(* A merge completes an issue's card only if the pull request's body has    *)
(* named the issue: not for a title or a branch name, and not for having    *)
(* opened the card itself.                                                  *)
CompletionWasStated ==
  \A e \in mergeLog : (\E i \in Issues : cardOf[i] = e[2]) /\ e[2] \notin Matches =>
                        \E i \in said[e[1]] : cardOf[i] = e[2]

(* In order, the registry says what GitHub says, and what completes a card was *)
(* said by the pull request.                                                   *)
RegistryIsTold == CaughtUp /\ CompletionWasStated

(* A card leaves `completed` only by a person's hand or by a pull request   *)
(* that is new to the service: replays, sweeps, edits and closes leave it.  *)
VerdictStands ==
  [][\A c \in Cards : board[c] = "completed" /\ board'[c] # "completed" =>
       \/ budget'.byHand < budget.byHand
       \/ \E d \in (inbox \ inbox') \cup (matching \ matching') : d.kind = "opened"]_vars

(* A card is completed by a merge that has not been applied before: a       *)
(* replay of it does not undo what a person decided since.                  *)
MergeSpeaksOnce ==
  [][\A c \in Cards : board[c] # "completed" /\ board'[c] = "completed" =>
       \E p \in Prs : <<p, c>> \in mergeLog' \ mergeLog]_vars

(* Whatever was lost, delayed or reordered, the sweep makes the registry    *)
(* agree with GitHub in the end.                                            *)
EventuallyAgrees == <>[](\A p \in Prs : RegistryAgrees(p))

(* The body's closing keyword, once GitHub acted on it, completes the card  *)
(* the issue had, when no other pull request of the card is left open.      *)
MustComplete(p, i) ==
  github[p].state = "merged" /\ i \in github[p].text.body \cap regime.mapped
  /\ \A q \in Prs : github[q].state = "open" => cardOf[i] \notin TasksOf(links, q)

MergedWorkCompletes ==
  \A p \in Prs : \A i \in Issues :
    []<>(MustComplete(p, i) => <<p, cardOf[i]>> \in mergeLog)

(* A pull request that names issues drives no card of its own beside theirs *)
(* for ever.                                                                *)
DrivesTwo(p) ==
  /\ github[p].state = "open" /\ Written(github[p]) # {}
  /\ HasStandalone(links, p) /\ IssueRows(links, p) # {}

OneWorkItem == \A p \in Prs : []<>(~DrivesTwo(p))
=============================================================================
