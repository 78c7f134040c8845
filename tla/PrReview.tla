------------------------------ MODULE PrReview ------------------------------
(***************************************************************************)
(* The review of one pull request on the board: reviews, comments, pushes, *)
(* drafts and its end move the cards it drives                             *)
(* (boardman/services/pr_review_handler.py and the later half of           *)
(* boardman/services/pr_handler.py).                                       *)
(*                                                                         *)
(* A handler first looks (at the cards, and at GitHub where it asks), and  *)
(* then writes: other handlers, and people on GitHub, come between the two *)
(* steps.  The cards are linked from the start; linking is PrLinks'.  The  *)
(* pull request is not reopened, nobody moves cards by hand, and Plaky     *)
(* answers.  Refused writes are not repeated by this code.  All statuses   *)
(* are found on the board's schema, none is configured by name.            *)
(***************************************************************************)
EXTENDS Naturals, Sequences, SequencesExt, FiniteSets

CONSTANTS
  Workers,         \* handlers at work at a time
  Developer,       \* the author of the pull request
  People,
  Bots,            \* accounts whose login ends in [bot]
  ReviewCards,     \* the cards the pull request drives
  AssignedTo,      \* the tester in each card's QA column
  EscalateAfter,   \* _COMMITS_SINCE_REVIEW_ESCALATION_THRESHOLD
  ReviewRegimes,   \* the circumstances to consider, see ReviewRegime
  Keep             \* a handler's plan for a card it leaves where it is

Verdicts == {"verified", "rejected"}
Queues   == {"needs_qa", "needs_qa_again", "in_qa"}
BoardPlaces ==
  Verdicts \cup Queues \cup {"assigned", "in_progress", "paused", "completed", "deployed"}

ReviewKinds  == {"approved", "changes", "commented"}      \* a submitted review's state
CommentKinds == {"comment", "pause", "mention"}           \* what a comment says
PullKinds    == {"pushed", "draft", "ready", "unrequested", "closed", "merged"}
AllKinds     == ReviewKinds \cup CommentKinds \cup PullKinds \cup {"dismissed", "inline", "deployed"}

ReviewBudget == [changes : Nat,   \* what happens on GitHub
                 repeats : Nat,   \* events delivered again
                 unread  : Nat]   \* handlers GitHub does not answer

ReviewRegime ==
  [workers : SUBSET Workers,
   inOrder : BOOLEAN,             \* events are handled in GitHub's order
   happen  : SUBSET (AllKinds \cup {"rewritten"}),   \* what happens
   people  : SUBSET People,       \* who speaks
   qaSide  : SUBSET People,       \* the support team and the roster, taken to be one
   cards   : SUBSET ReviewCards,
   again   : BOOLEAN,             \* the board has a column Needs QA Again
   budget  : ReviewBudget]

ASSUME ReviewAssumption ==
  /\ Developer \in People /\ Bots \subseteq People
  /\ AssignedTo \in [ReviewCards -> People]
  /\ EscalateAfter \in Nat /\ IsFiniteSet(Workers)
  /\ Keep \notin BoardPlaces
  /\ ReviewRegimes \subseteq ReviewRegime

VARIABLES
  reviewRegime,  \* the circumstances, fixed
  head,          \* the pull request on GitHub
  mail,          \* events sent and not handled
  handling,      \* what each worker has in hand
  place,         \* the cards' places on the board
  link,          \* the rows of pr_task_links
  announced,     \* whether sync_logs has the pr_merged rows
  past,          \* history
  left           \* what is left of the bounds

reviewVars == <<reviewRegime, head, mail, handling, place, link, announced, past, left>>

Mail  == [kind : AllKinds, who : People, commits : Nat]
Plans == [ReviewCards -> BoardPlaces \cup {Keep}]
Idle  == [busy |-> FALSE]

ReviewTypeOK ==
  /\ reviewRegime \in ReviewRegimes
  /\ head.state \in {"draft", "ready", "closed", "merged"} /\ head.commits \in Nat
  /\ head.green \in BOOLEAN
  /\ mail \in Seq(Mail)
  /\ handling \in [Workers -> {Idle} \cup
       [busy : {TRUE}, event : Mail, plan : Plans, answered : BOOLEAN]]
  /\ place \in [ReviewCards -> BoardPlaces]
  /\ link.state \in {"live", "withdrawn", "merged"}
  /\ link.reviewed \in BOOLEAN /\ link.baseline \in Nat
  /\ announced \in BOOLEAN
  /\ past.approvals \subseteq People /\ past.judged \in Nat
  /\ past.asked \in BOOLEAN /\ past.spoken \in BOOLEAN /\ past.overtaken \in BOOLEAN
  /\ past.rewritten \in BOOLEAN
  /\ left \in ReviewBudget

ReviewInit ==
  /\ reviewRegime \in ReviewRegimes
  /\ \E state \in {"draft", "ready"} :
       /\ head = [state |-> state, commits |-> 1, green |-> TRUE]
       /\ place = [c \in ReviewCards |-> IF state = "draft" THEN "assigned" ELSE "needs_qa"]
  /\ mail = <<>>
  /\ handling = [w \in Workers |-> Idle]
  /\ link = [state |-> "live", reviewed |-> FALSE, baseline |-> 0]
  /\ announced = FALSE
  /\ past = [approvals |-> {}, judged |-> 0, asked |-> FALSE, spoken |-> FALSE,
             overtaken |-> FALSE, rewritten |-> FALSE]
  /\ left = reviewRegime.budget

-----------------------------------------------------------------------------
(* What the handlers ask.  A read of GitHub that fails says: the checks    *)
(* are green, the pull request is not merged, its author is unknown.       *)

Failing(answered)        == answered /\ ~head.green
MergedOnGitHub(answered) == answered /\ head.state = "merged"
AuthorKnown(answered)    == answered

OnQaSide(who) == who \in reviewRegime.qaSide
Linked        == reviewRegime.cards
Assigned(who) == {c \in Linked : AssignedTo[c] = who}
FirstCard     == CHOOSE c \in Linked : TRUE
At(places)    == {c \in Linked : place[c] \in places}

To(there, cs) == [c \in ReviewCards |-> IF c \in cs THEN there ELSE Keep]
Nothing       == To("paused", {})

(* Mutation: the intent is written, not the board's column for it. *)
AgainByName == "again"

(* A board without a column Needs QA Again uses Needs QA. *)
NeedsQaAgain == IF reviewRegime.again THEN "needs_qa_again" ELSE "needs_qa"

-----------------------------------------------------------------------------
(* Each handler's plan: where it will put which cards. *)

(* handle_pull_request_review.  An approval counts whoever gives it, a *)
(* refusal on the cards the reviewer is assigned to.                   *)
ReviewPlan(e, answered) ==
  CASE e.kind = "approved"  -> IF Failing(answered) THEN Nothing ELSE To("verified", Linked)
    [] e.kind = "changes"   -> To("rejected", Assigned(e.who))
    [] e.kind = "commented" ->
         IF OnQaSide(e.who) \/ AssignedTo[FirstCard] = e.who THEN To("in_qa", Linked) ELSE Nothing

(* _handle_review_dismissed *)
DismissedPlan(e) == To("in_qa", At({"verified"}))

(* Mutation: the pull request's end is not asked for. *)
ResumableAnyway(e, answered) == IF Assigned(e.who) # {} THEN {} ELSE At(Verdicts)

(* The cards a comment takes back into work: after a verdict, by somebody *)
(* not assigned to them, as long as there is work to resume.              *)
Resumable(e, answered) ==
  IF Assigned(e.who) # {} \/ MergedOnGitHub(answered) THEN {} ELSE At(Verdicts)

StartsQa(e, answered) ==
  \/ Assigned(e.who) # {}
  \/ OnQaSide(e.who) /\ AuthorKnown(answered) /\ e.who # Developer

(* handle_issue_comment_on_pr *)
CommentPlan(e, answered) ==
  IF e.who \in Bots THEN Nothing
  ELSE IF e.kind = "pause" THEN To("paused", Linked)
  ELSE IF e.kind = "mention" /\ ~OnQaSide(e.who) THEN To(NeedsQaAgain, Linked)
  ELSE IF Resumable(e, answered) # {} THEN To("in_progress", Resumable(e, answered))
  ELSE IF StartsQa(e, answered) THEN To("in_qa", Linked)
  ELSE Nothing

(* handle_pr_review_comment, a comment on a line of code. *)
InlinePlan(e) == IF e.who \in Bots THEN Nothing ELSE To("in_qa", Assigned(e.who))

(* Mutation: a push does not touch an approval. *)
PushedOnRejected(e) ==
  IF link.state = "live" /\ link.reviewed /\ e.commits > link.baseline
  THEN To("in_progress", At({"rejected"})) ELSE Nothing

(* handle_pr_synchronized *)
PushedPlan(e) ==
  IF link.state # "live" \/ ~link.reviewed \/ e.commits <= link.baseline THEN Nothing
  ELSE To(IF e.commits > link.baseline + EscalateAfter THEN NeedsQaAgain ELSE "in_progress",
          At(Verdicts \cup {"in_progress"}))

(* handle_pr_review_requested, for review_request_removed *)
UnrequestedPlan == To("needs_qa", Linked \ At({"verified", "completed"}))

(* handle_pr_closed_without_merge: no other pull request drives the cards. *)
ClosedPlan == To("in_progress", At(Queues))

(* Mutation: a draft leaves its cards in the queue. *)
DraftWaits == Nothing

(* handle_pr_converted_to_draft, handle_pr_ready_for_review *)
DraftPlan == To("in_progress", At({"needs_qa"}))
ReadyPlan == To("needs_qa", Linked)

(* handle_pr_merged: once, and all other pull requests are done. *)
MergedPlan == IF announced THEN Nothing ELSE To("completed", Linked)

(* handle_deployment_status, on a board with such a column. *)
DeployedPlan == To("deployed", Linked)

PlanFor(e, answered) ==
  CASE e.kind \in ReviewKinds  -> ReviewPlan(e, answered)
    [] e.kind = "dismissed"    -> DismissedPlan(e)
    [] e.kind \in CommentKinds -> CommentPlan(e, answered)
    [] e.kind = "inline"       -> InlinePlan(e)
    [] e.kind = "pushed"       -> PushedPlan(e)
    [] e.kind = "draft"        -> DraftPlan
    [] e.kind = "ready"        -> ReadyPlan
    [] e.kind = "unrequested"  -> UnrequestedPlan
    [] e.kind = "closed"       -> ClosedPlan
    [] e.kind = "merged"       -> MergedPlan
    [] e.kind = "deployed"     -> DeployedPlan

-----------------------------------------------------------------------------
(* A handler looks: it takes an event, which may be delivered once more. *)
Looks(w, i) ==
  LET e == mail[i] IN
  /\ ~handling[w].busy
  /\ reviewRegime.inOrder => i = 1
  /\ \E answered \in BOOLEAN :
       /\ handling' = [handling EXCEPT ![w] =
            [busy |-> TRUE, event |-> e, plan |-> PlanFor(e, answered), answered |-> answered]]
       /\ \/ /\ mail' = RemoveAt(mail, i)
             /\ IF answered THEN UNCHANGED left
                ELSE left.unread > 0 /\ left' = [left EXCEPT !.unread = @ - 1]
          \/ /\ answered /\ left.repeats > 0
             /\ left' = [left EXCEPT !.repeats = @ - 1]
             /\ UNCHANGED mail
  /\ UNCHANGED <<reviewRegime, head, place, link, announced, past>>

GivesVerdict(job) ==
  job.event.kind \in {"approved", "changes"} /\ \E c \in ReviewCards : job.plan[c] # Keep

(* Mutation: the verdict is recorded, the commits it is about are not. *)
StampsNothing(job) == link

(* stamp_commits_at_last_review (the count asked for now), mark_pr_withdrawn, *)
(* mark_pr_merged.                                                            *)
LinkAfter(job) ==
  CASE GivesVerdict(job) /\ job.answered /\ link.state = "live" ->
         [link EXCEPT !.reviewed = TRUE, !.baseline = head.commits]
    [] job.event.kind = "closed" /\ link.state = "live" -> [link EXCEPT !.state = "withdrawn"]
    [] job.event.kind = "merged" -> [link EXCEPT !.state = "merged"]
    [] OTHER -> link

(* The handler writes, and commits. *)
Writes(w) ==
  LET job == handling[w] IN
  /\ job.busy
  /\ handling' = [handling EXCEPT ![w] = Idle]
  /\ place' = [c \in ReviewCards |-> IF job.plan[c] = Keep THEN place[c] ELSE job.plan[c]]
  /\ link' = LinkAfter(job)
  /\ announced' = (announced \/ job.event.kind = "merged")
  /\ past' = [past EXCEPT
       !.judged    = IF GivesVerdict(job) THEN head.commits ELSE @,
       !.rewritten = @ /\ ~GivesVerdict(job),
       !.overtaken = @ \/ (job.event.kind = "merged"
                              /\ \E v \in Workers \ {w} : handling[v].busy)]
  /\ UNCHANGED <<reviewRegime, head, mail, left>>

-----------------------------------------------------------------------------
(* GitHub. *)

Open == head.state \in {"draft", "ready"}

Sent(kind, who) ==
  /\ kind \in reviewRegime.happen /\ who \in reviewRegime.people
  /\ left.changes > 0 /\ left' = [left EXCEPT !.changes = @ - 1]
  /\ mail' = Append(mail, [kind |-> kind, who |-> who, commits |-> head'.commits])
  /\ UNCHANGED <<reviewRegime, handling, place, link, announced>>

(* Authors do not judge their own pull requests. *)
Reviews(kind, who) ==
  /\ kind # "commented" => who # Developer
  /\ Open
  /\ UNCHANGED head
  /\ Sent(kind, who)
  /\ past' = [past EXCEPT !.spoken = TRUE,
                          !.approvals = IF kind = "approved" THEN @ \cup {who} ELSE @]

Dismisses(who) ==
  /\ who \in past.approvals
  /\ UNCHANGED head
  /\ Sent("dismissed", who)
  /\ past' = [past EXCEPT !.approvals = @ \ {who}, !.spoken = TRUE]

Comments(kind, who) ==
  /\ UNCHANGED head
  /\ Sent(kind, who)
  /\ past' = [past EXCEPT !.spoken = TRUE, !.asked = @ \/ kind = "mention"]

Pushes ==
  /\ Open
  /\ head' = [head EXCEPT !.commits = @ + 1]
  /\ Sent("pushed", Developer)
  /\ UNCHANGED past

(* A squash or a force-push: any history that is not longer, and a push to the *)
(* handlers as well.                                                           *)
Rewrites ==
  /\ Open /\ "rewritten" \in reviewRegime.happen
  /\ \E n \in 1..head.commits : head' = [head EXCEPT !.commits = n]
  /\ Sent("pushed", Developer)
  /\ past' = [past EXCEPT !.rewritten = TRUE]

TurnsDraft ==
  /\ head.state = "ready"
  /\ head' = [head EXCEPT !.state = "draft"]
  /\ Sent("draft", Developer)
  /\ past' = [past EXCEPT !.asked = FALSE]

TurnsReady ==
  /\ head.state = "draft"
  /\ head' = [head EXCEPT !.state = "ready"]
  /\ Sent("ready", Developer)
  /\ UNCHANGED past

Unrequests ==
  /\ Open /\ UNCHANGED head
  /\ Sent("unrequested", Developer)
  /\ past' = [past EXCEPT !.asked = TRUE]

Closes(state) ==
  /\ Open
  /\ head' = [head EXCEPT !.state = state]
  /\ Sent(state, Developer)
  /\ past' = [past EXCEPT !.spoken = FALSE]

Deploys ==
  /\ head.state = "merged" /\ UNCHANGED head
  /\ Sent("deployed", Developer)
  /\ UNCHANGED past

ChecksTurn ==
  /\ Open /\ head.green /\ "approved" \in reviewRegime.happen /\ left.changes > 0
  /\ head' = [head EXCEPT !.green = FALSE]
  /\ UNCHANGED <<reviewRegime, mail, handling, place, link, announced, past, left>>

ReviewNext ==
  \/ \E w \in reviewRegime.workers :
       \/ \E i \in DOMAIN mail : Looks(w, i)
       \/ Writes(w)
  \/ \E who \in reviewRegime.people :
       \/ \E kind \in ReviewKinds : Reviews(kind, who)
       \/ \E kind \in CommentKinds \cup {"inline"} : Comments(kind, who)
       \/ Dismisses(who)
  \/ Pushes \/ Rewrites \/ TurnsDraft \/ TurnsReady \/ Unrequests
  \/ Closes("closed") \/ Closes("merged")
  \/ Deploys \/ ChecksTurn

ReviewSpec == ReviewInit /\ [][ReviewNext]_reviewVars

-----------------------------------------------------------------------------
AtRest == mail = <<>> /\ \A w \in Workers : ~handling[w].busy
Heard  == left.unread = reviewRegime.budget.unread    \* GitHub has answered all questions
Serial == Cardinality(reviewRegime.workers) = 1

(***************************************************************************)
(* A verdict on the board is about the code as it is: when all events are  *)
(* handled, no commit has come since a verdict that still shows, and after *)
(* more than EscalateAfter of them the card does not rest with the         *)
(* developer (handle_pr_synchronized, stamp_commits_at_last_review).  This *)
(* counts from when the verdict was handled.  The code compares counts of  *)
(* commits, so a history rewritten since then hides what is new until it   *)
(* is longer than the one that was judged; then it hides nothing more.     *)
(***************************************************************************)
VerdictIsCurrent ==
  AtRest /\ Heard /\ Serial /\ Open =>
    \A c \in Linked :
      /\ place[c] \in Verdicts =>
           /\ head.commits <= past.judged
           /\ ~past.rewritten => head.commits = past.judged
      /\ /\ place[c] = "in_progress" /\ past.judged > 0
         /\ head.state = "ready" /\ reviewRegime.inOrder
         => head.commits <= past.judged + EscalateAfter

(***************************************************************************)
(* "A merged PR has nothing left to resume" (handle_issue_comment_on_pr):  *)
(* no order of the events, late verdicts and comments among them, and no   *)
(* two handlers at once leave a merged pull request's card in progress,    *)
(* unless a handler had already looked when the completion was written, or *)
(* a turn to draft that is older than the merge is handled after it:       *)
(* handle_pr_converted_to_draft asks for the card's place only.            *)
(***************************************************************************)
MergedIsNotResumed ==
  /\ AtRest /\ Heard /\ head.state = "merged" /\ ~past.overtaken
  /\ "draft" \in reviewRegime.happen => reviewRegime.inOrder
  => \A c \in Linked : place[c] # "in_progress"

(* Many pushes after a verdict ask for QA, of a draft as well; on a board  *)
(* without a column Needs QA Again they do so in the column Needs QA.      *)
PushesAsk == ~reviewRegime.again /\ "pushed" \in reviewRegime.happen

(***************************************************************************)
(* The review columns follow GitHub, when events come in order: a card is  *)
(* not verified after the last approval was dismissed, it does not wait    *)
(* for QA while the pull request is a draft and nobody asked for QA since, *)
(* nor is it in review when the pull request was closed and nobody spoke   *)
(* since (_handle_review_dismissed, handle_pr_converted_to_draft,          *)
(* handle_pr_closed_without_merge).                                        *)
(***************************************************************************)
QueueFollowsGitHub ==
  AtRest /\ Heard /\ Serial /\ reviewRegime.inOrder =>
    \A c \in Linked :
      /\ place[c] = "verified" => past.approvals # {}
      /\ head.state = "draft" /\ ~past.asked /\ ~PushesAsk => place[c] # "needs_qa"
      /\ head.state = "closed" /\ ~past.spoken => place[c] \notin Queues
=============================================================================
