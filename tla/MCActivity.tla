----------------------------- MODULE MCActivity -----------------------------
(* Model-checking instances of what GitHub's activity becomes: reviews and the *)
(* turns they give, the poller's lists and feed, comments and commits on the   *)
(* cards, and what becomes of a card whose pull request is done.             *)
EXTENDS PrReview, PullFeed, CommentMirror, EventFeed, CommitFeed, Archival, PrTracker, TLC

VARIABLE atWork             (* the module at work; the others stand still *)
ActivityModules == {"reviews", "pulls", "comments", "events", "commits", "archive", "tracker"}

CONSTANTS dev, qa1, qa2, cover, bot, k1, k2, wk1, wk2, h1, h2, t1, t2, a1, a2, i1, i2

(* ------------------------------------------------------------------ reviews *)
MCAssignedTo == [c \in ReviewCards |-> IF c = k1 THEN qa1 ELSE qa2]

Calm == [changes |-> 4, repeats |-> 0, unread |-> 0]

(* Verdicts, pushes and comments in any order, one of them twice. *)
Judging ==
  [workers |-> {wk1}, inOrder |-> FALSE,
   happen |-> {"approved", "changes", "pushed", "comment", "dismissed"},
   people |-> {dev, qa1}, qaSide |-> {qa1}, cards |-> {k1}, again |-> FALSE,
   budget |-> [Calm EXCEPT !.repeats = 1]]

(* A revision of several commits, perhaps as a draft. *)
Revising ==
  [workers |-> {wk1}, inOrder |-> TRUE,
   happen |-> {"approved", "changes", "pushed", "comment", "draft", "ready"},
   people |-> {dev, qa1}, qaSide |-> {qa1}, cards |-> {k1}, again |-> TRUE,
   budget |-> [Calm EXCEPT !.changes = 5]]

(* A history that is squashed, and grows again. *)
Squashing ==
  [Revising EXCEPT !.inOrder = FALSE, !.happen = {"approved", "pushed", "rewritten"},
                   !.people = {qa1, dev}]

(* Into the queue and out of it. *)
Queueing ==
  [workers |-> {wk1}, inOrder |-> TRUE,
   happen |-> {"approved", "commented", "dismissed", "draft", "ready", "unrequested",
               "mention", "pause", "closed"},
   people |-> {dev, qa1}, qaSide |-> {qa1}, cards |-> {k1}, again |-> FALSE, budget |-> Calm]

(* The end of the pull request, in any order with what came before it. *)
Ending ==
  [workers |-> {wk1}, inOrder |-> FALSE,
   happen |-> {"approved", "pushed", "comment", "merged", "deployed"},
   people |-> {dev, qa1}, qaSide |-> {qa1}, cards |-> {k1}, again |-> FALSE,
   budget |-> [Calm EXCEPT !.repeats = 1]]

(* Two handlers at once; somebody who is QA without being assigned speaks. *)
Racing ==
  [Ending EXCEPT !.workers = {wk1, wk2}, !.people = {dev, cover}, !.qaSide = {cover},
                 !.budget = [Calm EXCEPT !.changes = 3]]

(* Two cards with a tester each, a bot, GitHub out of reach. *)
Paired ==
  [workers |-> {wk1}, inOrder |-> TRUE,
   happen |-> {"approved", "changes", "commented", "inline", "merged"},
   people |-> {dev, qa1, qa2, bot}, qaSide |-> {qa1, dev}, cards |-> {k1, k2}, again |-> FALSE,
   budget |-> [changes |-> 3, repeats |-> 0, unread |-> 1]]

ReviewCircumstances == {Judging, Revising, Squashing, Queueing, Ending, Racing, Paired}

(* -------------------------------------------------------- the list of pulls *)
Listed(s, u) == [NoPullYet EXCEPT !.state = s, !.updated = u]
PollBudget(c, p, f, r, z, pl) ==
  [changes |-> c, polls |-> p, failures |-> f, restarts |-> r, pauses |-> z, places |-> pl]
(* One pull request is known and one is to come; the watch list comes and goes. *)
Following ==
  [pulls |-> 1..2, reviewers |-> {qa1}, start |-> 3,
   hub |-> (1 :> Listed("open", 1)) @@ (2 :> Listed("none", 0)), linked |-> {1}, withdrawn |-> {},
   catchup |-> 1, page |-> 2, probes |-> 1, others |-> TRUE, budget |-> PollBudget(2, 2, 1, 1, 1, 1)]
(* A page too small for all, and more withdrawn than one cycle asks for. *)
Crowded ==
  [Following EXCEPT
     !.pulls = 1..3, !.linked = 1..3, !.withdrawn = {1, 2}, !.page = 1, !.others = FALSE,
     !.hub = (1 :> Listed("closed", 1)) @@ (2 :> Listed("closed", 2)) @@ (3 :> Listed("open", 3)),
     !.budget = PollBudget(2, 2, 1, 1, 0, 0)]
(* One pull request, closed and opened again, all within the window. *)
Recurring ==
  [Following EXCEPT !.pulls = {1}, !.hub = 1 :> Listed("open", 3), !.page = 1, !.catchup = 4,
                    !.budget = PollBudget(3, 3, 1, 1, 0, 0)]
(* Reopened off the page as a draft, found by number, and a draft no more.     *)
Straying ==
  [Crowded EXCEPT
     !.pulls = 1..2, !.reviewers = {}, !.linked = 1..2, !.withdrawn = {},
     !.hub = (1 :> Listed("closed", 3)) @@ (2 :> Listed("open", 2)),
     !.budget = PollBudget(4, 3, 0, 0, 0, 0)]
PullFeeds == {Following, Crowded, Recurring, Straying}

(* -------------------------------------------------------- comments on cards *)
MirrorBudget(a, r, u, c) == [again |-> a, refusals |-> r, unheard |-> u, crashes |-> c]
(* A comment that is edited, and edited back; "a" and "b" are its wordings. *)
Edited ==
  [handlers |-> {h1}, cards |-> {t1}, wordings |-> <<"a", "b", "a", "a">>,
   budget |-> MirrorBudget(2, 1, 0, 1)]
Overlapping ==
  [Edited EXCEPT !.handlers = {h1, h2}, !.wordings = <<"a", "b", "a">>,
                 !.budget = MirrorBudget(1, 1, 1, 0)]
OnTwoCards ==
  [Edited EXCEPT !.cards = {t1, t2}, !.wordings = <<"a", "b">>, !.budget = MirrorBudget(1, 1, 1, 1)]
Mirrored == {Edited, Overlapping, OnTwoCards}

(* --------------------------------------------------------- the events feed *)
Eventful ==
  [past |-> 1, page |-> 3, catchup |-> 2, bound |-> 4, others |-> {3},
   budget |-> [events |-> 4, hours |-> 1, polls |-> 4, restarts |-> 1]]
(* Nothing happened yet, and there is no window. *)
Bare == [Eventful EXCEPT !.past = 0, !.catchup = 0, !.others = {}, !.page = 2, !.bound = 2]
EventFeeds == {Eventful, Bare}

(* ----------------------------------------------------------------- commits *)
(* A commit on two branches that names two issues, one of which has a card;  *)
(* the process starts again, or GitHub is out of reach.                      *)
Branching ==
  [pushes |-> ("main" :> {1, 3}) @@ ("topic" :> {1, 2}), issues |-> {i1, i2},
   names |-> <<{i1}, {i1, i2}, {}>>, mapped |-> {i1}, page |-> 2, cut |-> 2, latest |-> 3,
   budget |-> [polls |-> 3, refusals |-> 1, failures |-> 0, restarts |-> 1]]
Unreached == [Branching EXCEPT !.budget.failures = 1, !.budget.restarts = 0]
(* More commits than one poll comments. *)
Piling ==
  [Branching EXCEPT !.pushes = "main" :> {1, 2, 3}, !.names = <<{i1}, {i2}, {i1}>>,
                    !.mapped = {i1, i2}, !.page = 3, !.budget.failures = 1]
(* More commits than a page of the branch shows, some while it is read.        *)
Bursting == [Piling EXCEPT !.page = 2]
Pushed == {Branching, Unreached, Piling, Bursting}

(* ----------------------------------------------------------------- archive *)
Finishing ==
  [pulls |-> {1, 2}, cards |-> {a1, a2}, existing |-> {a1}, away |-> {}, ttl |-> 1,
   budget |-> [work |-> 2, days |-> 1, passes |-> 3, failures |-> 2, crashes |-> 1]]
(* The card is not on its repository's board. *)
Astray == [Finishing EXCEPT !.pulls = {1}, !.cards = {a1}, !.away = {a1}]
Finished == {Finishing, Astray}

(* ------------------------------------------------- the board of open pulls *)
(* One after the other, with refusals; and all at once.                      *)
Queued ==
  [pulls |-> {1, 2}, handlers |-> {h1}, inOrder |-> TRUE,
   budget |-> [changes |-> 5, repeats |-> 0, refusals |-> 1, stops |-> 0]]
Jostling ==
  [Queued EXCEPT !.pulls = {1}, !.handlers = {h1, h2}, !.inOrder = FALSE,
                 !.budget = [changes |-> 4, repeats |-> 1, refusals |-> 1, stops |-> 1]]
Trackings == {Queued, Jostling}

(* ------------------------------------------------------------------------- *)
AnyOf(S) == CHOOSE x \in S : TRUE
ActivityInit ==
  /\ atWork \in ActivityModules
  /\ ReviewInit /\ FeedInit /\ MirrorInit /\ EventInit /\ CommitInit /\ ArchInit /\ TrackInit
  /\ atWork # "reviews" =>
       reviewRegime = AnyOf(ReviewRegimes) /\ head.state = "ready"
  /\ atWork # "pulls" => feedRegime = AnyOf(FeedRegimes)
  /\ atWork # "comments" => mirrorRegime = AnyOf(MirrorRegimes)
  /\ atWork # "events" => eventRegime = AnyOf(EventRegimes)
  /\ atWork # "commits" => commitRegime = AnyOf(CommitRegimes)
  /\ atWork # "archive" => archRegime = AnyOf(ArchRegimes)
  /\ atWork # "tracker" => trackRegime = AnyOf(TrackRegimes)
ActivityNext ==
  /\ UNCHANGED atWork
  /\ \/ atWork = "reviews" /\ ReviewNext
        /\ UNCHANGED <<feedVars, mirrorVars, eventVars, commitVars, archVars, trackVars>>
     \/ atWork = "pulls" /\ FeedNext
        /\ UNCHANGED <<reviewVars, mirrorVars, eventVars, commitVars, archVars, trackVars>>
     \/ atWork = "comments" /\ MirrorNext
        /\ UNCHANGED <<reviewVars, feedVars, eventVars, commitVars, archVars, trackVars>>
     \/ atWork = "events" /\ EventNext
        /\ UNCHANGED <<reviewVars, feedVars, mirrorVars, commitVars, archVars, trackVars>>
     \/ atWork = "commits" /\ CommitNext
        /\ UNCHANGED <<reviewVars, feedVars, mirrorVars, eventVars, archVars, trackVars>>
     \/ atWork = "archive" /\ ArchNext
        /\ UNCHANGED <<reviewVars, feedVars, mirrorVars, eventVars, commitVars, trackVars>>
     \/ atWork = "tracker" /\ TrackNext
        /\ UNCHANGED <<reviewVars, feedVars, mirrorVars, eventVars, commitVars, archVars>>
ActivitySpec ==
  ActivityInit /\ [][ActivityNext]_<<atWork, reviewVars, feedVars, mirrorVars, eventVars, commitVars,
                                    archVars, trackVars>>

(* What each module promises, of the module at work.                           *)
(* The queue, the verdict and the turns follow what happened on the pull       *)
(* request.                                                                    *)
ReviewsAreKept ==
  atWork = "reviews" =>
    ReviewTypeOK /\ VerdictIsCurrent /\ MergedIsNotResumed /\ QueueFollowsGitHub
(* What the poller reads of GitHub reaches the handlers and the cards, once,   *)
(* in its order, and whatever fails or starts again.                           *)
FeedsAreFollowed ==
  /\ atWork = "pulls" => FeedIsFollowed
  /\ atWork = "events" => EventsArrive
  /\ atWork = "commits" => CommitsAreTold
(* A card has every comment once, and is on the archive board once when it is  *)
(* gone from its own; and the board of open pull requests has an item for each.  *)
CardsAreKept ==
  /\ atWork = "comments" => MirrorIsTrue
  /\ atWork = "archive" => ArchiveIsTrue
  /\ atWork = "tracker" => TrackingIsTrue
=============================================================================
