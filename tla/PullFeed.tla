------------------------------- MODULE PullFeed -------------------------------
(* The poller's way of learning what happens to the pull requests of one       *)
(* repository (services/github_poller.py): it lists them again and again,      *)
(* compares each with what it remembers, and turns the differences into the    *)
(* events a webhook would have brought.  Its memory is that of the process;    *)
(* the links that a close withdrew are in the database.                        *)
EXTENDS Naturals, FiniteSets, Sequences, SequencesExt, Ranks

CONSTANTS FeedRegimes     (* the pull requests, the page, the window, and what happens *)

(* No two pull requests were last changed at the same moment.                  *)
ASSUME FeedAssumption ==
  \A r \in FeedRegimes :
    /\ IsFiniteSet(r.pulls) /\ r.pulls \subseteq Nat
    /\ r.withdrawn \subseteq r.pulls /\ r.start \in Nat /\ r.catchup \in Nat
    /\ r.probes \in Nat /\ r.others \in BOOLEAN
    /\ r.hub \in [r.pulls -> [state : {"none", "open", "closed", "merged"}, draft : BOOLEAN,
                              labels : {0, 1}, reviewers : SUBSET r.reviewers,
                              updated : 0..r.start, created : 0..r.start]]
    /\ \A m, n \in r.pulls :
         r.hub[m].updated = r.hub[n].updated => m = n \/ "none" \in {r.hub[m].state, r.hub[n].state}

VARIABLES feedRegime, feedLeft,
          clock,        (* advances with every change on GitHub, and without           *)
          hub,          (* GitHub: the pull requests                                   *)
          watched,      (* the repository is on the poller's list                      *)
          ready,        (* GitHub and Plaky: it has a board of its own                 *)
          memory,       (* _baseline_dt and _processed                                 *)
          linked,       (* the registry: pull requests with links                      *)
          withdrawn,    (* the registry: those whose links a close withdrew            *)
          poll,         (* _poll_pulls: where it stands                                *)
          told,         (* what the handlers last heard of each; at first sight, saw   *)
          calls,        (* the openings and closings told in this process's life       *)
          missed        (* those on which a handler failed in this process's life       *)
feedVars == <<feedRegime, feedLeft, clock, hub, watched, ready, memory, linked, withdrawn,
              poll, told, calls, missed>>

FeedPulls == feedRegime.pulls
NoPullYet == [state |-> "none", draft |-> FALSE, labels |-> 0, reviewers |-> {},
              updated |-> 0, created |-> 0]
(* A value the process has not seen yet is {}, and {v} from then on.           *)
Unseen == [draft |-> {}, labels |-> {}, reviewers |-> {}]
BlankMemory ==
  [since |-> {}, opened |-> {}, closed |-> {}, known |-> [n \in FeedPulls |-> Unseen],
   branches |-> {}, probed |-> {}]
NoPoll == [at |-> "idle", rows |-> <<>>, row |-> 1, stage |-> 1, withdrawn |-> {},
           blind |-> FALSE, probes |-> <<>>, unasked |-> {}, began |-> 0, whole |-> FALSE,
           clean |-> TRUE, passes |-> 0]

FeedInit ==
  /\ feedRegime \in FeedRegimes /\ feedLeft = feedRegime.budget
  /\ clock = feedRegime.start /\ watched = TRUE /\ ready = TRUE
  /\ hub = feedRegime.hub
  /\ memory = BlankMemory /\ poll = NoPoll
  /\ linked = feedRegime.linked /\ withdrawn = feedRegime.withdrawn
  /\ told = [n \in FeedPulls |->
       [state |-> IF n \in withdrawn THEN "closed" ELSE hub[n].state,
        draft |-> hub[n].draft, labels |-> hub[n].labels, reviewers |-> hub[n].reviewers]]
  /\ calls = [n \in FeedPulls |-> <<>>] /\ missed = {}

SpendsFeed(what) == feedLeft[what] > 0 /\ feedLeft' = [feedLeft EXCEPT ![what] = @ - 1]
OnGitHub == <<clock, hub>>
Registry == <<linked, withdrawn>>
HeardSoFar == <<told, calls, missed>>
WatchList == <<watched, ready>>

(* ------------------------------------------------------------------- GitHub *)
Changed(n, pull) ==
  /\ SpendsFeed("changes") /\ clock' = clock + 1
  /\ hub' = [hub EXCEPT ![n] = [pull EXCEPT !.updated = clock + 1]]
  /\ UNCHANGED <<feedRegime, WatchList, memory, Registry, poll, HeardSoFar>>
Opens(n) ==
  /\ hub[n].state = "none"
  /\ Changed(n, [NoPullYet EXCEPT !.state = "open", !.created = clock + 1])
FlipsDraft(n) ==
  /\ hub[n].state \in {"open", "closed"}
  /\ Changed(n, [hub[n] EXCEPT !.draft = ~@])
Relabels(n) ==
  /\ hub[n].state # "none" /\ Changed(n, [hub[n] EXCEPT !.labels = 1 - @])
Requests(n) ==
  /\ hub[n].state = "open"
  /\ \E r \in feedRegime.reviewers :
       Changed(n, [hub[n] EXCEPT !.reviewers = IF r \in @ THEN @ \ {r} ELSE @ \cup {r}])
ClosesPull(n) ==
  /\ hub[n].state = "open" /\ \E s \in {"closed", "merged"} : Changed(n, [hub[n] EXCEPT !.state = s])
Reopens(n) ==
  /\ hub[n].state = "closed" /\ Changed(n, [hub[n] EXCEPT !.state = "open"])
(* Time passes; a window of catching up leaves what is older behind.           *)
TimePasses ==
  /\ SpendsFeed("pauses") /\ clock' = clock + 1
  /\ UNCHANGED <<feedRegime, hub, WatchList, memory, Registry, poll, HeardSoFar>>

(* ------------------------------------------------- which repositories to watch *)
(* The repository gets a place on a board, or loses it.                        *)
PlaceComesOrGoes ==
  /\ SpendsFeed("places") /\ ready' = ~ready
  /\ UNCHANGED <<feedRegime, OnGitHub, watched, memory, Registry, poll, HeardSoFar>>
(* Mutation: a listing that failed empties the list. *)
TakesWhatIsListed(eligible) == eligible
(* An empty answer changes nothing: whether nothing is eligible or the listing *)
(* failed, the list stays.                                                     *)
Adopts(eligible) == IF eligible \/ feedRegime.others THEN eligible ELSE watched
(* resolve_poller_repos, every so many cycles.  A repository whose placement   *)
(* cannot be read is left out until the next time.                             *)
RefreshList ==
  /\ poll.at = "idle"
  /\ \/ watched' = Adopts(ready) /\ UNCHANGED feedLeft
     \/ SpendsFeed("failures") /\ watched' = Adopts(FALSE)
     \/ SpendsFeed("failures") /\ UNCHANGED watched
  /\ UNCHANGED <<feedRegime, OnGitHub, ready, memory, Registry, poll, HeardSoFar>>

(* ------------------------------------------------------------- one poll begins *)
(* The newest first, one page of them, and none from before the baseline.      *)
PagePulls ==
  LET exist == {n \in FeedPulls : hub[n].state # "none"}
      newer(n) == {m \in exist : hub[m].updated > hub[n].updated}
  IN {n \in exist : Cardinality(newer(n)) < feedRegime.page}
Rows(since) ==
  LET shown == LatestFirst({n \in PagePulls : hub[n].updated >= since},
                           [n \in FeedPulls |-> hub[n].updated])
  IN [i \in DOMAIN shown |-> [n |-> shown[i], pull |-> hub[shown[i]]]]
Numbers(rows) == {rows[i].n : i \in DOMAIN rows}

(* Withdrawn pull requests that the list does not show are asked for by number, *)
(* so many in one cycle, and never again once they are known to be closed.     *)
(* Mutation: who was asked for is asked again. *)
AsksAllAgain(shown, gone) ==
  Ascending(gone \ shown)
ProbeList(shown, gone) == Ascending(gone \ (shown \cup memory.probed))
FirstOf(s) == SubSeq(s, 1, IF Len(s) < feedRegime.probes THEN Len(s) ELSE feedRegime.probes)

BeginPoll ==
  /\ poll.at = "idle" /\ watched /\ feedLeft.polls > 0
  /\ LET since == IF memory.since # {} THEN memory.since
                  ELSE {IF clock > feedRegime.catchup THEN clock - feedRegime.catchup ELSE 0}
     IN /\ memory' = [memory EXCEPT !.since = since]
        /\ \E lists, reads \in BOOLEAN :
             /\ ~(lists /\ reads) => feedLeft.failures > 0
             /\ feedLeft' = [feedLeft EXCEPT !.polls = @ - 1,
                                             !.failures = IF lists /\ reads THEN @ ELSE @ - 1]
             /\ poll' = IF ~lists THEN NoPoll
                        ELSE LET rows == Rows(CHOOSE s \in since : TRUE)
                                 gone == IF reads THEN withdrawn ELSE {}
                                 list == ProbeList(Numbers(rows), gone)
                             IN [NoPoll EXCEPT
                                   !.at = "rows", !.rows = rows, !.withdrawn = gone,
                                   !.blind = ~reads, !.passes = IF reads THEN poll.passes ELSE 0,
                                   !.probes = FirstOf(list), !.began = clock,
                                   !.unasked = Range(list) \ Range(FirstOf(list))]
  /\ UNCHANGED <<feedRegime, OnGitHub, WatchList, Registry, HeardSoFar>>

(* ------------------------------------------------------------------- one row *)
Row == poll.rows[poll.row]
Known == memory.known[Row.n]
Differs(kept, value) == kept # {} /\ value \notin kept
Stages == <<"opened", "draft", "labeled", "review_requested", "reopened", "closed">>

(* Whether a stage has something to tell, and what it notes before telling.    *)
Tells(stage) ==
  LET n == Row.n  pull == Row.pull IN
  CASE stage = "opened" -> n \notin memory.opened /\ \A s \in memory.since : pull.created >= s
    [] stage = "draft" -> Differs(Known.draft, pull.draft) /\ pull.state = "open"
    [] stage = "labeled" -> Differs(Known.labels, pull.labels)
    [] stage = "review_requested" -> \E seen \in Known.reviewers : ~(pull.reviewers \subseteq seen)
    [] stage = "reopened" -> pull.state = "open" /\ (n \in memory.closed \/ n \in poll.withdrawn)
    [] stage = "closed" -> pull.state \in {"closed", "merged"} /\ n \notin memory.closed
Noted(stage) ==
  LET n == Row.n  pull == Row.pull IN
  CASE stage = "opened" -> IF Tells(stage) THEN [memory EXCEPT !.opened = @ \cup {n}] ELSE memory
    [] stage = "draft" -> [memory EXCEPT !.known[n].draft = {pull.draft}]
    [] stage = "labeled" ->
         [memory EXCEPT !.known[n].labels = {pull.labels},
                        !.branches = IF pull.state = "open" THEN @ \cup {n} ELSE @ \ {n}]
    [] stage = "review_requested" -> [memory EXCEPT !.known[n].reviewers = {pull.reviewers}]
    [] stage = "reopened" -> IF Tells(stage) THEN [memory EXCEPT !.closed = @ \ {n}] ELSE memory
    [] stage = "closed" -> IF Tells(stage) THEN [memory EXCEPT !.closed = @ \cup {n}] ELSE memory
(* Mutation: what was closed stays noted as closed. *)
NeverReopens(stage) ==
  IF stage = "reopened" THEN memory ELSE Noted(stage)
(* Mutation: what is told is not noted. *)
NotesNothing(stage) == IF Tells(stage) THEN memory ELSE Noted(stage)
Notes(stage) == Noted(stage)

(* What a handler makes of it.  An opening links the pull request to a task, a *)
(* close without a merge withdraws its links, and a reopening revives them.    *)
Hears(n, pull, stage) ==
  /\ told' = [told EXCEPT ![n] =
       CASE stage \in {"opened", "reopened"} ->
              [@ EXCEPT !.state = "open", !.draft = pull.draft]
         [] stage = "draft" -> [@ EXCEPT !.draft = pull.draft]
         [] stage = "labeled" -> [@ EXCEPT !.labels = pull.labels]
         [] stage = "review_requested" -> [@ EXCEPT !.reviewers = pull.reviewers]
         [] stage = "closed" -> [@ EXCEPT !.state = pull.state]]
  /\ linked' = IF stage \in {"opened", "reopened"} THEN linked \cup {n} ELSE linked
  /\ withdrawn' =
       CASE stage = "reopened" -> withdrawn \ {n}
         [] stage = "closed" /\ pull.state = "closed" /\ n \in linked -> withdrawn \cup {n}
         [] OTHER -> withdrawn
(* At first sight a draft, its labels and its reviewers are taken as they are. *)
Sees(n, pull) ==
  LET kept == told[n] IN
  told' = [told EXCEPT ![n] =
    [state |-> kept.state,
     draft |-> IF Known.draft = {} /\ n \notin memory.opened THEN pull.draft ELSE kept.draft,
     labels |-> IF Known.labels = {} THEN pull.labels ELSE kept.labels,
     reviewers |-> IF Known.reviewers = {} THEN pull.reviewers ELSE kept.reviewers]]
Counts(n, stage, ok) ==
  calls' = IF stage \in {"opened", "reopened", "found", "closed"}
           THEN [calls EXCEPT ![n] = Append(@, <<stage, ok>>)] ELSE calls

Goes ==
  poll' = IF poll.stage < Len(Stages) THEN [poll EXCEPT !.stage = @ + 1]
          ELSE [poll EXCEPT !.row = @ + 1, !.stage = 1]
(* A handler that fails ends the poll, and what was noted stays noted.         *)
Falls(n) == poll' = NoPoll /\ missed' = missed \cup {n}

TakeStage ==
  /\ poll.at = "rows" /\ poll.row <= Len(poll.rows)
  /\ LET n == Row.n  pull == Row.pull  stage == Stages[poll.stage] IN
     /\ memory' = Notes(stage)
     /\ \/ ~Tells(stage)
           /\ Sees(n, pull) /\ Goes /\ UNCHANGED <<feedLeft, Registry, calls, missed>>
        \/ Tells(stage)
           /\ Hears(n, pull, stage) /\ Counts(n, stage, TRUE) /\ Goes
           /\ UNCHANGED <<feedLeft, missed>>
        \/ Tells(stage) /\ SpendsFeed("failures")
           /\ Falls(n) /\ Counts(n, stage, FALSE) /\ UNCHANGED <<told, Registry>>
  /\ UNCHANGED <<feedRegime, OnGitHub, WatchList>>

(* ---------------------------------------------------------- asking by number *)
Probe ==
  /\ poll.at = "rows" /\ poll.row > Len(poll.rows) /\ poll.probes # <<>>
  /\ LET n == Head(poll.probes)
         later == [poll EXCEPT !.probes = Tail(@)]
     IN \/ /\ SpendsFeed("failures")
           /\ poll' = [later EXCEPT !.unasked = @ \cup {n}, !.clean = FALSE]
           /\ UNCHANGED <<memory, Registry, HeardSoFar>>
        \/ /\ hub[n].state # "open"
           /\ memory' = [memory EXCEPT !.probed = @ \cup {n}] /\ poll' = later
           /\ UNCHANGED <<feedLeft, Registry, HeardSoFar>>
        \/ /\ hub[n].state = "open"
           /\ memory' = [memory EXCEPT !.closed = @ \ {n}]
           /\ \/ Hears(n, hub[n], "reopened") /\ Counts(n, "found", TRUE)
                 /\ poll' = later /\ UNCHANGED <<feedLeft, missed>>
              \/ SpendsFeed("failures") /\ Falls(n) /\ Counts(n, "found", FALSE)
                 /\ UNCHANGED <<told, Registry>>
  /\ UNCHANGED <<feedRegime, OnGitHub, WatchList>>

EndPoll ==
  /\ poll.at = "rows" /\ poll.row > Len(poll.rows) /\ poll.probes = <<>>
  /\ poll' = [poll EXCEPT !.at = "idle", !.whole = TRUE,
                         !.passes = IF poll.clean /\ poll.unasked # {} THEN @ + 1 ELSE 0]
  /\ UNCHANGED <<feedRegime, feedLeft, OnGitHub, WatchList, memory, Registry, HeardSoFar>>

(* The process stops and starts again.                                         *)
Restart ==
  /\ SpendsFeed("restarts")
  /\ memory' = BlankMemory /\ poll' = NoPoll
  /\ calls' = [n \in FeedPulls |-> <<>>] /\ missed' = {}
  /\ UNCHANGED <<feedRegime, OnGitHub, WatchList, Registry, told>>

FeedNext ==
  \/ \E n \in FeedPulls :
       Opens(n) \/ FlipsDraft(n) \/ Relabels(n) \/ Requests(n) \/ ClosesPull(n) \/ Reopens(n)
  \/ TimePasses \/ PlaceComesOrGoes \/ RefreshList
  \/ BeginPoll \/ TakeStage \/ Probe \/ EndPoll \/ Restart

(* --------------------------------------------------------------- correctness *)
(* "Once the links are revived ... this fires once rather than every cycle":   *)
(* what the process tells of a pull request alternates, beginning with its     *)
(* opening if it came since the baseline; only a reopening that failed is told *)
(* again.  A reopening that was found by number may come before the opening,   *)
(* and one may follow the opening when the links were withdrawn in an earlier  *)
(* life and have not been revived in this one.                                 *)
Reopening(call) == call[1] \in {"reopened", "found"}
ToldInTurn ==
  \A n \in FeedPulls : \A i \in 1..(Len(calls[n]) - 1) :
    LET this == calls[n][i]  next == calls[n][i + 1] IN
    /\ next[1] = "opened" => \A j \in 1..i : calls[n][j][1] = "found"
    /\ next[1] = "closed" => this[1] # "closed"
    /\ Reopening(next) =>
         \/ this[1] = "closed"
         \/ Reopening(this) /\ ~this[2]
         \/ this[1] = "opened" /\ \A j \in 1..(i - 1) : ~calls[n][j][2]

Passed == {i \in DOMAIN poll.rows : poll.whole}
(* A poll that went through leaves the handlers with what the list showed: all *)
(* that changed while the process looked on, and every close.  Except for a    *)
(* pull request that a handler failed on, for a merge after a reopening that   *)
(* came between two polls, and for the draft of one whose reopening was found  *)
(* by number: what it was then is not noted, and a change back goes untold.    *)
FoundByNumber(n) == \E i \in DOMAIN calls[n] : calls[n][i][1] = "found"
RowsAreTold ==
  \A i \in Passed :
    LET n == poll.rows[i].n  pull == poll.rows[i].pull IN
    n \notin missed =>
      /\ pull.labels = told[n].labels /\ pull.reviewers \subseteq told[n].reviewers
      /\ pull.state \in {"closed", "merged"} =>
           \/ told[n].state = pull.state
           \/ told[n].state = "closed" /\ pull.state = "merged"
      /\ pull.state = "open" => pull.draft = told[n].draft \/ FoundByNumber(n)

(* No reopening is lost, not in a restart, nor when a handler failed on it:    *)
(* after a poll that went through and could read the registry, no pull request *)
(* that was open when the poll began still has its links withdrawn, unless it  *)
(* was off the page and had once answered that it is closed, or its turn to be *)
(* asked has not come.  "A strange backlog" keeps nobody waiting for ever: in  *)
(* every poll that leaves somebody unasked, as many as the cap turn out to be  *)
(* closed, once and for all, or have their links revived.                      *)
Revived ==
  UNION {{<<n, i>> : i \in {j \in DOMAIN calls[n] : calls[n][j] = <<"found", TRUE>>}} : n \in FeedPulls}
ReopeningsArrive ==
  poll.whole /\ ~poll.blind =>
    \A n \in withdrawn :
      hub[n].state = "open" /\ hub[n].updated <= poll.began =>
        /\ n \notin Numbers(poll.rows)
        /\ \/ n \in memory.probed
           \/ /\ n \in poll.unasked
              /\ feedRegime.probes * poll.passes <= Cardinality(memory.probed) + Cardinality(Revived)

(* A list that could not be made never strands the poller.                     *)
NeverIdled == ~feedRegime.others => watched

FeedIsFollowed == ToldInTurn /\ RowsAreTold /\ ReopeningsArrive /\ NeverIdled
=============================================================================
