------------------------------ MODULE MCPeople ------------------------------
(* Model-checking instances of who is who and who does what: the configuration *)
(* of the team, the roster of reviewers, their choice, the matching of pull    *)
(* requests to tasks, that of GitHub accounts to Plaky users, and the assistant*)
(* that they talk to: the limit on requests, what it remembers of a repository,*)
(* its turns on a chat, and the tasks that it creates behind its reply.        *)
EXTENDS TeamConfig, QaRoster, QaPicks, TaskMatch, IdentityMatch, RateLimit, RepoBriefing,
        ChatTurns, DeferredTasks, TLC

CONSTANTS proc1, proc2, job1, job2, turn1, turn2, repoA, repoB, board1, board2,
          chat1, chat2, task1, task2, task3, group1, group2

VARIABLE atWork           (* the module at work; the others stand still *)
AssistantModules == {"limit", "briefing", "chat", "batches"}
PeopleModules == {"team", "roster", "picks", "match", "identity"} \cup AssistantModules

(* --------------------------------------------------------- the configuration *)
OneProcess ==
  [procs |-> 1, maxMinute |-> 4, budget |-> [loads |-> 4, failures |-> 1, fills |-> 1, edits |-> 2]]
(* Two of them, that may both fill in the field keys. *)
TwoProcesses ==
  [procs |-> 2, maxMinute |-> 2, budget |-> [loads |-> 4, failures |-> 0, fills |-> 2, edits |-> 1]]
MCTeamRegimes == {OneProcess, TwoProcesses}

(* ------------------------------------------------------------------ the roster *)
MCBuilds(builds, failures, mines, refreshes, changes) ==
  [builds |-> builds, failures |-> failures, mines |-> mines, refreshes |-> refreshes,
   changes |-> changes]
OnGitHub == [support |-> {"ana", "ben"}, leads |-> {"ben"}, tiers |-> (10 :> {}) @@ (30 :> {"ana"})]
(* Listings fail and are kept, and people change teams. *)
Kept300 ==
  [staff |-> {"ana", "ben"}, github |-> OnGitHub, linked |-> {"ana"}, named |-> {"ben"},
   static |-> {}, live |-> TRUE, fallbackOnly |-> FALSE,
   override |-> ("ana" :> 0) @@ ("ben" :> 0), hunts |-> FALSE, hunt |-> ("ana" :> 0) @@ ("ben" :> 26),
   excluded |-> {}, budget |-> MCBuilds(2, 1, 0, 0, 1), maxHour |-> 3]
MCRosterRegimes ==
  {Kept300,
   [Kept300 EXCEPT !.hunts = TRUE, !.budget = MCBuilds(2, 1, 1, 1, 0), !.maxHour = 0],
   [Kept300 EXCEPT !.override = ("ana" :> 20) @@ ("ben" :> 50), !.static = {"ben"},
                   !.fallbackOnly = TRUE, !.budget = MCBuilds(2, 2, 0, 0, 1), !.maxHour = 2],
   [Kept300 EXCEPT !.static = {"ben"}, !.live = FALSE, !.excluded = {"ana"},
                   !.budget = MCBuilds(2, 1, 2, 2, 0), !.maxHour = 0]}

(* ------------------------------------------------------------- the assignment *)
Person(qa, excluded, tier, explicit, owners, kit, board, works, fit) ==
  [isQa |-> qa, excluded |-> excluded, tier |-> tier, explicit |-> explicit, owners |-> owners,
   typed |-> kit, board |-> board, works |-> works, fit |-> fit]
Reviewers ==
  ("ana" :> Person(TRUE, FALSE, 30, {}, {"org"}, "heavy", "", "", 80))
    @@ ("ben" :> Person(TRUE, FALSE, 20, {"core", "web"}, {}, "", "", "standard", 10))
    @@ ("cyd" :> Person(TRUE, FALSE, 17, {"web"}, {}, "", "light", "", 40))
    @@ ("lea" :> Person(TRUE, TRUE, 30, {}, {"org"}, "heavy", "", "", 95))
    @@ ("dev" :> Person(FALSE, FALSE, 30, {}, {"org"}, "", "", "", 90))
(* Repositories of the three classes: ordinary, easy, and for strong machines. *)
core == [name |-> "core", owner |-> "org", tier |-> 2, class |-> 2,
         heavy |-> FALSE, hard |-> FALSE, easy |-> FALSE]
web == [core EXCEPT !.name = "web", !.tier = 1, !.class = 1, !.easy = TRUE]
gpu == [core EXCEPT !.name = "gpu", !.tier = 0, !.class = 3, !.heavy = TRUE, !.hard = TRUE]
MCPull(in, author, bug, qa) == [repo |-> in, author |-> author, bug |-> bug, qa |-> qa]
MCRuns(runs, failures, ends, people, stops) ==
  [runs |-> runs, failures |-> failures, ends |-> ends, people |-> people, stops |-> stops]
(* Two pull requests of one author, at the cap of one for each reviewer. *)
TwoPulls ==
  [team |-> Reviewers, cap |-> 1, specialist |-> NoQa, jitter |-> 12,
   bias |-> ("light" :> 80) @@ ("standard" :> 100) @@ ("heavy" :> 120),
   pulls |-> (1 :> MCPull(core, "dev", FALSE, NoQa)) @@ (2 :> MCPull(core, "dev", FALSE, NoQa)),
   budget |-> MCRuns(3, 1, 1, 0, 0)]
MCPickRegimes ==
  {TwoPulls,
   [TwoPulls EXCEPT
      !.pulls = (1 :> MCPull(core, "dev", FALSE, NoQa)) @@ (2 :> MCPull(core, "dev", FALSE, "ana"))
             @@ (3 :> MCPull(core, "dev", FALSE, "ana")) @@ (4 :> MCPull(core, "dev", FALSE, "ben")),
      !.budget = MCRuns(1, 0, 1, 0, 0)],
   [TwoPulls EXCEPT
      !.team = [@ EXCEPT !["cyd"].tier = 30, !["cyd"].explicit = {"web", "gpu"}]
               @@ ("eve" :> Person(TRUE, FALSE, 30, {"gpu"}, {}, "light", "", "", 50)),
      !.pulls = (1 :> MCPull(web, "ana", FALSE, NoQa)) @@ (2 :> MCPull(gpu, "ben", FALSE, NoQa)),
      !.budget = MCRuns(3, 1, 0, 1, 1)],
   [TwoPulls EXCEPT
      !.specialist = "lea",
      !.pulls = (1 :> MCPull(core, "lea", TRUE, NoQa)) @@ (2 :> MCPull(web, "dev", TRUE, NoQa)),
      !.budget = MCRuns(2, 1, 1, 0, 1)],
   [TwoPulls EXCEPT                                     (* everything fails at once *)
      !.pulls = (1 :> MCPull(core, "dev", FALSE, NoQa)) @@ (2 :> MCPull(gpu, "ben", TRUE, NoQa)),
      !.specialist = "dev", !.budget = MCRuns(1, 6, 0, 0, 0)]}

(* ------------------------------------------------------ pull requests and tasks *)
Likeness(titles, keywords, branch, body, identity) ==
  [title |-> titles, keywords |-> keywords, branch |-> branch, body |-> body, identity |-> identity,
   url |-> FALSE, named |-> FALSE]
Unlike == Likeness(0, 0, 0, 0, 0)
MCCard(mapped, issue, long, group, names, numbers, status) ==
  [mapped |-> mapped, issue |-> issue, long |-> long, group |-> group, names |-> names,
   numbers |-> numbers, status |-> status]
Cards ==
  ("a" :> MCCard(TRUE, {1}, FALSE, TRUE, FALSE, {}, "active"))
    @@ ("b" :> MCCard(FALSE, {}, FALSE, TRUE, FALSE, {}, "other"))
    @@ ("c" :> MCCard(FALSE, {}, FALSE, FALSE, FALSE, {2}, "done"))
    @@ ("d" :> MCCard(FALSE, {}, FALSE, FALSE, FALSE, {}, "active"))
MCSearches(searches, failures, moves, ends) ==
  [searches |-> searches, failures |-> failures, moves |-> moves, ends |-> ends]
Seeks(closes, refs, a, b, c, d) ==
  [closes |-> closes, refs |-> refs, like |-> ("a" :> a) @@ ("b" :> b) @@ ("c" :> c) @@ ("d" :> d)]
Twin == Likeness(100, 0, 0, 0, 0)
(* One pull request has a card of the same title, the other none that is sure. *)
Sought ==
  [cards |-> Cards, model |-> TRUE, history |-> {}, budget |-> MCSearches(2, 1, 0, 1),
   pulls |-> (1 :> Seeks(FALSE, {1}, Unlike, Twin, Unlike, Likeness(100, 20, 30, 10, 9000)))
          @@ (2 :> Seeks(FALSE, {}, Likeness(20, 10, 15, 5, 3600), Likeness(100, 20, 15, 0, 0),
                         Likeness(20, 10, 10, 5, 5000), Unlike))]
MCMatchRegimes ==
  {Sought,
   [Sought EXCEPT !.history = {<<0, "b">>, <<0, "a">>}, !.pulls[1].refs = {}],
   [Sought EXCEPT !.model = FALSE,
      !.pulls = (1 :> Seeks(FALSE, {2}, Likeness(24, 20, 30, 10, 6600), Likeness(24, 0, 0, 0, 5100),
                            Unlike, Unlike))
             @@ (2 :> Seeks(TRUE, {1}, Twin, Unlike, Unlike, Unlike))],
   [Sought EXCEPT
      !.pulls = (1 :> Seeks(FALSE, {}, Likeness(20, 10, 10, 10, 3600), Likeness(24, 20, 20, 5, 0),
                            Unlike, Unlike))
             @@ (2 :> Seeks(FALSE, {7}, Twin, Likeness(24, 20, 10, 10, 0),
                            Likeness(24, 20, 30, 10, 6600), Unlike)),
      !.budget = MCSearches(2, 1, 1, 0)],
   [Sought EXCEPT !.pulls = 1 :> Seeks(FALSE, {2}, Twin, [Twin EXCEPT !.named = TRUE],
                                       [Likeness(20, 10, 45, 10, 0) EXCEPT !.url = TRUE], Unlike)]}

(* ----------------------------------------------------------- accounts and users *)
NoMail == [exact |-> FALSE, whole |-> 0, local |-> 0, domain |-> FALSE, gmail |-> FALSE]
NoLogin == [same |-> FALSE, part |-> FALSE, like |-> 0]
NoName == [whole |-> 0, surname |-> FALSE, first |-> 0, plausible |-> FALSE, words |-> 0]
NoEvidence ==
  [email |-> NoMail, login |-> NoLogin, username |-> NoLogin, name |-> NoName, boost |-> 0,
   initial |-> 0]
Named(n) == [NoEvidence EXCEPT !.name = n]
FullName == [NoName EXCEPT !.whole = 100]
Alike83 == [NoName EXCEPT !.whole = 83]
Kin == [NoName EXCEPT !.surname = TRUE, !.first = 30]
Near == [NoName EXCEPT !.surname = TRUE, !.first = 75]
Short == [NoName EXCEPT !.surname = TRUE, !.first = 50, !.plausible = TRUE]
Half == [NoEvidence EXCEPT !.username = [NoLogin EXCEPT !.like = 90], !.boost = 5200]
Evidences ==
  {NoEvidence, Named(FullName), Named(Alike83), Named(Kin), Named(Short), Half,
   [Named(Kin) EXCEPT !.email = [NoMail EXCEPT !.local = 83]],
   [Named(FullName) EXCEPT !.email = [NoMail EXCEPT !.exact = TRUE]],
   [Named(Alike83) EXCEPT !.login = [NoLogin EXCEPT !.part = TRUE]],
   [Named(Near) EXCEPT !.boost = 5200]}
MCSays ==
  {[same |-> "yes", sure |-> 90], [same |-> "no", sure |-> 90], [same |-> "no", sure |-> 10],
   [same |-> "unreadable", sure |-> 0]}
(* What is typed, and how each entry of the roster compares with it. *)
Entry(id, like) ==
  [id |-> id, exact |-> FALSE, given |-> FALSE, token |-> FALSE, variant |-> FALSE,
   oneWord |-> TRUE, like |-> like, part |-> 0, name |-> NoName]
Partly(id, share) == [Entry(id, 0) EXCEPT !.part = share]
First(id) == [Entry(id, 0) EXCEPT !.given = TRUE]
Both(id, n) == [Entry(id, 0) EXCEPT !.oneWord = FALSE, !.name = n]
MCNames ==
  ("chris" :> <<Partly("p1", 90), Entry("p2", 80), Partly("p1", 90)>>)
    @@ ("ali" :> <<First("p1"), First("p1"), Entry("p2", 60)>>)
    @@ ("john san" :> <<Both("p1", Kin), Both("p2", Near)>>)
    @@ ("sam" :> <<[Entry("p1", 0) EXCEPT !.variant = TRUE], [Entry("p2", 0) EXCEPT !.exact = TRUE]>>)
    @@ ("zed" :> <<Entry("p1", 61), Entry("p2", 30)>>)
    @@ ("kai" :> <<Entry("p1", 70), First("p1"), Entry("p2", 60)>>)
    @@ ("lee" :> <<Entry("p1", 90), Entry("p2", 40), First("p2")>>)
MCAsks(asks, failures, changes, restarts) ==
  [asks |-> asks, failures |-> failures, changes |-> changes, restarts |-> restarts]
(* Two accounts and two users, of whom a model is asked. *)
TwoAndTwo ==
  [users |-> {"u1", "u2"}, model |-> TRUE, says |-> MCSays, names |-> [typedName \in {} |-> <<>>],
   mapping |-> ("g1" :> NoOne) @@ ("g2" :> NoOne), link |-> ("u1" :> NoOne) @@ ("u2" :> NoOne),
   budget |-> MCAsks(3, 1, 0, 1),
   like |-> ("g1" :> (("u1" :> Named(Alike83)) @@ ("u2" :> Named(Near))))
         @@ ("g2" :> (("u1" :> Named(Kin)) @@ ("u2" :> Half)))]
MCIdentityRegimes ==
  {TwoAndTwo,
   [TwoAndTwo EXCEPT !.names = MCNames, !.budget = MCAsks(0, 0, 0, 0)],
   [TwoAndTwo EXCEPT !.mapping["g2"] = "u1", !.link["u2"] = "g1", !.budget = MCAsks(2, 1, 2, 0)]}
    \cup {[TwoAndTwo EXCEPT !.model = FALSE, !.budget = MCAsks(1, 0, 1, 0),
                            !.like["g1"] = ("u1" :> x) @@ ("u2" :> y)] : x, y \in Evidences}

(* ------------------------------------------------------------------- the limit *)
InMemory ==
  [kind |-> "memory", processes |-> {}, capacity |-> 3, leak |-> 1, one |-> 2, start |-> 1,
   until |-> 5, budget |-> [calls |-> 5, setBacks |-> 0, restarts |-> 1]]
InATable ==
  [InMemory EXCEPT !.kind = "table", !.processes = {proc1, proc2}, !.until = 3,
                   !.budget = [calls |-> 4, setBacks |-> 1, restarts |-> 0]]
MCLimitRegimes == {InMemory, InATable}

(* ---------------------------------------------------------------- the briefing *)
Remembered ==
  [writers |-> {job1, job2}, nameIsFolded |-> TRUE, mayFail |-> TRUE, ttl |-> 1, until |-> 2,
   budget |-> [pushes |-> 1, turns |-> 2, sweeps |-> 1, notes |-> 1, stops |-> 0]]
(* A name in capitals, which the sweep does not find again.                     *)
InCapitals ==
  [Remembered EXCEPT !.mayFail = FALSE, !.nameIsFolded = FALSE,
     !.budget = [pushes |-> 1, turns |-> 1, sweeps |-> 2, notes |-> 0, stops |-> 1]]
MCBriefRegimes == {Remembered, InCapitals}

(* --------------------------------------------------------------------- a chat *)
Asks ==
  [explicit |-> NoRepo, written |-> NoRepo, mentions |-> {}, unknown |-> FALSE, fact |-> "no",
   organises |-> FALSE, confirms |-> FALSE, allowWrites |-> TRUE, tools |-> TRUE,
   board |-> NoBoard]
NoOdds == [deletes |-> 0, failures |-> 0, stops |-> 0, keys |-> 0]
(* Two streams on SQLite, while the chat is deleted.                            *)
Streams ==
  [turns |-> {turn1, turn2}, known |-> {repoA, repoB}, inOrg |-> {},
   length |-> (repoA :> 1) @@ (repoB :> 1), registered |-> {repoA},
   boards |-> (repoA :> board1) @@ (repoB :> NoBoard), sqlite |-> TRUE, stream |-> TRUE,
   questions |-> <<Asks, [Asks EXCEPT !.mentions = {repoA}, !.fact = "stored"],
                   [Asks EXCEPT !.unknown = TRUE]>>,
   budget |-> [NoOdds EXCEPT !.deletes = 1, !.failures = 1, !.stops = 1]]
(* Two plain turns on Postgres, and a key of the user's own.                    *)
PlainTurns ==
  [Streams EXCEPT !.sqlite = FALSE, !.stream = FALSE, !.budget.keys = 1,
     !.questions = <<[Asks EXCEPT !.mentions = {repoA}, !.fact = "stored"],
                     [Asks EXCEPT !.tools = FALSE, !.fact = "on the board"]>>]
(* Every way to name a repository, a board, or a change.                        *)
AllQuestions ==
  [Streams EXCEPT !.turns = {turn1}, !.budget = [NoOdds EXCEPT !.keys = 1],
     !.inOrg = {repoB},
     !.questions = <<[Asks EXCEPT !.explicit = repoB], [Asks EXCEPT !.written = repoB],
                     [Asks EXCEPT !.mentions = {repoA, repoB}], [Asks EXCEPT !.board = board2],
                     [Asks EXCEPT !.organises = TRUE], [Asks EXCEPT !.mentions = {repoB}],
                     [Asks EXCEPT !.organises = TRUE, !.confirms = TRUE],
                     [Asks EXCEPT !.mentions = {repoA}, !.allowWrites = FALSE]>>]
OnlyOneKnown ==
  [AllQuestions EXCEPT !.known = {repoA},
     !.questions = <<Asks, [Asks EXCEPT !.unknown = TRUE], [Asks EXCEPT !.written = repoB]>>]
MCChatRegimes == {Streams, PlainTurns, AllQuestions, OnlyOneKnown}

(* ----------------------------------------------------------------- the batches *)
Batch(rows, group, hint) == [rows |-> rows, group |-> group, hint |-> hint]
NoTrouble == [proposals |-> 2, lost |-> 0, refusals |-> 0, stops |-> 0]
(* The same batch proposed twice, the second time before the first is written.  *)
Crossing ==
  [chats |-> {chat1}, proposals |-> {Batch(<<task1, task2>>, group1, group1)},
   mayFail |-> {FALSE}, groups |-> {group1}, alike |-> {}, jobs |-> 2, names |-> 2,
   window |-> 1, stale |-> 0, until |-> 0,
   budget |-> [NoTrouble EXCEPT !.lost = 1, !.refusals = 1]]
(* Two chats, and time: corrections end, and lost jobs are given up.            *)
InTime ==
  [Crossing EXCEPT !.chats = {chat1, chat2}, !.mayFail = {}, !.jobs = 1, !.until = 3,
     !.proposals = {Batch(<<task1>>, group1, group1), Batch(<<task2>>, group1, group1)},
     !.budget = [NoTrouble EXCEPT !.refusals = 2, !.stops = 1]]
(* A group that the board does not have, and tasks that are nearly the same.    *)
Misplaced ==
  [Crossing EXCEPT !.names = 1, !.alike = {{task1, task3}}, !.mayFail = {},
     !.proposals = {Batch(<<task1, task2>>, group2, group1), Batch(<<task3>>, group2, group2),
                    Batch(<<task3>>, group1, group2)},
     !.budget = [NoTrouble EXCEPT !.refusals = 1]]
Unlisted ==
  [Misplaced EXCEPT !.mayFail = {FALSE}, !.budget = [NoTrouble EXCEPT !.proposals = 1]]
MCBatchRegimes == {Crossing, InTime, Misplaced, Unlisted}

(* -------------------------------------------------------------- one at a time *)
AnyOf(S) == CHOOSE x \in S : TRUE
AssistantInit(at) ==
  /\ LimitInit /\ (at # "limit" => limitRegime = AnyOf(LimitRegimes))
  /\ BriefInit /\ (at # "briefing" => briefRegime = AnyOf(BriefRegimes))
  /\ ChatInit /\ (at # "chat" => chatRegime = AnyOf(ChatRegimes))
  /\ BatchInit /\ (at # "batches" => batchRegime = AnyOf(BatchRegimes))
AssistantNext(at) ==
  \/ at = "limit" /\ LimitNext /\ UNCHANGED <<briefVars, chatVars, batchVars>>
  \/ at = "briefing" /\ BriefNext /\ UNCHANGED <<limitVars, chatVars, batchVars>>
  \/ at = "chat" /\ ChatNext /\ UNCHANGED <<limitVars, briefVars, batchVars>>
  \/ at = "batches" /\ BatchNext /\ UNCHANGED <<limitVars, briefVars, chatVars>>
assistantVars == <<limitVars, briefVars, chatVars, batchVars>>
PeopleInit ==
  /\ atWork \in PeopleModules
  /\ TeamInit /\ (atWork # "team" => teamRegime = AnyOf(TeamRegimes))
  /\ RosterInit /\ (atWork # "roster" => rosterRegime = AnyOf(RosterRegimes))
  /\ PickInit /\ (atWork # "picks" => pickRegime = AnyOf(PickRegimes))
  /\ MatchInit /\ (atWork # "match" => matchRegime = AnyOf(MatchRegimes))
  /\ IdentityInit /\ (atWork # "identity" => idRegime = AnyOf(IdentityRegimes))
  /\ AssistantInit(atWork)
PeopleNext ==
  /\ UNCHANGED atWork
  /\ \/ /\ UNCHANGED assistantVars
        /\ \/ atWork = "team" /\ TeamNext /\ UNCHANGED <<rosterVars, pickVars, matchVars, idVars>>
           \/ atWork = "roster" /\ RosterNext /\ UNCHANGED <<teamVars, pickVars, matchVars, idVars>>
           \/ atWork = "picks" /\ PickNext /\ UNCHANGED <<teamVars, rosterVars, matchVars, idVars>>
           \/ atWork = "match" /\ MatchNext /\ UNCHANGED <<teamVars, rosterVars, pickVars, idVars>>
           \/ atWork = "identity" /\ IdentityNext
              /\ UNCHANGED <<teamVars, rosterVars, pickVars, matchVars>>
     \/ AssistantNext(atWork) /\ UNCHANGED <<teamVars, rosterVars, pickVars, matchVars, idVars>>
PeopleSpec ==
  PeopleInit /\ [][PeopleNext]_<<atWork, teamVars, rosterVars, pickVars, matchVars, idVars,
                                assistantVars>>

(* The assistant lets through as many requests as the limit says, knows of a   *)
(* repository what it read last, answers every question in its chat and files  *)
(* cards where it may, and corrects itself when a task it reported is not      *)
(* created, and only then.                                                     *)
AssistantIsSound ==
  /\ atWork = "limit" => LimitIsKept
  /\ atWork = "briefing" => BriefingIsTrue
  /\ atWork = "chat" => ChatIsKept
  /\ atWork = "batches" => CorrectionsAreRight
=============================================================================
