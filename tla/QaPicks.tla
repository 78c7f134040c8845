------------------------------- MODULE QaPicks -------------------------------
(* Giving a pull request its reviewer: _assign_qa_for_pr, from the read of the *)
(* card's QA column to the comment on the pull request, and the choice that    *)
(* pick_qa_for_repo makes on the way. Several runs are under way at a time.    *)
EXTENDS Integers, FiniteSets, FiniteSetsExt, Graphs

CONSTANTS PickRegimes     (* the team, the pull requests, and what happens       *)

VARIABLES pickRegime, pickLeft,
          column,       (* the QA column of each card, and who filled it         *)
          link,         (* the PR-task rows: live, and qa_plaky_id               *)
          said,         (* who the assignment comments on each pull request name *)
          assigning     (* the runs of _assign_qa_for_pr                         *)
pickVars == <<pickRegime, pickLeft, column, link, said, assigning>>

NoQa == "nobody"
Pulls == DOMAIN pickRegime.pulls
Team == DOMAIN pickRegime.team
Of(q) == pickRegime.team[q]
Runs == 1..2
NoRun == [at |-> "idle", pull |-> 0, qa |-> NoQa, why |-> "", read |-> TRUE, saw |-> NoQa,
          load |-> <<>>, counted |-> FALSE, others |-> {}, raced |-> FALSE,
          active |-> TRUE, sure |-> TRUE]

(* How many there are is finite; a cap, tiers, shares of history and weights   *)
(* are natural numbers, the jitter at most the whole, and a machine is of one  *)
(* of three kinds, or unknown.                                                 *)
Machines == {"light", "standard", "heavy"}
ASSUME PickAssumption ==
  \A g \in PickRegimes :
    /\ IsFiniteSet(DOMAIN g.team) /\ IsFiniteSet(DOMAIN g.pulls)
    /\ g.cap \in Nat /\ g.jitter \in 0..100 /\ g.bias \in [Machines -> Nat]
    /\ g.budget \in [runs : Nat, failures : Nat, ends : Nat, people : Nat, stops : Nat]
    /\ \A q \in DOMAIN g.team :
         /\ g.team[q].tier \in Nat /\ g.team[q].fit \in Nat
         /\ {g.team[q].typed, g.team[q].board, g.team[q].works} \subseteq Machines \cup {""}
    /\ \A n \in DOMAIN g.pulls : g.pulls[n].repo.tier \in 0..3 /\ g.pulls[n].repo.class \in 1..3

PickInit ==
  /\ pickRegime \in PickRegimes /\ pickLeft = pickRegime.budget
  /\ column = [n \in Pulls |-> [qa |-> pickRegime.pulls[n].qa, by |-> "person"]]
  /\ link = [n \in Pulls |-> [live |-> TRUE, qa |-> pickRegime.pulls[n].qa]]
  /\ said = [n \in Pulls |-> {}] /\ assigning = [r \in Runs |-> NoRun]

SpendsPick(what) == pickLeft[what] > 0 /\ pickLeft' = [pickLeft EXCEPT ![what] = @ - 1]
(* What may go wrong once: the rest of the step goes on without it.            *)
OrFails(ok) == IF ok THEN UNCHANGED pickLeft ELSE SpendsPick("failures")

(* active_pr_counts_by_qa: the open pull requests stamped with each person.    *)
Workload == [q \in Team |-> Cardinality({n \in Pulls : link[n].live /\ link[n].qa = q})]

(* -------------------------------------------------------------- who may review *)
(* qa_tier_allows_repo: a tier is floored, never rounded, to its pattern rule. *)
AllowsRepo(tier, repo) ==
  CASE tier >= 30 -> TRUE
    [] tier \in 20..29 -> ~repo.hard
    [] OTHER -> repo.easy
(* repo_matches_member                                                         *)
InScope(q, repo) == repo.name \in Of(q).explicit \/ repo.owner \in Of(q).owners

(* The filters of pick_qa_for_repo before the evidence about their machines.   *)
(* Mutation: leads are left out of the ranking only. *)
RoleAlone(q, repo, author, tier) == Of(q).isQa /\ q # author /\ InScope(q, repo) /\ Of(q).tier >= 10 * tier
Qualified(q, repo, author, tier) ==
  /\ Of(q).isQa /\ ~Of(q).excluded /\ q # author
  /\ InScope(q, repo) /\ Of(q).tier >= 10 * tier /\ AllowsRepo(Of(q).tier, repo)

(* _auto_classify_repo_tier: what repos.yml does not say is classified, or 2.  *)
RepoTier(repo, seen) ==
  IF repo.tier > 0 THEN repo.tier ELSE IF seen THEN repo.class ELSE 2

(* The machine of each candidate: the capability board, demonstrated work, the *)
(* file's word on the person, and the most frequent of the others' (any of two *)
(* equally frequent). A source that fails says nothing of anybody.             *)
KnownTier(q, board, works) ==
  IF board /\ Of(q).board # "" THEN Of(q).board
  ELSE IF works /\ Of(q).works # "" THEN Of(q).works ELSE Of(q).typed
Resolved(cands, board, works, prior) ==
  [q \in cands |-> IF KnownTier(q, board, works) = "" THEN prior ELSE KnownTier(q, board, works)]
Priors(cands, board, works) ==
  LET known == {q \in cands : KnownTier(q, board, works) # ""}
      Times(t) == Cardinality({q \in known : KnownTier(q, board, works) = t})
      all == {KnownTier(q, board, works) : q \in known}
  IN IF known = {} THEN {"light"} ELSE {t \in all : \A u \in all : Times(t) >= Times(u)}
(* Mutation: a heavy repository is open to any machine. *)
AnyMachine(cands, repo, machine) == cands
(* Nobody of a light machine on a heavy repository.                            *)
Strong(cands, repo, machine) ==
  IF repo.heavy THEN {q \in cands : machine[q] # "light"} ELSE cands

(* Mutation: whoever is at the cap may still be the best fit. *)
NoCap(cands, load) == cands
(* Mutation: only those under the cap, though nobody is. *)
OnlyUnderCap(cands, load) == {q \in cands : load[q] < pickRegime.cap}
(* The workload cap: those under it, or all of them when nobody is.  These are *)
(* sorted by load and their order then forgotten: it is their fit that decides,*)
(* or a weighted draw, where the docstring has the least loaded chosen.        *)
UnderCap(cands, load) ==
  LET free == {q \in cands : load[q] < pickRegime.cap} IN IF free = {} THEN cands ELSE free

(* _ranked_choice, in hundredths: the base score and the fit, where someone of *)
(* thin history starts high on a tier-1 repository, times the machine's bias,  *)
(* give or take the jitter. Anyone whose best draw reaches every other's worst *)
(* may win.                                                                    *)
Fit(q, tier) == IF tier = 1 /\ Of(q).fit <= 15 THEN 90 ELSE Of(q).fit
Points(q, tier, machine) == (15 + Fit(q, tier)) * pickRegime.bias[machine[q]]
MayWin(cands, tier, machine) ==
  {q \in cands : \A o \in cands :
     Points(q, tier, machine) * (100 + pickRegime.jitter) >= Points(o, tier, machine) * (100 - pickRegime.jitter)}
(* _overlap_component: people share a repository or an owner; the largest such *)
(* circle (any of two equally large), and _weighted_choice anyone within it.   *)
Circle(q, cands) ==
  LET Shares(a, b) == Of(a).explicit \cap Of(b).explicit # {} \/ Of(a).owners \cap Of(b).owners # {}
      met == [node |-> cands, edge |-> {e \in cands \X cands : Shares(e[1], e[2])}]
  IN {q} \cup {o \in cands : ConnectionsIn(met)[q, o]}
LargestCircles(cands) ==
  UNION {Circle(q, cands) : q \in {p \in cands : \A o \in cands :
           Cardinality(Circle(p, cands)) >= Cardinality(Circle(o, cands))}}

(* What pick_qa_for_repo may return, and those it would choose among.          *)
Picks(n, load, classified, board, works, fits) ==
  LET pull == pickRegime.pulls[n]
      tier == RepoTier(pull.repo, classified)
      may == {q \in Team : Qualified(q, pull.repo, pull.author, tier)}
  IN UNION {LET machine == Resolved(may, board, works, prior)
                able == Strong(may, pull.repo, machine)
                free == IF load = <<>> THEN able ELSE UnderCap(able, load)
            IN IF free = {} THEN {} ELSE
               {[qa |-> q, others |-> able] :
                  q \in IF fits THEN MayWin(free, tier, machine) ELSE LargestCircles(free)}
            : prior \in Priors(may, board, works)}

(* ------------------------------------------------------------ _assign_qa_for_pr *)
(* The column as it is read; a read that fails looks like an empty column.     *)
BeginAssigning ==
  \E r \in Runs, n \in Pulls, ok \in BOOLEAN :
    /\ assigning[r].at = "idle" /\ pickLeft.runs > 0 /\ (ok \/ pickLeft.failures > 0)
    /\ pickLeft' = [pickLeft EXCEPT !.runs = @ - 1, !.failures = IF ok THEN @ ELSE @ - 1]
    /\ LET seen == IF ok THEN column[n].qa ELSE NoQa IN
       assigning' = [assigning EXCEPT ![r] =
         [NoRun EXCEPT !.pull = n, !.read = ok, !.saw = column[n].qa, !.qa = seen,
                       !.at = IF seen = NoQa THEN "choosing" ELSE "chosen",
                       !.why = IF seen = NoQa THEN "" ELSE "had"]]
    /\ UNCHANGED <<pickRegime, column, link, said>>

(* Mutation: the specialist reviews every bug, their own too. *)
AlwaysTheirs(n) == pickRegime.pulls[n].bug /\ pickRegime.specialist # NoQa
(* The bug specialist is looked for in the roster and in the fallback list,    *)
(* and asked neither whether they are excluded nor how busy they are.          *)
GoesToSpecialist(n) ==
  /\ pickRegime.pulls[n].bug /\ pickRegime.specialist # NoQa
  /\ pickRegime.specialist # pickRegime.pulls[n].author

Choose ==
  \E r \in Runs :
    LET run == assigning[r] IN
    /\ run.at = "choosing"
    /\ \/ /\ GoesToSpecialist(run.pull) /\ UNCHANGED pickLeft
          /\ assigning' = [assigning EXCEPT ![r].qa = pickRegime.specialist, ![r].why = "bug", ![r].at = "chosen"]
       \/ \E counts, classified, board, works, fits \in BOOLEAN, typed \in BOOLEAN :
          LET load == IF counts THEN Workload ELSE <<>>
              picks == Picks(run.pull, load, classified, board, works, fits)
              fails == {x \in {<<"counts", counts>>, <<"class", classified>>, <<"board", board>>,
                               <<"works", works>>, <<"fits", fits>>, <<"type", typed>>} : ~x[2]}
          IN
          /\ typed => ~GoesToSpecialist(run.pull)
          /\ Cardinality(fails) <= pickLeft.failures
          /\ pickLeft' = [pickLeft EXCEPT !.failures = @ - Cardinality(fails)]
          /\ \/ picks = {} /\ assigning' = [assigning EXCEPT ![r] = NoRun]
             \/ \E p \in picks :
                  assigning' = [assigning EXCEPT ![r].qa = p.qa, ![r].why = "ranked", ![r].at = "chosen",
                                                 ![r].load = load, ![r].counted = counts,
                                                 ![r].others = p.others, ![r].raced = FALSE]
    /\ UNCHANGED <<pickRegime, column, link, said>>

(* GitHub is asked whether the pull request is still active; no answer is read *)
(* as yes.                                                                     *)
AskWhetherActive ==
  \E r \in Runs, ok \in BOOLEAN :
    /\ assigning[r].at = "chosen" /\ OrFails(ok)
    /\ assigning' = [assigning EXCEPT ![r].at = "writing", ![r].sure = ok,
                                      ![r].active = ok => link[assigning[r].pull].live]
    /\ UNCHANGED <<pickRegime, column, link, said>>

(* Mutation: an assignment comment is taken to be missing. *)
NeverSaid(n) == FALSE
AlreadySaid(n) == said[n] # {}
(* Mutation: the pull request is told whatever its state. *)
TellsAnyway(run) == TRUE
Tells(run) == run.active

(* update_task_internal and stamp_qa_on_pr_links, whether or not the first one *)
(* succeeded; a QA who was there already is neither written nor stamped, and   *)
(* told only when no comment has told them.                                    *)
WriteQa ==
  \E r \in Runs, ok \in BOOLEAN :
    LET run == assigning[r] n == run.pull IN
    /\ run.at = "writing" /\ OrFails(ok)
    /\ IF run.why = "had"
       THEN UNCHANGED <<column, link>>
       ELSE /\ column' = IF ok THEN [column EXCEPT ![n] = [qa |-> run.qa, by |-> "boardman"]] ELSE column
            /\ link' = IF link[n].live THEN [link EXCEPT ![n].qa = run.qa] ELSE link
    /\ assigning' =
         [s \in Runs |->
            IF s = r
            THEN IF ~Tells(run) \/ (run.why = "had" /\ ok /\ AlreadySaid(n)) THEN NoRun
                 ELSE [run EXCEPT !.at = "telling"]
            ELSE [assigning[s] EXCEPT !.raced = assigning[s].at # "idle"]]
    /\ UNCHANGED <<pickRegime, said>>

TellQa ==
  \E r \in Runs, ok \in BOOLEAN :
    LET run == assigning[r] IN
    /\ run.at = "telling" /\ OrFails(ok)
    /\ said' = IF ok THEN [said EXCEPT ![run.pull] = @ \cup {run.qa}] ELSE said
    /\ assigning' = [assigning EXCEPT ![r] = NoRun]
    /\ UNCHANGED <<pickRegime, column, link>>

(* ------------------------------------------------------------------ the world *)
PullEnds ==
  \E n \in Pulls :
    /\ link[n].live /\ SpendsPick("ends") /\ link' = [link EXCEPT ![n].live = FALSE]
    /\ assigning' = [r \in Runs |-> IF assigning[r].pull = n THEN [assigning[r] EXCEPT !.sure = FALSE]
                                    ELSE assigning[r]]
    /\ UNCHANGED <<pickRegime, column, said>>
PersonAssignsQa ==
  \E n \in Pulls, q \in Team :
    /\ SpendsPick("people") /\ column' = [column EXCEPT ![n] = [qa |-> q, by |-> "person"]]
    /\ UNCHANGED <<pickRegime, link, said, assigning>>
AssignerStops ==
  /\ SpendsPick("stops") /\ assigning' = [r \in Runs |-> NoRun]
  /\ UNCHANGED <<pickRegime, column, link, said>>

PickNext == BeginAssigning \/ Choose \/ AskWhetherActive \/ WriteQa \/ TellQa
            \/ PullEnds \/ PersonAssignsQa \/ AssignerStops
PickSpec == PickInit /\ [][PickNext]_pickVars

(* ---------------------------------------------------------------- properties *)
(* Nobody reviews their own pull request, by whichever way they were chosen.   *)
NobodyReviewsTheirOwn ==
  \A n \in Pulls : column[n].by = "boardman" => column[n].qa # pickRegime.pulls[n].author
(* A ranked choice is a QA who is no excluded lead, whose scope has the        *)
(* repository and whose tier reaches it, whichever evidence failed (a hard one *)
(* is open to the lowest tier when the file lists it as easy too); nobody whose *)
(* machine the file calls light, with nothing else to say otherwise, is given a *)
(* heavy repository.                                                           *)
RankedMayReview ==
  \A r \in Runs :
    LET run == assigning[r] IN
    run.why = "ranked" =>
      LET q == Of(run.qa) pull == pickRegime.pulls[run.pull] IN
      /\ q.isQa /\ ~q.excluded
      /\ pull.repo.name \in q.explicit \/ pull.repo.owner \in q.owners
      /\ q.tier >= 10 * pull.repo.tier
      /\ pull.repo.hard => q.tier >= 30 \/ (pull.repo.easy /\ q.tier < 20)
      /\ pull.repo.heavy /\ q.typed = "light" => ~({q.board, q.works} \subseteq {"", "light"})
(* The cap is passed only when everybody who could review had reached it, when *)
(* the counting failed, or when another assignment was written meanwhile.      *)
CapIsKept ==
  \A r \in Runs :
    LET run == assigning[r] IN
    run.at = "writing" /\ run.why = "ranked" /\ run.counted /\ ~run.raced =>
      \/ Workload[run.qa] < pickRegime.cap
      \/ \A o \in run.others : run.load[o] >= pickRegime.cap
PicksAreSound == NobodyReviewsTheirOwn /\ RankedMayReview /\ CapIsKept

(* What a run may do to a column, a comment or nobody at all: it fills a       *)
(* column that it read as filled for nobody; it tells a pull request that has  *)
(* ended only when it had not learned of that; a retry for a QA who was there  *)
(* does not tell again; as long as someone may review, it finds someone,       *)
(* though every piece of evidence fails; and nobody known, from all of it, to  *)
(* have a light machine is given a heavy repository.                           *)
FilledStays ==
  \A n \in Pulls :
    column'[n] # column[n] /\ column'[n].by = "boardman" =>
      \E r \in Runs : /\ assigning[r].at = "writing" /\ assigning[r].pull = n
                      /\ assigning[r].saw = NoQa \/ ~assigning[r].read
EndedAreNotTold ==
  \A n \in Pulls :
    said'[n] # said[n] =>
      \E r \in Runs : assigning[r].at = "telling" /\ assigning[r].pull = n
                      /\ (link[n].live \/ ~assigning[r].sure)
RetriesTellOnce ==
  \A r \in Runs :
    /\ assigning[r].at = "writing" /\ assigning[r].why = "had" /\ said[assigning[r].pull] # {}
    /\ assigning'[r].at = "telling"
    => pickLeft'.failures < pickLeft.failures
SomeoneIsFound ==
  \A r \in Runs :
    assigning[r].at = "choosing" /\ assigning'[r].at = "idle" /\ pickLeft'.stops = pickLeft.stops =>
      LET pull == pickRegime.pulls[assigning[r].pull] IN
      \A q \in Team :
        \/ ~Of(q).isQa \/ Of(q).excluded \/ q = pull.author \/ pull.repo.heavy
        \/ ~(pull.repo.name \in Of(q).explicit \/ pull.repo.owner \in Of(q).owners)
        \/ Of(q).tier < 30
StrongIsFound ==
  \A r \in Runs :
    /\ assigning[r].at = "choosing" /\ assigning'[r].why = "ranked"
    /\ pickLeft'.failures = pickLeft.failures
    /\ pickRegime.pulls[assigning[r].pull].repo.heavy
    => KnownTier(assigning'[r].qa, TRUE, TRUE) # "light"
AssignmentsAreFair ==
  [][FilledStays /\ EndedAreNotTold /\ RetriesTellOnce /\ SomeoneIsFound /\ StrongIsFound]_pickVars

=============================================================================
