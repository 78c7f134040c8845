------------------------------ MODULE TaskMatch ------------------------------
(* Finding the card of a pull request that names no issue: the candidates, the *)
(* evidence each of them scores, and the decision to link, to ask a language   *)
(* model, or to leave the pull request to triage (services/pr_task_linking.py).*)
EXTENDS Integers, FiniteSets, FiniteSetsExt

CONSTANTS MatchRegimes    (* the cards, the pull requests, and what happens      *)

VARIABLES matchRegime, matchLeft,
          shown,        (* the status of each card on the board                  *)
          claims,       (* the live link rows: pull request and card             *)
          history,      (* the sync log: every pull request ever linked to a card *)
          search        (* run_pr_task_pipeline of each pull request             *)
matchVars == <<matchRegime, matchLeft, shown, claims, history, search>>

High == 90
Medium == 50
Reach == 25             (* how far below the best the model may still choose     *)
NoCard == "none"
MatchPulls == DOMAIN matchRegime.pulls
Board == DOMAIN matchRegime.cards
Card(c) == matchRegime.cards[c]
Pull(n) == matchRegime.pulls[n]
NoSearch == [at |-> "idle", found |-> {}, score |-> <<>>, taken |-> {}, card |-> NoCard, by |-> "",
             listed |-> FALSE]

(* Titles that are alike, but not the same, get at most 25 points.             *)
ASSUME MatchAssumption ==
  \A g \in MatchRegimes :
    /\ IsFiniteSet(DOMAIN g.cards) /\ NoCard \notin DOMAIN g.cards
    /\ \A c \in DOMAIN g.cards :
         g.cards[c].long \in BOOLEAN /\ g.cards[c].status \in {"done", "active", "other"}
    /\ \A n \in DOMAIN g.pulls, c \in DOMAIN g.cards :
         g.pulls[n].like[c] \in [title : (0..25) \cup {100}, keywords : 0..20, branch : 0..45, body : 0..10,
                                 url : BOOLEAN, identity : Nat, named : BOOLEAN]
    /\ g.budget \in [searches : Nat, failures : Nat, moves : Nat, ends : Nat]

MatchInit ==
  /\ matchRegime \in MatchRegimes /\ matchLeft = matchRegime.budget
  /\ shown = [c \in Board |-> Card(c).status] /\ claims = {} /\ history = matchRegime.history
  /\ search = [n \in MatchPulls |-> NoSearch]

SpendsMatch(what) == matchLeft[what] > 0 /\ matchLeft' = [matchLeft EXCEPT ![what] = @ - 1]
OrGoesWrong(fine) == IF fine THEN UNCHANGED matchLeft ELSE SpendsMatch("failures")

(* ------------------------------------------------------------ gather_candidates *)
(* The cards that issue_task_map has for the repository, and, of the board's   *)
(* items, those of its group, those that name it, and those with any "#12".    *)
Mapped == {c \in Board : Card(c).mapped}
(* Mutation: whatever the board lists is a candidate. *)
WholeBoard == Board
OnBoard == {c \in Board : Card(c).group \/ Card(c).names \/ Card(c).numbers # {}}
Candidates(listed) == Mapped \cup (IF listed THEN OnBoard ELSE {})
(* _merge_candidate keeps the longer of two titles: for a mapped card that is  *)
(* "[repo] mapped issue #12", unless the card's own title is longer still.     *)
TitleIsSeen(c, listed) == listed /\ c \in OnBoard /\ (~Card(c).mapped \/ Card(c).long)
IssuesOf(c, listed) ==
  (IF Card(c).mapped THEN Card(c).issue ELSE {}) \cup (IF listed /\ c \in OnBoard THEN Card(c).numbers ELSE {})

(* ------------------------------------------------------------- score_candidate *)
IssuePoints(n, c, listed) ==
  LET named == Pull(n).refs their == IssuesOf(c, listed) IN
  IF named \cap their # {} THEN 100
  ELSE IF named # {} /\ their # {} THEN -55 ELSE 0
(* Mutation: an exact title is worth no more than a very similar one. *)
SimilarTitle(like, seen) == IF seen THEN Min({like.title, 25}) + like.keywords ELSE 0
TitlePoints(like, seen) ==
  IF ~seen THEN 0
  ELSE IF like.title = 100 THEN 95 ELSE like.title + like.keywords
(* Mutation: what another pull request is linked to is no matter. *)
NotTaken(taken) == 0
TakenPoints(taken) == IF taken THEN -40 ELSE 0
StatusPoints(status) == CASE status = "done" -> -30 [] status = "active" -> 15 [] OTHER -> 0
PersonPoints(identity) ==
  IF identity >= 6500 THEN 50 ELSE IF identity >= 5000 THEN 30 ELSE IF identity >= 3500 THEN 15 ELSE 0

(* The text of a card holds the URL of an issue that the pull request links to; *)
(* the pull request's title names the person of the card.                      *)
TextPoints(like) == like.body + (IF like.url THEN 25 ELSE 0)
NamePoints(like) == PersonPoints(like.identity) + (IF like.named THEN 20 ELSE 0)

Score(n, c, listed, users, taken) ==
  LET like == Pull(n).like[c]
      seen == TitleIsSeen(c, listed)
      known == listed /\ c \in OnBoard
  IN
  IssuePoints(n, c, listed) + TitlePoints(like, seen)
  + (IF seen THEN like.branch ELSE 0) + (IF known THEN TextPoints(like) ELSE 0)
  + TakenPoints(taken)
  + (IF known THEN StatusPoints(shown[c]) ELSE 0) + (IF known /\ users THEN NamePoints(like) ELSE 0)

(* -------------------------------------------------------- run_pr_task_pipeline *)
(* should_run_pipeline: not for a pull request whose title or body closes an   *)
(* issue; a number in the branch's name does not count.                        *)
ShouldSearch(n) == ~Pull(n).closes

Gather ==
  \E n \in MatchPulls, listed, users \in BOOLEAN :
    /\ search[n].at = "idle" /\ ShouldSearch(n) /\ matchLeft.searches > 0
    /\ (listed /\ users) \/ matchLeft.failures > 0
    /\ matchLeft' = [matchLeft EXCEPT !.searches = @ - 1,
                                      !.failures = IF listed /\ users THEN @ ELSE @ - 1]
    /\ search' = [search EXCEPT ![n] =
         [at |-> IF Candidates(listed) = {} THEN "idle" ELSE "found", found |-> Candidates(listed),
          score |-> [c \in Candidates(listed) |-> Score(n, c, listed, users, FALSE)], taken |-> {},
          card |-> NoCard, by |-> "", listed |-> listed]]
    /\ UNCHANGED <<matchRegime, shown, claims, history>>

(* _other_pr_linked_to_task: an open pull request of the repository, or any    *)
(* that the sync log ever linked to the card.                                  *)
Taken(n, c) == \E o \in MatchPulls \cup {0} : o # n /\ (<<o, c>> \in claims \/ <<o, c>> \in history)

(* Mutation: the model may choose among all that were found. *)
Everything(n, score) == DOMAIN score
MediumPool(n, score) ==
  {c \in DOMAIN score : score[c] >= Max({Medium, Max({score[d] : d \in DOMAIN score}) - Reach})}
(* _parse_rerank: only an id that was offered, and only when sure enough.      *)
Reranked(pool, answer) == IF answer \in pool THEN answer ELSE NoCard

Decide ==
  \E n \in MatchPulls :
    LET run == search[n]
        taken == {c \in run.found : Taken(n, c)}
        score == [c \in run.found |-> run.score[c] + TakenPoints(c \in taken)]
        best == Max({score[c] : c \in run.found})
        Ends(card, by) ==
          search' = [search EXCEPT ![n] = [run EXCEPT !.at = "decided", !.card = card, !.by = by,
                                                      !.score = score, !.taken = taken]]
    IN
    /\ run.at = "found"
    /\ \/ /\ best >= High /\ UNCHANGED matchLeft
          /\ \E c \in run.found : score[c] = best /\ Ends(c, "evidence")
       \/ /\ best < Medium /\ UNCHANGED matchLeft /\ Ends(NoCard, "triage")
       \/ /\ best \in Medium..(High - 1) /\ ~matchRegime.model /\ UNCHANGED matchLeft
          /\ Ends(NoCard, "triage")
       \/ /\ best \in Medium..(High - 1) /\ matchRegime.model
          /\ \E answer \in Board \cup {NoCard}, fine \in BOOLEAN :
               LET card == IF fine THEN Reranked(MediumPool(n, score), answer) ELSE NoCard IN
               /\ OrGoesWrong(fine) /\ (~fine => answer = NoCard)
               /\ Ends(card, IF card = NoCard THEN "triage" ELSE "model")
    /\ UNCHANGED <<matchRegime, shown, claims, history>>

(* The pull-request handler writes the link, and the sync log's row with it.   *)
LinkFound ==
  \E n \in MatchPulls :
    /\ search[n].at = "decided"
    /\ IF search[n].card = NoCard THEN UNCHANGED <<claims, history>>
       ELSE /\ claims' = claims \cup {<<n, search[n].card>>}
            /\ history' = history \cup {<<n, search[n].card>>}
    /\ search' = [search EXCEPT ![n].at = "done"]
    /\ UNCHANGED <<matchRegime, matchLeft, shown>>

(* ------------------------------------------------------------------ the world *)
CardMoves ==
  \E c \in Board, status \in {"done", "active", "other"} :
    /\ SpendsMatch("moves") /\ shown' = [shown EXCEPT ![c] = status]
    /\ UNCHANGED <<matchRegime, claims, history, search>>
PullIsClosed ==
  \E n \in MatchPulls :
    /\ SpendsMatch("ends") /\ claims' = {x \in claims : x[1] # n}
    /\ UNCHANGED <<matchRegime, shown, history, search>>

MatchNext == Gather \/ Decide \/ LinkFound \/ CardMoves \/ PullIsClosed
MatchSpec == MatchInit /\ [][MatchNext]_matchVars

(* ---------------------------------------------------------------- properties *)
Found(n) == search[n].at \in {"decided", "done"}
(* Nothing is linked on the model's word alone: its choice was offered, scored *)
(* enough, and had no rival that the evidence prefers by far.                  *)
ModelOnlyBreaksTies ==
  \A n \in MatchPulls :
    Found(n) /\ search[n].by = "model" =>
      /\ search[n].card \in search[n].found /\ search[n].score[search[n].card] >= Medium
      /\ \A c \in search[n].found : search[n].score[c] <= search[n].score[search[n].card] + Reach
(* A card that another pull request is, or was, linked to is not taken on one  *)
(* kind of evidence alone, be it the issue's number or the very same title.    *)
SpeaksFor(kind, n, c) ==
  LET like == Pull(n).like[c] IN
  \/ kind = "issue" /\ Pull(n).refs \cap IssuesOf(c, search[n].listed) # {}
  \/ kind = "title" /\ like.title > 0
  \/ kind = "branch" /\ like.branch > 0
  \/ kind = "text" /\ (like.body > 0 \/ like.url)
  \/ kind = "person" /\ (like.identity >= 3500 \/ like.named)
  \/ /\ kind = "status" /\ search[n].listed /\ c \in OnBoard
     /\ matchRegime.budget.moves > 0 \/ shown[c] = "active"
TakenNeedsMore ==
  \A n \in MatchPulls :
    Found(n) /\ search[n].by = "evidence" /\ search[n].card \in search[n].taken =>
      Cardinality({kind \in {"issue", "title", "branch", "text", "person", "status"} :
                     SpeaksFor(kind, n, search[n].card)}) >= 2
(* "Near-exact title match ... on its own it must clear the auto-link          *)
(* threshold": such a card, neither taken nor done nor of another issue, keeps *)
(* the pull request out of triage.                                             *)
OwnTitleLinks(n, c) ==
  /\ Pull(n).like[c].title = 100 /\ c \in OnBoard /\ search[n].listed
  /\ c \notin search[n].taken /\ Card(c).status # "done" /\ matchRegime.budget.moves = 0
  /\ IssuePoints(n, c, TRUE) >= 0
SameTitleLinks ==
  \A n \in MatchPulls, c \in Board :
    Found(n) /\ OwnTitleLinks(n, c) /\ (~Card(c).mapped \/ Card(c).long) => search[n].by = "evidence"
(* What is linked belongs to the repository by one of its marks, and nothing   *)
(* that closes an issue in writing is searched for at all.                     *)
LinkedIsAtHome ==
  \A x \in claims :
    /\ ~Pull(x[1]).closes
    /\ Card(x[2]).mapped \/ Card(x[2]).group \/ Card(x[2]).names \/ Card(x[2]).numbers # {}
(* A pull request that only its branch ties to an issue is searched for, and   *)
(* finds the card of that issue when there is one that nobody else has.        *)
BranchFindsItsCard ==
  \A n \in MatchPulls, c \in Board :
    Found(n) /\ search[n].by = "triage" /\ c \in search[n].found
      => c \in search[n].taken \/ Pull(n).refs \cap IssuesOf(c, search[n].listed) = {} \/ Card(c).status = "done"
         \/ matchRegime.budget.moves > 0
MatchesAreSound == ModelOnlyBreaksTies /\ TakenNeedsMore /\ SameTitleLinks /\ LinkedIsAtHome /\ BranchFindsItsCard

=============================================================================
