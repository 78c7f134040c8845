--------------------------- MODULE IdentityMatch ---------------------------
(* Who is who: the Plaky user of a GitHub account (assignment/identity_match.py, *)
(* llm_identity_match.py and resolve_github_user_to_plaky_user_id), and the team *)
(* member a typed name means (assignment/person_match.py). How alike two texts  *)
(* are is data, in percent; the bands, the caps and the refusals are the code's. *)
EXTENDS Integers, Sequences, FiniteSets, FiniteSetsExt

CONSTANTS IdentityRegimes  (* accounts, users, how alike they are, what goes wrong *)

VARIABLES idRegime, idLeft,
          present,      (* the users the Plaky workspace lists now               *)
          mapping,      (* the roster of team_assignments: account to user       *)
          remembered,   (* _cached_same_person: what the model said of a pair    *)
          asked,        (* account: the last answer and what it rests on         *)
          answers,      (* every answer by the score since the process started   *)
          typed         (* typed name: the entry it was taken for                *)
idVars == <<idRegime, idLeft, present, mapping, remembered, asked, answers, typed>>

NoOne == "nobody"
Failure == -1           (* the model's None: no answer, or one that cannot be read *)
LeastScore == 640
Margin == 45
LeastTyped == 620       (* scores of typed names are in thousandths               *)
TypedMargin == 80
Accounts == DOMAIN idRegime.like
WorkspaceUsers == idRegime.users
Alike(g, u) == idRegime.like[g][u]
Largest(S) == Max(S \cup {0})

(* How alike an account and a user are, a typed name and an entry of the       *)
(* roster; a login that is part of a name is worth 5200 points at the most.    *)
Logins == [same : BOOLEAN, part : BOOLEAN, like : 0..100]
FullNames == [whole : 0..100, surname : BOOLEAN, first : 0..100, plausible : BOOLEAN, words : 0..100]
Emails == [exact : BOOLEAN, whole : 0..100, local : 0..100, domain : BOOLEAN, gmail : BOOLEAN]
Likenesses ==
  [email : Emails, login : Logins, username : Logins, name : FullNames, boost : 0..5200, initial : Nat]
EntriesOf(ids) ==
  [id : ids, exact : BOOLEAN, given : BOOLEAN, token : BOOLEAN, variant : BOOLEAN, oneWord : BOOLEAN,
   like : 0..100, part : 0..100, name : FullNames]
ASSUME IdentityAssumption ==
  \A g \in IdentityRegimes :
    /\ IsFiniteSet(g.users) /\ NoOne \notin g.users
    /\ \A a \in DOMAIN g.like, u \in g.users : g.like[a][u] \in Likenesses
    /\ \A x \in g.says : x.sure \in 0..100
    /\ \A q \in DOMAIN g.names :
         /\ g.names[q] \in Seq(EntriesOf({g.names[q][k].id : k \in DOMAIN g.names[q]})) /\ g.names[q] # <<>>
         /\ \A k \in DOMAIN g.names[q] : g.names[q][k].id \notin {NoOne, "unsure"}

(* -------------------------------------------------------------- the channels *)
(* _email_pair_score: the addresses as a whole, then their local parts.        *)
WholeAddress(e) ==
  CASE e.whole >= 97 -> 8800 + e.whole
    [] e.whole \in 94..96 -> 8200 + (e.whole * 80) \div 100
    [] e.whole \in 90..93 -> 7400 + (e.whole * 60) \div 100
    [] e.whole \in 86..89 -> 6600 + (e.whole * 50) \div 100
    [] OTHER -> 0
LocalPart(e) ==
  CASE e.local = 100 -> IF e.domain THEN 9300 ELSE 8800
    [] e.local \in 94..99 -> 7800 + e.local
    [] e.local \in 88..93 -> 7000 + (e.local * 80) \div 100
    [] e.local \in 82..87 -> 6200 + (e.local * 60) \div 100
    [] OTHER -> 0
EmailScore(e) == IF e.exact THEN 10000 ELSE Largest({WholeAddress(e), LocalPart(e), IF e.gmail THEN 8900 ELSE 0})
StrongEmail(e) == e.exact \/ e.whole >= 90 \/ e.local >= 94 \/ e.gmail

(* _login_vs_local_score and _login_vs_username_score have the same bands.     *)
LoginScore(l) ==
  CASE l.same -> 9000 [] ~l.same /\ l.part -> 7600
    [] ~l.same /\ ~l.part /\ l.like >= 92 -> 6800 + 2 * l.like
    [] ~l.same /\ ~l.part /\ l.like \in 88..91 -> 6000 + 2 * l.like
    [] OTHER -> 0

(* _name_match_score: the whole names, then a shared surname with given names  *)
(* that agree more or less, then the words they share.                        *)
SurnameScore(n) ==
  CASE n.first = 100 -> 7400 [] n.first \in 86..99 -> 7200 + n.first
    [] n.first < 86 /\ n.plausible /\ n.first >= 48 -> 6800 + 2 * n.first
    [] ~n.plausible /\ n.first \in 72..85 -> 4800 + 4 * n.first
    [] OTHER -> 420
NameScore(n) ==
  CASE n.whole = 100 -> 8500
    [] n.whole \in 96..99 -> 8200 + n.whole [] n.whole \in 92..95 -> 7600 + n.whole
    [] n.whole \in 88..91 -> 6800 + (n.whole * 80) \div 100
    [] n.whole \in 82..87 -> 5800 + (n.whole * 80) \div 100
    [] n.whole < 82 /\ n.surname -> SurnameScore(n)
    [] n.whole < 82 /\ ~n.surname /\ n.words >= 66 -> 6500 + 4 * n.words
    [] n.whole < 82 /\ ~n.surname /\ n.words \in 50..65 -> 5200 + 4 * n.words
    [] OTHER -> 0
SurnameOnly(n) == NameScore(n) = 420

(* ---------------------------------------------------- score_github_vs_plaky *)
Login(a) == Largest({LoginScore(a.login), LoginScore(a.username)})
Evidence(a) == Largest({EmailScore(a.email), Login(a), NameScore(a.name), a.boost, a.initial})
Agreeing(a) ==
  (IF EmailScore(a.email) >= 6500 THEN 1 ELSE 0) + (IF Login(a) >= 6500 THEN 1 ELSE 0)
  + (IF NameScore(a.name) >= 6500 THEN 1 ELSE 0)
Bonus(a) ==
  CASE Agreeing(a) >= 2 -> 350
    [] Agreeing(a) = 1 /\ NameScore(a.name) >= 5600 /\ (EmailScore(a.email) >= 5000 \/ Login(a) >= 6000) -> 250
    [] OTHER -> 0
(* Mutation: a weak name counts like any other evidence. *)
NoNameCap(a) == 10000
OnlySurname(a) ==
  SurnameOnly(a.name) /\ Evidence(a) <= 5000 /\ ~StrongEmail(a.email) /\ Login(a) < 6000
OnlyWeakName(a) ==
  /\ ~StrongEmail(a.email) /\ EmailScore(a.email) < 5000 /\ NameScore(a.name) \in 1..5999
  /\ Largest({Login(a), a.initial, a.boost}) < 6000
Cap(a) == IF OnlySurname(a) THEN 580 ELSE IF OnlyWeakName(a) THEN 620 ELSE 10000
Uncertain(a) == Min({Evidence(a) + Bonus(a), Cap(a)})

(* The model is asked about a pair in the grey zone that no equal address      *)
(* settles, when it is enabled.                                               *)
GreyZone(a) == idRegime.model /\ ~a.email.exact /\ Uncertain(a) \in 380..8200
(* _parse_confidence: a stated verdict bounds the stated confidence.           *)
Confidence(answer) ==
  CASE answer.same = "yes" -> Largest({answer.sure, 72})
    [] answer.same = "no" -> Min({answer.sure, 35})
    [] answer.same = "unsaid" -> answer.sure
    [] OTHER -> Failure
Judged(a, confidence) ==
  Min({10000, CASE ~GreyZone(a) -> Uncertain(a)
                [] GreyZone(a) /\ confidence >= 82 -> Largest({Uncertain(a), 7600 + 21 * confidence})
                [] GreyZone(a) /\ confidence \in 0..30 -> Min({Uncertain(a), 460})
                [] OTHER -> Uncertain(a)})

(* lru_cache keeps what _cached_same_person returned, a failure's None too.    *)
(* Mutation: only an answer is remembered. *)
RemembersAnswers(known, fresh) ==
  [p \in DOMAIN known |-> IF p \in DOMAIN fresh /\ fresh[p] # Failure THEN {fresh[p]} ELSE known[p]]
Remembering(known, fresh) == [p \in DOMAIN known |-> IF p \in DOMAIN fresh THEN {fresh[p]} ELSE known[p]]

(* best_plaky_match_for_github: the best of them, unless another is as near.   *)
(* Mutation: the best score wins, whoever comes second. *)
ClearWinner(score, u) == score[u] >= LeastScore /\ \A v \in DOMAIN score : score[v] <= score[u]
Wins(score, u) == score[u] >= LeastScore /\ \A v \in DOMAIN score \ {u} : score[v] < score[u] - Margin
BestMatch(score) ==
  IF \E u \in DOMAIN score : Wins(score, u) THEN CHOOSE u \in DOMAIN score : Wins(score, u) ELSE NoOne

(* --------------------------------------- resolve_github_user_to_plaky_user_id *)
Linked(g) == {u \in present : idRegime.link[u] = g}
SpendsId(what) == idLeft[what] > 0 /\ idLeft' = [idLeft EXCEPT ![what] = @ - 1]

ResolveByRoster ==
  \E g \in Accounts :
    /\ mapping[g] # NoOne /\ SpendsId("asks")
    /\ asked' = [asked EXCEPT ![g] = [user |-> mapping[g], by |-> "roster"]]
    /\ UNCHANGED <<idRegime, present, mapping, remembered, answers, typed>>

(* Without a mapping, or when the roster cannot be loaded, the workspace's     *)
(* users: an explicit link, else the scores. The model is asked in passing.    *)
ResolveByUsers ==
  \E g \in Accounts, loaded, listed \in BOOLEAN :
    /\ mapping[g] = NoOne \/ ~loaded
    /\ idLeft.asks > 0 /\ ((loaded /\ listed) \/ idLeft.failures > 0)
    /\ idLeft' = [idLeft EXCEPT !.asks = @ - 1, !.failures = IF loaded /\ listed THEN @ ELSE @ - 1]
    /\ UNCHANGED <<idRegime, present, mapping, typed>>
    /\ IF ~listed \/ Linked(g) # {}
         THEN /\ asked' = [asked EXCEPT ![g] =
                   IF listed THEN [user |-> CHOOSE u \in Linked(g) : TRUE, by |-> "link"]
                             ELSE [user |-> NoOne, by |-> "outage"]]
              /\ UNCHANGED <<remembered, answers>>
         ELSE LET grey == {u \in present : GreyZone(Alike(g, u)) /\ remembered[<<g, u>>] = {}} IN
              \E said \in [{<<g, u>> : u \in grey} -> {Confidence(x) : x \in idRegime.says}] :
                LET knows == Remembering(remembered, said)
                    Heard(u) == IF <<g, u>> \in DOMAIN said THEN said[<<g, u>>]
                                ELSE Max({Failure} \cup remembered[<<g, u>>])
                    score == [u \in present |-> Judged(Alike(g, u), Heard(u))]
                    best == BestMatch(score)
                IN /\ remembered' = knows
                   /\ asked' = [asked EXCEPT ![g] = [user |-> best, by |-> "score"]]
                   /\ answers' = answers \cup {[account |-> g, among |-> present, user |-> best]}

(* --------------------------------------------------------- best_member_for_name *)
(* _score_one: the best of what a typed name shares with the member.           *)
TypedScore(t) ==
  LET graded == NameScore(t.name) IN
  IF t.exact THEN 1000
  ELSE Largest({IF t.given THEN 930 ELSE 0, IF t.token \/ t.variant THEN 900 ELSE 0,
                IF t.oneWord THEN 10 * t.like ELSE 0, IF t.oneWord THEN (97 * t.part) \div 10 ELSE 0,
                IF ~SurnameOnly(t.name) /\ graded >= 4800 THEN Min({1000, 800 + (graded - 4800) \div 13}) ELSE 0})
UniqueMembers(entries) == {k \in DOMAIN entries : \A j \in 1..(k - 1) : entries[j].id # entries[k].id}

TypeName ==
  \E q \in DOMAIN idRegime.names :
    LET entries == idRegime.names[q]
        score == [k \in UniqueMembers(entries) |-> TypedScore(entries[k])]
        first == {k \in DOMAIN score : \A j \in DOMAIN score : score[j] <= score[k] /\ (score[j] = score[k] => k <= j)}
        top == CHOOSE k \in first : TRUE
        rest == DOMAIN score \ {top}
        second == CHOOSE k \in rest : \A j \in rest : score[j] <= score[k] /\ (score[j] = score[k] => k <= j)
        near == rest # {} /\ entries[second].id # entries[top].id /\ score[top] - score[second] < TypedMargin
                /\ score[second] > 0
    IN /\ typed[q] = NoOne
       /\ typed' = [typed EXCEPT ![q] = IF score[top] >= LeastTyped /\ ~near THEN entries[top].id ELSE "unsure"]
       /\ UNCHANGED <<idRegime, idLeft, present, mapping, remembered, asked, answers>>

(* ------------------------------------------------------------------ the world *)
UserComesOrGoes ==
  \E u \in WorkspaceUsers :
    /\ SpendsId("changes") /\ present' = IF u \in present THEN present \ {u} ELSE present \cup {u}
    /\ UNCHANGED <<idRegime, mapping, remembered, asked, answers, typed>>
RosterIsBuilt ==
  \E g \in Accounts, u \in WorkspaceUsers \cup {NoOne} :
    /\ SpendsId("changes") /\ mapping' = [mapping EXCEPT ![g] = u]
    /\ UNCHANGED <<idRegime, present, remembered, asked, answers, typed>>
IdentityRestart ==
  /\ SpendsId("restarts") /\ remembered' = [p \in DOMAIN remembered |-> {}] /\ answers' = {}
  /\ UNCHANGED <<idRegime, present, mapping, asked, typed>>

IdentityInit ==
  /\ idRegime \in IdentityRegimes /\ idLeft = idRegime.budget
  /\ present = WorkspaceUsers /\ mapping = idRegime.mapping
  /\ remembered = [p \in Accounts \X WorkspaceUsers |-> {}]
  /\ asked = [g \in Accounts |-> [user |-> NoOne, by |-> ""]] /\ answers = {}
  /\ typed = [q \in DOMAIN idRegime.names |-> NoOne]
IdentityNext == ResolveByRoster \/ ResolveByUsers \/ TypeName \/ UserComesOrGoes \/ RosterIsBuilt \/ IdentityRestart
IdentitySpec == IdentityInit /\ [][IdentityNext]_idVars

(* ---------------------------------------------------------------- properties *)
(* Asked again about the same account and the same users, one process answers  *)
(* the same, although the model may say something else, or fail, each time.    *)
SameAnswerTwice ==
  \A x, y \in answers : x.account = y.account /\ x.among = y.among => x.user = y.user
(* A name that is only somewhat alike never decides: without a login, a strong *)
(* address or a model that is sure, the account stays unmatched.               *)
WeakNamesNeedMore ==
  \A x \in answers :
    x.user # NoOne /\ NameScore(Alike(x.account, x.user).name) \in 1..5999 =>
      LET a == Alike(x.account, x.user) IN
        \/ EmailScore(a.email) >= 5000 \/ Login(a) >= 6000 \/ a.initial >= 6000
        \/ remembered[<<x.account, x.user>>] \cap (82..100) # {}
(* Two users whom the evidence cannot tell apart are both refused.             *)
TwinsAreRefused ==
  \A x \in answers, u \in WorkspaceUsers :
    x.user # NoOne /\ u \in x.among \ {x.user} /\ ~idRegime.model
      => Uncertain(Alike(x.account, u)) < Uncertain(Alike(x.account, x.user)) - Margin
(* A typed name is taken for a person only when nobody else comes near: each   *)
(* is judged by the entry that is listed first, and is no rival of oneself.    *)
Judges(entries, k) == \A j \in 1..(k - 1) : entries[j].id # entries[k].id
SureOf(entries, who) ==
  LET first == {k \in DOMAIN entries : Judges(entries, k)} IN
  /\ \A k \in first : entries[k].id = who =>
       /\ TypedScore(entries[k]) >= LeastTyped
       /\ \A j \in first \ {k} :
            TypedScore(entries[j]) > 0 => TypedScore(entries[k]) - TypedScore(entries[j]) >= TypedMargin
  /\ who = "unsure" =>
       \A k \in first : TypedScore(entries[k]) >= LeastTyped =>
         \E j \in first \ {k} :
           TypedScore(entries[j]) > 0 /\ TypedScore(entries[k]) - TypedScore(entries[j]) < TypedMargin
TypedNamesAreSure == \A q \in DOMAIN idRegime.names : SureOf(idRegime.names[q], typed[q])
IdentitiesAreSound == SameAnswerTwice /\ WeakNamesNeedMore /\ TwinsAreRefused /\ TypedNamesAreSure
=============================================================================
