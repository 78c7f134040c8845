--------------------------- MODULE ActivityProofs ---------------------------
(***************************************************************************)
(* What becomes of GitHub's activity, for any number of workers, people,   *)
(* pull requests, cards, comments, commits and days, any threshold and any *)
(* board: first the reviews, and then the archive, the comments mirrored   *)
(* on cards and the board of open pull requests, each of which has an      *)
(* inductive invariant of its own.                                         *)
(***************************************************************************)
EXTENDS MCActivity, FiniteSetTheorems, SequenceTheorems, TLAPS

-----------------------------------------------------------------------------
(* Reviews.                                                                *)
(*                                                                         *)
(* The invariants say of every event still to be handled what it leaves    *)
(* for the events behind it to put right, and of a verdict on the board    *)
(* that the push which outdates it is on its way.                          *)

(* An event of this kind waits behind position i, or is at work. *)
Later(i, kind)   == \E j \in DOMAIN mail : j > i /\ mail[j].kind = kind
Working(w, kind) == handling[w].busy /\ handling[w].event.kind = kind
Coming(w, kind)  == Later(0, kind) \/ Working(w, kind)
Absent(kind)     == ~Later(0, kind) /\ \A w \in Workers : ~Working(w, kind)

(* Whatever is in S has an event of this kind behind it. *)
Followed(S, kind, w) ==
  /\ \A i \in DOMAIN mail : mail[i] \in S => Later(i, kind)
  /\ handling[w].busy /\ handling[w].event \in S => Later(0, kind)

(* The current number of commits has yet to be told. *)
PushComing(w) ==
  \/ \E i \in DOMAIN mail : mail[i].kind = "pushed" /\ mail[i].commits = head.commits
  \/ Working(w, "pushed") /\ handling[w].event.commits = head.commits

(* Where an event of a kind may put a card. *)
GoesTo(kind) ==
  CASE kind = "approved" -> {"verified"}
    [] kind = "changes"  -> {"rejected"}
    [] kind \in {"commented", "dismissed", "inline"} -> {"in_qa"}
    [] kind = "comment"  -> {"in_progress", "in_qa"}
    [] kind = "pause"    -> {"paused"}
    [] kind = "mention"  -> {NeedsQaAgain, "in_progress", "in_qa"}
    [] kind = "pushed"   -> {NeedsQaAgain, "in_progress"}
    [] kind \in {"draft", "closed"} -> {"in_progress"}
    [] kind \in {"ready", "unrequested"} -> {"needs_qa"}
    [] kind = "merged"   -> {"completed"}
    [] kind = "deployed" -> {"deployed"}

PlansGo ==
  \A w \in Workers : handling[w].busy =>
    \A c \in ReviewCards : handling[w].plan[c] \in GoesTo(handling[w].event.kind) \cup {Keep}

Happened ==
  /\ \A i \in DOMAIN mail : mail[i].kind \in reviewRegime.happen
  /\ \A w \in Workers : handling[w].busy => handling[w].event.kind \in reviewRegime.happen

OthersIdle == \A w \in Workers \ reviewRegime.workers : handling[w] = Idle

EndsOnce ==
  /\ head.state # "merged" => Absent("merged") /\ ~announced /\ link.state # "merged"
  /\ head.state # "closed" => Absent("closed") /\ link.state # "withdrawn"

Answered ==
  /\ left.unread <= reviewRegime.budget.unread
  /\ Heard => \A w \in Workers : handling[w].busy => handling[w].answered

(* The pull request, its link and history have all their fields. *)
Heads == [state : {"draft", "ready", "closed", "merged"}, commits : Nat, green : BOOLEAN]
Pasts == [approvals : SUBSET People, judged : Nat, asked : BOOLEAN, spoken : BOOLEAN,
          overtaken : BOOLEAN, rewritten : BOOLEAN]
Links == [state : {"live", "withdrawn", "merged"}, reviewed : BOOLEAN, baseline : Nat]

Typed == ReviewTypeOK /\ head \in Heads /\ past \in Pasts /\ link \in Links

BaseInv ==
  /\ Typed /\ PlansGo /\ Happened /\ OthersIdle /\ EndsOnce /\ Answered

NoDraft == ~Later(0, "draft") /\ \A w \in Workers : ~Working(w, "draft")
DraftsInTurn == "draft" \in reviewRegime.happen => reviewRegime.inOrder

(* The completion is on its way, and is the first. *)
MergeComes ==
  /\ head.state = "merged" /\ ~announced =>
       Later(0, "merged") \/ \E w \in Workers : Working(w, "merged")
  /\ ~announced => \A w \in Workers : Working(w, "merged") =>
       \A c \in Linked : handling[w].plan[c] = "completed"

(* No turn to draft comes after the merge. *)
MergeIsLast ==
  reviewRegime.inOrder =>
    /\ \A i \in DOMAIN mail : mail[i].kind = "merged" => ~Later(i, "draft")
    /\ (\E w \in Workers : Working(w, "merged")) => ~Later(0, "draft")

(* After it was written, nobody will resume a card. *)
MergeStands ==
  announced /\ Heard /\ ~past.overtaken /\ DraftsInTurn =>
    /\ link.state = "merged" /\ NoDraft
    /\ \A c \in Linked : place[c] # "in_progress"
    /\ \A w \in Workers : handling[w].busy =>
         \A c \in Linked : handling[w].plan[c] # "in_progress"

MergeInv == MergeComes /\ MergeIsLast /\ MergeStands

(* What a lone worker has planned is still what it would plan. *)
PlanStands(w) ==
  handling[w].busy =>
    LET job == handling[w] IN
    /\ job.event.kind \notin CommentKinds \cup {"approved"} =>
         job.plan = PlanFor(job.event, job.answered)
    /\ \A c \in Linked : job.event.kind \in CommentKinds /\ job.plan[c] = "in_progress" =>
         place[c] \in Verdicts

VerdictsAreLinked ==
  Heard /\ Open =>
    /\ past.judged = IF link.reviewed THEN link.baseline ELSE 0
    /\ \A c \in Linked : place[c] \in Verdicts => link.reviewed

JudgedBefore == ~past.rewritten => past.judged <= head.commits

NewCommitsAreTold(w) ==
  Heard /\ Open =>
    \A c \in Linked :
      /\ place[c] \in Verdicts /\ head.commits > past.judged => PushComing(w)
      /\ /\ reviewRegime.inOrder /\ head.state = "ready" /\ past.judged > 0
         /\ place[c] \in Verdicts \cup {"in_progress"}
         /\ head.commits > past.judged + EscalateAfter
         => PushComing(w) \/ Coming(w, "ready")

DraftEnds(w) ==
  reviewRegime.inOrder /\ head.state = "ready" => Followed({m \in Mail : m.kind = "draft"}, "ready", w)

VerdictInv ==
  /\ VerdictsAreLinked /\ JudgedBefore
  /\ Serial => \A w \in reviewRegime.workers :
       PlanStands(w) /\ NewCommitsAreTold(w) /\ DraftEnds(w)

ApprovalsHold(w) ==
  /\ Followed({m \in Mail : m.kind = "approved" /\ m.who \notin past.approvals}, "dismissed", w)
  /\ past.approvals # {} \/ Coming(w, "dismissed") \/ \A c \in Linked : place[c] # "verified"

Asks == {m \in Mail : m.kind \in {"ready", "unrequested", "mention"}}
DraftWaitsNot(w) ==
  head.state = "draft" /\ ~past.asked =>
    /\ Followed(Asks, "draft", w)
    /\ PushesAsk \/ Coming(w, "draft") \/ \A c \in Linked : place[c] # "needs_qa"

Earlier == {m \in Mail : m.kind # "closed"}
ClosedRests(w) ==
  head.state = "closed" /\ ~past.spoken =>
    /\ Followed(Earlier, "closed", w)
    /\ Coming(w, "closed") \/ \A c \in Linked : place[c] \notin Queues

QueueInv ==
  Serial /\ reviewRegime.inOrder /\ Heard =>
    \A w \in reviewRegime.workers : ApprovalsHold(w) /\ DraftWaitsNot(w) /\ ClosedRests(w)
ReviewInv == BaseInv /\ MergeInv /\ VerdictInv /\ QueueInv

-----------------------------------------------------------------------------
LEMMA MailTyped ==
  ASSUME ReviewTypeOK
  PROVE  /\ DOMAIN mail = 1 .. Len(mail) /\ Len(mail) \in Nat
         /\ \A i \in DOMAIN mail : mail[i] \in Mail
         /\ \A w \in Workers : handling[w].busy =>
              /\ handling[w].event \in Mail /\ handling[w].plan \in Plans
              /\ handling[w].answered \in BOOLEAN
<1>1. mail \in Seq(Mail)
  BY DEF ReviewTypeOK
<1>2. /\ DOMAIN mail = 1 .. Len(mail) /\ Len(mail) \in Nat
      /\ \A i \in DOMAIN mail : mail[i] \in Mail
  BY <1>1
<1>3. ASSUME NEW w \in Workers, handling[w].busy
      PROVE  /\ handling[w].event \in Mail /\ handling[w].plan \in Plans
             /\ handling[w].answered \in BOOLEAN
  <2>1. handling[w] # Idle
    BY <1>3 DEF Idle
  <2>2. handling[w] \in [busy : {TRUE}, event : Mail, plan : Plans, answered : BOOLEAN]
    BY <2>1 DEF ReviewTypeOK
  <2>3. QED
    BY <2>2
<1>4. QED
  BY <1>2, <1>3

(* The lone worker. *)
LEMMA TheWorker ==
  ASSUME ReviewTypeOK, Serial
  PROVE  \E w \in Workers : reviewRegime.workers = {w}
<1>1. reviewRegime.workers \subseteq Workers
  BY ReviewAssumption DEF ReviewTypeOK, ReviewRegime
<1>2. IsFiniteSet(reviewRegime.workers)
  BY <1>1, ReviewAssumption, FS_Subset
<1>3. \E x : reviewRegime.workers = {x}
  BY <1>2, FS_Singleton DEF Serial
<1>4. QED
  BY <1>1, <1>3

(* An event that is taken from the mail, or stays in it. *)
LEMMA MailTaken ==
  ASSUME mail \in Seq(Mail), NEW i \in DOMAIN mail, mail' = RemoveAt(mail, i)
  PROVE  /\ mail' \in Seq(Mail) /\ DOMAIN mail' = 1 .. Len(mail) - 1
         /\ \A j \in DOMAIN mail' :
              /\ j < i => mail'[j] = mail[j]
              /\ j >= i => mail'[j] = mail[j + 1]
<1>1. /\ DOMAIN mail = 1 .. Len(mail) /\ Len(mail) \in Nat /\ i \in 1 .. Len(mail)
  OBVIOUS
<1> DEFINE front == SubSeq(mail, 1, i - 1)  back == SubSeq(mail, i + 1, Len(mail))
<1>2. /\ front \in Seq(Mail) /\ Len(front) = i - 1
      /\ \A j \in 1 .. i - 1 : front[j] = mail[j]
  BY <1>1, SubSeqProperties
<1>3. /\ back \in Seq(Mail) /\ Len(back) = Len(mail) - i
      /\ \A j \in 1 .. Len(mail) - i : back[j] = mail[i + j]
  BY <1>1, SubSeqProperties
<1>4. mail' = front \o back
  BY DEF RemoveAt
<1> HIDE DEF front, back
<1>5. /\ mail' \in Seq(Mail) /\ Len(mail') = Len(mail) - 1
      /\ \A j \in 1 .. i - 1 : mail'[j] = front[j]
      /\ \A j \in i .. Len(mail) - 1 : mail'[j] = back[j - (i - 1)]
  <2>0. /\ front \o back \in Seq(Mail) /\ Len(front \o back) = Len(front) + Len(back)
        /\ \A j \in 1 .. Len(front) + Len(back) :
             (front \o back)[j] = IF j <= Len(front) THEN front[j] ELSE back[j - Len(front)]
    BY <1>2, <1>3, ConcatProperties
  <2>1. /\ mail' \in Seq(Mail) /\ Len(mail') = Len(front) + Len(back)
        /\ \A j \in 1 .. Len(mail') :
             mail'[j] = IF j <= Len(front) THEN front[j] ELSE back[j - Len(front)]
    BY <1>4, <2>0
  <2>2. Len(mail') = Len(mail) - 1
    BY <1>1, <1>2, <1>3, <2>1
  <2>3. ASSUME NEW j \in 1 .. i - 1 PROVE mail'[j] = front[j]
    BY <1>1, <1>2, <2>1, <2>2
  <2>4. ASSUME NEW j \in i .. Len(mail) - 1 PROVE mail'[j] = back[j - (i - 1)]
    BY <1>1, <1>2, <2>1, <2>2
  <2>5. QED
    BY <2>1, <2>2, <2>3, <2>4
<1>6. \A j \in i .. Len(mail) - 1 : j - (i - 1) \in 1 .. Len(mail) - i /\ i + (j - (i - 1)) = j + 1
  BY <1>1
<1>7. DOMAIN mail' = 1 .. Len(mail) - 1
  BY <1>1, <1>5
<1>8. ASSUME NEW j \in DOMAIN mail', j < i PROVE mail'[j] = mail[j]
  <2>1. j \in 1 .. i - 1
    BY <1>1, <1>7, <1>8
  <2>2. QED
    BY <1>2, <1>5, <2>1
<1>9. ASSUME NEW j \in DOMAIN mail', j >= i PROVE mail'[j] = mail[j + 1]
  <2>1. j \in i .. Len(mail) - 1
    BY <1>1, <1>7, <1>9
  <2>2. QED
    BY <1>3, <1>5, <1>6, <2>1
<1>10. QED
  BY <1>5, <1>7, <1>8, <1>9

LEMMA MailSent ==
  ASSUME mail \in Seq(Mail), NEW m \in Mail, mail' = Append(mail, m)
  PROVE  /\ mail' \in Seq(Mail) /\ DOMAIN mail' = 1 .. Len(mail) + 1
         /\ \A j \in DOMAIN mail : mail'[j] = mail[j]
         /\ mail'[Len(mail) + 1] = m
<1>1. DOMAIN mail = 1 .. Len(mail) /\ Len(mail) \in Nat
  OBVIOUS
<1>2. QED
  BY <1>1, AppendProperties

LEMMA LaterTaken ==
  ASSUME ReviewTypeOK, NEW i \in DOMAIN mail, mail' = RemoveAt(mail, i), NEW k
  PROVE  /\ Later(0, k)' => Later(0, k)
         /\ Later(0, k) => Later(0, k)' \/ mail[i].kind = k
         /\ i = 1 => \A j \in Nat : Later(j, k)' <=> Later(j + 1, k)
<1>1. /\ DOMAIN mail = 1 .. Len(mail) /\ Len(mail) \in Nat
      /\ DOMAIN mail' = 1 .. Len(mail) - 1
      /\ \A j \in DOMAIN mail' :
           /\ j < i => mail'[j] = mail[j]
           /\ j >= i => mail'[j] = mail[j + 1]
  BY MailTyped, MailTaken DEF ReviewTypeOK
<1>2. ASSUME Later(0, k)' PROVE Later(0, k)
  <2>1. PICK n \in DOMAIN mail' : mail'[n].kind = k
    BY <1>2 DEF Later
  <2>2. n \in DOMAIN mail /\ n + 1 \in DOMAIN mail /\ n > 0 /\ n + 1 > 0
    BY <1>1
  <2>3. mail[n].kind = k \/ mail[n + 1].kind = k
    BY <1>1, <2>1, <2>2
  <2>4. QED
    BY <2>2, <2>3 DEF Later
<1>3. ASSUME Later(0, k), mail[i].kind # k PROVE Later(0, k)'
  <2>1. PICK n \in DOMAIN mail : mail[n].kind = k
    BY <1>3 DEF Later
  <2>2. CASE n < i
    <3>1. n \in DOMAIN mail' /\ mail'[n] = mail[n] /\ n > 0
      BY <1>1, <2>2
    <3>2. QED
      BY <2>1, <3>1 DEF Later
  <2>3. CASE n > i
    <3>1. n - 1 \in DOMAIN mail' /\ n - 1 >= i /\ (n - 1) + 1 = n /\ n - 1 > 0
      BY <1>1, <2>3
    <3>2. mail'[n - 1] = mail[n]
      BY <1>1, <3>1
    <3>3. QED
      BY <2>1, <3>1, <3>2 DEF Later
  <2>4. QED
    BY <1>1, <1>3, <2>1, <2>2, <2>3
<1>4. ASSUME i = 1, NEW j \in Nat, Later(j, k)' PROVE Later(j + 1, k)
  <2>1. PICK n \in DOMAIN mail' : n > j /\ mail'[n].kind = k
    BY <1>4 DEF Later
  <2>2. n + 1 \in DOMAIN mail /\ n + 1 > j + 1 /\ mail[n + 1].kind = k
    BY <1>1, <1>4, <2>1
  <2>3. QED
    BY <2>2 DEF Later
<1>5. ASSUME i = 1, NEW j \in Nat, Later(j + 1, k) PROVE Later(j, k)'
  <2>1. PICK n \in DOMAIN mail : n > j + 1 /\ mail[n].kind = k
    BY <1>5 DEF Later
  <2>2. n - 1 \in DOMAIN mail' /\ n - 1 > j /\ n - 1 >= i /\ (n - 1) + 1 = n
    BY <1>1, <1>5, <2>1
  <2>3. mail'[n - 1] = mail[n]
    BY <1>1, <2>2
  <2>4. QED
    BY <2>1, <2>2, <2>3 DEF Later
<1>6. QED
  BY <1>2, <1>3, <1>4, <1>5

LEMMA LaterSent ==
  ASSUME ReviewTypeOK, NEW m \in Mail, mail' = Append(mail, m)
  PROVE  /\ \A j \in Nat : \A k : Later(j, k) => Later(j, k)'
         /\ \A j \in DOMAIN mail : Later(j, m.kind)'
         /\ \A j \in Nat : \A k : Later(j, k)' => Later(j, k) \/ m.kind = k
         /\ Later(0, m.kind)'
<1>1. /\ DOMAIN mail = 1 .. Len(mail) /\ Len(mail) \in Nat
      /\ DOMAIN mail' = 1 .. Len(mail) + 1
      /\ \A j \in DOMAIN mail : mail'[j] = mail[j]
      /\ mail'[Len(mail) + 1] = m
  BY MailTyped, MailSent DEF ReviewTypeOK
<1>2. ASSUME NEW j \in Nat, NEW k, Later(j, k) PROVE Later(j, k)'
  BY <1>1, <1>2 DEF Later
<1>3. Len(mail) + 1 \in DOMAIN mail' /\ Len(mail) + 1 > 0 /\ \A j \in DOMAIN mail : Len(mail) + 1 > j
  BY <1>1
<1>4. ASSUME NEW j \in Nat, NEW k, Later(j, k)' PROVE Later(j, k) \/ m.kind = k
  <2>1. PICK n \in DOMAIN mail' : n > j /\ mail'[n].kind = k
    BY <1>4 DEF Later
  <2>2. n \in DOMAIN mail \/ n = Len(mail) + 1
    BY <1>1
  <2>3. QED
    BY <1>1, <2>1, <2>2 DEF Later
<1>5. QED
  BY <1>1, <1>2, <1>3, <1>4 DEF Later

-----------------------------------------------------------------------------
(* Plans. *)
LEMMA PlansTo ==
  ASSUME NEW p \in BoardPlaces, NEW cs
  PROVE  /\ To(p, cs) \in Plans
         /\ \A c \in ReviewCards : To(p, cs)[c] = IF c \in cs THEN p ELSE Keep
BY DEF To, Plans

LEMMA NothingPlanned ==
  Nothing \in Plans /\ \A c \in ReviewCards : Nothing[c] = Keep
BY DEF Nothing, To, Plans, BoardPlaces

(* A handler puts cards where its kind of event goes. *)
LEMMA PlansGoWhereTheyMay ==
  ASSUME NEW e \in Mail, NEW answered \in BOOLEAN
  PROVE  /\ PlanFor(e, answered) \in Plans
         /\ \A c \in ReviewCards : PlanFor(e, answered)[c] \in GoesTo(e.kind) \cup {Keep}
<1> DEFINE p == PlanFor(e, answered)
<1> DEFINE Goes2(q) == q \in Plans /\ \A c \in ReviewCards : q[c] \in GoesTo(e.kind) \cup {Keep}
<1>1. ASSUME NEW x \in BoardPlaces \cap GoesTo(e.kind), NEW cs PROVE Goes2(To(x, cs))
  BY <1>1, PlansTo
<1>2. Goes2(Nothing)
  BY NothingPlanned
<1>3. e.kind \in AllKinds
  BY DEF Mail
<1> SUFFICES Goes2(p)
  OBVIOUS
<1> HIDE DEF Goes2
<1>4. CASE e.kind = "approved"
  BY <1>1, <1>2, <1>4 DEF PlanFor, ReviewKinds, CommentKinds, ReviewPlan, GoesTo, BoardPlaces, Verdicts
<1>5. CASE e.kind = "changes"
  BY <1>1, <1>2, <1>5 DEF PlanFor, ReviewKinds, CommentKinds, ReviewPlan, GoesTo, BoardPlaces, Verdicts
<1>6. CASE e.kind = "commented"
  BY <1>1, <1>2, <1>6 DEF PlanFor, ReviewKinds, CommentKinds, ReviewPlan, GoesTo, BoardPlaces, Queues
<1>7. CASE e.kind = "dismissed"
  BY <1>1, <1>7 DEF PlanFor, ReviewKinds, CommentKinds, DismissedPlan, GoesTo, BoardPlaces, Queues
<1>8. CASE e.kind = "inline"
  BY <1>1, <1>2, <1>8 DEF PlanFor, ReviewKinds, CommentKinds, InlinePlan, GoesTo, BoardPlaces, Queues
<1>9. CASE e.kind \in CommentKinds
  <2>1. p = CommentPlan(e, answered)
    BY <1>9 DEF PlanFor, ReviewKinds, CommentKinds
  <2>2. CASE e.kind = "pause"
    <3>1. "paused" \in BoardPlaces \cap GoesTo(e.kind)
      BY <2>2 DEF GoesTo, BoardPlaces
    <3>2. QED
      BY <1>1, <1>2, <2>1, <2>2, <3>1 DEF CommentPlan
  <2>3. CASE e.kind \in {"mention", "comment"}
    <3>1. {"in_progress", "in_qa"} \subseteq BoardPlaces \cap GoesTo(e.kind)
      BY <2>3 DEF GoesTo, BoardPlaces, Queues
    <3>2. e.kind = "mention" => NeedsQaAgain \in BoardPlaces \cap GoesTo(e.kind)
      BY DEF GoesTo, BoardPlaces, Queues, NeedsQaAgain
    <3>3. QED
      BY <1>1, <1>2, <2>1, <2>3, <3>1, <3>2 DEF CommentPlan
  <2>4. QED
    BY <1>9, <2>2, <2>3 DEF CommentKinds
<1>10. CASE e.kind = "pushed"
  <2>1. NeedsQaAgain \in BoardPlaces \cap GoesTo(e.kind) /\ "in_progress" \in BoardPlaces \cap GoesTo(e.kind)
    BY <1>10 DEF GoesTo, BoardPlaces, Queues, NeedsQaAgain
  <2>2. p = PushedPlan(e)
    BY <1>10 DEF PlanFor, ReviewKinds, CommentKinds
  <2>3. QED
    BY <1>1, <1>2, <2>1, <2>2 DEF PushedPlan
<1>11. CASE e.kind = "draft"
  BY <1>1, <1>11 DEF PlanFor, ReviewKinds, CommentKinds, DraftPlan, GoesTo, BoardPlaces
<1>12. CASE e.kind = "ready"
  BY <1>1, <1>12 DEF PlanFor, ReviewKinds, CommentKinds, ReadyPlan, GoesTo, BoardPlaces, Queues
<1>13. CASE e.kind = "unrequested"
  BY <1>1, <1>13 DEF PlanFor, ReviewKinds, CommentKinds, UnrequestedPlan, GoesTo, BoardPlaces, Queues
<1>14. CASE e.kind = "closed"
  BY <1>1, <1>14 DEF PlanFor, ReviewKinds, CommentKinds, ClosedPlan, GoesTo, BoardPlaces
<1>15. CASE e.kind = "merged"
  BY <1>1, <1>2, <1>15 DEF PlanFor, ReviewKinds, CommentKinds, MergedPlan, GoesTo, BoardPlaces
<1>16. CASE e.kind = "deployed"
  BY <1>1, <1>16 DEF PlanFor, ReviewKinds, CommentKinds, DeployedPlan, GoesTo, BoardPlaces
<1>17. QED
  BY <1>3, <1>4, <1>5, <1>6, <1>7, <1>8, <1>9, <1>10, <1>11, <1>12, <1>13, <1>14, <1>15, <1>16
  DEF AllKinds, ReviewKinds, PullKinds

-----------------------------------------------------------------------------
(* What a step of ReviewNext is. *)
Job(e, answered) ==
  [busy |-> TRUE, event |-> e, plan |-> PlanFor(e, answered), answered |-> answered]

TookEvent(w, i, answered) ==
  /\ answered \in BOOLEAN /\ ~handling[w].busy
  /\ reviewRegime.inOrder => i = 1
  /\ handling' = [handling EXCEPT ![w] = Job(mail[i], answered)]
  /\ mail' = mail \/ mail' = RemoveAt(mail, i)
  /\ left' \in ReviewBudget
  /\ IF answered THEN left'.unread = left.unread
     ELSE left.unread > 0 /\ left'.unread = left.unread - 1
  /\ UNCHANGED <<reviewRegime, head, place, link, announced, past>>

(* What GitHub does, as it tells it. *)
GitHubTells(kind, who) ==
  /\ kind \in reviewRegime.happen /\ kind \in AllKinds /\ who \in People
  /\ mail' = Append(mail, [kind |-> kind, who |-> who, commits |-> head'.commits])
  /\ UNCHANGED <<reviewRegime, handling, place, link, announced>>
  /\ left' \in ReviewBudget /\ left'.unread = left.unread
  /\ head' \in Heads /\ past' \in Pasts
  /\ head'.state = IF kind \in {"draft", "ready", "closed", "merged"} THEN kind ELSE head.state
  /\ kind = "draft" => head.state = "ready"
  /\ kind = "ready" => head.state = "draft"
  /\ kind = "deployed" => head.state = "merged"
  /\ kind \in ReviewKinds \cup {"pushed", "unrequested", "closed", "merged"} => Open
  /\ kind # "pushed" => head'.commits = head.commits
  /\ past'.judged = past.judged /\ past'.overtaken = past.overtaken
  /\ ~past'.rewritten => ~past.rewritten /\ head.commits <= head'.commits
  /\ past'.approvals = IF kind = "approved" THEN past.approvals \cup {who}
                       ELSE IF kind = "dismissed" THEN past.approvals \ {who}
                       ELSE past.approvals
  /\ past'.asked <=> kind # "draft" /\ (past.asked \/ kind \in {"mention", "unrequested"})
  /\ past'.spoken <=>
       /\ kind \notin {"closed", "merged"}
       /\ past.spoken \/ kind \in ReviewKinds \cup CommentKinds \cup {"inline", "dismissed"}

LEMMA LookTakes ==
  ASSUME ReviewTypeOK, NEW w \in Workers, NEW i \in DOMAIN mail, Looks(w, i)
  PROVE  \E answered \in BOOLEAN : TookEvent(w, i, answered)
<1>1. PICK answered \in BOOLEAN :
        /\ handling' = [handling EXCEPT ![w] = Job(mail[i], answered)]
        /\ \/ /\ mail' = RemoveAt(mail, i)
              /\ IF answered THEN UNCHANGED left
                 ELSE left.unread > 0 /\ left' = [left EXCEPT !.unread = @ - 1]
           \/ /\ answered /\ left.repeats > 0
              /\ left' = [left EXCEPT !.repeats = @ - 1]
              /\ UNCHANGED mail
  BY DEF Looks, Job
<1>2. left \in ReviewBudget
  BY DEF ReviewTypeOK
<1>3. /\ left' \in ReviewBudget
      /\ IF answered THEN left'.unread = left.unread
         ELSE left.unread > 0 /\ left'.unread = left.unread - 1
  <2>1. CASE UNCHANGED left /\ answered
    BY <1>2, <2>1
  <2>2. CASE left.unread > 0 /\ left' = [left EXCEPT !.unread = @ - 1] /\ ~answered
    BY <1>2, <2>2 DEF ReviewBudget
  <2>3. CASE left.repeats > 0 /\ left' = [left EXCEPT !.repeats = @ - 1] /\ answered
    BY <1>2, <2>3 DEF ReviewBudget
  <2>4. QED
    BY <1>1, <2>1, <2>2, <2>3
<1>4. TookEvent(w, i, answered)
  BY <1>1, <1>3 DEF TookEvent, Looks
<1>5. QED
  BY <1>4

LEMMA SendingSpends ==
  ASSUME ReviewTypeOK, NEW kind, NEW who, Sent(kind, who)
  PROVE  /\ left' \in ReviewBudget /\ left'.unread = left.unread
         /\ kind \in reviewRegime.happen /\ who \in People
         /\ mail' = Append(mail, [kind |-> kind, who |-> who, commits |-> head'.commits])
         /\ UNCHANGED <<reviewRegime, handling, place, link, announced>>
<1>1. left \in ReviewBudget /\ left.changes > 0 /\ left' = [left EXCEPT !.changes = @ - 1]
  BY DEF ReviewTypeOK, Sent
<1>2. left' \in ReviewBudget /\ left'.unread = left.unread
  BY <1>1 DEF ReviewBudget
<1>3. reviewRegime.people \subseteq People
  BY ReviewAssumption DEF ReviewTypeOK, ReviewRegime
<1>4. QED
  BY <1>2, <1>3 DEF Sent

GitHubActs ==
  \/ \E who \in reviewRegime.people :
       \/ \E kind \in ReviewKinds : Reviews(kind, who)
       \/ \E kind \in CommentKinds \cup {"inline"} : Comments(kind, who)
       \/ Dismisses(who)
  \/ Pushes \/ Rewrites \/ TurnsDraft \/ TurnsReady \/ Unrequests
  \/ Closes("closed") \/ Closes("merged") \/ Deploys

LEMMA GitHubIsHeard ==
  ASSUME Typed, GitHubActs
  PROVE  \E kind \in AllKinds, who \in People : GitHubTells(kind, who)
<1>1. ReviewTypeOK /\ head \in Heads /\ past \in Pasts /\ past.approvals \in SUBSET People
  BY DEF Typed, Pasts
<1>2. ASSUME NEW kind \in ReviewKinds, NEW who, Reviews(kind, who) PROVE GitHubTells(kind, who)
  <2>1. /\ left' \in ReviewBudget /\ left'.unread = left.unread
        /\ kind \in reviewRegime.happen /\ who \in People
        /\ mail' = Append(mail, [kind |-> kind, who |-> who, commits |-> head'.commits])
        /\ UNCHANGED <<reviewRegime, handling, place, link, announced>>
    BY <1>1, <1>2, SendingSpends DEF Reviews
  <2>2. /\ past' = [past EXCEPT !.spoken = TRUE,
                                !.approvals = IF kind = "approved" THEN @ \cup {who} ELSE @]
        /\ head' = head /\ Open
    BY <1>2 DEF Reviews
  <2>3. past' \in Pasts
    BY <1>1, <2>1, <2>2 DEF Pasts
  <2>4. /\ past'.judged = past.judged /\ past'.overtaken = past.overtaken
        /\ past'.rewritten = past.rewritten /\ past'.asked = past.asked /\ past'.spoken = TRUE
        /\ past'.approvals = IF kind = "approved" THEN past.approvals \cup {who} ELSE past.approvals
    BY <1>1, <2>2 DEF Pasts
  <2>5. QED
    BY <1>1, <1>2, <2>1, <2>2, <2>3, <2>4 DEF GitHubTells, ReviewKinds, AllKinds, Heads
<1>3. ASSUME NEW kind \in CommentKinds \cup {"inline"}, NEW who, Comments(kind, who)
      PROVE  GitHubTells(kind, who)
  <2>1. /\ left' \in ReviewBudget /\ left'.unread = left.unread
        /\ kind \in reviewRegime.happen /\ who \in People
        /\ mail' = Append(mail, [kind |-> kind, who |-> who, commits |-> head'.commits])
        /\ UNCHANGED <<reviewRegime, handling, place, link, announced>>
    BY <1>1, <1>3, SendingSpends DEF Comments
  <2>2. /\ past' = [past EXCEPT !.spoken = TRUE, !.asked = @ \/ kind = "mention"]
        /\ head' = head
    BY <1>3 DEF Comments
  <2>3. past' \in Pasts
    BY <1>1, <2>2 DEF Pasts
  <2>4. /\ past'.judged = past.judged /\ past'.overtaken = past.overtaken
        /\ past'.rewritten = past.rewritten /\ (past'.asked <=> past.asked \/ kind = "mention")
        /\ past'.spoken = TRUE /\ past'.approvals = past.approvals
    BY <1>1, <2>2 DEF Pasts
  <2>5. QED
    BY <1>1, <1>3, <2>1, <2>2, <2>3, <2>4
    DEF GitHubTells, CommentKinds, ReviewKinds, AllKinds, Heads
<1>4. ASSUME NEW who, Dismisses(who) PROVE GitHubTells("dismissed", who)
  <2>1. /\ left' \in ReviewBudget /\ left'.unread = left.unread
        /\ "dismissed" \in reviewRegime.happen /\ who \in People
        /\ mail' = Append(mail, [kind |-> "dismissed", who |-> who, commits |-> head'.commits])
        /\ UNCHANGED <<reviewRegime, handling, place, link, announced>>
    BY <1>1, <1>4, SendingSpends DEF Dismisses
  <2>2. /\ past' = [past EXCEPT !.approvals = @ \ {who}, !.spoken = TRUE]
        /\ head' = head
    BY <1>4 DEF Dismisses
  <2>3. past' \in Pasts
    BY <1>1, <2>2 DEF Pasts
  <2>4. /\ past'.judged = past.judged /\ past'.overtaken = past.overtaken
        /\ past'.rewritten = past.rewritten /\ past'.asked = past.asked
        /\ past'.spoken = TRUE /\ past'.approvals = past.approvals \ {who}
    BY <1>1, <2>2 DEF Pasts
  <2>5. QED
    BY <1>1, <2>1, <2>2, <2>3, <2>4 DEF GitHubTells, CommentKinds, ReviewKinds, AllKinds, Heads
<1>5. ASSUME Pushes \/ Rewrites PROVE GitHubTells("pushed", Developer)
  <2>1. Sent("pushed", Developer) /\ Open
    BY <1>5 DEF Pushes, Rewrites
  <2>2. /\ left' \in ReviewBudget /\ left'.unread = left.unread
        /\ "pushed" \in reviewRegime.happen /\ Developer \in People
        /\ mail' = Append(mail, [kind |-> "pushed", who |-> Developer, commits |-> head'.commits])
        /\ UNCHANGED <<reviewRegime, handling, place, link, announced>>
    BY <1>1, <2>1, SendingSpends
  <2>3. PICK n \in Nat : head' = [head EXCEPT !.commits = n]
    BY <1>1, <1>5 DEF Pushes, Rewrites, Heads
  <2>4. /\ head' \in Heads /\ head'.state = head.state /\ head'.commits = n
    BY <1>1, <2>3 DEF Heads
  <2>5. \/ past' = past /\ n = head.commits + 1
        \/ past' = [past EXCEPT !.rewritten = TRUE]
    BY <1>1, <1>5, <2>4 DEF Pushes, Rewrites, Heads
  <2>6. past' \in Pasts
    BY <1>1, <2>5 DEF Pasts
  <2>7. /\ past'.judged = past.judged /\ past'.overtaken = past.overtaken
        /\ past'.asked = past.asked /\ past'.spoken = past.spoken
        /\ past'.approvals = past.approvals
        /\ ~past'.rewritten => ~past.rewritten /\ n = head.commits + 1
    BY <1>1, <2>5 DEF Pasts
  <2>8. past.asked \in BOOLEAN /\ past.spoken \in BOOLEAN /\ head.commits \in Nat
    BY <1>1 DEF Pasts, Heads
  <2>9. ~past'.rewritten => ~past.rewritten /\ head.commits <= head'.commits
    BY <2>4, <2>7, <2>8
  <2>10. QED
    BY <1>1, <2>1, <2>2, <2>4, <2>6, <2>7, <2>8, <2>9
    DEF GitHubTells, CommentKinds, ReviewKinds, PullKinds, AllKinds
<1>6. ASSUME NEW kind \in {"draft", "ready", "closed", "merged"},
             head' = [head EXCEPT !.state = kind], Sent(kind, Developer),
             past' = IF kind = "draft" THEN [past EXCEPT !.asked = FALSE]
                     ELSE IF kind = "ready" THEN past
                     ELSE [past EXCEPT !.spoken = FALSE],
             kind = "draft" => head.state = "ready", kind = "ready" => head.state = "draft",
             kind \in {"closed", "merged"} => Open
      PROVE  GitHubTells(kind, Developer)
  <2>1. /\ left' \in ReviewBudget /\ left'.unread = left.unread
        /\ kind \in reviewRegime.happen /\ Developer \in People
        /\ mail' = Append(mail, [kind |-> kind, who |-> Developer, commits |-> head'.commits])
        /\ UNCHANGED <<reviewRegime, handling, place, link, announced>>
    BY <1>1, <1>6, SendingSpends
  <2>2. head' \in Heads /\ head'.state = kind /\ head'.commits = head.commits /\ head.commits \in Nat
    BY <1>1, <1>6 DEF Heads
  <2>3. past' \in Pasts
    BY <1>1, <1>6 DEF Pasts
  <2>4. /\ past'.judged = past.judged /\ past'.overtaken = past.overtaken
        /\ past'.rewritten = past.rewritten /\ past'.approvals = past.approvals
    BY <1>1, <1>6 DEF Pasts
  <2>5. past'.asked <=> kind # "draft" /\ past.asked
    BY <1>1, <1>6 DEF Pasts
  <2>6. past'.spoken <=> kind \notin {"closed", "merged"} /\ past.spoken
    BY <1>1, <1>6 DEF Pasts
  <2>7. QED
    BY <1>6, <2>1, <2>2, <2>3, <2>4, <2>5, <2>6
    DEF GitHubTells, CommentKinds, ReviewKinds, PullKinds, AllKinds
<1>7. ASSUME Unrequests PROVE GitHubTells("unrequested", Developer)
  <2>1. /\ left' \in ReviewBudget /\ left'.unread = left.unread
        /\ "unrequested" \in reviewRegime.happen /\ Developer \in People
        /\ mail' = Append(mail, [kind |-> "unrequested", who |-> Developer,
                                 commits |-> head'.commits])
        /\ UNCHANGED <<reviewRegime, handling, place, link, announced>>
    BY <1>1, <1>7, SendingSpends DEF Unrequests
  <2>2. past' = [past EXCEPT !.asked = TRUE] /\ head' = head /\ Open
    BY <1>7 DEF Unrequests
  <2>3. /\ past' \in Pasts /\ past'.judged = past.judged /\ past'.overtaken = past.overtaken
        /\ past'.rewritten = past.rewritten /\ past'.asked = TRUE
        /\ past'.spoken = past.spoken /\ past'.approvals = past.approvals
        /\ past.spoken \in BOOLEAN
    BY <1>1, <2>2 DEF Pasts
  <2>4. QED
    BY <1>1, <2>1, <2>2, <2>3 DEF GitHubTells, CommentKinds, ReviewKinds, PullKinds, AllKinds, Heads
<1>8. ASSUME Deploys PROVE GitHubTells("deployed", Developer)
  <2>1. /\ left' \in ReviewBudget /\ left'.unread = left.unread
        /\ "deployed" \in reviewRegime.happen /\ Developer \in People
        /\ mail' = Append(mail, [kind |-> "deployed", who |-> Developer, commits |-> head'.commits])
        /\ UNCHANGED <<reviewRegime, handling, place, link, announced>>
    BY <1>1, <1>8, SendingSpends DEF Deploys
  <2>2. /\ past' = past /\ head' = head /\ head.state = "merged"
        /\ past.asked \in BOOLEAN /\ past.spoken \in BOOLEAN
    BY <1>1, <1>8 DEF Deploys, Pasts
  <2>3. QED
    BY <1>1, <2>1, <2>2 DEF GitHubTells, CommentKinds, ReviewKinds, AllKinds, Heads
<1>9. Developer \in People /\ reviewRegime.people \subseteq People
  BY <1>1, ReviewAssumption DEF ReviewTypeOK, ReviewRegime
<1>10. /\ TurnsDraft => GitHubTells("draft", Developer)
       /\ TurnsReady => GitHubTells("ready", Developer)
  BY <1>6 DEF TurnsDraft, TurnsReady
<1>11. ASSUME NEW state \in {"closed", "merged"}, Closes(state) PROVE GitHubTells(state, Developer)
  BY <1>6, <1>11 DEF Closes
<1>12. QED
  BY <1>2, <1>3, <1>4, <1>5, <1>7, <1>8, <1>9, <1>10, <1>11
  DEF GitHubActs, AllKinds, ReviewKinds, CommentKinds, PullKinds

Verdict(w) == GivesVerdict(handling[w])

Wrote(w) ==
  /\ handling[w].busy /\ handling' = [handling EXCEPT ![w] = Idle]
  /\ place' \in [ReviewCards -> BoardPlaces]
  /\ \A c \in ReviewCards :
       place'[c] = IF handling[w].plan[c] = Keep THEN place[c] ELSE handling[w].plan[c]
  /\ link' = LinkAfter(handling[w]) /\ link' \in Links
  /\ announced' \in BOOLEAN /\ (announced' <=> announced \/ handling[w].event.kind = "merged")
  /\ past' \in Pasts
  /\ past'.judged = IF Verdict(w) THEN head.commits ELSE past.judged
  /\ past'.rewritten <=> past.rewritten /\ ~Verdict(w)
  /\ past'.overtaken <=>
       \/ past.overtaken
       \/ handling[w].event.kind = "merged" /\ \E v \in Workers \ {w} : handling[v].busy
  /\ past'.approvals = past.approvals /\ past'.asked = past.asked /\ past'.spoken = past.spoken
  /\ UNCHANGED <<reviewRegime, head, mail, left>>

LEMMA WorkerWrote == ASSUME Typed, NEW w \in Workers, Writes(w) PROVE Wrote(w)
<1>1. /\ head \in Heads /\ past \in Pasts /\ link \in Links /\ announced \in BOOLEAN
      /\ place \in [ReviewCards -> BoardPlaces]
  BY DEF Typed, ReviewTypeOK
<1>2. handling[w].busy /\ handling[w].event \in Mail /\ handling[w].plan \in Plans
  BY MailTyped DEF Typed, Writes
<1>3. /\ handling' = [handling EXCEPT ![w] = Idle]
      /\ place' = [c \in ReviewCards |-> IF handling[w].plan[c] = Keep THEN place[c]
                                         ELSE handling[w].plan[c]]
      /\ link' = LinkAfter(handling[w])
      /\ announced' = (announced \/ handling[w].event.kind = "merged")
      /\ past' = [past EXCEPT
           !.judged    = IF Verdict(w) THEN head.commits ELSE @,
           !.rewritten = @ /\ ~Verdict(w),
           !.overtaken = @ \/ (/\ handling[w].event.kind = "merged"
                               /\ \E v \in Workers \ {w} : handling[v].busy)]
      /\ UNCHANGED <<reviewRegime, head, mail, left>>
  BY DEF Writes, Verdict
<1>4. place' \in [ReviewCards -> BoardPlaces]
  BY <1>1, <1>2, <1>3 DEF Plans
<1>5. link' \in Links
  BY <1>1, <1>3 DEF LinkAfter, Links, Heads
<1>6. past' \in Pasts
  <2>1. (past.rewritten /\ ~Verdict(w)) \in BOOLEAN
    OBVIOUS
  <2>2. (\/ past.overtaken
         \/ (/\ handling[w].event.kind = "merged"
             /\ \E v \in Workers \ {w} : handling[v].busy)) \in BOOLEAN
    OBVIOUS
  <2>3. (IF Verdict(w) THEN head.commits ELSE past.judged) \in Nat
    BY <1>1 DEF Heads, Pasts
  <2>4. QED
    BY <1>1, <1>3, <2>1, <2>2, <2>3 DEF Pasts
<1>7. /\ past'.judged = IF Verdict(w) THEN head.commits ELSE past.judged
      /\ past'.rewritten <=> past.rewritten /\ ~Verdict(w)
      /\ past'.overtaken <=>
           \/ past.overtaken
           \/ handling[w].event.kind = "merged" /\ \E v \in Workers \ {w} : handling[v].busy
      /\ past'.approvals = past.approvals /\ past'.asked = past.asked /\ past'.spoken = past.spoken
  BY <1>1, <1>3 DEF Pasts
<1>8. announced' \in BOOLEAN /\ (announced' <=> announced \/ handling[w].event.kind = "merged")
  BY <1>3
<1>9. \A c \in ReviewCards :
        place'[c] = IF handling[w].plan[c] = Keep THEN place[c] ELSE handling[w].plan[c]
  BY <1>3
<1>10. QED
  BY <1>2, <1>3, <1>4, <1>5, <1>6, <1>7, <1>8, <1>9 DEF Wrote

(* The steps, each as it is seen by the invariants. *)
LEMMA ReviewSteps ==
  ASSUME Typed, ReviewNext
  PROVE  \/ \E w \in reviewRegime.workers \cap Workers, i \in DOMAIN mail, a \in BOOLEAN :
               TookEvent(w, i, a)
         \/ \E w \in reviewRegime.workers \cap Workers : Wrote(w)
         \/ \E kind \in AllKinds, who \in People : GitHubTells(kind, who)
         \/ ChecksTurn
<1>1. reviewRegime.workers \subseteq Workers
  BY ReviewAssumption DEF Typed, ReviewTypeOK, ReviewRegime
<1>2. ASSUME NEW w \in reviewRegime.workers, NEW i \in DOMAIN mail, Looks(w, i)
      PROVE  \E a \in BOOLEAN : TookEvent(w, i, a)
  BY <1>1, <1>2, LookTakes DEF Typed
<1>3. ASSUME NEW w \in reviewRegime.workers, Writes(w) PROVE Wrote(w)
  BY <1>1, <1>3, WorkerWrote
<1>4. CASE GitHubActs
  BY <1>4, GitHubIsHeard
<1>5. CASE ChecksTurn
  BY <1>5
<1>6. CASE \E w \in reviewRegime.workers : (\E i \in DOMAIN mail : Looks(w, i)) \/ Writes(w)
  BY <1>1, <1>2, <1>3, <1>6
<1>7. QED
  BY <1>4, <1>5, <1>6 DEF ReviewNext, GitHubActs

LEMMA TypesKept ==
  ASSUME Typed, ReviewNext PROVE Typed' /\ reviewRegime' = reviewRegime
<1>1. /\ reviewRegime \in ReviewRegimes /\ mail \in Seq(Mail) /\ announced \in BOOLEAN
      /\ handling \in [Workers -> {Idle} \cup
           [busy : {TRUE}, event : Mail, plan : Plans, answered : BOOLEAN]]
      /\ place \in [ReviewCards -> BoardPlaces] /\ left \in ReviewBudget
      /\ head \in Heads /\ past \in Pasts /\ link \in Links
  BY DEF Typed, ReviewTypeOK
<1>2. ASSUME /\ reviewRegime' \in ReviewRegimes /\ mail' \in Seq(Mail) /\ announced' \in BOOLEAN
             /\ handling' \in [Workers -> {Idle} \cup
                  [busy : {TRUE}, event : Mail, plan : Plans, answered : BOOLEAN]]
             /\ place' \in [ReviewCards -> BoardPlaces] /\ left' \in ReviewBudget
             /\ head' \in Heads /\ past' \in Pasts /\ link' \in Links
      PROVE  Typed'
  BY <1>2 DEF Typed, ReviewTypeOK, Heads, Pasts, Links
<1>3. ASSUME NEW w \in Workers, NEW i \in DOMAIN mail, NEW a \in BOOLEAN, TookEvent(w, i, a)
      PROVE  Typed' /\ reviewRegime' = reviewRegime
  <2>1. mail' \in Seq(Mail)
    BY <1>1, <1>3, MailTaken DEF TookEvent
  <2>2. mail[i] \in Mail
    BY <1>1
  <2>3. Job(mail[i], a) \in [busy : {TRUE}, event : Mail, plan : Plans, answered : BOOLEAN]
    BY <2>2, PlansGoWhereTheyMay DEF Job
  <2>4. handling' \in [Workers -> {Idle} \cup
          [busy : {TRUE}, event : Mail, plan : Plans, answered : BOOLEAN]]
    BY <1>1, <1>3, <2>3 DEF TookEvent
  <2>5. QED
    BY <1>1, <1>2, <1>3, <2>1, <2>4 DEF TookEvent
<1>4. ASSUME NEW w \in Workers, Wrote(w) PROVE Typed' /\ reviewRegime' = reviewRegime
  BY <1>1, <1>2, <1>4 DEF Wrote
<1>5. ASSUME NEW kind \in AllKinds, NEW who \in People, GitHubTells(kind, who)
      PROVE  Typed' /\ reviewRegime' = reviewRegime
  <2>1. [kind |-> kind, who |-> who, commits |-> head'.commits] \in Mail
    BY <1>5 DEF GitHubTells, Heads, Mail
  <2>2. mail' \in Seq(Mail)
    BY <1>1, <1>5, <2>1 DEF GitHubTells
  <2>3. QED
    BY <1>1, <1>2, <1>5, <2>2 DEF GitHubTells
<1>6. ASSUME ChecksTurn PROVE Typed' /\ reviewRegime' = reviewRegime
  <2>1. head' \in Heads
    BY <1>1, <1>6 DEF ChecksTurn, Heads
  <2>2. QED
    BY <1>1, <1>2, <1>6, <2>1 DEF ChecksTurn
<1>7. QED
  BY <1>3, <1>4, <1>5, <1>6, ReviewSteps

-----------------------------------------------------------------------------
(* What holds in every circumstance. *)
LEMMA TakenJob ==
  ASSUME Typed, NEW w \in Workers, NEW i \in DOMAIN mail, NEW a \in BOOLEAN, TookEvent(w, i, a)
  PROVE  /\ handling'[w].busy /\ handling'[w].event = mail[i] /\ handling'[w].answered = a
         /\ handling'[w].plan = PlanFor(mail[i], a) /\ mail[i] \in Mail
         /\ \A v \in Workers \ {w} : handling'[v] = handling[v]
         /\ \A k : Later(0, k)' => Later(0, k)
         /\ \A k : Later(0, k) => Later(0, k)' \/ Working(w, k)'
         /\ \A j \in DOMAIN mail' : \E n \in DOMAIN mail : mail'[j] = mail[n]
         /\ \A n \in DOMAIN mail : mail[n] = handling'[w].event \/ \E j \in DOMAIN mail' : mail'[j] = mail[n]
<1>1. /\ handling \in [Workers -> {Idle} \cup
            [busy : {TRUE}, event : Mail, plan : Plans, answered : BOOLEAN]]
      /\ mail \in Seq(Mail) /\ mail[i] \in Mail
  <2>1. ReviewTypeOK
    BY DEF Typed
  <2>2. mail[i] \in Mail
    BY <2>1, MailTyped
  <2>3. QED
    BY <2>1, <2>2 DEF ReviewTypeOK
<1>2. handling' = [handling EXCEPT ![w] = Job(mail[i], a)]
  BY DEF TookEvent
<1>3. /\ handling'[w] = Job(mail[i], a)
      /\ \A v \in Workers \ {w} : handling'[v] = handling[v]
  BY <1>1, <1>2
<1>4. /\ handling'[w].busy /\ handling'[w].event = mail[i] /\ handling'[w].answered = a
      /\ handling'[w].plan = PlanFor(mail[i], a)
  BY <1>3 DEF Job
<1>5. CASE mail' = mail
  BY <1>1, <1>3, <1>4, <1>5 DEF Later
<1>6. CASE mail' = RemoveAt(mail, i)
  <2>1. ASSUME NEW k PROVE (Later(0, k)' => Later(0, k)) /\ (Later(0, k) => Later(0, k)' \/ mail[i].kind = k)
    BY <1>6, LaterTaken DEF Typed
  <2>2. /\ DOMAIN mail = 1 .. Len(mail) /\ Len(mail) \in Nat
        /\ DOMAIN mail' = 1 .. Len(mail) - 1
        /\ \A j \in DOMAIN mail' :
             /\ j < i => mail'[j] = mail[j]
             /\ j >= i => mail'[j] = mail[j + 1]
    BY <1>1, <1>6, MailTaken
  <2>3. \A j \in DOMAIN mail' : j \in DOMAIN mail /\ j + 1 \in DOMAIN mail
    BY <2>2
  <2>4. \A j \in DOMAIN mail' : \E n \in DOMAIN mail : mail'[j] = mail[n]
    BY <2>2, <2>3
  <2>5. ASSUME NEW n \in DOMAIN mail, n # i PROVE \E j \in DOMAIN mail' : mail'[j] = mail[n]
    <3>1. CASE n < i
      BY <2>2, <3>1
    <3>2. CASE n > i
      <4>1. n - 1 \in DOMAIN mail' /\ n - 1 >= i /\ (n - 1) + 1 = n
        BY <2>2, <3>2
      <4>2. QED
        BY <2>2, <4>1
    <3>3. QED
      BY <2>2, <2>5, <3>1, <3>2
  <2>6. QED
    BY <1>1, <1>3, <1>4, <2>1, <2>4, <2>5 DEF Working
<1>7. QED
  BY <1>5, <1>6 DEF TookEvent

LEMMA BaseByLook ==
  ASSUME BaseInv, NEW w \in reviewRegime.workers \cap Workers, NEW i \in DOMAIN mail,
         NEW a \in BOOLEAN, TookEvent(w, i, a), Typed'
  PROVE  BaseInv'
<1>1. Typed /\ i > 0
  BY MailTyped DEF BaseInv, Typed
<1>2. /\ handling'[w].busy /\ handling'[w].event = mail[i] /\ handling'[w].answered = a
      /\ handling'[w].plan = PlanFor(mail[i], a) /\ mail[i] \in Mail
      /\ \A v \in Workers \ {w} : handling'[v] = handling[v]
      /\ \A k : Later(0, k)' => Later(0, k)
      /\ \A j \in DOMAIN mail' : \E n \in DOMAIN mail : mail'[j] = mail[n]
  BY <1>1, TakenJob
<1>3. UNCHANGED <<reviewRegime, head, place, link, announced, past>>
  BY DEF TookEvent
<1>4. PlansGo'
  <2>1. \A k : GoesTo(k)' = GoesTo(k)
    BY <1>3 DEF GoesTo, NeedsQaAgain
  <2>2. \A c \in ReviewCards : handling'[w].plan[c] \in GoesTo(handling'[w].event.kind) \cup {Keep}
    BY <1>2, PlansGoWhereTheyMay
  <2>3. QED
    BY <1>2, <2>1, <2>2 DEF PlansGo, BaseInv
<1>5. Happened'
  BY <1>2, <1>3 DEF Happened, BaseInv
<1>6. OthersIdle'
  BY <1>2, <1>3 DEF OthersIdle, BaseInv
<1>7. ASSUME NEW k, Absent(k) PROVE Absent(k)'
  <2>1. mail[i].kind # k
    BY <1>1, <1>7 DEF Absent, Later
  <2>2. QED
    BY <1>2, <1>7, <2>1 DEF Absent, Working
<1>8. EndsOnce'
  BY <1>3, <1>7 DEF EndsOnce, BaseInv
<1>9. Answered'
  <2>1. left.unread \in Nat /\ reviewRegime.budget.unread \in Nat
    BY <1>1, ReviewAssumption DEF Typed, ReviewTypeOK, ReviewBudget, ReviewRegime
  <2>2. left.unread <= reviewRegime.budget.unread
    BY DEF BaseInv, Answered
  <2>3. left'.unread <= reviewRegime.budget.unread /\ (Heard' => Heard /\ a)
    BY <1>3, <2>1, <2>2 DEF TookEvent, Heard
  <2>4. QED
    BY <1>2, <1>3, <2>3 DEF BaseInv, Answered
<1>10. QED
  BY <1>4, <1>5, <1>6, <1>8, <1>9 DEF BaseInv

LEMMA IdledWorker ==
  ASSUME Typed, NEW w \in Workers, Wrote(w)
  PROVE  /\ handling'[w] = Idle /\ ~handling'[w].busy
         /\ \A v \in Workers \ {w} : handling'[v] = handling[v]
         /\ \A v \in Workers : handling'[v].busy => v # w /\ handling[v].busy
         /\ \A j, k : Later(j, k)' <=> Later(j, k)
<1>1. handling'[w] = Idle /\ \A v \in Workers \ {w} : handling'[v] = handling[v]
  BY DEF Typed, ReviewTypeOK, Wrote
<1>2. mail' = mail
  BY DEF Wrote
<1>3. QED
  BY <1>1, <1>2 DEF Idle, Later

LEMMA BaseByWrite ==
  ASSUME BaseInv, NEW w \in reviewRegime.workers \cap Workers, Wrote(w), Typed'
  PROVE  BaseInv'
<1>1. Typed
  BY DEF BaseInv
<1>2. /\ handling'[w] = Idle /\ ~handling'[w].busy
      /\ \A v \in Workers \ {w} : handling'[v] = handling[v]
      /\ \A j, k : Later(j, k)' <=> Later(j, k)
  BY <1>1, IdledWorker
<1>3. UNCHANGED <<reviewRegime, head, mail, left>>
  BY DEF Wrote
<1>4. PlansGo'
  <2>1. \A k : GoesTo(k)' = GoesTo(k)
    BY <1>3 DEF GoesTo, NeedsQaAgain
  <2>2. QED
    BY <1>2, <2>1 DEF PlansGo, BaseInv
<1>5. Happened' /\ OthersIdle' /\ Answered'
  BY <1>2, <1>3 DEF Happened, OthersIdle, Answered, Heard, BaseInv
<1>6. ASSUME NEW k, Absent(k) PROVE Absent(k)' /\ handling[w].event.kind # k
  BY <1>2, <1>6 DEF Absent, Working, Wrote
<1>7. EndsOnce'
  <2>1. link \in Links /\ link' = LinkAfter(handling[w])
    BY <1>1 DEF Typed, Wrote
  <2>2. handling[w].event.kind # "merged" /\ link.state # "merged" => link'.state # "merged"
    BY <2>1 DEF LinkAfter, Links
  <2>3. handling[w].event.kind # "closed" /\ link.state # "withdrawn" => link'.state # "withdrawn"
    BY <2>1 DEF LinkAfter, Links
  <2>4. QED
    BY <1>3, <1>6, <2>2, <2>3 DEF EndsOnce, BaseInv, Wrote
<1>8. QED
  BY <1>4, <1>5, <1>7 DEF BaseInv

LEMMA MailGrows ==
  ASSUME Typed, NEW kind, NEW who, GitHubTells(kind, who)
  PROVE  /\ DOMAIN mail = 1 .. Len(mail) /\ Len(mail) \in Nat /\ DOMAIN mail' = 1 .. Len(mail) + 1
         /\ \A j \in DOMAIN mail : mail'[j] = mail[j]
         /\ mail'[Len(mail) + 1] = [kind |-> kind, who |-> who, commits |-> head'.commits]
         /\ mail'[Len(mail) + 1] \in Mail
<1> DEFINE m == [kind |-> kind, who |-> who, commits |-> head'.commits]
<1>1. m \in Mail
  BY DEF GitHubTells, Heads, Mail
<1>2. mail' = Append(mail, m) /\ mail \in Seq(Mail)
  BY DEF GitHubTells, Typed, ReviewTypeOK
<1> HIDE DEF m
<1>3. /\ DOMAIN mail' = 1 .. Len(mail) + 1
      /\ \A j \in DOMAIN mail : mail'[j] = mail[j]
      /\ mail'[Len(mail) + 1] = m
  BY <1>1, <1>2, MailSent
<1>4. DOMAIN mail = 1 .. Len(mail) /\ Len(mail) \in Nat
  BY <1>2
<1>5. QED
  BY <1>1, <1>3, <1>4 DEF m

LEMMA MailTold ==
  ASSUME Typed, NEW kind, NEW who, GitHubTells(kind, who)
  PROVE  /\ \A j \in Nat : \A k : Later(j, k) => Later(j, k)'
         /\ \A j \in DOMAIN mail : Later(j, kind)'
         /\ \A j \in Nat : \A k : Later(j, k)' => Later(j, k) \/ kind = k
         /\ Later(0, kind)'
<1>1. PICK m : m = [kind |-> kind, who |-> who, commits |-> head'.commits]
  OBVIOUS
<1>2. m \in Mail /\ m.kind = kind
  BY <1>1 DEF GitHubTells, Heads, Mail
<1>3. mail' = Append(mail, m) /\ ReviewTypeOK
  BY <1>1 DEF GitHubTells, Typed
<1>4. /\ \A j \in Nat : \A k : Later(j, k) => Later(j, k)'
      /\ \A j \in DOMAIN mail : Later(j, m.kind)'
      /\ \A j \in Nat : \A k : Later(j, k)' => Later(j, k) \/ m.kind = k
      /\ Later(0, m.kind)'
  BY <1>2, <1>3, LaterSent
<1>5. QED
  BY <1>2, <1>4

LEMMA BaseByGitHub ==
  ASSUME BaseInv, NEW kind \in AllKinds, NEW who \in People, GitHubTells(kind, who), Typed'
  PROVE  BaseInv'
<1>1. Typed
  BY DEF BaseInv
<1>2. UNCHANGED <<reviewRegime, handling, place, link, announced>> /\ left'.unread = left.unread
  BY DEF GitHubTells
<1>3. PlansGo'
  <2>1. \A k : GoesTo(k)' = GoesTo(k)
    BY <1>2 DEF GoesTo, NeedsQaAgain
  <2>2. QED
    BY <1>2, <2>1 DEF PlansGo, BaseInv
<1>4. OthersIdle' /\ Answered'
  BY <1>2 DEF OthersIdle, Answered, Heard, BaseInv
<1>5. Happened'
  <2>0. /\ DOMAIN mail = 1 .. Len(mail) /\ Len(mail) \in Nat /\ DOMAIN mail' = 1 .. Len(mail) + 1
        /\ \A j \in DOMAIN mail : mail'[j] = mail[j]
        /\ mail'[Len(mail) + 1] = [kind |-> kind, who |-> who, commits |-> head'.commits]
    BY <1>1, MailGrows
  <2>1. ASSUME NEW j \in DOMAIN mail' PROVE mail'[j].kind \in reviewRegime.happen
    <3>1. j \in DOMAIN mail \/ j = Len(mail) + 1
      BY <2>0, <2>1
    <3>2. j = Len(mail) + 1 => mail'[j].kind = kind
      BY <2>0
    <3>3. j \in DOMAIN mail => mail'[j] = mail[j]
      BY <2>0
    <3>4. kind \in reviewRegime.happen
      BY DEF GitHubTells
    <3>5. QED
      BY <3>1, <3>2, <3>3, <3>4 DEF BaseInv, Happened
  <2>2. QED
    BY <1>2, <2>1 DEF BaseInv, Happened
<1>6. ASSUME NEW k, Absent(k), k # kind PROVE Absent(k)'
  <2>1. ~Later(0, k)'
    BY <1>1, <1>6, MailTold DEF Absent
  <2>2. QED
    BY <1>2, <1>6, <2>1 DEF Absent, Working
<1>7. EndsOnce'
  <2>1. ASSUME NEW s \in {"merged", "closed"}, head'.state # s PROVE kind # s /\ head.state # s
    BY <2>1 DEF GitHubTells, Open
  <2>2. QED
    BY <1>2, <1>6, <2>1 DEF EndsOnce, BaseInv
<1>8. QED
  BY <1>3, <1>4, <1>5, <1>7 DEF BaseInv

LEMMA BasePreserved == ASSUME BaseInv, ReviewNext PROVE BaseInv'
<1>1. Typed /\ Typed'
  BY TypesKept DEF BaseInv
<1>2. CASE ChecksTurn
  <2>1. head'.state = head.state
    BY <1>1, <1>2 DEF ChecksTurn, Typed, Heads
  <2>2. UNCHANGED <<reviewRegime, mail, handling, place, link, announced, past, left>>
    BY <1>2 DEF ChecksTurn
  <2>3. PlansGo' /\ Happened' /\ OthersIdle' /\ Answered'
    BY <2>2 DEF BaseInv, PlansGo, Happened, OthersIdle, Answered, Heard, GoesTo, NeedsQaAgain
  <2>4. EndsOnce'
    BY <2>1, <2>2 DEF BaseInv, EndsOnce, Absent, Later, Working
  <2>5. QED
    BY <1>1, <2>3, <2>4 DEF BaseInv
<1>3. QED
  BY <1>1, <1>2, BaseByLook, BaseByWrite, BaseByGitHub, ReviewSteps

-----------------------------------------------------------------------------
(* The merge. *)
LEMMA LinkedCards == ASSUME Typed PROVE Linked \subseteq ReviewCards
BY ReviewAssumption DEF Typed, ReviewTypeOK, ReviewRegime, Linked

LEMMA LookedInOrder ==
  ASSUME Typed, NEW w \in Workers, NEW i \in DOMAIN mail, NEW a \in BOOLEAN,
         TookEvent(w, i, a), reviewRegime.inOrder
  PROVE  /\ i = 1 /\ (mail' = mail \/ mail' = RemoveAt(mail, i))
         /\ mail' = RemoveAt(mail, i) =>
              /\ \A j \in DOMAIN mail' : j + 1 \in DOMAIN mail /\ mail'[j] = mail[j + 1]
              /\ \A j \in DOMAIN mail' : \A k : Later(j, k)' <=> Later(j + 1, k)
              /\ \A k : Later(0, k)' <=> Later(1, k)
<1>1. ReviewTypeOK /\ mail \in Seq(Mail)
  BY DEF Typed, ReviewTypeOK
<1>2. i = 1 /\ (mail' = mail \/ mail' = RemoveAt(mail, i))
  BY DEF TookEvent
<1>3. ASSUME mail' = RemoveAt(mail, i)
      PROVE  /\ \A j \in DOMAIN mail' : j + 1 \in DOMAIN mail /\ mail'[j] = mail[j + 1]
             /\ \A j \in DOMAIN mail' : \A k : Later(j, k)' <=> Later(j + 1, k)
             /\ \A k : Later(0, k)' <=> Later(1, k)
  <2>1. /\ DOMAIN mail = 1 .. Len(mail) /\ Len(mail) \in Nat /\ DOMAIN mail' = 1 .. Len(mail) - 1
        /\ \A j \in DOMAIN mail' : j >= i => mail'[j] = mail[j + 1]
    BY <1>1, <1>3, MailTaken
  <2>2. ASSUME NEW k PROVE \A j \in Nat : Later(j, k)' <=> Later(j + 1, k)
    BY <1>1, <1>2, <1>3, LaterTaken
  <2>3. \A j \in DOMAIN mail' : j + 1 \in DOMAIN mail /\ mail'[j] = mail[j + 1]
    BY <1>2, <2>1
  <2>4. DOMAIN mail' \subseteq Nat /\ 0 \in Nat /\ 0 + 1 = 1
    BY <2>1
  <2>5. QED
    BY <2>2, <2>3, <2>4
<1>4. QED
  BY <1>2, <1>3

LEMMA MergeComesKept ==
  ASSUME BaseInv, MergeInv, ReviewNext PROVE MergeComes'
<1>1. Typed /\ Linked \subseteq ReviewCards
  BY LinkedCards DEF BaseInv
<1>2. ASSUME NEW w \in Workers, NEW i \in DOMAIN mail, NEW a \in BOOLEAN, TookEvent(w, i, a)
      PROVE  MergeComes'
  <2>1. /\ handling'[w].busy /\ handling'[w].event = mail[i] /\ handling'[w].answered = a
        /\ handling'[w].plan = PlanFor(mail[i], a) /\ mail[i] \in Mail
        /\ \A v \in Workers \ {w} : handling'[v] = handling[v]
        /\ Later(0, "merged") => Later(0, "merged")' \/ Working(w, "merged")'
    BY <1>1, <1>2, TakenJob
  <2>2. UNCHANGED <<reviewRegime, head, place, link, announced, past>> /\ ~handling[w].busy
    BY <1>2 DEF TookEvent
  <2>3. \A v \in Workers \ {w} : Working(v, "merged")' <=> Working(v, "merged")
    BY <2>1 DEF Working
  <2>4. ~Working(w, "merged")
    BY <2>2 DEF Working
  <2>5. ASSUME ~announced, Working(w, "merged")', NEW c \in Linked
        PROVE  handling'[w].plan[c] = "completed"
    <3>1. mail[i].kind = "merged"
      BY <2>1, <2>5 DEF Working
    <3>2. handling'[w].plan = To("completed", Linked)
      BY <2>1, <2>5, <3>1 DEF PlanFor, ReviewKinds, CommentKinds, MergedPlan
    <3>3. QED
      BY <1>1, <3>2, PlansTo DEF BoardPlaces
  <2>6. Linked' = Linked
    BY <2>2 DEF Linked
  <2>7. QED
    BY <2>1, <2>2, <2>3, <2>4, <2>5, <2>6 DEF MergeComes, MergeInv
<1>3. ASSUME NEW w \in Workers, Wrote(w) PROVE MergeComes'
  <2>1. /\ ~handling'[w].busy /\ \A v \in Workers \ {w} : handling'[v] = handling[v]
        /\ Later(0, "merged")' <=> Later(0, "merged")
    BY <1>1, <1>3, IdledWorker
  <2>2. /\ UNCHANGED <<reviewRegime, head>>
        /\ announced' <=> announced \/ handling[w].event.kind = "merged"
    BY <1>3 DEF Wrote
  <2>3. QED
    BY <2>1, <2>2 DEF MergeComes, MergeInv, Working, Linked
<1>4. ASSUME NEW kind \in AllKinds, NEW who \in People, GitHubTells(kind, who) PROVE MergeComes'
  <2>1. UNCHANGED <<reviewRegime, handling, announced>>
    BY <1>4 DEF GitHubTells
  <2>2. head'.state = "merged" => head.state = "merged" \/ kind = "merged"
    BY <1>4 DEF GitHubTells
  <2>3. (Later(0, "merged") => Later(0, "merged")') /\ (kind = "merged" => Later(0, "merged")')
    BY <1>1, <1>4, MailTold
  <2>4. QED
    BY <2>1, <2>2, <2>3 DEF MergeComes, MergeInv, Working, Linked
<1>5. ASSUME ChecksTurn PROVE MergeComes'
  <2>1. head'.state = head.state
    BY <1>1, <1>5 DEF ChecksTurn, Typed, Heads
  <2>2. QED
    BY <1>5, <2>1 DEF ChecksTurn, MergeComes, MergeInv, Working, Linked, Later
<1>6. QED
  BY <1>1, <1>2, <1>3, <1>4, <1>5, ReviewSteps

LEMMA MergeLastKept ==
  ASSUME BaseInv, MergeInv, ReviewNext PROVE MergeIsLast'
<1>1. Typed
  BY DEF BaseInv
<1>2. ASSUME NEW w \in Workers, NEW i \in DOMAIN mail, NEW a \in BOOLEAN, TookEvent(w, i, a),
             reviewRegime.inOrder
      PROVE  MergeIsLast'
  <2>1. /\ handling'[w].event = mail[i]
        /\ \A v \in Workers \ {w} : handling'[v] = handling[v]
        /\ Later(0, "draft")' => Later(0, "draft")
    BY <1>1, <1>2, TakenJob
  <2>2. /\ i = 1 /\ (mail' = mail \/ mail' = RemoveAt(mail, i))
        /\ mail' = RemoveAt(mail, i) =>
              /\ \A j \in DOMAIN mail' : j + 1 \in DOMAIN mail /\ mail'[j] = mail[j + 1]
              /\ \A j \in DOMAIN mail' : \A k : Later(j, k)' <=> Later(j + 1, k)
              /\ \A k : Later(0, k)' <=> Later(1, k)
    BY <1>1, <1>2, LookedInOrder
  <2>3. /\ \A j \in DOMAIN mail : mail[j].kind = "merged" => ~Later(j, "draft")
        /\ (\E v \in Workers : Working(v, "merged")) => ~Later(0, "draft")
    BY <1>2 DEF MergeInv, MergeIsLast
  <2>4. \A j \in DOMAIN mail' : mail'[j].kind = "merged" => ~Later(j, "draft")'
    BY <2>2, <2>3 DEF Later
  <2>0. DOMAIN mail = 1 .. Len(mail) /\ Len(mail) \in Nat
    BY <1>1, MailTyped DEF Typed
  <2>5. ASSUME mail[i].kind = "merged" PROVE ~Later(0, "draft")'
    <3>1. ~Later(1, "draft")
      BY <2>2, <2>3, <2>5
    <3>2. ASSUME mail' = mail, Later(0, "draft")' PROVE FALSE
      <4>1. PICK j \in DOMAIN mail : j > 0 /\ mail[j].kind = "draft"
        BY <3>2 DEF Later
      <4>2. j \in Nat /\ j # 1
        BY <2>0, <2>2, <2>5, <4>1
      <4>3. QED
        BY <3>1, <4>1, <4>2 DEF Later
    <3>3. QED
      BY <2>2, <3>1, <3>2
  <2>6. (\E v \in Workers : Working(v, "merged")') => ~Later(0, "draft")'
    BY <2>1, <2>3, <2>5 DEF Working
  <2>7. QED
    BY <2>4, <2>6 DEF MergeIsLast
<1>3. ASSUME NEW w \in Workers, Wrote(w) PROVE MergeIsLast'
  <2>1. /\ ~handling'[w].busy /\ \A v \in Workers \ {w} : handling'[v] = handling[v]
        /\ \A j : Later(j, "draft")' <=> Later(j, "draft")
    BY <1>1, <1>3, IdledWorker
  <2>2. UNCHANGED <<reviewRegime, mail>>
    BY <1>3 DEF Wrote
  <2>3. QED
    BY <2>1, <2>2 DEF MergeIsLast, MergeInv, Working
<1>4. ASSUME NEW kind \in AllKinds, NEW who \in People, GitHubTells(kind, who) PROVE MergeIsLast'
  <2>1. UNCHANGED <<reviewRegime, handling>>
    BY <1>4 DEF GitHubTells
  <2>2. /\ DOMAIN mail = 1 .. Len(mail) /\ Len(mail) \in Nat /\ DOMAIN mail' = 1 .. Len(mail) + 1
        /\ \A j \in DOMAIN mail : mail'[j] = mail[j]
        /\ mail'[Len(mail) + 1] = [kind |-> kind, who |-> who, commits |-> head'.commits]
    BY <1>1, <1>4, MailGrows
  <2>0. mail'[Len(mail) + 1].kind = kind
    BY <2>2
  <2>3. CASE kind = "draft"
    <3>1. Absent("merged")
      BY <1>4, <2>3 DEF GitHubTells, BaseInv, EndsOnce
    <3>2. ASSUME NEW j \in DOMAIN mail' PROVE mail'[j].kind # "merged"
      <4>1. j > 0 /\ (j \in DOMAIN mail \/ j = Len(mail) + 1)
        BY <2>2
      <4>2. QED
        BY <2>0, <2>2, <2>3, <3>1, <4>1 DEF Absent, Later
    <3>3. \A v \in Workers : ~Working(v, "merged")'
      BY <2>1, <3>1 DEF Absent, Working
    <3>4. QED
      BY <3>2, <3>3 DEF MergeIsLast
  <2>4. CASE kind # "draft"
    <3>1. \A j \in Nat : Later(j, "draft")' => Later(j, "draft")
      BY <1>1, <1>4, <2>4, MailTold
    <3>2. ASSUME reviewRegime.inOrder, NEW j \in DOMAIN mail', mail'[j].kind = "merged"
          PROVE  ~Later(j, "draft")'
      <4>1. j \in Nat /\ (j \in DOMAIN mail \/ j = Len(mail) + 1)
        BY <2>2
      <4>2. CASE j \in DOMAIN mail
        BY <2>2, <3>1, <3>2, <4>1, <4>2 DEF MergeInv, MergeIsLast
      <4>3. CASE j = Len(mail) + 1
        <5>1. ~Later(j, "draft")
          BY <2>2, <4>3 DEF Later
        <5>2. QED
          BY <3>1, <4>1, <5>1
      <4>4. QED
        BY <4>1, <4>2, <4>3
    <3>3. QED
      BY <2>1, <3>1, <3>2 DEF MergeIsLast, MergeInv, Working
  <2>5. QED
    BY <2>3, <2>4
<1>5. ASSUME ChecksTurn PROVE MergeIsLast'
  BY <1>5 DEF ChecksTurn, MergeIsLast, MergeInv, Working, Later
<1>6. reviewRegime' = reviewRegime
  BY <1>1, TypesKept
<1>7. QED
  BY <1>1, <1>2, <1>3, <1>4, <1>5, <1>6, ReviewSteps DEF MergeIsLast

(* With the link closed, only a turn to draft and the pull request's being *)
(* closed take a card back into work.                                      *)
LEMMA NothingResumes ==
  ASSUME Typed, NEW e \in Mail, NEW a \in BOOLEAN, link.state = "merged", head.state = "merged", a,
         e.kind \notin {"draft", "closed"}, NEW c \in ReviewCards
  PROVE  PlanFor(e, a)[c] # "in_progress"
<1>0. "in_progress" # Keep /\ NeedsQaAgain # "in_progress"
  BY ReviewAssumption DEF BoardPlaces, NeedsQaAgain
<1>1. CASE e.kind = "pushed"
  <2>1. PlanFor(e, a) = Nothing
    BY <1>1 DEF PlanFor, ReviewKinds, CommentKinds, PushedPlan
  <2>2. QED
    BY <1>0, <2>1, NothingPlanned
<1>2. CASE e.kind \in {"comment", "mention"}
  <2>1. PlanFor(e, a) = CommentPlan(e, a)
    BY <1>2 DEF PlanFor, ReviewKinds, CommentKinds
  <2>2. Resumable(e, a) = {}
    BY DEF Resumable, MergedOnGitHub
  <2>3. \/ PlanFor(e, a) = Nothing \/ PlanFor(e, a) = To(NeedsQaAgain, Linked)
        \/ PlanFor(e, a) = To("in_qa", Linked)
    BY <1>2, <2>1, <2>2 DEF CommentPlan
  <2>4. NeedsQaAgain \in BoardPlaces /\ "in_qa" \in BoardPlaces
    BY DEF NeedsQaAgain, BoardPlaces, Queues
  <2>5. /\ To(NeedsQaAgain, Linked)[c] \in {NeedsQaAgain, Keep}
        /\ To("in_qa", Linked)[c] \in {"in_qa", Keep}
        /\ Nothing[c] = Keep
    BY <2>4, PlansTo, NothingPlanned
  <2>6. QED
    BY <1>0, <2>3, <2>5
<1>3. CASE e.kind \notin {"pushed", "comment", "mention"}
  <2>1. e.kind \in AllKinds
    BY DEF Mail
  <2>2. "in_progress" \notin GoesTo(e.kind)
    BY <1>3, <2>1 DEF GoesTo, AllKinds, ReviewKinds, CommentKinds, PullKinds
  <2>3. QED
    BY <1>0, <2>2, PlansGoWhereTheyMay
<1>4. QED
  BY <1>1, <1>2, <1>3

LEMMA MergeStandsKept ==
  ASSUME BaseInv, MergeInv, ReviewNext PROVE MergeStands'
<1>1. /\ Typed /\ Linked \subseteq ReviewCards /\ reviewRegime' = reviewRegime
      /\ "in_progress" # Keep /\ Linked' = Linked
  BY LinkedCards, TypesKept, ReviewAssumption DEF BaseInv, BoardPlaces, Linked
<1> DEFINE Stands ==
      /\ link.state = "merged" /\ NoDraft
      /\ \A c \in Linked : place[c] # "in_progress"
      /\ \A w \in Workers : handling[w].busy =>
           \A c \in Linked : handling[w].plan[c] # "in_progress"
<1>2. announced /\ Heard /\ ~past.overtaken /\ DraftsInTurn => Stands
  BY DEF MergeInv, MergeStands
<1>3. announced => head.state = "merged" /\ Absent("closed")
  BY DEF BaseInv, EndsOnce
<1> SUFFICES ASSUME announced', Heard', ~past'.overtaken, DraftsInTurn PROVE Stands'
  BY <1>1 DEF MergeStands, DraftsInTurn
<1>4. ASSUME NEW w \in Workers, NEW i \in DOMAIN mail, NEW a \in BOOLEAN, TookEvent(w, i, a)
      PROVE  Stands'
  <2>1. /\ handling'[w].busy /\ handling'[w].event = mail[i] /\ handling'[w].answered = a
        /\ handling'[w].plan = PlanFor(mail[i], a) /\ mail[i] \in Mail
        /\ \A v \in Workers \ {w} : handling'[v] = handling[v]
        /\ Later(0, "draft")' => Later(0, "draft")
    BY <1>1, <1>4, TakenJob
  <2>2. UNCHANGED <<reviewRegime, head, place, link, announced, past>>
    BY <1>4 DEF TookEvent
  <2>3. Heard /\ a
    <3>1. left.unread \in Nat /\ reviewRegime.budget.unread \in Nat
      BY <1>1, ReviewAssumption DEF Typed, ReviewTypeOK, ReviewBudget, ReviewRegime
    <3>2. left.unread <= reviewRegime.budget.unread
      BY DEF BaseInv, Answered
    <3>3. QED
      BY <1>4, <2>2, <3>1, <3>2 DEF TookEvent, Heard
  <2>4. Stands
    BY <1>2, <2>2, <2>3
  <2>5. i > 0
    BY <1>1, MailTyped DEF Typed
  <2>6. mail[i].kind \notin {"draft", "closed"}
    BY <1>3, <2>2, <2>4, <2>5 DEF NoDraft, Absent, Later
  <2>7. \A c \in ReviewCards : PlanFor(mail[i], a)[c] # "in_progress"
    BY <1>1, <1>3, <2>1, <2>2, <2>3, <2>4, <2>6, NothingResumes
  <2>8. NoDraft'
    BY <2>1, <2>4, <2>6 DEF NoDraft, Working
  <2>9. QED
    BY <1>1, <2>1, <2>2, <2>4, <2>7, <2>8
<1>5. ASSUME NEW w \in Workers, Wrote(w) PROVE Stands'
  <2>1. /\ ~handling'[w].busy
        /\ \A v \in Workers \ {w} : handling'[v] = handling[v]
        /\ Later(0, "draft")' <=> Later(0, "draft")
    BY <1>1, <1>5, IdledWorker
  <2>2. /\ Heard /\ ~past.overtaken /\ (announced \/ handling[w].event.kind = "merged")
        /\ handling[w].event.kind = "merged" => \A v \in Workers \ {w} : ~handling[v].busy
        /\ handling[w].busy /\ link' = LinkAfter(handling[w]) /\ link \in Links
    BY <1>1, <1>5 DEF Wrote, Heard, Typed
  <2>3. \A c \in Linked :
          place'[c] = IF handling[w].plan[c] = Keep THEN place[c] ELSE handling[w].plan[c]
    BY <1>1, <1>5 DEF Wrote
  <2>4. CASE announced
    <3>1. Stands
      BY <1>2, <2>2, <2>4
    <3>2. link'.state = "merged"
      BY <2>2, <3>1 DEF LinkAfter, Links
    <3>3. NoDraft'
      BY <2>1, <3>1 DEF NoDraft, Working
    <3>4. QED
      BY <1>1, <2>1, <2>2, <2>3, <3>1, <3>2, <3>3
  <2>5. CASE ~announced
    <3>1. handling[w].event.kind = "merged" /\ Working(w, "merged")
      BY <2>2, <2>5 DEF Working
    <3>2. \A v \in Workers : ~handling'[v].busy
      BY <2>1, <2>2, <3>1
    <3>3. link'.state = "merged"
      BY <2>2, <3>1 DEF LinkAfter, Links, GivesVerdict
    <3>4. \A c \in Linked : handling[w].plan[c] = "completed"
      BY <2>5, <3>1 DEF MergeInv, MergeComes
    <3>5. "completed" # Keep
      BY ReviewAssumption DEF BoardPlaces
    <3>6. ~Later(0, "draft")
      <4>1. CASE reviewRegime.inOrder
        BY <3>1, <4>1 DEF MergeInv, MergeIsLast
      <4>2. CASE "draft" \notin reviewRegime.happen
        BY <4>2 DEF BaseInv, Happened, Later
      <4>3. QED
        BY <4>1, <4>2 DEF DraftsInTurn
    <3>7. NoDraft'
      BY <2>1, <3>2, <3>6 DEF NoDraft, Working
    <3>8. QED
      BY <1>1, <2>3, <3>2, <3>3, <3>4, <3>5, <3>7
  <2>6. QED
    BY <2>4, <2>5
<1>6. ASSUME NEW kind \in AllKinds, NEW who \in People, GitHubTells(kind, who) PROVE Stands'
  <2>1. /\ UNCHANGED <<reviewRegime, handling, place, link, announced>>
        /\ left'.unread = left.unread /\ past'.overtaken = past.overtaken
        /\ kind = "draft" => head.state = "ready"
    BY <1>6 DEF GitHubTells
  <2>2. Stands /\ kind # "draft"
    BY <1>2, <1>3, <2>1 DEF Heard
  <2>3. Later(0, "draft")' => Later(0, "draft")
    BY <1>1, <1>6, <2>2, MailTold
  <2>4. NoDraft'
    BY <2>1, <2>2, <2>3 DEF NoDraft, Working
  <2>5. QED
    BY <1>1, <2>1, <2>2, <2>4
<1>7. ASSUME ChecksTurn PROVE Stands'
  <2>1. UNCHANGED <<reviewRegime, mail, handling, place, link, announced, past, left>>
    BY <1>7 DEF ChecksTurn
  <2>2. Stands
    BY <1>2, <2>1 DEF Heard
  <2>3. QED
    BY <1>1, <2>1, <2>2 DEF NoDraft, Later, Working
<1>8. QED
  BY <1>1, <1>4, <1>5, <1>6, <1>7, ReviewSteps

LEMMA MergePreserved == ASSUME BaseInv, MergeInv, ReviewNext PROVE MergeInv'
BY MergeComesKept, MergeLastKept, MergeStandsKept DEF MergeInv

-----------------------------------------------------------------------------
(* What waits, and what follows it. *)
LEMMA OneWorker ==
  ASSUME Typed, Serial, NEW v \in reviewRegime.workers, NEW w \in reviewRegime.workers
  PROVE  v = w /\ w \in Workers
BY TheWorker DEF Typed

(* A worker takes what is coming into hand, and keeps what follows. *)
LEMMA LookKeepsComing ==
  ASSUME Typed, NEW w \in Workers, NEW i \in DOMAIN mail, NEW a \in BOOLEAN, TookEvent(w, i, a), NEW k
  PROVE  Coming(w, k) => Coming(w, k)'
<1>1. Later(0, k) => Later(0, k)' \/ Working(w, k)'
  BY TakenJob
<1>2. ~Working(w, k)
  BY DEF TookEvent, Working
<1>3. QED
  BY <1>1, <1>2 DEF Coming

LEMMA TellKeepsComing ==
  ASSUME Typed, NEW kind, NEW who, GitHubTells(kind, who), NEW w \in Workers, NEW k
  PROVE  /\ Coming(w, k) => Coming(w, k)'
         /\ kind = k => Coming(w, k)'
<1>1. Later(0, k) => Later(0, k)'
  BY MailTold
<1>2. Later(0, kind)'
  BY MailTold
<1>3. handling' = handling
  BY DEF GitHubTells
<1>4. QED
  BY <1>1, <1>2, <1>3 DEF Coming, Working

LEMMA LookKeepsFollowed ==
  ASSUME Typed, reviewRegime.inOrder, NEW w \in Workers, NEW i \in DOMAIN mail, NEW a \in BOOLEAN,
         TookEvent(w, i, a), NEW S, NEW k, Followed(S, k, w)
  PROVE  Followed(S, k, w)'
<1>1. /\ i = 1 /\ (mail' = mail \/ mail' = RemoveAt(mail, i))
      /\ mail' = RemoveAt(mail, i) =>
           /\ \A j \in DOMAIN mail' : j + 1 \in DOMAIN mail /\ mail'[j] = mail[j + 1]
           /\ \A j \in DOMAIN mail' : \A n : Later(j, n)' <=> Later(j + 1, n)
           /\ \A n : Later(0, n)' <=> Later(1, n)
  BY LookedInOrder
<1>2. handling'[w].event = mail[i]
  BY TakenJob
<1>3. \A j \in DOMAIN mail : mail[j] \in S => Later(j, k)
  BY DEF Followed
<1>4. mail[i] \in S => Later(1, k)
  BY <1>1, <1>3
<1>5. CASE mail' = mail
  <2>1. Later(1, k) => Later(0, k)
    <3>1. DOMAIN mail = 1 .. Len(mail) /\ Len(mail) \in Nat
      BY MailTyped DEF Typed
    <3>2. QED
      BY <3>1 DEF Later
  <2>2. QED
    BY <1>2, <1>3, <1>4, <1>5, <2>1 DEF Followed, Later
<1>6. CASE mail' = RemoveAt(mail, i)
  BY <1>1, <1>2, <1>3, <1>4, <1>6 DEF Followed
<1>7. QED
  BY <1>1, <1>5, <1>6

(* What GitHub tells follows everything; only what is told may lack a follower. *)
LEMMA TellKeepsFollowed ==
  ASSUME Typed, NEW kind, NEW who, GitHubTells(kind, who), NEW w \in Workers, NEW S, NEW k,
         kind = k \/ Followed(S, k, w),
         [kind |-> kind, who |-> who, commits |-> head'.commits] \notin S
  PROVE  Followed(S, k, w)'
<1>1. /\ DOMAIN mail = 1 .. Len(mail) /\ Len(mail) \in Nat /\ DOMAIN mail' = 1 .. Len(mail) + 1
      /\ \A j \in DOMAIN mail : mail'[j] = mail[j]
      /\ mail'[Len(mail) + 1] = [kind |-> kind, who |-> who, commits |-> head'.commits]
  BY MailGrows
<1>2. /\ \A j \in Nat : \A n : Later(j, n) => Later(j, n)'
      /\ \A j \in DOMAIN mail : Later(j, kind)'
      /\ Later(0, kind)'
  BY MailTold
<1>3. handling' = handling
  BY DEF GitHubTells
<1>4. ASSUME NEW j \in DOMAIN mail', mail'[j] \in S PROVE Later(j, k)'
  <2>1. j \in DOMAIN mail /\ j \in Nat
    BY <1>1, <1>4
  <2>2. QED
    BY <1>1, <1>2, <1>4, <2>1 DEF Followed
<1>5. handling[w].busy /\ handling[w].event \in S => Later(0, k)'
  BY <1>2 DEF Followed
<1>6. QED
  BY <1>3, <1>4, <1>5 DEF Followed

(* What a written card shows: what the handler planned, or what was there. *)
LEMMA WhatIsWritten ==
  ASSUME Typed, PlansGo, NEW w \in Workers, Wrote(w), NEW c \in Linked
  PROVE  /\ handling[w].busy /\ handling[w].event \in Mail /\ ~handling'[w].busy /\ mail' = mail
         /\ \A k : Coming(w, k) => Coming(w, k)' \/ handling[w].event.kind = k
         /\ handling[w].plan[c] = Keep => place'[c] = place[c]
         /\ handling[w].plan[c] # Keep =>
              place'[c] = handling[w].plan[c] /\ place'[c] \in GoesTo(handling[w].event.kind)
<1>1. c \in ReviewCards /\ handling[w].busy /\ mail' = mail
  BY LinkedCards DEF Wrote
<1>2. handling[w].event \in Mail
  BY <1>1, MailTyped DEF Typed
<1>3. ~handling'[w].busy
  BY IdledWorker
<1>4. ASSUME NEW k, Coming(w, k) PROVE Coming(w, k)' \/ handling[w].event.kind = k
  BY <1>1, <1>4 DEF Coming, Working, Later
<1>5. /\ handling[w].plan[c] = Keep => place'[c] = place[c]
      /\ handling[w].plan[c] # Keep =>
           place'[c] = handling[w].plan[c] /\ place'[c] \in GoesTo(handling[w].event.kind)
  BY <1>1 DEF Wrote, PlansGo
<1>6. QED
  BY <1>1, <1>2, <1>3, <1>4, <1>5

(* What a plan says does not depend on what happens on GitHub meanwhile. *)
LEMMA PlanUnmoved ==
  ASSUME UNCHANGED <<reviewRegime, place, link, announced>>, NEW e \in Mail, NEW a \in BOOLEAN,
         e.kind \notin CommentKinds \cup {"approved"}
  PROVE  PlanFor(e, a)' = PlanFor(e, a)
<1>1. /\ Linked' = Linked /\ NeedsQaAgain' = NeedsQaAgain
      /\ Assigned(e.who)' = Assigned(e.who) /\ (OnQaSide(e.who)' <=> OnQaSide(e.who))
  BY DEF Linked, NeedsQaAgain, Assigned, OnQaSide
<1>2. \A S : At(S)' = At(S)
  BY <1>1 DEF At
<1>3. e.kind \in {"changes", "commented"} => ReviewPlan(e, a)' = ReviewPlan(e, a)
  BY <1>1 DEF ReviewPlan, FirstCard, Nothing
<1>4. /\ DismissedPlan(e)' = DismissedPlan(e) /\ InlinePlan(e)' = InlinePlan(e)
      /\ PushedPlan(e)' = PushedPlan(e)
  BY <1>1, <1>2 DEF DismissedPlan, InlinePlan, PushedPlan, Nothing
<1>5. /\ DraftPlan' = DraftPlan /\ ReadyPlan' = ReadyPlan /\ UnrequestedPlan' = UnrequestedPlan
      /\ ClosedPlan' = ClosedPlan /\ MergedPlan' = MergedPlan /\ DeployedPlan' = DeployedPlan
  BY <1>1, <1>2 DEF DraftPlan, ReadyPlan, UnrequestedPlan, ClosedPlan, MergedPlan, DeployedPlan, Nothing
<1>6. CASE e.kind \in {"changes", "commented"}
  BY <1>3, <1>6 DEF PlanFor, ReviewKinds
<1>7. CASE e.kind \in {"dismissed", "inline", "pushed"}
  BY <1>4, <1>7 DEF PlanFor, ReviewKinds, CommentKinds
<1>8. CASE e.kind \in {"draft", "ready", "unrequested", "closed", "merged", "deployed"}
  BY <1>5, <1>8 DEF PlanFor, ReviewKinds, CommentKinds
<1>9. e.kind \in AllKinds
  BY DEF Mail
<1>10. QED
  BY <1>6, <1>7, <1>8, <1>9 DEF AllKinds, ReviewKinds, CommentKinds, PullKinds

(* Which cards the handlers move. *)
LEMMA WhatIsPlanned ==
  ASSUME Typed, NEW e \in Mail, NEW a \in BOOLEAN, NEW c \in Linked
  PROVE  LET there == PlanFor(e, a)[c] IN
         /\ e.kind = "dismissed" /\ place[c] = "verified" => there = "in_qa"
         /\ e.kind = "draft" /\ place[c] = "needs_qa" => there = "in_progress"
         /\ e.kind = "ready" => there = "needs_qa"
         /\ e.kind = "closed" /\ place[c] \in Queues => there = "in_progress"
         /\ e.kind \in CommentKinds /\ there = "in_progress" => place[c] \in Verdicts
         /\ e.kind = "pushed" /\ there = "in_progress" => place[c] \in Verdicts \cup {"in_progress"}
         /\ /\ e.kind = "pushed" /\ link.state = "live" /\ link.reviewed /\ e.commits > link.baseline
            /\ place[c] \in Verdicts \cup {"in_progress"}
            => /\ there \in {NeedsQaAgain, "in_progress"}
               /\ e.commits > link.baseline + EscalateAfter => there = NeedsQaAgain
<1>1. c \in ReviewCards /\ NeedsQaAgain \in BoardPlaces /\ Keep \notin BoardPlaces
  BY LinkedCards, ReviewAssumption DEF NeedsQaAgain, BoardPlaces, Queues
<1>2. {"in_qa", "in_progress", "needs_qa", "paused"} \subseteq BoardPlaces
  BY DEF BoardPlaces, Queues
<1>3. ASSUME NEW p \in BoardPlaces, NEW cs PROVE To(p, cs)[c] = IF c \in cs THEN p ELSE Keep
  BY <1>1, <1>3, PlansTo
<1>4. Nothing[c] = Keep
  BY <1>1, NothingPlanned
<1>5. \A places : c \in At(places) <=> place[c] \in places
  BY DEF At
<1>6. /\ e.kind = "dismissed" /\ place[c] = "verified" => PlanFor(e, a)[c] = "in_qa"
      /\ e.kind = "draft" /\ place[c] = "needs_qa" => PlanFor(e, a)[c] = "in_progress"
      /\ e.kind = "ready" => PlanFor(e, a)[c] = "needs_qa"
      /\ e.kind = "closed" /\ place[c] \in Queues => PlanFor(e, a)[c] = "in_progress"
  BY <1>2, <1>3, <1>5 DEF PlanFor, ReviewKinds, CommentKinds, DismissedPlan, DraftPlan, ReadyPlan, ClosedPlan
<1>7. ASSUME e.kind \in CommentKinds, PlanFor(e, a)[c] = "in_progress" PROVE place[c] \in Verdicts
  <2>1. PlanFor(e, a) = CommentPlan(e, a)
    BY <1>7 DEF PlanFor, ReviewKinds, CommentKinds
  <2>2. Nothing[c] # "in_progress" /\ To("paused", Linked)[c] # "in_progress"
        /\ To(NeedsQaAgain, Linked)[c] # "in_progress" /\ To("in_qa", Linked)[c] # "in_progress"
    BY <1>1, <1>2, <1>3, <1>4 DEF NeedsQaAgain
  <2>3. To("in_progress", Resumable(e, a))[c] = "in_progress"
    BY <1>7, <2>1, <2>2 DEF CommentPlan
  <2>4. c \in Resumable(e, a)
    BY <1>1, <1>2, <1>3, <2>3
  <2>5. QED
    BY <1>5, <2>4 DEF Resumable
<1>8. ASSUME e.kind = "pushed" PROVE PlanFor(e, a) = PushedPlan(e)
  BY <1>8 DEF PlanFor, ReviewKinds, CommentKinds
<1>9. ASSUME NEW cs PROVE /\ To(NeedsQaAgain, cs)[c] = IF c \in cs THEN NeedsQaAgain ELSE Keep
                          /\ To("in_progress", cs)[c] = IF c \in cs THEN "in_progress" ELSE Keep
  BY <1>1, <1>2, <1>3
<1>10. ASSUME e.kind = "pushed", PlanFor(e, a)[c] = "in_progress"
       PROVE  place[c] \in Verdicts \cup {"in_progress"}
  <2>1. \/ To(NeedsQaAgain, At(Verdicts \cup {"in_progress"}))[c] = "in_progress"
        \/ To("in_progress", At(Verdicts \cup {"in_progress"}))[c] = "in_progress"
    BY <1>1, <1>2, <1>4, <1>8, <1>10 DEF PushedPlan
  <2>2. c \in At(Verdicts \cup {"in_progress"})
    BY <1>1, <1>2, <1>9, <2>1
  <2>3. QED
    BY <1>5, <2>2
<1>11. ASSUME e.kind = "pushed", link.state = "live", link.reviewed, e.commits > link.baseline,
              place[c] \in Verdicts \cup {"in_progress"}
       PROVE  /\ PlanFor(e, a)[c] \in {NeedsQaAgain, "in_progress"}
              /\ e.commits > link.baseline + EscalateAfter => PlanFor(e, a)[c] = NeedsQaAgain
  <2>1. e.commits \in Nat /\ link.baseline \in Nat
    BY DEF Mail, Typed, Links
  <2>2. ~(e.commits <= link.baseline)
    BY <1>11, <2>1
  <2>3. PlanFor(e, a) = To(IF e.commits > link.baseline + EscalateAfter THEN NeedsQaAgain
                           ELSE "in_progress", At(Verdicts \cup {"in_progress"}))
    BY <1>8, <1>11, <2>2 DEF PushedPlan
  <2>4. c \in At(Verdicts \cup {"in_progress"})
    BY <1>5, <1>11
  <2>5. QED
    BY <1>9, <2>3, <2>4
<1>12. QED
  BY <1>6, <1>7, <1>10, <1>11

-----------------------------------------------------------------------------
(* The verdict. *)
LEMMA HeardBefore ==
  ASSUME BaseInv, ReviewNext
  PROVE  (Heard' => Heard) /\ (Open' => Open) /\ (Serial' <=> Serial)
<1>1. /\ Typed /\ reviewRegime' = reviewRegime /\ left.unread <= reviewRegime.budget.unread
      /\ left.unread \in Nat /\ reviewRegime.budget.unread \in Nat
  BY TypesKept, ReviewAssumption
  DEF BaseInv, Typed, ReviewTypeOK, ReviewBudget, ReviewRegime, Answered
<1>2. Serial' <=> Serial
  BY <1>1 DEF Serial
<1>3. ASSUME NEW w \in Workers, NEW i \in DOMAIN mail, NEW a \in BOOLEAN, TookEvent(w, i, a)
      PROVE  (Heard' => Heard) /\ (Open' => Open)
  BY <1>1, <1>3 DEF TookEvent, Heard, Open
<1>4. ASSUME NEW w \in Workers, Wrote(w) PROVE (Heard' => Heard) /\ (Open' => Open)
  BY <1>4 DEF Wrote, Heard, Open
<1>5. ASSUME NEW kind \in AllKinds, NEW who \in People, GitHubTells(kind, who)
      PROVE  (Heard' => Heard) /\ (Open' => Open)
  BY <1>5 DEF GitHubTells, Heard, Open
<1>6. ASSUME ChecksTurn PROVE (Heard' => Heard) /\ (Open' => Open)
  BY <1>6 DEF ChecksTurn, Heard, Open
<1>7. QED
  BY <1>1, <1>2, <1>3, <1>4, <1>5, <1>6, ReviewSteps

(* While the pull request is open and GitHub answers, every verdict is stamped. *)
LEMMA VerdictIsStamped ==
  ASSUME BaseInv, NEW w \in Workers, Wrote(w), Heard, Open
  PROVE  /\ link.state = "live" /\ link \in Links
         /\ Verdict(w) => link'.reviewed /\ link'.baseline = head.commits
         /\ ~Verdict(w) => link'.reviewed = link.reviewed /\ link'.baseline = link.baseline
<1>1. link \in Links /\ link' = LinkAfter(handling[w]) /\ handling[w].busy /\ head \in Heads
  BY DEF BaseInv, Typed, Wrote
<1>2. link.state = "live"
  BY <1>1 DEF BaseInv, EndsOnce, Open, Links
<1>3. handling[w].answered
  BY <1>1 DEF BaseInv, Answered
<1>4. ASSUME Verdict(w) PROVE link'.reviewed /\ link'.baseline = head.commits
  <2>1. link' = [link EXCEPT !.reviewed = TRUE, !.baseline = head.commits]
    BY <1>1, <1>2, <1>3, <1>4 DEF LinkAfter, Verdict, GivesVerdict
  <2>2. QED
    BY <1>1, <2>1 DEF Links
<1>5. ASSUME ~Verdict(w) PROVE link'.reviewed = link.reviewed /\ link'.baseline = link.baseline
  <2>1. link' = link \/ \E s \in {"withdrawn", "merged"} : link' = [link EXCEPT !.state = s]
    BY <1>1, <1>5 DEF LinkAfter, Verdict
  <2>2. QED
    BY <1>1, <2>1 DEF Links
<1>6. QED
  BY <1>1, <1>2, <1>4, <1>5

LEMMA LinkedVerdictsKept ==
  ASSUME BaseInv, VerdictInv, ReviewNext PROVE VerdictsAreLinked' /\ JudgedBefore'
<1>1. Typed /\ Linked \subseteq ReviewCards
  BY LinkedCards DEF BaseInv
<1>2. (Heard' => Heard) /\ (Open' => Open)
  BY HeardBefore
<1>3. ASSUME NEW w \in Workers, NEW i \in DOMAIN mail, NEW a \in BOOLEAN, TookEvent(w, i, a)
      PROVE  VerdictsAreLinked' /\ JudgedBefore'
  BY <1>2, <1>3 DEF TookEvent, VerdictInv, VerdictsAreLinked, JudgedBefore, Linked
<1>4. ASSUME NEW w \in Workers, Wrote(w) PROVE VerdictsAreLinked' /\ JudgedBefore'
  <2>1. /\ past'.judged = IF Verdict(w) THEN head.commits ELSE past.judged
        /\ past'.rewritten <=> past.rewritten /\ ~Verdict(w)
        /\ UNCHANGED <<reviewRegime, head>>
    BY <1>4 DEF Wrote
  <2>2. JudgedBefore'
    <3>1. head.commits \in Nat
      BY <1>1 DEF Typed, Heads
    <3>2. QED
      BY <2>1, <3>1 DEF JudgedBefore, VerdictInv
  <2>3. ASSUME Heard', Open' PROVE VerdictsAreLinked'
    <3>1. /\ link.state = "live"
          /\ Verdict(w) => link'.reviewed /\ link'.baseline = head.commits
          /\ ~Verdict(w) => link'.reviewed = link.reviewed /\ link'.baseline = link.baseline
      BY <1>2, <1>4, <2>3, VerdictIsStamped
    <3>2. /\ past.judged = IF link.reviewed THEN link.baseline ELSE 0
          /\ \A c \in Linked : place[c] \in Verdicts => link.reviewed
      BY <1>2, <2>3 DEF VerdictInv, VerdictsAreLinked
    <3>3. ASSUME NEW c \in Linked, place'[c] \in Verdicts, ~Verdict(w) PROVE link'.reviewed
      <4>1. /\ handling[w].event \in Mail
            /\ handling[w].plan[c] = Keep => place'[c] = place[c]
            /\ handling[w].plan[c] # Keep =>
                 place'[c] = handling[w].plan[c] /\ place'[c] \in GoesTo(handling[w].event.kind)
        BY <1>1, <1>4, WhatIsWritten DEF BaseInv
      <4>2. CASE handling[w].plan[c] = Keep
        BY <3>1, <3>2, <3>3, <4>1, <4>2
      <4>3. CASE handling[w].plan[c] # Keep
        <5>1. handling[w].event.kind \in AllKinds /\ c \in ReviewCards
          BY <1>1, <4>1 DEF Mail
        <5>2. handling[w].event.kind \in {"approved", "changes"}
          BY <3>3, <4>1, <4>3, <5>1
          DEF GoesTo, Verdicts, AllKinds, ReviewKinds, CommentKinds, PullKinds, NeedsQaAgain
        <5>3. QED
          BY <3>3, <4>3, <5>1, <5>2 DEF Verdict, GivesVerdict
      <4>4. QED
        BY <4>2, <4>3
    <3>4. past'.judged = IF link'.reviewed THEN link'.baseline ELSE 0
      BY <2>1, <3>1, <3>2
    <3>5. Linked' = Linked
      BY <2>1 DEF Linked
    <3>6. QED
      BY <3>1, <3>3, <3>4, <3>5 DEF VerdictsAreLinked
  <2>4. QED
    BY <2>2, <2>3 DEF VerdictsAreLinked
<1>5. ASSUME NEW kind \in AllKinds, NEW who \in People, GitHubTells(kind, who)
      PROVE  VerdictsAreLinked' /\ JudgedBefore'
  <2>1. /\ UNCHANGED <<reviewRegime, place, link>> /\ past'.judged = past.judged
        /\ ~past'.rewritten => ~past.rewritten /\ head.commits <= head'.commits
    BY <1>5 DEF GitHubTells
  <2>2. head.commits \in Nat /\ head'.commits \in Nat /\ past.judged \in Nat
    BY <1>1, <1>5 DEF GitHubTells, Typed, Heads, Pasts
  <2>3. QED
    BY <1>2, <2>1, <2>2 DEF VerdictInv, VerdictsAreLinked, JudgedBefore, Linked
<1>6. ASSUME ChecksTurn PROVE VerdictsAreLinked' /\ JudgedBefore'
  <2>1. head'.commits = head.commits
    BY <1>1, <1>6 DEF ChecksTurn, Typed, Heads
  <2>2. QED
    BY <1>2, <1>6, <2>1 DEF ChecksTurn, VerdictInv, VerdictsAreLinked, JudgedBefore, Linked
<1>7. QED
  BY <1>1, <1>3, <1>4, <1>5, <1>6, ReviewSteps

LEMMA PlanStandsStill ==
  ASSUME Typed, NEW w \in Workers, PlanStands(w),
         UNCHANGED <<reviewRegime, handling, place, link, announced>>
  PROVE  PlanStands(w)'
<1>1. ASSUME handling[w].busy PROVE PlanStands(w)'
  <2>1. PICK e \in Mail, a \in BOOLEAN : e = handling[w].event /\ a = handling[w].answered
    BY <1>1, MailTyped DEF Typed
  <2>2. e.kind \notin CommentKinds \cup {"approved"} => PlanFor(e, a)' = PlanFor(e, a)
    BY PlanUnmoved
  <2>3. handling'[w].event = e /\ handling'[w].answered = a /\ handling'[w].plan = handling[w].plan
    BY <2>1
  <2>4. e.kind \notin CommentKinds \cup {"approved"} => handling[w].plan = PlanFor(e, a)
    BY <1>1, <2>1 DEF PlanStands
  <2>5. e.kind \notin CommentKinds \cup {"approved"} =>
          handling'[w].plan = PlanFor(handling[w].event, handling[w].answered)'
    BY <2>2, <2>3, <2>4
  <2>6. \A c \in Linked : e.kind \in CommentKinds /\ handling[w].plan[c] = "in_progress" =>
                            place[c] \in Verdicts
    BY <1>1, <2>1 DEF PlanStands
  <2>7. QED
    BY <2>3, <2>5, <2>6 DEF PlanStands, Linked
<1>2. ~handling[w].busy => PlanStands(w)'
  BY DEF PlanStands
<1>3. QED
  BY <1>1, <1>2

LEMMA PlanStandsKept ==
  ASSUME BaseInv, Serial, NEW w \in reviewRegime.workers, PlanStands(w), ReviewNext
  PROVE  PlanStands(w)'
<1>1. Typed /\ w \in Workers /\ reviewRegime' = reviewRegime
  BY OneWorker, TypesKept DEF BaseInv
<1>2. ASSUME NEW i \in DOMAIN mail, NEW a \in BOOLEAN, TookEvent(w, i, a) PROVE PlanStands(w)'
  <2>1. /\ handling'[w].event = mail[i] /\ handling'[w].answered = a
        /\ handling'[w].plan = PlanFor(mail[i], a) /\ mail[i] \in Mail
    BY <1>1, <1>2, TakenJob
  <2>2. UNCHANGED <<reviewRegime, place, link, announced>> /\ Linked' = Linked
    BY <1>2 DEF TookEvent, Linked
  <2>3. PICK e \in Mail : e = mail[i]
    BY <2>1
  <2>4. e.kind \notin CommentKinds \cup {"approved"} => PlanFor(e, a)' = PlanFor(e, a)
    BY <2>2, PlanUnmoved
  <2>5. \A c \in Linked :
          e.kind \in CommentKinds /\ PlanFor(e, a)[c] = "in_progress" => place[c] \in Verdicts
    BY <1>1, WhatIsPlanned
  <2>6. handling'[w].event = e /\ handling'[w].answered = a /\ handling'[w].plan = PlanFor(e, a)
    BY <2>1, <2>3
  <2>7. e.kind \notin CommentKinds \cup {"approved"} =>
          handling'[w].plan = PlanFor(handling[w].event, handling[w].answered)'
    BY <2>4, <2>6
  <2>8. QED
    BY <2>2, <2>5, <2>6, <2>7 DEF PlanStands
<1>3. ASSUME Wrote(w) PROVE PlanStands(w)'
  BY <1>1, <1>3, IdledWorker DEF PlanStands
<1>5. ASSUME NEW kind \in AllKinds, NEW who \in People, GitHubTells(kind, who) PROVE PlanStands(w)'
  BY <1>1, <1>5, PlanStandsStill DEF GitHubTells
<1>6. ASSUME ChecksTurn PROVE PlanStands(w)'
  BY <1>1, <1>6, PlanStandsStill DEF ChecksTurn
<1>7. QED
  BY <1>1, <1>2, <1>3, <1>5, <1>6, OneWorker, ReviewSteps

LEMMA DraftEndsKept ==
  ASSUME BaseInv, Serial, NEW w \in reviewRegime.workers, DraftEnds(w), ReviewNext
  PROVE  DraftEnds(w)'
<1> DEFINE Drafts == {m \in Mail : m.kind = "draft"}
<1>1. Typed /\ w \in Workers /\ reviewRegime' = reviewRegime
  BY OneWorker, TypesKept DEF BaseInv
<1>2. PICK S : S = Drafts
  OBVIOUS
<1>3. /\ DraftEnds(w) <=> (reviewRegime.inOrder /\ head.state = "ready" => Followed(S, "ready", w))
      /\ DraftEnds(w)' <=> (reviewRegime'.inOrder /\ head'.state = "ready" => Followed(S, "ready", w)')
  BY <1>2 DEF DraftEnds, Followed, Later
<1>4. ASSUME NEW i \in DOMAIN mail, NEW a \in BOOLEAN, TookEvent(w, i, a) PROVE DraftEnds(w)'
  BY <1>1, <1>3, <1>4, LookKeepsFollowed DEF TookEvent
<1>5. ASSUME Wrote(w) PROVE DraftEnds(w)'
  <2>1. mail' = mail /\ head' = head /\ ~handling'[w].busy
    BY <1>1, <1>5, IdledWorker DEF Wrote
  <2>2. QED
    BY <1>1, <1>3, <2>1 DEF Followed, Later
<1>6. ASSUME NEW kind \in AllKinds, NEW who \in People, GitHubTells(kind, who),
             reviewRegime.inOrder, head'.state = "ready"
      PROVE  Followed(S, "ready", w)'
  <2>1. kind # "draft" /\ (kind = "ready" \/ head.state = "ready")
    BY <1>6 DEF GitHubTells
  <2>2. [kind |-> kind, who |-> who, commits |-> head'.commits] \notin S
    BY <1>2, <2>1
  <2>3. kind = "ready" \/ Followed(S, "ready", w)
    BY <1>3, <1>6, <2>1
  <2>4. QED
    BY <1>1, <1>6, <2>2, <2>3, TellKeepsFollowed
<1>7. ASSUME ChecksTurn PROVE DraftEnds(w)'
  <2>1. head'.state = head.state
    BY <1>1, <1>7 DEF ChecksTurn, Typed, Heads
  <2>2. QED
    BY <1>1, <1>3, <1>7, <2>1 DEF ChecksTurn, Followed, Later
<1>8. QED
  BY <1>1, <1>3, <1>4, <1>5, <1>6, <1>7, OneWorker, ReviewSteps

(* The news of the commits stays on its way until it is written. *)
LEMMA PushComingKept ==
  ASSUME Typed, NEW w \in Workers, PushComing(w)
  PROVE  /\ \A i \in DOMAIN mail, a \in BOOLEAN : TookEvent(w, i, a) => PushComing(w)'
         /\ Wrote(w) => PushComing(w)' \/ (/\ handling[w].event.kind = "pushed"
                                          /\ handling[w].event.commits = head.commits)
         /\ \A kind, who : GitHubTells(kind, who) /\ kind # "pushed" => PushComing(w)'
<1>1. ASSUME NEW i \in DOMAIN mail, NEW a \in BOOLEAN, TookEvent(w, i, a) PROVE PushComing(w)'
  <2>1. /\ handling'[w].busy /\ handling'[w].event = mail[i]
        /\ \A n \in DOMAIN mail : mail[n] = handling'[w].event \/ \E j \in DOMAIN mail' : mail'[j] = mail[n]
    BY <1>1, TakenJob
  <2>2. head' = head /\ ~handling[w].busy
    BY <1>1 DEF TookEvent
  <2>3. PICK n \in DOMAIN mail : mail[n].kind = "pushed" /\ mail[n].commits = head.commits
    BY <2>2 DEF PushComing, Working
  <2>4. QED
    BY <2>1, <2>2, <2>3 DEF PushComing, Working
<1>2. ASSUME Wrote(w)
      PROVE  PushComing(w)' \/ (/\ handling[w].event.kind = "pushed"
                                /\ handling[w].event.commits = head.commits)
  BY <1>2 DEF Wrote, PushComing, Working
<1>3. ASSUME NEW kind, NEW who, GitHubTells(kind, who), kind # "pushed" PROVE PushComing(w)'
  <2>1. handling' = handling /\ head'.commits = head.commits
    BY <1>3 DEF GitHubTells
  <2>2. /\ DOMAIN mail = 1 .. Len(mail) /\ Len(mail) \in Nat /\ DOMAIN mail' = 1 .. Len(mail) + 1
        /\ \A j \in DOMAIN mail : mail'[j] = mail[j]
    BY <1>3, MailGrows
  <2>3. DOMAIN mail \subseteq DOMAIN mail'
    BY <2>2
  <2>4. QED
    BY <2>1, <2>2, <2>3 DEF PushComing, Working
<1>4. QED
  BY <1>1, <1>2, <1>3

(* The two parts of NewCommitsAreTold, of one card. *)
ShownIsTold(w, c) ==
  place[c] \in Verdicts /\ head.commits > past.judged => PushComing(w)
RestIsTold(w, c) ==
  /\ reviewRegime.inOrder /\ head.state = "ready" /\ past.judged > 0
  /\ place[c] \in Verdicts \cup {"in_progress"}
  /\ head.commits > past.judged + EscalateAfter
  => PushComing(w) \/ Coming(w, "ready")

LEMMA ToldByWrite ==
  ASSUME BaseInv, VerdictsAreLinked, NEW w \in Workers, PlanStands(w), DraftEnds(w), Heard, Open,
         Wrote(w), NEW c \in Linked, ShownIsTold(w, c), RestIsTold(w, c)
  PROVE  ShownIsTold(w, c)' /\ RestIsTold(w, c)'
<1> DEFINE e == handling[w].event  there == handling[w].plan[c]
<1>1. /\ Typed /\ c \in ReviewCards /\ head.commits \in Nat /\ past.judged \in Nat /\ EscalateAfter \in Nat
      /\ "in_progress" # Keep /\ NeedsQaAgain \notin Verdicts \cup {"in_progress", Keep}
      /\ {"needs_qa"} \cap (Verdicts \cup {"in_progress", Keep}) = {}
  BY LinkedCards, ReviewAssumption
  DEF BaseInv, Typed, Heads, Pasts, BoardPlaces, Verdicts, NeedsQaAgain, Queues
<1>2. /\ handling[w].busy /\ e \in Mail /\ mail' = mail /\ ~handling'[w].busy
      /\ \A k : Coming(w, k) => Coming(w, k)' \/ e.kind = k
      /\ there = Keep => place'[c] = place[c]
      /\ there # Keep => place'[c] = there /\ place'[c] \in GoesTo(e.kind)
  BY <1>1, WhatIsWritten DEF BaseInv
<1>3. /\ past'.judged = IF Verdict(w) THEN head.commits ELSE past.judged
      /\ UNCHANGED <<reviewRegime, head>>
  BY DEF Wrote
<1>4. CASE Verdict(w)
  <2>1. past'.judged = head.commits /\ ~(head.commits > head.commits)
        /\ ~(head.commits > head.commits + EscalateAfter)
    BY <1>1, <1>3, <1>4
  <2>2. QED
    BY <1>3, <2>1 DEF ShownIsTold, RestIsTold
<1>5. CASE ~Verdict(w)
  <2>1. e.kind \in AllKinds /\ e.commits \in Nat
    BY <1>2 DEF Mail
  <2>2. there # Keep => e.kind \notin {"approved", "changes"}
    BY <1>1, <1>5 DEF Verdict, GivesVerdict
  <2>3. there # Keep => place'[c] \notin Verdicts
    BY <1>2, <2>1, <2>2
    DEF GoesTo, Verdicts, AllKinds, ReviewKinds, CommentKinds, PullKinds, NeedsQaAgain
  <2>4. PICK a \in BOOLEAN : a = handling[w].answered
    BY <1>1, <1>2, MailTyped DEF Typed
  <2>5. e.kind \notin CommentKinds \cup {"approved"} => handling[w].plan = PlanFor(e, a)
    BY <1>2, <2>4 DEF PlanStands
  <2>6. link.state = "live" /\ link.baseline \in Nat
    BY <1>1, VerdictIsStamped DEF Links
  <2>7. ASSUME e.kind = "pushed", e.commits = head.commits, link.reviewed,
               place[c] \in Verdicts \cup {"in_progress"}, head.commits > past.judged
        PROVE  /\ there \in {NeedsQaAgain, "in_progress"}
               /\ head.commits > past.judged + EscalateAfter => there = NeedsQaAgain
    <3>1. past.judged = link.baseline
      BY <2>7 DEF VerdictsAreLinked
    <3>2. there = PlanFor(e, a)[c]
      BY <2>5, <2>7 DEF CommentKinds
    <3>3. QED
      BY <1>1, <1>2, <2>6, <2>7, <3>1, <3>2, WhatIsPlanned
  <2>8. PushComing(w) => PushComing(w)' \/ (e.kind = "pushed" /\ e.commits = head.commits)
    BY <1>1, PushComingKept
  <2>9. ShownIsTold(w, c)'
    <3>1. ASSUME place'[c] \in Verdicts, head.commits > past.judged, ~PushComing(w)' PROVE FALSE
      <4>1. there = Keep /\ place[c] \in Verdicts
        BY <1>2, <2>3, <3>1
      <4>2. link.reviewed
        BY <4>1 DEF VerdictsAreLinked
      <4>3. e.kind = "pushed" /\ e.commits = head.commits
        BY <2>8, <3>1, <4>1 DEF ShownIsTold
      <4>4. QED
        BY <1>1, <2>7, <3>1, <4>1, <4>2, <4>3
    <3>2. QED
      BY <1>3, <1>5, <3>1 DEF ShownIsTold
  <2>10. RestIsTold(w, c)'
    <3>1. ASSUME reviewRegime.inOrder, head.state = "ready", past.judged > 0,
                 place'[c] \in Verdicts \cup {"in_progress"},
                 head.commits > past.judged + EscalateAfter,
                 ~PushComing(w)', ~Coming(w, "ready")'
          PROVE  FALSE
      <4>1. link.reviewed /\ head.commits > past.judged
        BY <1>1, <3>1 DEF VerdictsAreLinked
      <4>2. there = Keep \/ there = "in_progress"
        BY <1>2, <2>3, <3>1
      <4>3. CASE place[c] \in Verdicts \cup {"in_progress"}
        <5>1. PushComing(w) \/ Coming(w, "ready")
          BY <3>1, <4>3 DEF RestIsTold
        <5>2. CASE e.kind = "pushed" /\ e.commits = head.commits
          BY <1>1, <2>7, <3>1, <4>1, <4>2, <4>3, <5>2
        <5>3. CASE e.kind = "ready"
          <6>1. there = "needs_qa"
            BY <1>1, <1>2, <2>5, <5>3, WhatIsPlanned DEF CommentKinds
          <6>2. QED
            BY <1>1, <4>2, <6>1
        <5>4. QED
          BY <1>2, <2>8, <3>1, <5>1, <5>2, <5>3
      <4>4. CASE place[c] \notin Verdicts \cup {"in_progress"}
        <5>1. there = "in_progress"
          BY <1>2, <3>1, <4>2, <4>4
        <5>2. e.kind \in CommentKinds \cup {"pushed", "draft", "closed"}
          BY <1>1, <1>2, <2>1, <5>1
          DEF GoesTo, AllKinds, ReviewKinds, CommentKinds, PullKinds, NeedsQaAgain
        <5>3. e.kind \notin CommentKinds
          BY <1>2, <4>4, <5>1 DEF PlanStands
        <5>4. e.kind # "pushed"
          BY <1>1, <1>2, <2>5, <4>4, <5>1, WhatIsPlanned DEF CommentKinds
        <5>5. e.kind # "closed"
          <6>1. Absent("closed")
            BY <3>1 DEF BaseInv, EndsOnce
          <6>2. QED
            BY <1>2, <6>1 DEF Absent, Working
        <5>6. e.kind = "draft"
          BY <5>2, <5>3, <5>4, <5>5
        <5>7. Later(0, "ready")
          BY <1>2, <3>1, <5>6 DEF DraftEnds, Followed
        <5>8. QED
          BY <1>2, <3>1, <5>7 DEF Coming, Later
      <4>5. QED
        BY <4>3, <4>4
    <3>2. QED
      BY <1>3, <1>5, <3>1 DEF RestIsTold
  <2>11. QED
    BY <2>9, <2>10
<1>6. QED
  BY <1>4, <1>5

LEMMA NewCommitsKept ==
  ASSUME BaseInv, VerdictsAreLinked, Serial, NEW w \in reviewRegime.workers, PlanStands(w),
         DraftEnds(w), NewCommitsAreTold(w), ReviewNext
  PROVE  NewCommitsAreTold(w)'
<1>1. /\ Typed /\ w \in Workers /\ reviewRegime' = reviewRegime /\ Linked' = Linked
      /\ (Heard' => Heard) /\ (Open' => Open)
  BY OneWorker, TypesKept, HeardBefore DEF BaseInv, Linked
<1> SUFFICES ASSUME Heard', Open', NEW c \in Linked PROVE ShownIsTold(w, c)' /\ RestIsTold(w, c)'
  BY <1>1 DEF NewCommitsAreTold, ShownIsTold, RestIsTold
<1>2. Heard /\ Open /\ ShownIsTold(w, c) /\ RestIsTold(w, c)
  BY <1>1 DEF NewCommitsAreTold, ShownIsTold, RestIsTold
<1>3. ASSUME UNCHANGED <<reviewRegime, place>>, head'.commits = head.commits,
             past'.judged = past.judged, PushComing(w) => PushComing(w)',
             Coming(w, "ready") => Coming(w, "ready")',
             head'.state = "ready" => head.state = "ready" \/ Coming(w, "ready")'
      PROVE  ShownIsTold(w, c)' /\ RestIsTold(w, c)'
  BY <1>2, <1>3 DEF ShownIsTold, RestIsTold
<1>4. ASSUME NEW i \in DOMAIN mail, NEW a \in BOOLEAN, TookEvent(w, i, a)
      PROVE  ShownIsTold(w, c)' /\ RestIsTold(w, c)'
  <2>1. UNCHANGED <<reviewRegime, head, place, past>>
    BY <1>4 DEF TookEvent
  <2>2. PushComing(w) => PushComing(w)'
    BY <1>1, <1>4, PushComingKept
  <2>3. Coming(w, "ready") => Coming(w, "ready")'
    BY <1>1, <1>4, LookKeepsComing
  <2>4. QED
    BY <1>3, <2>1, <2>2, <2>3
<1>5. ASSUME Wrote(w) PROVE ShownIsTold(w, c)' /\ RestIsTold(w, c)'
  BY <1>1, <1>2, <1>5, ToldByWrite
<1>6. ASSUME NEW kind \in AllKinds, NEW who \in People, GitHubTells(kind, who)
      PROVE  ShownIsTold(w, c)' /\ RestIsTold(w, c)'
  <2>1. CASE kind = "pushed"
    <3>1. /\ DOMAIN mail = 1 .. Len(mail) /\ Len(mail) \in Nat /\ DOMAIN mail' = 1 .. Len(mail) + 1
          /\ mail'[Len(mail) + 1] = [kind |-> kind, who |-> who, commits |-> head'.commits]
      BY <1>1, <1>6, MailGrows
    <3>2. Len(mail) + 1 \in DOMAIN mail'
      BY <3>1
    <3>3. PushComing(w)'
      BY <2>1, <3>1, <3>2 DEF PushComing
    <3>4. QED
      BY <3>3 DEF ShownIsTold, RestIsTold
  <2>2. CASE kind # "pushed"
    <3>1. /\ UNCHANGED <<reviewRegime, place>> /\ head'.commits = head.commits
          /\ past'.judged = past.judged
          /\ head'.state = "ready" => kind = "ready" \/ head.state = "ready"
      BY <1>6, <2>2 DEF GitHubTells
    <3>2. PushComing(w) => PushComing(w)'
      BY <1>1, <1>6, <2>2, PushComingKept
    <3>3. /\ Coming(w, "ready") => Coming(w, "ready")'
          /\ kind = "ready" => Coming(w, "ready")'
      BY <1>1, <1>6, TellKeepsComing
    <3>4. QED
      BY <1>3, <3>1, <3>2, <3>3
  <2>3. QED
    BY <2>1, <2>2
<1>7. ASSUME ChecksTurn PROVE ShownIsTold(w, c)' /\ RestIsTold(w, c)'
  <2>1. head'.state = head.state /\ head'.commits = head.commits
    BY <1>1, <1>7 DEF ChecksTurn, Typed, Heads
  <2>2. UNCHANGED <<reviewRegime, mail, handling, place, past>>
    BY <1>7 DEF ChecksTurn
  <2>3. QED
    BY <1>3, <2>1, <2>2 DEF PushComing, Coming, Later, Working
<1>8. QED
  BY <1>1, <1>4, <1>5, <1>6, <1>7, OneWorker, ReviewSteps

LEMMA VerdictPreserved == ASSUME BaseInv, VerdictInv, ReviewNext PROVE VerdictInv'
<1>1. VerdictsAreLinked' /\ JudgedBefore'
  BY LinkedVerdictsKept
<1>2. reviewRegime' = reviewRegime /\ (Serial' <=> Serial)
  BY HeardBefore, TypesKept DEF BaseInv
<1>3. ASSUME Serial, NEW w \in reviewRegime.workers
      PROVE  PlanStands(w)' /\ NewCommitsAreTold(w)' /\ DraftEnds(w)'
  BY <1>3, PlanStandsKept, NewCommitsKept, DraftEndsKept DEF VerdictInv
<1>4. QED
  BY <1>1, <1>2, <1>3 DEF VerdictInv

-----------------------------------------------------------------------------
(* The queues. *)
LEMMA ApprovalsKept ==
  ASSUME BaseInv, Serial, reviewRegime.inOrder, NEW w \in reviewRegime.workers,
         PlanStands(w), ApprovalsHold(w), ReviewNext
  PROVE  ApprovalsHold(w)'
<1>1. /\ Typed /\ w \in Workers /\ reviewRegime' = reviewRegime /\ Linked' = Linked
      /\ past.approvals \subseteq People
  BY OneWorker, TypesKept DEF BaseInv, Linked, Typed, Pasts
<1>2. PICK S, T : /\ S = {m \in Mail : m.kind = "approved" /\ m.who \notin past.approvals}
                  /\ T = {m \in Mail : m.kind = "approved" /\ m.who \notin past'.approvals}
  OBVIOUS
<1>3. /\ Followed(S, "dismissed", w)
      /\ past.approvals # {} \/ Coming(w, "dismissed") \/ \A c \in Linked : place[c] # "verified"
  BY <1>2 DEF ApprovalsHold
<1>4. ASSUME Followed(T, "dismissed", w)',
             \/ past'.approvals # {} \/ Coming(w, "dismissed")'
             \/ \A c \in Linked : place'[c] # "verified"
      PROVE  ApprovalsHold(w)'
  BY <1>1, <1>2, <1>4 DEF ApprovalsHold, Followed, Later
<1>5. ASSUME NEW i \in DOMAIN mail, NEW a \in BOOLEAN, TookEvent(w, i, a) PROVE ApprovalsHold(w)'
  <2>1. UNCHANGED <<place, past>> /\ T = S
    BY <1>2, <1>5 DEF TookEvent
  <2>2. Followed(S, "dismissed", w)'
    BY <1>1, <1>3, <1>5, LookKeepsFollowed
  <2>3. Coming(w, "dismissed") => Coming(w, "dismissed")'
    BY <1>1, <1>5, LookKeepsComing
  <2>4. QED
    BY <1>3, <1>4, <2>1, <2>2, <2>3
<1>6. ASSUME Wrote(w) PROVE ApprovalsHold(w)'
  <2>1. mail' = mail /\ past'.approvals = past.approvals /\ ~handling'[w].busy /\ T = S
    BY <1>1, <1>2, <1>6, IdledWorker DEF Wrote
  <2>2. Followed(T, "dismissed", w)'
    BY <1>3, <2>1 DEF Followed, Later
  <2>3. ASSUME past.approvals = {}, ~Coming(w, "dismissed")', NEW c \in Linked,
               place'[c] = "verified"
        PROVE  FALSE
    <3>1. /\ handling[w].busy /\ handling[w].event \in Mail
          /\ Coming(w, "dismissed") => handling[w].event.kind = "dismissed"
          /\ handling[w].plan[c] = Keep => place[c] = "verified"
          /\ handling[w].plan[c] # Keep =>
               handling[w].plan[c] = "verified" /\ "verified" \in GoesTo(handling[w].event.kind)
      BY <1>1, <1>6, <2>3, WhatIsWritten DEF BaseInv
    <3>2. CASE handling[w].plan[c] = Keep
      <4>1. handling[w].event.kind = "dismissed"
        BY <1>3, <2>3, <3>1, <3>2
      <4>2. handling[w].plan = PlanFor(handling[w].event, handling[w].answered)
        BY <3>1, <4>1 DEF PlanStands, CommentKinds
      <4>3. handling[w].answered \in BOOLEAN /\ "in_qa" # Keep
        BY <1>1, <3>1, MailTyped, ReviewAssumption DEF Typed, BoardPlaces, Queues
      <4>4. handling[w].plan[c] = "in_qa"
        BY <1>1, <3>1, <3>2, <4>1, <4>2, <4>3, WhatIsPlanned
      <4>5. QED
        BY <3>2, <4>3, <4>4
    <3>3. CASE handling[w].plan[c] # Keep
      <4>1. handling[w].event.kind \in AllKinds
        BY <3>1 DEF Mail
      <4>2. handling[w].event.kind = "approved"
        BY <3>1, <3>3, <4>1 DEF GoesTo, AllKinds, ReviewKinds, CommentKinds, PullKinds, NeedsQaAgain
      <4>3. Later(0, "dismissed")
        BY <1>2, <1>3, <2>3, <3>1, <4>2 DEF Followed
      <4>4. QED
        BY <2>1, <2>3, <4>3 DEF Coming, Later
    <3>4. QED
      BY <3>2, <3>3
  <2>4. QED
    BY <1>4, <2>1, <2>2, <2>3
<1>7. ASSUME NEW kind \in AllKinds, NEW who \in People, GitHubTells(kind, who)
      PROVE  ApprovalsHold(w)'
  <2>1. /\ place' = place
        /\ past'.approvals = IF kind = "approved" THEN past.approvals \cup {who}
                             ELSE IF kind = "dismissed" THEN past.approvals \ {who}
                             ELSE past.approvals
    BY <1>7 DEF GitHubTells
  <2>2. [kind |-> kind, who |-> who, commits |-> head'.commits] \notin T
    BY <1>2, <2>1
  <2>3. kind = "dismissed" \/ Followed(T, "dismissed", w)
    BY <1>2, <1>3, <2>1 DEF Followed
  <2>4. Followed(T, "dismissed", w)'
    BY <1>1, <1>7, <2>2, <2>3, TellKeepsFollowed
  <2>5. /\ Coming(w, "dismissed") => Coming(w, "dismissed")'
        /\ kind = "dismissed" => Coming(w, "dismissed")'
    BY <1>1, <1>7, TellKeepsComing
  <2>6. QED
    BY <1>3, <1>4, <2>1, <2>4, <2>5
<1>8. ASSUME ChecksTurn PROVE ApprovalsHold(w)'
  <2>1. UNCHANGED <<mail, handling, place, past>> /\ T = S
    BY <1>2, <1>8 DEF ChecksTurn
  <2>2. QED
    BY <1>3, <1>4, <2>1 DEF Followed, Later, Coming, Working
<1>9. QED
  BY <1>1, <1>5, <1>6, <1>7, <1>8, OneWorker, ReviewSteps

LEMMA DraftWaitsKept ==
  ASSUME BaseInv, Serial, reviewRegime.inOrder, NEW w \in reviewRegime.workers,
         PlanStands(w), DraftWaitsNot(w), ReviewNext
  PROVE  DraftWaitsNot(w)'
<1>1. /\ Typed /\ w \in Workers /\ reviewRegime' = reviewRegime /\ Linked' = Linked
      /\ (PushesAsk' <=> PushesAsk)
  BY OneWorker, TypesKept DEF BaseInv, Linked, PushesAsk
<1>2. PICK S : S = Asks
  OBVIOUS
<1>3. head.state = "draft" /\ ~past.asked =>
        /\ Followed(S, "draft", w)
        /\ PushesAsk \/ Coming(w, "draft") \/ \A c \in Linked : place[c] # "needs_qa"
  BY <1>2 DEF DraftWaitsNot
<1> SUFFICES ASSUME head'.state = "draft", ~past'.asked
             PROVE  /\ Followed(S, "draft", w)'
                    /\ PushesAsk \/ Coming(w, "draft")' \/ \A c \in Linked : place'[c] # "needs_qa"
  BY <1>1, <1>2 DEF DraftWaitsNot, Followed, Later
<1>4. ASSUME NEW i \in DOMAIN mail, NEW a \in BOOLEAN, TookEvent(w, i, a)
      PROVE  /\ Followed(S, "draft", w)'
             /\ PushesAsk \/ Coming(w, "draft")' \/ \A c \in Linked : place'[c] # "needs_qa"
  <2>1. UNCHANGED <<head, place, past>>
    BY <1>4 DEF TookEvent
  <2>2. Followed(S, "draft", w) => Followed(S, "draft", w)'
    BY <1>1, <1>4, LookKeepsFollowed
  <2>3. Coming(w, "draft") => Coming(w, "draft")'
    BY <1>1, <1>4, LookKeepsComing
  <2>4. QED
    BY <1>3, <2>1, <2>2, <2>3
<1>5. ASSUME Wrote(w)
      PROVE  /\ Followed(S, "draft", w)'
             /\ PushesAsk \/ Coming(w, "draft")' \/ \A c \in Linked : place'[c] # "needs_qa"
  <2>1. mail' = mail /\ head' = head /\ past'.asked = past.asked /\ ~handling'[w].busy
    BY <1>1, <1>5, IdledWorker DEF Wrote
  <2>2. Followed(S, "draft", w)'
    BY <1>3, <2>1 DEF Followed, Later
  <2>3. ASSUME ~PushesAsk, ~Coming(w, "draft")', NEW c \in Linked, place'[c] = "needs_qa"
        PROVE  FALSE
    <3>1. /\ handling[w].busy /\ handling[w].event \in Mail
          /\ Coming(w, "draft") => handling[w].event.kind = "draft"
          /\ handling[w].plan[c] = Keep => place[c] = "needs_qa"
          /\ handling[w].plan[c] # Keep =>
               handling[w].plan[c] = "needs_qa" /\ "needs_qa" \in GoesTo(handling[w].event.kind)
      BY <1>1, <1>5, <2>3, WhatIsWritten DEF BaseInv
    <3>2. CASE handling[w].plan[c] = Keep
      <4>1. handling[w].event.kind = "draft"
        BY <1>3, <2>1, <2>3, <3>1, <3>2
      <4>2. handling[w].plan = PlanFor(handling[w].event, handling[w].answered)
        BY <3>1, <4>1 DEF PlanStands, CommentKinds
      <4>3. handling[w].answered \in BOOLEAN /\ "in_progress" # Keep
        BY <1>1, <3>1, MailTyped, ReviewAssumption DEF Typed, BoardPlaces
      <4>4. handling[w].plan[c] = "in_progress"
        BY <1>1, <3>1, <3>2, <4>1, <4>2, <4>3, WhatIsPlanned
      <4>5. QED
        BY <3>2, <4>3, <4>4
    <3>3. CASE handling[w].plan[c] # Keep
      <4>1. handling[w].event.kind \in AllKinds /\ handling[w].event.kind \in reviewRegime.happen
        BY <1>1, <3>1 DEF Mail, BaseInv, Happened
      <4>2. handling[w].event.kind \in {"ready", "unrequested", "mention", "pushed"}
        BY <3>1, <3>3, <4>1 DEF GoesTo, AllKinds, ReviewKinds, CommentKinds, PullKinds
      <4>3. handling[w].event.kind # "pushed"
        BY <2>3, <3>1, <3>3, <4>1 DEF GoesTo, NeedsQaAgain, PushesAsk
      <4>4. Later(0, "draft")
        BY <1>2, <1>3, <2>1, <3>1, <4>2, <4>3 DEF Asks, Followed
      <4>5. QED
        BY <2>1, <2>3, <4>4 DEF Coming, Later
    <3>4. QED
      BY <3>2, <3>3
  <2>4. QED
    BY <2>2, <2>3
<1>6. ASSUME NEW kind \in AllKinds, NEW who \in People, GitHubTells(kind, who)
      PROVE  /\ Followed(S, "draft", w)'
             /\ PushesAsk \/ Coming(w, "draft")' \/ \A c \in Linked : place'[c] # "needs_qa"
  <2>1. /\ place' = place
        /\ kind \notin {"ready", "unrequested", "mention"}
        /\ kind = "draft" \/ (head.state = "draft" /\ ~past.asked)
    BY <1>6 DEF GitHubTells
  <2>2. [kind |-> kind, who |-> who, commits |-> head'.commits] \notin S
    BY <1>2, <2>1 DEF Asks
  <2>3. Followed(S, "draft", w)'
    BY <1>1, <1>3, <1>6, <2>1, <2>2, TellKeepsFollowed
  <2>4. /\ Coming(w, "draft") => Coming(w, "draft")'
        /\ kind = "draft" => Coming(w, "draft")'
    BY <1>1, <1>6, TellKeepsComing
  <2>5. QED
    BY <1>3, <2>1, <2>3, <2>4
<1>7. ASSUME ChecksTurn
      PROVE  /\ Followed(S, "draft", w)'
             /\ PushesAsk \/ Coming(w, "draft")' \/ \A c \in Linked : place'[c] # "needs_qa"
  <2>1. UNCHANGED <<mail, handling, place, past>> /\ head'.state = head.state
    BY <1>1, <1>7 DEF ChecksTurn, Typed, Heads
  <2>2. QED
    BY <1>3, <2>1 DEF Followed, Later, Coming, Working
<1>8. QED
  BY <1>1, <1>4, <1>5, <1>6, <1>7, OneWorker, ReviewSteps

LEMMA ClosedRestsKept ==
  ASSUME BaseInv, Serial, reviewRegime.inOrder, NEW w \in reviewRegime.workers,
         PlanStands(w), ClosedRests(w), ReviewNext
  PROVE  ClosedRests(w)'
<1>1. /\ Typed /\ w \in Workers /\ reviewRegime' = reviewRegime /\ Linked' = Linked
  BY OneWorker, TypesKept DEF BaseInv, Linked
<1>2. PICK S : S = Earlier
  OBVIOUS
<1>3. head.state = "closed" /\ ~past.spoken =>
        /\ Followed(S, "closed", w)
        /\ Coming(w, "closed") \/ \A c \in Linked : place[c] \notin Queues
  BY <1>2 DEF ClosedRests
<1> SUFFICES ASSUME head'.state = "closed", ~past'.spoken
             PROVE  /\ Followed(S, "closed", w)'
                    /\ Coming(w, "closed")' \/ \A c \in Linked : place'[c] \notin Queues
  BY <1>1, <1>2 DEF ClosedRests, Followed, Later
<1>4. ASSUME NEW i \in DOMAIN mail, NEW a \in BOOLEAN, TookEvent(w, i, a)
      PROVE  /\ Followed(S, "closed", w)'
             /\ Coming(w, "closed")' \/ \A c \in Linked : place'[c] \notin Queues
  <2>1. UNCHANGED <<head, place, past>>
    BY <1>4 DEF TookEvent
  <2>2. Followed(S, "closed", w) => Followed(S, "closed", w)'
    BY <1>1, <1>4, LookKeepsFollowed
  <2>3. Coming(w, "closed") => Coming(w, "closed")'
    BY <1>1, <1>4, LookKeepsComing
  <2>4. QED
    BY <1>3, <2>1, <2>2, <2>3
<1>5. ASSUME Wrote(w)
      PROVE  /\ Followed(S, "closed", w)'
             /\ Coming(w, "closed")' \/ \A c \in Linked : place'[c] \notin Queues
  <2>1. mail' = mail /\ head' = head /\ past'.spoken = past.spoken /\ ~handling'[w].busy
    BY <1>1, <1>5, IdledWorker DEF Wrote
  <2>2. Followed(S, "closed", w)'
    BY <1>3, <2>1 DEF Followed, Later
  <2>3. ASSUME ~Coming(w, "closed")', NEW c \in Linked, place'[c] \in Queues PROVE FALSE
    <3>1. /\ handling[w].busy /\ handling[w].event \in Mail
          /\ Coming(w, "closed") => handling[w].event.kind = "closed"
          /\ handling[w].plan[c] = Keep => place[c] \in Queues
          /\ handling[w].plan[c] # Keep =>
               handling[w].plan[c] \in Queues /\ place'[c] \in GoesTo(handling[w].event.kind)
      BY <1>1, <1>5, <2>3, WhatIsWritten DEF BaseInv
    <3>2. CASE handling[w].plan[c] = Keep
      <4>1. handling[w].event.kind = "closed"
        BY <1>3, <2>1, <2>3, <3>1, <3>2
      <4>2. handling[w].plan = PlanFor(handling[w].event, handling[w].answered)
        BY <3>1, <4>1 DEF PlanStands, CommentKinds
      <4>3. handling[w].answered \in BOOLEAN /\ "in_progress" # Keep
        BY <1>1, <3>1, MailTyped, ReviewAssumption DEF Typed, BoardPlaces
      <4>4. handling[w].plan[c] = "in_progress"
        BY <1>1, <3>1, <3>2, <4>1, <4>2, <4>3, WhatIsPlanned
      <4>5. QED
        BY <3>2, <4>3, <4>4
    <3>3. CASE handling[w].plan[c] # Keep
      <4>1. handling[w].event.kind # "closed"
        BY <2>3, <3>1, <3>3 DEF GoesTo, Queues, ReviewKinds, CommentKinds
      <4>2. Later(0, "closed")
        BY <1>2, <1>3, <2>1, <3>1, <4>1 DEF Earlier, Followed
      <4>3. QED
        BY <2>1, <2>3, <4>2 DEF Coming, Later
    <3>4. QED
      BY <3>2, <3>3
  <2>4. QED
    BY <2>2, <2>3
<1>6. ASSUME NEW kind \in AllKinds, NEW who \in People, GitHubTells(kind, who)
      PROVE  /\ Followed(S, "closed", w)'
             /\ Coming(w, "closed")' \/ \A c \in Linked : place'[c] \notin Queues
  <2>1. /\ place' = place
        /\ kind = "closed" \/ (head.state = "closed" /\ ~past.spoken)
    BY <1>6 DEF GitHubTells
  <2>2. kind = "closed"
    BY <1>6, <2>1
    DEF GitHubTells, Open, AllKinds, ReviewKinds, CommentKinds, PullKinds
  <2>3. [kind |-> kind, who |-> who, commits |-> head'.commits] \notin S
    BY <1>2, <2>2 DEF Earlier
  <2>4. Followed(S, "closed", w)' /\ Coming(w, "closed")'
    BY <1>1, <1>6, <2>2, <2>3, TellKeepsFollowed, TellKeepsComing
  <2>5. QED
    BY <2>4
<1>7. ASSUME ChecksTurn
      PROVE  /\ Followed(S, "closed", w)'
             /\ Coming(w, "closed")' \/ \A c \in Linked : place'[c] \notin Queues
  <2>1. UNCHANGED <<mail, handling, place, past>> /\ head'.state = head.state
    BY <1>1, <1>7 DEF ChecksTurn, Typed, Heads
  <2>2. QED
    BY <1>3, <2>1 DEF Followed, Later, Coming, Working
<1>8. QED
  BY <1>1, <1>4, <1>5, <1>6, <1>7, OneWorker, ReviewSteps

LEMMA QueuePreserved == ASSUME BaseInv, VerdictInv, QueueInv, ReviewNext PROVE QueueInv'
<1>1. reviewRegime' = reviewRegime /\ (Serial' <=> Serial) /\ (Heard' => Heard)
  BY HeardBefore, TypesKept DEF BaseInv
<1>2. ASSUME Serial, reviewRegime.inOrder, Heard, NEW w \in reviewRegime.workers
      PROVE  ApprovalsHold(w)' /\ DraftWaitsNot(w)' /\ ClosedRests(w)'
  <2>1. PlanStands(w) /\ ApprovalsHold(w) /\ DraftWaitsNot(w) /\ ClosedRests(w)
    BY <1>2 DEF VerdictInv, QueueInv
  <2>2. QED
    BY <1>2, <2>1, ApprovalsKept, DraftWaitsKept, ClosedRestsKept
<1>3. QED
  BY <1>1, <1>2 DEF QueueInv

-----------------------------------------------------------------------------
LEMMA ReviewStarts == ASSUME ReviewInit PROVE ReviewInv
<1>1. PICK state \in {"draft", "ready"} :
        /\ head = [state |-> state, commits |-> 1, green |-> TRUE]
        /\ place = [c \in ReviewCards |-> IF state = "draft" THEN "assigned" ELSE "needs_qa"]
  BY DEF ReviewInit
<1>2. /\ reviewRegime \in ReviewRegimes /\ mail = <<>> /\ handling = [w \in Workers |-> Idle]
      /\ link = [state |-> "live", reviewed |-> FALSE, baseline |-> 0] /\ announced = FALSE
      /\ past = [approvals |-> {}, judged |-> 0, asked |-> FALSE, spoken |-> FALSE,
                 overtaken |-> FALSE, rewritten |-> FALSE]
      /\ left = reviewRegime.budget
  BY DEF ReviewInit
<1>3. Typed
  <2>1. left \in ReviewBudget
    BY <1>2, ReviewAssumption DEF ReviewRegime
  <2>2. place \in [ReviewCards -> BoardPlaces]
    BY <1>1 DEF BoardPlaces, Queues
  <2>3. head \in Heads /\ past \in Pasts /\ link \in Links
    BY <1>1, <1>2 DEF Heads, Pasts, Links
  <2>4. handling \in [Workers -> {Idle} \cup
          [busy : {TRUE}, event : Mail, plan : Plans, answered : BOOLEAN]]
    BY <1>2
  <2>5. mail \in Seq(Mail)
    BY <1>2
  <2>6. QED
    BY <1>2, <2>1, <2>2, <2>3, <2>4, <2>5 DEF Typed, ReviewTypeOK, Heads, Pasts, Links
<1>4. DOMAIN mail = {} /\ \A w \in Workers : ~handling[w].busy /\ handling[w] = Idle
  BY <1>2 DEF Idle
<1>5. /\ \A j, k : ~Later(j, k)
      /\ \A w \in Workers : \A k : ~Working(w, k)
  BY <1>4 DEF Later, Working
<1>6. BaseInv
  <2>1. left.unread <= reviewRegime.budget.unread
    BY <1>2, <1>3 DEF Typed, ReviewTypeOK, ReviewBudget
  <2>2. PlansGo /\ Happened /\ OthersIdle /\ Answered
    BY <1>4, <2>1 DEF PlansGo, Happened, OthersIdle, Answered
  <2>3. EndsOnce
    BY <1>2, <1>5 DEF EndsOnce, Absent
  <2>4. QED
    BY <1>3, <2>2, <2>3 DEF BaseInv
<1>7. MergeInv
  BY <1>1, <1>2, <1>4, <1>5 DEF MergeInv, MergeComes, MergeIsLast, MergeStands
<1>8. reviewRegime.workers \subseteq Workers /\ Linked \subseteq ReviewCards
  BY <1>2, <1>3, LinkedCards, ReviewAssumption DEF ReviewRegime
<1>9. \A c \in Linked : place[c] \notin Verdicts \cup {"in_progress"}
                        /\ (head.state = "draft" => place[c] # "needs_qa")
  BY <1>1, <1>8 DEF Verdicts
<1>10. VerdictInv
  <2>1. VerdictsAreLinked /\ JudgedBefore
    BY <1>1, <1>2, <1>9 DEF VerdictsAreLinked, JudgedBefore
  <2>2. ASSUME NEW w \in reviewRegime.workers
        PROVE  PlanStands(w) /\ NewCommitsAreTold(w) /\ DraftEnds(w)
    BY <1>4, <1>8, <1>9 DEF PlanStands, NewCommitsAreTold, DraftEnds, Followed
  <2>3. QED
    BY <2>1, <2>2 DEF VerdictInv
<1>11. QueueInv
  <2>1. ASSUME NEW w \in reviewRegime.workers
        PROVE  ApprovalsHold(w) /\ DraftWaitsNot(w) /\ ClosedRests(w)
    <3>1. \A S, k : Followed(S, k, w)
      BY <1>4, <1>8 DEF Followed
    <3>2. \A c \in Linked : place[c] # "verified"
      BY <1>9 DEF Verdicts
    <3>3. head.state # "closed"
      BY <1>1
    <3>4. QED
      BY <1>9, <3>1, <3>2, <3>3 DEF ApprovalsHold, DraftWaitsNot, ClosedRests
  <2>2. QED
    BY <2>1 DEF QueueInv
<1>12. QED
  BY <1>6, <1>7, <1>10, <1>11 DEF ReviewInv

LEMMA ReviewKept == ASSUME ReviewInv, ReviewNext \/ UNCHANGED reviewVars PROVE ReviewInv'
<1>1. CASE ReviewNext
  BY <1>1, BasePreserved, MergePreserved, VerdictPreserved, QueuePreserved DEF ReviewInv
<1>2. CASE UNCHANGED reviewVars
  <2>1. /\ UNCHANGED <<reviewRegime, head, mail, handling, place, link, announced, past, left>>
        /\ Linked' = Linked /\ (Heard' <=> Heard) /\ (Open' <=> Open) /\ (Serial' <=> Serial)
        /\ (DraftsInTurn' <=> DraftsInTurn) /\ (PushesAsk' <=> PushesAsk) /\ NoDraft' = NoDraft
    BY <1>2 DEF reviewVars, Linked, Heard, Open, Serial, DraftsInTurn, PushesAsk, NoDraft, Later, Working
  <2>2. /\ \A j, k : Later(j, k)' <=> Later(j, k)
        /\ \A w, k : (Working(w, k)' <=> Working(w, k)) /\ (Coming(w, k)' <=> Coming(w, k))
        /\ \A w : PushComing(w)' <=> PushComing(w)
        /\ \A S, k, w : Followed(S, k, w)' <=> Followed(S, k, w)
    BY <2>1 DEF Later, Working, Coming, PushComing, Followed
  <2>3. Typed'
    <3>1. Typed
      BY DEF ReviewInv, BaseInv
    <3>2. UNCHANGED <<reviewRegime, head, mail, handling, place, link, announced, past, left>>
      BY <2>1
    <3>3. /\ reviewRegime \in ReviewRegimes /\ mail \in Seq(Mail) /\ announced \in BOOLEAN
          /\ handling \in [Workers -> {Idle} \cup
               [busy : {TRUE}, event : Mail, plan : Plans, answered : BOOLEAN]]
          /\ place \in [ReviewCards -> BoardPlaces] /\ left \in ReviewBudget
          /\ head \in Heads /\ past \in Pasts /\ link \in Links
      BY <3>1 DEF Typed, ReviewTypeOK
    <3>4. /\ reviewRegime' \in ReviewRegimes /\ mail' \in Seq(Mail) /\ announced' \in BOOLEAN
          /\ handling' \in [Workers -> {Idle} \cup
               [busy : {TRUE}, event : Mail, plan : Plans, answered : BOOLEAN]]
          /\ place' \in [ReviewCards -> BoardPlaces] /\ left' \in ReviewBudget
          /\ head' \in Heads /\ past' \in Pasts /\ link' \in Links
      BY <3>2, <3>3
    <3>5. QED
      BY <3>4 DEF Typed, ReviewTypeOK, Heads, Pasts, Links
  <2>4. BaseInv'
    BY <2>1, <2>2, <2>3 DEF ReviewInv, BaseInv, PlansGo, GoesTo, NeedsQaAgain, Happened, OthersIdle,
       EndsOnce, Absent, Answered
  <2>5. MergeInv'
    BY <2>1, <2>2 DEF ReviewInv, MergeInv, MergeComes, MergeIsLast, MergeStands
  <2>6. VerdictInv'
    <3>1. VerdictsAreLinked' /\ JudgedBefore'
      BY <2>1 DEF ReviewInv, VerdictInv, VerdictsAreLinked, JudgedBefore
    <3>2. ASSUME Serial, NEW w \in reviewRegime.workers
          PROVE  PlanStands(w)' /\ NewCommitsAreTold(w)' /\ DraftEnds(w)'
      <4>1. Typed /\ w \in Workers /\ PlanStands(w) /\ NewCommitsAreTold(w) /\ DraftEnds(w)
        BY <3>2, OneWorker DEF ReviewInv, BaseInv, VerdictInv
      <4>2. PlanStands(w)'
        BY <2>1, <4>1, PlanStandsStill
      <4>3. NewCommitsAreTold(w)'
        BY <2>1, <2>2, <4>1 DEF NewCommitsAreTold
      <4>4. DraftEnds(w)'
        BY <2>1, <2>2, <4>1 DEF DraftEnds
      <4>5. QED
        BY <4>2, <4>3, <4>4
    <3>3. QED
      BY <2>1, <3>1, <3>2 DEF VerdictInv
  <2>7. QueueInv'
    <3>1. ASSUME NEW w, ApprovalsHold(w), DraftWaitsNot(w), ClosedRests(w)
          PROVE  ApprovalsHold(w)' /\ DraftWaitsNot(w)' /\ ClosedRests(w)'
      BY <2>1, <3>1
      DEF ApprovalsHold, DraftWaitsNot, ClosedRests, Followed, Later, Coming, Working, Asks, Earlier
    <3>2. QED
      BY <2>1, <3>1 DEF ReviewInv, QueueInv
  <2>8. QED
    BY <2>4, <2>5, <2>6, <2>7 DEF ReviewInv
<1>3. QED
  BY <1>1, <1>2

(* At rest nothing is on its way, and the invariants say what the board shows. *)
LEMMA ReviewSays ==
  ASSUME ReviewInv PROVE VerdictIsCurrent /\ MergedIsNotResumed /\ QueueFollowsGitHub
<1>1. Typed
  BY DEF ReviewInv, BaseInv
<1>2. ASSUME AtRest, NEW w \in Workers
      PROVE  /\ DOMAIN mail = {} /\ ~handling[w].busy /\ ~PushComing(w)
             /\ \A k : ~Coming(w, k)
  BY <1>2 DEF AtRest, PushComing, Coming, Working, Later
<1>3. ASSUME Serial PROVE \E w \in reviewRegime.workers : w \in Workers
  BY <1>1, <1>3, TheWorker DEF Typed
<1>4. VerdictIsCurrent
  <2> SUFFICES ASSUME AtRest, Heard, Serial, Open, NEW c \in Linked
               PROVE  /\ place[c] \in Verdicts =>
                           /\ head.commits <= past.judged
                           /\ ~past.rewritten => head.commits = past.judged
                      /\ /\ place[c] = "in_progress" /\ past.judged > 0
                         /\ head.state = "ready" /\ reviewRegime.inOrder
                         => head.commits <= past.judged + EscalateAfter
    BY DEF VerdictIsCurrent
  <2>1. PICK w \in reviewRegime.workers : w \in Workers
    BY <1>3
  <2>2. NewCommitsAreTold(w) /\ JudgedBefore
    BY DEF ReviewInv, VerdictInv
  <2>3. head.commits \in Nat /\ past.judged \in Nat /\ EscalateAfter \in Nat
    BY <1>1, ReviewAssumption DEF Typed, Heads, Pasts
  <2>4. ~PushComing(w) /\ ~Coming(w, "ready")
    BY <1>2, <2>1
  <2>5. QED
    BY <2>2, <2>3, <2>4 DEF NewCommitsAreTold, JudgedBefore
<1>5. MergedIsNotResumed
  <2> SUFFICES ASSUME AtRest, Heard, head.state = "merged", ~past.overtaken, DraftsInTurn, NEW c \in Linked
               PROVE  place[c] # "in_progress"
    BY DEF MergedIsNotResumed, DraftsInTurn
  <2>1. ~Later(0, "merged") /\ \A w \in Workers : ~Working(w, "merged")
    BY DEF AtRest, Later, Working
  <2>2. announced
    BY <2>1 DEF ReviewInv, MergeInv, MergeComes
  <2>3. QED
    BY <2>2 DEF ReviewInv, MergeInv, MergeStands
<1>6. QueueFollowsGitHub
  <2> SUFFICES ASSUME AtRest, Heard, Serial, reviewRegime.inOrder, NEW c \in Linked
               PROVE  /\ place[c] = "verified" => past.approvals # {}
                      /\ head.state = "draft" /\ ~past.asked /\ ~PushesAsk => place[c] # "needs_qa"
                      /\ head.state = "closed" /\ ~past.spoken => place[c] \notin Queues
    BY DEF QueueFollowsGitHub
  <2>1. PICK w \in reviewRegime.workers : w \in Workers
    BY <1>3
  <2>2. ApprovalsHold(w) /\ DraftWaitsNot(w) /\ ClosedRests(w)
    BY DEF ReviewInv, QueueInv
  <2>3. \A k : ~Coming(w, k)
    BY <1>2, <2>1
  <2>4. QED
    BY <2>2, <2>3 DEF ApprovalsHold, DraftWaitsNot, ClosedRests
<1>7. QED
  BY <1>4, <1>5, <1>6

(***************************************************************************)
(* Whatever the orders, repeats and overlaps of GitHub's events, once they *)
(* are handled no verdict on the board is older than the code, no merged   *)
(* pull request's card is in progress, and the review columns agree with   *)
(* the approvals, the draft and the end of the pull request                *)
(* (pr_review_handler.py).                                                 *)
(***************************************************************************)
THEOREM ReviewsStayKept == ActivitySpec => []ReviewsAreKept
<1>1. ActivityInit => ReviewInv
  BY ReviewStarts DEF ActivityInit
<1>2. ReviewInv /\ [ActivityNext]_<<atWork, reviewVars, feedVars, mirrorVars, eventVars,
                                    commitVars, archVars, trackVars>> => ReviewInv'
  BY ReviewKept DEF ActivityNext
<1>3. ReviewInv => ReviewsAreKept
  BY ReviewSays DEF ReviewsAreKept, ReviewInv, BaseInv, Typed
<1>4. QED
  BY <1>1, <1>2, <1>3, PTL DEF ActivitySpec

-----------------------------------------------------------------------------
(* The archive.                                                            *)

ArchLink ==
  [pull : archRegime.pulls, card : ArchCards, source : {"match", "pr_task_created"},
   merged : BOOLEAN]
ArchPass ==
  [at : {"idle", "delete", "read", "copy", "remove"}, todo : SUBSET (ArchCards \cup ArchLink),
   gone : SUBSET ArchCards, link : SUBSET ArchLink, began : Nat, clean : BOOLEAN,
   whole : BOOLEAN]
ArchTyped ==
  /\ archRegime \in ArchRegimes /\ day \in Nat \ {0}
  /\ board \in [ArchCards -> [at : {"none", "there", "gone"}, done : BOOLEAN]]
  /\ copies \in [ArchCards -> Nat] /\ due \in [ArchCards -> Nat]
  /\ links \subseteq ArchLink /\ settled \subseteq ArchCards /\ archived \subseteq ArchCards
  /\ pass \in ArchPass

(* Some pull request was matched to the card. *)
Matched(c) == \E l \in links : l.card = c /\ l.source = "match"

(* Its copy is made, and the delete comes next. *)
Leaving(c) == pass.at = "remove" /\ \E l \in pass.link : l.card = c

(* What the sweep has in its hands, stage by stage. *)
HandsHold ==
  /\ pass.at = "delete" => pass.todo \subseteq ArchCards
  /\ pass.at \in {"read", "copy", "remove"} =>
       pass.todo \subseteq ArchLink /\ \A l \in pass.todo : Matched(l.card)
  /\ pass.at \notin {"copy", "remove"} => pass.link = {}
  /\ \A l \in pass.link : Matched(l.card) /\ board[l.card].at = "there"
  /\ \A l, m \in pass.link : l = m
  /\ pass.at = "remove" => \A l \in pass.link : copies[l.card] > 0
  /\ pass.whole => pass.at = "idle"

(* A card is on the archive board when it is gone from its own, or about to be. *)
CopiesAreMoves ==
  /\ \A c \in archived : copies[c] > 0
  /\ \A c \in ArchCards : copies[c] > 0 =>
       /\ Matched(c)
       /\ c \notin doubtful => copies[c] = 1 /\ (board[c].at # "gone" => Leaving(c))

(* Rows are settled for deletes that happened, and all that were due when a    *)
(* clean pass began are settled, deleted or still to be.                       *)
Accounted ==
  IF pass.at = "delete" THEN settled \cup pass.gone \cup pass.todo ELSE settled
DuesAreMet ==
  /\ \A c \in settled \cup pass.gone : board[c].at = "gone"
  /\ pass.began <= day
  /\ pass.clean => \A c \in ArchCards : due[c] \in 1 .. pass.began => c \in Accounted

ArchInv == ArchTyped /\ HandsHold /\ CopiesAreMoves /\ DuesAreMet

LEMMA ArchStarts == ArchInit => ArchInv
<1> SUFFICES ASSUME ArchInit PROVE ArchInv
  OBVIOUS
<1>1. pass = NoPass /\ links = {} /\ settled = {} /\ archived = {} /\ day = 1
  BY DEF ArchInit
<1>2. copies \in [ArchCards -> Nat] /\ due \in [ArchCards -> Nat]
      /\ \A c \in ArchCards : copies[c] = 0 /\ due[c] = 0
  BY DEF ArchInit
<1>3. board \in [ArchCards -> [at : {"none", "there", "gone"}, done : BOOLEAN]]
  BY DEF ArchInit
<1>4. pass \in ArchPass
  BY <1>1 DEF NoPass, ArchPass
<1>5. ArchTyped
  BY <1>1, <1>2, <1>3, <1>4 DEF ArchTyped, ArchInit
<1>6. HandsHold /\ CopiesAreMoves
  BY <1>1, <1>2 DEF HandsHold, CopiesAreMoves, NoPass
<1>7. DuesAreMet
  BY <1>1, <1>2 DEF DuesAreMet, NoPass, Accounted
<1> QED
  BY <1>5, <1>6, <1>7 DEF ArchInv

(* A card stays matched. *)
LEMMA MatchesStay ==
  ASSUME ArchTyped, NEW p,
         links' = {IF l.pull = p THEN [l EXCEPT !.merged = TRUE] ELSE l : l \in links}
  PROVE  /\ links' \subseteq ArchLink
         /\ \A c : Matched(c) => Matched(c)'
<1>1. ASSUME NEW l \in links PROVE
        /\ [l EXCEPT !.merged = TRUE] \in ArchLink
        /\ [l EXCEPT !.merged = TRUE].card = l.card
        /\ [l EXCEPT !.merged = TRUE].source = l.source
  BY DEF ArchTyped, ArchLink
<1>2. links' \subseteq ArchLink
  BY <1>1 DEF ArchTyped
<1>3. ASSUME NEW c, Matched(c) PROVE Matched(c)'
  <2>1. PICK l \in links : l.card = c /\ l.source = "match"
    BY <1>3 DEF Matched
  <2>2. (IF l.pull = p THEN [l EXCEPT !.merged = TRUE] ELSE l) \in links'
    OBVIOUS
  <2> QED
    BY <1>1, <2>1, <2>2 DEF Matched
<1> QED
  BY <1>2, <1>3

LEMMA MergesKeep == ASSUME ArchInv, NEW p, MergesPull(p) PROVE ArchInv'
<1>1. links' \subseteq ArchLink /\ \A c : Matched(c) => Matched(c)'
  BY MatchesStay DEF ArchInv, MergesPull
<1>2. UNCHANGED <<archRegime, day, board, copies, due, settled, pass, archived, doubtful>>
  BY DEF MergesPull
<1>3. ArchTyped'
  BY <1>1, <1>2 DEF ArchInv, ArchTyped, ArchPass, ArchLink, ArchCards
<1>4. HandsHold'
  BY <1>1, <1>2 DEF ArchInv, HandsHold, ArchLink, ArchCards
<1>5. CopiesAreMoves'
  BY <1>1, <1>2 DEF ArchInv, CopiesAreMoves, Leaving, ArchCards
<1>6. DuesAreMet'
  BY <1>2 DEF ArchInv, DuesAreMet, Accounted, ArchCards
<1> QED
  BY <1>3, <1>4, <1>5, <1>6 DEF ArchInv

LEMMA LinksKeeps ==
  ASSUME ArchInv, NEW p \in archRegime.pulls, NEW c \in ArchCards, LinksCard(p, c)
  PROVE  ArchInv'
<1>0. [pull |-> p, card |-> c, source |-> "match", merged |-> FALSE] \in ArchLink
  BY DEF ArchLink
<1>1. links' \subseteq ArchLink /\ \A d : Matched(d) => Matched(d)'
  BY <1>0 DEF ArchInv, ArchTyped, LinksCard, Matched
<1>2. UNCHANGED <<archRegime, day, board, copies, due, settled, pass, archived, doubtful>>
  BY DEF LinksCard
<1>3. ArchTyped'
  BY <1>1, <1>2 DEF ArchInv, ArchTyped, ArchPass, ArchLink, ArchCards
<1>4. HandsHold'
  BY <1>1, <1>2 DEF ArchInv, HandsHold, ArchLink, ArchCards
<1>5. CopiesAreMoves'
  BY <1>1, <1>2 DEF ArchInv, CopiesAreMoves, Leaving, ArchCards
<1>6. DuesAreMet'
  BY <1>2 DEF ArchInv, DuesAreMet, Accounted, ArchCards
<1> QED
  BY <1>3, <1>4, <1>5, <1>6 DEF ArchInv

LEMMA MakesKeeps ==
  ASSUME ArchInv, NEW p \in archRegime.pulls, NEW c \in ArchCards, MakesCard(p, c)
  PROVE  ArchInv'
<1>0. [pull |-> p, card |-> c, source |-> "pr_task_created", merged |-> FALSE] \in ArchLink
  BY DEF ArchLink
<1>1. links' \subseteq ArchLink /\ \A d : Matched(d) => Matched(d)'
  BY <1>0 DEF ArchInv, ArchTyped, MakesCard, Matched
<1>2. UNCHANGED <<archRegime, day, copies, settled, pass, archived, doubtful>>
  BY DEF MakesCard
<1>3. board' = [board EXCEPT ![c].at = "there"] /\ board[c].at = "none"
      /\ due' = [due EXCEPT ![c] = day + archRegime.ttl]
  BY DEF MakesCard
<1>4. archRegime.ttl \in Nat \ {0}
  BY ArchAssumption DEF ArchInv, ArchTyped
<1>5. ArchTyped'
  <2>1. board' \in [ArchCards -> [at : {"none", "there", "gone"}, done : BOOLEAN]]
    BY <1>3 DEF ArchInv, ArchTyped
  <2>2. due' \in [ArchCards -> Nat]
    BY <1>3, <1>4 DEF ArchInv, ArchTyped
  <2> QED
    BY <1>1, <1>2, <2>1, <2>2 DEF ArchInv, ArchTyped, ArchPass, ArchLink, ArchCards
<1>6. \A d \in ArchCards : d # c => board'[d] = board[d] /\ due'[d] = due[d]
  BY <1>3 DEF ArchInv, ArchTyped
<1>7. board'[c].at = "there" /\ due'[c] > day
  BY <1>3, <1>4 DEF ArchInv, ArchTyped
<1>8. \A l \in pass.link : l.card \in ArchCards
  BY DEF ArchInv, ArchTyped, ArchPass, ArchLink
<1>9. HandsHold'
  BY <1>1, <1>2, <1>3, <1>6, <1>8 DEF ArchInv, HandsHold, ArchLink, ArchCards
<1>10. CopiesAreMoves'
  <2>1. ASSUME NEW d \in ArchCards, copies[d] > 0, d \notin doubtful
        PROVE  copies[d] = 1 /\ (board'[d].at # "gone" => Leaving(d))
    <3>1. copies[d] = 1 /\ (board[d].at # "gone" => Leaving(d))
      BY <2>1 DEF ArchInv, CopiesAreMoves
    <3>2. d # c
      BY <1>3, <3>1 DEF ArchInv, HandsHold, Leaving
    <3> QED
      BY <1>6, <3>1, <3>2
  <2> QED
    BY <1>1, <1>2, <2>1 DEF ArchInv, CopiesAreMoves, Leaving, ArchCards
<1>11. DuesAreMet'
  <2>1. \A d \in settled \cup pass.gone : board'[d].at = "gone"
    BY <1>3, <1>6 DEF ArchInv, ArchTyped, ArchPass, DuesAreMet
  <2>2. pass.clean => \A d \in ArchCards : due'[d] \in 1 .. pass.began => d \in Accounted
    BY <1>6, <1>7 DEF ArchInv, ArchTyped, ArchPass, DuesAreMet
  <2> QED
    BY <1>2, <2>1, <2>2 DEF ArchInv, DuesAreMet, Accounted, ArchCards
<1> QED
  BY <1>5, <1>9, <1>10, <1>11 DEF ArchInv

LEMMA DoneKeeps == ASSUME ArchInv, NEW c \in ArchCards, SetsDone(c) PROVE ArchInv'
<1>1. UNCHANGED <<archRegime, day, copies, links, due, settled, pass, archived, doubtful>>
  BY DEF SetsDone, Tracking
<1>2. board' = [board EXCEPT ![c].done = ~board[c].done]
  BY DEF SetsDone
<1>3. board' \in [ArchCards -> [at : {"none", "there", "gone"}, done : BOOLEAN]]
      /\ \A d \in ArchCards : board'[d].at = board[d].at
  BY <1>2 DEF ArchInv, ArchTyped
<1>4. ArchTyped'
  BY <1>1, <1>3 DEF ArchInv, ArchTyped, ArchPass, ArchLink, ArchCards
<1>5. HandsHold'
  BY <1>1, <1>3 DEF ArchInv, ArchTyped, ArchPass, HandsHold, ArchLink, ArchCards, Matched
<1>6. CopiesAreMoves'
  BY <1>1, <1>3 DEF ArchInv, CopiesAreMoves, Leaving, ArchCards, Matched
<1>7. DuesAreMet'
  BY <1>1, <1>3 DEF ArchInv, ArchTyped, ArchPass, DuesAreMet, Accounted, ArchCards
<1> QED
  BY <1>4, <1>5, <1>6, <1>7 DEF ArchInv

LEMMA DayKeeps == ASSUME ArchInv, DayPasses PROVE ArchInv'
<1>1. UNCHANGED <<archRegime, board, copies, links, due, settled, pass, archived, doubtful>>
  BY DEF DayPasses, Tracking
<1>2. day' = day + 1
  BY DEF DayPasses
<1>3. ArchTyped'
  BY <1>1, <1>2 DEF ArchInv, ArchTyped, ArchPass, ArchLink, ArchCards
<1>4. HandsHold'
  BY <1>1 DEF ArchInv, HandsHold, ArchLink, ArchCards, Matched
<1>5. CopiesAreMoves'
  BY <1>1 DEF ArchInv, CopiesAreMoves, Leaving, ArchCards, Matched
<1>6. DuesAreMet'
  BY <1>1, <1>2 DEF ArchInv, ArchTyped, ArchPass, DuesAreMet, Accounted, ArchCards
<1> QED
  BY <1>3, <1>4, <1>5, <1>6 DEF ArchInv

(* What a delete does, whatever is answered. *)
LEMMA DeletesDo ==
  ASSUME ArchTyped, NEW c \in ArchCards, NEW ok \in BOOLEAN, Deletes(c, ok)
  PROVE  /\ board' \in [ArchCards -> [at : {"none", "there", "gone"}, done : BOOLEAN]]
         /\ \A d \in ArchCards : d # c => board'[d] = board[d]
         /\ board[c].at = "gone" => board'[c].at = "gone"
         /\ ok => board'[c].at = "gone"
         /\ ~ok => c \in doubtful'
         /\ doubtful \subseteq doubtful'
<1>1. CASE board' = [board EXCEPT ![c].at = "gone"] /\ ok /\ UNCHANGED doubtful
  BY <1>1 DEF ArchTyped
<1>2. CASE UNCHANGED board /\ ~ok /\ doubtful' = doubtful \cup {c}
  BY <1>2 DEF ArchTyped
<1>3. CASE /\ board' \in {board, [board EXCEPT ![c].at = IF c \in archRegime.away THEN @ ELSE "gone"]}
           /\ ~ok /\ doubtful' = doubtful \cup {c}
  BY <1>3 DEF ArchTyped
<1> QED
  BY <1>1, <1>2, <1>3 DEF Deletes

LEMMA BeginsKeep == ASSUME ArchInv, BeginPass PROVE ArchInv'
<1>1. UNCHANGED <<archRegime, day, board, copies, links, due, settled, archived, doubtful>>
  BY DEF BeginPass, Tracking
<1>2. /\ pass'.at = "delete" /\ pass'.todo = DueCards(day) /\ pass'.gone = {} /\ pass'.link = {}
      /\ pass'.began = day /\ pass'.clean = TRUE /\ pass'.whole = FALSE
      /\ pass' \in ArchPass
  BY DEF BeginPass, NoPass, ArchPass, ArchInv, ArchTyped, DueCards
<1>3. pass.at = "idle" /\ DueCards(day) \subseteq ArchCards
  BY DEF BeginPass, DueCards
<1>4. ArchTyped'
  BY <1>1, <1>2 DEF ArchInv, ArchTyped, ArchPass, ArchLink, ArchCards
<1>5. HandsHold'
  BY <1>1, <1>2, <1>3 DEF HandsHold, ArchCards
<1>6. CopiesAreMoves'
  BY <1>1, <1>2, <1>3 DEF ArchInv, CopiesAreMoves, Leaving, ArchCards, Matched
<1>7. DuesAreMet'
  BY <1>1, <1>2 DEF ArchInv, ArchTyped, DuesAreMet, Accounted, ArchCards, DueCards
<1> QED
  BY <1>4, <1>5, <1>6, <1>7 DEF ArchInv

LEMMA DeletesKeep == ASSUME ArchInv, DeleteDue PROVE ArchInv'
<1>1. PICK c \in pass.todo, ok \in BOOLEAN :
        /\ Deletes(c, ok)
        /\ pass' = [pass EXCEPT !.todo = @ \ {c}, !.gone = SettlesIf(@, c, ok), !.clean = @ /\ ok]
  BY DEF DeleteDue
<1>2. UNCHANGED <<archRegime, day, copies, links, due, settled, archived>> /\ pass.at = "delete"
  BY DEF DeleteDue, Tracking
<1>3. pass.todo \subseteq ArchCards /\ pass.link = {} /\ pass \in ArchPass /\ ~pass.whole
  BY <1>2 DEF ArchInv, ArchTyped, HandsHold
<1>4. /\ board' \in [ArchCards -> [at : {"none", "there", "gone"}, done : BOOLEAN]]
      /\ \A d \in ArchCards : d # c => board'[d] = board[d]
      /\ board[c].at = "gone" => board'[c].at = "gone"
      /\ ok => board'[c].at = "gone"
      /\ ~ok => c \in doubtful'
      /\ doubtful \subseteq doubtful'
  BY <1>1, <1>3, DeletesDo DEF ArchInv
<1>5. /\ pass'.at = "delete" /\ pass'.todo = pass.todo \ {c} /\ pass'.link = {}
      /\ pass'.gone = (IF ok THEN pass.gone \cup {c} ELSE pass.gone)
      /\ pass'.began = pass.began /\ pass'.clean = (pass.clean /\ ok) /\ pass'.whole = pass.whole
  BY <1>1, <1>2, <1>3 DEF ArchPass, SettlesIf
<1>6. pass' \in ArchPass
  BY <1>1, <1>3 DEF ArchPass, SettlesIf
<1>7. ArchTyped'
  BY <1>2, <1>4, <1>6 DEF ArchInv, ArchTyped, ArchPass, ArchLink, ArchCards
<1>8. HandsHold'
  BY <1>2, <1>3, <1>5 DEF HandsHold, ArchCards
<1>9. CopiesAreMoves'
  BY <1>2, <1>3, <1>4, <1>5 DEF ArchInv, CopiesAreMoves, Leaving, ArchCards, Matched
<1>10. DuesAreMet'
  <2>1. \A d \in settled \cup pass'.gone : board'[d].at = "gone"
    BY <1>3, <1>4, <1>5 DEF ArchInv, ArchTyped, ArchPass, DuesAreMet
  <2>2. pass'.clean => \A d \in ArchCards :
          due[d] \in 1 .. pass.began => d \in settled \cup pass'.gone \cup pass'.todo
    BY <1>2, <1>5 DEF ArchInv, DuesAreMet, Accounted
  <2> QED
    BY <1>2, <1>5, <2>1, <2>2 DEF ArchInv, DuesAreMet, Accounted, ArchCards
<1> QED
  BY <1>7, <1>8, <1>9, <1>10 DEF ArchInv

LEMMA SettlesKeep == ASSUME ArchInv, SettleRows PROVE ArchInv'
<1>1. UNCHANGED <<archRegime, day, board, copies, links, due, archived, doubtful>>
      /\ settled' = settled \cup pass.gone /\ pass.at = "delete" /\ pass.todo = {}
  BY DEF SettleRows, Tracking
<1>2. pass \in ArchPass /\ ToArchive \subseteq ArchLink
  BY DEF ArchInv, ArchTyped, ToArchive
<1>3. /\ pass'.at = "read" /\ pass'.todo = ToArchive /\ pass'.gone = {} /\ pass'.link = pass.link
      /\ pass'.began = pass.began /\ pass'.clean = pass.clean /\ pass' \in ArchPass
      /\ pass'.whole = pass.whole
  BY <1>2 DEF SettleRows, ArchPass
<1>4. ArchTyped'
  BY <1>1, <1>2, <1>3 DEF ArchInv, ArchTyped, ArchPass, ArchLink, ArchCards
<1>5. HandsHold'
  BY <1>1, <1>2, <1>3 DEF ArchInv, HandsHold, ArchCards, ArchLink, Matched, ToArchive
<1>6. CopiesAreMoves'
  BY <1>1, <1>3 DEF ArchInv, CopiesAreMoves, Leaving, ArchCards, Matched
<1>7. DuesAreMet'
  BY <1>1, <1>3 DEF ArchInv, DuesAreMet, Accounted, ArchCards
<1> QED
  BY <1>4, <1>5, <1>6, <1>7 DEF ArchInv

LEMMA ReadsKeep == ASSUME ArchInv, ReadCard PROVE ArchInv'
<1>1. UNCHANGED <<archRegime, day, board, copies, links, due, settled, archived, doubtful>>
      /\ pass.at = "read"
  BY DEF ReadCard, Tracking
<1>2. PICK l \in pass.todo :
        \/ /\ LooksDone(l.card)
           /\ pass' = [pass EXCEPT !.at = "copy", !.todo = @ \ {l}, !.link = {l}]
        \/ pass' = [pass EXCEPT !.todo = @ \ {l}]
        \/ pass' = [pass EXCEPT !.todo = @ \ {l}, !.clean = FALSE]
  BY DEF ReadCard
<1>3. pass \in ArchPass /\ pass.todo \subseteq ArchLink /\ pass.link = {} /\ Matched(l.card)
  BY <1>1, <1>2 DEF ArchInv, ArchTyped, HandsHold
<1>4. /\ pass'.todo = pass.todo \ {l} /\ pass'.gone = pass.gone /\ pass'.began = pass.began
      /\ pass'.whole = pass.whole
      /\ pass'.clean => pass.clean
      /\ \/ pass'.at = "copy" /\ pass'.link = {l} /\ board[l.card].at = "there"
         \/ pass'.at = "read" /\ pass'.link = {}
  BY <1>1, <1>2, <1>3 DEF ArchPass, LooksDone
<1>5. pass' \in ArchPass
  <2>1. l \in ArchLink
    BY <1>3
  <2>2. [pass EXCEPT !.at = "copy", !.todo = @ \ {l}, !.link = {l}] \in ArchPass
    BY <1>3, <2>1 DEF ArchPass
  <2>3. /\ [pass EXCEPT !.todo = @ \ {l}] \in ArchPass
        /\ [pass EXCEPT !.todo = @ \ {l}, !.clean = FALSE] \in ArchPass
    BY <1>3 DEF ArchPass
  <2> QED
    BY <1>2, <2>2, <2>3
<1>6. ArchTyped'
  BY <1>1, <1>5 DEF ArchInv, ArchTyped, ArchPass, ArchLink, ArchCards
<1>7. HandsHold'
  BY <1>1, <1>3, <1>4 DEF ArchInv, HandsHold, ArchCards, ArchLink, Matched
<1>8. CopiesAreMoves'
  BY <1>1, <1>4 DEF ArchInv, CopiesAreMoves, Leaving, ArchCards, Matched
<1>9. DuesAreMet'
  BY <1>1, <1>4 DEF ArchInv, DuesAreMet, Accounted, ArchCards
<1> QED
  BY <1>6, <1>7, <1>8, <1>9 DEF ArchInv

LEMMA CopiesKeep == ASSUME ArchInv, CopyCard PROVE ArchInv'
<1>1. UNCHANGED <<archRegime, day, board, links, due, settled, archived>> /\ pass.at = "copy"
  BY DEF CopyCard, Tracking
<1>2. PICK l \in pass.link :
        \/ /\ copies' = [copies EXCEPT ![l.card] = @ + 1] /\ pass' = AfterCopy(TRUE)
           /\ UNCHANGED doubtful
        \/ /\ pass' = AfterCopy(FALSE)
           /\ \/ UNCHANGED <<copies, doubtful>>
              \/ copies' = [copies EXCEPT ![l.card] = @ + 1] /\ doubtful' = doubtful \cup {l.card}
  BY DEF CopyCard
<1>3. pass \in ArchPass /\ l.card \in ArchCards /\ Matched(l.card) /\ board[l.card].at = "there"
      /\ ~pass.whole /\ pass.link = {l} /\ pass.todo \subseteq ArchLink
      /\ \A m \in pass.todo : Matched(m.card)
  <2>1. pass \in ArchPass /\ l \in ArchLink /\ l.card \in ArchCards
    BY DEF ArchInv, ArchTyped, ArchPass, ArchLink
  <2> QED
    BY <1>1, <1>2, <2>1 DEF ArchInv, HandsHold
<1>4. /\ pass'.todo = pass.todo /\ pass'.gone = pass.gone /\ pass'.began = pass.began
      /\ pass'.whole = pass.whole
      /\ pass'.clean => pass.clean
      /\ \/ pass'.at = "remove" /\ pass'.link = {l}
            /\ copies' = [copies EXCEPT ![l.card] = @ + 1] /\ UNCHANGED doubtful
         \/ /\ pass'.at = "read" /\ pass'.link = {}
            /\ \/ UNCHANGED <<copies, doubtful>>
               \/ copies' = [copies EXCEPT ![l.card] = @ + 1] /\ doubtful' = doubtful \cup {l.card}
  BY <1>1, <1>2, <1>3 DEF ArchPass, AfterCopy
<1>5. pass' \in ArchPass
  BY <1>2, <1>3 DEF ArchPass, AfterCopy
<1>6. copies \in [ArchCards -> Nat]
  BY DEF ArchInv, ArchTyped
<1>7. /\ copies' \in [ArchCards -> Nat]
      /\ \A d \in ArchCards : d # l.card => copies'[d] = copies[d]
      /\ copies'[l.card] \in {copies[l.card], copies[l.card] + 1}
      /\ doubtful \subseteq doubtful'
      /\ pass'.at = "remove" => copies'[l.card] = copies[l.card] + 1
      /\ pass'.at = "read" => copies'[l.card] = copies[l.card] \/ l.card \in doubtful'
  BY <1>3, <1>4, <1>6
<1>8. ArchTyped'
  BY <1>1, <1>5, <1>7 DEF ArchInv, ArchTyped, ArchPass, ArchLink, ArchCards
<1>9. HandsHold'
  <2>1. ArchLink' = ArchLink /\ \A c : Matched(c) => Matched(c)'
    BY <1>1 DEF ArchLink, ArchCards, Matched
  <2>2. pass'.at = "remove" => copies'[l.card] > 0
    BY <1>3, <1>6, <1>7
  <2> QED
    BY <1>1, <1>3, <1>4, <2>1, <2>2 DEF HandsHold
<1>10. CopiesAreMoves'
  <2>1. \A c \in archived : copies'[c] > 0
    BY <1>6, <1>7 DEF ArchInv, ArchTyped, CopiesAreMoves
  <2>2. copies[l.card] = 0 \/ l.card \in doubtful
    BY <1>1, <1>3, <1>6 DEF ArchInv, CopiesAreMoves, Leaving
  <2>3. ASSUME NEW d \in ArchCards, copies'[d] > 0, d \notin doubtful'
        PROVE  copies'[d] = 1 /\ (board[d].at # "gone" => pass'.at = "remove" /\ d = l.card)
    <3>1. CASE d = l.card
      BY <1>3, <1>4, <1>7, <2>2, <2>3, <3>1
    <3>2. CASE d # l.card
      BY <1>1, <1>7, <2>3, <3>2 DEF ArchInv, CopiesAreMoves, Leaving
    <3> QED
      BY <3>1, <3>2
  <2>4. ASSUME NEW d \in ArchCards, copies'[d] > 0 PROVE Matched(d)
    BY <1>3, <1>7, <2>4 DEF ArchInv, CopiesAreMoves
  <2> QED
    BY <1>1, <1>4, <2>1, <2>3, <2>4 DEF CopiesAreMoves, Leaving, ArchCards, Matched
<1>11. DuesAreMet'
  BY <1>1, <1>4 DEF ArchInv, DuesAreMet, Accounted, ArchCards
<1> QED
  BY <1>8, <1>9, <1>10, <1>11 DEF ArchInv

LEMMA RemovesKeep == ASSUME ArchInv, RemoveCard PROVE ArchInv'
<1>1. UNCHANGED <<archRegime, day, copies, links, due, settled>> /\ pass.at = "remove"
  BY DEF RemoveCard, Tracking
<1>2. PICK l \in pass.link, ok \in BOOLEAN :
        /\ Deletes(l.card, ok)
        /\ archived' = IF board'[l.card].at = "gone" THEN archived \cup {l.card} ELSE archived
        /\ pass' = [pass EXCEPT !.at = "read", !.link = {}, !.clean = @ /\ ok]
  BY DEF RemoveCard
<1>3. pass \in ArchPass /\ l.card \in ArchCards /\ copies[l.card] > 0
      /\ ~pass.whole /\ pass.link = {l} /\ pass.todo \subseteq ArchLink
      /\ \A m \in pass.todo : Matched(m.card)
  <2>1. pass \in ArchPass /\ l \in ArchLink /\ l.card \in ArchCards
    BY DEF ArchInv, ArchTyped, ArchPass, ArchLink
  <2> QED
    BY <1>1, <1>2, <2>1 DEF ArchInv, HandsHold
<1>4. /\ board' \in [ArchCards -> [at : {"none", "there", "gone"}, done : BOOLEAN]]
      /\ \A d \in ArchCards : d # l.card => board'[d] = board[d]
      /\ board[l.card].at = "gone" => board'[l.card].at = "gone"
      /\ ok => board'[l.card].at = "gone"
      /\ ~ok => l.card \in doubtful'
      /\ doubtful \subseteq doubtful'
  BY <1>2, <1>3, DeletesDo DEF ArchInv
<1>5. /\ pass'.at = "read" /\ pass'.todo = pass.todo /\ pass'.gone = pass.gone
      /\ pass'.began = pass.began /\ pass'.link = {} /\ pass'.whole = pass.whole
      /\ pass'.clean => pass.clean
  BY <1>2, <1>3 DEF ArchPass
<1>6. pass' \in ArchPass
  BY <1>2, <1>3 DEF ArchPass
<1>7. archived' \subseteq archived \cup {l.card}
  BY <1>2
<1>8. ArchTyped'
  BY <1>1, <1>3, <1>4, <1>6, <1>7 DEF ArchInv, ArchTyped, ArchPass, ArchLink, ArchCards
<1>9. HandsHold'
  <2>1. ArchLink' = ArchLink /\ \A c : Matched(c) => Matched(c)'
    BY <1>1 DEF ArchLink, ArchCards, Matched
  <2> QED
    BY <1>3, <1>5, <2>1 DEF HandsHold
<1>10. CopiesAreMoves'
  <2>1. \A c \in archived' : copies[c] > 0
    BY <1>3, <1>7 DEF ArchInv, CopiesAreMoves
  <2>2. ASSUME NEW d \in ArchCards, copies[d] > 0, d \notin doubtful'
        PROVE  copies[d] = 1 /\ board'[d].at = "gone"
    BY <1>2, <1>3, <1>4, <2>2 DEF ArchInv, CopiesAreMoves, Leaving
  <2> QED
    BY <1>1, <1>5, <2>1, <2>2 DEF ArchInv, CopiesAreMoves, ArchCards, Matched
<1>11. DuesAreMet'
  <2>1. \A d \in settled \cup pass.gone : board'[d].at = "gone"
    BY <1>3, <1>4 DEF ArchInv, ArchTyped, ArchPass, DuesAreMet
  <2>2. pass.clean => \A d \in ArchCards : due[d] \in 1 .. pass.began => d \in settled
    BY <1>1 DEF ArchInv, DuesAreMet, Accounted
  <2>3. pass.began <= day
    BY DEF ArchInv, DuesAreMet
  <2> QED
    BY <1>1, <1>5, <2>1, <2>2, <2>3 DEF DuesAreMet, Accounted, ArchCards
<1> QED
  BY <1>8, <1>9, <1>10, <1>11 DEF ArchInv

LEMMA EndsKeep == ASSUME ArchInv, EndPass PROVE ArchInv'
<1>1. UNCHANGED <<archRegime, day, board, copies, links, due, settled, archived, doubtful>>
      /\ pass.at = "read" /\ pass' = [pass EXCEPT !.at = "idle", !.whole = TRUE]
  BY DEF EndPass, Tracking
<1>2. pass \in ArchPass /\ pass.link = {}
  BY <1>1 DEF ArchInv, ArchTyped, HandsHold
<1>3. /\ pass'.at = "idle" /\ pass'.link = {} /\ pass'.gone = pass.gone
      /\ pass'.began = pass.began /\ pass'.clean = pass.clean /\ pass' \in ArchPass
  BY <1>1, <1>2 DEF ArchPass
<1>4. ArchTyped'
  BY <1>1, <1>3 DEF ArchInv, ArchTyped, ArchPass, ArchLink, ArchCards
<1>5. HandsHold'
  BY <1>3 DEF HandsHold
<1>6. CopiesAreMoves'
  BY <1>1, <1>3 DEF ArchInv, CopiesAreMoves, Leaving, ArchCards, Matched
<1>7. DuesAreMet'
  BY <1>1, <1>3 DEF ArchInv, DuesAreMet, Accounted, ArchCards
<1> QED
  BY <1>4, <1>5, <1>6, <1>7 DEF ArchInv

LEMMA FailuresKeep == ASSUME ArchInv, PassFails PROVE ArchInv'
<1>1. UNCHANGED <<archRegime, day, board, copies, links, due, settled, archived>>
      /\ pass' = NoPass /\ doubtful' = doubtful \cup pass.gone \cup {l.card : l \in pass.link}
  BY DEF PassFails, Tracking
<1>2. /\ pass'.at = "idle" /\ pass'.link = {} /\ pass'.gone = {} /\ pass'.began = 0
      /\ pass' \in ArchPass
  BY <1>1 DEF NoPass, ArchPass
<1>3. ArchTyped'
  BY <1>1, <1>2 DEF ArchInv, ArchTyped, ArchPass, ArchLink, ArchCards
<1>4. HandsHold'
  BY <1>2 DEF HandsHold
<1>5. CopiesAreMoves'
  BY <1>1, <1>2 DEF ArchInv, CopiesAreMoves, Leaving, ArchCards, Matched
<1>6. DuesAreMet'
  BY <1>1, <1>2 DEF ArchInv, ArchTyped, DuesAreMet, Accounted, ArchCards
<1> QED
  BY <1>3, <1>4, <1>5, <1>6 DEF ArchInv

LEMMA ArchKept == ASSUME ArchInv, ArchNext \/ UNCHANGED archVars PROVE ArchInv'
<1>1. CASE UNCHANGED archVars
  BY <1>1 DEF archVars, ArchInv, ArchTyped, ArchPass, ArchLink, ArchCards, HandsHold, Matched,
              CopiesAreMoves, Leaving, DuesAreMet, Accounted
<1>2. CASE ArchNext
  BY <1>2, MakesKeeps, LinksKeeps, MergesKeep, DoneKeeps, DayKeeps, BeginsKeep, DeletesKeep,
     SettlesKeep, ReadsKeep, CopiesKeep, RemovesKeep, EndsKeep, FailuresKeep DEF ArchNext
<1> QED
  BY <1>1, <1>2

LEMMA ArchSays == ArchInv => ArchiveIsTrue
<1> SUFFICES ASSUME ArchInv PROVE ArchiveIsTrue
  OBVIOUS
<1>1. MovedIsThere
  BY DEF ArchInv, ArchTyped, CopiesAreMoves, MovedIsThere, Matched
<1>2. MovedOnce
  BY DEF ArchInv, ArchTyped, CopiesAreMoves, MovedOnce
<1>3. RowsAreTrue
  <2>1. pass.clean /\ pass.at # "delete" => \A c \in ArchCards : due[c] \in 1 .. pass.began => c \in settled
    BY DEF ArchInv, DuesAreMet, Accounted
  <2> QED
    BY <2>1 DEF ArchInv, HandsHold, DuesAreMet, RowsAreTrue
<1> QED
  BY <1>1, <1>2, <1>3 DEF ArchiveIsTrue

-----------------------------------------------------------------------------
(* Comments on the cards.                                                  *)

(* The card a handler comes to next. *)
NextCard(h) == CHOOSE t \in mirror[h].todo : TRUE

Bears(t, v) == \E i \in DOMAIN cards[t] : cards[t][i] = v
RowsKept == log \cup UNION {mirror[h].rows : h \in Handlers}

MirrorDesk ==
  [at : {"idle", "look", "post"}, v : Nat, edit : BOOLEAN, todo : SUBSET MirrorCards,
   rows : SUBSET (MirrorCards \X Nat), met : BOOLEAN]
MirrorTyped ==
  /\ mirrorRegime \in MirrorRegimes
  /\ mirrorLeft \in [again : Nat, refusals : Nat, unheard : Nat, crashes : Nat]
  /\ mirrorLeft.refusals <= mirrorRegime.budget.refusals
  /\ version \in Nat /\ inbox \subseteq 1 .. version
  /\ cards \in [MirrorCards -> Seq(Nat)]
  /\ log \subseteq MirrorCards \X Nat /\ skipped \subseteq MirrorCards \X Nat
  /\ mirror \in [Handlers -> MirrorDesk]

(* A handler that met no other is alone, and what it found not to be in the log *)
(* is not there yet when it posts.                                             *)
DeskHolds(h) ==
  /\ mirror[h].at = "idle" => mirror[h].rows = {} /\ mirror[h].todo = {}
  /\ mirror[h].at # "idle" =>
       /\ mirror[h].v \in 1 .. version /\ ChangesText(mirror[h].v)
       /\ mirror[h].edit <=> mirror[h].v > 1
  /\ mirror[h].rows \subseteq (MirrorCards \ mirror[h].todo) \X {mirror[h].v}
  /\ mirror[h].at = "post" => mirror[h].todo # {}
  /\ mirror[h].at # "idle" /\ ~mirror[h].met =>
       \A o \in Handlers \ {h} : mirror[o].at = "idle"
  /\ mirror[h].at = "post" /\ ~mirror[h].met =>
       Found(NextCard(h), mirror[h].v, mirror[h].edit) = {}

(* Where nothing went wrong, what is on a card has a row, and nothing is there  *)
(* twice or behind an edit of it.                                              *)
CardHolds(t) ==
  /\ \A i \in DOMAIN cards[t] : <<t, cards[t][i]>> \in RowsKept
  /\ \A i, j \in DOMAIN cards[t] : cards[t][i] = cards[t][j] => i = j
  /\ \A i \in DOMAIN cards[t] : cards[t][i] = 1 => i = 1

(* A version that nobody refused is still to come, or on its way, or there. *)
Underway(t, v) == \E h \in Handlers : mirror[h].at # "idle" /\ mirror[h].v = v /\ t \in mirror[h].todo
NoneIsLost ==
  mirrorLeft.refusals = mirrorRegime.budget.refusals =>
    \A t \in MirrorCards, v \in 2 .. version :
      ChangesText(v) => v \in inbox \/ Bears(t, v) \/ Underway(t, v)

MirrorInv ==
  /\ MirrorTyped
  /\ \A h \in Handlers : DeskHolds(h)
  /\ \A r \in RowsKept : Bears(r[1], r[2])
  /\ \A t \in MirrorCards \ excused : CardHolds(t)
  /\ SkippedIsThere
  /\ NoneIsLost

LEMMA MirrorStarts == MirrorInit => MirrorInv
<1> SUFFICES ASSUME MirrorInit PROVE MirrorInv
  OBVIOUS
<1>1. /\ mirrorRegime \in MirrorRegimes /\ mirrorLeft = mirrorRegime.budget
      /\ version = 0 /\ inbox = {} /\ log = {} /\ skipped = {} /\ excused = {}
      /\ cards = [t \in MirrorCards |-> <<>>] /\ mirror = [h \in Handlers |-> AtDesk]
  BY DEF MirrorInit
<1>2. mirrorLeft \in [again : Nat, refusals : Nat, unheard : Nat, crashes : Nat]
  BY <1>1, MirrorAssumption
<1>3. AtDesk \in MirrorDesk
  BY DEF AtDesk, MirrorDesk
<1>4. cards \in [MirrorCards -> Seq(Nat)] /\ \A t \in MirrorCards : DOMAIN cards[t] = {}
  BY <1>1
<1>5. MirrorTyped
  BY <1>1, <1>2, <1>3, <1>4 DEF MirrorTyped
<1>6. ASSUME NEW h \in Handlers PROVE DeskHolds(h)
  BY <1>1 DEF DeskHolds, AtDesk
<1>7. RowsKept = {}
  BY <1>1 DEF RowsKept, AtDesk
<1>8. SkippedIsThere /\ NoneIsLost
  BY <1>1 DEF SkippedIsThere, NoneIsLost
<1> QED
  BY <1>4, <1>5, <1>6, <1>7, <1>8 DEF MirrorInv, CardHolds

(* What is on a card stays there. *)
LEMMA PostingAppends ==
  ASSUME MirrorTyped, NEW t \in MirrorCards, NEW v \in Nat,
         cards' = [cards EXCEPT ![t] = Append(@, v)]
  PROVE  /\ cards' \in [MirrorCards -> Seq(Nat)]
         /\ \A s \in MirrorCards : s # t => cards'[s] = cards[s]
         /\ Len(cards[t]) \in Nat /\ DOMAIN cards[t] = 1 .. Len(cards[t])
         /\ DOMAIN cards'[t] = 1 .. Len(cards[t]) + 1
         /\ \A i \in 1 .. Len(cards[t]) : cards'[t][i] = cards[t][i]
         /\ cards'[t][Len(cards[t]) + 1] = v
         /\ \A s \in MirrorCards : \A u : Bears(s, u) => Bears(s, u)'
         /\ Bears(t, v)'
<1>1. cards \in [MirrorCards -> Seq(Nat)] /\ cards[t] \in Seq(Nat)
  BY DEF MirrorTyped
<1>2. cards'[t] = Append(cards[t], v) /\ \A s \in MirrorCards : s # t => cards'[s] = cards[s]
  BY <1>1
<1>3. /\ Append(cards[t], v) \in Seq(Nat) /\ Len(Append(cards[t], v)) = Len(cards[t]) + 1
      /\ \A i \in 1 .. Len(cards[t]) : Append(cards[t], v)[i] = cards[t][i]
      /\ Append(cards[t], v)[Len(cards[t]) + 1] = v
  BY <1>1, AppendProperties
<1>4. /\ Len(cards[t]) \in Nat /\ DOMAIN cards[t] = 1 .. Len(cards[t])
      /\ DOMAIN cards'[t] = 1 .. Len(cards[t]) + 1
  BY <1>1, <1>2, <1>3
<1>5. ASSUME NEW s \in MirrorCards, NEW u, Bears(s, u) PROVE Bears(s, u)'
  <2>1. PICK i \in DOMAIN cards[s] : cards[s][i] = u
    BY <1>5 DEF Bears
  <2>2. CASE s = t
    <3>1. i \in 1 .. Len(cards[t]) /\ cards[t][i] = u
      BY <1>4, <2>1, <2>2
    <3>2. i \in DOMAIN cards'[t] /\ cards'[t][i] = u
      BY <1>2, <1>3, <1>4, <3>1
    <3> QED
      BY <2>2, <3>2 DEF Bears
  <2>3. CASE s # t
    BY <1>2, <2>1, <2>3 DEF Bears
  <2> QED
    BY <2>2, <2>3
<1>6. Bears(t, v)'
  BY <1>2, <1>3, <1>4 DEF Bears
<1> QED
  BY <1>1, <1>2, <1>3, <1>4, <1>5, <1>6

(* Two handlers at work have met. *)
LEMMA DesksMeet ==
  ASSUME MirrorInv, NEW h \in Handlers, NEW o \in Handlers, h # o,
         mirror[h].at # "idle", mirror[o].at # "idle"
  PROVE  mirror[h].met /\ mirror[o].met
BY DEF MirrorInv, DeskHolds

(* What a handler does leaves the desks of the others in order. *)
LEMMA OthersKeep ==
  ASSUME MirrorInv, NEW h \in Handlers, NEW o \in Handlers, h # o, mirror[h].at # "idle",
         UNCHANGED <<mirrorRegime, version>>, mirror'[o] = mirror[o]
  PROVE  DeskHolds(o)'
<1>1. DeskHolds(o) /\ (mirror[o].at # "idle" => mirror[o].met)
  BY DesksMeet DEF MirrorInv
<1>2. MirrorCards' = MirrorCards /\ ChangesText(mirror[o].v)' = ChangesText(mirror[o].v)
  BY DEF MirrorCards, ChangesText, Wording
<1>3. mirror[o].at \in {"idle", "look", "post"}
  BY DEF MirrorInv, MirrorTyped, MirrorDesk
<1> QED
  BY <1>1, <1>2, <1>3 DEF DeskHolds

(* A handler that is alone sees every row there is in the log or in its own hands. *)
LEMMA AloneSeesAll ==
  ASSUME MirrorInv, NEW h \in Handlers, mirror[h].at # "idle", ~mirror[h].met
  PROVE  RowsKept = log \cup mirror[h].rows
<1>1. \A o \in Handlers \ {h} : mirror[o].rows = {}
  BY DEF MirrorInv, DeskHolds
<1> QED
  BY <1>1 DEF RowsKept

LEMMA SpendingCounts ==
  ASSUME MirrorTyped, NEW what \in {"again", "refusals", "unheard", "crashes"}, SpendsMirror(what)
  PROVE  /\ mirrorLeft' \in [again : Nat, refusals : Nat, unheard : Nat, crashes : Nat]
         /\ mirrorLeft'.refusals <= mirrorLeft.refusals
         /\ mirrorLeft'.refusals = mirrorLeft.refusals <=> what # "refusals"
<1>1. /\ mirrorLeft \in [again : Nat, refusals : Nat, unheard : Nat, crashes : Nat]
      /\ mirrorLeft[what] > 0 /\ mirrorLeft' = [mirrorLeft EXCEPT ![what] = @ - 1]
  BY DEF MirrorTyped, SpendsMirror
<1>2. CASE what = "refusals"
  BY <1>1, <1>2
<1>3. CASE what = "again"
  BY <1>1, <1>3
<1>4. CASE what = "unheard"
  BY <1>1, <1>4
<1>5. CASE what = "crashes"
  BY <1>1, <1>5
<1> QED
  BY <1>2, <1>3, <1>4, <1>5

LEMMA WritesKeep == ASSUME MirrorInv, WritesComment PROVE MirrorInv'
<1>1. /\ UNCHANGED <<mirrorRegime, mirrorLeft, cards, log, mirror, skipped, excused>>
      /\ version' = version + 1 /\ inbox' = inbox \cup {version + 1}
  BY DEF WritesComment
<1>2. version \in Nat /\ inbox \subseteq 1 .. version
  BY DEF MirrorInv, MirrorTyped
<1>3. MirrorTyped'
  <2>1. version' \in Nat /\ inbox' \subseteq 1 .. version'
    BY <1>1, <1>2
  <2> QED
    BY <1>1, <2>1 DEF MirrorInv, MirrorTyped, MirrorDesk, MirrorCards, Handlers
<1>4. ASSUME NEW h \in Handlers' PROVE DeskHolds(h)'
  <2>1. h \in Handlers /\ DeskHolds(h)
    BY <1>1, <1>4 DEF MirrorInv, Handlers
  <2> QED
    BY <1>1, <1>2, <2>1 DEF DeskHolds, ChangesText, Wording, MirrorCards, Handlers, Found, NextCard
<1>5. RowsKept' = RowsKept /\ MirrorCards' = MirrorCards /\ Handlers' = Handlers
  BY <1>1 DEF RowsKept, Handlers, MirrorCards
<1>6. (\A r \in RowsKept : Bears(r[1], r[2]))'
  BY <1>1, <1>5 DEF MirrorInv, Bears
<1>7. (\A t \in MirrorCards \ excused : CardHolds(t))'
  BY <1>1, <1>5 DEF MirrorInv, CardHolds
<1>8. SkippedIsThere'
  BY <1>1 DEF MirrorInv, SkippedIsThere
<1>9. NoneIsLost'
  BY <1>1, <1>2, <1>5 DEF MirrorInv, NoneIsLost, ChangesText, Wording, Bears, Underway
<1> QED
  BY <1>3, <1>4, <1>6, <1>7, <1>8, <1>9 DEF MirrorInv

LEMMA RedeliversKeep == ASSUME MirrorInv, Redelivers PROVE MirrorInv'
<1>1. UNCHANGED <<mirrorRegime, version, cards, log, mirror, skipped, excused>>
  BY DEF Redelivers
<1>2. /\ mirrorLeft' \in [again : Nat, refusals : Nat, unheard : Nat, crashes : Nat]
      /\ mirrorLeft'.refusals = mirrorLeft.refusals
  BY DEF Redelivers, SpendsMirror, MirrorInv, MirrorTyped
<1>3. inbox \subseteq inbox' /\ inbox' \subseteq 1 .. version
  BY DEF Redelivers, MirrorInv, MirrorTyped
<1>4. MirrorTyped'
  BY <1>1, <1>2, <1>3 DEF MirrorInv, MirrorTyped, MirrorDesk, MirrorCards, Handlers
<1>5. ASSUME NEW h \in Handlers' PROVE DeskHolds(h)'
  BY <1>1, <1>5 DEF MirrorInv, DeskHolds, ChangesText, Wording, MirrorCards, Handlers, Found, NextCard
<1>6. RowsKept' = RowsKept /\ MirrorCards' = MirrorCards /\ Handlers' = Handlers
  BY <1>1 DEF RowsKept, Handlers, MirrorCards
<1>7. (\A r \in RowsKept : Bears(r[1], r[2]))' /\ (\A t \in MirrorCards \ excused : CardHolds(t))'
  BY <1>1, <1>6 DEF MirrorInv, Bears, CardHolds
<1>8. SkippedIsThere'
  BY <1>1 DEF MirrorInv, SkippedIsThere
<1>9. NoneIsLost'
  BY <1>1, <1>2, <1>3, <1>6 DEF MirrorInv, NoneIsLost, ChangesText, Wording, Bears, Underway
<1> QED
  BY <1>4, <1>5, <1>7, <1>8, <1>9 DEF MirrorInv

LEMMA TakesKeep == ASSUME MirrorInv, NEW h \in Handlers, Take(h) PROVE MirrorInv'
<1>1. UNCHANGED <<mirrorRegime, mirrorLeft, version, cards, log, skipped, excused>>
  BY DEF Take
<1> DEFINE others == {o \in Handlers \ {h} : mirror[o].at # "idle"}
<1>2. PICK v \in inbox :
        /\ inbox' = inbox \ {v}
        /\ mirror' = [o \in Handlers |->
             IF ~ChangesText(v) THEN mirror[o]
             ELSE IF o = h THEN [at |-> "look", v |-> v, edit |-> v > 1, todo |-> MirrorCards,
                                 rows |-> {}, met |-> others # {}]
             ELSE [mirror[o] EXCEPT !.met = @ \/ o \in others]]
  BY DEF Take
<1>3. /\ mirror \in [Handlers -> MirrorDesk] /\ version \in Nat /\ v \in 1 .. version
      /\ inbox \subseteq 1 .. version
  BY DEF MirrorInv, MirrorTyped
<1>4. mirror[h].at = "idle" /\ mirror[h].rows = {} /\ mirror[h].todo = {}
  BY DEF Take, MirrorInv, DeskHolds
<1>5. MirrorCards' = MirrorCards /\ Handlers' = Handlers /\ \A u : ChangesText(u)' = ChangesText(u)
  BY <1>1 DEF MirrorCards, Handlers, ChangesText, Wording
<1>6. CASE ~ChangesText(v)
  <2>1. mirror' = mirror
    BY <1>2, <1>3, <1>6
  <2>2. MirrorTyped'
    BY <1>1, <1>2, <1>3, <1>5, <2>1 DEF MirrorInv, MirrorTyped, MirrorDesk
  <2>3. ASSUME NEW o \in Handlers' PROVE DeskHolds(o)'
    BY <1>1, <1>5, <2>1, <2>3 DEF MirrorInv, DeskHolds, Found, NextCard
  <2>4. RowsKept' = RowsKept
    BY <1>1, <1>5, <2>1 DEF RowsKept
  <2>5. (\A r \in RowsKept : Bears(r[1], r[2]))' /\ (\A t \in MirrorCards \ excused : CardHolds(t))'
    BY <1>1, <1>5, <2>4 DEF MirrorInv, Bears, CardHolds
  <2>6. SkippedIsThere'
    BY <1>1 DEF MirrorInv, SkippedIsThere
  <2>7. NoneIsLost'
    BY <1>1, <1>2, <1>5, <1>6, <2>1 DEF MirrorInv, NoneIsLost, Bears, Underway
  <2> QED
    BY <2>2, <2>3, <2>5, <2>6, <2>7 DEF MirrorInv
<1>7. CASE ChangesText(v)
  <2>1. /\ mirror'[h].at = "look" /\ mirror'[h].v = v /\ (mirror'[h].edit <=> v > 1)
        /\ mirror'[h].todo = MirrorCards /\ mirror'[h].rows = {}
        /\ mirror'[h].met <=> others # {}
        /\ mirror'[h] \in MirrorDesk
    <3>1. mirror'[h] = [at |-> "look", v |-> v, edit |-> v > 1, todo |-> MirrorCards,
                        rows |-> {}, met |-> others # {}]
      BY <1>2, <1>7
    <3> DEFINE late == v > 1  met == others # {}
    <3>2. v \in Nat /\ late \in BOOLEAN /\ met \in BOOLEAN
      BY <1>3
    <3>3. mirror'[h] = [at |-> "look", v |-> v, edit |-> late, todo |-> MirrorCards,
                        rows |-> {}, met |-> met]
      BY <3>1
    <3> HIDE DEF late, met
    <3>4. (mirror'[h].edit <=> late) /\ (mirror'[h].met <=> met)
      BY <3>3
    <3>5. mirror'[h] \in MirrorDesk
      BY <3>2, <3>3 DEF MirrorDesk
    <3> QED
      BY <3>3, <3>4, <3>5 DEF late, met
  <2>2. ASSUME NEW o \in Handlers, o # h
        PROVE  /\ mirror'[o].at = mirror[o].at /\ mirror'[o].v = mirror[o].v
               /\ mirror'[o].edit = mirror[o].edit /\ mirror'[o].todo = mirror[o].todo
               /\ mirror'[o].rows = mirror[o].rows
               /\ mirror[o].at # "idle" => mirror'[o].met
               /\ mirror'[o] \in MirrorDesk
    <3>1. mirror'[o] = [mirror[o] EXCEPT !.met = @ \/ o \in others]
      BY <1>2, <1>7, <2>2
    <3>2. mirror[o] \in MirrorDesk
      BY <1>3
    <3>3. mirror[o].at # "idle" => o \in others
      BY <2>2
    <3> HIDE DEF others
    <3>4. mirror'[o] \in MirrorDesk
      BY <3>1, <3>2 DEF MirrorDesk
    <3> QED
      BY <3>1, <3>2, <3>3, <3>4 DEF MirrorDesk
  <2>3. mirror' \in [Handlers -> MirrorDesk]
    <3>1. \A o \in Handlers : mirror'[o] \in MirrorDesk
      BY <2>1, <2>2
    <3>2. DOMAIN mirror' = Handlers /\ mirror' = [o \in Handlers |-> mirror'[o]]
      BY <1>2
    <3> QED
      BY <3>1, <3>2
  <2>4. MirrorTyped'
    BY <1>1, <1>2, <1>3, <1>5, <2>3 DEF MirrorInv, MirrorTyped, MirrorDesk
  <2>5. DeskHolds(h)'
    <3>1. mirror'[h].at # "idle" /\ ~mirror'[h].met => \A o \in Handlers \ {h} : mirror'[o].at = "idle"
      BY <2>1, <2>2
    <3> QED
      BY <1>1, <1>3, <1>5, <1>7, <2>1, <3>1 DEF DeskHolds
  <2>6. ASSUME NEW o \in Handlers, o # h PROVE DeskHolds(o)'
    <3>1. DeskHolds(o)
      BY DEF MirrorInv
    <3> QED
      BY <1>1, <1>5, <2>2, <2>6, <3>1 DEF DeskHolds
  <2>7. RowsKept' = RowsKept
    <3>1. \A o \in Handlers : mirror'[o].rows = mirror[o].rows
      BY <1>4, <2>1, <2>2
    <3> QED
      BY <1>1, <1>5, <3>1 DEF RowsKept
  <2>8. (\A r \in RowsKept : Bears(r[1], r[2]))' /\ (\A t \in MirrorCards \ excused : CardHolds(t))'
    BY <1>1, <1>5, <2>7 DEF MirrorInv, Bears, CardHolds
  <2>9. SkippedIsThere'
    BY <1>1 DEF MirrorInv, SkippedIsThere
  <2>10. ASSUME NEW t \in MirrorCards, NEW u, Underway(t, u) \/ u = v PROVE Underway(t, u)'
    <3>1. CASE u = v
      BY <1>5, <2>1, <3>1 DEF Underway
    <3>2. CASE Underway(t, u)
      <4>1. PICK o \in Handlers : mirror[o].at # "idle" /\ mirror[o].v = u /\ t \in mirror[o].todo
        BY <3>2 DEF Underway
      <4> QED
        BY <1>4, <1>5, <2>2, <4>1 DEF Underway
    <3> QED
      BY <2>10, <3>1, <3>2
  <2>11. NoneIsLost'
    BY <1>1, <1>2, <1>5, <2>10 DEF MirrorInv, NoneIsLost, Bears
  <2> QED
    BY <1>5, <2>4, <2>5, <2>6, <2>8, <2>9, <2>11 DEF MirrorInv
<1> QED
  BY <1>6, <1>7

LEMMA LooksKeep == ASSUME MirrorInv, NEW h \in Handlers, Look(h) PROVE MirrorInv'
<1> DEFINE m == mirror[h]
           t == NextCard(h)
<1>1. UNCHANGED <<mirrorRegime, mirrorLeft, version, inbox, cards, log, excused>>
      /\ m.at = "look" /\ m.todo # {}
  BY DEF Look
<1>2. \/ /\ Found(t, m.v, m.edit) # {} /\ mirror' = [mirror EXCEPT ![h] = [m EXCEPT !.todo = @ \ {t}]]
         /\ skipped' = skipped \cup {<<t, m.v>>}
      \/ /\ Found(t, m.v, m.edit) = {} /\ mirror' = [mirror EXCEPT ![h] = [m EXCEPT !.at = "post"]]
         /\ UNCHANGED skipped
  BY DEF Look, Desk, NextCard
<1>3. mirror \in [Handlers -> MirrorDesk] /\ version \in Nat /\ m \in MirrorDesk
  BY DEF MirrorInv, MirrorTyped
<1>4. t \in m.todo /\ t \in MirrorCards
  BY <1>1, <1>3 DEF NextCard, MirrorDesk
<1>5. /\ m.v \in 1 .. version /\ ChangesText(m.v) /\ (m.edit <=> m.v > 1)
      /\ m.rows \subseteq (MirrorCards \ m.todo) \X {m.v}
      /\ ~m.met => \A o \in Handlers \ {h} : mirror[o].at = "idle"
  BY <1>1 DEF MirrorInv, DeskHolds
<1>6. MirrorCards' = MirrorCards /\ Handlers' = Handlers /\ \A u : ChangesText(u)' = ChangesText(u)
  BY <1>1 DEF MirrorCards, Handlers, ChangesText, Wording
<1>7. /\ mirror' \in [Handlers -> MirrorDesk]
      /\ \A o \in Handlers \ {h} : mirror'[o] = mirror[o]
      /\ mirror'[h].rows = m.rows /\ mirror'[h].v = m.v /\ mirror'[h].edit = m.edit
      /\ mirror'[h].met = m.met /\ mirror'[h].at # "idle" /\ mirror'[h].todo \subseteq m.todo
  <2>1. [m EXCEPT !.todo = @ \ {t}] \in MirrorDesk /\ [m EXCEPT !.at = "post"] \in MirrorDesk
    BY <1>3 DEF MirrorDesk
  <2>2. ASSUME NEW d \in MirrorDesk, mirror' = [mirror EXCEPT ![h] = d]
        PROVE  /\ mirror' \in [Handlers -> MirrorDesk] /\ mirror'[h] = d
               /\ \A o \in Handlers \ {h} : mirror'[o] = mirror[o]
    BY <1>3, <2>2
  <2> HIDE DEF m, t
  <2>3. CASE mirror' = [mirror EXCEPT ![h] = [m EXCEPT !.todo = @ \ {t}]]
    <3>1. /\ mirror'[h] = [m EXCEPT !.todo = @ \ {t}] /\ mirror' \in [Handlers -> MirrorDesk]
          /\ \A o \in Handlers \ {h} : mirror'[o] = mirror[o]
      BY <2>1, <2>2, <2>3
    <3> QED
      BY <1>1, <1>3, <3>1 DEF MirrorDesk
  <2>4. CASE mirror' = [mirror EXCEPT ![h] = [m EXCEPT !.at = "post"]]
    <3>1. /\ mirror'[h] = [m EXCEPT !.at = "post"] /\ mirror' \in [Handlers -> MirrorDesk]
          /\ \A o \in Handlers \ {h} : mirror'[o] = mirror[o]
      BY <2>1, <2>2, <2>4
    <3> QED
      BY <1>1, <1>3, <3>1 DEF MirrorDesk
  <2> QED
    BY <1>2, <2>3, <2>4
<1>8. skipped' \subseteq MirrorCards \X Nat
  BY <1>2, <1>3, <1>4, <1>5 DEF MirrorInv, MirrorTyped
<1>9. MirrorTyped'
  BY <1>1, <1>6, <1>7, <1>8 DEF MirrorInv, MirrorTyped, MirrorDesk
<1>10. DeskHolds(h)'
  <2>1. /\ mirror'[h].at = "post" => mirror'[h].todo = m.todo /\ Found(t, m.v, m.edit) = {}
    BY <1>1, <1>2, <1>3 DEF MirrorDesk
  <2>2. mirror'[h].at = "post" => NextCard(h)' = t
    BY <2>1 DEF NextCard
  <2>3. mirror'[h].at = "post" => Found(NextCard(h), mirror[h].v, mirror[h].edit)' = {}
    BY <1>1, <1>7, <2>1, <2>2 DEF Found
  <2>4. mirror'[h].rows \subseteq (MirrorCards \ mirror'[h].todo) \X {mirror'[h].v}
    BY <1>5, <1>7
  <2> QED
    BY <1>1, <1>5, <1>6, <1>7, <2>1, <2>3, <2>4 DEF DeskHolds
<1>11. ASSUME NEW o \in Handlers, o # h PROVE DeskHolds(o)'
  BY <1>1, <1>7, <1>11, OthersKeep
<1>12. RowsKept' = RowsKept
  <2>1. \A o \in Handlers : mirror'[o].rows = mirror[o].rows
    BY <1>7
  <2> QED
    BY <1>1, <1>6, <2>1 DEF RowsKept
<1>13. (\A r \in RowsKept : Bears(r[1], r[2]))' /\ (\A s \in MirrorCards \ excused : CardHolds(s))'
  BY <1>1, <1>6, <1>12 DEF MirrorInv, Bears, CardHolds
<1>14. Found(t, m.v, m.edit) # {} =>
         /\ m.v > 1 => Bears(t, m.v)
         /\ \E u : Bears(t, u)
  <2> SUFFICES ASSUME Found(t, m.v, m.edit) # {}
               PROVE  (m.v > 1 => Bears(t, m.v)) /\ \E u : Bears(t, u)
    OBVIOUS
  <2>1. PICK r \in log : r[1] = t /\ (~m.edit \/ r[2] = m.v)
    BY DEF Found
  <2>2. Bears(t, r[2])
    BY <2>1 DEF MirrorInv, RowsKept
  <2> QED
    BY <1>5, <2>1, <2>2
<1>15. SkippedIsThere'
  <2>1. ASSUME Found(t, m.v, m.edit) # {}
        PROVE  \E i \in DOMAIN cards[t] : cards[t][i] = m.v \/ m.v = 1
    BY <1>3, <1>5, <1>14, <2>1 DEF Bears
  <2>2. \A s \in skipped : \E i \in DOMAIN cards[s[1]] : cards[s[1]][i] = s[2] \/ s[2] = 1
    BY DEF MirrorInv, SkippedIsThere
  <2> HIDE DEF m, t
  <2>3. ASSUME NEW s \in skipped'
        PROVE  \E i \in DOMAIN cards[s[1]] : cards[s[1]][i] = s[2] \/ s[2] = 1
    <3>1. CASE s \in skipped
      BY <2>2, <3>1
    <3>2. CASE s = <<t, m.v>> /\ Found(t, m.v, m.edit) # {}
      BY <2>1, <3>2
    <3> QED
      BY <1>2, <3>1, <3>2
  <2> QED
    BY <1>1, <2>3 DEF SkippedIsThere
<1>16. NoneIsLost'
  <2>1. ASSUME NEW s \in MirrorCards, NEW u \in 2 .. version, Underway(s, u)
        PROVE  Underway(s, u)' \/ Bears(s, u)
    <3>1. PICK o \in Handlers : mirror[o].at # "idle" /\ mirror[o].v = u /\ s \in mirror[o].todo
      BY <2>1 DEF Underway
    <3>2. CASE o # h
      BY <1>6, <1>7, <3>1, <3>2 DEF Underway
    <3>3. CASE o = h
      <4>1. s \in mirror'[h].todo \/ (s = t /\ Found(t, m.v, m.edit) # {})
        BY <1>2, <1>3, <3>1, <3>3 DEF MirrorDesk
      <4> QED
        BY <1>6, <1>7, <1>14, <3>1, <3>3, <4>1 DEF Underway
    <3> QED
      BY <3>2, <3>3
  <2> QED
    BY <1>1, <1>6, <2>1 DEF MirrorInv, NoneIsLost, Bears
<1> QED
  BY <1>6, <1>9, <1>10, <1>11, <1>13, <1>15, <1>16 DEF MirrorInv

(* What a post does, as far as the invariant goes. *)
LEMMA PostDoes ==
  ASSUME MirrorInv, NEW h \in Handlers, Post(h)
  PROVE  LET m == mirror[h]
             t == NextCard(h) IN
         /\ UNCHANGED <<mirrorRegime, version, inbox, log, skipped>>
         /\ m.at = "post" /\ t \in m.todo /\ t \in MirrorCards
         /\ mirror' \in [Handlers -> MirrorDesk]
         /\ \A o \in Handlers \ {h} : mirror'[o] = mirror[o]
         /\ mirror'[h].at = "look" /\ mirror'[h].v = m.v /\ mirror'[h].edit = m.edit
         /\ mirror'[h].met = m.met /\ mirror'[h].todo = m.todo \ {t}
         /\ excused \subseteq excused'
         /\ \/ /\ cards' = [cards EXCEPT ![t] = Append(@, m.v)] /\ UNCHANGED mirrorLeft
               /\ mirror'[h].rows = m.rows \cup {<<t, m.v>>} /\ (m.met => t \in excused')
            \/ /\ SpendsMirror("refusals") /\ UNCHANGED <<cards, excused>> /\ mirror'[h].rows = m.rows
            \/ /\ SpendsMirror("unheard") /\ cards' = [cards EXCEPT ![t] = Append(@, m.v)]
               /\ mirror'[h].rows = m.rows /\ t \in excused'
<1> DEFINE m == mirror[h]
           t == NextCard(h)
           onwards(went) == [m EXCEPT !.at = "look", !.todo = @ \ {t},
                                        !.rows = Records(@, t, m.v, went)]
<1>1. mirror \in [Handlers -> MirrorDesk] /\ m \in MirrorDesk /\ m.at = "post" /\ m.todo # {}
  BY DEF MirrorInv, MirrorTyped, DeskHolds, Post
<1>2. t \in m.todo /\ t \in MirrorCards /\ m.v \in Nat
  BY <1>1 DEF NextCard, MirrorDesk
<1>3. \/ /\ cards' = [cards EXCEPT ![t] = Append(@, m.v)] /\ Desk(h, onwards(TRUE))
         /\ excused' = IF m.met THEN excused \cup {t} ELSE excused
         /\ UNCHANGED mirrorLeft
      \/ /\ SpendsMirror("refusals") /\ Desk(h, onwards(FALSE)) /\ UNCHANGED <<cards, excused>>
      \/ /\ SpendsMirror("unheard")
         /\ cards' = [cards EXCEPT ![t] = Append(@, m.v)] /\ Desk(h, onwards(FALSE))
         /\ excused' = excused \cup {t}
  BY DEF Post, NextCard
<1>4. UNCHANGED <<mirrorRegime, version, inbox, log, skipped>>
  BY DEF Post
<1> HIDE DEF m, t
<1>5. ASSUME NEW p \in BOOLEAN
      PROVE  /\ onwards(p) \in MirrorDesk /\ onwards(p).at = "look" /\ onwards(p).v = m.v
             /\ onwards(p).edit = m.edit /\ onwards(p).met = m.met /\ onwards(p).todo = m.todo \ {t}
             /\ onwards(p).rows = IF p THEN m.rows \cup {<<t, m.v>>} ELSE m.rows
  <2>1. Records(m.rows, t, m.v, p) = IF p THEN m.rows \cup {<<t, m.v>>} ELSE m.rows
    BY DEF Records
  <2>2. Records(m.rows, t, m.v, p) \subseteq MirrorCards \X Nat
    BY <1>1, <1>2, <2>1 DEF MirrorDesk
  <2> QED
    BY <1>1, <2>1, <2>2 DEF MirrorDesk
<1>6. ASSUME NEW p \in BOOLEAN, Desk(h, onwards(p))
      PROVE  /\ mirror' \in [Handlers -> MirrorDesk] /\ mirror'[h] = onwards(p)
             /\ \A o \in Handlers \ {h} : mirror'[o] = mirror[o]
  <2>1. mirror' = [mirror EXCEPT ![h] = onwards(p)] /\ onwards(p) \in MirrorDesk
    BY <1>5, <1>6 DEF Desk
  <2> HIDE DEF onwards
  <2> QED
    BY <1>1, <2>1
<1> HIDE DEF onwards
<1>7. CASE /\ cards' = [cards EXCEPT ![t] = Append(@, m.v)] /\ Desk(h, onwards(TRUE))
           /\ excused' = IF m.met THEN excused \cup {t} ELSE excused
           /\ UNCHANGED mirrorLeft
  <2>1. mirror'[h] = onwards(TRUE) /\ onwards(TRUE).rows = m.rows \cup {<<t, m.v>>}
    BY <1>5, <1>6, <1>7
  <2> QED
    BY <1>1, <1>2, <1>4, <1>5, <1>6, <1>7, <2>1 DEF m, t
<1>8. CASE SpendsMirror("refusals") /\ Desk(h, onwards(FALSE)) /\ UNCHANGED <<cards, excused>>
  <2>1. mirror'[h] = onwards(FALSE) /\ onwards(FALSE).rows = m.rows
    BY <1>5, <1>6, <1>8
  <2> QED
    BY <1>1, <1>2, <1>4, <1>5, <1>6, <1>8, <2>1 DEF m, t
<1>9. CASE /\ SpendsMirror("unheard")
           /\ cards' = [cards EXCEPT ![t] = Append(@, m.v)] /\ Desk(h, onwards(FALSE))
           /\ excused' = excused \cup {t}
  <2>1. mirror'[h] = onwards(FALSE) /\ onwards(FALSE).rows = m.rows
    BY <1>5, <1>6, <1>9
  <2> QED
    BY <1>1, <1>2, <1>4, <1>5, <1>6, <1>9, <2>1 DEF m, t
<1> QED
  BY <1>3, <1>7, <1>8, <1>9

LEMMA PostsKeep == ASSUME MirrorInv, NEW h \in Handlers, Post(h) PROVE MirrorInv'
<1>0. PICK m, t : m = mirror[h] /\ t = NextCard(h)
  OBVIOUS
<1> DEFINE appended == cards' = [cards EXCEPT ![t] = Append(@, m.v)]
<1>1. /\ UNCHANGED <<mirrorRegime, version, inbox, log, skipped>>
      /\ m.at = "post" /\ t \in m.todo /\ t \in MirrorCards
      /\ mirror' \in [Handlers -> MirrorDesk]
      /\ \A o \in Handlers \ {h} : mirror'[o] = mirror[o]
      /\ mirror'[h].at = "look" /\ mirror'[h].v = m.v /\ mirror'[h].edit = m.edit
      /\ mirror'[h].met = m.met /\ mirror'[h].todo = m.todo \ {t}
      /\ excused \subseteq excused'
  BY <1>0, PostDoes
<1>2. \/ /\ appended /\ UNCHANGED mirrorLeft
         /\ mirror'[h].rows = m.rows \cup {<<t, m.v>>} /\ (m.met => t \in excused')
      \/ /\ SpendsMirror("refusals") /\ UNCHANGED cards /\ mirror'[h].rows = m.rows
      \/ /\ SpendsMirror("unheard") /\ appended
         /\ mirror'[h].rows = m.rows /\ t \in excused'
  BY <1>0, PostDoes
<1>3. mirror \in [Handlers -> MirrorDesk] /\ version \in Nat /\ m \in MirrorDesk /\ MirrorTyped
  BY <1>0 DEF MirrorInv, MirrorTyped
<1>4. /\ m.v \in 1 .. version /\ m.v \in Nat /\ ChangesText(m.v) /\ (m.edit <=> m.v > 1)
      /\ m.rows \subseteq (MirrorCards \ m.todo) \X {m.v}
      /\ ~m.met => Found(t, m.v, m.edit) = {}
      /\ ~m.met => \A o \in Handlers \ {h} : mirror[o].at = "idle"
  <2>1. m.v \in 1 .. version
    BY <1>0, <1>1 DEF MirrorInv, DeskHolds
  <2> QED
    BY <1>0, <1>1, <1>3, <2>1 DEF MirrorInv, DeskHolds
<1>5. MirrorCards' = MirrorCards /\ Handlers' = Handlers /\ \A u : ChangesText(u)' = ChangesText(u)
  BY <1>1 DEF MirrorCards, Handlers, ChangesText, Wording
<1> HIDE DEF appended
<1>6. appended =>
         /\ cards' \in [MirrorCards -> Seq(Nat)]
         /\ \A s \in MirrorCards : s # t => cards'[s] = cards[s]
         /\ Len(cards[t]) \in Nat /\ DOMAIN cards[t] = 1 .. Len(cards[t])
         /\ DOMAIN cards'[t] = 1 .. Len(cards[t]) + 1
         /\ \A i \in 1 .. Len(cards[t]) : cards'[t][i] = cards[t][i]
         /\ cards'[t][Len(cards[t]) + 1] = m.v
         /\ Bears(t, m.v)'
  <2> SUFFICES ASSUME appended
               PROVE  /\ cards' \in [MirrorCards -> Seq(Nat)]
                      /\ \A s \in MirrorCards : s # t => cards'[s] = cards[s]
                      /\ Len(cards[t]) \in Nat /\ DOMAIN cards[t] = 1 .. Len(cards[t])
                      /\ DOMAIN cards'[t] = 1 .. Len(cards[t]) + 1
                      /\ \A i \in 1 .. Len(cards[t]) : cards'[t][i] = cards[t][i]
                      /\ cards'[t][Len(cards[t]) + 1] = m.v
                      /\ Bears(t, m.v)'
    OBVIOUS
  <2> QED
    BY <1>1, <1>3, <1>4, PostingAppends DEF appended
<1>7. \A s \in MirrorCards : \A u : Bears(s, u) => Bears(s, u)'
  <2>1. CASE appended
    BY <1>1, <1>3, <1>4, <2>1, PostingAppends DEF appended
  <2>2. CASE UNCHANGED cards
    BY <2>2 DEF Bears
  <2> QED
    BY <1>2, <2>1, <2>2
<1>8. /\ mirrorLeft' \in [again : Nat, refusals : Nat, unheard : Nat, crashes : Nat]
      /\ mirrorLeft'.refusals <= mirrorLeft.refusals
      /\ mirrorLeft'.refusals = mirrorLeft.refusals => appended
  BY <1>2, <1>3, SpendingCounts DEF MirrorTyped
<1>9. MirrorTyped'
  <2>1. cards' \in [MirrorCards -> Seq(Nat)]
    BY <1>2, <1>3, <1>6 DEF MirrorTyped
  <2>2. mirrorLeft'.refusals <= mirrorRegime.budget.refusals
    <3>1. mirrorRegime.budget.refusals \in Nat
      BY <1>3, MirrorAssumption DEF MirrorTyped
    <3> QED
      BY <1>3, <1>8, <3>1 DEF MirrorTyped
  <2> QED
    BY <1>1, <1>3, <1>5, <1>8, <2>1, <2>2 DEF MirrorTyped, MirrorDesk
<1>10. DeskHolds(h)'
  <2>1. mirror'[h].rows \subseteq (MirrorCards \ mirror'[h].todo) \X {mirror'[h].v}
    <3>1. m.rows \subseteq (MirrorCards \ (m.todo \ {t})) \X {m.v}
      BY <1>4
    <3>2. <<t, m.v>> \in (MirrorCards \ (m.todo \ {t})) \X {m.v}
      BY <1>1
    <3> QED
      BY <1>1, <1>2, <3>1, <3>2
  <2> QED
    BY <1>1, <1>4, <1>5, <2>1 DEF DeskHolds
<1>11. ASSUME NEW o \in Handlers, o # h PROVE DeskHolds(o)'
  BY <1>0, <1>1, <1>11, OthersKeep
<1>12. RowsKept \subseteq RowsKept'
  <2>1. \A o \in Handlers : mirror[o].rows \subseteq mirror'[o].rows
    BY <1>0, <1>1, <1>2
  <2> QED
    BY <1>1, <1>5, <2>1 DEF RowsKept
<1>13. ASSUME NEW r \in RowsKept' PROVE Bears(r[1], r[2])'
  <2>1. RowsKept \subseteq MirrorCards \X Nat
    BY <1>3 DEF RowsKept, MirrorTyped, MirrorDesk
  <2>2. CASE r \in RowsKept
    BY <1>7, <2>1, <2>2 DEF MirrorInv
  <2>3. CASE r \notin RowsKept
    <3>1. r = <<t, m.v>> /\ appended
      BY <1>0, <1>1, <1>2, <1>5, <1>13, <2>3 DEF RowsKept
    <3> QED
      BY <1>6, <3>1
  <2> QED
    BY <2>2, <2>3
<1>14. ASSUME NEW s \in MirrorCards, s \notin excused' PROVE CardHolds(s)'
  <2>1. CardHolds(s)
    BY <1>1, <1>14 DEF MirrorInv
  <2>2. CASE cards'[s] = cards[s]
    BY <1>12, <2>1, <2>2 DEF CardHolds
  <2>3. CASE cards'[s] # cards[s]
    <3>1. s = t /\ appended /\ ~m.met /\ mirror'[h].rows = m.rows \cup {<<t, m.v>>}
      BY <1>2, <1>6, <1>14, <2>3
    <3>2. RowsKept = log \cup m.rows
      BY <1>0, <1>1, <3>1, AloneSeesAll
    <3>3. <<t, m.v>> \in RowsKept'
      BY <1>5, <3>1 DEF RowsKept
    <3>4. ASSUME NEW i \in DOMAIN cards[t] PROVE cards[t][i] # m.v /\ m.v # 1
      <4>1. <<t, cards[t][i]>> \in log \cup m.rows
        BY <2>1, <3>1, <3>2, <3>4 DEF CardHolds
      <4>2. <<t, cards[t][i]>> \notin m.rows
        BY <1>1, <1>4
      <4>3. <<t, cards[t][i]>> \notin Found(t, m.v, m.edit)
        BY <1>4, <3>1
      <4> QED
        BY <1>4, <4>1, <4>2, <4>3 DEF Found
    <3> DEFINE n == Len(cards[t]) + 1
    <3>5. /\ n \in Nat \ {0} /\ DOMAIN cards'[t] = 1 .. n /\ DOMAIN cards[t] = 1 .. n - 1
          /\ cards'[t][n] = m.v /\ \A i \in 1 .. n - 1 : cards'[t][i] = cards[t][i]
      BY <1>6, <3>1
    <3> HIDE DEF n
    <3>6. ASSUME NEW i \in 1 .. n PROVE <<t, cards'[t][i]>> \in RowsKept'
      <4>1. CASE i = n
        BY <3>3, <3>5, <4>1
      <4>2. CASE i # n
        <5>1. i \in 1 .. n - 1
          BY <3>5, <4>2
        <5> QED
          BY <1>12, <2>1, <3>1, <3>5, <5>1 DEF CardHolds
      <4> QED
        BY <4>1, <4>2
    <3>7. ASSUME NEW i \in 1 .. n, NEW j \in 1 .. n, cards'[t][i] = cards'[t][j] PROVE i = j
      <4>1. CASE i # n /\ j # n
        <5>1. i \in 1 .. n - 1 /\ j \in 1 .. n - 1
          BY <3>5, <4>1
        <5> QED
          BY <2>1, <3>1, <3>5, <3>7, <5>1 DEF CardHolds
      <4>2. CASE i = n /\ j # n
        <5>1. j \in 1 .. n - 1
          BY <3>5, <4>2
        <5> QED
          BY <3>4, <3>5, <3>7, <4>2, <5>1
      <4>3. CASE i # n /\ j = n
        <5>1. i \in 1 .. n - 1
          BY <3>5, <4>3
        <5> QED
          BY <3>4, <3>5, <3>7, <4>3, <5>1
      <4> QED
        BY <4>1, <4>2, <4>3
    <3>8. ASSUME NEW i \in 1 .. n, cards'[t][i] = 1 PROVE i = 1
      <4>1. CASE i = n
        BY <3>4, <3>5, <3>8, <4>1
      <4>2. CASE i # n
        <5>1. i \in 1 .. n - 1
          BY <3>5, <4>2
        <5> QED
          BY <2>1, <3>1, <3>5, <3>8, <5>1 DEF CardHolds
      <4> QED
        BY <4>1, <4>2
    <3> QED
      BY <3>1, <3>5, <3>6, <3>7, <3>8 DEF CardHolds
  <2> QED
    BY <2>2, <2>3
<1>15. SkippedIsThere'
  <2>1. ASSUME NEW s \in skipped
        PROVE  \E i \in DOMAIN cards'[s[1]] : cards'[s[1]][i] = s[2] \/ s[2] = 1
    <3>1. s[1] \in MirrorCards
      BY <1>3 DEF MirrorTyped
    <3>2. PICK i \in DOMAIN cards[s[1]] : cards[s[1]][i] = s[2] \/ s[2] = 1
      BY DEF MirrorInv, SkippedIsThere
    <3>3. PICK u : u = cards[s[1]][i]
      OBVIOUS
    <3>4. Bears(s[1], u)'
      BY <1>7, <3>1, <3>2, <3>3 DEF Bears
    <3>5. PICK j \in DOMAIN cards'[s[1]] : cards'[s[1]][j] = u
      BY <3>4 DEF Bears
    <3> QED
      BY <3>2, <3>3, <3>5
  <2> QED
    BY <1>1, <2>1 DEF SkippedIsThere
<1>16. NoneIsLost'
  <2> SUFFICES ASSUME mirrorLeft'.refusals = mirrorRegime.budget.refusals, NEW s \in MirrorCards,
                      NEW u \in 2 .. version, ChangesText(u)
               PROVE  u \in inbox \/ Bears(s, u)' \/ Underway(s, u)'
    BY <1>1, <1>5 DEF NoneIsLost
  <2>1. mirrorLeft.refusals = mirrorRegime.budget.refusals /\ appended
    <3>1. mirrorRegime.budget.refusals \in Nat
      BY <1>3, MirrorAssumption DEF MirrorTyped
    <3> QED
      BY <1>3, <1>8, <3>1 DEF MirrorTyped
  <2>2. u \in inbox \/ Bears(s, u) \/ Underway(s, u)
    BY <2>1 DEF MirrorInv, NoneIsLost
  <2>3. CASE Underway(s, u)
    <3>1. PICK o \in Handlers : mirror[o].at # "idle" /\ mirror[o].v = u /\ s \in mirror[o].todo
      BY <2>3 DEF Underway
    <3>2. CASE o # h \/ s # t
      BY <1>0, <1>1, <1>5, <3>1, <3>2 DEF Underway
    <3>3. CASE o = h /\ s = t
      BY <1>0, <1>6, <2>1, <3>1, <3>3
    <3> QED
      BY <3>2, <3>3
  <2> QED
    BY <1>7, <2>2, <2>3
<1> QED
  BY <1>5, <1>9, <1>10, <1>11, <1>13, <1>14, <1>15, <1>16 DEF MirrorInv

LEMMA CommitsKeep == ASSUME MirrorInv, NEW h \in Handlers, Commit(h) PROVE MirrorInv'
<1>1. /\ UNCHANGED <<mirrorRegime, mirrorLeft, version, inbox, cards, skipped, excused>>
      /\ mirror[h].at = "look" /\ mirror[h].todo = {}
      /\ log' = log \cup mirror[h].rows /\ mirror' = [mirror EXCEPT ![h] = AtDesk]
  BY DEF Commit, Desk
<1>2. mirror \in [Handlers -> MirrorDesk] /\ AtDesk \in MirrorDesk /\ MirrorTyped
  BY DEF MirrorInv, MirrorTyped, MirrorDesk, AtDesk
<1>3. /\ mirror' \in [Handlers -> MirrorDesk] /\ mirror'[h] = AtDesk
      /\ \A o \in Handlers \ {h} : mirror'[o] = mirror[o]
  BY <1>1, <1>2
<1>4. MirrorCards' = MirrorCards /\ Handlers' = Handlers /\ \A u : ChangesText(u)' = ChangesText(u)
  BY <1>1 DEF MirrorCards, Handlers, ChangesText, Wording
<1>5. MirrorTyped'
  <2>1. log' \subseteq MirrorCards \X Nat
    BY <1>1, <1>2 DEF MirrorTyped, MirrorDesk
  <2> QED
    BY <1>1, <1>2, <1>3, <1>4, <2>1 DEF MirrorTyped, MirrorDesk
<1>6. DeskHolds(h)'
  BY <1>3 DEF DeskHolds, AtDesk
<1>7. ASSUME NEW o \in Handlers, o # h PROVE DeskHolds(o)'
  BY <1>1, <1>3, <1>7, OthersKeep
<1>8. RowsKept' = RowsKept
  <2>1. mirror'[h].rows = {}
    BY <1>3 DEF AtDesk
  <2> QED
    BY <1>1, <1>3, <1>4, <2>1 DEF RowsKept
<1>9. (\A r \in RowsKept : Bears(r[1], r[2]))' /\ (\A t \in MirrorCards \ excused : CardHolds(t))'
  BY <1>1, <1>4, <1>8 DEF MirrorInv, Bears, CardHolds
<1>10. SkippedIsThere'
  BY <1>1 DEF MirrorInv, SkippedIsThere
<1>11. NoneIsLost'
  <2>1. ASSUME NEW t, NEW u, Underway(t, u) PROVE Underway(t, u)'
    BY <1>1, <1>3, <1>4, <2>1 DEF Underway
  <2> QED
    BY <1>1, <1>4, <2>1 DEF MirrorInv, NoneIsLost, Bears
<1> QED
  BY <1>4, <1>5, <1>6, <1>7, <1>9, <1>10, <1>11 DEF MirrorInv

LEMMA StopsKeep == ASSUME MirrorInv, NEW h \in Handlers, HandlerFails(h) PROVE MirrorInv'
<1>0. PICK m : m = mirror[h]
  OBVIOUS
<1>1. /\ UNCHANGED <<mirrorRegime, version, cards, log, skipped>>
      /\ m.at # "idle" /\ SpendsMirror("crashes") /\ inbox' = inbox \cup {m.v}
      /\ mirror' = [mirror EXCEPT ![h] = AtDesk]
      /\ excused' = excused \cup {r[1] : r \in m.rows}
  BY <1>0 DEF HandlerFails, Desk
<1>2. mirror \in [Handlers -> MirrorDesk] /\ AtDesk \in MirrorDesk /\ MirrorTyped
  BY DEF MirrorInv, MirrorTyped, MirrorDesk, AtDesk
<1>3. /\ mirror' \in [Handlers -> MirrorDesk] /\ mirror'[h] = AtDesk
      /\ \A o \in Handlers \ {h} : mirror'[o] = mirror[o]
  BY <1>1, <1>2
<1>4. MirrorCards' = MirrorCards /\ Handlers' = Handlers /\ \A u : ChangesText(u)' = ChangesText(u)
  BY <1>1 DEF MirrorCards, Handlers, ChangesText, Wording
<1>5. /\ mirrorLeft' \in [again : Nat, refusals : Nat, unheard : Nat, crashes : Nat]
      /\ mirrorLeft'.refusals = mirrorLeft.refusals
  BY <1>1, <1>2, SpendingCounts
<1>6. m.v \in 1 .. version
  BY <1>0, <1>1 DEF MirrorInv, DeskHolds
<1>7. MirrorTyped'
  BY <1>1, <1>2, <1>3, <1>4, <1>5, <1>6 DEF MirrorTyped, MirrorDesk
<1>8. DeskHolds(h)'
  BY <1>3 DEF DeskHolds, AtDesk
<1>9. ASSUME NEW o \in Handlers, o # h PROVE DeskHolds(o)'
  BY <1>0, <1>1, <1>3, <1>9, OthersKeep
<1>10. RowsKept' \subseteq RowsKept /\ RowsKept \subseteq RowsKept' \cup m.rows
  <2>1. mirror'[h].rows = {}
    BY <1>3 DEF AtDesk
  <2> QED
    BY <1>0, <1>1, <1>3, <1>4, <2>1 DEF RowsKept
<1>11. (\A r \in RowsKept : Bears(r[1], r[2]))'
  BY <1>1, <1>10 DEF MirrorInv, Bears
<1>12. ASSUME NEW t \in MirrorCards \ excused' PROVE CardHolds(t)'
  <2>1. CardHolds(t)
    BY <1>1, <1>12 DEF MirrorInv
  <2>2. \A u : <<t, u>> \notin m.rows
    BY <1>1, <1>12
  <2> QED
    BY <1>1, <1>10, <2>1, <2>2 DEF CardHolds
<1>13. SkippedIsThere'
  BY <1>1 DEF MirrorInv, SkippedIsThere
<1>14. NoneIsLost'
  <2>1. ASSUME NEW t, NEW u, Underway(t, u) PROVE Underway(t, u)' \/ u \in inbox'
    BY <1>0, <1>1, <1>3, <1>4, <2>1 DEF Underway
  <2> QED
    BY <1>1, <1>4, <1>5, <2>1 DEF MirrorInv, NoneIsLost, Bears
<1> QED
  BY <1>4, <1>7, <1>8, <1>9, <1>11, <1>12, <1>13, <1>14 DEF MirrorInv

LEMMA MirrorKept == ASSUME MirrorInv, MirrorNext \/ UNCHANGED mirrorVars PROVE MirrorInv'
<1>1. CASE UNCHANGED mirrorVars
  <2>1. UNCHANGED <<mirrorRegime, mirrorLeft, version, inbox, cards, log, mirror, skipped, excused>>
    BY <1>1 DEF mirrorVars
  <2>2. MirrorTyped'
    BY <2>1 DEF MirrorInv, MirrorTyped, MirrorDesk, MirrorCards, Handlers
  <2>3. ASSUME NEW h \in Handlers' PROVE DeskHolds(h)'
    BY <2>1, <2>3 DEF MirrorInv, DeskHolds, ChangesText, Wording, MirrorCards, Handlers, Found, NextCard
  <2>4. RowsKept' = RowsKept /\ MirrorCards' = MirrorCards
    BY <2>1 DEF RowsKept, Handlers, MirrorCards
  <2>5. (\A r \in RowsKept : Bears(r[1], r[2]))' /\ (\A t \in MirrorCards \ excused : CardHolds(t))'
    BY <2>1, <2>4 DEF MirrorInv, Bears, CardHolds
  <2>6. SkippedIsThere' /\ NoneIsLost'
    BY <2>1 DEF MirrorInv, SkippedIsThere, NoneIsLost, ChangesText, Wording, Bears, Underway,
                MirrorCards, Handlers
  <2> QED
    BY <2>2, <2>3, <2>5, <2>6 DEF MirrorInv
<1>2. CASE MirrorNext
  BY <1>2, WritesKeep, RedeliversKeep, TakesKeep, LooksKeep, PostsKeep, CommitsKeep, StopsKeep
  DEF MirrorNext
<1> QED
  BY <1>1, <1>2

LEMMA MirrorSays == MirrorInv => MirrorIsTrue
<1> SUFFICES ASSUME MirrorInv PROVE MirrorIsTrue
  OBVIOUS
<1>1. EachVersionOnce
  <2> SUFFICES ASSUME NEW t \in MirrorCards, t \notin excused, NEW v PROVE Times(t, v) <= 1
    BY DEF EachVersionOnce
  <2> DEFINE S == {i \in DOMAIN cards[t] : cards[t][i] = v}
  <2>1. \A i, j \in S : i = j
    BY DEF MirrorInv, CardHolds
  <2>2. CASE S = {}
    BY <2>2, FS_EmptySet DEF Times
  <2>3. CASE S # {}
    <3>1. PICK i : S = {i}
      BY <2>1, <2>3
    <3>2. Cardinality({i}) = 1
      BY FS_Singleton
    <3> QED
      BY <3>1, <3>2 DEF Times
  <2> QED
    BY <2>2, <2>3
<1>2. FirstComesFirst
  BY DEF MirrorInv, CardHolds, FirstComesFirst
<1>3. AllArrive
  <2> SUFFICES ASSUME inbox = {}, \A h \in Handlers : mirror[h].at = "idle",
                      mirrorLeft.refusals = mirrorRegime.budget.refusals,
                      NEW t \in MirrorCards, NEW v \in 2 .. version, ChangesText(v)
               PROVE  Times(t, v) > 0
    BY DEF AllArrive
  <2> DEFINE S == {i \in DOMAIN cards[t] : cards[t][i] = v}
  <2>1. S # {}
    BY DEF MirrorInv, NoneIsLost, Underway, Bears
  <2>2. IsFiniteSet(S)
    <3>1. cards[t] \in Seq(Nat)
      BY DEF MirrorInv, MirrorTyped
    <3>2. Len(cards[t]) \in Int /\ 1 \in Int /\ S \subseteq 1 .. Len(cards[t])
      BY <3>1
    <3>3. IsFiniteSet(1 .. Len(cards[t]))
      BY <3>2, FS_Interval
    <3> QED
      BY <3>2, <3>3, FS_Subset
  <2>3. Cardinality(S) \in Nat /\ Cardinality(S) # 0
    BY <2>1, <2>2, FS_CardinalityType, FS_EmptySet
  <2> QED
    BY <2>3 DEF Times
<1> QED
  BY <1>1, <1>2, <1>3 DEF MirrorIsTrue, MirrorInv

-----------------------------------------------------------------------------
(* The board of open pull requests.                                        *)

Pulls == trackRegime.pulls
TrackBudget == [changes : Nat, repeats : Nat, refusals : Nat, stops : Nat]
Letter == [pull : Pulls, kind : {"opened", "merged"}, draft : BOOLEAN]
AtWorkOn == [at : {"absent", "made", "found", "erased"}, pull : Pulls, item : Nat]
TrackTyped ==
  /\ trackRegime \in TrackRegimes /\ trackLeft \in TrackBudget
  /\ \A what \in {"repeats", "refusals", "stops"} : trackLeft[what] <= trackRegime.budget[what]
  /\ openPulls \in [Pulls -> {"none", "draft", "open", "closed", "merged"}]
  /\ letters \in Seq(Letter) /\ trackItems \in Seq([pull : Pulls, there : BOOLEAN])
  /\ tracks \subseteq [pull : Pulls, item : Nat]
  /\ clerk \in [Clerks -> {NoLetter} \cup AtWorkOn]

(* Handler h is at one of these stages with pull request n. *)
Has(h, n, where) == clerk[h].at \in where /\ clerk[h].pull = n
ItsItem(n, i)    == i \in DOMAIN trackItems /\ trackItems[i].pull = n

(* Rows and handlers name items of their pull request, and an item just made is *)
(* in no other hand and no row.                                                *)
ItemsFit ==
  /\ \A r \in tracks : ItsItem(r.pull, r.item)
  /\ \A h \in Clerks : clerk[h].at \in {"made", "found", "erased"} => ItsItem(clerk[h].pull, clerk[h].item)
  /\ \A h \in Clerks : clerk[h].at = "made" =>
       /\ \A r \in tracks : r.item # clerk[h].item
       /\ \A o \in Clerks \ {h} : clerk[o].at \in {"made", "found", "erased"} => clerk[o].item # clerk[h].item

(* One row or one handler about to write it. *)
OneOf(n) ==
  /\ \A r, q \in RowsOf(n) : r = q
  /\ \A h, o \in Clerks : Has(h, n, {"absent", "made"}) =>
       RowsOf(n) = {} /\ (Has(o, n, {"absent", "made"}) => o = h)

(* What rows and handlers say of the items is so. *)
Shown(n) ==
  /\ \A r \in RowsOf(n) :
       trackItems[r.item].there \/ \E h \in Clerks : Has(h, n, {"erased"}) /\ clerk[h].item = r.item
  /\ \A i \in DOMAIN trackItems : trackItems[i].pull = n /\ trackItems[i].there =>
       \/ [pull |-> n, item |-> i] \in tracks
       \/ \E h \in Clerks : Has(h, n, {"made"}) /\ clerk[h].item = i
  /\ \A h \in Clerks : Has(h, n, {"made"}) => trackItems[clerk[h].item].there
  /\ \A h \in Clerks : Has(h, n, {"erased"}) => ~trackItems[clerk[h].item].there

Opening(n, j) == letters[j].pull = n /\ Upserts(letters[j])
Merging(n, j) == letters[j].pull = n /\ letters[j].kind = "merged"

(* What was not heard of as open has nothing, and only what is merged is taken off. *)
OnlyHeard ==
  /\ \A n \in Pulls \ heardOpen :
       /\ RowsOf(n) = {} /\ \A j \in DOMAIN letters : ~Opening(n, j)
       /\ \A h \in Clerks : ~Has(h, n, {"absent", "made"})
  /\ \A n \in Pulls : openPulls[n] # "merged" =>
       /\ \A j \in DOMAIN letters : ~Merging(n, j)
       /\ \A h \in Clerks : ~Has(h, n, {"found", "erased"})

(* One handler, which takes the letters in order, each of them once, and does  *)
(* not stop.                                                                   *)
Steady ==
  /\ Cardinality(Clerks) = 1 /\ trackRegime.inOrder
  /\ trackLeft.repeats = trackRegime.budget.repeats /\ trackLeft.stops = trackRegime.budget.stops

(* The letter of the merge is still there, and no opening behind it, or the row *)
(* is gone or in hand.                                                         *)
MergeTold(n) ==
  \/ \E j \in DOMAIN letters : Merging(n, j) /\ \A k \in DOMAIN letters : Opening(n, k) => k < j
  \/ /\ \A j \in DOMAIN letters : ~Opening(n, j)
     /\ \A h \in Clerks : ~Has(h, n, {"absent", "made"})
     /\ \A r \in RowsOf(n) : \E h \in Clerks : Has(h, n, {"found", "erased"}) /\ clerk[h].item = r.item
OpenTold(n) ==
  \/ RowsOf(n) # {}
  \/ \E j \in DOMAIN letters : Opening(n, j)
  \/ \E h \in Clerks : Has(h, n, {"absent", "made"})
SteadyHolds ==
  Steady =>
    \A n \in Pulls :
      /\ OneOf(n)
      /\ openPulls[n] = "merged" => MergeTold(n)
      /\ openPulls[n] # "merged" /\ n \in heardOpen /\ trackLeft.refusals = trackRegime.budget.refusals =>
           OpenTold(n)

TrackInv ==
  /\ TrackTyped /\ ItemsFit /\ OnlyHeard /\ SteadyHolds
  /\ \A n \in Pulls : Settled(n) => OneOf(n) /\ Shown(n)

LEMMA TrackStarts == TrackInit => TrackInv
<1> SUFFICES ASSUME TrackInit PROVE TrackInv
  OBVIOUS
<1>1. /\ trackRegime \in TrackRegimes /\ trackLeft = trackRegime.budget
      /\ openPulls = [n \in Pulls |-> "none"] /\ letters = <<>> /\ tracks = {} /\ trackItems = <<>>
      /\ clerk = [h \in Clerks |-> NoLetter] /\ heardOpen = {} /\ crossing = {} /\ adrift = {}
  BY DEF TrackInit, Pulls
<1>2. trackLeft \in TrackBudget /\ \A what \in {"repeats", "refusals", "stops"} : trackLeft[what] \in Nat
  BY <1>1, TrackAssumption DEF TrackBudget
<1>3. DOMAIN letters = {} /\ DOMAIN trackItems = {} /\ \A h \in Clerks : clerk[h].at = "idle"
  BY <1>1 DEF NoLetter
<1>4. TrackTyped
  <2>1. \A what \in {"repeats", "refusals", "stops"} : trackLeft[what] <= trackRegime.budget[what]
    BY <1>1, <1>2
  <2> QED
    BY <1>1, <1>2, <2>1 DEF TrackTyped
<1>5. \A n : RowsOf(n) = {}
  BY <1>1 DEF RowsOf
<1>6. ItemsFit /\ OnlyHeard
  BY <1>1, <1>3, <1>5 DEF ItemsFit, OnlyHeard, Has
<1>7. \A n : OneOf(n) /\ Shown(n)
  BY <1>3, <1>5 DEF OneOf, Shown, Has
<1>8. SteadyHolds
  BY <1>1, <1>7 DEF SteadyHolds
<1> QED
  BY <1>4, <1>6, <1>7, <1>8 DEF TrackInv

LEMMA TrackSpends ==
  ASSUME TrackTyped, NEW what \in {"changes", "repeats", "refusals", "stops"}, SpendsTrack(what)
  PROVE  /\ trackLeft' \in TrackBudget
         /\ \A w \in {"repeats", "refusals", "stops"} :
              /\ trackLeft'[w] <= trackRegime.budget[w]
              /\ w # what => trackLeft'[w] = trackLeft[w]
              /\ w = what => trackLeft'[w] # trackRegime.budget[w]
<1>1. /\ trackLeft \in TrackBudget /\ trackLeft[what] > 0
      /\ trackLeft' = [trackLeft EXCEPT ![what] = @ - 1]
      /\ \A w \in {"repeats", "refusals", "stops"} : trackLeft[w] <= trackRegime.budget[w]
  BY DEF TrackTyped, SpendsTrack
<1>2. \A w \in {"repeats", "refusals", "stops"} : trackRegime.budget[w] \in Nat
  BY TrackAssumption DEF TrackTyped
<1>3. ASSUME NEW w \in {"changes", "repeats", "refusals", "stops"}
      PROVE  /\ trackLeft[w] \in Nat
             /\ trackLeft'[w] = IF w = what THEN trackLeft[w] - 1 ELSE trackLeft[w]
  BY <1>1 DEF TrackBudget
<1>4. trackLeft' \in TrackBudget
  <2>1. CASE what = "changes"
    BY <1>1, <1>3, <2>1 DEF TrackBudget
  <2>2. CASE what = "repeats"
    BY <1>1, <1>3, <2>2 DEF TrackBudget
  <2>3. CASE what = "refusals"
    BY <1>1, <1>3, <2>3 DEF TrackBudget
  <2>4. CASE what = "stops"
    BY <1>1, <1>3, <2>4 DEF TrackBudget
  <2> QED
    BY <2>1, <2>2, <2>3, <2>4
<1> QED
  BY <1>1, <1>2, <1>3, <1>4

LEMMA SteadyIsOne == ASSUME TrackTyped, Steady PROVE \A h, o \in Clerks : h = o
<1>1. IsFiniteSet(Clerks) /\ Cardinality(Clerks) = 1
  BY TrackAssumption DEF TrackTyped, Steady, Clerks
<1>2. \E x : Clerks = {x}
  BY <1>1, FS_Singleton
<1> QED
  BY <1>2

(* What changes nothing else than the letters and the pull requests leaves the  *)
(* rows and the handlers as they are.                                          *)
LEMMA RowsStay ==
  ASSUME UNCHANGED <<trackRegime, tracks, trackItems, clerk>>
  PROVE  /\ ItemsFit => ItemsFit'
         /\ \A n : OneOf(n) => OneOf(n)'
         /\ \A n : Shown(n) => Shown(n)'
         /\ \A n : RowsOf(n)' = RowsOf(n)
<1>1. Clerks' = Clerks /\ \A n : RowsOf(n)' = RowsOf(n)
  BY DEF Clerks, RowsOf
<1>2. ItemsFit => ItemsFit'
  BY <1>1 DEF ItemsFit, ItsItem
<1>3. ASSUME NEW n, OneOf(n) PROVE OneOf(n)'
  BY <1>1, <1>3 DEF OneOf, Has
<1>4. ASSUME NEW n, Shown(n) PROVE Shown(n)'
  BY <1>1, <1>4 DEF Shown, Has
<1> QED
  BY <1>1, <1>2, <1>3, <1>4

LEMMA ChangesKeep == ASSUME TrackInv, NEW n \in Pulls, TrackedChange(n) PROVE TrackInv'
<1> DEFINE letter(to, kind) == [pull |-> n, kind |-> kind, draft |-> to = "draft"]
           Sends(to, kind) ==
             /\ openPulls[n] # "merged" /\ openPulls' = [openPulls EXCEPT ![n] = to]
             /\ letters' = IF kind = "" THEN letters ELSE Append(letters, letter(to, kind))
             /\ heardOpen' = IF kind = "opened" /\ to = "open" THEN heardOpen \cup {n} ELSE heardOpen
           Fits(to, kind) ==
             /\ to \in {"none", "draft", "open", "closed", "merged"} /\ kind \in {"", "opened", "merged"}
             /\ (kind = "merged" <=> to = "merged") /\ (kind = "opened" => to \in {"draft", "open"})
<1>1. PICK to, kind : Sends(to, kind) /\ Fits(to, kind)
  <2>1. ASSUME NEW from \in SUBSET {"none", "draft", "open", "closed"}, NEW to, NEW kind,
               Turns(n, from, to, kind)
        PROVE  Sends(to, kind)
    BY <2>1 DEF Turns
  <2>2. /\ \A to \in {"draft", "open"} : Fits(to, "opened")
        /\ Fits("open", "") /\ Fits("closed", "") /\ Fits("merged", "merged")
    OBVIOUS
  <2> HIDE DEF Sends, Fits
  <2>3. CASE \E to \in {"draft", "open"} : Turns(n, {"none"}, to, "opened")
    BY <2>1, <2>2, <2>3
  <2>4. CASE \E to \in {"draft", "open"} : Turns(n, {to}, to, "opened")
    BY <2>1, <2>2, <2>4
  <2>5. CASE Turns(n, {"draft"}, "open", "") \/ Turns(n, {"open", "draft"}, "closed", "")
    <3>1. Sends("open", "") \/ Sends("closed", "")
      BY <2>1, <2>5
    <3> QED
      BY <2>2, <3>1
  <2>6. CASE Turns(n, {"closed"}, "open", "opened")
    <3>1. Sends("open", "opened") /\ Fits("open", "opened")
      BY <2>1, <2>2, <2>6
    <3> QED
      BY <3>1
  <2>7. CASE Turns(n, {"open"}, "merged", "merged")
    <3>1. Sends("merged", "merged")
      BY <2>1, <2>7
    <3> QED
      BY <2>2, <3>1
  <2> QED
    BY <2>3, <2>4, <2>5, <2>6, <2>7 DEF TrackedChange
<1>2. /\ UNCHANGED <<trackRegime, tracks, trackItems, clerk, crossing, adrift>>
      /\ openPulls[n] # "merged" /\ openPulls' = [openPulls EXCEPT ![n] = to]
      /\ SpendsTrack("changes")
  <2>1. UNCHANGED <<trackRegime, tracks, trackItems, clerk, crossing, adrift>> /\ SpendsTrack("changes")
    BY DEF TrackedChange, Turns, AtPlaky
  <2> QED
    BY <1>1, <2>1
<1>3. /\ letters' = IF kind = "" THEN letters ELSE Append(letters, letter(to, kind))
      /\ heardOpen' = IF kind = "opened" /\ to = "open" THEN heardOpen \cup {n} ELSE heardOpen
  BY <1>1
<1> HIDE DEF Sends
<1>4. TrackTyped /\ letters \in Seq(Letter) /\ Len(letters) \in Nat /\ DOMAIN letters = 1 .. Len(letters)
  BY DEF TrackInv, TrackTyped
<1>5. /\ trackLeft' \in TrackBudget
      /\ \A w \in {"repeats", "refusals", "stops"} :
           trackLeft'[w] = trackLeft[w] /\ trackLeft'[w] <= trackRegime.budget[w]
  BY <1>2, <1>4, TrackSpends
<1>6. /\ letter(to, kind).pull = n /\ letter(to, kind).kind = kind /\ (letter(to, kind).draft <=> to = "draft")
      /\ kind # "" => letter(to, kind) \in Letter
  <2> DEFINE draft == to = "draft"
  <2>1. draft \in BOOLEAN /\ letter(to, kind) = [pull |-> n, kind |-> kind, draft |-> draft]
    OBVIOUS
  <2>2. letter(to, kind).draft <=> draft
    OBVIOUS
  <2>0. kind # "" => kind \in {"opened", "merged"}
    BY <1>1
  <2> HIDE DEF draft, letter
  <2>3. letter(to, kind).pull = n /\ letter(to, kind).kind = kind
    BY <2>1
  <2>4. ASSUME NEW k \in {"opened", "merged"}, NEW b \in BOOLEAN
        PROVE  [pull |-> n, kind |-> k, draft |-> b] \in Letter
    BY DEF Letter
  <2>5. kind # "" => letter(to, kind) \in Letter
    BY <2>0, <2>1, <2>4
  <2> QED
    BY <2>2, <2>3, <2>5 DEF draft
<1> HIDE DEF letter
<1>7. /\ letters' \in Seq(Letter)
      /\ \A j \in DOMAIN letters : j \in DOMAIN letters' /\ letters'[j] = letters[j]
      /\ \A j \in DOMAIN letters' : j \in DOMAIN letters \/ (kind # "" /\ j = Len(letters) + 1 /\ letters'[j] = letter(to, kind))
      /\ kind # "" => Len(letters) + 1 \in DOMAIN letters' /\ letters'[Len(letters) + 1] = letter(to, kind)
  <2>1. CASE kind = ""
    BY <1>3, <1>4, <2>1
  <2>2. CASE kind # ""
    <3>1. letters' = Append(letters, letter(to, kind)) /\ letter(to, kind) \in Letter
      BY <1>3, <1>6, <2>2
    <3>2. /\ Append(letters, letter(to, kind)) \in Seq(Letter) /\ Len(Append(letters, letter(to, kind))) = Len(letters) + 1
          /\ \A j \in 1 .. Len(letters) : Append(letters, letter(to, kind))[j] = letters[j]
          /\ Append(letters, letter(to, kind))[Len(letters) + 1] = letter(to, kind)
      BY <1>4, <3>1, AppendProperties
    <3>3. letters' \in Seq(Letter) /\ DOMAIN letters' = 1 .. Len(letters) + 1
      BY <1>4, <3>1, <3>2
    <3>4. \A j \in 1 .. Len(letters) : letters'[j] = letters[j]
      BY <3>1, <3>2
    <3>5. letters'[Len(letters) + 1] = letter(to, kind)
      BY <3>1, <3>2
    <3>6. \A j \in DOMAIN letters : j \in DOMAIN letters' /\ letters'[j] = letters[j]
      BY <1>4, <3>3, <3>4
    <3>7. \A j \in DOMAIN letters' : j \in DOMAIN letters \/ j = Len(letters) + 1
      BY <1>4, <3>3
    <3>8. Len(letters) + 1 \in DOMAIN letters'
      BY <1>4, <3>3
    <3> QED
      BY <2>2, <3>3, <3>5, <3>6, <3>7, <3>8
  <2> QED
    BY <2>1, <2>2
<1>8. Pulls' = Pulls /\ Clerks' = Clerks
  BY <1>2 DEF Pulls, Clerks
<1>9. openPulls' \in [Pulls -> {"none", "draft", "open", "closed", "merged"}]
      /\ openPulls'[n] = to /\ \A m \in Pulls : m # n => openPulls'[m] = openPulls[m]
  BY <1>1, <1>2, <1>4 DEF TrackTyped
<1>10. TrackTyped'
  BY <1>2, <1>4, <1>5, <1>7, <1>8, <1>9 DEF TrackTyped, Letter, AtWorkOn, TrackBudget
<1>11. /\ ItemsFit' /\ \A m : RowsOf(m)' = RowsOf(m)
       /\ \A m : OneOf(m) => OneOf(m)'
       /\ \A m : Shown(m) => Shown(m)'
  BY <1>2, RowsStay DEF TrackInv
<1>12. ASSUME NEW m, NEW j \in DOMAIN letters PROVE
         /\ Opening(m, j)' <=> Opening(m, j)
         /\ Merging(m, j)' <=> Merging(m, j)
  BY <1>7 DEF Opening, Merging, Upserts
<1>13. ASSUME NEW m, NEW j \in DOMAIN letters', j \notin DOMAIN letters PROVE
         /\ Opening(m, j)' => m = n /\ to = "open" /\ kind = "opened"
         /\ Merging(m, j)' => m = n /\ to = "merged"
  BY <1>1, <1>6, <1>7, <1>13 DEF Opening, Merging, Upserts
<1>14. OnlyHeard'
  <2>1. ASSUME NEW m \in Pulls, m \notin heardOpen'
        PROVE  /\ RowsOf(m)' = {} /\ \A j \in DOMAIN letters' : ~Opening(m, j)'
               /\ \A h \in Clerks : ~Has(h, m, {"absent", "made"})'
    <3>1. /\ m \notin heardOpen /\ RowsOf(m) = {} /\ \A j \in DOMAIN letters : ~Opening(m, j)
          /\ \A h \in Clerks : ~Has(h, m, {"absent", "made"})
      BY <1>3, <2>1 DEF TrackInv, OnlyHeard
    <3> QED
      BY <1>2, <1>3, <1>11, <1>12, <1>13, <2>1, <3>1 DEF Has
  <2>2. ASSUME NEW m \in Pulls, openPulls'[m] # "merged"
        PROVE  /\ \A j \in DOMAIN letters' : ~Merging(m, j)'
               /\ \A h \in Clerks : ~Has(h, m, {"found", "erased"})'
    <3>1. openPulls[m] # "merged"
      BY <1>2, <1>9, <2>2
    <3>2. /\ \A j \in DOMAIN letters : ~Merging(m, j)
          /\ \A h \in Clerks : ~Has(h, m, {"found", "erased"})
      BY <3>1 DEF TrackInv, OnlyHeard
    <3> QED
      BY <1>2, <1>9, <1>12, <1>13, <2>2, <3>2 DEF Has
  <2> QED
    BY <1>8, <2>1, <2>2 DEF OnlyHeard
<1>15. SteadyHolds'
  <2> SUFFICES ASSUME Steady', NEW m \in Pulls
               PROVE  /\ OneOf(m)'
                      /\ openPulls'[m] = "merged" => MergeTold(m)'
                      /\ openPulls'[m] # "merged" /\ m \in heardOpen'
                           /\ trackLeft'.refusals = trackRegime.budget.refusals => OpenTold(m)'
    BY <1>2, <1>8 DEF SteadyHolds
  <2>1. Steady
    BY <1>2, <1>5, <1>8 DEF Steady
  <2>2. OneOf(m)'
    BY <1>11, <2>1 DEF TrackInv, SteadyHolds
  <2>3. ASSUME openPulls'[m] = "merged" PROVE MergeTold(m)'
    <3>1. CASE m = n
      <4>1. to = "merged" /\ kind = "merged"
        BY <1>1, <1>9, <2>3, <3>1
      <4>0. PICK last : last = Len(letters) + 1
        OBVIOUS
      <4>2. last \in DOMAIN letters' /\ letters'[last] = letter(to, kind) /\ \A k \in DOMAIN letters : k < last
        BY <1>4, <1>7, <4>0, <4>1
      <4>3. Merging(m, last)'
        BY <1>2, <1>6, <3>1, <4>1, <4>2 DEF Merging
      <4>4. \A k \in DOMAIN letters' : Opening(m, k)' => k < last
        BY <1>13, <4>1, <4>2
      <4> QED
        BY <4>2, <4>3, <4>4 DEF MergeTold
    <3>2. CASE m # n
      <4>1. MergeTold(m)
        BY <1>9, <2>1, <2>3, <3>2 DEF TrackInv, SteadyHolds
      <4>2. ASSUME NEW j \in DOMAIN letters', Opening(m, j)' PROVE j \in DOMAIN letters /\ Opening(m, j)
        BY <1>12, <1>13, <3>2, <4>2
      <4>3. CASE \E j \in DOMAIN letters : Merging(m, j) /\ \A k \in DOMAIN letters : Opening(m, k) => k < j
        <5>1. PICK j \in DOMAIN letters : Merging(m, j) /\ \A k \in DOMAIN letters : Opening(m, k) => k < j
          BY <4>3
        <5>2. j \in DOMAIN letters' /\ Merging(m, j)'
          BY <1>7, <1>12, <5>1
        <5> QED
          BY <4>2, <5>1, <5>2 DEF MergeTold
      <4>4. CASE /\ \A j \in DOMAIN letters : ~Opening(m, j)
                 /\ \A h \in Clerks : ~Has(h, m, {"absent", "made"})
                 /\ \A r \in RowsOf(m) :
                      \E h \in Clerks : Has(h, m, {"found", "erased"}) /\ clerk[h].item = r.item
        BY <1>2, <1>8, <1>11, <4>2, <4>4 DEF MergeTold, Has
      <4> QED
        BY <4>1, <4>3, <4>4 DEF MergeTold
    <3> QED
      BY <3>1, <3>2
  <2>4. ASSUME openPulls'[m] # "merged", m \in heardOpen', trackLeft'.refusals = trackRegime.budget.refusals
        PROVE  OpenTold(m)'
    <3>1. CASE m \in heardOpen
      <4>1. openPulls[m] # "merged"
        BY <1>2, <1>9, <2>4
      <4>2. OpenTold(m)
        BY <1>5, <2>1, <2>4, <3>1, <4>1 DEF TrackInv, SteadyHolds
      <4> QED
        BY <1>2, <1>7, <1>8, <1>11, <1>12, <4>2 DEF OpenTold, Has
    <3>2. CASE m \notin heardOpen
      <4>1. m = n /\ kind = "opened" /\ to = "open"
        BY <1>3, <2>4, <3>2
      <4>0. PICK last : last = Len(letters) + 1
        OBVIOUS
      <4>2. last \in DOMAIN letters' /\ letters'[last] = letter(to, kind)
        BY <1>7, <4>0, <4>1
      <4>3. Opening(m, last)'
        BY <1>6, <4>1, <4>2 DEF Opening, Upserts
      <4> QED
        BY <4>2, <4>3 DEF OpenTold
    <3> QED
      BY <3>1, <3>2
  <2> QED
    BY <2>2, <2>3, <2>4
<1>16. (\A m \in Pulls : Settled(m) => OneOf(m) /\ Shown(m))'
  BY <1>2, <1>8, <1>11 DEF TrackInv, Settled
<1> QED
  BY <1>10, <1>11, <1>14, <1>15, <1>16 DEF TrackInv

(* A letter that is taken from the letters. *)
LEMMA LetterTaken ==
  ASSUME letters \in Seq(Letter), NEW i \in DOMAIN letters, letters' = RemoveAt(letters, i)
  PROVE  /\ letters' \in Seq(Letter) /\ DOMAIN letters' = 1 .. Len(letters) - 1
         /\ \A j \in DOMAIN letters' : \E k \in DOMAIN letters : letters'[j] = letters[k]
         /\ i = 1 => \A j \in DOMAIN letters' : j + 1 \in DOMAIN letters /\ letters'[j] = letters[j + 1]
<1>1. DOMAIN letters = 1 .. Len(letters) /\ Len(letters) \in Nat /\ i \in 1 .. Len(letters)
  OBVIOUS
<1> DEFINE front == SubSeq(letters, 1, i - 1)  back == SubSeq(letters, i + 1, Len(letters))
<1>2. /\ front \in Seq(Letter) /\ Len(front) = i - 1
      /\ \A j \in 1 .. i - 1 : front[j] = letters[j]
  BY <1>1, SubSeqProperties
<1>3. /\ back \in Seq(Letter) /\ Len(back) = Len(letters) - i
      /\ \A j \in 1 .. Len(letters) - i : back[j] = letters[i + j]
  BY <1>1, SubSeqProperties
<1>4. letters' = front \o back
  BY DEF RemoveAt
<1> HIDE DEF front, back
<1>5. /\ front \o back \in Seq(Letter) /\ Len(front \o back) = Len(front) + Len(back)
      /\ \A j \in 1 .. Len(front) + Len(back) :
           (front \o back)[j] = IF j <= Len(front) THEN front[j] ELSE back[j - Len(front)]
  BY <1>2, <1>3, ConcatProperties
<1>6. letters' \in Seq(Letter) /\ Len(letters') = Len(letters) - 1 /\ DOMAIN letters' = 1 .. Len(letters) - 1
  <2>1. letters' \in Seq(Letter) /\ Len(letters') = Len(front) + Len(back)
    BY <1>4, <1>5
  <2>2. Len(letters') = Len(letters) - 1
    BY <1>1, <1>2, <1>3, <2>1
  <2> QED
    BY <2>1, <2>2
<1>7. ASSUME NEW j \in 1 .. Len(letters) - 1
      PROVE  letters'[j] = IF j <= i - 1 THEN letters[j] ELSE letters[j + 1]
  <2>1. letters'[j] = IF j <= i - 1 THEN front[j] ELSE back[j - (i - 1)]
    <3>1. j \in 1 .. Len(front) + Len(back) /\ Len(front) = i - 1
      BY <1>1, <1>2, <1>3
    <3>2. letters'[j] = IF j <= Len(front) THEN front[j] ELSE back[j - Len(front)]
      BY <1>4, <1>5, <3>1
    <3> QED
      BY <3>1, <3>2
  <2>2. CASE j <= i - 1
    <3>1. j \in 1 .. i - 1
      BY <1>1, <2>2
    <3> QED
      BY <1>2, <2>1, <2>2, <3>1
  <2>3. CASE ~(j <= i - 1)
    <3>1. j - (i - 1) \in 1 .. Len(letters) - i /\ i + (j - (i - 1)) = j + 1
      BY <1>1, <2>3
    <3> QED
      BY <1>3, <2>1, <2>3, <3>1
  <2> QED
    BY <2>2, <2>3
<1>8. ASSUME NEW j \in 1 .. Len(letters) - 1
      PROVE  j \in DOMAIN letters /\ j + 1 \in DOMAIN letters
  BY <1>1
<1>9. i = 1 => \A j \in 1 .. Len(letters) - 1 : letters'[j] = letters[j + 1]
  BY <1>1, <1>7
<1> QED
  BY <1>6, <1>7, <1>8, <1>9

(* What a handler does at its desk. *)
LEMMA ClerkMoves ==
  ASSUME TrackTyped, NEW h \in Clerks, NEW c \in {NoLetter} \cup AtWorkOn,
         clerk' = [clerk EXCEPT ![h] = c]
  PROVE  /\ clerk' \in [Clerks -> {NoLetter} \cup AtWorkOn] /\ clerk'[h] = c
         /\ \A o \in Clerks : o # h => clerk'[o] = clerk[o]
<1>1. clerk \in [Clerks -> {NoLetter} \cup AtWorkOn]
  BY DEF TrackTyped
<1> QED
  BY <1>1

(* A letter is taken, or comes again; what it asks for is begun, or nothing is. *)
LEMMA TakingDoes ==
  ASSUME TrackTyped, NEW h \in Clerks, NEW i \in DOMAIN letters, TakesLetter(h, i)
  PROVE  LET n == letters[i].pull IN
         /\ UNCHANGED <<trackRegime, openPulls, tracks, trackItems, heardOpen, adrift>>
         /\ clerk[h] = NoLetter /\ n \in Pulls /\ (trackRegime.inOrder => i = 1)
         /\ \/ letters' = RemoveAt(letters, i) /\ UNCHANGED trackLeft
            \/ SpendsTrack("repeats") /\ UNCHANGED letters
         /\ crossing \subseteq crossing'
         /\ clerk' \in [Clerks -> {NoLetter} \cup AtWorkOn]
         /\ \A o \in Clerks : o # h => clerk'[o] = clerk[o]
         /\ \/ /\ Opening(n, i) /\ RowsOf(n) = {} /\ clerk'[h].at = "absent" /\ clerk'[h].pull = n
               /\ InHand(n, {"absent", "made"}) => n \in crossing'
            \/ /\ Merging(n, i) /\ clerk'[h].at = "found" /\ clerk'[h].pull = n
               /\ \E r \in RowsOf(n) : clerk'[h].item = r.item
            \/ /\ UNCHANGED clerk /\ (Opening(n, i) => RowsOf(n) # {})
               /\ Merging(n, i) => Cardinality(RowsOf(n)) # 1
<1>0. PICK letter : letter = letters[i]
  OBVIOUS
<1> DEFINE n == letter.pull  found == RowsOf(n)
           begun(at, item) == [at |-> at, pull |-> n, item |-> item]
           next == IF Upserts(letter) /\ found = {} THEN begun("absent", 0)
                   ELSE IF letter.kind = "merged" /\ Cardinality(found) = 1
                        THEN begun("found", (CHOOSE r \in found : TRUE).item)
                   ELSE clerk[h]
<1>1. /\ UNCHANGED <<trackRegime, openPulls, tracks, trackItems, heardOpen, adrift>>
      /\ clerk[h].at = "idle" /\ (trackRegime.inOrder => i = 1)
      /\ \/ letters' = RemoveAt(letters, i) /\ UNCHANGED trackLeft
         \/ SpendsTrack("repeats") /\ UNCHANGED letters
      /\ clerk' = [clerk EXCEPT ![h] = next]
      /\ crossing' = IF Upserts(letter) /\ InHand(n, {"absent", "made"})
                     THEN crossing \cup {n} ELSE crossing
  BY <1>0 DEF TakesLetter, AtPlaky
<1>2. letter \in Letter /\ clerk[h] \in {NoLetter} \cup AtWorkOn /\ tracks \subseteq [pull : Pulls, item : Nat]
  BY <1>0 DEF TrackTyped
<1>3. clerk[h] = NoLetter /\ n \in Pulls
  BY <1>1, <1>2 DEF AtWorkOn, Letter
<1>4. Cardinality(found) = 1 => (CHOOSE r \in found : TRUE) \in found
  <2>1. Cardinality({}) = 0
    BY FS_EmptySet
  <2> QED
    BY <2>1
<1>5. \A r \in found : r.item \in Nat
  BY <1>2 DEF RowsOf
<1>6. next \in {NoLetter} \cup AtWorkOn
  BY <1>3, <1>4, <1>5 DEF AtWorkOn
<1> HIDE DEF next
<1>7. /\ clerk' \in [Clerks -> {NoLetter} \cup AtWorkOn] /\ clerk'[h] = next
      /\ \A o \in Clerks : o # h => clerk'[o] = clerk[o]
  BY <1>1, <1>6, ClerkMoves
<1>8. /\ Opening(n, i) <=> Upserts(letter)
      /\ Merging(n, i) <=> letter.kind = "merged"
  BY <1>0 DEF Opening, Merging
<1>9. CASE Upserts(letter) /\ found = {}
  <2>1. clerk'[h].at = "absent" /\ clerk'[h].pull = n
    BY <1>7, <1>9 DEF next
  <2> QED
    BY <1>0, <1>1, <1>3, <1>7, <1>8, <1>9, <2>1
<1>10. CASE ~(Upserts(letter) /\ found = {}) /\ letter.kind = "merged" /\ Cardinality(found) = 1
  <2>1. clerk'[h].at = "found" /\ clerk'[h].pull = n /\ \E r \in found : clerk'[h].item = r.item
    <3>1. PICK r : r = (CHOOSE q \in found : TRUE)
      OBVIOUS
    <3>2. r \in found /\ next = begun("found", r.item)
      BY <1>4, <1>10, <3>1 DEF next
    <3> QED
      BY <1>7, <3>2
  <2> QED
    BY <1>0, <1>1, <1>3, <1>7, <1>8, <2>1, <1>10
<1>11. CASE ~(Upserts(letter) /\ found = {}) /\ ~(letter.kind = "merged" /\ Cardinality(found) = 1)
  <2>1. UNCHANGED clerk
    <3>1. next = clerk[h] /\ clerk \in [Clerks -> {NoLetter} \cup AtWorkOn]
      BY <1>11 DEF next, TrackTyped
    <3> QED
      BY <1>1, <3>1
  <2> QED
    BY <1>0, <1>1, <1>3, <1>7, <1>8, <1>11, <2>1
<1> QED
  BY <1>9, <1>10, <1>11

LEMMA LettersKeep ==
  ASSUME TrackInv, NEW h \in Clerks, NEW i \in DOMAIN letters, TakesLetter(h, i) PROVE TrackInv'
<1>0. PICK n : n = letters[i].pull
  OBVIOUS
<1>1. /\ UNCHANGED <<trackRegime, openPulls, tracks, trackItems, heardOpen, adrift>>
      /\ clerk[h] = NoLetter /\ n \in Pulls /\ (trackRegime.inOrder => i = 1)
      /\ \/ letters' = RemoveAt(letters, i) /\ UNCHANGED trackLeft
         \/ SpendsTrack("repeats") /\ UNCHANGED letters
      /\ crossing \subseteq crossing'
      /\ clerk' \in [Clerks -> {NoLetter} \cup AtWorkOn]
      /\ \A o \in Clerks : o # h => clerk'[o] = clerk[o]
  BY <1>0, TakingDoes DEF TrackInv
<1>2. \/ /\ Opening(n, i) /\ RowsOf(n) = {} /\ clerk'[h].at = "absent" /\ clerk'[h].pull = n
         /\ InHand(n, {"absent", "made"}) => n \in crossing'
      \/ /\ Merging(n, i) /\ clerk'[h].at = "found" /\ clerk'[h].pull = n
         /\ \E r \in RowsOf(n) : clerk'[h].item = r.item
      \/ /\ UNCHANGED clerk /\ (Opening(n, i) => RowsOf(n) # {})
         /\ Merging(n, i) => Cardinality(RowsOf(n)) # 1
  BY <1>0, TakingDoes DEF TrackInv
<1>3. /\ TrackTyped /\ letters \in Seq(Letter) /\ Pulls' = Pulls /\ Clerks' = Clerks
      /\ \A m : RowsOf(m)' = RowsOf(m)
  BY <1>1 DEF TrackInv, TrackTyped, Pulls, Clerks, RowsOf
<1>4. letters' \in Seq(Letter) /\ \A j \in DOMAIN letters' : \E k \in DOMAIN letters : letters'[j] = letters[k]
  BY <1>1, <1>3, LetterTaken
<1>5. /\ trackLeft' \in TrackBudget
      /\ \A w \in {"repeats", "refusals", "stops"} : trackLeft'[w] <= trackRegime.budget[w]
      /\ trackLeft'.refusals = trackLeft.refusals /\ trackLeft'.stops = trackLeft.stops
      /\ trackLeft'.repeats = trackRegime.budget.repeats => UNCHANGED trackLeft /\ letters' = RemoveAt(letters, i)
  BY <1>1, <1>3, TrackSpends DEF TrackTyped
<1>6. TrackTyped'
  BY <1>1, <1>3, <1>4, <1>5 DEF TrackTyped, Letter, AtWorkOn, TrackBudget
<1>7. clerk[h].at = "idle"
  BY <1>1 DEF NoLetter
<1>8. ASSUME NEW o \in Clerks, NEW m
      PROVE  /\ Has(o, m, {"made"})' <=> Has(o, m, {"made"})
             /\ Has(o, m, {"erased"})' <=> Has(o, m, {"erased"})
             /\ Has(o, m, {"absent", "made"}) => Has(o, m, {"absent", "made"})'
             /\ Has(o, m, {"absent", "made"})' =>
                  Has(o, m, {"absent", "made"}) \/ (o = h /\ m = n /\ Opening(n, i) /\ RowsOf(n) = {})
             /\ Has(o, m, {"found", "erased"})' =>
                  Has(o, m, {"found", "erased"}) \/ (o = h /\ m = n /\ Merging(n, i))
             /\ Has(o, m, {"absent", "made"}) \/ Has(o, m, {"found", "erased"}) => o # h
  BY <1>1, <1>2, <1>7 DEF Has
<1>9. ItemsFit'
  <2>1. \A r \in tracks : ItsItem(r.pull, r.item)'
    BY <1>1 DEF TrackInv, ItemsFit, ItsItem
  <2>2. clerk'[h].at \notin {"made", "erased"}
    BY <1>2, <1>7
  <2>3. clerk'[h].at = "found" => \E r \in tracks : r.pull = n /\ clerk'[h].pull = n /\ clerk'[h].item = r.item
    BY <1>2, <1>7 DEF RowsOf
  <2>4. \A o \in Clerks : clerk'[o].at \in {"made", "found", "erased"} =>
          clerk'[o].item \in DOMAIN trackItems /\ trackItems[clerk'[o].item].pull = clerk'[o].pull
    BY <1>1, <2>2, <2>3 DEF TrackInv, ItemsFit, ItsItem
  <2>5. ASSUME NEW o \in Clerks, clerk'[o].at = "made"
        PROVE  /\ \A r \in tracks : r.item # clerk'[o].item
               /\ \A x \in Clerks \ {o} :
                    clerk'[x].at \in {"made", "found", "erased"} => clerk'[x].item # clerk'[o].item
    <3>1. o # h /\ clerk'[o] = clerk[o] /\ clerk[o].at = "made"
      BY <1>1, <2>2, <2>5
    <3>2. /\ \A r \in tracks : r.item # clerk[o].item
          /\ \A x \in Clerks \ {o} :
               clerk[x].at \in {"made", "found", "erased"} => clerk[x].item # clerk[o].item
      BY <3>1 DEF TrackInv, ItemsFit
    <3> QED
      BY <1>1, <2>2, <2>3, <3>1, <3>2
  <2> QED
    BY <1>1, <1>3, <2>1, <2>4, <2>5 DEF ItemsFit, ItsItem
<1>10. ASSUME NEW m, NEW j \in DOMAIN letters'
       PROVE  \E k \in DOMAIN letters : (Opening(m, j)' <=> Opening(m, k)) /\ (Merging(m, j)' <=> Merging(m, k))
  BY <1>4 DEF Opening, Merging, Upserts
<1>11. OnlyHeard'
  <2>1. ASSUME NEW m \in Pulls, m \notin heardOpen
        PROVE  /\ RowsOf(m)' = {} /\ \A j \in DOMAIN letters' : ~Opening(m, j)'
               /\ \A o \in Clerks : ~Has(o, m, {"absent", "made"})'
    BY <1>3, <1>8, <1>10, <2>1 DEF TrackInv, OnlyHeard
  <2>2. ASSUME NEW m \in Pulls, openPulls[m] # "merged"
        PROVE  /\ \A j \in DOMAIN letters' : ~Merging(m, j)'
               /\ \A o \in Clerks : ~Has(o, m, {"found", "erased"})'
    BY <1>8, <1>10, <2>2 DEF TrackInv, OnlyHeard
  <2> QED
    BY <1>1, <1>3, <2>1, <2>2 DEF OnlyHeard
<1>12. ASSUME NEW m \in Pulls, Settled(m)' PROVE OneOf(m)' /\ Shown(m)'
  <2>1. Settled(m) /\ OneOf(m) /\ Shown(m)
    BY <1>1, <1>12 DEF TrackInv, Settled
  <2>2. OneOf(m)'
    <3>1. \A r, q \in RowsOf(m) : r = q
      BY <2>1 DEF OneOf
    <3>2. ASSUME NEW o \in Clerks, NEW x \in Clerks, Has(o, m, {"absent", "made"})'
          PROVE  RowsOf(m) = {} /\ (Has(x, m, {"absent", "made"})' => x = o)
      <4>1. CASE Has(h, m, {"absent", "made"})'
        <5>1. m = n /\ RowsOf(n) = {} /\ Opening(n, i)
          BY <1>8, <4>1
        <5>2. InHand(n, {"absent", "made"}) => n \in crossing'
          BY <1>2, <1>7, <4>1 DEF Has
        <5>3. \A y \in Clerks : ~Has(y, n, {"absent", "made"})
          BY <1>12, <5>1, <5>2 DEF InHand, Has, Settled
        <5> QED
          BY <1>8, <3>2, <5>1, <5>3
      <4>2. CASE ~Has(h, m, {"absent", "made"})'
        <5>1. Has(o, m, {"absent", "made"}) /\ (Has(x, m, {"absent", "made"})' => Has(x, m, {"absent", "made"}))
          BY <1>8, <3>2, <4>2
        <5> QED
          BY <2>1, <5>1 DEF OneOf
      <4> QED
        BY <4>1, <4>2
    <3> QED
      BY <1>3, <3>1, <3>2 DEF OneOf
  <2>3. Shown(m)'
    <3>1. \A o \in Clerks : o # h => clerk'[o].item = clerk[o].item
      BY <1>1
    <3>2. \A o \in Clerks : Has(o, m, {"made"}) \/ Has(o, m, {"erased"}) => o # h
      BY <1>7 DEF Has
    <3> QED
      BY <1>1, <1>3, <1>8, <2>1, <3>1, <3>2 DEF Shown
  <2> QED
    BY <2>2, <2>3
<1>13. SteadyHolds'
  <2> SUFFICES ASSUME Steady', NEW m \in Pulls
               PROVE  /\ OneOf(m)'
                      /\ openPulls[m] = "merged" => MergeTold(m)'
                      /\ openPulls[m] # "merged" /\ m \in heardOpen
                           /\ trackLeft'.refusals = trackRegime.budget.refusals => OpenTold(m)'
    BY <1>1, <1>3 DEF SteadyHolds
  <2>1. Steady /\ letters' = RemoveAt(letters, i) /\ i = 1
    BY <1>1, <1>3, <1>5 DEF Steady
  <2>2. \A o, x \in Clerks : o = x
    BY <1>3, <2>1, SteadyIsOne
  <2>3. \A j \in DOMAIN letters' : j \in Nat /\ j + 1 \in DOMAIN letters /\ letters'[j] = letters[j + 1]
    BY <1>3, <2>1, LetterTaken
  <2>4. \A j \in DOMAIN letters : j \in Nat /\ (j # 1 => j - 1 \in DOMAIN letters')
    <3>1. DOMAIN letters = 1 .. Len(letters) /\ Len(letters) \in Nat
      BY <1>3
    <3>2. DOMAIN letters' = 1 .. Len(letters) - 1
      BY <1>3, <2>1, LetterTaken
    <3> QED
      BY <3>1, <3>2
  <2>5. ASSUME NEW j \in DOMAIN letters'
        PROVE  /\ Opening(m, j)' <=> Opening(m, j + 1)
               /\ Merging(m, j)' <=> Merging(m, j + 1)
    BY <2>3 DEF Opening, Merging, Upserts
  <2>6. /\ OneOf(m)
        /\ openPulls[m] = "merged" => MergeTold(m)
        /\ openPulls[m] # "merged" /\ m \in heardOpen /\ trackLeft.refusals = trackRegime.budget.refusals => OpenTold(m)
    BY <2>1 DEF TrackInv, SteadyHolds
  <2>7. \A o \in Clerks : \A x : ~Has(o, x, {"absent", "made"}) /\ ~Has(o, x, {"found", "erased"})
    BY <1>8, <2>2
  <2>8. OneOf(m)'
    BY <1>3, <1>8, <2>2, <2>6, <2>7 DEF OneOf
  <2>9. ASSUME openPulls[m] = "merged" PROVE MergeTold(m)'
    <3>1. CASE \E j \in DOMAIN letters :
                 j # 1 /\ Merging(m, j) /\ \A k \in DOMAIN letters : Opening(m, k) => k < j
      <4>1. PICK j \in DOMAIN letters :
              j # 1 /\ Merging(m, j) /\ \A k \in DOMAIN letters : Opening(m, k) => k < j
        BY <3>1
      <4>2. PICK l : l = j - 1
        OBVIOUS
      <4>3. l \in DOMAIN letters' /\ l + 1 = j /\ l \in Nat
        BY <2>3, <2>4, <4>1, <4>2
      <4>4. Merging(m, l)'
        BY <2>5, <4>1, <4>3
      <4>5. ASSUME NEW k \in DOMAIN letters', Opening(m, k)' PROVE k < l
        <5>1. k \in Nat /\ k + 1 < j
          BY <2>3, <2>5, <4>1, <4>5
        <5> QED
          BY <4>3, <5>1
      <4> QED
        BY <4>3, <4>4, <4>5 DEF MergeTold
    <3>2. CASE /\ \A j \in DOMAIN letters : ~Opening(m, j)
               /\ ~\E j \in DOMAIN letters :
                     j # 1 /\ Merging(m, j) /\ \A k \in DOMAIN letters : Opening(m, k) => k < j
      <4>1. \A j \in DOMAIN letters' : ~Opening(m, j)'
        BY <2>3, <2>5, <3>2
      <4>2. \A o \in Clerks : ~Has(o, m, {"absent", "made"})'
        BY <1>8, <2>7, <3>2
      <4>3. CASE RowsOf(m) = {}
        BY <1>3, <4>1, <4>2, <4>3 DEF MergeTold
      <4>4. CASE RowsOf(m) # {}
        <5>1. PICK r : RowsOf(m) = {r}
          BY <2>6, <4>4 DEF OneOf
        <5>2. CASE Merging(m, 1)
          <6>1. m = n
            BY <1>0, <2>1, <5>2 DEF Merging
          <6>2. Cardinality(RowsOf(n)) = 1
            BY <5>1, <6>1, FS_Singleton
          <6>3. clerk'[h].at = "found" /\ clerk'[h].pull = n /\ clerk'[h].item = r.item
            BY <1>2, <2>1, <3>2, <5>1, <5>2, <6>1, <6>2
          <6>4. Has(h, m, {"found", "erased"})'
            BY <6>1, <6>3 DEF Has
          <6> QED
            BY <1>3, <4>1, <4>2, <5>1, <6>3, <6>4 DEF MergeTold
        <5>3. CASE ~Merging(m, 1)
          <6>1. ~\E j \in DOMAIN letters : Merging(m, j) /\ \A k \in DOMAIN letters : Opening(m, k) => k < j
            BY <3>2, <5>3
          <6>2. \A q \in RowsOf(m) : \E o \in Clerks : Has(o, m, {"found", "erased"}) /\ clerk[o].item = q.item
            BY <2>6, <2>9, <6>1 DEF MergeTold
          <6> QED
            BY <2>7, <4>4, <6>2
        <5> QED
          BY <5>2, <5>3
      <4> QED
        BY <4>3, <4>4
    <3>3. CASE ~(\A j \in DOMAIN letters : ~Opening(m, j))
      <4>1. PICK j \in DOMAIN letters : Merging(m, j) /\ \A k \in DOMAIN letters : Opening(m, k) => k < j
        BY <2>6, <2>9, <3>3 DEF MergeTold
      <4>2. j # 1
        <5>1. \A k \in DOMAIN letters : k \in Nat \ {0}
          BY <1>3
        <5> QED
          BY <3>3, <4>1, <5>1
      <4> QED
        BY <3>1, <4>1, <4>2
    <3> QED
      BY <3>1, <3>2, <3>3
  <2>10. ASSUME openPulls[m] # "merged", m \in heardOpen, trackLeft'.refusals = trackRegime.budget.refusals
         PROVE  OpenTold(m)'
    <3>1. OpenTold(m)
      BY <1>5, <2>6, <2>10
    <3>2. CASE RowsOf(m) # {}
      BY <1>3, <3>2 DEF OpenTold
    <3>3. CASE RowsOf(m) = {}
      <4>1. PICK j \in DOMAIN letters : Opening(m, j)
        BY <2>7, <3>1, <3>3 DEF OpenTold
      <4>2. CASE j = 1
        <5>1. m = n /\ Opening(n, i) /\ ~Merging(n, i)
          BY <1>0, <2>1, <4>1, <4>2 DEF Opening, Merging, Upserts
        <5>2. clerk'[h].at = "absent" /\ clerk'[h].pull = n
          BY <1>2, <3>3, <5>1
        <5>3. Has(h, m, {"absent", "made"})'
          BY <5>1, <5>2 DEF Has
        <5> QED
          BY <1>3, <5>3 DEF OpenTold
      <4>3. CASE j # 1
        <5>1. PICK l : l = j - 1
          OBVIOUS
        <5>2. l \in DOMAIN letters' /\ l + 1 = j
          BY <2>4, <4>3, <5>1
        <5>3. Opening(m, l)'
          BY <2>5, <4>1, <5>2
        <5> QED
          BY <5>2, <5>3 DEF OpenTold
      <4> QED
        BY <4>2, <4>3
    <3> QED
      BY <3>2, <3>3
  <2> QED
    BY <2>8, <2>9, <2>10
<1> QED
  BY <1>3, <1>6, <1>9, <1>11, <1>12, <1>13 DEF TrackInv

(* An item is made and in hand, or refused; or it is there without anyone knowing. *)
LEMMA CreatesKeep == ASSUME TrackInv, NEW h \in Clerks, CreatesItem(h) PROVE TrackInv'
<1>0. PICK n, last : n = clerk[h].pull /\ last = Len(trackItems) + 1
  OBVIOUS
<1> DEFINE new == [pull |-> n, there |-> TRUE]
           grown == Append(trackItems, new)
           made == [clerk[h] EXCEPT !.at = "made", !.item = last]
<1>1. /\ UNCHANGED <<trackRegime, openPulls, letters, tracks, heardOpen, crossing>>
      /\ TrackTyped /\ clerk[h].at = "absent"
  BY DEF CreatesItem, TrackInv
<1>2. clerk[h] \in AtWorkOn /\ n \in Pulls /\ trackItems \in Seq([pull : Pulls, there : BOOLEAN])
  BY <1>0, <1>1 DEF TrackTyped, AtWorkOn, NoLetter
<1>3. /\ DOMAIN grown = DOMAIN trackItems \cup {last} /\ last \notin DOMAIN trackItems
      /\ last \in Nat /\ grown \in Seq([pull : Pulls, there : BOOLEAN]) /\ Len(grown) = last
      /\ grown[last].pull = n /\ grown[last].there
      /\ \A i \in DOMAIN trackItems : grown[i] = trackItems[i]
  <2>1. new \in [pull : Pulls, there : BOOLEAN]
    BY <1>2
  <2>2. /\ grown \in Seq([pull : Pulls, there : BOOLEAN]) /\ Len(grown) = Len(trackItems) + 1
        /\ \A i \in 1 .. Len(trackItems) : grown[i] = trackItems[i]
        /\ grown[Len(trackItems) + 1] = new
    BY <1>2, <2>1, AppendProperties
  <2>3. DOMAIN trackItems = 1 .. Len(trackItems) /\ DOMAIN grown = 1 .. Len(grown) /\ Len(trackItems) \in Nat
    BY <1>2, <2>2
  <2>4. 1 .. last = (1 .. Len(trackItems)) \cup {last} /\ last \notin 1 .. Len(trackItems) /\ last \in Nat
    BY <1>0, <2>3
  <2>5. grown[last] = new
    BY <1>0, <2>2
  <2> QED
    BY <1>0, <2>2, <2>3, <2>4, <2>5
<1>4. \/ /\ trackItems' = grown /\ clerk' = [clerk EXCEPT ![h] = made]
         /\ UNCHANGED <<trackLeft, adrift>>
      \/ /\ SpendsTrack("refusals") /\ clerk' = [clerk EXCEPT ![h] = NoLetter]
         /\ UNCHANGED <<trackItems, adrift>> \/ (trackItems' = grown /\ adrift' = adrift \cup {n})
  <2>1. clerk \in [Clerks -> {NoLetter} \cup AtWorkOn]
    BY <1>1 DEF TrackTyped
  <2>2. [clerk EXCEPT ![h].at = "made", ![h].item = last] = [clerk EXCEPT ![h] = made]
    BY <1>2, <2>1 DEF AtWorkOn
  <2> QED
    BY <1>0, <1>3, <2>2 DEF CreatesItem
<1> HIDE DEF grown
<1>5. /\ made \in AtWorkOn /\ made.at = "made" /\ made.pull = n /\ made.item = last
      /\ NoLetter.at = "idle"
  BY <1>0, <1>2, <1>3 DEF AtWorkOn, NoLetter
<1> HIDE DEF made
<1>6. /\ clerk' \in [Clerks -> {NoLetter} \cup AtWorkOn]
      /\ \A o \in Clerks : o # h => clerk'[o] = clerk[o]
      /\ \/ clerk'[h].at = "made" /\ clerk'[h].pull = n /\ clerk'[h].item = last /\ trackItems' = grown
            /\ UNCHANGED <<trackLeft, adrift>>
         \/ /\ clerk'[h].at = "idle" /\ SpendsTrack("refusals")
            /\ UNCHANGED <<trackItems, adrift>> \/ (trackItems' = grown /\ adrift' = adrift \cup {n})
  BY <1>1, <1>4, <1>5, ClerkMoves
<1>7. /\ trackLeft' \in TrackBudget /\ trackLeft'.repeats = trackLeft.repeats /\ trackLeft'.stops = trackLeft.stops
      /\ \A w \in {"repeats", "refusals", "stops"} : trackLeft'[w] <= trackRegime.budget[w]
      /\ SpendsTrack("refusals") => trackLeft'.refusals # trackRegime.budget.refusals
  BY <1>1, <1>6, TrackSpends DEF TrackTyped
<1>8. /\ Pulls' = Pulls /\ Clerks' = Clerks /\ \A m : RowsOf(m)' = RowsOf(m)
      /\ trackItems' \in Seq([pull : Pulls, there : BOOLEAN]) /\ adrift \subseteq adrift'
      /\ DOMAIN trackItems \subseteq DOMAIN trackItems' /\ DOMAIN trackItems' \subseteq DOMAIN trackItems \cup {last}
      /\ \A i \in DOMAIN trackItems : trackItems'[i] = trackItems[i]
  BY <1>1, <1>2, <1>3, <1>6 DEF Pulls, Clerks, RowsOf
<1>9. TrackTyped'
  BY <1>1, <1>6, <1>7, <1>8 DEF TrackTyped, AtWorkOn, TrackBudget, Letter
<1>10. ASSUME NEW o \in Clerks, NEW m
       PROVE  /\ Has(o, m, {"absent", "made"})' => Has(o, m, {"absent", "made"})
              /\ Has(o, m, {"found", "erased"})' <=> Has(o, m, {"found", "erased"})
              /\ Has(o, m, {"erased"})' <=> Has(o, m, {"erased"})
              /\ Has(o, m, {"erased"}) \/ Has(o, m, {"found", "erased"}) \/ Has(o, m, {"made"}) => o # h
              /\ o # h => (Has(o, m, {"made"})' <=> Has(o, m, {"made"})) /\ clerk'[o].item = clerk[o].item
              /\ Has(h, m, {"made"})' => m = n /\ clerk'[h].item = last /\ trackItems' = grown
  BY <1>0, <1>1, <1>6 DEF Has
<1>11. ItemsFit'
  <2>1. \A r \in tracks : ItsItem(r.pull, r.item) /\ ItsItem(r.pull, r.item)'
    BY <1>8 DEF TrackInv, ItemsFit, ItsItem
  <2>2. ASSUME NEW o \in Clerks, clerk'[o].at \in {"made", "found", "erased"}
        PROVE  /\ clerk'[o].item \in DOMAIN trackItems' /\ trackItems'[clerk'[o].item].pull = clerk'[o].pull
               /\ o # h => clerk'[o].item \in DOMAIN trackItems
               /\ o = h => clerk'[o].item = last
    <3>1. CASE o = h
      BY <1>3, <1>6, <2>2, <3>1
    <3>2. CASE o # h
      <4>1. clerk'[o] = clerk[o] /\ ItsItem(clerk[o].pull, clerk[o].item)
        BY <1>6, <2>2, <3>2 DEF TrackInv, ItemsFit
      <4> QED
        BY <1>8, <3>2, <4>1 DEF ItsItem
    <3> QED
      BY <3>1, <3>2
  <2>3. ASSUME NEW o \in Clerks, clerk'[o].at = "made"
        PROVE  /\ \A r \in tracks : r.item # clerk'[o].item
               /\ \A x \in Clerks \ {o} :
                    clerk'[x].at \in {"made", "found", "erased"} => clerk'[x].item # clerk'[o].item
    <3>1. CASE o = h
      BY <1>3, <2>1, <2>2, <2>3, <3>1 DEF ItsItem
    <3>2. CASE o # h
      <4>1. /\ clerk'[o] = clerk[o] /\ \A r \in tracks : r.item # clerk[o].item
            /\ \A x \in Clerks \ {o} :
                 clerk[x].at \in {"made", "found", "erased"} => clerk[x].item # clerk[o].item
        BY <1>6, <2>3, <3>2 DEF TrackInv, ItemsFit
      <4>2. clerk'[o].item # last
        BY <1>3, <2>2, <2>3, <3>2
      <4> QED
        BY <1>6, <2>2, <4>1, <4>2
    <3> QED
      BY <3>1, <3>2
  <2> QED
    BY <1>1, <1>8, <2>1, <2>2, <2>3 DEF ItemsFit, ItsItem
<1>12. OnlyHeard'
  <2>1. \A m, j : (Opening(m, j)' <=> Opening(m, j)) /\ (Merging(m, j)' <=> Merging(m, j))
    BY <1>1 DEF Opening, Merging, Upserts
  <2> QED
    BY <1>1, <1>8, <1>10, <2>1 DEF TrackInv, OnlyHeard
<1>13. ASSUME NEW m, OneOf(m) PROVE OneOf(m)'
  BY <1>8, <1>10, <1>13 DEF OneOf
<1>14. ASSUME NEW m \in Pulls, Settled(m)' PROVE OneOf(m)' /\ Shown(m)'
  <2>1. Settled(m) /\ OneOf(m) /\ Shown(m)
    BY <1>1, <1>8, <1>14 DEF TrackInv, Settled
  <2>2. ASSUME NEW r \in RowsOf(m)
        PROVE  trackItems'[r.item].there \/ \E o \in Clerks : Has(o, m, {"erased"})' /\ clerk'[o].item = r.item
    <3>1. trackItems[r.item].there \/ \E o \in Clerks : Has(o, m, {"erased"}) /\ clerk[o].item = r.item
      BY <2>1 DEF Shown
    <3>2. r.item \in DOMAIN trackItems
      BY <2>2 DEF RowsOf, TrackInv, ItemsFit, ItsItem
    <3> QED
      BY <1>8, <1>10, <3>1, <3>2
  <2>3. ASSUME NEW i \in DOMAIN trackItems', trackItems'[i].pull = m, trackItems'[i].there
        PROVE  \/ [pull |-> m, item |-> i] \in tracks
               \/ \E o \in Clerks : Has(o, m, {"made"})' /\ clerk'[o].item = i
    <3>1. CASE i \in DOMAIN trackItems
      <4>1. \/ [pull |-> m, item |-> i] \in tracks
            \/ \E o \in Clerks : Has(o, m, {"made"}) /\ clerk[o].item = i
        BY <1>8, <2>1, <2>3, <3>1 DEF Shown
      <4> QED
        BY <1>10, <4>1
    <3>2. CASE i \notin DOMAIN trackItems
      <4>1. i = last /\ trackItems' = grown /\ m = n
        BY <1>3, <1>6, <1>8, <2>3, <3>2
      <4>2. clerk'[h].at = "made" /\ clerk'[h].pull = n /\ clerk'[h].item = last
        BY <1>3, <1>6, <1>14, <2>3, <3>2, <4>1 DEF Settled
      <4> QED
        BY <4>1, <4>2 DEF Has
    <3> QED
      BY <3>1, <3>2
  <2>4. ASSUME NEW o \in Clerks, Has(o, m, {"made"})' PROVE trackItems'[clerk'[o].item].there
    <3>1. CASE o = h
      BY <1>3, <1>10, <2>4, <3>1
    <3>2. CASE o # h
      <4>1. Has(o, m, {"made"}) /\ clerk'[o].item = clerk[o].item
        BY <1>10, <2>4, <3>2
      <4>2. trackItems[clerk[o].item].there /\ clerk[o].item \in DOMAIN trackItems
        BY <2>1, <4>1 DEF Shown, TrackInv, ItemsFit, ItsItem, Has
      <4> QED
        BY <1>8, <4>1, <4>2
    <3> QED
      BY <3>1, <3>2
  <2>5. ASSUME NEW o \in Clerks, Has(o, m, {"erased"})' PROVE ~trackItems'[clerk'[o].item].there
    <3>1. Has(o, m, {"erased"}) /\ clerk'[o].item = clerk[o].item
      BY <1>10, <2>5
    <3>2. ~trackItems[clerk[o].item].there /\ clerk[o].item \in DOMAIN trackItems
      BY <2>1, <3>1 DEF Shown, TrackInv, ItemsFit, ItsItem, Has
    <3> QED
      BY <1>8, <3>1, <3>2
  <2>6. Shown(m)'
    BY <1>1, <1>8, <2>2, <2>3, <2>4, <2>5 DEF Shown
  <2> QED
    BY <1>13, <2>1, <2>6
<1>15. SteadyHolds'
  <2> SUFFICES ASSUME Steady', NEW m \in Pulls
               PROVE  /\ OneOf(m)'
                      /\ openPulls[m] = "merged" => MergeTold(m)'
                      /\ openPulls[m] # "merged" /\ m \in heardOpen
                           /\ trackLeft'.refusals = trackRegime.budget.refusals => OpenTold(m)'
    BY <1>1, <1>8 DEF SteadyHolds
  <2>1. Steady
    BY <1>1, <1>7, <1>8 DEF Steady
  <2>2. /\ OneOf(m)
        /\ openPulls[m] = "merged" => MergeTold(m)
        /\ openPulls[m] # "merged" /\ m \in heardOpen /\ trackLeft.refusals = trackRegime.budget.refusals => OpenTold(m)
    BY <2>1 DEF TrackInv, SteadyHolds
  <2>3. \A j : (Opening(m, j)' <=> Opening(m, j)) /\ (Merging(m, j)' <=> Merging(m, j))
    BY <1>1 DEF Opening, Merging, Upserts
  <2>4. MergeTold(m) => MergeTold(m)'
    BY <1>1, <1>8, <1>10, <2>3 DEF MergeTold
  <2>5. ASSUME trackLeft'.refusals = trackRegime.budget.refusals, openPulls[m] # "merged", m \in heardOpen
        PROVE  OpenTold(m)'
    <3>1. clerk'[h].at = "made" /\ clerk'[h].pull = n /\ UNCHANGED trackLeft
      BY <1>6, <1>7, <2>5
    <3>2. \A o \in Clerks : Has(o, m, {"absent", "made"}) => Has(o, m, {"absent", "made"})'
      BY <1>0, <1>6, <3>1 DEF Has
    <3>3. OpenTold(m)
      BY <2>2, <2>5, <3>1
    <3> QED
      BY <1>1, <1>8, <2>3, <3>2, <3>3 DEF OpenTold
  <2> QED
    BY <1>13, <2>2, <2>4, <2>5
<1> QED
  BY <1>8, <1>9, <1>11, <1>12, <1>14, <1>15 DEF TrackInv

(* The row of an item that is in hand is written. *)
LEMMA RecordsKeep == ASSUME TrackInv, NEW h \in Clerks, RecordsTrack(h) PROVE TrackInv'
<1>0. PICK n, it : n = clerk[h].pull /\ it = clerk[h].item
  OBVIOUS
<1> DEFINE row == [pull |-> n, item |-> it]
<1>1. /\ UNCHANGED <<trackRegime, trackLeft, openPulls, letters, trackItems, heardOpen, crossing, adrift>>
      /\ TrackTyped /\ clerk[h].at = "made" /\ clerk' = [clerk EXCEPT ![h] = NoLetter]
      /\ tracks' = tracks \cup {row}
  BY <1>0 DEF RecordsTrack, TrackInv
<1>2. /\ clerk' \in [Clerks -> {NoLetter} \cup AtWorkOn] /\ clerk'[h].at = "idle"
      /\ \A o \in Clerks : o # h => clerk'[o] = clerk[o]
  BY <1>1, ClerkMoves DEF NoLetter
<1>3. clerk[h] \in AtWorkOn /\ n \in Pulls /\ it \in Nat /\ row \in [pull : Pulls, item : Nat]
  BY <1>0, <1>1 DEF TrackTyped, AtWorkOn, NoLetter
<1>4. /\ Pulls' = Pulls /\ Clerks' = Clerks
      /\ \A m : m # n => RowsOf(m)' = RowsOf(m)
      /\ RowsOf(n)' = RowsOf(n) \cup {row}
  BY <1>1 DEF Pulls, Clerks, RowsOf
<1>5. TrackTyped'
  BY <1>1, <1>2, <1>3, <1>4 DEF TrackTyped, AtWorkOn, TrackBudget, Letter
<1>6. Has(h, n, {"made"}) /\ Has(h, n, {"absent", "made"})
  BY <1>0, <1>1 DEF Has
<1>7. ASSUME NEW o \in Clerks, NEW m
      PROVE  /\ Has(o, m, {"absent", "made"})' => Has(o, m, {"absent", "made"}) /\ o # h
             /\ Has(o, m, {"found", "erased"})' <=> Has(o, m, {"found", "erased"})
             /\ Has(o, m, {"erased"})' <=> Has(o, m, {"erased"})
             /\ Has(o, m, {"erased"}) \/ Has(o, m, {"found", "erased"}) => o # h
             /\ Has(o, m, {"made"})' => Has(o, m, {"made"}) /\ o # h
             /\ o # h \/ m # n => /\ Has(o, m, {"made"})' <=> Has(o, m, {"made"})
                                  /\ Has(o, m, {"absent", "made"})' <=> Has(o, m, {"absent", "made"})
             /\ o # h => clerk'[o].item = clerk[o].item
  BY <1>0, <1>1, <1>2 DEF Has
<1>8. ItemsFit'
  <2>1. ItsItem(n, it)
    BY <1>0, <1>1 DEF TrackInv, ItemsFit
  <2>2. \A r \in tracks' : ItsItem(r.pull, r.item)
    BY <1>1, <2>1 DEF TrackInv, ItemsFit
  <2>3. \A o \in Clerks : clerk'[o].at \in {"made", "found", "erased"} => ItsItem(clerk'[o].pull, clerk'[o].item)
    BY <1>2 DEF TrackInv, ItemsFit
  <2>4. ASSUME NEW o \in Clerks, clerk'[o].at = "made"
        PROVE  /\ \A r \in tracks' : r.item # clerk'[o].item
               /\ \A x \in Clerks \ {o} :
                    clerk'[x].at \in {"made", "found", "erased"} => clerk'[x].item # clerk'[o].item
    <3>1. o # h /\ clerk'[o] = clerk[o] /\ clerk[o].at = "made"
      BY <1>2, <2>4
    <3>2. /\ \A r \in tracks : r.item # clerk[o].item
          /\ \A x \in Clerks \ {o} :
               clerk[x].at \in {"made", "found", "erased"} => clerk[x].item # clerk[o].item
      BY <3>1 DEF TrackInv, ItemsFit
    <3>3. it # clerk[o].item
      BY <1>0, <1>1, <3>1, <3>2
    <3> QED
      BY <1>1, <1>2, <3>1, <3>2, <3>3
  <2> QED
    BY <1>1, <1>4, <2>2, <2>3, <2>4 DEF ItemsFit, ItsItem
<1>9. \A m, j : (Opening(m, j)' <=> Opening(m, j)) /\ (Merging(m, j)' <=> Merging(m, j))
  BY <1>1 DEF Opening, Merging, Upserts
<1>10. OnlyHeard'
  <2>1. n \in heardOpen
    BY <1>3, <1>6 DEF TrackInv, OnlyHeard
  <2> QED
    BY <1>1, <1>4, <1>7, <1>9, <2>1 DEF TrackInv, OnlyHeard
<1>11. ASSUME NEW m, OneOf(m) PROVE OneOf(m)'
  <2>1. CASE m = n
    <3>1. RowsOf(n) = {} /\ \A o \in Clerks : Has(o, n, {"absent", "made"}) => o = h
      BY <1>6, <1>11, <2>1 DEF OneOf
    <3>2. RowsOf(m)' = {row} /\ \A o \in Clerks : ~Has(o, m, {"absent", "made"})'
      BY <1>4, <1>7, <2>1, <3>1
    <3> QED
      BY <1>4, <3>2 DEF OneOf
  <2>2. CASE m # n
    BY <1>4, <1>7, <1>11, <2>2 DEF OneOf
  <2> QED
    BY <2>1, <2>2
<1>12. ASSUME NEW m, OneOf(m), Shown(m) PROVE Shown(m)'
  <2>1. ASSUME NEW r \in RowsOf(m)'
        PROVE  trackItems[r.item].there \/ \E o \in Clerks : Has(o, m, {"erased"})' /\ clerk'[o].item = r.item
    <3>1. CASE r \in RowsOf(m)
      BY <1>7, <1>12, <3>1 DEF Shown
    <3>2. CASE r \notin RowsOf(m)
      <4>1. r.item = it /\ m = n
        BY <1>4, <2>1, <3>2
      <4> QED
        BY <1>0, <1>6, <1>12, <4>1 DEF Shown
    <3> QED
      BY <3>1, <3>2
  <2>2. ASSUME NEW i \in DOMAIN trackItems, trackItems[i].pull = m, trackItems[i].there
        PROVE  \/ [pull |-> m, item |-> i] \in tracks'
               \/ \E o \in Clerks : Has(o, m, {"made"})' /\ clerk'[o].item = i
    <3>1. CASE [pull |-> m, item |-> i] \in tracks
      BY <1>1, <3>1
    <3>2. CASE [pull |-> m, item |-> i] \notin tracks
      <4>1. PICK o \in Clerks : Has(o, m, {"made"}) /\ clerk[o].item = i
        BY <1>12, <2>2, <3>2 DEF Shown
      <4>2. CASE o = h
        BY <1>0, <1>1, <4>1, <4>2 DEF Has
      <4>3. CASE o # h
        BY <1>7, <4>1, <4>3
      <4> QED
        BY <4>2, <4>3
    <3> QED
      BY <3>1, <3>2
  <2> QED
    BY <1>1, <1>4, <1>7, <1>12, <2>1, <2>2 DEF Shown
<1>13. ASSUME NEW m \in Pulls, Settled(m)' PROVE OneOf(m)' /\ Shown(m)'
  BY <1>1, <1>11, <1>12, <1>13 DEF TrackInv, Settled
<1>14. SteadyHolds'
  <2> SUFFICES ASSUME Steady', NEW m \in Pulls
               PROVE  /\ OneOf(m)'
                      /\ openPulls[m] = "merged" => MergeTold(m)'
                      /\ openPulls[m] # "merged" /\ m \in heardOpen
                           /\ trackLeft.refusals = trackRegime.budget.refusals => OpenTold(m)'
    BY <1>1, <1>4 DEF SteadyHolds
  <2>1. Steady
    BY <1>1, <1>4 DEF Steady
  <2>2. /\ OneOf(m)
        /\ openPulls[m] = "merged" => MergeTold(m)
        /\ openPulls[m] # "merged" /\ m \in heardOpen /\ trackLeft.refusals = trackRegime.budget.refusals => OpenTold(m)
    BY <2>1 DEF TrackInv, SteadyHolds
  <2>3. MergeTold(m) => MergeTold(m)'
    <3>1. CASE m = n
      BY <1>1, <1>6, <1>9, <3>1 DEF MergeTold
    <3>2. CASE m # n
      BY <1>1, <1>4, <1>7, <1>9, <3>2 DEF MergeTold
    <3> QED
      BY <3>1, <3>2
  <2>4. OpenTold(m) => OpenTold(m)'
    <3>1. CASE m = n
      BY <1>4, <3>1 DEF OpenTold
    <3>2. CASE m # n
      BY <1>1, <1>4, <1>7, <1>9, <3>2 DEF OpenTold
    <3> QED
      BY <3>1, <3>2
  <2> QED
    BY <1>11, <2>2, <2>3, <2>4
<1> QED
  BY <1>4, <1>5, <1>8, <1>10, <1>13, <1>14 DEF TrackInv

(* The item of a merged pull request is deleted, or is refused to be. *)
LEMMA ErasesKeep == ASSUME TrackInv, NEW h \in Clerks, ErasesItem(h) PROVE TrackInv'
<1>0. PICK n, it : n = clerk[h].pull /\ it = clerk[h].item
  OBVIOUS
<1> DEFINE done == [clerk[h] EXCEPT !.at = "erased"]
<1>1. /\ UNCHANGED <<trackRegime, openPulls, letters, tracks, heardOpen, crossing>>
      /\ TrackTyped /\ clerk[h].at = "found"
      /\ trackItems \in Seq([pull : Pulls, there : BOOLEAN]) /\ it \in DOMAIN trackItems
      /\ clerk \in [Clerks -> {NoLetter} \cup AtWorkOn] /\ trackItems[it].pull = n
  BY <1>0 DEF ErasesItem, TrackInv, TrackTyped, ItemsFit, ItsItem
<1>2. clerk' = [clerk EXCEPT ![h] = done]
  BY <1>1 DEF ErasesItem
<1>3. clerk[h] \in AtWorkOn /\ n \in Pulls
  BY <1>0, <1>1 DEF AtWorkOn, NoLetter
<1>4. done \in AtWorkOn /\ done.at = "erased" /\ done.pull = n /\ done.item = it
  BY <1>0, <1>3 DEF AtWorkOn
<1> HIDE DEF done
<1>5. /\ clerk' \in [Clerks -> {NoLetter} \cup AtWorkOn]
      /\ clerk'[h].at = "erased" /\ clerk'[h].pull = n /\ clerk'[h].item = it
      /\ \A o \in Clerks : o # h => clerk'[o] = clerk[o]
  BY <1>1, <1>2, <1>4, ClerkMoves
<1>6. /\ \/ trackItems' = ItemsWithout(it) /\ UNCHANGED <<trackLeft, adrift>>
         \/ SpendsTrack("refusals") /\ UNCHANGED trackItems /\ adrift' = adrift \cup {n}
  BY <1>0 DEF ErasesItem
<1>7. /\ trackItems' \in Seq([pull : Pulls, there : BOOLEAN]) /\ DOMAIN trackItems' = DOMAIN trackItems
      /\ \A i \in DOMAIN trackItems : trackItems'[i].pull = trackItems[i].pull
      /\ \A i \in DOMAIN trackItems : i # it => trackItems'[i] = trackItems[i]
      /\ adrift \subseteq adrift' /\ (n \notin adrift' => ~trackItems'[it].there)
  <2>1. /\ ItemsWithout(it) \in Seq([pull : Pulls, there : BOOLEAN])
        /\ DOMAIN ItemsWithout(it) = DOMAIN trackItems
        /\ \A i \in DOMAIN trackItems : ItemsWithout(it)[i].pull = trackItems[i].pull
        /\ \A i \in DOMAIN trackItems : i # it => ItemsWithout(it)[i] = trackItems[i]
        /\ ~ItemsWithout(it)[it].there
    <3> DEFINE gone == [trackItems[it] EXCEPT !.there = FALSE]
    <3>1. /\ trackItems[it] \in [pull : Pulls, there : BOOLEAN]
          /\ gone \in [pull : Pulls, there : BOOLEAN] /\ gone.pull = trackItems[it].pull /\ ~gone.there
      <4>1. trackItems[it] \in [pull : Pulls, there : BOOLEAN]
        <5>1. DOMAIN trackItems = 1 .. Len(trackItems) /\ Len(trackItems) \in Nat
          BY <1>1
        <5> QED
          BY <1>1, <5>1, ElementOfSeq
      <4>2. \A x \in [pull : Pulls, there : BOOLEAN] :
              /\ [x EXCEPT !.there = FALSE] \in [pull : Pulls, there : BOOLEAN]
              /\ [x EXCEPT !.there = FALSE].pull = x.pull
        OBVIOUS
      <4>3. \A x \in [pull : Pulls, there : BOOLEAN] : [x EXCEPT !.there = FALSE].there = FALSE
        OBVIOUS
      <4> QED
        BY <4>1, <4>2, <4>3
    <3>2. ItemsWithout(it) = [trackItems EXCEPT ![it] = gone]
      BY <1>1 DEF ItemsWithout
    <3> HIDE DEF gone
    <3>3. DOMAIN [trackItems EXCEPT ![it] = gone] = DOMAIN trackItems
          /\ \A i \in DOMAIN trackItems : [trackItems EXCEPT ![it] = gone][i] = IF i = it THEN gone ELSE trackItems[i]
      BY <1>1
    <3>4. [trackItems EXCEPT ![it] = gone] \in Seq([pull : Pulls, there : BOOLEAN])
      BY <1>1, <3>1
    <3> QED
      BY <1>1, <3>1, <3>2, <3>3, <3>4
  <2>2. CASE trackItems' = ItemsWithout(it) /\ UNCHANGED <<trackLeft, adrift>>
    BY <2>1, <2>2
  <2>3. CASE SpendsTrack("refusals") /\ UNCHANGED trackItems /\ adrift' = adrift \cup {n}
    BY <1>1, <2>3
  <2> QED
    BY <1>6, <2>2, <2>3
<1>8. /\ trackLeft' \in TrackBudget /\ trackLeft'.repeats = trackLeft.repeats /\ trackLeft'.stops = trackLeft.stops
      /\ \A w \in {"repeats", "refusals", "stops"} : trackLeft'[w] <= trackRegime.budget[w]
      /\ trackLeft'.refusals = trackRegime.budget.refusals => trackLeft'.refusals = trackLeft.refusals
  BY <1>1, <1>6, TrackSpends DEF TrackTyped
<1>9. Pulls' = Pulls /\ Clerks' = Clerks /\ \A m : RowsOf(m)' = RowsOf(m)
  BY <1>1 DEF Pulls, Clerks, RowsOf
<1>10. TrackTyped'
  BY <1>1, <1>5, <1>7, <1>8, <1>9 DEF TrackTyped, AtWorkOn, TrackBudget, Letter
<1>11. ASSUME NEW o \in Clerks, NEW m
       PROVE  /\ Has(o, m, {"absent", "made"})' <=> Has(o, m, {"absent", "made"})
              /\ Has(o, m, {"found", "erased"})' <=> Has(o, m, {"found", "erased"})
              /\ Has(o, m, {"made"})' <=> Has(o, m, {"made"})
              /\ Has(o, m, {"erased"}) => Has(o, m, {"erased"})'
              /\ Has(o, m, {"erased"})' => Has(o, m, {"erased"}) \/ (o = h /\ m = n)
              /\ clerk'[o].item = clerk[o].item
  BY <1>0, <1>1, <1>5 DEF Has
<1>12. ItemsFit'
  <2>1. ASSUME NEW o \in Clerks
        PROVE  /\ clerk'[o].at \in {"made", "found", "erased"} <=> clerk[o].at \in {"made", "found", "erased"}
               /\ clerk'[o].at = "made" <=> clerk[o].at = "made"
               /\ clerk'[o].at # "idle" => clerk'[o].pull = clerk[o].pull
               /\ clerk'[o].item = clerk[o].item
    BY <1>0, <1>1, <1>5
  <2>2. \A m, i : ItsItem(m, i)' <=> ItsItem(m, i)
    BY <1>7 DEF ItsItem
  <2>3. \A o \in Clerks : clerk'[o].at \in {"made", "found", "erased"} => ItsItem(clerk'[o].pull, clerk'[o].item)
    BY <2>1 DEF TrackInv, ItemsFit
  <2>4. \A r \in tracks : ItsItem(r.pull, r.item)'
    BY <2>2 DEF TrackInv, ItemsFit
  <2>5. \A o \in Clerks : clerk'[o].at \in {"made", "found", "erased"} =>
          clerk'[o].item \in DOMAIN trackItems' /\ trackItems'[clerk'[o].item].pull = clerk'[o].pull
    BY <1>7, <2>3 DEF ItsItem
  <2>6. ASSUME NEW o \in Clerks, clerk'[o].at = "made"
        PROVE  /\ \A r \in tracks : r.item # clerk'[o].item
               /\ \A x \in Clerks \ {o} :
                    clerk'[x].at \in {"made", "found", "erased"} => clerk'[x].item # clerk'[o].item
    BY <2>1, <2>6 DEF TrackInv, ItemsFit
  <2> QED
    BY <1>1, <1>9, <2>4, <2>5, <2>6 DEF ItemsFit, ItsItem
<1>13. \A m, j : (Opening(m, j)' <=> Opening(m, j)) /\ (Merging(m, j)' <=> Merging(m, j))
  BY <1>1 DEF Opening, Merging, Upserts
<1>14. OnlyHeard'
  BY <1>1, <1>9, <1>11, <1>13 DEF TrackInv, OnlyHeard
<1>15. ASSUME NEW m, OneOf(m) PROVE OneOf(m)'
  BY <1>9, <1>11, <1>15 DEF OneOf
<1>16. ASSUME NEW m \in Pulls, Settled(m)' PROVE OneOf(m)' /\ Shown(m)'
  <2>1. Settled(m) /\ OneOf(m) /\ Shown(m)
    BY <1>1, <1>7, <1>16 DEF TrackInv, Settled
  <2>2. m = n => ~trackItems'[it].there
    BY <1>7, <1>16 DEF Settled
  <2>3. ASSUME NEW r \in RowsOf(m)
        PROVE  trackItems'[r.item].there \/ \E o \in Clerks : Has(o, m, {"erased"})' /\ clerk'[o].item = r.item
    <3>1. r.item \in DOMAIN trackItems /\ trackItems[r.item].pull = m
      BY <2>3 DEF RowsOf, TrackInv, ItemsFit, ItsItem
    <3>2. CASE r.item = it
      <4>1. m = n
        BY <1>1, <3>1, <3>2
      <4> QED
        BY <1>5, <3>2, <4>1 DEF Has
    <3>3. CASE r.item # it
      <4>1. trackItems[r.item].there \/ \E o \in Clerks : Has(o, m, {"erased"}) /\ clerk[o].item = r.item
        BY <2>1, <2>3 DEF Shown
      <4> QED
        BY <1>7, <1>11, <3>1, <3>3, <4>1
    <3> QED
      BY <3>2, <3>3
  <2>4. ASSUME NEW i \in DOMAIN trackItems, trackItems'[i].pull = m, trackItems'[i].there
        PROVE  \/ [pull |-> m, item |-> i] \in tracks
               \/ \E o \in Clerks : Has(o, m, {"made"})' /\ clerk'[o].item = i
    <3>1. i # it
      BY <1>1, <1>7, <2>2, <2>4
    <3>2. trackItems[i].pull = m /\ trackItems[i].there
      BY <1>7, <2>4, <3>1
    <3>3. \/ [pull |-> m, item |-> i] \in tracks
          \/ \E o \in Clerks : Has(o, m, {"made"}) /\ clerk[o].item = i
      BY <2>1, <3>2 DEF Shown
    <3> QED
      BY <1>11, <3>3
  <2>5. ASSUME NEW o \in Clerks, Has(o, m, {"made"}) PROVE trackItems'[clerk[o].item].there
    <3>1. clerk[o].at = "made" /\ o # h
      BY <1>1, <2>5 DEF Has
    <3>2. clerk[o].item \in DOMAIN trackItems /\ clerk[o].item # it
      BY <1>0, <1>1, <3>1 DEF TrackInv, ItemsFit, ItsItem
    <3>3. trackItems[clerk[o].item].there
      BY <2>1, <2>5 DEF Shown
    <3> QED
      BY <1>7, <3>2, <3>3
  <2>6. ASSUME NEW o \in Clerks, Has(o, m, {"erased"})' PROVE ~trackItems'[clerk[o].item].there
    <3>1. CASE clerk[o].item = it
      <4>1. m = n
        <5>1. CASE o = h
          BY <1>5, <2>6, <5>1 DEF Has
        <5>2. CASE o # h
          <6>1. clerk[o].at = "erased" /\ clerk[o].pull = m
            BY <1>5, <2>6, <5>2 DEF Has
          <6>2. trackItems[clerk[o].item].pull = m
            BY <6>1 DEF TrackInv, ItemsFit, ItsItem
          <6> QED
            BY <1>1, <3>1, <6>2
        <5> QED
          BY <5>1, <5>2
      <4> QED
        BY <2>2, <3>1, <4>1
    <3>2. CASE clerk[o].item # it
      <4>1. Has(o, m, {"erased"})
        BY <1>0, <1>11, <2>6, <3>2
      <4>2. ~trackItems[clerk[o].item].there /\ clerk[o].item \in DOMAIN trackItems
        BY <2>1, <4>1 DEF Shown, Has, TrackInv, ItemsFit, ItsItem
      <4> QED
        BY <1>7, <3>2, <4>2
    <3> QED
      BY <3>1, <3>2
  <2>7. Shown(m)'
    BY <1>1, <1>7, <1>9, <1>11, <2>3, <2>4, <2>5, <2>6 DEF Shown
  <2> QED
    BY <1>15, <2>1, <2>7
<1>17. SteadyHolds'
  <2> SUFFICES ASSUME Steady', NEW m \in Pulls
               PROVE  /\ OneOf(m)'
                      /\ openPulls[m] = "merged" => MergeTold(m)'
                      /\ openPulls[m] # "merged" /\ m \in heardOpen
                           /\ trackLeft'.refusals = trackRegime.budget.refusals => OpenTold(m)'
    BY <1>1, <1>9 DEF SteadyHolds
  <2>1. Steady
    BY <1>1, <1>8, <1>9 DEF Steady
  <2>2. /\ OneOf(m)
        /\ openPulls[m] = "merged" => MergeTold(m)
        /\ openPulls[m] # "merged" /\ m \in heardOpen /\ trackLeft.refusals = trackRegime.budget.refusals => OpenTold(m)
    BY <2>1 DEF TrackInv, SteadyHolds
  <2>3. MergeTold(m) => MergeTold(m)'
    BY <1>1, <1>9, <1>11, <1>13 DEF MergeTold
  <2>4. OpenTold(m) => OpenTold(m)'
    BY <1>1, <1>9, <1>11, <1>13 DEF OpenTold
  <2> QED
    BY <1>8, <1>15, <2>2, <2>3, <2>4
<1> QED
  BY <1>9, <1>10, <1>12, <1>14, <1>16, <1>17 DEF TrackInv

(* The row of a merged pull request goes. *)
LEMMA StrikesKeep == ASSUME TrackInv, NEW h \in Clerks, StrikesTrack(h) PROVE TrackInv'
<1>0. PICK n, it : n = clerk[h].pull /\ it = clerk[h].item
  OBVIOUS
<1> DEFINE row == [pull |-> n, item |-> it]
<1>1. /\ UNCHANGED <<trackRegime, trackLeft, openPulls, letters, trackItems, heardOpen, crossing, adrift>>
      /\ TrackTyped /\ clerk[h].at = "erased" /\ clerk' = [clerk EXCEPT ![h] = NoLetter]
      /\ tracks' = tracks \ {row} /\ tracks \subseteq [pull : Pulls, item : Nat]
  BY <1>0 DEF StrikesTrack, TracksWithout, TrackInv, TrackTyped
<1>2. /\ clerk' \in [Clerks -> {NoLetter} \cup AtWorkOn] /\ clerk'[h].at = "idle"
      /\ \A o \in Clerks : o # h => clerk'[o] = clerk[o]
  BY <1>1, ClerkMoves DEF NoLetter
<1>3. clerk[h] \in AtWorkOn /\ n \in Pulls
  BY <1>0, <1>1 DEF TrackTyped, AtWorkOn, NoLetter
<1>4. /\ Pulls' = Pulls /\ Clerks' = Clerks
      /\ \A m : m # n => RowsOf(m)' = RowsOf(m)
      /\ \A m : RowsOf(m)' \subseteq RowsOf(m)
      /\ \A r \in RowsOf(n)' : r.item # it
  <2>1. \A m : m # n => RowsOf(m)' = RowsOf(m)
    BY <1>1 DEF RowsOf
  <2>2. \A r \in tracks : r.pull = n /\ r.item = it => r = row
    BY <1>1
  <2> QED
    BY <1>1, <2>1, <2>2 DEF Pulls, Clerks, RowsOf
<1>5. TrackTyped'
  BY <1>1, <1>2, <1>4 DEF TrackTyped, AtWorkOn, TrackBudget, Letter
<1>6. Has(h, n, {"erased"}) /\ Has(h, n, {"found", "erased"})
  BY <1>0, <1>1 DEF Has
<1>7. ASSUME NEW o \in Clerks, NEW m
      PROVE  /\ Has(o, m, {"absent", "made"})' <=> Has(o, m, {"absent", "made"})
             /\ Has(o, m, {"made"})' <=> Has(o, m, {"made"})
             /\ Has(o, m, {"made"}) => o # h
             /\ Has(o, m, {"found", "erased"})' => Has(o, m, {"found", "erased"})
             /\ Has(o, m, {"erased"})' => Has(o, m, {"erased"}) /\ o # h
             /\ o # h \/ m # n => /\ Has(o, m, {"erased"})' <=> Has(o, m, {"erased"})
                                  /\ Has(o, m, {"found", "erased"})' <=> Has(o, m, {"found", "erased"})
             /\ o # h => clerk'[o].item = clerk[o].item
             /\ Has(o, m, {"erased"}) /\ m # n => o # h
             /\ Has(o, m, {"found", "erased"}) /\ m # n => o # h
  BY <1>0, <1>1, <1>2 DEF Has
<1>8. ItemsFit'
  <2>1. \A r \in tracks' : ItsItem(r.pull, r.item)
    BY <1>1 DEF TrackInv, ItemsFit
  <2>2. \A o \in Clerks : clerk'[o].at \in {"made", "found", "erased"} => ItsItem(clerk'[o].pull, clerk'[o].item)
    BY <1>2 DEF TrackInv, ItemsFit
  <2>3. ASSUME NEW o \in Clerks, clerk'[o].at = "made"
        PROVE  /\ \A r \in tracks' : r.item # clerk'[o].item
               /\ \A x \in Clerks \ {o} :
                    clerk'[x].at \in {"made", "found", "erased"} => clerk'[x].item # clerk'[o].item
    <3>1. o # h /\ clerk'[o] = clerk[o] /\ clerk[o].at = "made"
      BY <1>2, <2>3
    <3>2. /\ \A r \in tracks : r.item # clerk[o].item
          /\ \A x \in Clerks \ {o} :
               clerk[x].at \in {"made", "found", "erased"} => clerk[x].item # clerk[o].item
      BY <3>1 DEF TrackInv, ItemsFit
    <3> QED
      BY <1>1, <1>2, <3>1, <3>2
  <2> QED
    BY <1>1, <1>4, <2>1, <2>2, <2>3 DEF ItemsFit, ItsItem
<1>9. \A m, j : (Opening(m, j)' <=> Opening(m, j)) /\ (Merging(m, j)' <=> Merging(m, j))
  BY <1>1 DEF Opening, Merging, Upserts
<1>10. OnlyHeard'
  <2>1. \A m : RowsOf(m) = {} => RowsOf(m)' = {}
    BY <1>4
  <2> QED
    BY <1>1, <1>4, <1>7, <1>9, <2>1 DEF TrackInv, OnlyHeard
<1>11. ASSUME NEW m, OneOf(m) PROVE OneOf(m)'
  <2>1. \A r, q \in RowsOf(m)' : r = q
    BY <1>4, <1>11 DEF OneOf
  <2>2. RowsOf(m) = {} => RowsOf(m)' = {}
    BY <1>4
  <2> QED
    BY <1>4, <1>7, <1>11, <2>1, <2>2 DEF OneOf
<1>12. ASSUME NEW m \in Pulls, Settled(m)' PROVE OneOf(m)' /\ Shown(m)'
  <2>1. OneOf(m) /\ Shown(m)
    BY <1>1, <1>12 DEF TrackInv, Settled
  <2>2. ASSUME NEW r \in RowsOf(m)'
        PROVE  trackItems[r.item].there \/ \E o \in Clerks : Has(o, m, {"erased"})' /\ clerk'[o].item = r.item
    <3>1. trackItems[r.item].there \/ \E o \in Clerks : Has(o, m, {"erased"}) /\ clerk[o].item = r.item
      BY <1>4, <2>1, <2>2 DEF Shown
    <3>2. ASSUME NEW o \in Clerks, Has(o, m, {"erased"}), clerk[o].item = r.item PROVE o # h
      <4>1. CASE m = n
        BY <1>0, <1>4, <2>2, <3>2, <4>1
      <4>2. CASE m # n
        BY <1>7, <3>2, <4>2
      <4> QED
        BY <4>1, <4>2
    <3> QED
      BY <1>7, <3>1, <3>2
  <2>3. ASSUME NEW i \in DOMAIN trackItems, trackItems[i].pull = m, trackItems[i].there
        PROVE  \/ [pull |-> m, item |-> i] \in tracks'
               \/ \E o \in Clerks : Has(o, m, {"made"})' /\ clerk'[o].item = i
    <3>1. [pull |-> m, item |-> i] # row
      <4>1. m = n => ~trackItems[it].there
        BY <1>0, <1>6, <2>1 DEF Shown
      <4>2. CASE m = n
        <5>1. i # it
          BY <2>3, <4>1, <4>2
        <5> QED
          BY <5>1
      <4>3. CASE m # n
        BY <4>3
      <4> QED
        BY <4>2, <4>3
    <3>2. \/ [pull |-> m, item |-> i] \in tracks
          \/ \E o \in Clerks : Has(o, m, {"made"}) /\ clerk[o].item = i
      BY <2>1, <2>3 DEF Shown
    <3> QED
      BY <1>1, <1>7, <3>1, <3>2
  <2>4. Shown(m)'
    BY <1>1, <1>4, <1>7, <2>1, <2>2, <2>3 DEF Shown
  <2> QED
    BY <1>11, <2>1, <2>4
<1>13. SteadyHolds'
  <2> SUFFICES ASSUME Steady', NEW m \in Pulls
               PROVE  /\ OneOf(m)'
                      /\ openPulls[m] = "merged" => MergeTold(m)'
                      /\ openPulls[m] # "merged" /\ m \in heardOpen
                           /\ trackLeft.refusals = trackRegime.budget.refusals => OpenTold(m)'
    BY <1>1, <1>4 DEF SteadyHolds
  <2>1. Steady
    BY <1>1, <1>4 DEF Steady
  <2>2. /\ OneOf(m)
        /\ openPulls[m] = "merged" => MergeTold(m)
        /\ openPulls[m] # "merged" /\ m \in heardOpen /\ trackLeft.refusals = trackRegime.budget.refusals => OpenTold(m)
    BY <2>1 DEF TrackInv, SteadyHolds
  <2>3. openPulls[m] # "merged" => m # n
    BY <1>6 DEF TrackInv, OnlyHeard
  <2>4. MergeTold(m) => MergeTold(m)'
    <3>1. ASSUME NEW r \in RowsOf(m)', NEW o \in Clerks, Has(o, m, {"found", "erased"}), clerk[o].item = r.item
          PROVE  Has(o, m, {"found", "erased"})' /\ clerk'[o].item = r.item
      <4>1. CASE m = n
        <5>1. o # h
          BY <1>0, <1>4, <3>1, <4>1
        <5> QED
          BY <1>7, <3>1, <5>1
      <4>2. CASE m # n
        BY <1>7, <3>1, <4>2
      <4> QED
        BY <4>1, <4>2
    <3> QED
      BY <1>1, <1>4, <1>7, <1>9, <3>1 DEF MergeTold
  <2>5. OpenTold(m) /\ m # n => OpenTold(m)'
    BY <1>1, <1>4, <1>7, <1>9 DEF OpenTold
  <2> QED
    BY <1>11, <2>2, <2>3, <2>4, <2>5
<1> QED
  BY <1>4, <1>5, <1>8, <1>10, <1>12, <1>13 DEF TrackInv

(* A handler stops: what it had made or erased is no longer answered for. *)
LEMMA ClerkStopsKeep == ASSUME TrackInv, NEW h \in Clerks, ClerkStops(h) PROVE TrackInv'
<1>1. /\ UNCHANGED <<trackRegime, openPulls, letters, tracks, trackItems, heardOpen, crossing>>
      /\ TrackTyped /\ SpendsTrack("stops") /\ clerk' = [clerk EXCEPT ![h] = NoLetter]
      /\ adrift' = IF clerk[h].at \in {"made", "erased"} THEN adrift \cup {clerk[h].pull} ELSE adrift
  BY DEF ClerkStops, AtPlaky, TrackInv
<1>2. /\ clerk' \in [Clerks -> {NoLetter} \cup AtWorkOn] /\ clerk'[h].at = "idle"
      /\ \A o \in Clerks : o # h => clerk'[o] = clerk[o]
  BY <1>1, ClerkMoves DEF NoLetter
<1>3. /\ trackLeft' \in TrackBudget
      /\ \A w \in {"repeats", "refusals", "stops"} : trackLeft'[w] <= trackRegime.budget[w]
      /\ trackLeft'.stops # trackRegime.budget.stops
  BY <1>1, TrackSpends
<1>4. Pulls' = Pulls /\ Clerks' = Clerks /\ \A m : RowsOf(m)' = RowsOf(m)
  BY <1>1 DEF Pulls, Clerks, RowsOf
<1>5. TrackTyped'
  BY <1>1, <1>2, <1>3, <1>4 DEF TrackTyped, AtWorkOn, TrackBudget, Letter
<1>6. ASSUME NEW o \in Clerks, NEW m
      PROVE  /\ Has(o, m, {"absent", "made"})' => Has(o, m, {"absent", "made"})
             /\ Has(o, m, {"found", "erased"})' => Has(o, m, {"found", "erased"})
             /\ Has(o, m, {"made"})' => Has(o, m, {"made"}) /\ o # h
             /\ Has(o, m, {"erased"})' => Has(o, m, {"erased"}) /\ o # h
             /\ o # h => /\ clerk'[o].item = clerk[o].item
                         /\ Has(o, m, {"made"})' <=> Has(o, m, {"made"})
                         /\ Has(o, m, {"erased"})' <=> Has(o, m, {"erased"})
  BY <1>2 DEF Has
<1>7. ItemsFit'
  BY <1>1, <1>2, <1>4 DEF TrackInv, ItemsFit, ItsItem
<1>8. OnlyHeard'
  <2>1. \A m, j : (Opening(m, j)' <=> Opening(m, j)) /\ (Merging(m, j)' <=> Merging(m, j))
    BY <1>1 DEF Opening, Merging, Upserts
  <2> QED
    BY <1>1, <1>4, <1>6, <2>1 DEF TrackInv, OnlyHeard
<1>9. ASSUME NEW m \in Pulls, Settled(m)' PROVE OneOf(m)' /\ Shown(m)'
  <2>1. OneOf(m) /\ Shown(m)
    BY <1>1, <1>9 DEF TrackInv, Settled
  <2>2. ~Has(h, m, {"made"}) /\ ~Has(h, m, {"erased"})
    BY <1>1, <1>9 DEF Has, Settled
  <2>3. OneOf(m)'
    BY <1>4, <1>6, <2>1 DEF OneOf
  <2>4. Shown(m)'
    BY <1>1, <1>4, <1>6, <2>1, <2>2 DEF Shown
  <2> QED
    BY <2>3, <2>4
<1>10. ~Steady'
  BY <1>1, <1>3 DEF Steady
<1> QED
  BY <1>4, <1>5, <1>7, <1>8, <1>9, <1>10 DEF TrackInv, SteadyHolds

LEMMA TrackKept == ASSUME TrackInv, TrackNext \/ UNCHANGED trackVars PROVE TrackInv'
<1>1. CASE UNCHANGED trackVars
  <2>1. /\ UNCHANGED <<trackRegime, trackLeft, openPulls, letters, tracks, trackItems, clerk>>
        /\ UNCHANGED <<heardOpen, crossing, adrift>>
    BY <1>1 DEF trackVars
  <2>2. /\ Pulls' = Pulls /\ Clerks' = Clerks /\ \A m : RowsOf(m)' = RowsOf(m)
        /\ ItemsFit' /\ \A m : (OneOf(m) => OneOf(m)') /\ (Shown(m) => Shown(m)')
    BY <2>1, RowsStay DEF Pulls, Clerks, TrackInv
  <2>3. /\ \A m, j : (Opening(m, j)' <=> Opening(m, j)) /\ (Merging(m, j)' <=> Merging(m, j))
        /\ \A o, m, where : Has(o, m, where)' <=> Has(o, m, where)
    BY <2>1 DEF Opening, Merging, Upserts, Has
  <2>4. TrackTyped'
    BY <2>1, <2>2 DEF TrackInv, TrackTyped, AtWorkOn, TrackBudget, Letter
  <2>5. OnlyHeard'
    BY <2>1, <2>2, <2>3 DEF TrackInv, OnlyHeard
  <2>6. \A m : (MergeTold(m) => MergeTold(m)') /\ (OpenTold(m) => OpenTold(m)')
    BY <2>1, <2>2, <2>3 DEF MergeTold, OpenTold
  <2>7. SteadyHolds'
    <3>1. Steady' <=> Steady
      BY <2>1, <2>2 DEF Steady
    <3> QED
      BY <2>1, <2>2, <2>6, <3>1 DEF TrackInv, SteadyHolds
  <2>8. \A m \in Pulls : Settled(m)' => OneOf(m)' /\ Shown(m)'
    BY <2>1, <2>2 DEF TrackInv, Settled
  <2> QED
    BY <2>2, <2>4, <2>5, <2>7, <2>8 DEF TrackInv
<1>2. CASE TrackNext
  <2>1. CASE \E n \in trackRegime.pulls : TrackedChange(n)
    BY <2>1, ChangesKeep DEF Pulls
  <2>2. CASE \E h \in Clerks : \E i \in DOMAIN letters : TakesLetter(h, i)
    BY <2>2, LettersKeep
  <2>3. CASE \E h \in Clerks :
               CreatesItem(h) \/ RecordsTrack(h) \/ ErasesItem(h) \/ StrikesTrack(h) \/ ClerkStops(h)
    BY <2>3, CreatesKeep, RecordsKeep, ErasesKeep, StrikesKeep, ClerkStopsKeep
  <2> QED
    BY <1>2, <2>1, <2>2, <2>3 DEF TrackNext
<1> QED
  BY <1>1, <1>2

LEMMA TrackSays == TrackInv => TrackingIsTrue
<1> SUFFICES ASSUME TrackInv PROVE TrackingIsTrue
  OBVIOUS
<1>1. RowsAreShown
  <2> SUFFICES ASSUME NEW n \in Pulls, Settled(n)
               PROVE  /\ Cardinality(RowsOf(n)) <= 1
                      /\ \A r \in RowsOf(n) : trackItems[r.item].there \/ InHand(n, {"erased"})
                      /\ \A i \in DOMAIN trackItems :
                           trackItems[i].pull = n /\ trackItems[i].there =>
                             [pull |-> n, item |-> i] \in tracks \/ InHand(n, {"made"})
    BY DEF RowsAreShown, Pulls
  <2>1. OneOf(n) /\ Shown(n)
    BY DEF TrackInv
  <2>2. Cardinality(RowsOf(n)) <= 1
    <3>1. CASE RowsOf(n) = {}
      BY <3>1, FS_EmptySet
    <3>2. CASE RowsOf(n) # {}
      <4>1. PICK r : RowsOf(n) = {r}
        BY <2>1, <3>2 DEF OneOf
      <4> QED
        BY <4>1, FS_Singleton
    <3> QED
      BY <3>1, <3>2
  <2>3. /\ \A h \in Clerks : Has(h, n, {"erased"}) => InHand(n, {"erased"})
        /\ \A h \in Clerks : Has(h, n, {"made"}) => InHand(n, {"made"})
    BY DEF Has, InHand
  <2> QED
    BY <2>1, <2>2, <2>3 DEF Shown
<1>2. BoardIsCurrent
  <2> SUFFICES ASSUME letters = <<>>, \A h \in Clerks : clerk[h].at = "idle", Steady, NEW n \in Pulls
               PROVE  /\ openPulls[n] = "merged" \/ n \notin heardOpen => RowsOf(n) = {}
                      /\ openPulls[n] = "open" /\ n \in heardOpen
                           /\ trackLeft.refusals = trackRegime.budget.refusals => RowsOf(n) # {}
    BY DEF BoardIsCurrent, Steady, Pulls
  <2>1. DOMAIN letters = {} /\ \A h \in Clerks : \A where : "idle" \notin where => ~Has(h, n, where)
    BY DEF Has
  <2>2. /\ openPulls[n] = "merged" => MergeTold(n)
        /\ openPulls[n] # "merged" /\ n \in heardOpen /\ trackLeft.refusals = trackRegime.budget.refusals => OpenTold(n)
        /\ n \notin heardOpen => RowsOf(n) = {}
    BY DEF TrackInv, SteadyHolds, OnlyHeard
  <2>3. \A h \in Clerks : ~Has(h, n, {"found", "erased"}) /\ ~Has(h, n, {"absent", "made"})
    BY <2>1
  <2>4. openPulls[n] = "merged" => RowsOf(n) = {}
    BY <2>1, <2>2, <2>3 DEF MergeTold
  <2>5. OpenTold(n) => RowsOf(n) # {}
    BY <2>1, <2>3 DEF OpenTold
  <2> QED
    BY <2>2, <2>4, <2>5
<1> QED
  BY <1>1, <1>2 DEF TrackingIsTrue

-----------------------------------------------------------------------------
(***************************************************************************)
(* Whatever is repeated, refused, unanswered or stopped on the way: a card  *)
(* has every comment once, a card of the archive is on its own board or on  *)
(* the archive's and goes when it is due (pr_task_lifecycle.py), and rows   *)
(* and items of the board of open pull requests belong together             *)
(* (comment_dedupe.py, pr_tracker.py), but for what the properties name.    *)
(***************************************************************************)
THEOREM CardsStayKept == ActivitySpec => []CardsAreKept
<1> DEFINE CardInv == ArchInv /\ MirrorInv /\ TrackInv
<1>1. ActivityInit => CardInv
  BY ArchStarts, MirrorStarts, TrackStarts DEF ActivityInit
<1>2. CardInv /\ [ActivityNext]_<<atWork, reviewVars, feedVars, mirrorVars, eventVars,
                                  commitVars, archVars, trackVars>> => CardInv'
  <2> SUFFICES ASSUME CardInv, [ActivityNext]_<<atWork, reviewVars, feedVars, mirrorVars, eventVars,
                                                commitVars, archVars, trackVars>>
               PROVE  CardInv'
    OBVIOUS
  <2>1. /\ ArchNext \/ UNCHANGED archVars
        /\ MirrorNext \/ UNCHANGED mirrorVars
        /\ TrackNext \/ UNCHANGED trackVars
    BY DEF ActivityNext
  <2> QED
    BY <2>1, ArchKept, MirrorKept, TrackKept
<1>3. CardInv => CardsAreKept
  BY ArchSays, MirrorSays, TrackSays DEF CardsAreKept
<1>4. QED
  BY <1>1, <1>2, <1>3, PTL DEF ActivitySpec
=============================================================================
