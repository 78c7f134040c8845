--------------------------- MODULE IssueSyncProofs ---------------------------
(***************************************************************************)
(* Safety of the issue handlers for every set of accounts and handlers,    *)
(* every regime and every bound: an issue gets one card, and ownership     *)
(* never takes a card back.  The invariant IInv counts the cards: one for  *)
(* each interrupted creation, and one more once a handler has created the  *)
(* card it is about to commit.                                             *)
(***************************************************************************)
EXTENDS IssueSync, FiniteSetTheorems, WellFoundedInduction, TLAPS

Creating(h) == task[h].pc \in {"create", "finish"}

OneCreates == \A g, h \in Handlers : Creating(g) /\ Creating(h) => g = h

NoCardYet == \A h \in Handlers : Creating(h) => ~mapped

Counted ==
  cards = mishaps + (IF mapped \/ \E h \in Handlers : At(h, "finish") THEN 1 ELSE 0)

IInv == TypeOK /\ OneCreates /\ NoCardYet /\ Counted

-----------------------------------------------------------------------------
LEMMA RegimeIsTyped ==
  ASSUME TypeOK
  PROVE  /\ regime \in Regime
         /\ regime.handlers \subseteq Handlers
         /\ regime.people \subseteq Logins
         /\ regime.budget \in Budget
BY IssueAssumption DEF TypeOK, Regime

LEMMA InitEstablishes == Init => IInv
PROOF
<1> SUFFICES ASSUME Init PROVE IInv
  OBVIOUS
<1>1. regime.budget \in Budget
  BY IssueAssumption DEF Init, Regime
<1>2. TypeOK
  <2>1. inbox \in Seq(Snapshot) /\ log \in Seq(Row)
    BY DEF Init
  <2>2. Idle \in [pc : PCs, msg : Snapshot, saw : Look]
    BY DEF Idle, PCs, Snapshot, Look, Kinds, People
  <2>3. QED
    BY <1>1, <2>1, <2>2 DEF Init, TypeOK, Unseen, People, Places
<1>3. OneCreates /\ NoCardYet /\ Counted
  BY DEF Init, OneCreates, NoCardYet, Counted, Creating, At, Idle
<1>4. QED
  BY <1>2, <1>3 DEF IInv

-----------------------------------------------------------------------------
(* What the helpers return. *)
LEMMA SpendIsTyped ==
  ASSUME TypeOK, NEW what \in {"changes", "lost", "again", "refused", "blind", "crashes", "moves"},
         Spend(what)
  PROVE  budget' \in Budget
BY SMTT(30) DEF TypeOK, Spend, Budget

LEMMA RestIsTyped ==
  ASSUME TypeOK, NEW i \in DOMAIN inbox
  PROVE  Rest(i) \in Seq(Snapshot)
PROOF
<1>1. inbox \in Seq(Snapshot) /\ i \in 1 .. Len(inbox)
  BY DEF TypeOK
<1>2. \A j \in 1 .. Len(inbox) - 1 :
        (IF j < i THEN inbox[j] ELSE inbox[j + 1]) \in Snapshot
  BY <1>1
<1>3. QED
  BY <1>1, <1>2 DEF Rest

LEMMA ResumeIsTyped ==
  ASSUME TypeOK
  PROVE  PreCloseStatus(log) \in Places \cup {NoPlace}
PROOF
<1>1. ASSUME NEW rows, rows \subseteq DOMAIN log
      PROVE  PlaceOfNewest(log, rows) \in Places \cup {NoPlace}
  <2>1. \A i \in DOMAIN log : log[i].place \in Places \cup {NoPlace}
    <3>1. log \in Seq(Row)
      BY DEF TypeOK
    <3>2. \A i \in DOMAIN log : log[i] \in Row
      BY <3>1
    <3>3. QED
      BY <3>2 DEF Row
  <2>2. QED
    BY <1>1, <2>1 DEF PlaceOfNewest
<1>2. QED
  BY <1>1 DEF PreCloseStatus, Closes

LEMMA LogIsTyped ==
  ASSUME TypeOK, NEW place \in Places \cup {NoPlace}
  PROVE  WithClose(log, place) \in Seq(Row) /\ WithReopen(log) \in Seq(Row)
PROOF
<1>1. log \in Seq(Row)
  BY DEF TypeOK
<1>2. \A kind \in {"issue_closed", "issue_reopened"}, p \in Places \cup {NoPlace} :
        [kind |-> kind, place |-> p] \in Row
  BY DEF Row
<1>3. WithClose(log, place) \in Seq(Row)
  BY <1>1, <1>2 DEF WithClose
<1>4. WithReopen(log) \in Seq(Row)
  BY <1>1, <1>2 DEF WithReopen
<1>5. QED
  BY <1>3, <1>4

LEMMA IntentIsAPlace ==
  ASSUME NEW m, NEW who
  PROVE  /\ StatusIntent(m, who) \in Places
         /\ m.open => StatusIntent(m, who) \in AboutOwnership
BY DEF StatusIntent, Places, AboutOwnership

LEMMA EngineerIsEligible ==
  ASSUME NEW login
  PROVE  Engineer(login) \in Eligible \cup {Nobody}
BY DEF Engineer

-----------------------------------------------------------------------------
(* Steps that touch neither a creation nor the mapping. *)
LEMMA CountStands ==
  ASSUME IInv, UNCHANGED <<task, mapped, cards, mishaps>>
  PROVE  OneCreates' /\ NoCardYet' /\ Counted'
BY DEF IInv, OneCreates, NoCardYet, Counted, Creating, At

LEMMA SendPreserves ==
  ASSUME IInv, NEW kind \in Kinds, Send(kind),
         issue' \in [exists : BOOLEAN, open : BOOLEAN, owner : People]
  PROVE  IInv'
PROOF
<1>1. budget' \in Budget
  BY SpendIsTyped DEF IInv, Send
<1>2. inbox' \in Seq(Snapshot)
  <2>1. Message(kind) \in Snapshot
    BY DEF Message, Snapshot
  <2>2. QED
    BY <2>1 DEF IInv, TypeOK, Send
<1>3. TypeOK'
  BY <1>1, <1>2 DEF IInv, TypeOK, Send, service
<1>4. QED
  BY <1>3, CountStands DEF IInv, Send, service

LEMMA GitHubStepPreserves == ASSUME IInv, GitHubStep PROVE IInv'
PROOF
<1> DEFINE Issues == [exists : BOOLEAN, open : BOOLEAN, owner : People]
<1>1. issue \in Issues /\ regime.people \subseteq People
  BY RegimeIsTyped DEF IInv, TypeOK, People
<1>2. ASSUME NEW l \in regime.people \cup {Nobody}, Raise(l) PROVE IInv'
  <2>1. issue' \in Issues
    BY <1>1, <1>2 DEF Raise, People
  <2>2. QED
    BY <1>2, <2>1, SendPreserves DEF Raise, Kinds
<1>3. ASSUME NEW l \in regime.people, Assign(l) PROVE IInv'
  <2>1. issue' \in Issues
    BY <1>1, <1>3 DEF Assign
  <2>2. QED
    BY <1>3, <2>1, SendPreserves DEF Assign, Kinds
<1>4. CASE Unassign
  <2>1. issue' \in Issues
    BY <1>1, <1>4 DEF Unassign, People
  <2>2. QED
    BY <1>4, <2>1, SendPreserves DEF Unassign, Kinds
<1>5. CASE Relabel
  <2>1. issue' \in Issues
    BY <1>1, <1>5 DEF Relabel
  <2>2. QED
    BY <1>5, <2>1, SendPreserves DEF Relabel, Kinds
<1>6. CASE Close
  <2>1. issue' \in Issues
    BY <1>1, <1>6 DEF Close
  <2>2. QED
    BY <1>6, <2>1, SendPreserves DEF Close, Kinds
<1>7. CASE Reopen
  <2>1. issue' \in Issues
    BY <1>1, <1>7 DEF Reopen
  <2>2. QED
    BY <1>7, <2>1, SendPreserves DEF Reopen, Kinds
<1>8. QED
  BY <1>2, <1>3, <1>4, <1>5, <1>6, <1>7 DEF GitHubStep

LEMMA DeliveryPreserves ==
  ASSUME IInv, NEW i \in DOMAIN inbox, Lose(i) \/ Redeliver(i)
  PROVE  IInv'
PROOF
<1>1. budget' \in Budget
  BY SpendIsTyped DEF IInv, Lose, Redeliver
<1>2. inbox' \in Seq(Snapshot)
  <2>1. inbox \in Seq(Snapshot) /\ i \in 1 .. Len(inbox)
    BY DEF IInv, TypeOK
  <2>2. SubSeq(inbox, 1, i) \in Seq(Snapshot) /\ SubSeq(inbox, i, Len(inbox)) \in Seq(Snapshot)
    BY <2>1
  <2>3. CASE Lose(i)
    BY <2>3, RestIsTyped DEF IInv, Lose
  <2>4. CASE Redeliver(i)
    BY <2>2, <2>4 DEF Redeliver
  <2>5. QED
    BY <2>3, <2>4
<1>3. TypeOK'
  BY <1>1, <1>2 DEF IInv, TypeOK, Lose, Redeliver, service
<1>4. QED
  BY <1>3, CountStands DEF IInv, Lose, Redeliver, service

LEMMA MoveCardPreserves ==
  ASSUME IInv, NEW place \in {"in_progress", "in_qa", "completed"}, MoveCard(place)
  PROVE  IInv'
PROOF
<1>1. budget' \in Budget
  BY SpendIsTyped DEF IInv, MoveCard
<1>2. card' \in [place : Places, who : People] /\ card'.who = card.who
  BY DEF IInv, TypeOK, MoveCard, Places
<1>3. TypeOK'
  BY <1>1, <1>2 DEF IInv, TypeOK, MoveCard
<1>4. QED
  BY <1>3, CountStands DEF IInv, MoveCard

(* A restart ends the one creation there may be, and counts it if its card is made. *)
LEMMA RestartPreserves == ASSUME IInv, Restart PROVE IInv'
PROOF
<1> DEFINE finishing == {h \in Handlers : At(h, "finish")}
<1>1. Idle \in [pc : PCs, msg : Snapshot, saw : Look]
  BY DEF Idle, PCs, Snapshot, Look, Kinds, People
<1>2. \/ finishing = {}
      \/ ~mapped /\ \E h \in Handlers : finishing = {h}
  BY DEF IInv, OneCreates, NoCardYet, Creating, At
<1>3. Cardinality(finishing) = IF \E h \in Handlers : At(h, "finish") THEN 1 ELSE 0
  BY <1>2, FS_EmptySet, FS_Singleton
<1>4. mishaps' = mishaps + Cardinality(finishing) /\ mishaps' \in Nat
  BY <1>3 DEF IInv, TypeOK, Restart
<1>5. TypeOK'
  <2>1. budget' \in Budget
    BY SpendIsTyped DEF IInv, Restart
  <2>2. seen' \in [known : BOOLEAN, open : BOOLEAN, owner : People]
    BY DEF Restart, Unseen, People
  <2>3. task' \in [Handlers -> [pc : PCs, msg : Snapshot, saw : Look]]
    BY <1>1 DEF Restart
  <2>4. QED
    BY <1>4, <2>1, <2>2, <2>3 DEF IInv, TypeOK, Restart
<1>6. \A h \in Handlers : ~Creating(h)' /\ ~At(h, "finish")'
  BY DEF Restart, Creating, At, Idle
<1>7. Counted'
  BY <1>2, <1>3, <1>4, <1>6 DEF IInv, TypeOK, Counted, Restart
<1>8. QED
  BY <1>5, <1>6, <1>7 DEF IInv, OneCreates, NoCardYet

-----------------------------------------------------------------------------
(* A handler that creates nothing, before and after its step. *)
LEMMA BystanderKeepsCount ==
  ASSUME IInv, NEW h \in Handlers, ~Creating(h), ~Creating(h)',
         \A g \in Handlers \ {h} : task'[g] = task[g],
         UNCHANGED <<mapped, cards, mishaps>>
  PROVE  OneCreates' /\ NoCardYet' /\ Counted'
PROOF
<1>1. \A g \in Handlers : Creating(g)' <=> Creating(g)
  BY DEF Creating
<1>2. \A g \in Handlers : At(g, "finish")' <=> At(g, "finish")
  BY DEF Creating, At
<1>3. QED
  BY <1>1, <1>2 DEF IInv, OneCreates, NoCardYet, Counted

LEMMA StartIsTyped ==
  ASSUME TypeOK, NEW h \in Handlers, NEW m \in Snapshot, NEW saw \in Look, Start(h, m, saw)
  PROVE  /\ task' \in [Handlers -> [pc : PCs, msg : Snapshot, saw : Look]]
         /\ \A g \in Handlers \ {h} : task'[g] = task[g]
         /\ ~Creating(h)'
PROOF
<1> DEFINE Tasks == [pc : PCs, msg : Snapshot, saw : Look]
           started == IF mapped THEN [pc |-> "write", msg |-> m, saw |-> saw]
                      ELSE IF m.kind = "opened" THEN [Idle EXCEPT !.pc = "reserve", !.msg = m]
                      ELSE Idle
<1>1. started \in Tasks /\ started.pc \in {"write", "reserve", "idle"}
  BY DEF Idle, PCs, Snapshot, Look, Kinds, People
<1>2. task' = [task EXCEPT ![h] = started]
  BY DEF Start
<1>3. task \in [Handlers -> Tasks]
  BY DEF TypeOK
<1> HIDE DEF started, Tasks
<1>4. task'[h] = started /\ task' \in [Handlers -> Tasks]
      /\ \A g \in Handlers \ {h} : task'[g] = task[g]
  BY <1>1, <1>2, <1>3
<1>5. ~Creating(h)'
  BY <1>1, <1>4 DEF Creating
<1>6. QED
  BY <1>4, <1>5 DEF Tasks

LEMMA BeginPreserves ==
  ASSUME IInv, NEW h \in Handlers, NEW m \in Snapshot, Begin(h, m),
         inbox' \in Seq(Snapshot),
         seen' \in [known : BOOLEAN, open : BOOLEAN, owner : People]
  PROVE  IInv'
PROOF
<1> DEFINE resume == IF m.kind = "reopened" /\ m.owner # Nobody THEN PreCloseStatus(log)
                     ELSE NoPlace
           read   == [place |-> card.place, who |-> card.who, resume |-> resume]
           unread == [place |-> Unreadable, who |-> Nobody, resume |-> resume]
<1>1. resume \in Places \cup {NoPlace}
  BY ResumeIsTyped DEF IInv
<1>2. read \in Look /\ unread \in Look
  BY <1>1 DEF IInv, TypeOK, Look, People
<1>3. \/ Start(h, m, read) /\ UNCHANGED budget
      \/ Start(h, m, unread) /\ Spend("blind")
  BY DEF Begin
<1> HIDE DEF resume, read, unread
<1>4. /\ task' \in [Handlers -> [pc : PCs, msg : Snapshot, saw : Look]]
      /\ \A g \in Handlers \ {h} : task'[g] = task[g]
      /\ ~Creating(h)'
  BY <1>2, <1>3, StartIsTyped DEF IInv
<1>5. budget' \in Budget
  BY <1>3, SpendIsTyped DEF IInv, TypeOK
<1>6. TypeOK'
  BY <1>4, <1>5 DEF IInv, TypeOK, Begin
<1>7. ~Creating(h)
  BY DEF Begin, Creating
<1>8. QED
  BY <1>4, <1>6, <1>7, BystanderKeepsCount DEF IInv, Begin

LEMMA LookPreserves ==
  ASSUME IInv, NEW h \in Handlers,
         (\E i \in DOMAIN inbox : Receive(h, i)) \/ Sweep(h) \/ Poll(h)
  PROVE  IInv'
PROOF
<1>1. /\ inbox \in Seq(Snapshot)
      /\ seen \in [known : BOOLEAN, open : BOOLEAN, owner : People]
      /\ issue \in [exists : BOOLEAN, open : BOOLEAN, owner : People]
  BY DEF IInv, TypeOK
<1>2. ASSUME NEW kind \in Kinds PROVE Current(kind) \in Snapshot
  BY <1>1 DEF Current, Snapshot
<1>3. ASSUME NEW i \in DOMAIN inbox, Receive(h, i) PROVE IInv'
  <2>1. inbox[i] \in Snapshot
    BY <1>1
  <2>2. inbox' \in Seq(Snapshot)
    BY <1>3, RestIsTyped DEF IInv, Receive
  <2>3. QED
    BY <1>1, <1>3, <2>1, <2>2, BeginPreserves DEF Receive
<1>4. CASE Sweep(h)
  <2>1. \E kind \in Kinds : Begin(h, Current(kind))
    BY <1>4 DEF Sweep, Kinds
  <2>2. QED
    BY <1>1, <1>2, <1>4, <2>1, BeginPreserves DEF Sweep
<1>5. CASE Poll(h)
  <2>1. News \in Kinds
    BY DEF News, Kinds
  <2>2. seen' \in [known : BOOLEAN, open : BOOLEAN, owner : People]
    BY <1>1, <1>5 DEF Poll
  <2>3. QED
    BY <1>1, <1>2, <1>5, <2>1, <2>2, BeginPreserves DEF Poll
<1>6. QED
  BY <1>3, <1>4, <1>5

-----------------------------------------------------------------------------
(* Creating the card. *)
LEMMA GoIsTyped ==
  ASSUME TypeOK, NEW h \in Handlers,
         Done(h) \/ (\E pc \in PCs : Go(h, pc))
  PROVE  /\ task' \in [Handlers -> [pc : PCs, msg : Snapshot, saw : Look]]
         /\ \A g \in Handlers \ {h} : task'[g] = task[g]
PROOF
<1>1. Idle \in [pc : PCs, msg : Snapshot, saw : Look]
  BY DEF Idle, PCs, Snapshot, Look, Kinds, People
<1>2. task \in [Handlers -> [pc : PCs, msg : Snapshot, saw : Look]]
  BY DEF TypeOK
<1>3. QED
  BY <1>1, <1>2 DEF Done, Go

LEMMA WhereItGoes ==
  ASSUME TypeOK, NEW h \in Handlers
  PROVE  /\ Done(h) => task'[h] = Idle /\ task'[h].pc = "idle"
         /\ \A pc \in PCs : Go(h, pc) => task'[h].pc = pc
PROOF
<1>1. task \in [Handlers -> [pc : PCs, msg : Snapshot, saw : Look]]
  BY DEF TypeOK
<1>2. Done(h) => task'[h] = Idle
  BY <1>1 DEF Done
<1>3. ASSUME NEW pc \in PCs, Go(h, pc) PROVE task'[h].pc = pc
  <2>1. task' = [task EXCEPT ![h] = [task[h] EXCEPT !.pc = pc]]
    BY <1>3 DEF Go
  <2>2. task[h] \in [pc : PCs, msg : Snapshot, saw : Look]
    BY <1>1
  <2>3. QED
    BY <1>1, <2>1, <2>2
<1>4. QED
  BY <1>2, <1>3 DEF Idle

LEMMA ReservePreserves ==
  ASSUME IInv, NEW h \in Handlers, Reserve(h) PROVE IInv'
PROOF
<1>1. Done(h) \/ Go(h, "create")
  BY DEF Reserve
<1>2. /\ task' \in [Handlers -> [pc : PCs, msg : Snapshot, saw : Look]]
      /\ \A g \in Handlers \ {h} : task'[g] = task[g]
      /\ task'[h].pc \in {"idle", "create"}
  BY <1>1, GoIsTyped, WhereItGoes DEF IInv, PCs
<1>3. TypeOK'
  BY <1>2 DEF IInv, TypeOK, Reserve
<1>4. \A g \in Handlers : ~Creating(g)
  BY DEF Reserve, Creating
<1>5. \A g \in Handlers : (Creating(g)' => g = h) /\ ~At(g, "finish") /\ ~At(g, "finish")'
  BY <1>2, <1>4 DEF Creating, At
<1>6. Creating(h)' => ~mapped
  BY WhereItGoes DEF IInv, Reserve, Creating
<1>7. QED
  BY <1>3, <1>5, <1>6 DEF IInv, OneCreates, NoCardYet, Counted, Reserve

LEMMA CreateTaskPreserves ==
  ASSUME IInv, NEW h \in Handlers, CreateTask(h) PROVE IInv'
PROOF
<1>1. /\ task' \in [Handlers -> [pc : PCs, msg : Snapshot, saw : Look]]
      /\ \A g \in Handlers \ {h} : task'[g] = task[g]
      /\ task'[h].pc = "finish"
  BY GoIsTyped, WhereItGoes DEF IInv, PCs, CreateTask
<1>2. TypeOK'
  BY <1>1 DEF IInv, TypeOK, CreateTask
<1>3. Creating(h) /\ ~At(h, "finish") /\ ~mapped
  BY DEF IInv, NoCardYet, CreateTask, At, Creating
<1>4. \A g \in Handlers : Creating(g) => g = h
  BY <1>3 DEF IInv, OneCreates
<1>5. \A g \in Handlers : ~At(g, "finish")
  BY <1>3, <1>4 DEF Creating, At
<1>6. \A g \in Handlers : Creating(g)' => g = h
  BY <1>1, <1>4 DEF Creating
<1>7. At(h, "finish")'
  BY <1>1 DEF At
<1>8. Counted'
  BY <1>3, <1>5, <1>7 DEF IInv, TypeOK, Counted, CreateTask
<1>9. QED
  BY <1>2, <1>3, <1>6, <1>8 DEF IInv, OneCreates, NoCardYet, CreateTask

LEMMA CreateFailsPreserves ==
  ASSUME IInv, NEW h \in Handlers, CreateFails(h) PROVE IInv'
PROOF
<1>1. /\ task' \in [Handlers -> [pc : PCs, msg : Snapshot, saw : Look]]
      /\ \A g \in Handlers \ {h} : task'[g] = task[g]
      /\ task'[h].pc = "idle"
  BY GoIsTyped, WhereItGoes DEF IInv, CreateFails
<1>2. TypeOK'
  <2>1. budget' \in Budget
    BY SpendIsTyped DEF IInv, CreateFails
  <2>2. QED
    BY <1>1, <2>1 DEF IInv, TypeOK, CreateFails
<1>3. Creating(h) /\ ~At(h, "finish") /\ ~mapped
  BY DEF IInv, NoCardYet, CreateFails, At, Creating
<1>4. \A g \in Handlers : Creating(g) => g = h
  BY <1>3 DEF IInv, OneCreates
<1>5. \A g \in Handlers : ~Creating(g)' /\ ~At(g, "finish") /\ ~At(g, "finish")'
  BY <1>1, <1>3, <1>4 DEF Creating, At
<1>6. Counted'
  BY <1>3, <1>5 DEF IInv, TypeOK, Counted, CreateFails
<1>7. QED
  BY <1>2, <1>5, <1>6 DEF IInv, OneCreates, NoCardYet

LEMMA FinishOpenedPreserves ==
  ASSUME IInv, NEW h \in Handlers, FinishOpened(h) PROVE IInv'
PROOF
<1>1. /\ task' \in [Handlers -> [pc : PCs, msg : Snapshot, saw : Look]]
      /\ \A g \in Handlers \ {h} : task'[g] = task[g]
      /\ task'[h].pc = "idle"
  BY GoIsTyped, WhereItGoes DEF IInv, FinishOpened
<1>2. card' \in [place : Places, who : People] /\ card'.who \in Eligible \cup {Nobody}
  <2>1. \A m, who : StatusIntent(m, who) \in Places
    BY IntentIsAPlace
  <2>2. \A login : Engineer(login) \in Eligible \cup {Nobody}
    BY EngineerIsEligible
  <2>3. Eligible \cup {Nobody} \subseteq People
    BY IssueAssumption DEF People
  <2>4. card \in [place : Places, who : People] /\ card.who \in Eligible \cup {Nobody}
    BY DEF IInv, TypeOK
  <2>5. QED
    BY <2>1, <2>2, <2>3, <2>4 DEF FinishOpened
<1>3. budget' \in Budget /\ patchFailed' \in BOOLEAN
  BY SpendIsTyped DEF IInv, TypeOK, FinishOpened
<1>4. TypeOK'
  BY <1>1, <1>2, <1>3 DEF IInv, TypeOK, FinishOpened
<1>5. Creating(h) /\ At(h, "finish") /\ ~mapped
  BY DEF IInv, NoCardYet, FinishOpened, At, Creating
<1>6. \A g \in Handlers : Creating(g) => g = h
  BY <1>5 DEF IInv, OneCreates
<1>7. \A g \in Handlers : ~Creating(g)' /\ ~At(g, "finish")'
  BY <1>1, <1>6 DEF Creating, At
<1>8. Counted'
  BY <1>5 DEF IInv, TypeOK, Counted, FinishOpened
<1>9. QED
  BY <1>4, <1>7, <1>8 DEF IInv, OneCreates, NoCardYet

-----------------------------------------------------------------------------
(* Writing to a card there is. *)
LEMMA WriterCreatesNothing ==
  ASSUME IInv, NEW h \in Handlers, At(h, "write"), Done(h), UNCHANGED <<mapped, cards, mishaps>>
  PROVE  /\ task' \in [Handlers -> [pc : PCs, msg : Snapshot, saw : Look]]
         /\ OneCreates' /\ NoCardYet' /\ Counted'
PROOF
<1>1. /\ task' \in [Handlers -> [pc : PCs, msg : Snapshot, saw : Look]]
      /\ \A g \in Handlers \ {h} : task'[g] = task[g]
      /\ task'[h].pc = "idle"
  BY GoIsTyped, WhereItGoes DEF IInv
<1>2. ~Creating(h) /\ ~Creating(h)'
  BY <1>1 DEF Creating, At
<1>3. QED
  BY <1>1, <1>2, BystanderKeepsCount

LEMMA PatchIsTyped ==
  ASSUME TypeOK, NEW m, NEW saw
  PROVE  /\ Patched(m, saw) \in [place : Places, who : Eligible \cup {Nobody}]
         /\ \A c \in [place : Places, who : Eligible \cup {Nobody}] :
              Bumped(c) \in [place : Places, who : Eligible \cup {Nobody}]
PROOF
<1> DEFINE Cards == [place : Places, who : Eligible \cup {Nobody}]
<1>1. card \in Cards
  BY DEF TypeOK
<1>2. Stated(m, saw) # NoPlace => Stated(m, saw) \in Places
  BY IntentIsAPlace DEF Stated
<1>3. Pushes(m, saw) \in Eligible \cup {Nobody}
  BY EngineerIsEligible DEF Pushes
<1>4. Patched(m, saw) \in Cards
  BY <1>1, <1>2, <1>3 DEF Patched
<1>5. \A c \in Cards : Bumped(c) \in Cards
  BY DEF Bumped, Places
<1>6. QED
  BY <1>4, <1>5

LEMMA NoteIsTyped ==
  ASSUME TypeOK, NEW place \in Places \cup {NoPlace}, NoteCompletion(place)
  PROVE  episode' \in Places \cup {NoPlace}
BY DEF TypeOK, NoteCompletion

LEMMA HandleChangedPreserves ==
  ASSUME IInv, NEW h \in Handlers, HandleChanged(h) PROVE IInv'
PROOF
<1> DEFINE Cards  == [place : Places, who : Eligible \cup {Nobody}]
           m      == task[h].msg
           saw    == task[h].saw
           wanted == Patched(m, saw)
<1>1. card \in Cards
  BY DEF IInv, TypeOK
<1>2. wanted \in Cards /\ Bumped(wanted) \in Cards /\ Bumped(card) \in Cards
  BY <1>1, PatchIsTyped DEF IInv
<1>3. card' \in {card, wanted, Bumped(wanted), Bumped(card)}
  BY DEF HandleChanged
<1>4. card' \in Cards
  BY <1>1, <1>2, <1>3
<1>5. card' \in [place : Places, who : People] /\ card'.who \in Eligible \cup {Nobody}
  BY <1>4, IssueAssumption DEF People
<1>6. episode' \in Places \cup {NoPlace}
  BY NoteIsTyped DEF IInv, HandleChanged
<1>7. budget' \in Budget
  BY SpendIsTyped DEF IInv, TypeOK, HandleChanged
<1>8. /\ task' \in [Handlers -> [pc : PCs, msg : Snapshot, saw : Look]]
      /\ OneCreates' /\ NoCardYet' /\ Counted'
  BY WriterCreatesNothing DEF HandleChanged
<1>9. TypeOK'
  BY <1>5, <1>6, <1>7, <1>8 DEF IInv, TypeOK, HandleChanged
<1>10. QED
  BY <1>8, <1>9 DEF IInv

LEMMA HandleClosedPreserves ==
  ASSUME IInv, NEW h \in Handlers, HandleClosed(h) PROVE IInv'
PROOF
<1>1. task[h].saw \in Look /\ card \in [place : Places, who : People]
      /\ card.who \in Eligible \cup {Nobody}
  BY DEF IInv, TypeOK
<1>2. Captured(task[h].saw) \in Places \cup {NoPlace}
  BY <1>1 DEF Captured, Look
<1>3. card' = card \/ card' = [card EXCEPT !.place = "completed"]
  BY DEF HandleClosed
<1>4. card' \in [place : Places, who : People] /\ card'.who \in Eligible \cup {Nobody}
  BY <1>1, <1>3 DEF Places
<1>5. log' \in Seq(Row)
  BY <1>2, LogIsTyped DEF IInv, HandleClosed
<1>6. episode' \in Places \cup {NoPlace}
  BY <1>2, NoteIsTyped DEF IInv, HandleClosed
<1>7. budget' \in Budget
  BY SpendIsTyped DEF IInv, TypeOK, HandleClosed
<1>8. /\ task' \in [Handlers -> [pc : PCs, msg : Snapshot, saw : Look]]
      /\ OneCreates' /\ NoCardYet' /\ Counted'
  BY WriterCreatesNothing DEF HandleClosed
<1>9. TypeOK'
  BY <1>4, <1>5, <1>6, <1>7, <1>8 DEF IInv, TypeOK, HandleClosed
<1>10. QED
  BY <1>8, <1>9 DEF IInv

LEMMA HandleReopenedPreserves ==
  ASSUME IInv, NEW h \in Handlers, HandleReopened(h) PROVE IInv'
PROOF
<1> DEFINE resume == task[h].saw.resume
           ladder == IF task[h].msg.owner # Nobody THEN "assigned" ELSE "needs_assigned"
<1>1. task[h].saw \in Look /\ card \in [place : Places, who : People]
      /\ card.who \in Eligible \cup {Nobody}
  BY DEF IInv, TypeOK
<1>2. ladder \in Places /\ (resume # NoPlace => resume \in Places)
  BY <1>1 DEF Look, Places
<1>3. \/ card' = card
      \/ resume # NoPlace /\ card' = [card EXCEPT !.place = resume]
      \/ card' = [card EXCEPT !.place = ladder]
  BY DEF HandleReopened
<1>4. card' \in [place : Places, who : People] /\ card'.who \in Eligible \cup {Nobody}
  <2> HIDE DEF resume, ladder
  <2>1. QED
    BY <1>1, <1>2, <1>3
<1>5. log' \in Seq(Row)
  BY LogIsTyped DEF IInv, HandleReopened
<1>6. budget' \in Budget
  BY SpendIsTyped DEF IInv, TypeOK, HandleReopened
<1>7. /\ task' \in [Handlers -> [pc : PCs, msg : Snapshot, saw : Look]]
      /\ OneCreates' /\ NoCardYet' /\ Counted'
  BY WriterCreatesNothing DEF HandleReopened
<1>8. TypeOK'
  BY <1>4, <1>5, <1>6, <1>7 DEF IInv, TypeOK, HandleReopened
<1>9. QED
  BY <1>7, <1>8 DEF IInv

-----------------------------------------------------------------------------
LEMMA WorksPreserves ==
  ASSUME IInv, NEW h \in Handlers, Works(h) PROVE IInv'
BY ReservePreserves, CreateTaskPreserves, CreateFailsPreserves, FinishOpenedPreserves,
   HandleChangedPreserves, HandleClosedPreserves, HandleReopenedPreserves
DEF Works

LEMMA NextPreserves == IInv /\ [Next]_vars => IInv'
PROOF
<1> SUFFICES ASSUME IInv, [Next]_vars PROVE IInv'
  OBVIOUS
<1>1. regime.handlers \subseteq Handlers
  BY RegimeIsTyped DEF IInv
<1>2. CASE GitHubStep
  BY <1>2, GitHubStepPreserves
<1>3. CASE Environment
  BY <1>3, DeliveryPreserves, MoveCardPreserves, RestartPreserves DEF Environment
<1>4. ASSUME NEW h \in regime.handlers,
             (\E i \in DOMAIN inbox : Receive(h, i)) \/ Sweep(h) \/ Poll(h)
      PROVE  IInv'
  BY <1>1, <1>4, LookPreserves
<1>5. ASSUME NEW h \in regime.handlers, Works(h) PROVE IInv'
  BY <1>1, <1>5, WorksPreserves
<1>6. CASE UNCHANGED vars
  <2>1. TypeOK'
    BY <1>6 DEF IInv, TypeOK, vars
  <2>2. QED
    BY <1>6, <2>1, CountStands DEF IInv, vars
<1>7. QED
  BY <1>2, <1>3, <1>4, <1>5, <1>6 DEF Next

THEOREM Invariance == Spec => []IInv
PROOF
<1>1. Init => IInv
  BY InitEstablishes
<1>2. IInv /\ [Next]_vars => IInv'
  BY NextPreserves
<1>3. QED
  BY <1>1, <1>2, PTL DEF Spec

(***************************************************************************)
(* Whatever events arrive, and whatever fails, the card's place stays one  *)
(* of the board's and its column names a developer or nobody               *)
(* (filter_developer).                                                     *)
(***************************************************************************)
THEOREM TypeCorrect == Spec => []TypeOK
PROOF
<1>1. IInv => TypeOK
  BY DEF IInv
<1>2. QED
  BY <1>1, Invariance, PTL

(***************************************************************************)
(* An issue gets one card and one more for each interrupted creation, with *)
(* any number of handlers (the reservation of handle_issue_opened).        *)
(***************************************************************************)
THEOREM CreatedOnce == Spec => []OneCard
PROOF
<1>1. IInv => OneCard
  BY DEF IInv, TypeOK, Counted, OneCard
<1>2. QED
  BY <1>1, Invariance, PTL

-----------------------------------------------------------------------------
(* An open issue's ownership states no place on a card that is past Assigned. *)
LEMMA NothingStated ==
  ASSUME NEW m, NEW saw, m.kind \in ChangeKinds \ {"opened"}, m.open,
         card.place \in Places \ AboutOwnership,
         saw.place \in {card.place, Unreadable}
  PROVE  Stated(m, saw) = NoPlace
PROOF
<1>1. ~Repairs(m)
  BY DEF Repairs
<1>2. CASE Owns(m)
  <2> DEFINE next == StatusIntent(m, Engineer(m.owner))
  <2>1. next \in {"needs_assigned", "assigned"}
    BY IntentIsAPlace DEF AboutOwnership
  <2>2. card.place \in {"in_progress", "in_qa", "completed"}
    BY DEF Places, AboutOwnership
  <2>3. Rank(next) < Rank(card.place)
    BY <2>1, <2>2 DEF Rank
  <2>4. WouldRegress(saw.place, next)
    BY <2>1, <2>3 DEF WouldRegress, AboutOwnership
  <2>5. QED
    BY <1>2, <2>4 DEF Stated, HeldBack
<1>3. CASE ~Owns(m)
  BY <1>1, <1>3 DEF Stated, StatesStatus
<1>4. QED
  BY <1>2, <1>3

LEMMA ChangeKeepsPlace ==
  ASSUME NEW m, NEW saw, Stated(m, saw) = NoPlace, card.place \notin AboutOwnership,
         TypeOK
  PROVE  \A c \in {card, Patched(m, saw), Bumped(Patched(m, saw)), Bumped(card)} :
           c.place = card.place
PROOF
<1>1. Patched(m, saw).place = card.place
  BY DEF Patched
<1>2. \A c : c.place = card.place => Bumped(c) = c
  BY DEF Bumped, AboutOwnership
<1>3. QED
  BY <1>1, <1>2

LEMMA OwnershipStep ==
  ASSUME IInv, [Next]_vars, NEW h \in Handlers,
         At(h, "write"), task'[h] = Idle,
         task[h].msg.kind \in ChangeKinds \ {"opened"}, task[h].msg.open,
         task[h].saw.place \in {card.place, Unreadable},
         card.place \notin AboutOwnership
  PROVE  card'.place = card.place
PROOF
<1>1. task[h] # Idle
  BY DEF At, Idle
<1>2. CASE GitHubStep \/ UNCHANGED vars
  BY <1>2 DEF GitHubStep, Raise, Assign, Unassign, Relabel, Close, Reopen, Send, service, vars
<1>3. CASE Environment
  <2>1. ASSUME NEW place, MoveCard(place) PROVE FALSE
    BY <1>1, <2>1 DEF MoveCard
  <2>2. QED
    BY <1>3, <2>1 DEF Environment, Lose, Redeliver, Restart, service
<1>4. ASSUME NEW g \in regime.handlers,
             (\E i \in DOMAIN inbox : Receive(g, i)) \/ Sweep(g) \/ Poll(g)
      PROVE  card' = card
  BY <1>4 DEF Receive, Sweep, Poll, Begin
<1>5. ASSUME NEW g \in regime.handlers, Works(g) PROVE card'.place = card.place
  <2>1. g \in Handlers
    BY RegimeIsTyped DEF IInv
  <2>2. CASE g # h
    <3>1. task'[h] = task[h] \/ card' = card
      <4>1. Done(g) \/ card' = card
        BY <1>5 DEF Works, Reserve, CreateTask, CreateFails, FinishOpened, HandleChanged,
                    HandleClosed, HandleReopened
      <4>2. QED
        BY <2>1, <2>2, <4>1, GoIsTyped DEF IInv
    <3>2. QED
      BY <1>1, <3>1
  <2>3. CASE g = h
    <3>1. HandleChanged(h)
      BY <1>5, <2>3 DEF Works, Reserve, CreateTask, CreateFails, FinishOpened, At,
                        HandleClosed, HandleReopened, ChangeKinds
    <3>2. card.place \in Places \ AboutOwnership
      BY DEF IInv, TypeOK
    <3>3. Stated(task[h].msg, task[h].saw) = NoPlace
      BY <3>2, NothingStated
    <3>4. card' \in {card, Patched(task[h].msg, task[h].saw),
                     Bumped(Patched(task[h].msg, task[h].saw)), Bumped(card)}
      BY <3>1 DEF HandleChanged
    <3>5. QED
      BY <3>3, <3>4, ChangeKeepsPlace DEF IInv
  <2>4. QED
    BY <2>2, <2>3
<1>6. QED
  BY <1>2, <1>3, <1>4, <1>5 DEF Next

(***************************************************************************)
(* No assignment, label or edit moves the card of an open issue back once  *)
(* it is past Assigned, when the handler's reading of the board stands or  *)
(* the board did not answer (status_intent_would_regress).                 *)
(***************************************************************************)
THEOREM OwnershipKeepsPlace == Spec => OwnershipNeverRewinds
PROOF
<1> DEFINE Keeps ==
  \A h \in Handlers :
    /\ At(h, "write") /\ task'[h] = Idle
    /\ task[h].msg.kind \in ChangeKinds \ {"opened"} /\ task[h].msg.open
    /\ task[h].saw.place \in {card.place, Unreadable}
    /\ card.place \notin AboutOwnership
    => card'.place = card.place
<1>1. IInv /\ [Next]_vars => [Keeps]_vars
  BY OwnershipStep
<1>2. QED
  BY <1>1, Invariance, PTL DEF OwnershipNeverRewinds, Spec
-----------------------------------------------------------------------------
(***************************************************************************)
(* What a lone handler of an issue's events achieves, for every set of     *)
(* accounts, every bound and every way events, sweeps, polls and moves of  *)
(* the card interleave: once all was delivered, in order and without a     *)
(* failure, the card agrees with the issue, it never reads Assigned with   *)
(* nobody assigned, and a reopened issue resumes where it was.             *)
(*                                                                         *)
(* The invariants say of every event still to be handled what it leaves    *)
(* for the events behind it to put right.                                  *)
(***************************************************************************)

(* An event of this kind is in the inbox behind position i, or at work. *)
Later(i, kind)   == \E j \in DOMAIN inbox : j > i /\ inbox[j].kind = kind
Writing(h, kind) == At(h, "write") /\ task[h].msg.kind = kind
Coming(h, kind)  == Later(0, kind) \/ Writing(h, kind)

TurnKind == IF issue.open THEN "reopened" ELSE "closed"

(* An owner, and a state, that the events behind position i make current. *)
Leads(owner, i) ==
  owner = issue.owner \/ Later(i, "unassigned") \/ (owner = Nobody /\ Later(i, "assigned"))
Turns(open, i) == open = issue.open \/ Later(i, TurnKind)

WellFormed(m) ==
  /\ m.kind = "unassigned" => m.owner = Nobody
  /\ m.kind = "assigned" => m.owner # Nobody
  /\ m.kind = "reopened" => m.open
  /\ m.kind = "closed" => ~m.open

EventsLead(h) ==
  /\ \A i \in DOMAIN inbox :
       WellFormed(inbox[i]) /\ Leads(inbox[i].owner, i) /\ Turns(inbox[i].open, i)
  /\ ~At(h, "idle") =>
       WellFormed(task[h].msg) /\ Leads(task[h].msg.owner, 0) /\ Turns(task[h].msg.open, 0)

Making(h) == task[h].pc \in {"reserve", "create", "finish"}

(* The card is made at once: its first event is handled first. *)
CardComes(h) ==
  /\ ~issue.exists => inbox = <<>> /\ At(h, "idle") /\ issue.owner = Nobody /\ ~mapped
  /\ issue.exists /\ ~mapped => Making(h) \/ (inbox # <<>> /\ inbox[1].kind = "opened")
  /\ Making(h) => ~mapped
  /\ At(h, "write") => mapped

(* What the handler saw still stands, but for a card moved by others. *)
LookStands(h) ==
  At(h, "write") =>
    /\ task[h].saw.who = card.who /\ task[h].saw.place # Unreadable
    /\ regime.budget.moves = 0 => task[h].saw.place = card.place
    /\ task[h].saw.place \notin AboutOwnership => card.place \notin AboutOwnership
    /\ task[h].saw.resume # NoPlace => task[h].msg.owner # Nobody

NothingFails ==
  /\ ~patchFailed
  /\ \A what \in {"lost", "refused", "blind", "crashes"} : budget[what] = 0
  /\ regime.budget.moves = 0 => budget.moves = 0

(* The card agrees with the issue, or an event that corrects it is coming. *)
CardFollows(h) ==
  mapped =>
    /\ \/ card.who = Engineer(issue.owner)
       \/ Coming(h, "unassigned")
       \/ card.who = Nobody /\ Coming(h, "assigned")
    /\ regime.budget.moves = 0 =>
         (issue.open <=> card.place # "completed") \/ Coming(h, TurnKind)

(* A close never remembers Completed as the place to resume. *)
NeverFromCompleted ==
  /\ \A i \in DOMAIN log : log[i].place # "completed"
  /\ \A h \in Handlers : task[h].saw.resume # "completed"

OthersIdle == \A h \in Handlers \ regime.handlers : task[h] = Idle

Follows(h) == EventsLead(h) /\ CardComes(h) /\ LookStands(h) /\ NothingFails /\ CardFollows(h)

FollowInv ==
  /\ IInv /\ OthersIdle /\ NeverFromCompleted
  /\ Delivered => \A h \in regime.handlers : Follows(h)

(* The column has a name once the event at work is handled. *)
Fills(h) ==
  \/ Making(h) /\ task[h].msg.owner # Nobody
  \/ Writing(h, "assigned")
  \/ ~Making(h) /\ ~Writing(h, "unassigned") /\ mapped /\ card.who # Nobody
  \/ At(h, "write") /\ task[h].msg.kind \in {"opened", "labeled", "edited"}
       /\ task[h].msg.owner # Nobody

(* An event that takes an owner for granted. *)
Assumes(m) == m.owner # Nobody /\ m.kind \notin {"assigned", "opened"}

OwnerIsThere(h) ==
  /\ \A i \in DOMAIN inbox :
       Assumes(inbox[i]) => IF i = 1 THEN Fills(h) ELSE inbox[i - 1].owner # Nobody
  /\ inbox = <<>> /\ issue.owner # Nobody => Fills(h)
  /\ Writing(h, "reopened") /\ task[h].msg.owner # Nobody => card.who # Nobody

OnlyPeople(h) ==
  /\ issue.owner \in regime.people \cup {Nobody}
  /\ \A i \in DOMAIN inbox : inbox[i].owner \in regime.people \cup {Nobody}
  /\ task[h].msg.owner \in regime.people \cup {Nobody}

OwnersDevelop == Delivered /\ ~regime.polls /\ regime.people \subseteq Eligible
Named(h)      == AssignedHasSomebody /\ OwnerIsThere(h) /\ OnlyPeople(h)

AssignedInv == OwnersDevelop => \A h \in regime.handlers : Named(h)

(* While a card closed from a known place stays Completed, the log names   *)
(* that place, and so does a reopening at work.                            *)
Remembered(h) ==
  episode # NoPlace /\ card.place = "completed" =>
    /\ PreCloseStatus(log) = episode
    /\ At(h, "write") => task[h].saw.place \in {"completed", Unreadable}
    /\ Writing(h, "reopened") /\ task[h].msg.owner # Nobody => task[h].saw.resume = episode

ResumeInv ==
  /\ \A h \in Handlers : At(h, "write") => mapped
  /\ ~mapped => episode = NoPlace
  /\ Cardinality(regime.handlers) = 1 => \A h \in regime.handlers : Remembered(h)

-----------------------------------------------------------------------------
LEMMA TheHandler ==
  ASSUME TypeOK, Cardinality(regime.handlers) = 1, NEW h \in regime.handlers
  PROVE  regime.handlers = {h} /\ h \in Handlers
<1>1. regime.handlers \subseteq Handlers
  BY RegimeIsTyped
<1>2. IsFiniteSet(regime.handlers)
  BY <1>1, IssueAssumption, FS_Subset
<1>3. \E x : regime.handlers = {x}
  BY <1>2, FS_Singleton
<1>4. QED
  BY <1>1, <1>3

LEMMA InitFollows == Init => FollowInv /\ AssignedInv /\ ResumeInv
<1> SUFFICES ASSUME Init PROVE FollowInv /\ AssignedInv /\ ResumeInv
  OBVIOUS
<1>1. IInv
  BY InitEstablishes
<1>2. OthersIdle /\ NeverFromCompleted
  BY PlaceAssumption DEF Init, OthersIdle, NeverFromCompleted, Idle, Places
<1>3. ASSUME Delivered, NEW h \in regime.handlers
      PROVE  Follows(h) /\ Named(h)
  <2>1. h \in Handlers
    BY <1>1, RegimeIsTyped DEF IInv
  <2>2. task[h] = Idle /\ inbox = <<>>
    BY <2>1 DEF Init
  <2>3. QED
    BY <1>3, <2>2
    DEF Init, Idle, Named, AssignedHasSomebody, Follows, EventsLead, CardComes, LookStands, NothingFails, CardFollows, OwnerIsThere,
        OnlyPeople, Making, At, Writing, Assumes, Delivered
<1>4. ResumeInv
  BY DEF Init, ResumeInv, Remembered, At, Idle
<1>5. QED
  BY <1>1, <1>2, <1>3, <1>4 DEF FollowInv, AssignedInv, OwnersDevelop

(* What is neither about the inbox nor about the card. *)
LEMMA RememberedPlace ==
  ASSUME TypeOK, NeverFromCompleted
  PROVE  PreCloseStatus(log) # "completed"
<1>1. ASSUME NEW rows, rows \subseteq DOMAIN log
      PROVE  PlaceOfNewest(log, rows) # "completed"
  BY <1>1, PlaceAssumption DEF PlaceOfNewest, NeverFromCompleted, Places
<1>2. QED
  BY <1>1 DEF PreCloseStatus, Closes

LEMMA BeginLooks ==
  ASSUME TypeOK, NEW h \in Handlers, NEW m \in Snapshot, Begin(h, m)
  PROVE  /\ At(h, "idle") /\ \A g \in Handlers \ {h} : task'[g] = task[g]
         /\ ~mapped => task'[h] = IF m.kind = "opened" THEN [Idle EXCEPT !.pc = "reserve", !.msg = m]
                                                       ELSE Idle
         /\ mapped => /\ task'[h].pc = "write" /\ task'[h].msg = m
                      /\ task'[h].saw.resume =
                           IF m.kind = "reopened" /\ m.owner # Nobody THEN PreCloseStatus(log)
                                                                      ELSE NoPlace
                      /\ \/ /\ task'[h].saw.place = card.place /\ task'[h].saw.who = card.who
                            /\ UNCHANGED budget
                         \/ budget["blind"] > 0 /\ task'[h].saw.place = Unreadable
BY DEF TypeOK, Begin, Start, Spend, At

LEMMA OnlyOne ==
  ASSUME TypeOK, NEW h \in Handlers, Works(h)
  PROVE  /\ \A g \in Handlers \ {h} : task'[g] = task[g]
         /\ ~At(h, "idle")
         /\ UNCHANGED <<regime, issue, inbox, seen>>
<1>1. Done(h) \/ \E pc \in PCs : Go(h, pc)
  BY DEF Works, Reserve, CreateTask, CreateFails, FinishOpened, HandleChanged, HandleClosed,
         HandleReopened, PCs
<1>2. \A g \in Handlers \ {h} : task'[g] = task[g]
  BY <1>1, GoIsTyped
<1>3. QED
  BY <1>2 DEF Works, Reserve, CreateTask, CreateFails, FinishOpened, HandleChanged, HandleClosed,
              HandleReopened, At

(* Whatever the step, somebody takes it: GitHub, the circumstances, or the *)
(* handler, which looks or works.                                          *)
LEMMA WhoseStep ==
  ASSUME TypeOK, OthersIdle, [Next]_vars, NEW h \in Handlers, regime.handlers = {h}
  PROVE  \/ GitHubStep \/ Environment \/ UNCHANGED vars
         \/ (\E i \in DOMAIN inbox : Receive(h, i)) \/ Sweep(h) \/ Poll(h) \/ Works(h)
BY DEF Next

LEMMA RegimeIsFixed == ASSUME [Next]_vars PROVE regime' = regime
BY DEF Next, GitHubStep, Raise, Assign, Unassign, Relabel, Close, Reopen, Send, Environment, Lose,
       Redeliver, MoveCard, Restart, Receive, Sweep, Poll, Begin, Works, Reserve, CreateTask,
       CreateFails, FinishOpened, HandleChanged, HandleClosed, HandleReopened, vars
LEMMA SidePreserves ==
  ASSUME IInv, OthersIdle, NeverFromCompleted, [Next]_vars
  PROVE  OthersIdle' /\ NeverFromCompleted'
<1>0. /\ TypeOK /\ regime.handlers \subseteq Handlers /\ regime' = regime
      /\ Idle.saw.resume # "completed" /\ NoPlace # "completed" /\ log \in Seq(Row)
      /\ task \in [Handlers -> [pc : PCs, msg : Snapshot, saw : Look]]
  BY RegimeIsTyped, RegimeIsFixed, PlaceAssumption DEF IInv, TypeOK, Idle, Places
<1>1. ASSUME UNCHANGED <<task, log>> PROVE OthersIdle' /\ NeverFromCompleted'
  BY <1>0, <1>1 DEF OthersIdle, NeverFromCompleted
<1>2. ASSUME NEW g \in regime.handlers, \A f \in Handlers \ {g} : task'[f] = task[f],
             task'[g].saw.resume # "completed", \A i \in DOMAIN log' : log'[i].place # "completed"
      PROVE  OthersIdle' /\ NeverFromCompleted'
  BY <1>0, <1>2 DEF OthersIdle, NeverFromCompleted
<1>3. CASE Environment
  <2>1. CASE Restart
    BY <1>0, <2>1 DEF Restart, OthersIdle, NeverFromCompleted
  <2>2. CASE ~Restart
    BY <1>1, <1>3, <2>2 DEF Environment, Lose, Redeliver, MoveCard, service
  <2>3. QED
    BY <2>1, <2>2
<1>4. ASSUME NEW g \in regime.handlers, NEW m \in Snapshot, Begin(g, m)
      PROVE  OthersIdle' /\ NeverFromCompleted'
  <2>1. \A f \in Handlers \ {g} : task'[f] = task[f]
    BY <1>0, <1>4, BeginLooks
  <2>2. task'[g].saw.resume # "completed"
    BY <1>0, <1>4, BeginLooks, RememberedPlace DEF Idle
  <2>3. log' = log
    BY <1>4 DEF Begin
  <2>4. QED
    BY <1>2, <2>1, <2>2, <2>3 DEF NeverFromCompleted
<1>5. ASSUME NEW g \in regime.handlers,
             (\E i \in DOMAIN inbox : Receive(g, i)) \/ Sweep(g) \/ Poll(g)
      PROVE  OthersIdle' /\ NeverFromCompleted'
  <2>1. \E m \in Snapshot : Begin(g, m)
    <3>1. \A kind \in Kinds : Current(kind) \in Snapshot
      BY <1>0 DEF Current, Snapshot, TypeOK
    <3>2. \A i \in DOMAIN inbox : inbox[i] \in Snapshot
      BY <1>0 DEF TypeOK
    <3>3. News \in Kinds
      BY DEF News, Kinds
    <3>4. QED
      BY <1>5, <3>1, <3>2, <3>3 DEF Receive, Sweep, Poll, Kinds
  <2>2. QED
    BY <1>4, <2>1
<1>6. ASSUME NEW g \in regime.handlers, Works(g) PROVE OthersIdle' /\ NeverFromCompleted'
  <2>1. \A f \in Handlers \ {g} : task'[f] = task[f]
    BY <1>0, <1>6, OnlyOne
  <2>2. task'[g].saw.resume # "completed"
    BY <1>0, <1>6 DEF Works, Reserve, CreateTask, CreateFails, FinishOpened, HandleChanged,
                      HandleClosed, HandleReopened, Done, Go, NeverFromCompleted
  <2>3. CASE HandleClosed(g)
    <3>1. Captured(task[g].saw) # "completed"
      BY <1>0 DEF Captured
    <3>2. \A i \in DOMAIN log' : log'[i].place # "completed"
      BY <1>0, <2>3, <3>1 DEF HandleClosed, WithClose, NeverFromCompleted
    <3>3. QED
      BY <1>2, <2>1, <2>2, <3>2
  <2>4. CASE HandleReopened(g)
    <3>1. \A i \in DOMAIN log' : log'[i].place # "completed"
      BY <1>0, <2>4 DEF HandleReopened, WithReopen, NeverFromCompleted
    <3>2. QED
      BY <1>2, <2>1, <2>2, <3>1
  <2>5. CASE ~HandleClosed(g) /\ ~HandleReopened(g)
    <3>1. log' = log
      BY <1>6, <2>5 DEF Works, Reserve, CreateTask, CreateFails, FinishOpened, HandleChanged
    <3>2. QED
      BY <1>2, <2>1, <2>2, <3>1 DEF NeverFromCompleted
  <2>6. QED
    BY <2>3, <2>4, <2>5
<1>7. CASE GitHubStep \/ UNCHANGED vars
  BY <1>1, <1>7 DEF GitHubStep, Raise, Assign, Unassign, Relabel, Close, Reopen, Send, service, vars
<1>8. QED
  BY <1>3, <1>5, <1>6, <1>7 DEF Next
-----------------------------------------------------------------------------
(* How the inbox changes: an event is appended, handled, or repeated. *)
LEMMA Appended ==
  ASSUME inbox \in Seq(Snapshot), NEW m \in Snapshot, inbox' = Append(inbox, m)
  PROVE  /\ DOMAIN inbox' = DOMAIN inbox \cup {Len(inbox) + 1}
         /\ Len(inbox) + 1 \notin DOMAIN inbox /\ inbox' # <<>>
         /\ inbox'[Len(inbox) + 1] = m
         /\ \A i \in DOMAIN inbox : inbox'[i] = inbox[i] /\ i <= Len(inbox)
         /\ \A i \in Nat : \A k : i <= Len(inbox) => (Later(i, k)' <=> Later(i, k) \/ m.kind = k)
<1>1. /\ DOMAIN inbox' = DOMAIN inbox \cup {Len(inbox) + 1} /\ DOMAIN inbox = 1 .. Len(inbox)
      /\ Len(inbox) \in Nat
      /\ inbox'[Len(inbox) + 1] = m /\ \A i \in DOMAIN inbox : inbox'[i] = inbox[i]
      /\ inbox' # <<>>
  OBVIOUS
<1>2. ASSUME NEW i \in Nat, NEW k, i <= Len(inbox)
      PROVE  Later(i, k)' <=> Later(i, k) \/ m.kind = k
  <2>1. Later(i, k) => Later(i, k)'
    BY <1>1 DEF Later
  <2>2. m.kind = k => Later(i, k)'
    BY <1>1, <1>2 DEF Later
  <2>3. Later(i, k)' => Later(i, k) \/ m.kind = k
    BY <1>1 DEF Later
  <2>4. QED
    BY <2>1, <2>2, <2>3
<1>3. QED
  BY <1>1, <1>2

LEMMA Handled ==
  ASSUME inbox \in Seq(Snapshot), 1 \in DOMAIN inbox, inbox' = Rest(1)
  PROVE  /\ \A i : i \in DOMAIN inbox' <=> i \in DOMAIN inbox /\ i + 1 \in DOMAIN inbox
         /\ \A i \in DOMAIN inbox' : inbox'[i] = inbox[i + 1]
         /\ \A i \in Nat : \A k : Later(i, k)' <=> Later(i + 1, k)
         /\ inbox' = <<>> => Len(inbox) = 1
         /\ Len(inbox) = 1 => inbox' = <<>>
<1>1. /\ DOMAIN inbox = 1 .. Len(inbox) /\ Len(inbox) \in Nat /\ 1 <= Len(inbox)
      /\ DOMAIN inbox' = 1 .. Len(inbox) - 1
      /\ \A i \in DOMAIN inbox' : inbox'[i] = inbox[i + 1]
  BY DEF Rest
<1>2. ASSUME NEW i \in Nat, NEW k PROVE Later(i, k)' <=> Later(i + 1, k)
  <2>1. ASSUME NEW j \in DOMAIN inbox', j > i, inbox'[j].kind = k
        PROVE  Later(i + 1, k)
    BY <1>1, <2>1, j + 1 \in DOMAIN inbox DEF Later
  <2>2. ASSUME NEW j \in DOMAIN inbox, j > i + 1, inbox[j].kind = k
        PROVE  Later(i, k)'
    <3>1. j - 1 \in DOMAIN inbox' /\ j - 1 > i /\ inbox'[j - 1].kind = k
      BY SMTT(30), <1>1, <2>2
    <3>2. QED
      BY <3>1 DEF Later
  <2>3. QED
    BY <2>1, <2>2 DEF Later
<1>3. /\ inbox' = <<>> => Len(inbox) = 1
      /\ Len(inbox) = 1 => inbox' = <<>>
  <2>1. inbox' = <<>> => DOMAIN inbox' = {}
    OBVIOUS
  <2>2. inbox' \in Seq(Snapshot)
    BY <1>1 DEF Rest
  <2>3. QED
    BY <1>1, <2>1, <2>2
<1>4. \A i : i \in DOMAIN inbox' <=> i \in DOMAIN inbox /\ i + 1 \in DOMAIN inbox
  <2>1. ASSUME NEW i, i \in DOMAIN inbox' PROVE i \in DOMAIN inbox /\ i + 1 \in DOMAIN inbox
    BY <1>1, <2>1
  <2>2. ASSUME NEW i, i \in DOMAIN inbox, i + 1 \in DOMAIN inbox PROVE i \in DOMAIN inbox'
    BY <1>1, <2>2
  <2>3. QED
    BY <2>1, <2>2
<1>5. QED
  BY <1>1, <1>2, <1>3, <1>4

LEMMA Repeated ==
  ASSUME inbox \in Seq(Snapshot), NEW i \in DOMAIN inbox,
         inbox' = SubSeq(inbox, 1, i) \o SubSeq(inbox, i, Len(inbox))
  PROVE  /\ \A j \in DOMAIN inbox' : j <= i => j \in DOMAIN inbox /\ inbox'[j] = inbox[j]
         /\ \A j \in DOMAIN inbox' : j > i => j - 1 \in DOMAIN inbox /\ inbox'[j] = inbox[j - 1]
         /\ \A j \in Nat : \A k : Later(j, k) => Later(j, k)'
         /\ \A k : Later(0, k)' <=> Later(0, k)
         /\ \A j \in Nat : \A k : j > i /\ Later(j - 1, k) => Later(j, k)'
         /\ inbox' # <<>> /\ 1 \in DOMAIN inbox
<1>1. /\ DOMAIN inbox = 1 .. Len(inbox) /\ Len(inbox) \in Nat /\ i \in 1 .. Len(inbox)
  OBVIOUS
<1>2. /\ SubSeq(inbox, 1, i) \in Seq(Snapshot) /\ Len(SubSeq(inbox, 1, i)) = i
      /\ \A j \in 1 .. i : SubSeq(inbox, 1, i)[j] = inbox[j]
  BY <1>1
<1>3. /\ SubSeq(inbox, i, Len(inbox)) \in Seq(Snapshot)
      /\ Len(SubSeq(inbox, i, Len(inbox))) = Len(inbox) - i + 1
      /\ \A j \in 1 .. Len(inbox) - i + 1 : SubSeq(inbox, i, Len(inbox))[j] = inbox[i + j - 1]
  BY <1>1
<1>4. /\ DOMAIN inbox' = 1 .. Len(inbox) + 1
      /\ \A j \in 1 .. i : inbox'[j] = inbox[j]
      /\ \A j \in i + 1 .. Len(inbox) + 1 : inbox'[j] = inbox[j - 1]
  <2> DEFINE front == SubSeq(inbox, 1, i)  back == SubSeq(inbox, i, Len(inbox))
  <2>1. front \in Seq(Snapshot) /\ back \in Seq(Snapshot)
        /\ Len(front) = i /\ Len(back) = Len(inbox) - i + 1
    BY <1>2, <1>3
  <2>2. inbox' = front \o back
    OBVIOUS
  <2> HIDE DEF front, back
  <2>3. /\ Len(inbox') = Len(inbox) + 1 /\ inbox' \in Seq(Snapshot)
        /\ \A j \in 1 .. i : inbox'[j] = front[j]
        /\ \A j \in i + 1 .. Len(inbox) + 1 : inbox'[j] = back[j - i]
    BY SMTT(30), <1>1, <2>1, <2>2
  <2>4. \A j \in i + 1 .. Len(inbox) + 1 : back[j - i] = inbox[j - 1]
    BY <1>1, <1>3 DEF back
  <2>5. QED
    BY SMTT(30), <1>1, <1>2, <2>3, <2>4 DEF front
<1>5. ASSUME NEW j \in Nat, NEW k, Later(j, k) PROVE Later(j, k)' /\ (j >= i => Later(j + 1, k)')
  <2>1. PICK n \in DOMAIN inbox : n > j /\ inbox[n].kind = k
    BY <1>5 DEF Later
  <2>2. n \in DOMAIN inbox' /\ n + 1 \in DOMAIN inbox'
    BY <1>1, <1>4
  <2>3. n <= i => inbox'[n].kind = k
    BY <1>1, <1>4, <2>1
  <2>4. n >= i => inbox'[n + 1].kind = k
    <3>1. SUFFICES ASSUME n >= i PROVE inbox'[n + 1].kind = k
      OBVIOUS
    <3>2. n + 1 \in i + 1 .. Len(inbox) + 1 /\ (n + 1) - 1 = n
      BY <1>1, <3>1
    <3>3. inbox'[n + 1] = inbox[n]
      BY <1>4, <3>2
    <3>4. QED
      BY <2>1, <3>3
  <2>5. QED
    BY <1>1, <2>1, <2>2, <2>3, <2>4 DEF Later
<1>6. ASSUME NEW k, Later(0, k)' PROVE Later(0, k)
  <2>1. PICK n \in DOMAIN inbox' : inbox'[n].kind = k
    BY <1>6 DEF Later
  <2>2. \E j \in DOMAIN inbox : inbox[j].kind = k
    <3>1. CASE n <= i
      BY <1>1, <1>4, <2>1, <3>1
    <3>2. CASE n > i
      BY SMTT(30), <1>1, <1>4, <2>1, <3>2, n - 1 \in DOMAIN inbox
    <3>3. QED
      BY <1>1, <1>4, <3>1, <3>2
  <2>3. QED
    BY <1>1, <2>2 DEF Later
<1>7. QED
  BY SMTT(30), <1>1, <1>4, <1>5, <1>6
-----------------------------------------------------------------------------
(* A change of the issue appends the event that tells of it. *)
LEMMA Announced ==
  ASSUME TypeOK, NEW h \in Handlers, Follows(h), NEW m \in Snapshot, inbox' = Append(inbox, m),
         m.owner = issue'.owner, m.open = issue'.open, WellFormed(m),
         UNCHANGED <<regime, mapped, card, patchFailed, log, task>>, issue.exists, issue'.exists,
         \/ issue'.owner = issue.owner
         \/ m.kind = "unassigned"
         \/ m.kind = "assigned" /\ issue.owner = Nobody,
         issue'.open = issue.open \/ m.kind = TurnKind',
         budget' = [budget EXCEPT !["changes"] = @ - 1]
  PROVE  Follows(h)'
<1> USE DEF Follows
<1>1. /\ inbox \in Seq(Snapshot) /\ Len(inbox) \in Nat /\ DOMAIN inbox = 1 .. Len(inbox)
      /\ budget \in Budget
  BY DEF TypeOK
<1>2. /\ DOMAIN inbox' = DOMAIN inbox \cup {Len(inbox) + 1} /\ inbox' # <<>>
      /\ inbox'[Len(inbox) + 1] = m
      /\ \A i \in DOMAIN inbox : inbox'[i] = inbox[i] /\ i <= Len(inbox)
      /\ \A i \in Nat : \A k : i <= Len(inbox) => (Later(i, k)' <=> Later(i, k) \/ m.kind = k)
  BY <1>1, Appended
<1>3. \A owner : \A i \in Nat : i <= Len(inbox) /\ Leads(owner, i) => Leads(owner, i)'
  BY <1>2 DEF Leads
<1>4. \A open : \A i \in Nat : i <= Len(inbox) /\ Turns(open, i) => Turns(open, i)'
  BY <1>2 DEF Turns, TurnKind
<1>5. \A i \in DOMAIN inbox : i \in Nat /\ i <= Len(inbox)
  BY <1>1
<1>6. EventsLead(h)'
  <2>1. ASSUME NEW i \in DOMAIN inbox'
        PROVE  (WellFormed(inbox[i]) /\ Leads(inbox[i].owner, i) /\ Turns(inbox[i].open, i))'
    <3>1. CASE i \in DOMAIN inbox
      BY <1>2, <1>3, <1>4, <1>5, <3>1 DEF EventsLead
    <3>2. CASE i = Len(inbox) + 1
      BY <1>2, <3>2 DEF Leads, Turns
    <3>3. QED
      BY <1>2, <3>1, <3>2
  <2>2. ~At(h, "idle")' =>
          (WellFormed(task[h].msg) /\ Leads(task[h].msg.owner, 0) /\ Turns(task[h].msg.open, 0))'
    BY <1>1, <1>3, <1>4 DEF EventsLead, At
  <2>3. QED
    BY <2>1, <2>2 DEF EventsLead
<1>7. CardComes(h)'
  BY <1>1, <1>2 DEF CardComes, Making, At
<1>8. LookStands(h)' /\ NothingFails'
  BY <1>1 DEF LookStands, NothingFails, At, Budget
<1>9. \A k : Coming(h, k)' <=> Coming(h, k) \/ m.kind = k
  BY <1>1, <1>2 DEF Coming, Writing, At
<1>10. CardFollows(h)'
  <2>1. ASSUME mapped
        PROVE  \/ card.who = Engineer(issue'.owner)
               \/ Coming(h, "unassigned")'
               \/ card.who = Nobody /\ Coming(h, "assigned")'
    <3>1. CASE issue'.owner = issue.owner
      BY <1>9, <2>1, <3>1 DEF CardFollows
    <3>2. CASE m.kind = "unassigned"
      BY <1>9, <3>2
    <3>3. CASE m.kind = "assigned" /\ issue.owner = Nobody
      <4>1. Engineer(issue.owner) = Nobody
        BY <3>3 DEF Engineer
      <4>2. QED
        BY <1>9, <2>1, <3>3, <4>1 DEF CardFollows
    <3>4. QED
      BY <3>1, <3>2, <3>3
  <2>2. ASSUME mapped, regime.budget.moves = 0
        PROVE  (issue'.open <=> card.place # "completed") \/ Coming(h, TurnKind)'
    BY <1>9, <2>2 DEF CardFollows, TurnKind
  <2>3. QED
    BY <2>1, <2>2 DEF CardFollows
<1>11. QED
  BY <1>6, <1>7, <1>8, <1>10

LEMMA GitHubFollows ==
  ASSUME TypeOK, Delivered, NEW h \in Handlers, Follows(h), GitHubStep
  PROVE  Follows(h)'
<1>1. /\ issue \in [exists : BOOLEAN, open : BOOLEAN, owner : People] /\ regime.people \subseteq Logins
      /\ Nobody \notin Logins /\ regime.webhooks /\ budget \in Budget
  BY RegimeIsTyped, IssueAssumption DEF TypeOK, Delivered
<1>2. ASSUME NEW kind \in Kinds, Send(kind),
             issue' \in [exists : BOOLEAN, open : BOOLEAN, owner : People],
             issue.exists, issue'.exists, WellFormed(Message(kind)),
             \/ issue'.owner = issue.owner
             \/ kind = "unassigned"
             \/ kind = "assigned" /\ issue.owner = Nobody,
             issue'.open = issue.open \/ kind = TurnKind'
      PROVE  Follows(h)'
  <2>1. Message(kind) \in Snapshot /\ Message(kind).kind = kind
        /\ Message(kind).owner = issue'.owner /\ Message(kind).open = issue'.open
    BY <1>2 DEF Message, Snapshot
  <2>2. /\ inbox' = Append(inbox, Message(kind)) /\ budget' = [budget EXCEPT !["changes"] = @ - 1]
        /\ UNCHANGED <<regime, mapped, card, patchFailed, log, task>>
    BY <1>1, <1>2 DEF Send, Spend, service
  <2>3. QED
    BY <1>2, <2>1, <2>2, Announced
<1> USE DEF WellFormed, Message, Kinds, TurnKind
<1>3. ASSUME NEW l \in regime.people \cup {Nobody}, Raise(l) PROVE Follows(h)'
  <2>1. /\ inbox = <<>> /\ At(h, "idle") /\ ~mapped /\ issue' = [exists |-> TRUE, open |-> TRUE, owner |-> l]
        /\ NothingFails
    BY <1>3 DEF Raise, Follows, CardComes
  <2>2. /\ Send("opened") /\ Message("opened") = [kind |-> "opened", open |-> TRUE, owner |-> l]
        /\ Message("opened") \in Snapshot
    BY <1>1, <1>3, <2>1 DEF Raise, Snapshot, People
  <2>3. /\ inbox' = Append(inbox, Message("opened"))
        /\ budget' = [budget EXCEPT !["changes"] = @ - 1]
        /\ UNCHANGED <<regime, mapped, card, patchFailed, log, task>>
    BY <1>1, <2>2 DEF Send, Spend, service
  <2>4. DOMAIN inbox' = {1} /\ inbox' # <<>> /\ inbox'[1] = Message("opened")
    BY <2>1, <2>2, <2>3
  <2>5. EventsLead(h)'
    <3>1. (WellFormed(inbox[1]) /\ Leads(inbox[1].owner, 1) /\ Turns(inbox[1].open, 1))'
      BY <2>1, <2>2, <2>4 DEF Leads, Turns
    <3>2. At(h, "idle")'
      BY <2>1, <2>3 DEF At
    <3>3. \A i \in DOMAIN inbox' : i = 1
      BY <2>4
    <3>4. QED
      BY <3>1, <3>2, <3>3 DEF EventsLead
  <2>6. CardComes(h)' /\ LookStands(h)' /\ NothingFails' /\ CardFollows(h)'
    BY <1>1, <2>1, <2>2, <2>3, <2>4
    DEF CardComes, LookStands, NothingFails, CardFollows, At, Making, Budget
  <2>7. QED
    BY <2>5, <2>6 DEF Follows
<1>4. ASSUME NEW l \in regime.people, Assign(l) PROVE Follows(h)'
  BY <1>1, <1>2, <1>4 DEF Assign, People
<1>5. CASE Unassign
  BY <1>1, <1>2, <1>5 DEF Unassign, People
<1>6. CASE Relabel
  BY <1>1, <1>2, <1>6 DEF Relabel
<1>7. CASE Close
  BY <1>1, <1>2, <1>7 DEF Close
<1>8. CASE Reopen
  BY <1>1, <1>2, <1>8 DEF Reopen
<1>9. QED
  BY <1>3, <1>4, <1>5, <1>6, <1>7, <1>8 DEF GitHubStep
LEMMA RedeliveryFollows ==
  ASSUME TypeOK, NEW h \in Handlers, Follows(h), NEW i \in DOMAIN inbox, Redeliver(i)
  PROVE  Follows(h)'
<1> USE DEF Follows
<1>1. /\ inbox \in Seq(Snapshot) /\ DOMAIN inbox \subseteq Nat /\ budget \in Budget /\ 1 <= i
      /\ budget' = [budget EXCEPT !["again"] = @ - 1]
      /\ UNCHANGED <<regime, issue, mapped, card, patchFailed, log, task>>
      /\ inbox' = SubSeq(inbox, 1, i) \o SubSeq(inbox, i, Len(inbox))
  BY DEF TypeOK, Redeliver, service, Spend
<1>2. /\ \A j \in DOMAIN inbox' : j <= i => j \in DOMAIN inbox /\ inbox'[j] = inbox[j]
      /\ \A j \in DOMAIN inbox' : j > i => j - 1 \in DOMAIN inbox /\ inbox'[j] = inbox[j - 1]
      /\ \A j \in Nat : \A k : Later(j, k) => Later(j, k)'
      /\ \A j \in Nat : \A k : j > i /\ Later(j - 1, k) => Later(j, k)'
      /\ \A k : Later(0, k)' <=> Later(0, k)
      /\ inbox' # <<>> /\ 1 \in DOMAIN inbox
  BY <1>1, Repeated
<1>3. inbox' \in Seq(Snapshot) /\ DOMAIN inbox' \subseteq Nat /\ 1 \in DOMAIN inbox'
  <2>1. SubSeq(inbox, 1, i) \in Seq(Snapshot) /\ SubSeq(inbox, i, Len(inbox)) \in Seq(Snapshot)
    BY <1>1
  <2>2. inbox' \in Seq(Snapshot)
    BY <1>1, <2>1
  <2>3. QED
    BY <1>2, <2>2
<1>4. EventsLead(h)'
  <2>1. ASSUME NEW j \in DOMAIN inbox'
        PROVE  (WellFormed(inbox[j]) /\ Leads(inbox[j].owner, j) /\ Turns(inbox[j].open, j))'
    <3>1. CASE j <= i
      BY <1>1, <1>2, <1>3, <3>1 DEF EventsLead, Leads, Turns, TurnKind
    <3>2. CASE j > i
      <4>1. PICK e \in DOMAIN inbox : e = j - 1 /\ inbox'[j] = inbox[e]
        BY <1>2, <3>2
      <4>2. \A k : Later(e, k) => Later(j, k)'
        BY <1>2, <1>3, <3>2, <4>1
      <4>3. QED
        BY <1>1, <4>1, <4>2 DEF EventsLead, Leads, Turns, TurnKind
    <3>3. QED
      BY <1>1, <1>3, <3>1, <3>2
  <2>2. ~At(h, "idle")' =>
          (WellFormed(task[h].msg) /\ Leads(task[h].msg.owner, 0) /\ Turns(task[h].msg.open, 0))'
    BY <1>1, <1>2 DEF EventsLead, At, Leads, Turns, TurnKind
  <2>3. QED
    BY <2>1, <2>2 DEF EventsLead
<1>5. CardComes(h)'
  <2>1. inbox'[1] = inbox[1] /\ inbox' # <<>>
    BY <1>1, <1>2, <1>3
  <2>2. inbox # <<>>
    BY <1>2
  <2>3. QED
    BY <1>1, <2>1, <2>2 DEF CardComes, Making, At
<1>6. LookStands(h)' /\ NothingFails'
  BY <1>1 DEF LookStands, NothingFails, At, Budget
<1>7. CardFollows(h)'
  BY <1>1, <1>2 DEF CardFollows, Coming, Writing, At, TurnKind
<1>8. QED
  BY <1>4, <1>5, <1>6, <1>7

(* Nothing but the card's place changes, and only where others may move it. *)
LEMMA MoveFollows ==
  ASSUME TypeOK, Delivered, NEW h \in Handlers, Follows(h),
         NEW place \in {"in_progress", "in_qa", "completed"}, MoveCard(place)
  PROVE  Follows(h)'
<1> USE DEF Follows
<1>1. /\ card'.who = card.who /\ card'.place = place /\ budget \in Budget
      /\ budget.moves > 0 /\ budget' = [budget EXCEPT !["moves"] = @ - 1]
      /\ UNCHANGED <<regime, issue, inbox, mapped, patchFailed, log, task>>
  BY DEF TypeOK, MoveCard, Spend, Budget
<1>2. regime.budget.moves # 0
  BY <1>1 DEF NothingFails, Budget
<1>3. EventsLead(h)' /\ CardComes(h)'
  BY <1>1 DEF EventsLead, CardComes, Leads, Turns, TurnKind, Later, At, Making
<1>4. LookStands(h)'
  BY <1>1, <1>2 DEF LookStands, At, AboutOwnership
<1>5. NothingFails'
  BY <1>1, <1>2 DEF NothingFails, Budget
<1>6. CardFollows(h)'
  BY <1>1, <1>2 DEF CardFollows, Coming, Writing, Later, At
<1>7. QED
  BY <1>3, <1>4, <1>5, <1>6

LEMMA EnvironmentFollows ==
  ASSUME TypeOK, Delivered, NEW h \in Handlers, Follows(h), Environment
  PROVE  Follows(h)'
<1>1. budget["lost"] = 0 /\ budget["crashes"] = 0
  BY DEF Follows, NothingFails
<1>2. QED
  BY <1>1, RedeliveryFollows, MoveFollows DEF Environment, Lose, Restart, Spend

-----------------------------------------------------------------------------
(* The handler looks: what it reads is what is there. *)
LEMMA LookFollows ==
  ASSUME TypeOK, Delivered, NEW h \in Handlers, Follows(h), NEW m \in Snapshot, Begin(h, m),
         inbox \in Seq(Snapshot), issue.exists, UNCHANGED <<regime, issue>>,
         WellFormed(m), Leads(m.owner, 0)', Turns(m.open, 0)',
         \A i \in DOMAIN inbox' :
           (WellFormed(inbox[i]) /\ Leads(inbox[i].owner, i) /\ Turns(inbox[i].open, i))',
         \/ UNCHANGED inbox
         \/ /\ inbox # <<>> /\ m.kind = inbox[1].kind
            /\ \A k : Later(0, k) => Later(0, k)' \/ m.kind = k
  PROVE  Follows(h)'
<1> USE DEF Follows
<1>1. /\ At(h, "idle")
      /\ ~mapped => task'[h] = IF m.kind = "opened" THEN [Idle EXCEPT !.pc = "reserve", !.msg = m]
                                                    ELSE Idle
      /\ mapped => /\ task'[h].pc = "write" /\ task'[h].msg = m
                   /\ task'[h].saw.resume =
                        IF m.kind = "reopened" /\ m.owner # Nobody THEN PreCloseStatus(log)
                                                                   ELSE NoPlace
                   /\ task'[h].saw.place = card.place /\ task'[h].saw.who = card.who
      /\ UNCHANGED <<mapped, card, patchFailed, log, budget>>
  <2>1. ~(budget["blind"] > 0)
    BY DEF NothingFails
  <2>2. UNCHANGED <<mapped, card, patchFailed, log>>
    BY DEF Begin
  <2>3. UNCHANGED budget
    BY <2>1 DEF Begin, Spend
  <2>4. QED
    BY <2>1, <2>2, <2>3, BeginLooks
<1>2. Idle.pc = "idle" /\ card.place \in Places
  BY DEF Idle, TypeOK
<1>3. [Idle EXCEPT !.pc = "reserve", !.msg = m].pc = "reserve"
      /\ [Idle EXCEPT !.pc = "reserve", !.msg = m].msg = m
  BY DEF Idle
<1>4. EventsLead(h)'
  <2>1. ~At(h, "idle")' => task'[h].msg = m
    BY <1>1, <1>2, <1>3 DEF At
  <2>2. QED
    BY <2>1 DEF EventsLead
<1>5. CardComes(h)'
  <2>1. CASE mapped
    BY <1>1, <2>1 DEF CardComes, Making, At
  <2>2. CASE ~mapped
    <3>1. inbox # <<>> /\ inbox[1].kind = "opened"
      BY <1>1, <2>2 DEF CardComes, Making, At
    <3>2. inbox' # inbox => m.kind = "opened"
      BY <3>1
    <3>3. QED
      BY <1>1, <1>2, <1>3, <2>2, <3>1, <3>2 DEF CardComes, Making, At
  <2>3. QED
    BY <2>1, <2>2
<1>6. LookStands(h)'
  BY <1>1, <1>2, <1>3, PlaceAssumption DEF LookStands, At, AboutOwnership
<1>7. NothingFails'
  BY <1>1 DEF NothingFails
<1>8. CardFollows(h)'
  <2>1. ASSUME mapped, NEW k, Coming(h, k) PROVE Coming(h, k)'
    BY <1>1, <2>1 DEF Coming, Writing, At, Later
  <2>2. QED
    BY <1>1, <2>1 DEF CardFollows, TurnKind
<1>9. QED
  BY <1>4, <1>5, <1>6, <1>7, <1>8
LEMMA ReceptionFollows ==
  ASSUME TypeOK, Delivered, NEW h \in Handlers, Follows(h), NEW n \in DOMAIN inbox, Receive(h, n)
  PROVE  Follows(h)'
<1>1. n = 1 /\ inbox' = Rest(1) /\ Begin(h, inbox[1])
  BY DEF Delivered, Receive
<1>2. /\ inbox \in Seq(Snapshot) /\ 1 \in DOMAIN inbox /\ inbox[1] \in Snapshot /\ inbox # <<>>
      /\ DOMAIN inbox \subseteq Nat /\ UNCHANGED <<regime, issue>>
  BY <1>1 DEF TypeOK, Begin
<1>3. /\ \A i : i \in DOMAIN inbox' <=> i \in DOMAIN inbox /\ i + 1 \in DOMAIN inbox
      /\ \A i \in DOMAIN inbox' : inbox'[i] = inbox[i + 1]
      /\ \A i \in Nat : \A k : Later(i, k)' <=> Later(i + 1, k)
  BY <1>1, <1>2, Handled
<1>4. issue.exists
  BY <1>2 DEF Follows, CardComes
<1>5. \A k : Later(1, k) => Later(0, k)'
  BY <1>3
<1>6. /\ WellFormed(inbox[1])
      /\ inbox[1].owner = issue.owner \/ Later(1, "unassigned")
           \/ (inbox[1].owner = Nobody /\ Later(1, "assigned"))
      /\ inbox[1].open = issue.open \/ Later(1, TurnKind)
  BY <1>2 DEF Follows, EventsLead, Leads, Turns
<1>7. PICK m \in Snapshot : m = inbox[1]
  BY <1>2
<1>8. WellFormed(m) /\ Leads(m.owner, 0)' /\ Turns(m.open, 0)'
  BY <1>2, <1>5, <1>6, <1>7 DEF Leads, Turns, TurnKind
<1>9. ASSUME NEW i \in DOMAIN inbox'
      PROVE  (WellFormed(inbox[i]) /\ Leads(inbox[i].owner, i) /\ Turns(inbox[i].open, i))'
  <2>1. i \in Nat /\ i + 1 \in DOMAIN inbox /\ inbox'[i] = inbox[i + 1]
    BY <1>2, <1>3
  <2>2. \A k : Later(i, k)' <=> Later(i + 1, k)
    BY <1>3, <2>1
  <2>3. WellFormed(inbox[i + 1]) /\ Leads(inbox[i + 1].owner, i + 1) /\ Turns(inbox[i + 1].open, i + 1)
    BY <2>1 DEF Follows, EventsLead
  <2>4. QED
    BY <1>2, <2>1, <2>2, <2>3 DEF Leads, Turns, TurnKind
<1>10. \A k : Later(0, k) => Later(0, k)' \/ m.kind = k
  <2>1. ASSUME NEW j \in DOMAIN inbox PROVE j = 1 \/ j > 1
    BY <1>2, <2>1
  <2>2. \A k : Later(0, k) => Later(1, k) \/ m.kind = k
    BY <1>7, <2>1 DEF Later
  <2>3. QED
    BY <1>5, <2>2
<1>11. QED
  BY <1>1, <1>2, <1>4, <1>7, <1>8, <1>9, <1>10, LookFollows

LEMMA CurrentFollows ==
  ASSUME TypeOK, Delivered, NEW h \in Handlers, Follows(h), issue.exists, UNCHANGED inbox,
         NEW kind \in Kinds, Begin(h, Current(kind)),
         kind \notin {"assigned", "unassigned"},
         kind = "reopened" => issue.open, kind = "closed" => ~issue.open
  PROVE  Follows(h)'
<1>1. /\ inbox \in Seq(Snapshot) /\ UNCHANGED <<regime, issue>>
      /\ issue \in [exists : BOOLEAN, open : BOOLEAN, owner : People]
  BY DEF TypeOK, Begin
<1>2. PICK m \in Snapshot : m = Current(kind)
  BY <1>1 DEF Current, Snapshot
<1>3. m.kind = kind /\ m.open = issue.open /\ m.owner = issue.owner
  BY <1>2 DEF Current
<1>4. WellFormed(m) /\ Leads(m.owner, 0)' /\ Turns(m.open, 0)'
  BY <1>1, <1>3 DEF WellFormed, Leads, Turns
<1>5. \A i \in DOMAIN inbox' :
        (WellFormed(inbox[i]) /\ Leads(inbox[i].owner, i) /\ Turns(inbox[i].open, i))'
  BY <1>1 DEF Follows, EventsLead, Leads, Turns, Later, TurnKind
<1>6. Begin(h, m)
  BY <1>2
<1>7. QED
  BY <1>1, <1>4, <1>5, <1>6, LookFollows

LEMMA LookingFollows ==
  ASSUME TypeOK, Delivered, NEW h \in Handlers, Follows(h),
         (\E i \in DOMAIN inbox : Receive(h, i)) \/ Sweep(h) \/ Poll(h)
  PROVE  Follows(h)'
<1>1. issue \in [exists : BOOLEAN, open : BOOLEAN, owner : People]
  BY DEF TypeOK
<1>2. ASSUME Sweep(h) PROVE Follows(h)'
  <2>1. PICK kind \in {"opened", "edited", "closed"} :
          Begin(h, Current(kind)) /\ (kind = "closed" => ~issue.open)
    BY <1>1, <1>2 DEF Sweep
  <2>2. QED
    BY <1>2, <2>1, CurrentFollows DEF Sweep, Kinds
<1>3. ASSUME Poll(h) PROVE Follows(h)'
  <2>1. PICK kind \in {"opened", "closed", "reopened", "labeled"} :
          /\ Begin(h, Current(kind))
          /\ kind = "closed" => ~issue.open
          /\ kind = "reopened" => issue.open
    BY <1>1, <1>3 DEF Poll, News
  <2>2. QED
    BY <1>3, <2>1, CurrentFollows DEF Poll, Kinds
<1>4. QED
  BY <1>2, <1>3, ReceptionFollows
-----------------------------------------------------------------------------
(* The handler is done: what the card does not show yet is in the inbox. *)
LEMMA EndFollows ==
  ASSUME TypeOK, NEW h \in Handlers, Follows(h), ~At(h, "idle"),
         UNCHANGED <<regime, issue, inbox, budget>>, task'[h] = Idle, mapped', ~patchFailed',
         \/ card'.who = Engineer(issue.owner)
         \/ Later(0, "unassigned")
         \/ card'.who = Nobody /\ Later(0, "assigned"),
         regime.budget.moves = 0 =>
           (issue.open <=> card'.place # "completed") \/ Later(0, TurnKind)
  PROVE  Follows(h)'
<1> USE DEF Follows
<1>1. Idle.pc = "idle" /\ issue.exists
  BY DEF Idle, CardComes
<1>2. EventsLead(h)' /\ CardComes(h)' /\ LookStands(h)' /\ NothingFails'
  BY <1>1 DEF EventsLead, CardComes, LookStands, NothingFails, Leads, Turns, TurnKind, Later, At, Making
<1>3. CardFollows(h)'
  BY DEF CardFollows, Coming, Later, TurnKind
<1>4. QED
  BY <1>2, <1>3

LEMMA CreationFollows ==
  ASSUME TypeOK, Delivered, NEW h \in Handlers, Follows(h),
         Reserve(h) \/ CreateTask(h) \/ CreateFails(h) \/ FinishOpened(h)
  PROVE  Follows(h)'
<1> USE DEF Follows
<1>1. /\ budget["refused"] = 0 /\ ~mapped /\ issue.exists /\ Making(h) /\ ~At(h, "write")
      /\ task \in [Handlers -> [pc : PCs, msg : Snapshot, saw : Look]]
  BY DEF NothingFails, CardComes, Reserve, CreateTask, CreateFails, FinishOpened, At, Making, TypeOK
<1>2. ASSUME Reserve(h) \/ CreateTask(h) PROVE Follows(h)'
  <2>1. PICK pc \in {"create", "finish"} : Go(h, pc)
    BY <1>1, <1>2 DEF Reserve, CreateTask
  <2>2. task'[h].pc = pc /\ task'[h].msg = task[h].msg
    BY <1>1, <2>1 DEF Go
  <2>3. UNCHANGED <<regime, issue, inbox, mapped, card, patchFailed, budget>>
    BY <1>2 DEF Reserve, CreateTask
  <2>4. EventsLead(h)'
    BY <1>1, <2>2, <2>3 DEF EventsLead, Leads, Turns, TurnKind, Later, At, Making
  <2>5. CardComes(h)' /\ LookStands(h)' /\ NothingFails' /\ CardFollows(h)'
    BY <1>1, <2>2, <2>3 DEF CardComes, LookStands, NothingFails, CardFollows, At, Making
  <2>6. QED
    BY <2>4, <2>5
<1>3. ASSUME FinishOpened(h) PROVE Follows(h)'
  <2> DEFINE m == task[h].msg
  <2>1. /\ mapped' /\ ~patchFailed' /\ UNCHANGED <<regime, issue, inbox, budget>> /\ Done(h)
        /\ card'.place = StatusIntent(m, IF m.owner \in OnBoard THEN m.owner ELSE Nobody)
        /\ card'.who = Engineer(m.owner)
    BY <1>1, <1>3 DEF FinishOpened, Spend
  <2>2. task'[h] = Idle
    BY <2>1, WhereItGoes
  <2>3. Leads(m.owner, 0) /\ Turns(m.open, 0)
    BY <1>1 DEF EventsLead, Making, At
  <2>4. Engineer(Nobody) = Nobody
    BY DEF Engineer
  <2>5. card'.place = "completed" <=> ~m.open
    BY <2>1 DEF StatusIntent
  <2>6. /\ ~At(h, "idle") /\ m.open \in BOOLEAN /\ issue.open \in BOOLEAN
    BY <1>1 DEF Making, At, Snapshot, TypeOK
  <2>7. QED
    BY <2>1, <2>2, <2>3, <2>4, <2>5, <2>6, EndFollows DEF Leads, Turns
<1>4. QED
  BY <1>1, <1>2, <1>3 DEF CreateFails, Spend

LEMMA ClosingFollows ==
  ASSUME TypeOK, Delivered, NEW h \in Handlers, Follows(h), HandleClosed(h) \/ HandleReopened(h),
         NeverFromCompleted
  PROVE  Follows(h)'
<1> USE DEF Follows
<1> DEFINE m == task[h].msg
<1>1. /\ budget["refused"] = 0 /\ ~patchFailed /\ mapped /\ At(h, "write") /\ ~At(h, "idle")
      /\ task[h].saw.resume # "completed" /\ m.kind \in {"closed", "reopened"}
      /\ card \in [place : Places, who : People] /\ issue.open \in BOOLEAN /\ m.open \in BOOLEAN
  BY DEF NothingFails, CardComes, HandleClosed, HandleReopened, At, NeverFromCompleted, TypeOK, Snapshot
<1>2. /\ UNCHANGED <<regime, issue, inbox, budget, mapped, patchFailed>> /\ Done(h)
      /\ card'.who = card.who
      /\ card'.place = "completed" <=> m.kind = "closed"
  <2>1. ~Spend("refused")
    BY <1>1 DEF Spend
  <2>2. CASE HandleClosed(h)
    <3>1. card' = [card EXCEPT !.place = "completed"] /\ UNCHANGED budget /\ m.kind = "closed"
      BY <2>1, <2>2 DEF HandleClosed
    <3>2. QED
      BY <1>1, <2>2, <3>1 DEF HandleClosed
  <2>3. CASE HandleReopened(h)
    <3>1. /\ \E p : card' = [card EXCEPT !.place = p] /\ p # "completed"
          /\ UNCHANGED budget /\ m.kind = "reopened"
      BY <1>1, <2>1, <2>3 DEF HandleReopened
    <3>2. card'.place # "completed" /\ card'.who = card.who
      BY <1>1, <3>1
    <3>3. QED
      BY <2>3, <3>1, <3>2 DEF HandleReopened
  <2>4. QED
    BY <2>2, <2>3
<1>3. task'[h] = Idle
  BY <1>2, WhereItGoes
<1>4. WellFormed(m) /\ Turns(m.open, 0)
  BY <1>1 DEF EventsLead
<1>5. regime.budget.moves = 0 => (issue.open <=> card'.place # "completed") \/ Later(0, TurnKind)
  BY <1>1, <1>2, <1>4 DEF WellFormed, Turns
<1>6. \/ card'.who = Engineer(issue.owner)
      \/ Later(0, "unassigned")
      \/ card'.who = Nobody /\ Later(0, "assigned")
  BY <1>1, <1>2 DEF CardFollows, Coming, Writing
<1>7. QED
  BY <1>1, <1>2, <1>3, <1>5, <1>6, EndFollows

(* What a change writes, when the handler's look still stands. *)
LEMMA ChangeWrites ==
  ASSUME TypeOK, NEW h \in Handlers, Follows(h), HandleChanged(h)
  PROVE  LET m == task[h].msg  saw == task[h].saw IN
         /\ At(h, "write") /\ mapped /\ Done(h) /\ card'.place \in Places
         /\ UNCHANGED <<regime, issue, inbox, budget, mapped, patchFailed>>
         /\ card'.who = IF Owns(m) /\ m.owner = Nobody THEN Nobody
                        ELSE IF Engineer(m.owner) # Nobody /\ (Owns(m) \/ card.who = Nobody)
                             THEN Engineer(m.owner) ELSE card.who
         /\ ~m.open => card'.place = "completed"
         /\ m.open => \/ card'.place = card.place /\ (Owns(m) => HeldBack(m, saw))
                      \/ /\ Owns(m) /\ ~HeldBack(m, saw)
                         /\ card'.place = StatusIntent(m, Engineer(m.owner))
                      \/ card.place = "needs_assigned" /\ card'.place = "assigned"
                         /\ Engineer(m.owner) # Nobody /\ (Owns(m) \/ card.who = Nobody)
<1> USE DEF Follows
<1> DEFINE m == task[h].msg  saw == task[h].saw
<1>1. /\ budget["refused"] = 0 /\ ~patchFailed /\ At(h, "write") /\ mapped
      /\ saw.place # Unreadable /\ saw.who = card.who
  BY DEF NothingFails, CardComes, HandleChanged, LookStands
<1>2. /\ card' = IF Bumps(m, saw) THEN Bumped(Patched(m, saw)) ELSE Patched(m, saw)
      /\ UNCHANGED budget
  BY <1>1 DEF HandleChanged, Spend
<1>3. /\ UNCHANGED <<regime, issue, inbox, mapped, patchFailed>> /\ Done(h)
  BY DEF HandleChanged
<1>4. ~Dropped(m, saw) /\ ~Repairs(m)
  BY <1>1 DEF Dropped, Repairs
<1>5. Pushes(m, saw) = IF Owns(m) \/ card.who = Nobody THEN Engineer(m.owner) ELSE Nobody
  BY <1>1, <1>4 DEF Pushes
<1>6. Clears(m, saw) <=> Owns(m) /\ m.owner = Nobody
  BY <1>4 DEF Clears
<1>7. Engineer(Nobody) = Nobody
  BY DEF Engineer
<1>8. Patched(m, saw).who = IF Owns(m) /\ m.owner = Nobody THEN Nobody
                            ELSE IF Engineer(m.owner) # Nobody /\ (Owns(m) \/ card.who = Nobody)
                                 THEN Engineer(m.owner) ELSE card.who
  BY <1>5, <1>6, <1>7 DEF Patched
<1>9. Patched(m, saw) \in [place : Places, who : Eligible \cup {Nobody}]
  BY PatchIsTyped
<1>10. Bumped(Patched(m, saw)).who = Patched(m, saw).who
  BY <1>9 DEF Bumped
<1>11. Bumped(Patched(m, saw)).place = IF Patched(m, saw).place = "needs_assigned" THEN "assigned"
                                       ELSE Patched(m, saw).place
  BY <1>9 DEF Bumped
<1>12. Stated(m, saw) = IF ~m.open THEN "completed"
                        ELSE IF Owns(m) /\ ~HeldBack(m, saw) THEN StatusIntent(m, Engineer(m.owner))
                        ELSE NoPlace
  BY <1>4 DEF Stated, StatesStatus, HeldBack, StatusIntent
<1>13. Patched(m, saw).place = IF Stated(m, saw) # NoPlace THEN Stated(m, saw) ELSE card.place
  BY DEF Patched
<1>14. Stated(m, saw) # NoPlace => ~Bumps(m, saw)
  BY DEF Bumps
<1>15. "completed" # NoPlace /\ "completed" \in Places /\ "assigned" \in Places
  BY PlaceAssumption DEF Places
<1>16. card'.place \in Places
  BY <1>2, <1>9, <1>11, <1>15
<1>17. card'.who = Patched(m, saw).who
  BY <1>2, <1>10
<1>18. ~m.open => card'.place = "completed"
  BY <1>2, <1>12, <1>13, <1>14, <1>15
<1>19. m.open => \/ card'.place = card.place /\ (Owns(m) => HeldBack(m, saw))
                 \/ /\ Owns(m) /\ ~HeldBack(m, saw)
                    /\ card'.place = StatusIntent(m, Engineer(m.owner))
                 \/ card.place = "needs_assigned" /\ card'.place = "assigned"
                    /\ Engineer(m.owner) # Nobody /\ (Owns(m) \/ card.who = Nobody)
  <2>1. StatusIntent(m, Engineer(m.owner)) # NoPlace
    BY PlaceAssumption, IntentIsAPlace
  <2>2. QED
    BY <1>2, <1>5, <1>11, <1>12, <1>13, <1>14, <2>1 DEF Bumps
<1>20. QED
  BY <1>1, <1>2, <1>3, <1>8, <1>16, <1>17, <1>18, <1>19
LEMMA ChangeFollows ==
  ASSUME TypeOK, Delivered, NEW h \in Handlers, Follows(h), HandleChanged(h)
  PROVE  Follows(h)'
<1> USE DEF Follows
<1> DEFINE m == task[h].msg  saw == task[h].saw
<1>1. /\ At(h, "write") /\ mapped /\ Done(h) /\ ~patchFailed /\ m.kind \in ChangeKinds
      /\ UNCHANGED <<regime, issue, inbox, budget, mapped, patchFailed>>
      /\ card'.who = IF Owns(m) /\ m.owner = Nobody THEN Nobody
                     ELSE IF Engineer(m.owner) # Nobody /\ (Owns(m) \/ card.who = Nobody)
                          THEN Engineer(m.owner) ELSE card.who
      /\ ~m.open => card'.place = "completed"
      /\ m.open => \/ card'.place = card.place
                   \/ /\ Owns(m) /\ ~HeldBack(m, saw)
                      /\ card'.place = StatusIntent(m, Engineer(m.owner))
                   \/ card.place = "needs_assigned" /\ card'.place = "assigned"
                      /\ Engineer(m.owner) # Nobody /\ (Owns(m) \/ card.who = Nobody)
  BY ChangeWrites DEF NothingFails, HandleChanged
<1>2. /\ WellFormed(m) /\ Leads(m.owner, 0) /\ Turns(m.open, 0) /\ ~At(h, "idle")
      /\ m.open \in BOOLEAN /\ issue.open \in BOOLEAN
      /\ task'[h] = Idle
  BY <1>1, WhereItGoes DEF EventsLead, At, TypeOK, Snapshot
<1>3. Engineer(Nobody) = Nobody
  BY IssueAssumption DEF Engineer
<1>4. Owns(m) <=> m.kind \in {"assigned", "unassigned"}
  BY DEF Owns
<1>5. \/ card'.who = Engineer(issue.owner)
      \/ Later(0, "unassigned")
      \/ card'.who = Nobody /\ Later(0, "assigned")
  <2>1. CASE m.kind = "unassigned"
    BY <1>1, <1>2, <1>3, <1>4, <2>1 DEF WellFormed, Leads
  <2>2. CASE m.kind = "assigned"
    <3>1. m.owner # Nobody /\ (m.owner = issue.owner \/ Later(0, "unassigned"))
      BY <1>2, <2>2 DEF WellFormed, Leads
    <3>2. CASE Engineer(m.owner) # Nobody
      BY <1>1, <1>4, <2>2, <3>1, <3>2
    <3>3. CASE Engineer(m.owner) = Nobody
      <4>1. card'.who = card.who
        BY <1>1, <3>1, <3>3
      <4>2. \/ card.who = Engineer(issue.owner) \/ Coming(h, "unassigned") \/ card.who = Nobody
        BY <1>1 DEF CardFollows
      <4>3. QED
        BY <2>2, <3>1, <3>3, <4>1, <4>2 DEF Coming, Writing
    <3>4. QED
      BY <3>2, <3>3
  <2>3. CASE ~Owns(m)
    <3>1. \/ card.who = Engineer(issue.owner)
          \/ Later(0, "unassigned")
          \/ card.who = Nobody /\ Later(0, "assigned")
      BY <1>1, <1>4, <2>3 DEF CardFollows, Coming, Writing
    <3>2. card'.who = card.who \/ (card'.who = Engineer(m.owner) /\ Engineer(m.owner) # Nobody)
      BY <1>1, <2>3
    <3>3. QED
      BY <1>2, <1>3, <3>1, <3>2 DEF Leads
  <2>4. QED
    BY <1>4, <2>1, <2>2, <2>3
<1>6. ASSUME regime.budget.moves = 0
      PROVE  (issue.open <=> card'.place # "completed") \/ Later(0, TurnKind)
  <2>1. CASE ~m.open
    BY <1>1, <1>2, <2>1 DEF Turns
  <2>2. CASE m.open
    <3>1. StatusIntent(m, Engineer(m.owner)) \in AboutOwnership
      BY <2>2, IntentIsAPlace
    <3>2. card.place = "completed" => card'.place = "completed"
      <4>1. ASSUME card.place = "completed", Owns(m), ~HeldBack(m, saw) PROVE FALSE
        <5>1. saw.place = "completed"
          BY <1>1, <1>6, <4>1 DEF LookStands
        <5>2. Rank(StatusIntent(m, Engineer(m.owner))) < Rank("completed")
          BY <3>1 DEF Rank, AboutOwnership
        <5>3. WouldRegress(saw.place, StatusIntent(m, Engineer(m.owner)))
          BY <3>1, <5>1, <5>2 DEF WouldRegress, Places, AboutOwnership
        <5>4. QED
          BY <2>2, <4>1, <5>3 DEF HeldBack
      <4>2. QED
        BY <1>1, <2>2, <4>1
    <3>3. card.place # "completed" => card'.place # "completed"
      BY <1>1, <2>2, <3>1 DEF AboutOwnership
    <3>4. m.kind # TurnKind
      BY <1>1 DEF TurnKind, ChangeKinds
    <3>5. (issue.open <=> card.place # "completed") \/ Later(0, TurnKind)
      BY <1>1, <1>6, <3>4 DEF CardFollows, Coming, Writing
    <3>6. QED
      BY <3>2, <3>3, <3>5
  <2>3. QED
    BY <2>1, <2>2
<1>7. QED
  BY <1>1, <1>2, <1>5, <1>6, EndFollows

LEMMA FollowPreserved == FollowInv /\ [Next]_vars => FollowInv'
<1> SUFFICES ASSUME FollowInv, [Next]_vars PROVE FollowInv'
  OBVIOUS
<1>1. IInv /\ IInv' /\ TypeOK /\ OthersIdle /\ NeverFromCompleted /\ regime' = regime
  BY NextPreserves, RegimeIsFixed DEF FollowInv, IInv
<1>2. OthersIdle' /\ NeverFromCompleted'
  BY <1>1, SidePreserves
<1>3. ASSUME Delivered, NEW h \in regime.handlers PROVE Follows(h)'
  <2>1. regime.handlers = {h} /\ h \in Handlers /\ Follows(h)
    BY <1>1, <1>3, TheHandler DEF Delivered, FollowInv
  <2>2. CASE UNCHANGED vars
    BY <2>1, <2>2
    DEF Follows, EventsLead, CardComes, LookStands, NothingFails, CardFollows, Coming, Writing,
        Later, Leads, Turns, TurnKind, At, Making, vars
  <2>3. QED
    BY <1>1, <1>3, <2>1, <2>2, WhoseStep, GitHubFollows, EnvironmentFollows, LookingFollows,
       CreationFollows, ClosingFollows, ChangeFollows DEF Works
<1>4. Delivered' <=> Delivered
  BY <1>1 DEF Delivered
<1>5. QED
  BY <1>1, <1>2, <1>3, <1>4 DEF FollowInv
-----------------------------------------------------------------------------
(* The column.  Owners resolve to themselves when they may be developers. *)
LEMMA OwnersResolve ==
  ASSUME TypeOK, OwnersDevelop, NEW o \in regime.people \cup {Nobody}
  PROVE  Engineer(o) = o /\ (o # Nobody => o \in OnBoard)
BY IssueAssumption, RegimeIsTyped DEF OwnersDevelop, Engineer

LEMMA GitHubNames ==
  ASSUME TypeOK, Delivered, NEW h \in Handlers, Follows(h), Named(h), GitHubStep
  PROVE  Named(h)'
<1>1. /\ inbox \in Seq(Snapshot) /\ DOMAIN inbox = 1 .. Len(inbox) /\ Len(inbox) \in Nat
      /\ issue \in [exists : BOOLEAN, open : BOOLEAN, owner : People]
  BY DEF TypeOK
<1>2. /\ regime.webhooks
      /\ UNCHANGED <<regime, mapped, card, task>>
  BY DEF Delivered, GitHubStep, Raise, Assign, Unassign, Relabel, Close, Reopen, Send, service
<1>3. issue'.owner \in regime.people \cup {Nobody} /\ issue' \in [exists : BOOLEAN, open : BOOLEAN, owner : People]
  <2>1. regime.people \subseteq People /\ Nobody \in People
    BY RegimeIsTyped DEF People
  <2>2. issue.owner \in regime.people \cup {Nobody}
    BY DEF Named, OnlyPeople
  <2>3. \/ \E l \in regime.people \cup {Nobody} :
             issue' = [exists |-> TRUE, open |-> TRUE, owner |-> l] \/ issue' = [issue EXCEPT !.owner = l]
        \/ \E open \in BOOLEAN : issue' = [issue EXCEPT !.open = open]
        \/ issue' = issue
    BY DEF GitHubStep, Raise, Assign, Unassign, Relabel, Close, Reopen
  <2>4. ASSUME NEW l \in regime.people \cup {Nobody},
               issue' = [exists |-> TRUE, open |-> TRUE, owner |-> l] \/ issue' = [issue EXCEPT !.owner = l]
        PROVE  issue'.owner = l /\ issue' \in [exists : BOOLEAN, open : BOOLEAN, owner : People]
    <3>1. l \in People
      BY <2>1
    <3>2. CASE issue' = [exists |-> TRUE, open |-> TRUE, owner |-> l]
      BY <3>1, <3>2
    <3>3. CASE issue' = [issue EXCEPT !.owner = l]
      BY <1>1, <3>1, <3>3
    <3>4. QED
      BY <2>4, <3>2, <3>3
  <2>5. ASSUME NEW open \in BOOLEAN, issue' = [issue EXCEPT !.open = open]
        PROVE  issue'.owner = issue.owner /\ issue' \in [exists : BOOLEAN, open : BOOLEAN, owner : People]
    BY <1>1, <2>5
  <2>6. QED
    BY <1>1, <2>2, <2>3, <2>4, <2>5
<1>4. PICK m \in Snapshot : /\ inbox' = Append(inbox, m) /\ m.owner = issue'.owner
                            /\ Assumes(m) => issue.owner = issue'.owner
  <2>1. PICK kind \in Kinds : Send(kind) /\ (issue.owner = issue'.owner \/ issue'.owner = Nobody
                                             \/ kind \in {"assigned", "opened"})
    BY <1>1 DEF GitHubStep, Raise, Assign, Unassign, Relabel, Close, Reopen, Kinds
  <2>2. Message(kind) \in Snapshot /\ Message(kind).owner = issue'.owner /\ Message(kind).kind = kind
    BY <1>3 DEF Message, Snapshot
  <2>3. QED
    BY <1>2, <2>1, <2>2 DEF Send, Assumes
<1>5. /\ DOMAIN inbox' = DOMAIN inbox \cup {Len(inbox) + 1} /\ inbox' # <<>>
      /\ inbox'[Len(inbox) + 1] = m
      /\ \A i \in DOMAIN inbox : inbox'[i] = inbox[i]
  BY <1>1, <1>4, Appended
<1>6. Fills(h)' <=> Fills(h)
  BY <1>2 DEF Fills, Making, Writing, At
<1>7. ASSUME NEW i \in DOMAIN inbox', Assumes(inbox'[i]), i # 1 PROVE inbox'[i - 1].owner # Nobody
  <2>1. i - 1 \in DOMAIN inbox /\ inbox'[i - 1] = inbox[i - 1]
    BY <1>1, <1>5, <1>7
  <2>2. CASE i \in DOMAIN inbox
    BY <1>5, <1>7, <2>1, <2>2 DEF Named, OwnerIsThere
  <2>3. CASE i = Len(inbox) + 1
    <3>1. Len(inbox) \in DOMAIN inbox /\ \A k : ~Later(Len(inbox), k)
      BY <1>1, <2>1, <2>3 DEF Later
    <3>2. inbox[Len(inbox)].owner = issue.owner
      BY <3>1 DEF Follows, EventsLead, Leads
    <3>3. i - 1 = Len(inbox)
      BY <1>1, <2>3
    <3>4. QED
      BY <1>4, <1>5, <1>7, <2>1, <2>3, <3>2, <3>3 DEF Assumes
  <2>4. QED
    BY <1>5, <2>2, <2>3
<1>8. ASSUME 1 \in DOMAIN inbox', Assumes(inbox'[1]) PROVE Fills(h)
  <2>1. CASE 1 \in DOMAIN inbox
    BY <1>5, <1>8, <2>1 DEF Named, OwnerIsThere
  <2>2. CASE 1 \notin DOMAIN inbox
    <3>1. inbox = <<>> /\ inbox'[1] = m
      BY <1>1, <1>5, <2>2
    <3>2. QED
      BY <1>4, <1>8, <3>1 DEF Named, OwnerIsThere, Assumes
  <2>3. QED
    BY <2>1, <2>2
<1>9. OwnerIsThere(h)'
  <2>1. Writing(h, "reopened")' /\ task'[h].msg.owner # Nobody => card'.who # Nobody
    BY <1>2 DEF Named, OwnerIsThere, Writing, At
  <2>2. QED
    BY <1>5, <1>6, <1>7, <1>8, <2>1 DEF OwnerIsThere
<1>10. OnlyPeople(h)' /\ AssignedHasSomebody'
  BY <1>2, <1>3, <1>4, <1>5 DEF Named, OnlyPeople, AssignedHasSomebody
<1>11. QED
  BY <1>9, <1>10 DEF Named

LEMMA EnvironmentNames ==
  ASSUME TypeOK, Delivered, NEW h \in Handlers, Follows(h), Named(h), Environment
  PROVE  Named(h)'
<1>0. budget["lost"] = 0 /\ budget["crashes"] = 0
  BY DEF Follows, NothingFails
<1>1. ASSUME NEW place \in {"in_progress", "in_qa", "completed"}, MoveCard(place) PROVE Named(h)'
  <2>1. /\ card'.who = card.who /\ card'.place = place
        /\ UNCHANGED <<regime, issue, inbox, mapped, task>>
    BY <1>1 DEF TypeOK, MoveCard
  <2>2. Fills(h)' <=> Fills(h)
    BY <2>1 DEF Fills, Making, Writing, At
  <2>3. QED
    BY <2>1, <2>2 DEF Named, AssignedHasSomebody, OwnerIsThere, OnlyPeople, Writing, At
<1>2. ASSUME NEW i \in DOMAIN inbox, Redeliver(i) PROVE Named(h)'
  <2>1. /\ inbox \in Seq(Snapshot) /\ DOMAIN inbox \subseteq Nat /\ 1 <= i
        /\ UNCHANGED <<regime, issue, mapped, card, task>>
        /\ inbox' = SubSeq(inbox, 1, i) \o SubSeq(inbox, i, Len(inbox))
    BY <1>2 DEF TypeOK, Redeliver, service
  <2>2. /\ \A j \in DOMAIN inbox' : j <= i => j \in DOMAIN inbox /\ inbox'[j] = inbox[j]
        /\ \A j \in DOMAIN inbox' : j > i => j - 1 \in DOMAIN inbox /\ inbox'[j] = inbox[j - 1]
        /\ inbox' # <<>>
    BY <2>1, Repeated
  <2>3. DOMAIN inbox' = 1 .. Len(inbox') /\ Len(inbox') \in Nat /\ inbox' \in Seq(Snapshot)
    <3>1. SubSeq(inbox, 1, i) \in Seq(Snapshot) /\ SubSeq(inbox, i, Len(inbox)) \in Seq(Snapshot)
      BY <2>1
    <3>2. inbox' \in Seq(Snapshot)
      BY <2>1, <3>1
    <3>3. QED
      BY <3>2
  <2>4. Fills(h)' <=> Fills(h)
    BY <2>1 DEF Fills, Making, Writing, At
  <2>5. \A j \in DOMAIN inbox : Assumes(inbox[j]) => IF j = 1 THEN Fills(h) ELSE inbox[j - 1].owner # Nobody
    BY DEF Named, OwnerIsThere
  <2>6. ASSUME NEW j \in DOMAIN inbox', Assumes(inbox'[j])
        PROVE  IF j = 1 THEN Fills(h) ELSE inbox'[j - 1].owner # Nobody
    <3>1. CASE j <= i
      <4>1. j - 1 \in DOMAIN inbox' \/ j = 1
        BY <2>3
      <4>2. QED
        BY <2>1, <2>2, <2>3, <2>5, <2>6, <3>1, <4>1
    <3>2. CASE j = i + 1
      <4>1. i \in DOMAIN inbox' /\ inbox'[i] = inbox[i] /\ inbox'[j] = inbox[i] /\ j - 1 = i /\ j # 1
        BY <2>1, <2>2, <2>3, <3>2
      <4>2. QED
        BY <2>6, <4>1 DEF Assumes
    <3>3. CASE j > i + 1
      <4>1. j - 1 \in DOMAIN inbox' /\ j - 1 > i /\ j # 1 /\ j - 1 # 1
        BY <2>1, <2>3, <3>3
      <4>2. PICK e : e = j - 1
        OBVIOUS
      <4>3. e \in DOMAIN inbox' /\ e > i /\ e # 1 /\ j > i
        BY <2>1, <2>3, <3>3, <4>1, <4>2
      <4>4. e \in DOMAIN inbox /\ inbox'[j] = inbox[e] /\ inbox'[e] = inbox[e - 1]
        BY <2>2, <4>2, <4>3
      <4>5. QED
        BY <2>5, <2>6, <4>1, <4>2, <4>3, <4>4
    <3>4. QED
      BY SMTT(30), <2>1, <2>3, <3>1, <3>2, <3>3
  <2>7. OwnerIsThere(h)'
    BY <2>1, <2>2, <2>4, <2>6 DEF Named, OwnerIsThere, Writing, At
  <2>8. OnlyPeople(h)' /\ AssignedHasSomebody'
    <3>1. ASSUME NEW j \in DOMAIN inbox' PROVE \E e \in DOMAIN inbox : inbox'[j] = inbox[e]
      <4>1. j <= i \/ j > i
        BY <2>1, <2>3
      <4>2. QED
        BY <2>2, <4>1
    <3>2. QED
      BY <2>1, <3>1 DEF Named, OnlyPeople, AssignedHasSomebody
  <2>9. QED
    BY <2>7, <2>8 DEF Named
<1>3. QED
  BY <1>0, <1>1, <1>2 DEF Environment, Lose, Restart, Spend

(* The handler looks at an event that the column is ready for. *)
LEMMA LookNames ==
  ASSUME TypeOK, NEW h \in Handlers, Follows(h), Named(h), NEW m \in Snapshot, Begin(h, m),
         UNCHANGED <<regime, issue>>, WellFormed(m), m.owner \in regime.people \cup {Nobody},
         ~mapped => m.kind = "opened",
         \A i \in DOMAIN inbox' : inbox'[i].owner \in regime.people \cup {Nobody},
         m.kind = "reopened" /\ m.owner # Nobody => mapped /\ card.who # Nobody,
         Fills(h)' =>
           /\ \A i \in DOMAIN inbox' :
                Assumes(inbox'[i]) => IF i = 1 THEN Fills(h)' ELSE inbox'[i - 1].owner # Nobody
           /\ inbox' = <<>> /\ issue.owner # Nobody => Fills(h)',
         ~Fills(h)' =>
           /\ \A i \in DOMAIN inbox' : Assumes(inbox'[i]) => i # 1 /\ inbox'[i - 1].owner # Nobody
           /\ inbox' = <<>> => issue.owner = Nobody
  PROVE  Named(h)'
<1>1. UNCHANGED <<mapped, card>> /\ Idle.msg.owner = Nobody /\ Idle.pc = "idle"
  BY DEF Begin, Idle
<1>2. /\ At(h, "idle") /\ \A g \in Handlers \ {h} : task'[g] = task[g]
      /\ ~mapped => task'[h] = [Idle EXCEPT !.pc = "reserve", !.msg = m]
      /\ mapped => task'[h].pc = "write" /\ task'[h].msg = m
  BY BeginLooks
<1>3. task'[h].msg = m
  BY <1>2 DEF Idle
<1>4. OwnerIsThere(h)'
  BY <1>1, <1>3 DEF OwnerIsThere, Writing
<1>5. OnlyPeople(h)' /\ AssignedHasSomebody'
  BY <1>1, <1>3 DEF Named, OnlyPeople, AssignedHasSomebody
<1>6. QED
  BY <1>4, <1>5 DEF Named

LEMMA LookFills ==
  ASSUME TypeOK, NEW h \in Handlers, NEW m \in Snapshot, Begin(h, m), WellFormed(m),
         ~mapped => m.kind = "opened"
  PROVE  /\ m.owner # Nobody /\ (Assumes(m) => Fills(h)) => Fills(h)'
         /\ Fills(h) /\ m.kind # "unassigned" => Fills(h)'
<1>1. UNCHANGED <<mapped, card>>
  BY DEF Begin
<1>2. /\ At(h, "idle")
      /\ ~mapped => task'[h].pc = "reserve" /\ task'[h].msg = m
      /\ mapped => task'[h].pc = "write" /\ task'[h].msg = m
  <2>1. [Idle EXCEPT !.pc = "reserve", !.msg = m].pc = "reserve"
        /\ [Idle EXCEPT !.pc = "reserve", !.msg = m].msg = m
    BY DEF Idle
  <2>2. QED
    BY <2>1, BeginLooks
<1>3. Fills(h) <=> mapped /\ card.who # Nobody
  BY <1>2 DEF Fills, Making, Writing, At
<1>4. m.kind \in Kinds
  BY DEF Snapshot
<1>5. CASE mapped
  BY <1>1, <1>2, <1>3, <1>4, <1>5 DEF Fills, Making, Writing, At, Assumes, WellFormed, Kinds
<1>6. CASE ~mapped
  BY <1>1, <1>2, <1>3, <1>6 DEF Fills, Making
<1>7. QED
  BY <1>5, <1>6

LEMMA LookingNames ==
  ASSUME TypeOK, Delivered, ~regime.polls, NEW h \in Handlers, Follows(h), Named(h),
         (\E i \in DOMAIN inbox : Receive(h, i)) \/ Sweep(h) \/ Poll(h)
  PROVE  Named(h)'
<1>1. /\ inbox \in Seq(Snapshot) /\ DOMAIN inbox = 1 .. Len(inbox) /\ Len(inbox) \in Nat
      /\ issue \in [exists : BOOLEAN, open : BOOLEAN, owner : People]
      /\ issue.owner \in regime.people \cup {Nobody}
      /\ \A i \in DOMAIN inbox : /\ inbox[i].owner \in regime.people \cup {Nobody}
                                 /\ Assumes(inbox[i]) =>
                                      IF i = 1 THEN Fills(h) ELSE inbox[i - 1].owner # Nobody
      /\ inbox = <<>> /\ issue.owner # Nobody => Fills(h)
  BY DEF TypeOK, Named, OnlyPeople, OwnerIsThere
<1>2. ASSUME Sweep(h) PROVE Named(h)'
  <2>1. PICK kind \in {"opened", "edited", "closed"} :
          /\ Begin(h, Current(kind)) /\ (~mapped => kind = "opened")
          /\ kind = "closed" => ~issue.open
    BY <1>1, <1>2 DEF Sweep
  <2>2. PICK m \in Snapshot : m = Current(kind)
    BY <1>1 DEF Current, Snapshot, Kinds
  <2>3. /\ m.kind = kind /\ m.owner = issue.owner /\ WellFormed(m) /\ Begin(h, m)
        /\ UNCHANGED <<regime, issue, inbox>>
    BY <1>2, <2>1, <2>2 DEF Current, WellFormed, Begin, Sweep
  <2>4. Fills(h) => Fills(h)'
    BY <2>1, <2>3, LookFills
  <2>5. QED
    BY <1>1, <2>1, <2>3, <2>4, LookNames
<1>3. ASSUME NEW n \in DOMAIN inbox, Receive(h, n) PROVE Named(h)'
  <2>1. n = 1 /\ inbox' = Rest(1) /\ Begin(h, inbox[1]) /\ 1 \in DOMAIN inbox
        /\ UNCHANGED <<regime, issue>>
    BY <1>3 DEF Delivered, Receive, Begin
  <2>2. PICK m \in Snapshot : m = inbox[1]
    BY <1>1, <2>1
  <2>3. /\ \A i : i \in DOMAIN inbox' <=> i \in DOMAIN inbox /\ i + 1 \in DOMAIN inbox
        /\ \A i \in DOMAIN inbox' : inbox'[i] = inbox[i + 1]
        /\ inbox' = <<>> => Len(inbox) = 1
    BY <1>1, <2>1, Handled
  <2>4. WellFormed(m) /\ Begin(h, m) /\ m.owner \in regime.people \cup {Nobody}
    BY <1>1, <2>1, <2>2 DEF Follows, EventsLead
  <2>5. At(h, "idle") /\ (~mapped => m.kind = "opened")
    <3>1. At(h, "idle")
      BY <2>4, BeginLooks
    <3>2. inbox # <<>>
      BY <2>1
    <3>3. QED
      BY <2>2, <3>1, <3>2 DEF Follows, CardComes, At, Making
  <2>6. Assumes(m) => Fills(h)
    BY <1>1, <2>1, <2>2
  <2>7. m.owner # Nobody => Fills(h)'
    BY <2>4, <2>5, <2>6, LookFills
  <2>8. m.kind = "reopened" /\ m.owner # Nobody => mapped /\ card.who # Nobody
    BY <2>5, <2>6 DEF Assumes, Fills, Making, Writing, At
  <2>9. ASSUME NEW i \in DOMAIN inbox', Assumes(inbox'[i])
        PROVE  IF i = 1 THEN m.owner # Nobody ELSE inbox'[i - 1].owner # Nobody
    <3>1. i \in Nat /\ i + 1 \in DOMAIN inbox /\ inbox'[i] = inbox[i + 1] /\ i + 1 # 1
          /\ (i + 1) - 1 = i /\ i \in DOMAIN inbox
      BY <1>1, <2>3
    <3>2. inbox[i].owner # Nobody
      <4>1. PICK e \in DOMAIN inbox : e = i + 1
        BY <3>1
      <4>2. QED
        BY <1>1, <2>9, <3>1, <4>1
    <3>3. CASE i = 1
      BY <2>2, <3>2, <3>3
    <3>4. CASE i # 1
      <4>1. PICK e : e = i - 1
        OBVIOUS
      <4>2. e \in DOMAIN inbox' /\ e + 1 = i
        BY <1>1, <2>3, <3>1, <3>4, <4>1
      <4>3. QED
        BY <2>3, <3>2, <3>4, <4>1, <4>2
    <3>5. QED
      BY <3>3, <3>4
  <2>10. inbox' = <<>> => m.owner = issue.owner
    <3>1. ASSUME inbox' = <<>> PROVE \A k : ~Later(1, k)
      <4>1. Len(inbox) = 1
        BY <2>3, <3>1
      <4>2. \A j \in DOMAIN inbox : ~(j > 1)
        BY <1>1, <4>1
      <4>3. QED
        BY <4>2 DEF Later
    <3>2. QED
      BY <2>1, <2>2, <3>1 DEF Follows, EventsLead, Leads
  <2>11. \A i \in DOMAIN inbox' : inbox'[i].owner \in regime.people \cup {Nobody}
    BY <1>1, <2>3
  <2>12. QED
    BY <2>1, <2>4, <2>5, <2>7, <2>8, <2>9, <2>10, <2>11, LookNames
<1>4. QED
  BY <1>2, <1>3 DEF Poll

LEMMA WorkNames ==
  ASSUME TypeOK, OwnersDevelop, NEW h \in Handlers, Follows(h), Named(h), Works(h)
  PROVE  Named(h)'
<1> DEFINE m == task[h].msg  saw == task[h].saw
<1>1. /\ UNCHANGED <<regime, issue, inbox>> /\ ~At(h, "idle") /\ budget["refused"] = 0 /\ ~patchFailed
      /\ task \in [Handlers -> [pc : PCs, msg : Snapshot, saw : Look]]
      /\ card \in [place : Places, who : People]
      /\ Idle.pc = "idle" /\ Idle.msg.owner = Nobody
  BY OnlyOne DEF Follows, NothingFails, Idle, TypeOK
<1>2. /\ WellFormed(m) /\ m.owner \in regime.people \cup {Nobody} /\ m.kind \in Kinds
      /\ Engineer(m.owner) = m.owner /\ (m.owner # Nobody => m.owner \in OnBoard)
  BY <1>1, OwnersResolve DEF Follows, EventsLead, Named, OnlyPeople, Snapshot
(* What is left to show, once the step is known. *)
<1>3. ASSUME AssignedHasSomebody', Fills(h) => Fills(h)', ~Writing(h, "reopened")',
             task'[h].msg.owner \in {m.owner, Nobody}
      PROVE  Named(h)'
  <2>1. OwnerIsThere(h)'
    BY <1>1, <1>3 DEF Named, OwnerIsThere
  <2>2. OnlyPeople(h)'
    BY <1>1, <1>2, <1>3 DEF Named, OnlyPeople
  <2>3. QED
    BY <1>3, <2>1, <2>2 DEF Named
<1>4. ASSUME mapped', task'[h] = Idle, AssignedHasSomebody', Fills(h) => card'.who # Nobody
      PROVE  Named(h)'
  BY <1>1, <1>3, <1>4 DEF Fills, Making, Writing, At
<1>5. ASSUME Reserve(h) \/ CreateTask(h) PROVE Named(h)'
  <2>1. PICK pc \in {"create", "finish"} : Go(h, pc)
    BY <1>5 DEF Reserve, CreateTask, Follows, CardComes, Making, At
  <2>2. task'[h].pc = pc /\ task'[h].msg = m
    BY <1>1, <2>1 DEF Go
  <2>3. UNCHANGED <<mapped, card>> /\ Making(h)
    BY <1>5 DEF Reserve, CreateTask, Making, At
  <2>4. QED
    BY <1>3, <2>2, <2>3 DEF Fills, Making, Writing, At, Named, AssignedHasSomebody
<1>6. ASSUME FinishOpened(h) PROVE Named(h)'
  <2>1. /\ mapped' /\ Done(h) /\ card'.who = m.owner
        /\ card'.place = StatusIntent(m, IF m.owner \in OnBoard THEN m.owner ELSE Nobody)
    BY <1>1, <1>2, <1>6 DEF FinishOpened, Spend
  <2>2. card'.place = "assigned" => m.owner # Nobody
    BY <1>2, <2>1 DEF StatusIntent
  <2>3. Fills(h) => m.owner # Nobody
    BY <1>6 DEF Fills, Making, Writing, At, FinishOpened
  <2>4. QED
    BY <1>4, <2>1, <2>2, <2>3, WhereItGoes DEF AssignedHasSomebody
<1>7. ASSUME HandleChanged(h) PROVE Named(h)'
  <2>1. /\ At(h, "write") /\ mapped /\ mapped' /\ Done(h)
        /\ card'.who = IF Owns(m) /\ m.owner = Nobody THEN Nobody
                       ELSE IF m.owner # Nobody /\ (Owns(m) \/ card.who = Nobody)
                            THEN m.owner ELSE card.who
        /\ ~m.open => card'.place = "completed"
        /\ m.open => \/ card'.place = card.place /\ (Owns(m) => HeldBack(m, saw))
                     \/ /\ Owns(m) /\ ~HeldBack(m, saw) /\ card'.place = StatusIntent(m, m.owner)
                     \/ card.place = "needs_assigned" /\ card'.place = "assigned"
                        /\ m.owner # Nobody /\ (Owns(m) \/ card.who = Nobody)
    BY <1>2, <1>7, ChangeWrites
  <2>2. m.kind \in ChangeKinds
    BY <1>7 DEF HandleChanged
  <2>3. Owns(m) <=> m.kind \in {"assigned", "unassigned"}
    BY DEF Owns
  <2>4. Fills(h) => card'.who # Nobody
    BY <1>2, <2>1, <2>2, <2>3 DEF Fills, Making, Writing, At, WellFormed, ChangeKinds
  <2>5. ASSUME card'.place = "assigned" PROVE card'.who # Nobody
    <3>1. m.open
      BY <2>1, <2>5
    <3>2. CASE card'.place = card.place /\ (Owns(m) => HeldBack(m, saw))
      <4>1. card.who # Nobody
        BY <2>1, <2>5, <3>2 DEF Named, AssignedHasSomebody
      <4>2. HeldBack(m, saw) => saw.place \notin AboutOwnership
        BY <2>1 DEF HeldBack, WouldRegress, AboutOwnership, Follows, LookStands, Places
      <4>3. ~HeldBack(m, saw)
        BY <2>1, <2>5, <3>2, <4>2 DEF Follows, LookStands, AboutOwnership
      <4>4. QED
        BY <2>1, <3>2, <4>1, <4>3
    <3>3. CASE Owns(m) /\ card'.place = StatusIntent(m, m.owner)
      BY <2>1, <2>5, <3>1, <3>3 DEF StatusIntent
    <3>4. CASE m.owner # Nobody /\ (Owns(m) \/ card.who = Nobody)
      BY <2>1, <3>4
    <3>5. QED
      BY <2>1, <3>1, <3>2, <3>3, <3>4
  <2>6. QED
    BY <1>4, <2>1, <2>4, <2>5, WhereItGoes DEF AssignedHasSomebody
<1>8. ASSUME HandleClosed(h) \/ HandleReopened(h) PROVE Named(h)'
  <2>1. /\ At(h, "write") /\ m.kind \in {"closed", "reopened"} /\ Done(h) /\ UNCHANGED mapped /\ mapped
        /\ card'.who = card.who
    BY <1>1, <1>8 DEF HandleClosed, HandleReopened, Spend, Follows, CardComes, At
  <2>2. Fills(h) => card'.who # Nobody
    BY <2>1 DEF Fills, Making, Writing, At
  <2>3. ASSUME card'.place = "assigned" PROVE card'.who # Nobody
    <3>1. m.kind = "reopened" /\ m.owner # Nobody
      BY <1>1, <1>8, <2>1, <2>3 DEF HandleClosed, HandleReopened, Spend, Follows, LookStands
    <3>2. QED
      BY <2>1, <3>1 DEF Named, OwnerIsThere, Writing
  <2>4. QED
    BY <1>4, <2>1, <2>2, <2>3, WhereItGoes DEF AssignedHasSomebody
<1>9. QED
  BY <1>1, <1>5, <1>6, <1>7, <1>8 DEF Works, CreateFails, Spend

LEMMA NamesPreserved == FollowInv /\ AssignedInv /\ [Next]_vars => AssignedInv'
<1> SUFFICES ASSUME FollowInv, AssignedInv, [Next]_vars PROVE AssignedInv'
  OBVIOUS
<1>1. TypeOK /\ OthersIdle /\ regime' = regime
  BY RegimeIsFixed DEF FollowInv, IInv
<1>2. OwnersDevelop' <=> OwnersDevelop
  BY <1>1 DEF OwnersDevelop, Delivered
<1>3. ASSUME OwnersDevelop, NEW h \in regime.handlers PROVE Named(h)'
  <2>1. /\ regime.handlers = {h} /\ h \in Handlers /\ Follows(h) /\ Named(h)
        /\ Delivered /\ ~regime.polls
    BY <1>1, <1>3, TheHandler DEF OwnersDevelop, Delivered, FollowInv, AssignedInv
  <2>2. CASE UNCHANGED vars
    BY <2>1, <2>2
    DEF Named, AssignedHasSomebody, OwnerIsThere, OnlyPeople, Fills, Making, Writing, At, vars
  <2>3. QED
    BY <1>1, <1>3, <2>1, <2>2, WhoseStep, GitHubNames, EnvironmentNames, LookingNames, WorkNames
<1>4. QED
  BY <1>1, <1>2, <1>3 DEF AssignedInv
-----------------------------------------------------------------------------
(* What the log remembers. *)
LEMMA Greatest ==
  ASSUME NEW n \in Nat, NEW S \in SUBSET (1 .. n), S # {}
  PROVE  Max(S) \in S /\ \A y \in S : Max(S) >= y
<1> DEFINE above(x) == {y \in S : y >= x}
           T == {above(x) : x \in S}
           R == StrictSubsetOrdering(S)
<1>1. IsFiniteSet(S) /\ S \subseteq Nat
  <2>1. IsFiniteSet(1 .. n)
    BY FS_Interval
  <2>2. S \subseteq 1 .. n
    OBVIOUS
  <2>3. IsFiniteSet(S)
    BY <2>1, <2>2, FS_Subset
  <2>4. QED
    BY <2>2, <2>3
<1>2. T \subseteq FiniteSubsetsOf(S) /\ T # {}
  <2>1. T \subseteq SUBSET S /\ T # {}
    OBVIOUS
  <2>2. QED
    BY <1>1, <2>1, FS_FiniteSubsetsOfFinite
<1>3. PICK u \in T : \A v \in T : ~(<<v, u>> \in R)
  <2>1. IsWellFoundedOn(R, FiniteSubsetsOf(S))
    BY FS_StrictSubsetOrderingWellFounded
  <2> HIDE DEF R, T
  <2>2. QED
    BY <1>2, <2>1, WFMin
<1>4. PICK x \in S : u = above(x)
  OBVIOUS
<1>5. ASSUME NEW y \in S PROVE x >= y
  <2>1. SUFFICES ASSUME ~(x >= y) PROVE FALSE
    OBVIOUS
  <2>2. x \in Nat /\ y \in Nat /\ y > x
    BY <1>1, <2>1
  <2>3. above(y) \subseteq above(x)
    <3>1. ASSUME NEW z \in above(y) PROVE z \in S /\ z \in Nat /\ z >= x
      BY <1>1, <2>2
    <3>2. QED
      BY <3>1
  <2>4. x \in above(x) /\ x \notin above(y)
    BY <2>2
  <2>5. above(y) \in T /\ ~(<<above(y), above(x)>> \in R)
    BY <1>3, <1>4
  <2>6. QED
    BY <2>3, <2>4, <2>5 DEF StrictSubsetOrdering
<1>6. QED
  BY <1>5 DEF Max

(* The rows that are too old to be read back are never the newest. *)
LEMMA NewestClose ==
  ASSUME NEW l \in Seq(Row)
  PROVE  PreCloseStatus(l) = PlaceOfNewest(l, Closes(l))
<1> DEFINE restored == {i \in Closes(l) : Reopens(l) # {} /\ i < Max(Reopens(l))}
           first    == IF restored # {} THEN Max(restored)
                       ELSE IF Reopens(l) # {} THEN Max(Reopens(l)) + 1 ELSE 1
           recent   == {i \in Closes(l) : i >= first}
           newest(rows) == {i \in rows : \A j \in rows : j <= i}
<1>1. /\ DOMAIN l = 1 .. Len(l) /\ Len(l) \in Nat
      /\ Closes(l) \in SUBSET (1 .. Len(l)) /\ Reopens(l) \in SUBSET (1 .. Len(l))
      /\ restored \in SUBSET (1 .. Len(l))
  BY DEF Closes, Reopens
<1>2. Closes(l) \cap Reopens(l) = {}
  BY DEF Closes, Reopens
<1>3. CASE Closes(l) = {}
  BY <1>3 DEF PreCloseStatus, PlaceOfNewest
<1>4. CASE Closes(l) # {}
  <2>1. PICK m \in Closes(l) : \A j \in Closes(l) : m >= j
    BY <1>1, <1>4, Greatest
  <2>2. m \in Nat /\ \A j \in Closes(l) : j \in Nat
    BY <1>1
  <2>3. m >= first
    <3>1. CASE restored # {}
      BY <1>1, <2>1, <3>1, Greatest
    <3>2. CASE restored = {} /\ Reopens(l) # {}
      <4>1. Max(Reopens(l)) \in Reopens(l)
        BY <1>1, <3>2, Greatest
      <4>2. Max(Reopens(l)) \in Nat /\ m # Max(Reopens(l)) /\ ~(m < Max(Reopens(l)))
        BY <1>1, <1>2, <2>1, <3>2, <4>1
      <4>3. QED
        BY <2>2, <3>2, <4>2
    <3>3. CASE restored = {} /\ Reopens(l) = {}
      BY <1>1, <3>3
    <3>4. QED
      BY <3>1, <3>2, <3>3
  <2>4. m \in recent /\ recent \subseteq Closes(l)
    BY <2>1, <2>3
  <2> HIDE DEF recent
  <2>5. newest(Closes(l)) = {m} /\ newest(recent) = {m}
    <3>1. ASSUME NEW rows, m \in rows, rows \subseteq Closes(l) PROVE newest(rows) = {m}
      <4>1. \A i \in rows : (\A j \in rows : j <= i) => i = m
        BY <2>1, <2>2, <3>1
      <4>2. \A j \in rows : j <= m
        BY <2>1, <2>2, <3>1
      <4>3. QED
        BY <3>1, <4>1, <4>2
    <3>2. QED
      BY <2>1, <2>4, <3>1
  <2>6. PlaceOfNewest(l, recent) = PlaceOfNewest(l, Closes(l))
    BY <2>5 DEF PlaceOfNewest
  <2>7. QED
    BY <2>6 DEF recent, PreCloseStatus
<1>5. QED
  BY <1>3, <1>4

LEMMA CloseIsRemembered ==
  ASSUME NEW l \in Seq(Row), NEW p \in Places
  PROVE  PreCloseStatus(WithClose(l, p)) = p
<1> DEFINE e == [kind |-> "issue_closed", place |-> p]
           k == Append(l, e)
<1>1. WithClose(l, p) = k /\ e \in Row
  BY PlaceAssumption DEF WithClose, Row
<1>2. /\ k \in Seq(Row) /\ DOMAIN k = 1 .. Len(l) + 1 /\ Len(l) \in Nat /\ k[Len(l) + 1] = e
  BY <1>1
<1>3. Len(l) + 1 \in Closes(k) /\ \A i \in Closes(k) : i \in Nat /\ i <= Len(l) + 1
  BY <1>2 DEF Closes
<1> HIDE DEF k
<1>4. {i \in Closes(k) : \A j \in Closes(k) : j <= i} = {Len(l) + 1}
  BY <1>2, <1>3
<1>5. PlaceOfNewest(k, Closes(k)) = p
  <2>1. {i \in Closes(k) : \A j \in Closes(k) : j <= i} # {}
    BY <1>4
  <2>2. PlaceOfNewest(k, Closes(k)) = k[Len(l) + 1].place
    BY <1>4, <2>1 DEF PlaceOfNewest
  <2>3. QED
    BY <1>2, <2>2
<1>6. QED
  BY <1>1, <1>2, <1>5, NewestClose

LEMMA ReopenForgetsNothing ==
  ASSUME NEW l \in Seq(Row)
  PROVE  PreCloseStatus(WithReopen(l)) = PreCloseStatus(l)
<1> DEFINE e == [kind |-> "issue_reopened", place |-> NoPlace]
           k == Append(l, e)
<1>1. CASE WithReopen(l) = l
  BY <1>1
<1>2. CASE WithReopen(l) = k
  <2>1. /\ k \in Seq(Row) /\ DOMAIN k = DOMAIN l \cup {Len(l) + 1} /\ k[Len(l) + 1] = e
        /\ \A i \in DOMAIN l : k[i] = l[i]
    BY DEF Row
  <2> HIDE DEF k
  <2>2. \A i : i \in Closes(k) <=> i \in Closes(l)
    BY <2>1 DEF Closes
  <2>3. Closes(k) = Closes(l) /\ Closes(l) \subseteq DOMAIN l
    BY <2>2 DEF Closes
  <2>4. PlaceOfNewest(k, Closes(k)) = PlaceOfNewest(l, Closes(l))
    BY <2>1, <2>3 DEF PlaceOfNewest
  <2>5. QED
    BY <1>2, <2>1, <2>4, NewestClose
<1>3. QED
  BY <1>1, <1>2 DEF WithReopen
-----------------------------------------------------------------------------
(* A card that is closed, and where it resumes. *)
LEMMA SideKeeps ==
  ASSUME GitHubStep \/ Environment \/ UNCHANGED vars
  PROVE  /\ mapped' = mapped /\ log' = log
         /\ \/ episode' = NoPlace /\ mapped
            \/ episode' = episode /\ card' = card
         /\ task' = task \/ task' = [h \in Handlers |-> Idle]
BY DEF GitHubStep, Raise, Assign, Unassign, Relabel, Close, Reopen, Send, service, vars,
       Environment, Lose, Redeliver, MoveCard, Restart

LEMMA LookKeeps ==
  ASSUME TypeOK, NEW h \in Handlers,
         (\E i \in DOMAIN inbox : Receive(h, i)) \/ Sweep(h) \/ Poll(h)
  PROVE  \E m \in Snapshot : Begin(h, m)
<1>1. ASSUME NEW i \in DOMAIN inbox PROVE inbox[i] \in Snapshot
  BY <1>1 DEF TypeOK
<1>2. ASSUME NEW kind \in Kinds PROVE Current(kind) \in Snapshot
  BY <1>2 DEF TypeOK, Current, Snapshot
<1>3. {"opened", "edited", "closed", News} \subseteq Kinds
  BY DEF News, Kinds
<1>4. QED
  BY <1>1, <1>2, <1>3 DEF Receive, Sweep, Poll

LEMMA BeginStays ==
  ASSUME TypeOK, NEW h \in Handlers, NEW m \in Snapshot, Begin(h, m), ~mapped
  PROVE  task'[h].pc # "write"
<1>1. task'[h] \in {[Idle EXCEPT !.pc = "reserve", !.msg = m], Idle}
  BY BeginLooks
<1>2. [Idle EXCEPT !.pc = "reserve", !.msg = m].pc = "reserve" /\ Idle.pc = "idle"
  BY DEF Idle
<1>3. QED
  BY <1>1, <1>2

LEMMA WritersKeep ==
  ASSUME TypeOK, NoCardYet, ResumeInv, [Next]_vars
  PROVE  /\ \A h \in Handlers : At(h, "write")' => mapped'
         /\ ~mapped' => episode' = NoPlace
<1> USE DEF At
<1>1. CASE GitHubStep \/ Environment \/ UNCHANGED vars
  BY <1>1, SideKeeps DEF ResumeInv, Idle
<1>2. ASSUME NEW g \in regime.handlers,
             (\E i \in DOMAIN inbox : Receive(g, i)) \/ Sweep(g) \/ Poll(g)
      PROVE  /\ \A h \in Handlers : At(h, "write")' => mapped'
             /\ ~mapped' => episode' = NoPlace
  <2>1. g \in Handlers
    BY RegimeIsTyped
  <2>2. PICK m \in Snapshot : Begin(g, m)
    BY <1>2, <2>1, LookKeeps
  <2>3. mapped' = mapped /\ episode' = episode
    BY <2>2 DEF Begin
  <2>4. \A h \in Handlers : At(h, "write")' => At(h, "write") \/ mapped
    BY <2>1, <2>2, BeginLooks, BeginStays
  <2>5. QED
    BY <2>3, <2>4 DEF ResumeInv
<1>3. ASSUME NEW g \in regime.handlers, Works(g)
      PROVE  /\ \A h \in Handlers : At(h, "write")' => mapped'
             /\ ~mapped' => episode' = NoPlace
  <2>1. g \in Handlers
    BY RegimeIsTyped
  <2>2. Done(g) \/ Go(g, "create") \/ Go(g, "finish")
    BY <1>3 DEF Works, Reserve, CreateTask, CreateFails, FinishOpened, HandleChanged, HandleClosed,
                HandleReopened
  <2>3. \A h \in Handlers : At(h, "write")' => At(h, "write")
    BY <2>1, <2>2 DEF Done, Go, Idle, TypeOK
  <2>4. mapped' = mapped \/ mapped'
    BY <1>3 DEF Works, Reserve, CreateTask, CreateFails, FinishOpened, HandleChanged, HandleClosed,
                HandleReopened
  <2>5. mapped \/ episode' = episode
    BY <1>3, <2>1 DEF ResumeInv, Works, Reserve, CreateTask, CreateFails, FinishOpened,
                      HandleChanged, HandleClosed, HandleReopened
  <2>6. mapped => mapped'
    BY <1>3 DEF Works, Reserve, CreateTask, CreateFails, FinishOpened, HandleChanged, HandleClosed,
                HandleReopened
  <2>7. QED
    BY <2>3, <2>5, <2>6 DEF ResumeInv
<1>4. QED
  BY <1>1, <1>2, <1>3 DEF Next

LEMMA SideRemembers ==
  ASSUME TypeOK, NEW h \in Handlers, Remembered(h), GitHubStep \/ Environment \/ UNCHANGED vars
  PROVE  Remembered(h)'
<1>1. CASE episode' = NoPlace
  BY <1>1 DEF Remembered
<1>2. CASE episode' = episode /\ card' = card
  BY <1>2, SideKeeps DEF Remembered, At, Writing, Idle
<1>3. QED
  BY <1>1, <1>2, SideKeeps

LEMMA LookRemembers ==
  ASSUME TypeOK, NeverFromCompleted, NEW h \in Handlers, Remembered(h),
         (\E i \in DOMAIN inbox : Receive(h, i)) \/ Sweep(h) \/ Poll(h)
  PROVE  Remembered(h)'
<1>1. PICK m \in Snapshot : Begin(h, m)
  BY LookKeeps
<1>2. UNCHANGED <<card, log, episode, mapped>>
  BY <1>1 DEF Begin
<1>3. CASE ~mapped
  <2>1. task'[h].pc # "write"
    BY <1>1, <1>3, BeginStays
  <2>2. QED
    BY <1>2, <2>1 DEF Remembered, At, Writing
<1>4. CASE mapped
  <2>1. /\ task'[h].msg = m /\ task'[h].saw.place \in {card.place, Unreadable}
        /\ task'[h].saw.resume = IF m.kind = "reopened" /\ m.owner # Nobody THEN PreCloseStatus(log)
                                                                            ELSE NoPlace
    BY <1>1, <1>4, BeginLooks
  <2>2. QED
    BY <1>2, <2>1 DEF Remembered, Writing
<1>5. QED
  BY <1>3, <1>4

LEMMA CloseRemembers ==
  ASSUME TypeOK, NEW h \in Handlers, Remembered(h), HandleClosed(h)
  PROVE  Remembered(h)'
<1> DEFINE captured == Captured(task[h].saw)
<1>1. ~At(h, "write")'
  BY DEF HandleClosed, Done, TypeOK, Idle, At
<1>2. task[h].saw.place \in Places \cup {NoPlace, Unreadable} /\ log \in Seq(Row)
  BY DEF TypeOK, Look
<1>3. captured \in Places \cup {NoPlace} /\ log' = WithClose(log, captured)
  BY <1>2 DEF Captured, HandleClosed
<1>4. SUFFICES ASSUME episode' # NoPlace, card'.place = "completed"
               PROVE  PreCloseStatus(log') = episode'
  BY <1>1 DEF Remembered, Writing, At
<1>5. CASE card.place = "completed"
  <2>1. episode' = episode /\ captured = NoPlace
    BY <1>4, <1>5 DEF HandleClosed, NoteCompletion, Remembered, Captured, At
  <2>2. log' = log
    BY <1>3, <2>1 DEF WithClose
  <2>3. QED
    BY <1>4, <1>5, <2>1, <2>2 DEF Remembered
<1>6. CASE card.place # "completed"
  <2>1. episode' = captured
    BY <1>4, <1>6 DEF HandleClosed, NoteCompletion
  <2>2. QED
    BY <1>2, <1>3, <1>4, <2>1, CloseIsRemembered
<1>7. QED
  BY <1>5, <1>6

LEMMA ReopenRemembers ==
  ASSUME TypeOK, NeverFromCompleted, NEW h \in Handlers, Remembered(h), HandleReopened(h)
  PROVE  Remembered(h)'
<1>1. ~At(h, "write")' /\ episode' = episode
  BY DEF HandleReopened, Done, TypeOK, Idle, At
<1>2. card' # card => card'.place # "completed"
  BY DEF HandleReopened, NeverFromCompleted, TypeOK
<1>3. log' = WithReopen(log) /\ log \in Seq(Row)
  BY DEF HandleReopened, TypeOK
<1>4. QED
  BY <1>1, <1>2, <1>3, ReopenForgetsNothing DEF Remembered, Writing, At

LEMMA WorkRemembers ==
  ASSUME TypeOK, NoCardYet, NeverFromCompleted, ResumeInv, NEW h \in Handlers, Remembered(h),
         Works(h)
  PROVE  Remembered(h)'
<1>1. CASE Reserve(h) \/ CreateTask(h) \/ CreateFails(h)
  <2>1. UNCHANGED <<card, log, episode>>
    BY <1>1 DEF Reserve, CreateTask, CreateFails
  <2>2. ~At(h, "write")'
    BY <1>1 DEF Reserve, CreateTask, CreateFails, Done, Go, Idle, TypeOK, At
  <2>3. ~At(h, "write")
    BY <1>1 DEF Reserve, CreateTask, CreateFails, At
  <2>4. QED
    BY <2>1, <2>2 DEF Remembered, Writing, At
<1>2. CASE FinishOpened(h)
  BY <1>2 DEF FinishOpened, NoCardYet, Creating, At, ResumeInv, Remembered
<1>3. CASE HandleChanged(h)
  <2>1. ~At(h, "write")' /\ log' = log
    BY <1>3 DEF HandleChanged, Done, TypeOK, Idle, At
  <2>2. episode' = IF card.place # "completed" /\ card'.place = "completed" THEN NoPlace ELSE episode
    BY <1>3 DEF HandleChanged, NoteCompletion
  <2>3. QED
    BY <2>1, <2>2 DEF Remembered, Writing, At
<1>4. QED
  BY <1>1, <1>2, <1>3, CloseRemembers, ReopenRemembers DEF Works

LEMMA ResumePreserved == FollowInv /\ ResumeInv /\ [Next]_vars => ResumeInv'
<1> SUFFICES ASSUME FollowInv, ResumeInv, [Next]_vars PROVE ResumeInv'
  OBVIOUS
<1>1. TypeOK /\ NoCardYet /\ OthersIdle /\ NeverFromCompleted /\ regime' = regime
  BY RegimeIsFixed DEF FollowInv, IInv
<1>2. ASSUME Cardinality(regime.handlers) = 1, NEW h \in regime.handlers PROVE Remembered(h)'
  <2>1. regime.handlers = {h} /\ h \in Handlers /\ Remembered(h)
    BY <1>1, <1>2, TheHandler DEF ResumeInv
  <2>2. QED
    BY <1>1, <2>1, WhoseStep, SideRemembers, LookRemembers, WorkRemembers
<1>3. QED
  BY <1>1, <1>2, WritersKeep DEF ResumeInv

(* The reopening at work: a step that ends it is its own. *)
LEMMA ResumeStep ==
  ASSUME FollowInv, ResumeInv, [Next]_vars, NEW h \in Handlers,
         At(h, "write"), task'[h] = Idle,
         task[h].msg.kind = "reopened", task[h].msg.owner # Nobody,
         Cardinality(regime.handlers) = 1, budget' = budget,
         card.place = "completed", card'.place # "completed", episode # NoPlace
  PROVE  card'.place = episode
<1>1. TypeOK /\ OthersIdle
  BY DEF FollowInv, IInv
<1>2. h \in regime.handlers
  BY <1>1 DEF OthersIdle, At, Idle
<1>3. regime.handlers = {h} /\ Remembered(h)
  BY <1>1, <1>2, TheHandler DEF ResumeInv
<1>4. task[h].saw.resume = episode
  BY <1>3 DEF Remembered, Writing
<1>5. ~GitHubStep /\ ~Environment /\ ~UNCHANGED vars
  <2>1. task'[h] # task[h]
    BY DEF At, Idle
  <2>2. ASSUME NEW place, MoveCard(place) PROVE FALSE
    BY <2>1, <2>2 DEF MoveCard
  <2>3. QED
    BY <2>1, <2>2 DEF GitHubStep, Raise, Assign, Unassign, Relabel, Close, Reopen, Send, service,
                      vars, Environment, Lose, Redeliver, Restart
<1>6. Works(h)
  BY <1>1, <1>3, <1>5, WhoseStep, LookKeeps, BeginLooks DEF At
<1>7. HandleReopened(h)
  BY <1>6 DEF Works, Reserve, CreateTask, CreateFails, FinishOpened, At, HandleChanged,
              HandleClosed, ChangeKinds
<1>8. budget' # budget \/ card' = [card EXCEPT !.place = episode]
  BY <1>1, <1>4, <1>7 DEF HandleReopened, Spend, TypeOK, Budget
<1>9. card'.place = episode
  BY <1>1, <1>8 DEF TypeOK
<1>10. QED
  BY <1>9

-----------------------------------------------------------------------------
THEOREM KeepInvariance == Spec => [](FollowInv /\ AssignedInv /\ ResumeInv)
<1> DEFINE KeepInv == FollowInv /\ AssignedInv /\ ResumeInv
<1>1. Init => KeepInv
  BY InitFollows
<1>2. KeepInv /\ [Next]_vars => KeepInv'
  BY FollowPreserved, NamesPreserved, ResumePreserved
<1> HIDE DEF KeepInv
<1>3. Spec => []KeepInv
  BY <1>1, <1>2, PTL DEF Spec
<1>4. QED
  BY <1>3, PTL DEF KeepInv

LEMMA KeptCard == FollowInv /\ AssignedInv => CardIsKept
<1> SUFFICES ASSUME FollowInv, AssignedInv PROVE CardIsKept
  OBVIOUS
<1>1. TypeOK
  BY DEF FollowInv, IInv
<1>2. ASSUME Delivered
      PROVE  \E h \in regime.handlers : regime.handlers = {h} /\ h \in Handlers /\ Follows(h)
  <2>1. regime.handlers \subseteq Handlers /\ IsFiniteSet(regime.handlers)
    BY <1>1, RegimeIsTyped, IssueAssumption, FS_Subset
  <2>2. PICK h : regime.handlers = {h}
    BY <1>2, <2>1, FS_Singleton DEF Delivered
  <2>3. QED
    BY <1>2, <2>1, <2>2 DEF FollowInv
<1>3. AssignedInOrder
  <2>1. SUFFICES ASSUME OwnersDevelop PROVE AssignedHasSomebody
    BY DEF AssignedInOrder, OwnersDevelop
  <2>2. PICK h \in regime.handlers : TRUE
    BY <1>2, <2>1 DEF OwnersDevelop
  <2>3. QED
    BY <2>1, <2>2 DEF AssignedInv, Named
<1>4. InStep
  <2>1. SUFFICES ASSUME Delivered, AtRest, issue.exists
                 PROVE  /\ mapped /\ card.who = Engineer(issue.owner)
                        /\ regime.budget.moves = 0 => (issue.open <=> card.place # "completed")
    BY DEF InStep
  <2>2. PICK h \in Handlers : Follows(h)
    BY <1>2, <2>1
  <2>3. inbox = <<>> /\ At(h, "idle")
    BY <2>1 DEF AtRest
  <2>4. \A kind : ~Coming(h, kind)
    BY <2>3 DEF Coming, Later, Writing, At
  <2>5. mapped
    BY <2>1, <2>2, <2>3 DEF Follows, CardComes, Making, At
  <2>6. QED
    BY <2>2, <2>4, <2>5 DEF Follows, CardFollows
<1>5. QED
  BY <1>3, <1>4 DEF CardIsKept

(***************************************************************************)
(* With every event delivered in order and nothing failing, a service at   *)
(* rest shows on the card what GitHub says of the issue, and the card      *)
(* never reads Assigned with nobody in the column, whatever is repeated,   *)
(* swept, polled or moved in between (handle_issue_changed).               *)
(***************************************************************************)
THEOREM CardStaysInStep == Spec => []CardIsKept
<1>1. FollowInv /\ AssignedInv /\ ResumeInv => CardIsKept
  BY KeptCard
<1>2. QED
  BY <1>1, KeepInvariance, PTL

(***************************************************************************)
(* With a handler at a time, a reopened issue that has an owner resumes    *)
(* the place its last close found, whatever was lost, repeated, swept,     *)
(* polled or interrupted since (_pre_close_status).                        *)
(***************************************************************************)
THEOREM ReopenedWorkResumes == Spec => ReopenResumes
<1> DEFINE Resumes ==
  \A h \in Handlers :
    /\ At(h, "write") /\ task'[h] = Idle
    /\ task[h].msg.kind = "reopened" /\ task[h].msg.owner # Nobody
    /\ Cardinality(regime.handlers) = 1 /\ budget' = budget
    /\ card.place = "completed" /\ card'.place # "completed"
    /\ episode # NoPlace
    => card'.place = episode
<1>1. FollowInv /\ AssignedInv /\ ResumeInv /\ [Next]_vars => [Resumes]_vars
  BY ResumeStep
<1>2. QED
  BY <1>1, KeepInvariance, PTL DEF ReopenResumes, Spec
=============================================================================
