---------------------------- MODULE ServiceProofs ----------------------------
(***************************************************************************)
(* The small services, for any number of pull requests, reviewers, days    *)
(* and coroutines: who is mentioned on a pull request, and when, what the      *)
(* read cache keeps, and how many coroutines fetch one of its keys at a    *)
(* time.                                                                   *)
(***************************************************************************)
EXTENDS MCServices, FiniteSetTheorems, SequenceTheorems, TLAPS

-----------------------------------------------------------------------------
(* The review nudges. *)

(* What the sweep is made of. *)
Sweeps ==
  [pc : {"idle", "scanning", "commenting"}, at : Nat,
   rows : [PullRequests -> NudgeRow \cup {NotTracked}], left : SUBSET PullRequests,
   on : PullRequests \cup {NoPull}, stage : [PullRequests -> Nat],
   gone : SUBSET (PullRequests \X Nat), acted : [PullRequests -> [side : Sides, at : Nat]]]

(* The pull requests the sweep has yet to comment on. *)
Coming == sweep.left \cup (IF sweep.pc = "commenting" THEN {sweep.on} ELSE {})

(* The row waits for the side that did not act last, since it acted or longer. *)
Waits(row, act) == act.side # row.waiting /\ act.at <= row.last

TurnsAreRight == \A p \in PullRequests : Tracked(p) => Waits(nudge[p], acted[p])

(* A row in the sweep's hands was due when it was read.  The table may have *)
(* moved on since, but only by a turn, which starts from no stage, or by    *)
(* losing the row; a new one has another number.                            *)
RowIsRead(p) ==
  /\ sweep.rows[p] \in NudgeRow
  /\ Waits(sweep.rows[p], sweep.acted[p])
  /\ DueOn(sweep.rows[p], sweep.at)
  /\ sweep.rows[p].no <= rowsMade[p]
  /\ Tracked(p) /\ nudge[p].no = sweep.rows[p].no
     => /\ sweep.rows[p].turn <= nudge[p].turn
        /\ nudge[p].stage <= sweep.rows[p].stage

SweepIsRight ==
  /\ \A p \in Coming \cup Stored : RowIsRead(p)
  /\ \A p \in Stored : sweep.stage[p] = TargetOf(p) /\ p \notin Coming
  /\ sweep.pc = "commenting" => sweep.on \in PullRequests /\ sweep.on \notin sweep.left
  /\ sweep.pc = "idle" => sweep = NoSweep
  /\ IsFiniteSet(Stored)

(* No mention is ahead of its row. *)
Numbered ==
  /\ \A p \in PullRequests : Tracked(p) => nudge[p].no <= rowsMade[p]
  /\ \A m \in mentioned :
       /\ m.no <= rowsMade[m.pr]
       /\ Tracked(m.pr) /\ nudge[m.pr].no = m.no => m.turn <= nudge[m.pr].turn

(* The comment under way counts against an ended pull request before it is posted. *)
OnItsWay(p) == IF sweep.pc = "commenting" /\ sweep.on = p THEN 1 ELSE 0
EndsAreHeard == \A p \in PullRequests : pull[p] = "ended" => late[p] + OnItsWay(p) <= 1

(* What a comment on p would say now. *)
TheMention(p) ==
  [pr |-> p, no |-> sweep.rows[p].no, turn |-> sweep.rows[p].turn,
   side |-> sweep.rows[p].waiting, stage |-> TargetOf(p)]

(* A mention that may be posted again: the sweep is about to, or the table *)
(* does not know of it and the sweep is not about to store it.             *)
Open(m) ==
  \/ m.pr \in Coming /\ m = TheMention(m.pr)
  \/ /\ Tracked(m.pr) /\ nudge[m.pr].no = m.no /\ nudge[m.pr].turn = m.turn
     /\ nudge[m.pr].stage < m.stage
     /\ ~(m.pr \in Stored /\ m = TheMention(m.pr))

Unsettled == {m \in mentioned : Open(m)}

(* Each mention that may be posted again was made so by something forgotten *)
(* that no repetition has used up.                                          *)
RepeatsArePaid == IsFiniteSet(mentioned) /\ repeats + Cardinality(Unsettled) <= forgotten

NudgeInv ==
  /\ NudgeTypeOK /\ sweep \in Sweeps
  /\ TurnsAreRight /\ SweepIsRight /\ Numbered /\ EndsAreHeard /\ RepeatsArePaid

-----------------------------------------------------------------------------
(* What the circumstances are made of. *)
LEMMA CircumstancesGiven ==
  ASSUME nudgeRegime \in NudgeRegimes
  PROVE  /\ nudgeRegime.pulls \subseteq PullRequests
         /\ nudgeRegime.people \subseteq Accounts
         /\ nudgeRegime.maxDay \in Nat /\ nudgeRegime.budget \in NudgeBudget
BY NudgeAssumption DEF NudgeRegime, Accounts

LEMMA ChargesCount ==
  ASSUME spare \in NudgeBudget,
         NEW what \in {"acts", "assigns", "endings", "reopens", "lost", "unread", "refused",
                       "unheard", "crashes"},
         Charge(what)
  PROVE  spare' \in NudgeBudget
<1>1. spare[what] > 0 /\ spare' = [spare EXCEPT ![what] = @ - 1]
  BY DEF Charge
<1>2. spare[what] \in Nat
  BY DEF NudgeBudget
<1>3. spare[what] - 1 \in Nat
  BY <1>1, <1>2
<1> QED
  BY <1>1, <1>3 DEF NudgeBudget

(* A change of one row keeps the table. *)
LEMMA TurnIsARow ==
  ASSUME NEW row \in NudgeRow, NEW side \in Sides, NEW at \in Nat
  PROVE  /\ Turn(row, side, at) \in NudgeRow /\ Turn(row, side, at).no = row.no
         /\ \/ Turn(row, side, at) = row
            \/ /\ Turn(row, side, at).turn = row.turn + 1
               /\ Turn(row, side, at).stage = 0
         /\ Waits(Turn(row, side, at), [side |-> side, at |-> at])
<1> DEFINE new == [row EXCEPT !.waiting = Opposite(side), !.last = at, !.stage = 0,
                              !.turn = @ + 1]
<1>1. Opposite(side) \in Sides /\ Opposite(side) # side
  BY DEF Opposite, Sides
<1>2. row.turn \in Nat /\ row.last \in Nat
  BY DEF NudgeRow
<1>3. /\ new \in NudgeRow /\ new.no = row.no /\ new.turn = row.turn + 1 /\ new.stage = 0
      /\ new.waiting = Opposite(side) /\ new.last = at
  <2>1. Opposite(side) \in Sides /\ row.turn + 1 \in Nat
    BY <1>1, <1>2
  <2>2. new.no = row.no /\ new.turn = row.turn + 1 /\ new.stage = 0
    BY DEF NudgeRow
  <2>3. new.waiting = Opposite(side) /\ new.last = at
    BY DEF NudgeRow
  <2>4. new \in NudgeRow
    BY <2>1 DEF NudgeRow
  <2> QED
    BY <2>2, <2>3, <2>4
<1>4. CASE Opposite(side) # row.waiting \/ at > row.last
  <2>1. Turn(row, side, at) = new
    BY <1>4 DEF Turn
  <2> HIDE DEF new
  <2> QED
    BY <2>1, <1>1, <1>3 DEF Waits
<1>5. CASE ~(Opposite(side) # row.waiting \/ at > row.last)
  BY <1>5, <1>1, <1>2 DEF Turn, Waits
<1> QED
  BY <1>4, <1>5

LEMMA ChipsAreKept ==
  ASSUME NEW row \in NudgeRow, NEW who \in Accounts
  PROVE  [row EXCEPT !.chips = Chips(row, who)] \in NudgeRow
<1>1. row.chips \in [Testers -> 0 .. ChipIn]
  BY DEF NudgeRow
<1>2. Chips(row, who) \in [Testers -> 0 .. ChipIn]
  BY <1>1 DEF Chips, ChipIn
<1> QED
  BY <1>2 DEF NudgeRow

-----------------------------------------------------------------------------
(* How the table may move while the sweep's hands are full: by a turn, which *)
(* starts from no stage, by losing a row, or by a row of a new number.       *)
RowMoves(p) ==
  \/ nudge'[p] = NotTracked
  \/ /\ nudge[p] \in NudgeRow /\ nudge'[p] \in NudgeRow
     /\ Tracked(p) /\ nudge'[p].no = nudge[p].no
     /\ \/ nudge'[p].turn = nudge[p].turn /\ nudge'[p].stage = nudge[p].stage
        \/ nudge'[p].turn = nudge[p].turn + 1 /\ nudge'[p].stage = 0
  \/ nudge'[p] \in NudgeRow /\ nudge'[p].no = rowsMade'[p] /\ rowsMade'[p] = rowsMade[p] + 1

TableMoves ==
  /\ \A p \in PullRequests : RowMoves(p)
  /\ \A p \in PullRequests : rowsMade'[p] \in Nat /\ rowsMade'[p] >= rowsMade[p]
  /\ UNCHANGED <<sweep, mentioned, repeats, forgotten>>

LEMMA SweepStays ==
  ASSUME NudgeInv, TableMoves
  PROVE  SweepIsRight' /\ Numbered'
<1>0. /\ rowsMade \in [PullRequests -> Nat]
      /\ mentioned \subseteq Said
      /\ \A p \in PullRequests : rowsMade'[p] \in Nat /\ rowsMade'[p] >= rowsMade[p]
      /\ UNCHANGED <<sweep, mentioned>>
  BY DEF NudgeInv, NudgeTypeOK, TableMoves
<1>1. Coming' = Coming /\ Stored' = Stored
  BY <1>0 DEF Coming, Stored
<1>2. Coming \cup Stored \subseteq PullRequests
  BY DEF Coming, Stored, NudgeInv, NudgeTypeOK, SweepIsRight
<1>3. ASSUME NEW p \in Coming \cup Stored
      PROVE  RowIsRead(p)'
  <2>1. RowIsRead(p) /\ p \in PullRequests
    BY <1>2 DEF NudgeInv, SweepIsRight
  <2>2. RowMoves(p)
    BY <2>1 DEF TableMoves
  <2>3. sweep' = sweep
    BY <1>0
  <2>4. /\ sweep.rows[p].no \in Nat /\ sweep.rows[p].turn \in Nat /\ sweep.rows[p].stage \in Nat
    BY <2>1 DEF RowIsRead, NudgeRow
  <2>5. rowsMade[p] \in Nat /\ rowsMade'[p] \in Nat /\ rowsMade'[p] >= rowsMade[p]
    BY <1>0, <2>1
  <2>6. nudge[p] \in NudgeRow => nudge[p].no \in Nat /\ nudge[p].turn \in Nat /\ nudge[p].stage \in Nat
    BY DEF NudgeRow
  <2>7. ASSUME Tracked(p)', nudge'[p].no = sweep.rows[p].no
        PROVE  /\ sweep.rows[p].turn <= nudge'[p].turn
               /\ nudge'[p].stage <= sweep.rows[p].stage
    BY <2>1, <2>2, <2>4, <2>5, <2>6, <2>7 DEF RowMoves, RowIsRead, Tracked
  <2>8. sweep.rows[p].no <= rowsMade'[p]
    BY <2>1, <2>4, <2>5 DEF RowIsRead
  <2> QED
    BY <2>1, <2>3, <2>7, <2>8 DEF RowIsRead
<1>4. SweepIsRight'
  <2>1. \A p \in Stored : TargetOf(p)' = TargetOf(p)
    BY <1>0 DEF TargetOf
  <2>2. NoSweep' = NoSweep
    BY DEF NoSweep
  <2> QED
    BY <1>0, <1>1, <1>3, <2>1, <2>2 DEF NudgeInv, SweepIsRight
<1>5. Numbered'
  <2>1. ASSUME NEW p \in PullRequests, Tracked(p)'
        PROVE  nudge'[p].no <= rowsMade'[p]
    <3>1. RowMoves(p) /\ nudge'[p] # NotTracked
      BY <2>1 DEF TableMoves, Tracked
    <3>2. rowsMade[p] \in Nat /\ rowsMade'[p] \in Nat /\ rowsMade'[p] >= rowsMade[p]
      BY <1>0
    <3>3. nudge[p] \in NudgeRow => nudge[p].no \in Nat
      BY DEF NudgeRow
    <3>4. Tracked(p) => nudge[p].no <= rowsMade[p]
      BY DEF NudgeInv, Numbered
    <3> QED
      BY <3>1, <3>2, <3>3, <3>4 DEF RowMoves
  <2>2. ASSUME NEW m \in mentioned
        PROVE  /\ m.no <= rowsMade'[m.pr]
               /\ Tracked(m.pr)' /\ nudge'[m.pr].no = m.no => m.turn <= nudge'[m.pr].turn
    <3>1. m.pr \in PullRequests /\ m.no \in Nat /\ m.turn \in Nat
      BY <1>0 DEF Said
    <3>2. RowMoves(m.pr)
      BY <3>1 DEF TableMoves
    <3>3. rowsMade[m.pr] \in Nat /\ rowsMade'[m.pr] \in Nat /\ rowsMade'[m.pr] >= rowsMade[m.pr]
      BY <1>0, <3>1
    <3>4. /\ m.no <= rowsMade[m.pr]
          /\ Tracked(m.pr) /\ nudge[m.pr].no = m.no => m.turn <= nudge[m.pr].turn
      BY DEF NudgeInv, Numbered
    <3>5. nudge[m.pr] \in NudgeRow => nudge[m.pr].no \in Nat /\ nudge[m.pr].turn \in Nat
      BY DEF NudgeRow
    <3> QED
      BY <3>1, <3>2, <3>3, <3>4, <3>5 DEF RowMoves, Tracked
  <2> QED
    BY <1>0, <2>1, <2>2 DEF Numbered
<1> QED
  BY <1>4, <1>5

(* A step that opens no mention and posts none is paid for. *)
LEMMA NoneOpens ==
  ASSUME NudgeInv, UNCHANGED <<mentioned, repeats, forgotten>>, Unsettled' \subseteq Unsettled
  PROVE  RepeatsArePaid'
<1>1. /\ IsFiniteSet(mentioned) /\ repeats + Cardinality(Unsettled) <= forgotten
      /\ repeats \in Nat /\ forgotten \in Nat
  BY DEF NudgeInv, RepeatsArePaid, NudgeTypeOK
<1>2. IsFiniteSet(Unsettled)
  BY <1>1, FS_Subset DEF Unsettled
<1>3. IsFiniteSet(Unsettled') /\ Cardinality(Unsettled') <= Cardinality(Unsettled)
  BY <1>2, FS_Subset
<1>4. Cardinality(Unsettled) \in Nat /\ Cardinality(Unsettled') \in Nat
  BY <1>2, <1>3, FS_CardinalityType
<1>5. repeats + Cardinality(Unsettled') <= forgotten
  BY <1>1, <1>3, <1>4
<1> QED
  BY <1>1, <1>5 DEF RepeatsArePaid

(* When the sweep stands still no mention comes to be open. *)
LEMMA RepeatsStay ==
  ASSUME NudgeInv, TableMoves
  PROVE  RepeatsArePaid'
<1>0. /\ mentioned' = mentioned /\ sweep' = sweep /\ repeats' = repeats /\ forgotten' = forgotten
      /\ mentioned \subseteq Said /\ repeats \in Nat /\ forgotten \in Nat
      /\ rowsMade \in [PullRequests -> Nat]
  BY DEF TableMoves, NudgeInv, NudgeTypeOK
<1>1. Coming' = Coming /\ Stored' = Stored
  BY <1>0 DEF Coming, Stored
<1>2. ASSUME NEW m \in mentioned, Open(m)'
      PROVE  Open(m)
  <2>1. TheMention(m.pr)' = TheMention(m.pr)
    BY <1>0 DEF TheMention, TargetOf
  <2>2. m.pr \in PullRequests /\ m.no \in Nat /\ m.turn \in Nat /\ m.stage \in Nat
    BY <1>0 DEF Said
  <2>3. RowMoves(m.pr) /\ rowsMade[m.pr] \in Nat
    BY <1>0, <2>2 DEF TableMoves
  <2>4. /\ m.no <= rowsMade[m.pr]
        /\ Tracked(m.pr) /\ nudge[m.pr].no = m.no => m.turn <= nudge[m.pr].turn
    BY DEF NudgeInv, Numbered
  <2>5. CASE m.pr \in Coming /\ m = TheMention(m.pr)
    BY <2>5 DEF Open
  <2>6. CASE /\ nudge'[m.pr] # NotTracked /\ nudge'[m.pr].no = m.no /\ nudge'[m.pr].turn = m.turn
             /\ nudge'[m.pr].stage < m.stage
             /\ ~(m.pr \in Stored /\ m = TheMention(m.pr))
    <3>1. nudge[m.pr] \in NudgeRow => nudge[m.pr].turn \in Nat
      BY DEF NudgeRow
    <3>2. Tracked(m.pr) /\ nudge[m.pr].no = m.no /\ nudge[m.pr].turn = m.turn
          /\ nudge[m.pr].stage < m.stage
      BY <2>2, <2>3, <2>4, <2>6, <3>1 DEF RowMoves
    <3> QED
      BY <3>2, <2>6 DEF Open
  <2> QED
    BY <1>1, <1>2, <2>1, <2>5, <2>6 DEF Open, Tracked
<1>3. Unsettled' \subseteq Unsettled
  BY <1>0, <1>2 DEF Unsettled
<1> QED
  BY <1>0, <1>3, NoneOpens

-----------------------------------------------------------------------------
(* What is left of a sequence without its i-th element. *)
LEMMA RemovedAt ==
  ASSUME NEW S, NEW s \in Seq(S), NEW i \in DOMAIN s
  PROVE  /\ RemoveAt(s, i) \in Seq(S)
         /\ Len(RemoveAt(s, i)) = Len(s) - 1
         /\ \A j \in 1 .. Len(s) - 1 : RemoveAt(s, i)[j] = IF j < i THEN s[j] ELSE s[j + 1]
<1> DEFINE l == SubSeq(s, 1, i - 1)
<1> DEFINE r == SubSeq(s, i + 1, Len(s))
<1>1. Len(s) \in Nat /\ DOMAIN s = 1 .. Len(s) /\ \A j \in 1 .. Len(s) : s[j] \in S
  BY LenProperties, ElementOfSeq
<1>2. i \in Nat /\ 1 <= i /\ i <= Len(s)
  BY <1>1
<1>3. /\ l \in Seq(S) /\ Len(l) = i - 1
      /\ \A j \in 1 .. i - 1 : l[j] = s[j]
  <2>1. \A j \in 1 .. i - 1 : s[j] \in S
    BY <1>1, <1>2
  <2>2. /\ SubSeq(s, 1, i - 1) \in Seq(S)
        /\ Len(SubSeq(s, 1, i - 1)) = IF 1 <= i - 1 THEN i - 1 - 1 + 1 ELSE 0
        /\ \A j \in 1 .. i - 1 - 1 + 1 : SubSeq(s, 1, i - 1)[j] = s[1 + j - 1]
    BY <1>2, <2>1, SubSeqProperties
  <2> QED
    BY <1>2, <2>2
<1>4. /\ r \in Seq(S) /\ Len(r) = Len(s) - i
      /\ \A j \in 1 .. Len(s) - i : r[j] = s[i + j]
  <2>1. \A j \in i + 1 .. Len(s) : s[j] \in S
    BY <1>1, <1>2
  <2>2. /\ SubSeq(s, i + 1, Len(s)) \in Seq(S)
        /\ Len(SubSeq(s, i + 1, Len(s))) = IF i + 1 <= Len(s) THEN Len(s) - (i + 1) + 1 ELSE 0
        /\ \A j \in 1 .. Len(s) - (i + 1) + 1 : SubSeq(s, i + 1, Len(s))[j] = s[i + 1 + j - 1]
    BY <1>1, <1>2, <2>1, SubSeqProperties
  <2> QED
    BY <1>1, <1>2, <2>2
<1>5. RemoveAt(s, i) = l \o r
  BY DEF RemoveAt
<1> HIDE DEF l, r
<1>6. /\ l \o r \in Seq(S) /\ Len(l \o r) = Len(l) + Len(r)
      /\ \A j \in 1 .. Len(l) + Len(r) :
           (l \o r)[j] = IF j <= Len(l) THEN l[j] ELSE r[j - Len(l)]
  BY <1>3, <1>4, ConcatProperties
<1>7. ASSUME NEW j \in 1 .. Len(s) - 1
      PROVE  (l \o r)[j] = IF j < i THEN s[j] ELSE s[j + 1]
  <2>1. CASE j < i
    BY <1>1, <1>2, <1>3, <1>4, <1>6, <2>1
  <2>2. CASE ~(j < i)
    <3>1. j - Len(l) \in 1 .. Len(s) - i /\ i + (j - Len(l)) = j + 1 /\ ~(j <= Len(l))
      BY <1>1, <1>2, <1>3, <2>2
    <3>2. r[j - Len(l)] = s[i + (j - Len(l))]
      BY <1>4, <3>1
    <3>3. j \in 1 .. Len(l) + Len(r)
      BY <1>1, <1>2, <1>3, <1>4
    <3>4. (l \o r)[j] = r[j - Len(l)]
      BY <1>6, <3>1, <3>3
    <3> QED
      BY <2>2, <3>1, <3>2, <3>4
  <2> QED
    BY <2>1, <2>2
<1> QED
  BY <1>1, <1>2, <1>3, <1>4, <1>5, <1>6, <1>7

-----------------------------------------------------------------------------
(* The steps of everyone but the sweep. *)

LEMMA TableStands ==
  ASSUME NudgeInv, UNCHANGED <<nudge, rowsMade, sweep, acted, mentioned, repeats, forgotten>>
  PROVE  /\ TurnsAreRight' /\ SweepIsRight' /\ Numbered' /\ RepeatsArePaid'
         /\ sweep' \in Sweeps
<1>1. TableMoves
  <2>1. \A p \in PullRequests : rowsMade[p] \in Nat /\ nudge[p] \in NudgeRow \cup {NotTracked}
    BY DEF NudgeInv, NudgeTypeOK
  <2> QED
    BY <2>1 DEF TableMoves, RowMoves, Tracked
<1> QED
  BY <1>1, SweepStays, RepeatsStay DEF NudgeInv, TurnsAreRight, Tracked

LEMMA EnvironmentKeeps ==
  ASSUME NudgeInv, NEW p \in PullRequests,
         \/ \E q \in Testers : AssignmentBegins(p, q)
         \/ \E who \in Accounts : Acts(p, who)
         \/ Ends(p) \/ Reopens(p)
  PROVE  NudgeInv'
<1>1. /\ nudgeRegime \in NudgeRegimes /\ day \in Nat
      /\ pull \in [PullRequests -> {"open", "ended"}] /\ feed \in Seq(Event)
      /\ assigning \subseteq PullRequests \X Testers /\ late \in [PullRequests -> Nat]
      /\ spare \in NudgeBudget /\ sweep \in Sweeps
  BY DEF NudgeInv, NudgeTypeOK
<1>2. UNCHANGED <<nudgeRegime, nudge, rowsMade, sweep, acted, mentioned, repeats, forgotten>>
  BY DEF AssignmentBegins, Acts, Ends, Reopens
<1>3. /\ TurnsAreRight' /\ SweepIsRight' /\ Numbered' /\ RepeatsArePaid'
      /\ sweep' \in Sweeps
  BY <1>2, TableStands
<1>4. spare' \in NudgeBudget
  <2>1. \/ spare' = spare
        \/ Charge("assigns") \/ Charge("acts") \/ Charge("endings") \/ Charge("lost")
        \/ Charge("reopens")
    BY DEF AssignmentBegins, Acts, Ends, Reopens
  <2> QED
    BY <1>1, <2>1, ChargesCount
<1>5. day' = day
  BY DEF AssignmentBegins, Acts, Ends, Reopens
<1>6. assigning' \subseteq PullRequests \X Testers
  <2>1. assigning' = assigning \/ \E q \in Testers : assigning' = assigning \cup {<<p, q>>}
    BY DEF AssignmentBegins, Acts, Ends, Reopens
  <2> QED
    BY <1>1, <2>1
<1>7. feed' \in Seq(Event)
  <2>1. \A who \in Accounts : [kind |-> "acted", pr |-> p, who |-> who, at |-> day] \in Event
    BY <1>1 DEF Event
  <2>2. [kind |-> "ended", pr |-> p, who |-> Author, at |-> day] \in Event
    BY <1>1 DEF Event, Accounts
  <2>3. \/ feed' = feed
        \/ \E who \in Accounts :
             feed' = Append(feed, [kind |-> "acted", pr |-> p, who |-> who, at |-> day])
        \/ feed' = Append(feed, [kind |-> "ended", pr |-> p, who |-> Author, at |-> day])
    BY DEF AssignmentBegins, Acts, Ends, Reopens
  <2>4. \A e \in Event : Append(feed, e) \in Seq(Event)
    BY <1>1, AppendProperties
  <2> QED
    BY <1>1, <2>1, <2>2, <2>3, <2>4
<1>8. \/ UNCHANGED <<pull, late>>
      \/ pull' = [pull EXCEPT ![p] = "ended"] /\ late' = [late EXCEPT ![p] = 0]
      \/ pull' = [pull EXCEPT ![p] = "open"] /\ late' = late
  BY DEF AssignmentBegins, Acts, Ends, Reopens
<1>9. pull' \in [PullRequests -> {"open", "ended"}] /\ late' \in [PullRequests -> Nat]
  BY <1>1, <1>8
<1>10. EndsAreHeard'
  <2>2. ASSUME NEW x \in PullRequests, pull'[x] = "ended"
        PROVE  late'[x] + OnItsWay(x) <= 1
    <3>1. OnItsWay(x) \in {0, 1}
      BY DEF OnItsWay
    <3>2. pull[x] = "ended" => late[x] + OnItsWay(x) <= 1
      BY DEF NudgeInv, EndsAreHeard
    <3> QED
      BY <1>1, <1>8, <2>2, <3>1, <3>2
  <2>3. \A x : OnItsWay(x)' = OnItsWay(x)
    BY <1>2 DEF OnItsWay
  <2> QED
    BY <2>2, <2>3 DEF EndsAreHeard
<1>11. NudgeTypeOK'
  BY <1>1, <1>2, <1>4, <1>5, <1>6, <1>7, <1>9 DEF NudgeInv, NudgeTypeOK
<1> QED
  BY <1>3, <1>10, <1>11 DEF NudgeInv

LEMMA DayBreaksKeeps ==
  ASSUME NudgeInv, DayBreaks
  PROVE  NudgeInv'
<1>1. /\ TurnsAreRight' /\ SweepIsRight' /\ Numbered' /\ RepeatsArePaid' /\ sweep' \in Sweeps
  BY TableStands DEF DayBreaks
<1>2. EndsAreHeard'
  BY DEF DayBreaks, NudgeInv, EndsAreHeard, OnItsWay
<1>3. NudgeTypeOK'
  <2>1. day' \in Nat
    BY DEF DayBreaks, NudgeInv, NudgeTypeOK
  <2> QED
    BY <2>1 DEF DayBreaks, NudgeInv, NudgeTypeOK
<1> QED
  BY <1>1, <1>2, <1>3 DEF NudgeInv

LEMMA AssignmentTracksKeeps ==
  ASSUME NudgeInv, NEW p \in PullRequests, NEW q \in Testers, AssignmentTracks(p, q)
  PROVE  NudgeInv'
<1> DEFINE fresh == [no |-> rowsMade[p] + 1, qa |-> q, chips |-> [t \in Testers |-> 0],
                     waiting |-> "qa", last |-> day, stage |-> 0, turn |-> 0]
<1> DEFINE kept == [nudge[p] EXCEPT !.qa = q]
<1> DEFINE asked == [side |-> "developer", at |-> day]
<1>1. /\ NudgeTypeOK /\ nudge \in [PullRequests -> NudgeRow \cup {NotTracked}]
      /\ rowsMade \in [PullRequests -> Nat] /\ day \in Nat
      /\ acted \in [PullRequests -> [side : Sides, at : Nat]]
      /\ assigning \subseteq PullRequests \X Testers
      /\ sweep \in Sweeps
  BY DEF NudgeInv, NudgeTypeOK
<1>2. /\ assigning' = assigning \ {<<p, q>>}
      /\ UNCHANGED <<nudgeRegime, day, pull, feed, sweep, mentioned, repeats, forgotten, late,
                     spare>>
  BY DEF AssignmentTracks
<1>3. CASE Tracked(p)
  <2>1. nudge' = [nudge EXCEPT ![p] = kept] /\ UNCHANGED <<rowsMade, acted>>
    BY <1>3 DEF AssignmentTracks
  <2>2. nudge[p] \in NudgeRow
    BY <1>1, <1>3 DEF Tracked
  <2>3. kept \in NudgeRow
    BY <2>2 DEF NudgeRow
  <2>4. /\ kept.no = nudge[p].no /\ kept.turn = nudge[p].turn /\ kept.stage = nudge[p].stage
        /\ kept.waiting = nudge[p].waiting /\ kept.last = nudge[p].last
    BY <2>2 DEF NudgeRow
  <2> HIDE DEF kept
  <2>5. nudge' \in [PullRequests -> NudgeRow \cup {NotTracked}]
    BY <1>1, <2>1, <2>3
  <2>6. nudge'[p] = kept /\ \A x \in PullRequests : x # p => nudge'[x] = nudge[x]
    BY <1>1, <2>1
  <2>7. \A x \in PullRequests : RowMoves(x)
    BY <1>1, <1>3, <2>2, <2>3, <2>4, <2>6 DEF RowMoves, Tracked
  <2>8. TableMoves
    BY <1>1, <1>2, <2>1, <2>7 DEF TableMoves
  <2>9. TurnsAreRight'
    BY <1>3, <2>1, <2>4, <2>6 DEF NudgeInv, TurnsAreRight, Tracked, Waits
  <2>10. NudgeTypeOK'
    BY <1>1, <1>2, <2>1, <2>5 DEF NudgeTypeOK
  <2>11. EndsAreHeard'
    BY <1>2 DEF NudgeInv, EndsAreHeard, OnItsWay
  <2> QED
    BY <1>1, <1>2, <2>8, <2>9, <2>10, <2>11, SweepStays, RepeatsStay DEF NudgeInv
<1>4. CASE ~Tracked(p)
  <2>1. /\ nudge' = [nudge EXCEPT ![p] = fresh]
        /\ rowsMade' = [rowsMade EXCEPT ![p] = @ + 1]
        /\ acted' = [acted EXCEPT ![p] = asked]
    BY <1>4 DEF AssignmentTracks
  <2>2. fresh \in NudgeRow
    <3>1. rowsMade[p] + 1 \in Nat /\ [t \in Testers |-> 0] \in [Testers -> 0 .. ChipIn]
      BY <1>1 DEF ChipIn
    <3> QED
      BY <1>1, <3>1 DEF NudgeRow, Sides
  <2>3. fresh.no = rowsMade[p] + 1 /\ Waits(fresh, asked)
    BY <1>1 DEF Waits
  <2>4. asked \in [side : Sides, at : Nat]
    BY <1>1 DEF Sides
  <2> HIDE DEF fresh, asked
  <2>5. /\ nudge' \in [PullRequests -> NudgeRow \cup {NotTracked}]
        /\ rowsMade' \in [PullRequests -> Nat]
        /\ acted' \in [PullRequests -> [side : Sides, at : Nat]]
    BY <1>1, <2>1, <2>2, <2>4
  <2>6. /\ nudge'[p] = fresh /\ rowsMade'[p] = rowsMade[p] + 1 /\ acted'[p] = asked
        /\ \A x \in PullRequests :
             x # p => nudge'[x] = nudge[x] /\ rowsMade'[x] = rowsMade[x] /\ acted'[x] = acted[x]
    BY <1>1, <2>1
  <2>7. \A x \in PullRequests : RowMoves(x)
    BY <1>1, <2>2, <2>3, <2>6 DEF RowMoves, Tracked
  <2>8. TableMoves
    BY <1>1, <1>2, <2>5, <2>6, <2>7 DEF TableMoves
  <2>9. TurnsAreRight'
    BY <2>3, <2>6 DEF NudgeInv, TurnsAreRight, Tracked
  <2>10. NudgeTypeOK'
    BY <1>1, <1>2, <2>5 DEF NudgeTypeOK
  <2>11. EndsAreHeard'
    BY <1>2 DEF NudgeInv, EndsAreHeard, OnItsWay
  <2> QED
    BY <1>1, <1>2, <2>8, <2>9, <2>10, <2>11, SweepStays, RepeatsStay DEF NudgeInv
<1> QED
  BY <1>3, <1>4

LEMMA HandleEventKeeps ==
  ASSUME NudgeInv, NEW i \in DOMAIN feed, HandleEvent(i)
  PROVE  NudgeInv'
<1> DEFINE e == feed[i]
<1> DEFINE p == e.pr
<1>1. /\ NudgeTypeOK /\ nudge \in [PullRequests -> NudgeRow \cup {NotTracked}]
      /\ rowsMade \in [PullRequests -> Nat] /\ feed \in Seq(Event)
      /\ acted \in [PullRequests -> [side : Sides, at : Nat]]
      /\ sweep \in Sweeps
  BY DEF NudgeInv, NudgeTypeOK
<1>2. /\ feed' = RemoveAt(feed, i)
      /\ UNCHANGED <<nudgeRegime, day, pull, assigning, rowsMade, sweep, mentioned, repeats,
                     forgotten, late, spare>>
  BY DEF HandleEvent
<1>3. RecordActivity(e) \/ (Retire(p) /\ UNCHANGED acted)
  BY DEF HandleEvent
<1>4. e \in Event
  <2>1. i \in 1 .. Len(feed)
    BY <1>1, LenProperties
  <2> QED
    BY <1>1, <2>1, ElementOfSeq
<1>5. p \in PullRequests /\ e.who \in Accounts /\ e.at \in Nat
  BY <1>4 DEF Event
<1>6. feed' \in Seq(Event)
  BY <1>1, <1>2, RemovedAt
<1> DEFINE heard == [side |-> SideOf(nudge[p], e.who), at |-> e.at]
(* The row as it is handled, if there is one. *)
<1> DEFINE kept == [nudge[p] EXCEPT !.chips = Chips(nudge[p], e.who)]
<1> DEFINE turned == Turn(kept, SideOf(nudge[p], e.who), e.at)
<1>7. ASSUME NEW row \in NudgeRow \cup {NotTracked}, NEW act \in [side : Sides, at : Nat],
             nudge' = [nudge EXCEPT ![p] = row], acted' = [acted EXCEPT ![p] = act],
             row # NotTracked => /\ row \in NudgeRow /\ Tracked(p) /\ row.no = nudge[p].no
                                 /\ \/ row.turn = nudge[p].turn /\ row.stage = nudge[p].stage
                                    \/ row.turn = nudge[p].turn + 1 /\ row.stage = 0
                                 /\ Waits(row, act)
      PROVE  NudgeInv'
  <2> HIDE DEF e, p, kept, turned, heard
  <2>1. /\ nudge' \in [PullRequests -> NudgeRow \cup {NotTracked}]
        /\ acted' \in [PullRequests -> [side : Sides, at : Nat]]
    BY <1>1, <1>7
  <2>2. /\ nudge'[p] = row /\ acted'[p] = act
        /\ \A x \in PullRequests : x # p => nudge'[x] = nudge[x] /\ acted'[x] = acted[x]
    BY <1>1, <1>5, <1>7
  <2>3. \A x \in PullRequests : RowMoves(x)
    <3> SUFFICES ASSUME NEW x \in PullRequests PROVE RowMoves(x)
      OBVIOUS
    <3>1. CASE x = p
      BY <1>1, <1>5, <1>7, <2>2, <3>1 DEF RowMoves, Tracked
    <3>2. CASE x # p
      BY <1>1, <2>2, <3>2 DEF RowMoves, Tracked
    <3> QED
      BY <3>1, <3>2
  <2>4. TableMoves
    BY <1>1, <1>2, <2>3 DEF TableMoves
  <2>5. TurnsAreRight'
    BY <1>7, <2>2 DEF NudgeInv, TurnsAreRight, Tracked
  <2>6. NudgeTypeOK'
    BY <1>1, <1>2, <1>6, <2>1 DEF NudgeTypeOK
  <2>7. EndsAreHeard'
    BY <1>2 DEF NudgeInv, EndsAreHeard, OnItsWay
  <2> QED
    BY <1>1, <1>2, <2>4, <2>5, <2>6, <2>7, SweepStays, RepeatsStay DEF NudgeInv
<1>8. nudge[p] \in NudgeRow \cup {NotTracked} /\ acted[p] \in [side : Sides, at : Nat]
  BY <1>1, <1>5
<1>9. CASE Retire(p) /\ UNCHANGED acted
  <2>1. nudge' = [nudge EXCEPT ![p] = NotTracked] /\ acted' = [acted EXCEPT ![p] = acted[p]]
    BY <1>1, <1>9 DEF Retire
  <2> HIDE DEF e, p, kept, turned, heard
  <2> QED
    BY <1>7, <1>8, <2>1
<1>10. CASE RecordActivity(e) /\ ~Tracked(p)
  <2>1. nudge' = nudge /\ acted' = acted
    BY <1>10 DEF RecordActivity
  <2>2. nudge' = [nudge EXCEPT ![p] = NotTracked] /\ acted' = [acted EXCEPT ![p] = acted[p]]
    BY <1>1, <1>5, <1>10, <2>1 DEF Tracked
  <2> HIDE DEF e, p, kept, turned, heard
  <2> QED
    BY <1>7, <1>8, <2>2
<1>11. CASE RecordActivity(e) /\ Tracked(p)
  <2>1. nudge[p] \in NudgeRow
    BY <1>8, <1>11 DEF Tracked
  <2>2. kept \in NudgeRow
    BY <1>5, <2>1, ChipsAreKept
  <2>3. /\ kept.no = nudge[p].no /\ kept.turn = nudge[p].turn /\ kept.stage = nudge[p].stage
        /\ kept.waiting = nudge[p].waiting /\ kept.last = nudge[p].last
    BY <2>1 DEF NudgeRow
  <2>4. CASE SideOf(nudge[p], e.who) = "other"
    <3>1. nudge' = [nudge EXCEPT ![p] = kept] /\ acted' = [acted EXCEPT ![p] = acted[p]]
      BY <1>1, <1>11, <2>4 DEF RecordActivity
    <3>2. Waits(kept, acted[p])
      <4>1. Waits(nudge[p], acted[p])
        BY <1>5, <1>11 DEF NudgeInv, TurnsAreRight
      <4> QED
        BY <2>3, <4>1 DEF Waits
    <3> HIDE DEF e, p, kept, turned, heard
    <3> QED
      BY <1>7, <1>8, <1>11, <2>2, <2>3, <3>1, <3>2
  <2>5. CASE SideOf(nudge[p], e.who) # "other"
    <3>1. SideOf(nudge[p], e.who) \in Sides
      BY <2>5 DEF SideOf, Sides
    <3>2. nudge' = [nudge EXCEPT ![p] = turned] /\ acted' = [acted EXCEPT ![p] = heard]
      BY <1>1, <1>11, <2>5 DEF RecordActivity
    <3>3. heard \in [side : Sides, at : Nat]
      BY <1>5, <3>1
    <3> DEFINE side == SideOf(nudge[p], e.who)
    <3> DEFINE at == e.at
    <3>4. heard = [side |-> side, at |-> at] /\ turned = Turn(kept, side, at)
      OBVIOUS
    <3>5. side \in Sides /\ at \in Nat
      BY <1>5, <3>1
    <3> HIDE DEF e, p, kept, turned, heard, side, at
    <3>6. /\ turned \in NudgeRow /\ turned.no = kept.no
          /\ turned = kept \/ (turned.turn = kept.turn + 1 /\ turned.stage = 0)
          /\ Waits(turned, heard)
      <4>1. /\ Turn(kept, side, at) \in NudgeRow /\ Turn(kept, side, at).no = kept.no
            /\ \/ Turn(kept, side, at) = kept
               \/ /\ Turn(kept, side, at).turn = kept.turn + 1
                  /\ Turn(kept, side, at).stage = 0
            /\ Waits(Turn(kept, side, at), [side |-> side, at |-> at])
        BY <2>2, <3>5, TurnIsARow
      <4> QED
        BY <3>4, <4>1
    <3>7. \/ turned.turn = nudge[p].turn /\ turned.stage = nudge[p].stage
          \/ turned.turn = nudge[p].turn + 1 /\ turned.stage = 0
      BY <2>3, <3>6
    <3> QED
      BY <1>7, <1>11, <2>3, <3>2, <3>3, <3>6, <3>7
  <2> QED
    BY <2>4, <2>5
<1> QED
  BY <1>3, <1>9, <1>10, <1>11

-----------------------------------------------------------------------------
(* The steps of the sweep. *)

(* A stage is due after three days of silence, and not before. *)
LEMMA StagesCount ==
  ASSUME NEW days \in Int
  PROVE  TargetStage(days) \in Nat /\ (TargetStage(days) > 0 => days >= 3)
BY DEF TargetStage

LEMMA RowsAreCounted ==
  ASSUME NudgeInv, NEW p \in Coming \cup Stored
  PROVE  /\ p \in PullRequests /\ sweep.rows[p] \in NudgeRow
         /\ TargetOf(p) \in Nat /\ sweep.rows[p].stage < TargetOf(p)
         /\ TheMention(p) \in Said
<1>1. p \in PullRequests /\ sweep.at \in Nat
  BY DEF Coming, Stored, NudgeInv, NudgeTypeOK, SweepIsRight
<1>2. RowIsRead(p)
  BY DEF NudgeInv, SweepIsRight
<1>3. /\ sweep.rows[p] \in NudgeRow
      /\ sweep.rows[p].no \in Nat /\ sweep.rows[p].turn \in Nat /\ sweep.rows[p].last \in Nat
      /\ sweep.rows[p].stage \in Nat /\ sweep.rows[p].waiting \in Sides
  BY <1>2 DEF RowIsRead, NudgeRow
<1>4. sweep.at - sweep.rows[p].last \in Int
  BY <1>1, <1>3
<1>5. TargetOf(p) \in Nat
  BY <1>4, StagesCount DEF TargetOf
<1>6. sweep.rows[p].stage < TargetOf(p)
  BY <1>2, <1>3, <1>5 DEF RowIsRead, DueOn, TargetOf
<1> QED
  BY <1>1, <1>3, <1>5, <1>6 DEF TheMention, Said

LEMMA SweepReadsKeeps ==
  ASSUME NudgeInv, SweepReads
  PROVE  NudgeInv'
<1> DEFINE due == {p \in PullRequests : Due(p)}
<1>1. /\ NudgeTypeOK /\ nudge \in [PullRequests -> NudgeRow \cup {NotTracked}] /\ day \in Nat
      /\ rowsMade \in [PullRequests -> Nat] /\ mentioned \subseteq Said
      /\ acted \in [PullRequests -> [side : Sides, at : Nat]]
      /\ sweep = NoSweep
  BY DEF NudgeInv, NudgeTypeOK, SweepIsRight, SweepReads
<1>2. UNCHANGED <<nudgeRegime, day, pull, feed, assigning, nudge, rowsMade, acted, mentioned,
                  repeats, forgotten, late, spare>>
  BY DEF SweepReads
<1>3. sweep' = [NoSweep EXCEPT !.pc = "scanning", !.at = day, !.rows = nudge, !.left = due,
                               !.acted = acted]
  BY DEF SweepReads
<1>4. sweep' = [pc |-> "scanning", at |-> day, rows |-> nudge, left |-> due, on |-> NoPull,
                stage |-> [p \in PullRequests |-> 0], gone |-> {}, acted |-> acted]
  BY <1>3 DEF NoSweep
<1> HIDE DEF due
<1>5. /\ sweep'.pc = "scanning" /\ sweep'.at = day /\ sweep'.rows = nudge /\ sweep'.left = due
      /\ sweep'.on = NoPull /\ sweep'.stage = [p \in PullRequests |-> 0] /\ sweep'.gone = {}
      /\ sweep'.acted = acted
  BY <1>4
<1>6. sweep' \in Sweeps
  BY <1>1, <1>4 DEF Sweeps, due
<1>7. Coming' = due /\ Stored' = {} /\ Stored = {}
  BY <1>1, <1>5 DEF Coming, Stored, NoSweep
<1>8. ASSUME NEW p \in due
      PROVE  RowIsRead(p)' /\ Tracked(p) /\ nudge[p] \in NudgeRow /\ p \in PullRequests
  <2>1. p \in PullRequests /\ Tracked(p) /\ DueOn(nudge[p], day)
    BY DEF due, Due
  <2>2. nudge[p] \in NudgeRow
    BY <1>1, <2>1 DEF Tracked
  <2>3. Waits(nudge[p], acted[p]) /\ nudge[p].no <= rowsMade[p]
    BY <2>1 DEF NudgeInv, TurnsAreRight, Numbered
  <2>4. nudge[p].turn \in Nat /\ nudge[p].stage \in Nat
    BY <2>2 DEF NudgeRow
  <2> QED
    BY <1>2, <1>5, <2>1, <2>2, <2>3, <2>4 DEF RowIsRead
<1>9. SweepIsRight'
  BY <1>5, <1>7, <1>8, FS_EmptySet DEF SweepIsRight
<1>10. Unsettled' \subseteq Unsettled
  <2> SUFFICES ASSUME NEW m \in mentioned, Open(m)' PROVE Open(m)
    BY <1>2 DEF Unsettled
  <2>1. CASE m.pr \in Coming' /\ m = TheMention(m.pr)'
    <3>1. /\ Tracked(m.pr) /\ nudge[m.pr] \in NudgeRow
          /\ DueOn(nudge[m.pr], day) /\ m.pr \in PullRequests
      BY <1>7, <1>8, <2>1 DEF due, Due
    <3>2. /\ m.no = nudge[m.pr].no /\ m.turn = nudge[m.pr].turn
          /\ m.stage = TargetStage(day - nudge[m.pr].last)
      <4> DEFINE p == m.pr
      <4>1. m = [pr |-> p, no |-> nudge[p].no, turn |-> nudge[p].turn,
                 side |-> nudge[p].waiting, stage |-> TargetStage(day - nudge[p].last)]
        BY <1>5, <2>1 DEF TheMention, TargetOf
      <4> HIDE DEF p
      <4>2. /\ m.no = nudge[p].no /\ m.turn = nudge[p].turn
            /\ m.stage = TargetStage(day - nudge[p].last)
        BY <4>1
      <4> QED
        BY <4>2 DEF p
    <3>3. nudge[m.pr].stage < m.stage
      <4>1. day - nudge[m.pr].last \in Int /\ nudge[m.pr].stage \in Nat
        BY <1>1, <3>1 DEF NudgeRow
      <4>2. m.stage \in Nat
        BY <3>2, <4>1, StagesCount
      <4> QED
        BY <3>1, <3>2, <4>1, <4>2 DEF DueOn
    <3> QED
      BY <1>7, <3>1, <3>2, <3>3 DEF Open
  <2>2. CASE ~(m.pr \in Coming' /\ m = TheMention(m.pr)')
    BY <1>2, <1>7, <2>2 DEF Open, Tracked
  <2> QED
    BY <2>1, <2>2
<1>11. RepeatsArePaid'
  BY <1>2, <1>10, NoneOpens
<1>12. TurnsAreRight' /\ Numbered'
  BY <1>2 DEF NudgeInv, TurnsAreRight, Numbered, Tracked
<1>13. EndsAreHeard'
  <2>1. sweep.pc = "idle"
    BY DEF SweepReads
  <2> QED
    BY <1>2, <1>5, <2>1 DEF NudgeInv, EndsAreHeard, OnItsWay
<1>14. NudgeTypeOK'
  BY <1>1, <1>2, <1>6 DEF NudgeTypeOK, Sweeps
<1> QED
  BY <1>6, <1>9, <1>11, <1>12, <1>13, <1>14 DEF NudgeInv

(* What the sweep lets go of, it need not know; the rest it knows as before. *)
LEMMA SweepGoesOn ==
  ASSUME NudgeInv, sweep' \in Sweeps, UNCHANGED <<nudge, rowsMade, acted>>,
         sweep'.rows = sweep.rows, sweep'.at = sweep.at, sweep'.acted = sweep.acted,
         Coming' \subseteq Coming, Stored' \subseteq Stored \cup Coming,
         IsFiniteSet(Stored'), sweep'.pc # "idle",
         \A p \in Stored' : sweep'.stage[p] = TargetOf(p) /\ p \notin Coming',
         sweep'.pc = "commenting" => sweep'.on \in PullRequests /\ sweep'.on \notin sweep'.left
  PROVE  /\ SweepIsRight' /\ TurnsAreRight'
         /\ \A p : TargetOf(p)' = TargetOf(p) /\ TheMention(p)' = TheMention(p)
<1>1. \A p : TargetOf(p)' = TargetOf(p)
  BY DEF TargetOf
<1>2. \A p : TheMention(p)' = TheMention(p)
  BY <1>1 DEF TheMention
<1>3. ASSUME NEW p \in Coming' \cup Stored'
      PROVE  RowIsRead(p)'
  <2>1. RowIsRead(p)
    BY DEF NudgeInv, SweepIsRight
  <2> QED
    BY <2>1 DEF RowIsRead, Tracked
<1>4. SweepIsRight'
  BY <1>1, <1>3 DEF SweepIsRight
<1>5. TurnsAreRight'
  BY DEF NudgeInv, TurnsAreRight, Tracked
<1> QED
  BY <1>1, <1>2, <1>4, <1>5

LEMMA SweepChecksKeeps ==
  ASSUME NudgeInv, NEW p \in sweep.left, SweepChecks(p)
  PROVE  NudgeInv'
<1> DEFINE more == sweep.gone \cup (IF Tracked(p) THEN {<<p, nudge[p].no>>} ELSE {})
<1>1. /\ NudgeTypeOK /\ sweep \in Sweeps /\ nudge \in [PullRequests -> NudgeRow \cup {NotTracked}]
      /\ spare \in NudgeBudget /\ mentioned \subseteq Said /\ sweep.pc = "scanning"
      /\ p \in PullRequests /\ late \in [PullRequests -> Nat]
  BY DEF NudgeInv, NudgeTypeOK, SweepChecks
<1>2. UNCHANGED <<nudgeRegime, day, pull, feed, assigning, nudge, rowsMade, acted, mentioned,
                  repeats, forgotten, late>>
  BY DEF SweepChecks
<1>3. \/ /\ pull[p] = "open"
         /\ sweep' = [[sweep EXCEPT !.left = @ \ {p}] EXCEPT !.pc = "commenting", !.on = p]
      \/ sweep' = [[sweep EXCEPT !.left = @ \ {p}] EXCEPT !.gone = more]
      \/ sweep' = [sweep EXCEPT !.left = @ \ {p}]
  BY <1>1 DEF SweepChecks, Drop, Sweeps
<1>4. more \subseteq PullRequests \X Nat
  BY <1>1 DEF Tracked, Sweeps, NudgeRow
<1> HIDE DEF more
<1>5. /\ sweep' \in Sweeps
      /\ sweep'.rows = sweep.rows /\ sweep'.at = sweep.at /\ sweep'.acted = sweep.acted
      /\ sweep'.stage = sweep.stage /\ sweep'.left = sweep.left \ {p}
      /\ \/ sweep'.pc = "scanning"
         \/ sweep'.pc = "commenting" /\ sweep'.on = p /\ pull[p] = "open"
  <2>1. CASE sweep' = [[sweep EXCEPT !.left = @ \ {p}] EXCEPT !.pc = "commenting", !.on = p] /\ pull[p] = "open"
    BY <1>1, <2>1 DEF Sweeps
  <2>2. CASE sweep' = [[sweep EXCEPT !.left = @ \ {p}] EXCEPT !.gone = more]
    BY <1>1, <1>4, <2>2 DEF Sweeps
  <2>3. CASE sweep' = [sweep EXCEPT !.left = @ \ {p}]
    BY <1>1, <2>3 DEF Sweeps
  <2> QED
    BY <1>3, <2>1, <2>2, <2>3
<1>6. Coming' \subseteq Coming /\ Stored' = Stored
  BY <1>1, <1>5 DEF Coming, Stored
<1>7. spare' \in NudgeBudget
  BY <1>1, ChargesCount DEF SweepChecks
<1>8. /\ SweepIsRight' /\ TurnsAreRight'
      /\ \A x : TargetOf(x)' = TargetOf(x) /\ TheMention(x)' = TheMention(x)
  <2>1. /\ IsFiniteSet(Stored') /\ Stored' \subseteq Stored \cup Coming
        /\ \A x \in Stored' : sweep'.stage[x] = TargetOf(x) /\ x \notin Coming'
    BY <1>5, <1>6 DEF NudgeInv, SweepIsRight
  <2>2. sweep'.pc = "commenting" => sweep'.on \in PullRequests /\ sweep'.on \notin sweep'.left
    BY <1>1, <1>5
  <2>3. sweep'.pc # "idle"
    BY <1>5
  <2> QED
    BY <1>2, <1>5, <1>6, <2>1, <2>2, <2>3, SweepGoesOn
<1>9. Unsettled' \subseteq Unsettled
  BY <1>2, <1>6, <1>8 DEF Unsettled, Open, Tracked
<1>10. RepeatsArePaid'
  BY <1>2, <1>9, NoneOpens
<1>11. Numbered'
  BY <1>2 DEF NudgeInv, Numbered, Tracked
<1>12. EndsAreHeard'
  <2> SUFFICES ASSUME NEW x \in PullRequests, pull[x] = "ended"
               PROVE  late[x] + OnItsWay(x)' <= 1
    BY <1>2 DEF EndsAreHeard
  <2>1. late[x] + OnItsWay(x) <= 1 /\ late[x] \in Nat
    BY <1>1 DEF NudgeInv, EndsAreHeard
  <2>2. OnItsWay(x)' = 0
    BY <1>5 DEF OnItsWay
  <2>3. OnItsWay(x) \in {0, 1}
    BY DEF OnItsWay
  <2> QED
    BY <2>1, <2>2, <2>3
<1>13. NudgeTypeOK'
  BY <1>1, <1>2, <1>5, <1>7 DEF NudgeTypeOK, Sweeps
<1> QED
  BY <1>5, <1>8, <1>10, <1>11, <1>12, <1>13 DEF NudgeInv

(* The sweep has its comment's answer, or its lack of one, and goes on. *)
LEMMA AfterTheComment ==
  ASSUME NudgeInv, sweep.pc = "commenting", UNCHANGED <<nudge, rowsMade, acted>>,
         NEW p, p = sweep.on, NEW said, said = TheMention(p),
         \/ sweep' = [sweep EXCEPT !.pc = "scanning", !.on = NoPull, !.stage[p] = TargetOf(p)]
         \/ sweep' = [sweep EXCEPT !.pc = "scanning", !.on = NoPull]
  PROVE  /\ sweep' \in Sweeps /\ SweepIsRight' /\ TurnsAreRight'
         /\ \A x : OnItsWay(x)' = 0
         /\ \A m : Open(m)' => Open(m)
         /\ sweep' # [sweep EXCEPT !.pc = "scanning", !.on = NoPull] <=> p \in Stored'
         /\ p \in Stored' => ~Open(said)'
<1>1. /\ sweep \in Sweeps /\ p \in PullRequests /\ p \in Coming /\ p \notin sweep.left
      /\ p \notin Stored
  BY DEF NudgeInv, SweepIsRight, Coming
<1>2. TargetOf(p) \in Nat /\ TargetOf(p) > 0
  <2>1. /\ sweep.rows[p] \in NudgeRow /\ TargetOf(p) \in Nat
        /\ sweep.rows[p].stage < TargetOf(p)
    BY <1>1, RowsAreCounted
  <2>2. sweep.rows[p].stage \in Nat
    BY <2>1 DEF NudgeRow
  <2> QED
    BY <2>1, <2>2
<1>3. /\ sweep' \in Sweeps /\ sweep'.pc = "scanning"
      /\ sweep'.rows = sweep.rows /\ sweep'.at = sweep.at /\ sweep'.acted = sweep.acted
      /\ sweep'.left = sweep.left
      /\ sweep'.stage \in {sweep.stage, [sweep.stage EXCEPT ![p] = TargetOf(p)]}
  <2>1. CASE sweep' = [sweep EXCEPT !.pc = "scanning", !.on = NoPull,
                                    !.stage = [sweep.stage EXCEPT ![p] = TargetOf(p)]]
    <3>1. [sweep.stage EXCEPT ![p] = TargetOf(p)] \in [PullRequests -> Nat]
      BY <1>1, <1>2 DEF Sweeps
    <3>2. sweep' \in Sweeps
      BY <1>1, <2>1, <3>1 DEF Sweeps
    <3> QED
      BY <1>1, <2>1, <3>2 DEF Sweeps
  <2>2. CASE sweep' = [sweep EXCEPT !.pc = "scanning", !.on = NoPull]
    BY <1>1, <2>2 DEF Sweeps
  <2> QED
    BY <2>1, <2>2
<1>4. \/ /\ sweep' = [sweep EXCEPT !.pc = "scanning", !.on = NoPull]
         /\ sweep'.stage = sweep.stage
      \/ sweep'.stage = [sweep.stage EXCEPT ![p] = TargetOf(p)]
  BY <1>1 DEF Sweeps
<1>5. Coming' = Coming \ {p}
  BY <1>1, <1>3 DEF Coming
<1>6. /\ sweep'.stage = sweep.stage => Stored' = Stored
      /\ sweep'.stage = [sweep.stage EXCEPT ![p] = TargetOf(p)] => Stored' = Stored \cup {p}
  BY <1>1, <1>2 DEF Stored, Sweeps
<1>7. /\ SweepIsRight' /\ TurnsAreRight'
      /\ \A x : TargetOf(x)' = TargetOf(x) /\ TheMention(x)' = TheMention(x)
  <2>1. IsFiniteSet(Stored) /\ IsFiniteSet(Stored \cup {p})
    BY FS_AddElement DEF NudgeInv, SweepIsRight
  <2>2. \A x \in Stored : sweep.stage[x] = TargetOf(x) /\ x \notin Coming
    BY DEF NudgeInv, SweepIsRight
  <2>3. /\ IsFiniteSet(Stored') /\ Stored' \subseteq Stored \cup Coming
        /\ \A x \in Stored' : sweep'.stage[x] = TargetOf(x) /\ x \notin Coming'
    <3>1. CASE sweep'.stage = sweep.stage
      BY <3>1, <1>5, <1>6, <2>1, <2>2
    <3>2. CASE sweep'.stage = [sweep.stage EXCEPT ![p] = TargetOf(p)]
      BY <3>2, <1>1, <1>5, <1>6, <2>1, <2>2 DEF Sweeps, Stored
    <3> QED
      BY <1>3, <3>1, <3>2
  <2> QED
    BY <1>3, <1>5, <2>3, SweepGoesOn
<1>8. \A x : OnItsWay(x)' = 0
  BY <1>3 DEF OnItsWay
<1>9. Stored \subseteq Stored'
  BY <1>3, <1>6
<1>10. ASSUME NEW m, Open(m)'
       PROVE  Open(m)
  BY <1>5, <1>7, <1>9, <1>10 DEF Open, Tracked
<1>11. ASSUME p \in Stored'
       PROVE  ~Open(said)'
  <2>1. p \in Stored' /\ p \notin Coming'
    BY <1>5, <1>11
  <2>2. said.pr = p
    BY DEF TheMention
  <2> QED
    BY <1>7, <2>1, <2>2 DEF Open
<1>12. sweep' # [sweep EXCEPT !.pc = "scanning", !.on = NoPull] <=> p \in Stored'
  <2>1. [sweep EXCEPT !.pc = "scanning", !.on = NoPull].stage = sweep.stage
    BY <1>1 DEF Sweeps
  <2> QED
    BY <1>1, <1>4, <1>6, <2>1
<1> QED
  BY <1>3, <1>7, <1>8, <1>10, <1>11, <1>12

LEMMA SweepCommentsKeeps ==
  ASSUME NudgeInv, SweepComments
  PROVE  NudgeInv'
<1> DEFINE went == [sweep EXCEPT !.pc = "scanning", !.on = NoPull]
<1>1. PICK p : p = sweep.on
  OBVIOUS
<1>2. PICK m : m = TheMention(p)
  OBVIOUS
<1>3. /\ NudgeTypeOK /\ sweep \in Sweeps /\ mentioned \subseteq Said /\ spare \in NudgeBudget
      /\ late \in [PullRequests -> Nat] /\ repeats \in Nat /\ forgotten \in Nat
      /\ sweep.pc = "commenting" /\ p \in PullRequests /\ p \in Coming
  BY <1>1 DEF NudgeInv, NudgeTypeOK, SweepComments, SweepIsRight, Coming
<1>4. UNCHANGED <<nudgeRegime, day, pull, feed, assigning, nudge, rowsMade, acted>>
  BY DEF SweepComments
<1>5. /\ m \in Said /\ m.pr = p /\ m.no = sweep.rows[p].no /\ m.turn = sweep.rows[p].turn
      /\ TargetOf(p) \in Nat /\ TargetOf(p) > 0
  <2>1. /\ m \in Said /\ sweep.rows[p] \in NudgeRow /\ TargetOf(p) \in Nat
        /\ sweep.rows[p].stage < TargetOf(p)
    BY <1>2, <1>3, RowsAreCounted
  <2>2. sweep.rows[p].stage \in Nat
    BY <2>1 DEF NudgeRow
  <2> QED
    BY <1>2, <2>1, <2>2 DEF TheMention
(* What the comment changes if it is posted, and what GitHub and the sweep make of it. *)
<1> DEFINE Posted ==
             /\ mentioned' = mentioned \cup {m}
             /\ repeats' = IF m \in mentioned THEN repeats + 1 ELSE repeats
             /\ late' = IF pull[p] = "ended" THEN [late EXCEPT ![p] = @ + 1] ELSE late
<1>6. \/ /\ Posted /\ UNCHANGED <<forgotten, spare>>
         /\ sweep' = [sweep EXCEPT !.pc = "scanning", !.on = NoPull, !.stage[p] = TargetOf(p)]
      \/ Posted /\ Charge("unheard") /\ forgotten' = forgotten + 1 /\ sweep' = went
      \/ Charge("refused") /\ sweep' = went /\ UNCHANGED <<mentioned, repeats, late, forgotten>>
  BY <1>1, <1>2 DEF SweepComments, Mention, TheMention
<1>7. /\ sweep' \in Sweeps /\ SweepIsRight' /\ TurnsAreRight'
      /\ \A x : OnItsWay(x)' = 0
      /\ \A n : Open(n)' => Open(n)
      /\ sweep' # went <=> p \in Stored'
      /\ p \in Stored' => ~Open(m)'
  BY <1>1, <1>2, <1>3, <1>4, <1>6, AfterTheComment
<1>8. Open(m)
  BY <1>2, <1>3, <1>5 DEF Open
<1>9. spare' \in NudgeBudget
  BY <1>3, <1>6, ChargesCount
<1>10. /\ mentioned' \subseteq Said /\ repeats' \in Nat /\ forgotten' \in Nat
       /\ late' \in [PullRequests -> Nat]
  BY <1>3, <1>5, <1>6
<1>11. Numbered'
  <2>1. /\ m.no <= rowsMade[p]
        /\ Tracked(p) /\ nudge[p].no = m.no => m.turn <= nudge[p].turn
    BY <1>3, <1>5 DEF NudgeInv, SweepIsRight, RowIsRead
  <2>2. mentioned' \subseteq mentioned \cup {m}
    BY <1>6
  <2> QED
    BY <1>4, <1>5, <2>1, <2>2 DEF NudgeInv, Numbered, Tracked
<1>12. EndsAreHeard'
  <2> SUFFICES ASSUME NEW x \in PullRequests, pull[x] = "ended"
               PROVE  late'[x] <= 1
    BY <1>4, <1>7, <1>10 DEF EndsAreHeard
  <2>1. late[x] + OnItsWay(x) <= 1 /\ late[x] \in Nat
    BY <1>3 DEF NudgeInv, EndsAreHeard
  <2>2. OnItsWay(x) = IF x = p THEN 1 ELSE 0
    BY <1>1, <1>3 DEF OnItsWay
  <2>3. late' = late \/ late' = [late EXCEPT ![p] = @ + 1]
    BY <1>6
  <2> QED
    BY <1>3, <2>1, <2>2, <2>3
<1>13. RepeatsArePaid'
  <2>1. /\ IsFiniteSet(mentioned) /\ repeats + Cardinality(Unsettled) <= forgotten
    BY DEF NudgeInv, RepeatsArePaid
  <2>2. IsFiniteSet(Unsettled) /\ Cardinality(Unsettled) \in Nat
    BY <2>1, FS_Subset, FS_CardinalityType DEF Unsettled
  <2>3. IsFiniteSet(mentioned \cup {m}) /\ IsFiniteSet(mentioned')
    BY <1>6, <2>1, FS_AddElement
  <2>4. IsFiniteSet(Unsettled') /\ Cardinality(Unsettled') \in Nat
    BY <2>3, FS_Subset, FS_CardinalityType DEF Unsettled
  <2>5. CASE p \in Stored' /\ Posted /\ forgotten' = forgotten
    <3>1. Unsettled' \subseteq Unsettled \ {m}
      BY <1>7, <2>5 DEF Unsettled
    <3>2. /\ IsFiniteSet(Unsettled \ {m})
          /\ Cardinality(Unsettled \ {m}) =
               IF m \in Unsettled THEN Cardinality(Unsettled) - 1 ELSE Cardinality(Unsettled)
      BY <2>2, FS_RemoveElement
    <3>3. Cardinality(Unsettled') <= Cardinality(Unsettled \ {m})
      BY <3>1, <3>2, FS_Subset
    <3>4. m \in mentioned => m \in Unsettled
      BY <1>8 DEF Unsettled
    <3> HIDE DEF Unsettled
    <3>5. repeats' + Cardinality(Unsettled') <= forgotten'
      BY <1>3, <2>1, <2>2, <2>4, <2>5, <3>2, <3>3, <3>4
    <3> QED
      BY <2>3, <3>5 DEF RepeatsArePaid
  <2>6. CASE Posted /\ forgotten' = forgotten + 1
    <3>1. Unsettled' \subseteq Unsettled \cup {m}
      BY <1>7, <2>6 DEF Unsettled
    <3>2. /\ IsFiniteSet(Unsettled \cup {m})
          /\ Cardinality(Unsettled \cup {m}) =
               IF m \in Unsettled THEN Cardinality(Unsettled) ELSE Cardinality(Unsettled) + 1
      BY <2>2, FS_AddElement
    <3>3. Cardinality(Unsettled') <= Cardinality(Unsettled \cup {m})
      BY <3>1, <3>2, FS_Subset
    <3>4. m \in mentioned => m \in Unsettled
      BY <1>8 DEF Unsettled
    <3>5. repeats' + Cardinality(Unsettled') <= forgotten'
      BY <1>3, <2>1, <2>2, <2>4, <2>6, <3>2, <3>3, <3>4
    <3> QED
      BY <2>3, <3>5 DEF RepeatsArePaid
  <2>7. CASE UNCHANGED <<mentioned, repeats, forgotten>>
    <3>1. Unsettled' \subseteq Unsettled
      BY <1>7, <2>7 DEF Unsettled
    <3> QED
      BY <2>7, <3>1, NoneOpens
  <2>8. sweep' = [sweep EXCEPT !.pc = "scanning", !.on = NoPull, !.stage[p] = TargetOf(p)]
        => p \in Stored'
    BY <1>3, <1>5 DEF Stored, Sweeps
  <2> QED
    BY <1>6, <2>5, <2>6, <2>7, <2>8
<1>14. NudgeTypeOK'
  BY <1>3, <1>4, <1>7, <1>9, <1>10 DEF NudgeTypeOK, Sweeps
<1> QED
  BY <1>7, <1>11, <1>12, <1>13, <1>14 DEF NudgeInv

(* A sweep that is over knows nothing. *)
LEMMA SweepIsOver ==
  ASSUME sweep' = NoSweep
  PROVE  /\ sweep' \in Sweeps /\ SweepIsRight' /\ Coming' = {} /\ Stored' = {}
         /\ \A p : OnItsWay(p)' = 0
<1>1. /\ sweep'.pc = "idle" /\ sweep'.left = {}
      /\ sweep'.stage = [p \in PullRequests |-> 0]
  BY DEF NoSweep
<1>2. Coming' = {} /\ Stored' = {} /\ \A p : OnItsWay(p)' = 0
  BY <1>1 DEF Coming, Stored, OnItsWay
<1>3. NoSweep \in Sweeps
  BY DEF NoSweep, Sweeps, Sides
<1> QED
  BY <1>1, <1>2, <1>3, FS_EmptySet DEF SweepIsRight, NoSweep

(* What a sweep has posted and does not store is forgotten: each such mention *)
(* may come again, and each is counted.                                       *)
LEMMA ForgettingPays ==
  ASSUME NudgeInv, sweep' = NoSweep, UNCHANGED <<nudge, mentioned, repeats>>,
         forgotten' = forgotten + Cardinality(Stored)
  PROVE  RepeatsArePaid' /\ forgotten' \in Nat
<1> DEFINE lost == {m \in mentioned : m.pr \in Stored /\ m = TheMention(m.pr)}
<1>1. /\ IsFiniteSet(mentioned) /\ repeats + Cardinality(Unsettled) <= forgotten
      /\ repeats \in Nat /\ forgotten \in Nat /\ IsFiniteSet(Stored)
  BY DEF NudgeInv, RepeatsArePaid, NudgeTypeOK, SweepIsRight
<1>2. Coming' = {} /\ Stored' = {}
  BY SweepIsOver
<1>3. Unsettled' \subseteq Unsettled \cup lost
  BY <1>2 DEF Unsettled, Open, Tracked
<1>4. [m \in lost |-> m.pr] \in Injection(lost, Stored)
  BY DEF Injection, IsInjective
<1>5. IsFiniteSet(lost) /\ Cardinality(lost) <= Cardinality(Stored)
  <2> HIDE DEF lost
  <2> QED
    BY <1>1, <1>4, FS_Injection
<1>6. IsFiniteSet(Unsettled)
  BY <1>1, FS_Subset DEF Unsettled
<1> HIDE DEF lost
<1>7. /\ IsFiniteSet(Unsettled \cup lost)
      /\ Cardinality(Unsettled \cup lost) =
           Cardinality(Unsettled) + Cardinality(lost) - Cardinality(Unsettled \cap lost)
  BY <1>5, <1>6, FS_Union
<1>8. IsFiniteSet(Unsettled') /\ Cardinality(Unsettled') <= Cardinality(Unsettled \cup lost)
  BY <1>3, <1>7, FS_Subset
<1>9. IsFiniteSet(Unsettled \cap lost)
  BY <1>6, FS_Subset
<1>10. /\ Cardinality(Unsettled) \in Nat /\ Cardinality(lost) \in Nat
       /\ Cardinality(Unsettled \cap lost) \in Nat /\ Cardinality(Unsettled') \in Nat
       /\ Cardinality(Unsettled \cup lost) \in Nat /\ Cardinality(Stored) \in Nat
  BY <1>1, <1>5, <1>6, <1>7, <1>8, <1>9, FS_CardinalityType
<1>11. repeats + Cardinality(Unsettled') <= forgotten + Cardinality(Stored)
  BY <1>1, <1>5, <1>7, <1>8, <1>10
<1> QED
  BY <1>1, <1>10, <1>11 DEF RepeatsArePaid

LEMMA SweepForgets ==
  ASSUME NudgeInv, sweep' = NoSweep, spare' \in NudgeBudget,
         UNCHANGED <<nudgeRegime, day, pull, feed, assigning, nudge, rowsMade, acted, mentioned,
                     repeats, late>>,
         forgotten' = forgotten + Cardinality(Stored)
  PROVE  NudgeInv'
<1>1. RepeatsArePaid' /\ forgotten' \in Nat
  BY ForgettingPays
<1>2. sweep' \in Sweeps /\ SweepIsRight' /\ \A p : OnItsWay(p)' = 0
  BY SweepIsOver
<1>3. TurnsAreRight' /\ Numbered'
  BY DEF NudgeInv, TurnsAreRight, Numbered, Tracked
<1>4. EndsAreHeard'
  <2>1. \A p \in PullRequests : late[p] \in Nat /\ OnItsWay(p) \in {0, 1}
    BY DEF NudgeInv, NudgeTypeOK, OnItsWay
  <2> QED
    BY <1>2, <2>1 DEF NudgeInv, EndsAreHeard
<1>5. NudgeTypeOK'
  BY <1>1, <1>2 DEF NudgeInv, NudgeTypeOK, Sweeps
<1> QED
  BY <1>1, <1>2, <1>3, <1>4, <1>5 DEF NudgeInv

LEMMA SweepCommitsKeeps ==
  ASSUME NudgeInv, SweepCommits
  PROVE  NudgeInv'
<1>1. /\ NudgeTypeOK /\ nudge \in [PullRequests -> NudgeRow \cup {NotTracked}]
      /\ mentioned \subseteq Said /\ late \in [PullRequests -> Nat] /\ sweep \in Sweeps
  BY DEF NudgeInv, NudgeTypeOK
<1>2. /\ sweep' = NoSweep
      /\ UNCHANGED <<nudgeRegime, day, pull, feed, assigning, rowsMade, acted, mentioned, repeats,
                     late, spare>>
  BY DEF SweepCommits
<1>3. CASE \E p \in Stored : Moved(p)
  <2>1. forgotten' = forgotten + Cardinality(Stored) /\ nudge' = nudge
    BY <1>3 DEF SweepCommits
  <2>2. spare' \in NudgeBudget
    BY <1>1, <1>2 DEF NudgeTypeOK
  <2> QED
    BY <1>2, <2>1, <2>2, SweepForgets
<1>4. CASE \A p \in Stored : ~Moved(p)
  <2>1. forgotten' = forgotten
    BY <1>4 DEF SweepCommits
  <2>2. nudge' = [p \in PullRequests |->
                    IF p \in Stored THEN [nudge[p] EXCEPT !.stage = sweep.stage[p]]
                    ELSE IF Tracked(p) /\ <<p, nudge[p].no>> \in sweep.gone THEN NotTracked
                    ELSE nudge[p]]
    BY <1>4 DEF SweepCommits
  (* A stored row keeps everything but its stage, which comes to be the target. *)
  <2>3. ASSUME NEW p \in Stored
        PROVE  /\ p \in PullRequests /\ Tracked(p) /\ nudge[p].no = sweep.rows[p].no
               /\ nudge[p] \in NudgeRow /\ nudge'[p] \in NudgeRow
               /\ nudge'[p].no = nudge[p].no /\ nudge'[p].turn = nudge[p].turn
               /\ nudge'[p].waiting = nudge[p].waiting /\ nudge'[p].last = nudge[p].last
               /\ nudge'[p].stage = TargetOf(p)
    <3>1. p \in PullRequests /\ Tracked(p) /\ nudge[p].no = sweep.rows[p].no
      BY <1>4 DEF Stored, Moved
    <3>2. nudge[p] \in NudgeRow /\ sweep.stage[p] \in Nat /\ sweep.stage[p] = TargetOf(p)
      BY <1>1, <3>1 DEF Tracked, Sweeps, NudgeInv, SweepIsRight
    <3>3. nudge'[p] = [nudge[p] EXCEPT !.stage = sweep.stage[p]]
      BY <2>2, <3>1
    <3>4. nudge'[p] \in NudgeRow
      BY <3>2, <3>3 DEF NudgeRow
    <3>5. /\ nudge'[p].no = nudge[p].no /\ nudge'[p].turn = nudge[p].turn
          /\ nudge'[p].waiting = nudge[p].waiting /\ nudge'[p].last = nudge[p].last
      BY <3>2, <3>3 DEF NudgeRow
    <3>6. nudge'[p].stage = sweep.stage[p]
      BY <3>2, <3>3 DEF NudgeRow
    <3> QED
      BY <3>1, <3>2, <3>4, <3>5, <3>6
  <2>4. \A p \in PullRequests : p \notin Stored => nudge'[p] \in {NotTracked, nudge[p]}
    BY <2>2
  <2>5. nudge' \in [PullRequests -> NudgeRow \cup {NotTracked}]
    <3>1. \A p \in PullRequests : nudge'[p] \in NudgeRow \cup {NotTracked}
      BY <1>1, <2>3, <2>4
    <3>2. nudge' = [p \in PullRequests |-> nudge'[p]]
      BY <2>2
    <3> HIDE DEF NudgeRow
    <3> QED
      BY <3>1, <3>2
  <2>6. TurnsAreRight'
    BY <1>2, <2>3, <2>4 DEF NudgeInv, TurnsAreRight, Tracked, Waits
  <2>7. Numbered'
    <3>1. ASSUME NEW p \in PullRequests, Tracked(p)'
          PROVE  /\ Tracked(p) /\ nudge'[p].no = nudge[p].no /\ nudge'[p].turn = nudge[p].turn
      BY <2>3, <2>4, <3>1 DEF Tracked
    <3>2. \A m \in mentioned : m.pr \in PullRequests
      BY <1>1 DEF Said
    <3> QED
      BY <1>2, <3>1, <3>2 DEF NudgeInv, Numbered
  <2>8. sweep' \in Sweeps /\ SweepIsRight' /\ Coming' = {} /\ Stored' = {}
        /\ \A p : OnItsWay(p)' = 0
    BY <1>2, SweepIsOver
  <2>9. ASSUME NEW m \in mentioned, Open(m)'
        PROVE  Open(m)
    <3>1. /\ nudge'[m.pr] # NotTracked /\ nudge'[m.pr].no = m.no /\ nudge'[m.pr].turn = m.turn
          /\ nudge'[m.pr].stage < m.stage
      BY <2>8, <2>9 DEF Open, Tracked
    <3>2. m.pr \in PullRequests /\ m.stage \in Nat
      BY <1>1 DEF Said
    <3>3. CASE m.pr \in Stored
      <4>1. /\ Tracked(m.pr) /\ nudge[m.pr].no = m.no /\ nudge[m.pr].turn = m.turn
            /\ TargetOf(m.pr) < m.stage /\ nudge[m.pr].no = sweep.rows[m.pr].no
            /\ nudge[m.pr] \in NudgeRow
        BY <2>3, <3>1, <3>3
      <4>2. /\ RowIsRead(m.pr) /\ TargetOf(m.pr) \in Nat
            /\ sweep.rows[m.pr] \in NudgeRow /\ sweep.rows[m.pr].stage < TargetOf(m.pr)
        BY <3>3, RowsAreCounted DEF NudgeInv, SweepIsRight
      <4>3. nudge[m.pr].stage \in Nat /\ sweep.rows[m.pr].stage \in Nat
        BY <4>1, <4>2 DEF NudgeRow
      <4>4. nudge[m.pr].stage <= sweep.rows[m.pr].stage
        BY <4>1, <4>2 DEF RowIsRead
      <4>5. nudge[m.pr].stage < m.stage
        BY <3>2, <4>1, <4>2, <4>3, <4>4
      <4>6. TheMention(m.pr).stage = TargetOf(m.pr)
        BY DEF TheMention
      <4>7. m # TheMention(m.pr)
        BY <3>2, <4>1, <4>2, <4>6
      <4> QED
        BY <4>1, <4>5, <4>7 DEF Open
    <3>4. CASE m.pr \notin Stored
      BY <2>4, <3>1, <3>2, <3>4 DEF Open, Tracked
    <3> QED
      BY <3>3, <3>4
  <2>10. RepeatsArePaid'
    <3>1. Unsettled' \subseteq Unsettled
      BY <1>2, <2>9 DEF Unsettled
    <3> QED
      BY <1>2, <2>1, <3>1, NoneOpens
  <2>11. EndsAreHeard'
    <3>1. \A p \in PullRequests : late[p] \in Nat /\ OnItsWay(p) \in {0, 1}
      BY <1>1 DEF OnItsWay
    <3> QED
      BY <1>2, <2>8, <3>1 DEF NudgeInv, EndsAreHeard
  <2>12. NudgeTypeOK'
    BY <1>1, <1>2, <2>1, <2>5, <2>8 DEF NudgeTypeOK, Sweeps
  <2> QED
    BY <2>6, <2>7, <2>8, <2>10, <2>11, <2>12 DEF NudgeInv
<1> QED
  BY <1>3, <1>4

-----------------------------------------------------------------------------
LEMMA NudgeInvariance == NudgeSpec => []NudgeInv
<1>1. NudgeInit => NudgeInv
  <2> SUFFICES ASSUME NudgeInit PROVE NudgeInv
    OBVIOUS
  <2>1. nudgeRegime \in NudgeRegimes /\ spare \in NudgeBudget
    BY CircumstancesGiven DEF NudgeInit
  <2>2. sweep = NoSweep /\ NoSweep \in Sweeps
    BY DEF NudgeInit, NoSweep, Sweeps, Sides
  <2>3. NudgeTypeOK
    BY <2>1, <2>2, EmptySeq DEF NudgeInit, NudgeTypeOK, Sweeps, NoSweep, Sides
  <2>4. Coming = {} /\ Stored = {}
    BY <2>2 DEF Coming, Stored, NoSweep
  <2>5. SweepIsRight
    BY <2>2, <2>4, FS_EmptySet DEF SweepIsRight, NoSweep
  <2>6. TurnsAreRight /\ Numbered /\ EndsAreHeard
    BY DEF NudgeInit, TurnsAreRight, Numbered, EndsAreHeard, Tracked
  <2>7. RepeatsArePaid
    <3>1. Unsettled = {} /\ mentioned = {} /\ repeats = 0 /\ forgotten = 0
      BY DEF NudgeInit, Unsettled
    <3> QED
      BY <3>1, FS_EmptySet DEF RepeatsArePaid
  <2> QED
    BY <2>2, <2>3, <2>5, <2>6, <2>7 DEF NudgeInv
<1>2. NudgeInv /\ [NudgeNext]_nudgeVars => NudgeInv'
  <2> SUFFICES ASSUME NudgeInv, [NudgeNext]_nudgeVars PROVE NudgeInv'
    OBVIOUS
  <2>1. nudgeRegime.pulls \subseteq PullRequests /\ nudgeRegime.people \subseteq Accounts
    BY CircumstancesGiven DEF NudgeInv, NudgeTypeOK
  <2>2. CASE UNCHANGED nudgeVars
    <3>1. UNCHANGED <<nudge, rowsMade, sweep, acted, mentioned, repeats, forgotten>>
      BY <2>2 DEF nudgeVars
    <3>2. /\ TurnsAreRight' /\ SweepIsRight' /\ Numbered' /\ RepeatsArePaid' /\ sweep' \in Sweeps
      BY <3>1, TableStands
    <3>3. NudgeTypeOK' /\ EndsAreHeard'
      BY <2>2 DEF nudgeVars, NudgeInv, NudgeTypeOK, EndsAreHeard, OnItsWay
    <3> QED
      BY <3>2, <3>3 DEF NudgeInv
  <2>3. ASSUME NEW p \in nudgeRegime.pulls
        PROVE  /\ \A q \in Testers : AssignmentBegins(p, q) \/ AssignmentTracks(p, q) => NudgeInv'
               /\ \A who \in nudgeRegime.people : Acts(p, who) => NudgeInv'
               /\ Ends(p) \/ Reopens(p) => NudgeInv'
    BY <2>1, EnvironmentKeeps, AssignmentTracksKeeps
  <2>4. ASSUME NEW i \in DOMAIN feed, HandleEvent(i)
        PROVE  NudgeInv'
    BY <2>4, HandleEventKeeps
  <2>5. CASE SweepStep
    BY <2>5, SweepReadsKeeps, SweepCommentsKeeps, SweepCommitsKeeps, SweepChecksKeeps DEF SweepStep
  <2>6. CASE SweepDies
    <3>1. /\ sweep' = NoSweep /\ forgotten' = forgotten + Cardinality(Stored)
          /\ UNCHANGED <<nudgeRegime, day, pull, feed, assigning, nudge, rowsMade, acted,
                         mentioned, repeats, late>>
      BY <2>6 DEF SweepDies
    <3>2. spare' \in NudgeBudget
      BY <2>6, ChargesCount DEF SweepDies, NudgeInv, NudgeTypeOK
    <3> QED
      BY <3>1, <3>2, SweepForgets
  <2>7. CASE DayBreaks
    BY <2>7, DayBreaksKeeps
  <2> QED
    BY <2>2, <2>3, <2>4, <2>5, <2>6, <2>7 DEF NudgeNext
<1> QED
  BY <1>1, <1>2, PTL DEF NudgeSpec

(* The properties follow. *)
LEMMA NudgesAreSound == NudgeInv => NudgeTypeOK /\ EndSilences /\ NoIdleRepeats
<1> SUFFICES ASSUME NudgeInv PROVE EndSilences /\ NoIdleRepeats
  BY DEF NudgeInv
<1>1. EndSilences
  <2>1. \A p \in PullRequests : late[p] \in Nat /\ OnItsWay(p) \in {0, 1}
    BY DEF NudgeInv, NudgeTypeOK, OnItsWay
  <2> QED
    BY <2>1 DEF NudgeInv, EndsAreHeard, EndSilences
<1>2. NoIdleRepeats
  <2>1. /\ repeats \in Nat /\ forgotten \in Nat /\ IsFiniteSet(mentioned)
        /\ repeats + Cardinality(Unsettled) <= forgotten
    BY DEF NudgeInv, NudgeTypeOK, RepeatsArePaid
  <2>2. Cardinality(Unsettled) \in Nat
    BY <2>1, FS_Subset, FS_CardinalityType DEF Unsettled
  <2> QED
    BY <2>1, <2>2 DEF NoIdleRepeats
<1> QED
  BY <1>1, <1>2

(***************************************************************************)
(* The sweep mentions nobody who was heard of last, and nobody within      *)
(* three days of the last thing heard, however events, assignments, sweeps *)
(* and restarts interleave and in whatever order events are handled: the   *)
(* row it goes by was read when that was so.                               *)
(***************************************************************************)
THEOREM MentionsFollowSilence == NudgeSpec => OnlyAfterSilence
<1> DEFINE OK == \A m \in mentioned' \ mentioned :
                   /\ m.side # sweep.acted[m.pr].side
                   /\ sweep.acted[m.pr].at + 3 <= sweep.at
<1>1. NudgeInv /\ [NudgeNext]_nudgeVars => [OK]_nudgeVars
  <2> SUFFICES ASSUME NudgeInv, NudgeNext, NEW m \in mentioned' \ mentioned
               PROVE  /\ m.side # sweep.acted[m.pr].side
                      /\ sweep.acted[m.pr].at + 3 <= sweep.at
    OBVIOUS
  <2>1. SweepComments
    BY DEF NudgeNext, SweepStep, AssignmentBegins, AssignmentTracks, Acts, Ends, Reopens,
           HandleEvent, SweepReads, SweepCommits, SweepChecks, SweepDies, DayBreaks
  <2>2. PICK p : p = sweep.on
    OBVIOUS
  <2>3. m = TheMention(p) /\ sweep.pc = "commenting"
    BY <2>1, <2>2 DEF SweepComments, Mention, TheMention
  <2>4. /\ p \in Coming /\ p \in PullRequests /\ sweep.at \in Nat
        /\ sweep.acted[p].at \in Nat
    BY <2>2, <2>3 DEF NudgeInv, NudgeTypeOK, SweepIsRight, Coming
  <2>5. RowIsRead(p) /\ m.pr = p /\ m.side = sweep.rows[p].waiting
    BY <2>3, <2>4 DEF NudgeInv, SweepIsRight, TheMention
  <2>6. sweep.rows[p].last \in Nat /\ sweep.rows[p].stage \in Nat
    BY <2>5 DEF RowIsRead, NudgeRow
  <2>7. sweep.at - sweep.rows[p].last >= 3
    <3>1. sweep.at - sweep.rows[p].last \in Int
      BY <2>4, <2>6
    <3>2. TargetStage(sweep.at - sweep.rows[p].last) \in Nat
      BY <3>1, StagesCount
    <3>3. TargetStage(sweep.at - sweep.rows[p].last) > 0
      BY <2>5, <2>6, <3>2 DEF RowIsRead, DueOn
    <3> QED
      BY <3>1, <3>3, StagesCount
  <2> QED
    BY <2>4, <2>5, <2>6, <2>7 DEF RowIsRead, Waits
<1> QED
  BY <1>1, NudgeInvariance, PTL DEF NudgeSpec, OnlyAfterSilence

-----------------------------------------------------------------------------
(* What the read cache keeps.  An answer on its way may be older than what    *)
(* GitHub has by the time it is stored: the invariant says of it what the     *)
(* property says of an entry, unless the epoch has moved since the fetch      *)
(* began, in which case Stores discards it.  It needs nothing of the locks.   *)

Fields(s) ==
  s = [pc |-> s.pc, key |-> s.key, lock |-> s.lock, since |-> s.since, value |-> s.value]

(* What the argument needs of the types. *)
Shapes ==
  /\ cacheRegime \in CacheRegimes
  /\ version \in [Repos -> Nat] /\ untold \in [Repos -> Nat] /\ epoch \in [Repos -> Nat]
  /\ entry \in [CacheKeys -> [value : Nat, fresh : BOOLEAN] \cup {NoEntry}]
  /\ caller = [c \in Callers |-> caller[c]]
  /\ \A c \in Callers : Fields(caller[c])

(* A fetch under way for a key began in this epoch of its repository or in an earlier one. *)
BeganBefore(s) ==
  s.pc \in {"fetching", "answered"} /\ s.key \in CacheKeys
  => s.since \in Nat /\ s.since <= epoch[RepoOf[s.key]]

(* An answer that is out of date and would be stored belongs to a *)
(* repository with an untold push.                                *)
AnswerKnown(s) ==
  s.pc = "answered" /\ s.key \in CacheKeys
  => /\ s.value \in Nat
     /\ s.since = epoch[RepoOf[s.key]] /\ untold[RepoOf[s.key]] = 0
        => s.value = version[RepoOf[s.key]]

FetchesKnown == \A c \in Callers : BeganBefore(caller[c]) /\ AnswerKnown(caller[c])

CacheInv == Shapes /\ FetchesKnown /\ HoldsWhatGitHubHas

-----------------------------------------------------------------------------
(* A coroutine whose new state is not that of a fetch owes nothing. *)
AtRest(s) == Fields(s) /\ s.pc \notin {"fetching", "answered"}

(* Leaving and waking change where coroutines are, not what they bring. *)
LEMMA LeaveChanges ==
  ASSUME NEW c, NEW line, \A d \in Callers : Fields(caller[d]), Leave(c, line)
  PROVE  /\ caller' = [d \in Callers |-> caller'[d]]
         /\ \A d \in Callers : AtRest(caller'[d]) \/ caller'[d] = caller[d]
<1> DEFINE Woke(d) == [caller[d] EXCEPT !.pc = "woken"]
<1>1. caller' = [d \in Callers |->
                   IF d = c THEN Idler
                   ELSE IF FirstInLine(line, c, d) THEN Woke(d) ELSE caller[d]]
  BY DEF Leave
<1>2. AtRest(Idler)
  BY DEF AtRest, Idler, Fields
<1>3. ASSUME NEW d \in Callers PROVE AtRest(Woke(d))
  <2>1. Fields(caller[d])
    OBVIOUS
  <2>2. \A p, k, n, s, v :
          AtRest([[pc |-> p, key |-> k, lock |-> n, since |-> s, value |-> v]
                  EXCEPT !.pc = "woken"])
    BY DEF AtRest, Fields
  <2> QED
    BY <2>1, <2>2 DEF Fields
<1> HIDE DEF Woke
<1> QED
  BY <1>1, <1>2, <1>3

(* When only coroutines move, and those that do are at rest, what is known of the rest stays. *)
LEMMA OthersStay ==
  ASSUME CacheInv,
         \A d \in Callers : AtRest(caller'[d]) \/ caller'[d] = caller[d],
         UNCHANGED <<version, untold, epoch>>
  PROVE  FetchesKnown' /\ \A d \in Callers : Fields(caller'[d])
<1> SUFFICES ASSUME NEW d \in Callers
             PROVE  BeganBefore(caller[d])' /\ AnswerKnown(caller[d])' /\ Fields(caller'[d])
  BY DEF FetchesKnown
<1>1. CASE AtRest(caller'[d])
  BY <1>1 DEF AtRest, BeganBefore, AnswerKnown
<1>2. CASE caller'[d] = caller[d]
  BY <1>2 DEF BeganBefore, AnswerKnown, CacheInv, FetchesKnown, Shapes
<1> QED
  BY <1>1, <1>2

(* A coroutine that moves alone. *)
LEMMA OneMoves ==
  ASSUME CacheInv, NEW c \in Callers, NEW s,
         caller' = [caller EXCEPT ![c] = s],
         Fields(s), BeganBefore(s), AnswerKnown(s),
         UNCHANGED <<version, untold, epoch>>
  PROVE  /\ FetchesKnown' /\ \A d \in Callers : Fields(caller'[d])
         /\ caller' = [d \in Callers |-> caller'[d]]
<1>1. caller'[c] = s /\ \A d \in Callers : d # c => caller'[d] = caller[d]
  BY DEF CacheInv, Shapes
<1>2. ASSUME NEW d \in Callers
      PROVE  BeganBefore(caller[d])' /\ AnswerKnown(caller[d])' /\ Fields(caller'[d])
  <2>1. CASE d = c
    BY <2>1, <1>1 DEF BeganBefore, AnswerKnown
  <2>2. CASE d # c
    BY <2>2, <1>1 DEF BeganBefore, AnswerKnown, CacheInv, FetchesKnown, Shapes
  <2> QED
    BY <2>1, <2>2
<1>3. caller' = [d \in Callers |-> caller'[d]]
  BY DEF CacheInv, Shapes
<1> QED
  BY <1>2, <1>3 DEF FetchesKnown

-----------------------------------------------------------------------------
LEMMA CallMissesKeeps ==
  ASSUME CacheInv, NEW c \in Callers, NEW k \in CacheKeys, CallMisses(c, k)
  PROVE  CacheInv'
<1>0. UNCHANGED <<cacheRegime, version, untold, entry, epoch, cutOff>>
  BY DEF CallMisses
<1>1. epoch[RepoOf[k]] \in Nat
  BY CacheAssumption DEF CacheInv, Shapes
<1>2. PICK n : \/ caller' = [caller EXCEPT ![c] = Fetching(k, n)]
               \/ caller' = [caller EXCEPT ![c] = InLine(k, n)]
  BY DEF CallMisses
<1>3. Fields(Fetching(k, n)) /\ BeganBefore(Fetching(k, n)) /\ AnswerKnown(Fetching(k, n))
  BY <1>1 DEF Fetching, Fields, BeganBefore, AnswerKnown
<1>4. Fields(InLine(k, n)) /\ BeganBefore(InLine(k, n)) /\ AnswerKnown(InLine(k, n))
  BY DEF InLine, Fields, BeganBefore, AnswerKnown
<1>5. /\ FetchesKnown' /\ \A d \in Callers : Fields(caller'[d])
      /\ caller' = [d \in Callers |-> caller'[d]]
  BY <1>0, <1>2, <1>3, <1>4, OneMoves
<1> QED
  BY <1>0, <1>5 DEF CacheInv, Shapes, HoldsWhatGitHubHas

LEMMA ResumesKeeps ==
  ASSUME CacheInv, NEW c \in Callers, Resumes(c)
  PROVE  CacheInv'
<1> DEFINE k == caller[c].key
<1> DEFINE n == caller[c].lock
<1>0. UNCHANGED <<cacheRegime, version, untold, entry, epoch>>
  BY DEF Resumes
<1>1. PICK line : Leave(c, line) \/ caller' = [caller EXCEPT ![c] = Fetching(k, n)]
  BY DEF Resumes
<1>2. CASE Leave(c, line)
  <2>1. /\ caller' = [d \in Callers |-> caller'[d]]
        /\ \A d \in Callers : AtRest(caller'[d]) \/ caller'[d] = caller[d]
    BY <1>2, LeaveChanges DEF CacheInv, Shapes
  <2>2. FetchesKnown' /\ \A d \in Callers : Fields(caller'[d])
    BY <2>1, <1>0, OthersStay
  <2> QED
    BY <1>0, <2>1, <2>2 DEF CacheInv, Shapes, HoldsWhatGitHubHas
<1>3. CASE caller' = [caller EXCEPT ![c] = Fetching(k, n)]
  <2> HIDE DEF k, n
  <2>2. k \in CacheKeys => epoch[RepoOf[k]] \in Nat
    BY CacheAssumption DEF CacheInv, Shapes
  <2>3. Fields(Fetching(k, n)) /\ BeganBefore(Fetching(k, n)) /\ AnswerKnown(Fetching(k, n))
    BY <2>2 DEF Fetching, Fields, BeganBefore, AnswerKnown
  <2>4. /\ FetchesKnown' /\ \A d \in Callers : Fields(caller'[d])
        /\ caller' = [d \in Callers |-> caller'[d]]
    BY <1>0, <1>3, <2>3, OneMoves
  <2> QED
    BY <1>0, <2>4 DEF CacheInv, Shapes, HoldsWhatGitHubHas
<1> QED
  BY <1>1, <1>2, <1>3

LEMMA AnswersKeeps ==
  ASSUME CacheInv, NEW c \in Callers, Answers(c)
  PROVE  CacheInv'
<1> DEFINE s == caller[c]
<1> DEFINE t == Brings(s, version[RepoOf[s.key]])
<1>0. /\ UNCHANGED <<cacheRegime, version, untold, entry, epoch>>
      /\ s.pc = "fetching"
  BY DEF Answers
<1>1. Fields(s) /\ BeganBefore(s)
  BY DEF CacheInv, Shapes, FetchesKnown
<1>2. caller' = [caller EXCEPT ![c] = t]
  BY DEF Answers
<1>3. s.key \in CacheKeys => version[RepoOf[s.key]] \in Nat
  BY CacheAssumption DEF CacheInv, Shapes
<1> HIDE DEF s
<1>4. Fields(t) /\ BeganBefore(t) /\ AnswerKnown(t)
  BY <1>0, <1>1, <1>3 DEF Brings, Fields, BeganBefore, AnswerKnown
<1>5. /\ FetchesKnown' /\ \A d \in Callers : Fields(caller'[d])
      /\ caller' = [d \in Callers |-> caller'[d]]
  BY <1>0, <1>2, <1>4, OneMoves
<1> QED
  BY <1>0, <1>5 DEF CacheInv, Shapes, HoldsWhatGitHubHas

(* The answer is stored only in the epoch its fetch began in. *)
LEMMA StoresKeeps ==
  ASSUME CacheInv, NEW c \in Callers, Stores(c)
  PROVE  CacheInv'
<1> DEFINE s == caller[c]
<1>0. /\ UNCHANGED <<cacheRegime, version, untold, epoch>>
      /\ s.pc = "answered" /\ Leave(c, queue)
      /\ entry' = IF epoch[RepoOf[s.key]] = s.since
                  THEN [entry EXCEPT ![s.key] = [value |-> s.value, fresh |-> TRUE]]
                  ELSE entry
  BY DEF Stores
<1>1. AnswerKnown(s)
  BY DEF CacheInv, FetchesKnown
<1>2. /\ caller' = [d \in Callers |-> caller'[d]]
      /\ \A d \in Callers : AtRest(caller'[d]) \/ caller'[d] = caller[d]
  BY <1>0, LeaveChanges DEF CacheInv, Shapes
<1>3. FetchesKnown' /\ \A d \in Callers : Fields(caller'[d])
  BY <1>2, <1>0, OthersStay
<1> HIDE DEF s
<1>4. CASE entry' = entry
  BY <1>0, <1>2, <1>3, <1>4 DEF CacheInv, Shapes, HoldsWhatGitHubHas
<1>5. CASE /\ epoch[RepoOf[s.key]] = s.since /\ s.key \in CacheKeys
           /\ entry' = [entry EXCEPT ![s.key] = [value |-> s.value, fresh |-> TRUE]]
  <2>1. s.value \in Nat /\ (untold[RepoOf[s.key]] = 0 => s.value = version[RepoOf[s.key]])
    BY <1>0, <1>1, <1>5 DEF AnswerKnown
  <2>2. entry' \in [CacheKeys -> [value : Nat, fresh : BOOLEAN] \cup {NoEntry}]
    BY <1>5, <2>1 DEF CacheInv, Shapes
  <2>3. HoldsWhatGitHubHas'
    <3> SUFFICES ASSUME NEW k \in CacheKeys, entry'[k] # NoEntry, untold[RepoOf[k]] = 0
                 PROVE  entry'[k].value = version[RepoOf[k]]
      BY <1>0 DEF HoldsWhatGitHubHas
    <3>1. CASE k = s.key
      BY <3>1, <1>5, <2>1 DEF CacheInv, Shapes
    <3>2. CASE k # s.key
      BY <3>2, <1>5 DEF CacheInv, Shapes, HoldsWhatGitHubHas
    <3> QED
      BY <3>1, <3>2
  <2> QED
    BY <1>0, <1>2, <1>3, <2>2, <2>3 DEF CacheInv, Shapes
<1>6. CASE s.key \notin CacheKeys
  BY <1>0, <1>4, <1>6 DEF CacheInv, Shapes
<1> QED
  BY <1>0, <1>4, <1>5, <1>6

LEMMA FailsKeeps ==
  ASSUME CacheInv, NEW c \in Callers, Fails(c)
  PROVE  CacheInv'
<1>0. UNCHANGED <<cacheRegime, version, untold, entry, epoch>> /\ Leave(c, queue)
  BY DEF Fails
<1>1. /\ caller' = [d \in Callers |-> caller'[d]]
      /\ \A d \in Callers : AtRest(caller'[d]) \/ caller'[d] = caller[d]
  BY <1>0, LeaveChanges DEF CacheInv, Shapes
<1>2. FetchesKnown' /\ \A d \in Callers : Fields(caller'[d])
  BY <1>1, <1>0, OthersStay
<1> QED
  BY <1>0, <1>1, <1>2 DEF CacheInv, Shapes, HoldsWhatGitHubHas

-----------------------------------------------------------------------------
(* A purge ends the epoch of every fetch that is under way. *)
LEMMA InvalidateKeeps ==
  ASSUME CacheInv, NEW r \in Repos, InvalidateRepo(r)
  PROVE  CacheInv'
<1>0. /\ untold[r] > 0
      /\ untold' = [untold EXCEPT ![r] = @ - 1]
      /\ epoch' = [epoch EXCEPT ![r] = @ + 1]
      /\ entry' = [k \in CacheKeys |-> IF RepoOf[k] = r THEN NoEntry ELSE entry[k]]
      /\ UNCHANGED <<cacheRegime, version, caller>>
  BY DEF InvalidateRepo, Of
<1>1. /\ untold' \in [Repos -> Nat] /\ epoch' \in [Repos -> Nat]
      /\ epoch'[r] = epoch[r] + 1 /\ epoch[r] \in Nat
      /\ \A q \in Repos : q # r => untold'[q] = untold[q] /\ epoch'[q] = epoch[q]
  BY <1>0 DEF CacheInv, Shapes
<1>2. entry' \in [CacheKeys -> [value : Nat, fresh : BOOLEAN] \cup {NoEntry}]
  BY <1>0 DEF CacheInv, Shapes
<1>3. HoldsWhatGitHubHas'
  BY <1>0, <1>1, CacheAssumption DEF CacheInv, Shapes, HoldsWhatGitHubHas
<1>4. ASSUME NEW c \in Callers
      PROVE  BeganBefore(caller[c])' /\ AnswerKnown(caller[c])'
  <2> DEFINE s == caller[c]
  <2>1. BeganBefore(s) /\ AnswerKnown(s)
    BY DEF CacheInv, FetchesKnown
  <2>2. s.key \in CacheKeys => RepoOf[s.key] \in Repos
    BY CacheAssumption
  <2> SUFFICES BeganBefore(s)' /\ AnswerKnown(s)'
    OBVIOUS
  <2>3. s' = s
    BY <1>0
  <2> HIDE DEF s
  <2>4. CASE s.key \in CacheKeys /\ RepoOf[s.key] = r
    BY <2>1, <2>3, <2>4, <1>1 DEF BeganBefore, AnswerKnown
  <2>5. CASE s.key \in CacheKeys /\ RepoOf[s.key] # r
    BY <2>1, <2>2, <2>3, <2>5, <1>0, <1>1 DEF BeganBefore, AnswerKnown
  <2>6. CASE s.key \notin CacheKeys
    BY <2>3, <2>6 DEF BeganBefore, AnswerKnown
  <2> QED
    BY <2>4, <2>5, <2>6
<1>5. FetchesKnown'
  BY <1>4 DEF FetchesKnown
<1> QED
  BY <1>0, <1>1, <1>2, <1>3, <1>5 DEF CacheInv, Shapes

(* A push outdates what the process has, and the process has not been told of it. *)
LEMMA PushKeeps ==
  ASSUME CacheInv, NEW r \in Repos, Push(r)
  PROVE  CacheInv'
<1>0. /\ version' = [version EXCEPT ![r] = @ + 1]
      /\ untold' = [untold EXCEPT ![r] = @ + 1]
      /\ UNCHANGED <<cacheRegime, entry, epoch, caller>>
  BY DEF Push
<1>1. /\ version' \in [Repos -> Nat] /\ untold' \in [Repos -> Nat]
      /\ untold'[r] # 0
      /\ \A q \in Repos : q # r => untold'[q] = untold[q] /\ version'[q] = version[q]
  BY <1>0 DEF CacheInv, Shapes
<1>2. HoldsWhatGitHubHas'
  BY <1>0, <1>1, CacheAssumption DEF CacheInv, HoldsWhatGitHubHas
<1>3. ASSUME NEW c \in Callers
      PROVE  BeganBefore(caller[c])' /\ AnswerKnown(caller[c])'
  BY <1>0, <1>1, CacheAssumption DEF CacheInv, FetchesKnown, BeganBefore, AnswerKnown
<1>4. FetchesKnown'
  BY <1>3 DEF FetchesKnown
<1> QED
  BY <1>0, <1>1, <1>2, <1>4 DEF CacheInv, Shapes

LEMMA ExpiresKeeps ==
  ASSUME CacheInv, NEW k \in CacheKeys, Expires(k)
  PROVE  CacheInv'
<1>0. /\ entry[k] # NoEntry
      /\ entry' = [entry EXCEPT ![k].fresh = FALSE]
      /\ UNCHANGED <<cacheRegime, version, untold, epoch, caller>>
  BY DEF Expires, Hit
<1>1. entry[k] \in [value : Nat, fresh : BOOLEAN]
  BY <1>0 DEF CacheInv, Shapes
<1>2. /\ entry' \in [CacheKeys -> [value : Nat, fresh : BOOLEAN] \cup {NoEntry}]
      /\ entry'[k].value = entry[k].value
      /\ \A j \in CacheKeys : j # k => entry'[j] = entry[j]
  BY <1>0, <1>1 DEF CacheInv, Shapes
<1>3. HoldsWhatGitHubHas'
  BY <1>0, <1>2 DEF CacheInv, HoldsWhatGitHubHas
<1> QED
  BY <1>0, <1>2, <1>3 DEF CacheInv, Shapes, FetchesKnown, BeganBefore, AnswerKnown

-----------------------------------------------------------------------------
LEMMA CacheInvHolds == CacheSpec => []CacheInv
<1>1. CacheInit => CacheInv
  BY CacheAssumption
  DEF CacheInit, CacheInv, Shapes, FetchesKnown, BeganBefore, AnswerKnown, Fields, Idler,
      HoldsWhatGitHubHas
<1>2. CacheInv /\ [CacheNext]_cacheVars => CacheInv'
  <2> SUFFICES ASSUME CacheInv, [CacheNext]_cacheVars PROVE CacheInv'
    OBVIOUS
  <2>0. cacheRegime.callers \subseteq Callers /\ cacheRegime.keys \subseteq CacheKeys
    BY CacheAssumption DEF CacheInv, Shapes, CacheRegime
  <2>1. CASE UNCHANGED cacheVars
    BY <2>1 DEF cacheVars, CacheInv, Shapes, FetchesKnown, BeganBefore, AnswerKnown,
                HoldsWhatGitHubHas
  <2>2. CASE \E c \in cacheRegime.callers : \E k \in cacheRegime.keys : CallHits(c, k)
    BY <2>1, <2>2 DEF CallHits
  <2>3. CASE \E c \in cacheRegime.callers : \E k \in cacheRegime.keys : CallMisses(c, k)
    BY <2>0, <2>3, CallMissesKeeps
  <2>4. CASE \E c \in cacheRegime.callers : GoesOn(c)
    BY <2>0, <2>4, ResumesKeeps, AnswersKeeps, StoresKeeps, FailsKeeps DEF GoesOn
  <2>5. CASE \E r \in {RepoOf[k] : k \in cacheRegime.keys} : Push(r) \/ InvalidateRepo(r)
    BY <2>0, <2>5, PushKeeps, InvalidateKeeps, CacheAssumption
  <2>6. CASE \E k \in cacheRegime.keys : Expires(k)
    BY <2>0, <2>6, ExpiresKeeps
  <2> QED
    BY <2>1, <2>2, <2>3, <2>4, <2>5, <2>6 DEF CacheNext
<1> QED
  BY <1>1, <1>2, PTL DEF CacheSpec

(***************************************************************************)
(* Once a process has been told of every push to a repository, what its    *)
(* cache holds of it is what GitHub has: `cached` stores no answer that a  *)
(* purge has overtaken, however its coroutines interleave and whichever of *)
(* them hold a lock.                                                       *)
(***************************************************************************)
THEOREM CacheHoldsWhatGitHubHas == CacheSpec => []HoldsWhatGitHubHas
<1>1. CacheInv => HoldsWhatGitHubHas
  BY DEF CacheInv
<1> QED
  BY <1>1, CacheInvHolds, PTL

-----------------------------------------------------------------------------
(* The locks of the read cache. *)

(* A coroutine that has a lock, or will when it runs next. *)
Busy(c) == caller[c].pc \in {"woken", "fetching", "answered"}

(* The dropped locks of a key which somebody still has, or will have. *)
Dropped(k) ==
  {n \in 1 .. locksMade[k] : n # lock[k] /\ \E c \in Callers : Busy(c) /\ Uses(c, k, n)}

(* A caller has, or waits for, a lock that was made; no lock is newer. *)
LocksAreMade ==
  /\ \A k \in CacheKeys : lock[k] <= locksMade[k]
  /\ \A c \in Callers :
       caller[c].pc # "idle"
       => caller[c].key \in CacheKeys /\ caller[c].lock \in 1 .. locksMade[caller[c].key]

Once(line) == \A i, j \in DOMAIN line : line[i] = line[j] => i = j

(* A lock has one owner, which the waiter it woke already is. *)
OneOwner ==
  \A c, d \in Callers : Busy(c) /\ Busy(d) /\ Uses(d, caller[c].key, caller[c].lock) => c = d

DropsAreCounted == \A k \in CacheKeys : Cardinality(Dropped(k)) <= cutOff[k]

LockInv == CacheTypeOK /\ LocksAreMade /\ Once(queue) /\ OneOwner /\ DropsAreCounted

-----------------------------------------------------------------------------
CallerState ==
  [pc : {"idle", "waiting", "woken", "fetching", "answered"},
   key : CacheKeys \cup {NoKey}, lock : Nat, since : Nat, value : Nat]

LEMMA DrawsCount ==
  ASSUME cacheSpare \in CacheBudget,
         NEW what \in {"calls", "pushes", "failures", "expiries"}, Draw(what)
  PROVE  cacheSpare' \in CacheBudget
<1>1. cacheSpare[what] > 0 /\ cacheSpare' = [cacheSpare EXCEPT ![what] = @ - 1]
  BY DEF Draw
<1>2. cacheSpare[what] \in Nat
  BY DEF CacheBudget
<1>3. cacheSpare[what] - 1 \in Nat
  BY <1>1, <1>2
<1> QED
  BY <1>1, <1>3 DEF CacheBudget

(* What is left of a line in which everybody stands once. *)
LEMMA LineWithout ==
  ASSUME NEW S, NEW line \in Seq(S), Once(line), NEW i \in DOMAIN line
  PROVE  Once(RemoveAt(line, i)) /\ ToSet(RemoveAt(line, i)) = ToSet(line) \ {line[i]}
<1> DEFINE rest == RemoveAt(line, i)
<1>1. /\ Len(line) \in Nat /\ DOMAIN line = 1 .. Len(line)
      /\ rest \in Seq(S) /\ Len(rest) = Len(line) - 1
      /\ \A j \in 1 .. Len(line) - 1 : rest[j] = IF j < i THEN line[j] ELSE line[j + 1]
  BY RemovedAt, LenProperties
<1>2. DOMAIN rest = 1 .. Len(line) - 1
  BY <1>1, LenProperties
<1> HIDE DEF rest
<1>3. ASSUME NEW a \in DOMAIN rest, NEW b \in DOMAIN rest, rest[a] = rest[b]
      PROVE  a = b
  <2>1. /\ rest[a] = line[IF a < i THEN a ELSE a + 1]
        /\ rest[b] = line[IF b < i THEN b ELSE b + 1]
        /\ a \in 1 .. Len(line) - 1 /\ b \in 1 .. Len(line) - 1
    BY <1>1, <1>2
  <2>2. (IF a < i THEN a ELSE a + 1) \in DOMAIN line /\ (IF b < i THEN b ELSE b + 1) \in DOMAIN line
    BY <1>1, <2>1
  <2>3. (IF a < i THEN a ELSE a + 1) = (IF b < i THEN b ELSE b + 1)
    BY <1>3, <2>1, <2>2 DEF Once
  <2> QED
    BY <1>1, <2>1, <2>3
<1>4. ASSUME NEW a \in DOMAIN rest
      PROVE  rest[a] \in ToSet(line) /\ rest[a] # line[i]
  <2>1. /\ rest[a] = line[IF a < i THEN a ELSE a + 1] /\ a \in 1 .. Len(line) - 1
    BY <1>1, <1>2
  <2>2. (IF a < i THEN a ELSE a + 1) \in DOMAIN line /\ (IF a < i THEN a ELSE a + 1) # i
    BY <1>1, <2>1
  <2> QED
    BY <2>1, <2>2 DEF ToSet, Once
<1>5. ASSUME NEW j \in DOMAIN line, line[j] # line[i]
      PROVE  line[j] \in ToSet(rest)
  <2>1. CASE j < i
    <3>1. j \in 1 .. Len(line) - 1 /\ rest[j] = line[j]
      BY <1>1, <2>1
    <3> QED
      BY <1>2, <3>1 DEF ToSet
  <2>2. CASE j > i
    <3>1. j - 1 \in 1 .. Len(line) - 1 /\ ~(j - 1 < i) /\ j - 1 + 1 = j
      BY <1>1, <2>2
    <3>2. rest[j - 1] = line[j]
      BY <1>1, <3>1
    <3> QED
      BY <1>2, <3>1, <3>2 DEF ToSet
  <2> QED
    BY <1>1, <1>5, <2>1, <2>2
<1>6. Once(rest)
  BY <1>3 DEF Once
<1>7. ToSet(rest) = ToSet(line) \ {line[i]}
  BY <1>4, <1>5 DEF ToSet
<1> QED
  BY <1>6, <1>7 DEF rest

-----------------------------------------------------------------------------
(* No more is asked of the drops when no lock is dropped. *)
LEMMA DropsStay ==
  ASSUME LockInv, cutOff' = cutOff, \A k \in CacheKeys : Dropped(k)' \subseteq Dropped(k)
  PROVE  DropsAreCounted'
<1> SUFFICES ASSUME NEW k \in CacheKeys PROVE Cardinality(Dropped(k)') <= cutOff[k]
  BY DEF DropsAreCounted
<1>1. /\ locksMade[k] \in Nat /\ cutOff[k] \in Nat /\ Cardinality(Dropped(k)) <= cutOff[k]
  BY DEF LockInv, CacheTypeOK, DropsAreCounted
<1>2. IsFiniteSet(1 .. locksMade[k])
  BY <1>1, FS_Interval
<1>3. IsFiniteSet(Dropped(k))
  BY <1>2, FS_Subset DEF Dropped
<1>4. IsFiniteSet(Dropped(k)') /\ Cardinality(Dropped(k)') <= Cardinality(Dropped(k))
  BY <1>3, FS_Subset
<1>5. Cardinality(Dropped(k)) \in Nat /\ Cardinality(Dropped(k)') \in Nat
  BY <1>3, <1>4, FS_CardinalityType
<1> QED
  BY <1>1, <1>4, <1>5

(* Who leaves makes way for the first of those in line, who becomes the owner. *)
LEMMA LeaveHandsOver ==
  ASSUME LockInv, NEW c \in Callers, Busy(c),
         NEW line \in Seq(Callers), ToSet(line) = ToSet(queue) \ {c}, Leave(c, line),
         queue' = line, Once(line), UNCHANGED <<lock, locksMade, cutOff>>
  PROVE  /\ caller' \in [Callers -> CallerState]
         /\ ToSet(queue') = {d \in Callers : caller'[d].pc \in {"waiting", "woken"}}
         /\ LocksAreMade' /\ OneOwner' /\ DropsAreCounted'
<1> DEFINE First(d) == FirstInLine(line, c, d)
<1> DEFINE Woke(d) == [caller[d] EXCEPT !.pc = "woken"]
<1>1. /\ caller \in [Callers -> CallerState]
      /\ ToSet(queue) = {d \in Callers : caller[d].pc \in {"waiting", "woken"}}
      /\ LocksAreMade /\ OneOwner
      /\ Len(line) \in Nat /\ DOMAIN line = 1 .. Len(line)
  BY LenProperties DEF LockInv, CacheTypeOK, CallerState
<1>2. caller' = [d \in Callers |-> IF d = c THEN Idler
                                   ELSE IF First(d) THEN Woke(d) ELSE caller[d]]
  BY DEF Leave
<1>3. Idler \in CallerState /\ Idler.pc = "idle"
  BY DEF Idler, CallerState
<1>4. ASSUME NEW d \in Callers, d # c, First(d)
      PROVE  caller[d].pc = "waiting" /\ Uses(d, caller[c].key, caller[c].lock)
  <2>1. d \in ToSet(line) /\ Uses(d, caller[c].key, caller[c].lock)
    BY <1>4 DEF FirstInLine, ToSet
  <2>2. caller[d].pc \in {"waiting", "woken"}
    BY <1>1, <2>1
  <2>3. caller[d].pc # "woken"
    BY <1>1, <1>4, <2>1 DEF OneOwner, Busy
  <2> QED
    BY <2>1, <2>2, <2>3
<1>5. ASSUME NEW d, NEW e, First(d), First(e)
      PROVE  d = e
  <2>1. PICK i \in DOMAIN line :
          /\ line[i] = d /\ Uses(d, caller[c].key, caller[c].lock)
          /\ \A j \in 1 .. i - 1 : ~Uses(line[j], caller[c].key, caller[c].lock)
    BY <1>5 DEF FirstInLine
  <2>2. PICK a \in DOMAIN line :
          /\ line[a] = e /\ Uses(e, caller[c].key, caller[c].lock)
          /\ \A j \in 1 .. a - 1 : ~Uses(line[j], caller[c].key, caller[c].lock)
    BY <1>5 DEF FirstInLine
  <2>3. ~(i < a) /\ ~(a < i) /\ i \in Int /\ a \in Int
    BY <1>1, <2>1, <2>2
  <2> QED
    BY <2>1, <2>2, <2>3
<1>6. \A d \in Callers : /\ Woke(d) \in CallerState /\ Woke(d).pc = "woken"
                         /\ Woke(d).key = caller[d].key /\ Woke(d).lock = caller[d].lock
  BY <1>1 DEF CallerState
<1> HIDE DEF First, Woke
<1>7. /\ caller'[c] = Idler
      /\ \A d \in Callers :
           d # c => \/ caller'[d] = caller[d] /\ ~First(d)
                    \/ caller'[d] = Woke(d) /\ First(d)
  BY <1>2
<1>8. caller' \in [Callers -> CallerState]
  BY <1>1, <1>2, <1>3, <1>6
<1>9. ToSet(queue') = {d \in Callers : caller'[d].pc \in {"waiting", "woken"}}
  <2>1. \A d \in Callers : d # c =>
          (caller'[d].pc \in {"waiting", "woken"} <=> caller[d].pc \in {"waiting", "woken"})
    BY <1>4, <1>6, <1>7
  <2> QED
    BY <1>1, <1>3, <1>7, <2>1
<1>10. LocksAreMade'
  <2>1. ASSUME NEW d \in Callers, caller'[d].pc # "idle"
        PROVE  caller'[d].key \in CacheKeys /\ caller'[d].lock \in 1 .. locksMade[caller'[d].key]
    <3>1. d # c
      BY <1>3, <1>7, <2>1
    <3>2. caller[d].pc # "idle" /\ caller'[d].key = caller[d].key /\ caller'[d].lock = caller[d].lock
      BY <1>4, <1>6, <1>7, <2>1, <3>1
    <3> QED
      BY <1>1, <3>2 DEF LocksAreMade
  <2> QED
    BY <1>1, <2>1 DEF LocksAreMade
(* A busy coroutine was busy before, or has been woken by c. *)
<1>11. ASSUME NEW d \in Callers, Busy(d)'
       PROVE  /\ d # c /\ caller'[d].key = caller[d].key /\ caller'[d].lock = caller[d].lock
              /\ \/ Busy(d)
                 \/ First(d) /\ Uses(d, caller[c].key, caller[c].lock)
  <2>1. d # c
    BY <1>3, <1>7, <1>11 DEF Busy
  <2> QED
    BY <1>4, <1>6, <1>7, <1>11, <2>1 DEF Busy
<1>12. OneOwner'
  <2> SUFFICES ASSUME NEW d \in Callers, NEW e \in Callers, Busy(d)', Busy(e)',
                      caller'[e].key = caller'[d].key, caller'[e].lock = caller'[d].lock
               PROVE  d = e
    BY DEF OneOwner, Uses
  <2>1. /\ d # c /\ e # c /\ caller[e].key = caller[d].key /\ caller[e].lock = caller[d].lock
        /\ Busy(d) \/ (First(d) /\ Uses(d, caller[c].key, caller[c].lock))
        /\ Busy(e) \/ (First(e) /\ Uses(e, caller[c].key, caller[c].lock))
    BY <1>11
  <2>2. CASE Busy(d) /\ Busy(e)
    BY <1>1, <2>1, <2>2 DEF OneOwner, Uses
  <2>3. CASE First(d) /\ First(e)
    BY <1>5, <2>3
  <2>4. CASE Busy(d) /\ Uses(e, caller[c].key, caller[c].lock)
    BY <1>1, <2>1, <2>4 DEF OneOwner, Uses
  <2>5. CASE Busy(e) /\ Uses(d, caller[c].key, caller[c].lock)
    BY <1>1, <2>1, <2>5 DEF OneOwner, Uses
  <2> QED
    BY <2>1, <2>2, <2>3, <2>4, <2>5
<1>13. DropsAreCounted'
  <2>1. ASSUME NEW k \in CacheKeys, NEW n \in Dropped(k)'
        PROVE  n \in Dropped(k)
    <3>1. PICK d \in Callers : /\ Busy(d)' /\ caller'[d].key = k /\ caller'[d].lock = n
                               /\ n \in 1 .. locksMade[k] /\ n # lock[k]
      BY <2>1 DEF Dropped, Uses
    <3>2. \E e \in Callers : Busy(e) /\ Uses(e, k, n)
      BY <1>11, <3>1 DEF Uses
    <3> QED
      BY <3>1, <3>2 DEF Dropped
  <2> QED
    BY <2>1, DropsStay
<1> QED
  BY <1>8, <1>9, <1>10, <1>12, <1>13

(* An owner goes on as the owner. *)
LEMMA OwnerGoesOn ==
  ASSUME LockInv, NEW c \in Callers, Busy(c), NEW s \in CallerState,
         s.pc \in {"fetching", "answered"}, s.key = caller[c].key, s.lock = caller[c].lock,
         caller' = [caller EXCEPT ![c] = s], UNCHANGED <<lock, locksMade, cutOff>>
  PROVE  /\ caller' \in [Callers -> CallerState]
         /\ \A d \in Callers : d # c => caller'[d] = caller[d]
         /\ caller'[c].pc \notin {"waiting", "woken"}
         /\ LocksAreMade' /\ OneOwner' /\ DropsAreCounted'
<1>1. caller \in [Callers -> CallerState]
  BY DEF LockInv, CacheTypeOK, CallerState
<1>2. /\ caller'[c] = s /\ caller' \in [Callers -> CallerState]
      /\ \A d \in Callers : d # c => caller'[d] = caller[d]
  BY <1>1
<1>3. \A d \in Callers :
        /\ caller'[d].key = caller[d].key /\ caller'[d].lock = caller[d].lock
        /\ Busy(d)' <=> Busy(d)
        /\ caller'[d].pc # "idle" => caller[d].pc # "idle"
  BY <1>2 DEF Busy
<1>4. LocksAreMade'
  BY <1>3 DEF LockInv, LocksAreMade
<1>5. OneOwner'
  BY <1>3 DEF LockInv, OneOwner, Uses
<1>6. \A k \in CacheKeys : Dropped(k)' \subseteq Dropped(k)
  BY <1>3 DEF Dropped, Uses
<1> QED
  BY <1>2, <1>4, <1>5, <1>6, DropsStay

(* The locks, and who has which, stay as they are. *)
LEMMA LocksStay ==
  ASSUME LockInv, UNCHANGED <<caller, queue, lock, locksMade, cutOff>>
  PROVE  LocksAreMade' /\ Once(queue)' /\ OneOwner' /\ DropsAreCounted'
<1>1. LocksAreMade' /\ Once(queue)' /\ OneOwner'
  BY DEF LockInv, LocksAreMade, Once, OneOwner, Busy, Uses
<1>2. \A k \in CacheKeys : Dropped(k)' \subseteq Dropped(k)
  BY DEF Dropped, Busy, Uses
<1> QED
  BY <1>1, <1>2, DropsStay

LEMMA CallMissesKeepsLocks ==
  ASSUME LockInv, NEW c \in Callers, NEW k \in CacheKeys, CallMisses(c, k)
  PROVE  LockInv'
<1>1. PICK n : n = IF lock[k] = 0 THEN locksMade[k] + 1 ELSE lock[k]
  OBVIOUS
<1> DEFINE free == ~Held(k, n) /\ \A d \in ToSet(queue) : ~Uses(d, k, n)
<1>2. /\ caller[c].pc = "idle" /\ Draw("calls")
      /\ lock' = [lock EXCEPT ![k] = n]
      /\ locksMade' = [locksMade EXCEPT ![k] = IF lock[k] = 0 THEN n ELSE @]
      /\ UNCHANGED <<cacheRegime, version, untold, entry, epoch, cutOff>>
      /\ \/ free /\ caller' = [caller EXCEPT ![c] = Fetching(k, n)] /\ queue' = queue
         \/ caller' = [caller EXCEPT ![c] = InLine(k, n)] /\ queue' = Append(queue, c)
  BY <1>1 DEF CallMisses
<1> HIDE DEF free
<1>3. /\ CacheTypeOK /\ caller \in [Callers -> CallerState] /\ queue \in Seq(Callers)
      /\ ToSet(queue) = {d \in Callers : caller[d].pc \in {"waiting", "woken"}}
      /\ lock \in [CacheKeys -> Nat] /\ locksMade \in [CacheKeys -> Nat]
      /\ epoch \in [Repos -> Nat] /\ RepoOf[k] \in Repos
      /\ LocksAreMade /\ Once(queue) /\ OneOwner
  BY CacheAssumption DEF LockInv, CacheTypeOK, CallerState
<1>4. /\ n \in Nat /\ n > 0 /\ lock[k] <= locksMade[k]
      /\ lock' \in [CacheKeys -> Nat] /\ locksMade' \in [CacheKeys -> Nat]
      /\ lock'[k] = n /\ locksMade'[k] >= locksMade[k] /\ n <= locksMade'[k]
      /\ \A j \in CacheKeys : j # k => lock'[j] = lock[j] /\ locksMade'[j] = locksMade[j]
  <2>1. lock[k] <= locksMade[k] /\ lock[k] \in Nat /\ locksMade[k] \in Nat
    BY <1>3 DEF LocksAreMade
  <2>2. n \in Nat /\ n > 0
    BY <1>1, <2>1
  <2> QED
    BY <1>1, <1>2, <1>3, <2>1, <2>2
<1>5. PICK s : /\ caller' = [caller EXCEPT ![c] = s] /\ s \in CallerState
               /\ s.key = k /\ s.lock = n
               /\ \/ s.pc = "fetching" /\ queue' = queue /\ free
                  \/ s.pc = "waiting" /\ queue' = Append(queue, c)
  <2>1. Fetching(k, n) \in CallerState /\ InLine(k, n) \in CallerState
    BY <1>3, <1>4 DEF Fetching, InLine, CallerState
  <2>2. /\ Fetching(k, n).key = k /\ Fetching(k, n).lock = n /\ Fetching(k, n).pc = "fetching"
        /\ InLine(k, n).key = k /\ InLine(k, n).lock = n /\ InLine(k, n).pc = "waiting"
    BY DEF Fetching, InLine
  <2> QED
    BY <1>2, <2>1, <2>2
<1>6. /\ caller' \in [Callers -> CallerState] /\ caller'[c] = s
      /\ \A d \in Callers : d # c => caller'[d] = caller[d]
  BY <1>3, <1>5
<1>7. c \notin ToSet(queue)
  BY <1>2, <1>3
<1>8. /\ queue' \in Seq(Callers) /\ Once(queue')
      /\ ToSet(queue') = {d \in Callers : caller'[d].pc \in {"waiting", "woken"}}
  <2>1. CASE s.pc = "fetching" /\ queue' = queue
    <3>1. Once(queue') /\ queue' \in Seq(Callers) /\ ToSet(queue') = ToSet(queue)
      BY <1>3, <2>1
    <3> QED
      BY <1>2, <1>3, <1>6, <2>1, <3>1
  <2>2. CASE s.pc = "waiting" /\ queue' = Append(queue, c)
    <3>1. /\ Len(queue) \in Nat /\ DOMAIN queue = 1 .. Len(queue)
          /\ queue' \in Seq(Callers) /\ Len(queue') = Len(queue) + 1
          /\ \A i \in 1 .. Len(queue) : queue'[i] = queue[i]
          /\ queue'[Len(queue) + 1] = c
      BY <1>3, <2>2, AppendProperties, LenProperties
    <3>2. DOMAIN queue' = 1 .. Len(queue) + 1
      BY <3>1, LenProperties
    <3>3. ToSet(queue') = ToSet(queue) \cup {c}
      BY <3>1, <3>2 DEF ToSet
    <3>4. \A i \in 1 .. Len(queue) : queue[i] # c
      BY <1>7, <3>1 DEF ToSet
    <3>5. ASSUME NEW i \in DOMAIN queue', NEW j \in DOMAIN queue', queue'[i] = queue'[j]
          PROVE  i = j
      <4>1. i \in 1 .. Len(queue) + 1 /\ j \in 1 .. Len(queue) + 1
        BY <3>2
      <4>2. CASE i \in 1 .. Len(queue) /\ j \in 1 .. Len(queue)
        <5>1. queue[i] = queue[j]
          BY <3>1, <3>5, <4>2
        <5> QED
          BY <1>3, <3>1, <4>2, <5>1 DEF Once
      <4>3. CASE i = Len(queue) + 1 /\ j \in 1 .. Len(queue)
        BY <3>1, <3>4, <3>5, <4>3
      <4>4. CASE j = Len(queue) + 1 /\ i \in 1 .. Len(queue)
        BY <3>1, <3>4, <3>5, <4>4
      <4> QED
        BY <3>1, <4>1, <4>2, <4>3, <4>4
    <3>6. Once(queue')
      BY <3>5 DEF Once
    <3> QED
      BY <1>3, <1>6, <2>2, <3>1, <3>3, <3>6
  <2> QED
    BY <1>5, <2>1, <2>2
<1>9. LocksAreMade'
  <2>1. ASSUME NEW d \in Callers, caller'[d].pc # "idle"
        PROVE  caller'[d].key \in CacheKeys /\ caller'[d].lock \in 1 .. locksMade'[caller'[d].key]
    <3>1. CASE d = c
      BY <1>4, <1>5, <1>6, <3>1
    <3>2. CASE d # c
      <4>1. caller'[d] = caller[d] /\ caller[d].key \in CacheKeys
            /\ caller[d].lock \in 1 .. locksMade[caller[d].key]
        BY <1>3, <1>6, <2>1, <3>2 DEF LocksAreMade
      <4>2. \A j \in CacheKeys :
              locksMade[j] \in Nat /\ locksMade'[j] \in Nat /\ locksMade'[j] >= locksMade[j]
        <5>1. \A j \in CacheKeys : locksMade[j] \in Nat /\ locksMade'[j] \in Nat
          BY <1>3, <1>4
        <5> QED
          BY <1>4, <5>1
      <4> QED
        BY <4>1, <4>2
    <3> QED
      BY <3>1, <3>2
  <2>2. \A j \in CacheKeys : lock'[j] <= locksMade'[j]
    BY <1>3, <1>4 DEF LocksAreMade
  <2> QED
    BY <2>1, <2>2 DEF LocksAreMade
(* Nobody else has the lock that c gets at once. *)
<1>10. ASSUME free, NEW d \in Callers, Busy(d)
       PROVE  ~Uses(d, k, n)
  <2>1. CASE caller[d].pc = "woken"
    BY <1>3, <1>10, <2>1 DEF free
  <2>2. CASE caller[d].pc # "woken"
    BY <1>10, <2>2 DEF free, Held, AtWork, Busy
  <2> QED
    BY <2>1, <2>2
<1>11. OneOwner'
  <2> SUFFICES ASSUME NEW d \in Callers, NEW e \in Callers, Busy(d)', Busy(e)',
                      caller'[e].key = caller'[d].key, caller'[e].lock = caller'[d].lock, d # e
               PROVE  FALSE
    BY DEF OneOwner, Uses
  <2>1. CASE d # c /\ e # c
    BY <1>3, <1>6, <2>1 DEF OneOwner, Busy, Uses
  <2>2. CASE d = c
    <3>1. free /\ caller'[e] = caller[e]
      BY <1>5, <1>6, <2>2 DEF Busy
    <3>2. Busy(e) /\ Uses(e, k, n)
      BY <1>5, <1>6, <2>2, <3>1 DEF Busy, Uses
    <3> QED
      BY <1>10, <3>1, <3>2
  <2>3. CASE e = c
    <3>1. free /\ caller'[d] = caller[d]
      BY <1>5, <1>6, <2>3 DEF Busy
    <3>2. Busy(d) /\ Uses(d, k, n)
      BY <1>5, <1>6, <2>3, <3>1 DEF Busy, Uses
    <3> QED
      BY <1>10, <3>1, <3>2
  <2> QED
    BY <2>1, <2>2, <2>3
<1>12. DropsAreCounted'
  <2>1. ASSUME NEW j \in CacheKeys, NEW x \in Dropped(j)'
        PROVE  x \in Dropped(j)
    <3>1. PICK d \in Callers : /\ Busy(d)' /\ caller'[d].key = j /\ caller'[d].lock = x
                               /\ x # lock'[j] /\ x \in Nat /\ x > 0
      BY <1>4, <2>1 DEF Dropped, Uses
    <3>2. d # c
      BY <1>4, <1>5, <1>6, <3>1
    <3>3. caller'[d] = caller[d] /\ Busy(d) /\ Uses(d, j, x)
      BY <1>6, <3>1, <3>2 DEF Busy, Uses
    <3>4. x \in 1 .. locksMade[j]
      BY <1>3, <3>1, <3>3 DEF LocksAreMade, Busy, Uses
    <3>5. x # lock[j]
      BY <1>1, <1>3, <1>4, <3>1
    <3> QED
      BY <3>3, <3>4, <3>5 DEF Dropped
  <2> QED
    BY <1>2, <2>1, DropsStay
<1>13. cacheSpare' \in CacheBudget
  BY <1>2, <1>3, DrawsCount DEF CacheTypeOK
<1>14. CacheTypeOK'
  BY <1>2, <1>3, <1>4, <1>6, <1>8, <1>13 DEF CacheTypeOK, CallerState
<1> QED
  BY <1>8, <1>9, <1>11, <1>12, <1>14 DEF LockInv

LEMMA ResumesKeepsLocks ==
  ASSUME LockInv, NEW c \in Callers, Resumes(c)
  PROVE  LockInv'
<1>1. /\ CacheTypeOK /\ caller \in [Callers -> CallerState] /\ queue \in Seq(Callers)
      /\ ToSet(queue) = {d \in Callers : caller[d].pc \in {"waiting", "woken"}}
      /\ epoch \in [Repos -> Nat] /\ RepoOf \in [CacheKeys -> Repos]
      /\ LocksAreMade /\ Once(queue) /\ caller[c].pc = "woken"
  BY CacheAssumption DEF LockInv, CacheTypeOK, CallerState, Resumes
<1>2. /\ UNCHANGED <<cacheRegime, version, untold, entry, epoch, lock, locksMade, cutOff,
                     cacheSpare>>
      /\ \/ Leave(c, queue')
         \/ caller' = [caller EXCEPT ![c] = Fetching(caller[c].key, caller[c].lock)]
  BY DEF Resumes
<1>3. PICK i \in DOMAIN queue : queue[i] = c /\ queue' = RemoveAt(queue, i)
  BY DEF Resumes
<1>4. PICK line : line = queue'
  OBVIOUS
<1>5. /\ line \in Seq(Callers) /\ Once(line) /\ ToSet(line) = ToSet(queue) \ {c}
  BY <1>1, <1>3, <1>4, LineWithout, RemovedAt
<1>6. Busy(c) /\ caller[c].key \in CacheKeys
  BY <1>1 DEF Busy, LocksAreMade
<1>7. /\ caller' \in [Callers -> CallerState]
      /\ ToSet(queue') = {d \in Callers : caller'[d].pc \in {"waiting", "woken"}}
      /\ LocksAreMade' /\ OneOwner' /\ DropsAreCounted'
  <2>1. CASE Leave(c, queue')
    <3>1. Leave(c, line)
      BY <1>4, <2>1
    <3> QED
      BY <1>2, <1>4, <1>5, <1>6, <3>1, LeaveHandsOver
  <2>2. CASE caller' = [caller EXCEPT ![c] = Fetching(caller[c].key, caller[c].lock)]
    <3>1. PICK s : s = Fetching(caller[c].key, caller[c].lock)
      OBVIOUS
    <3>2. /\ s.pc = "fetching" /\ s.key = caller[c].key /\ s.lock = caller[c].lock
          /\ s \in CallerState
      BY <1>1, <1>6, <3>1 DEF Fetching, CallerState
    <3>3. /\ caller' \in [Callers -> CallerState]
          /\ \A d \in Callers : d # c => caller'[d] = caller[d]
          /\ caller'[c].pc \notin {"waiting", "woken"}
          /\ LocksAreMade' /\ OneOwner' /\ DropsAreCounted'
      BY <1>2, <1>6, <2>2, <3>1, <3>2, OwnerGoesOn
    <3> QED
      BY <1>1, <1>4, <1>5, <3>3
  <2> QED
    BY <1>2, <2>1, <2>2
<1>8. queue' \in Seq(Callers) /\ Once(queue')
  BY <1>4, <1>5
<1>9. CacheTypeOK'
  BY <1>1, <1>2, <1>7, <1>8 DEF CacheTypeOK, CallerState
<1> QED
  BY <1>7, <1>8, <1>9 DEF LockInv

LEMMA AnswersKeepsLocks ==
  ASSUME LockInv, NEW c \in Callers, Answers(c)
  PROVE  LockInv'
<1>1. /\ CacheTypeOK /\ caller \in [Callers -> CallerState] /\ version \in [Repos -> Nat]
      /\ ToSet(queue) = {d \in Callers : caller[d].pc \in {"waiting", "woken"}}
      /\ LocksAreMade /\ Once(queue) /\ caller[c].pc = "fetching"
      /\ RepoOf \in [CacheKeys -> Repos]
  BY CacheAssumption DEF LockInv, CacheTypeOK, CallerState, Answers
<1>2. /\ UNCHANGED <<cacheRegime, version, untold, entry, epoch, lock, locksMade, queue, cutOff,
                     cacheSpare>>
      /\ caller' = [caller EXCEPT ![c] = Brings(caller[c], version[RepoOf[caller[c].key]])]
  BY DEF Answers
<1>3. Busy(c) /\ caller[c].key \in CacheKeys
  BY <1>1 DEF Busy, LocksAreMade
<1>4. PICK s : s = Brings(caller[c], version[RepoOf[caller[c].key]])
  OBVIOUS
<1>5. /\ s.pc = "answered" /\ s.key = caller[c].key /\ s.lock = caller[c].lock
      /\ s \in CallerState
  <2>1. version[RepoOf[caller[c].key]] \in Nat
    BY <1>1, <1>3
  <2> QED
    BY <1>1, <1>4, <2>1 DEF Brings, CallerState
<1>6. /\ caller' \in [Callers -> CallerState]
      /\ \A d \in Callers : d # c => caller'[d] = caller[d]
      /\ caller'[c].pc \notin {"waiting", "woken"}
      /\ LocksAreMade' /\ OneOwner' /\ DropsAreCounted'
  BY <1>2, <1>3, <1>4, <1>5, OwnerGoesOn
<1>7. ToSet(queue') = {d \in Callers : caller'[d].pc \in {"waiting", "woken"}}
  BY <1>1, <1>2, <1>6
<1>8. CacheTypeOK' /\ Once(queue')
  BY <1>1, <1>2, <1>6, <1>7 DEF CacheTypeOK, CallerState
<1> QED
  BY <1>6, <1>8 DEF LockInv

(* A fetch that is over, stored or failed. *)
LEMMA FetchEnds ==
  ASSUME LockInv, NEW c \in Callers, AtWork(c), Leave(c, queue),
         entry' \in [CacheKeys -> [value : Nat, fresh : BOOLEAN] \cup {NoEntry}],
         cacheSpare' \in CacheBudget,
         UNCHANGED <<cacheRegime, version, untold, epoch, lock, locksMade, queue, cutOff>>
  PROVE  LockInv'
<1>1. /\ CacheTypeOK /\ queue \in Seq(Callers) /\ Once(queue) /\ Busy(c)
      /\ ToSet(queue) = {d \in Callers : caller[d].pc \in {"waiting", "woken"}}
  BY DEF LockInv, CacheTypeOK, AtWork, Busy
<1>2. ToSet(queue) = ToSet(queue) \ {c}
  BY <1>1 DEF AtWork
<1>3. /\ caller' \in [Callers -> CallerState]
      /\ ToSet(queue') = {d \in Callers : caller'[d].pc \in {"waiting", "woken"}}
      /\ LocksAreMade' /\ OneOwner' /\ DropsAreCounted'
  BY <1>1, <1>2, LeaveHandsOver
<1>4. CacheTypeOK' /\ Once(queue')
  BY <1>1, <1>3 DEF CacheTypeOK, CallerState
<1> QED
  BY <1>3, <1>4 DEF LockInv

LEMMA StoresKeepsLocks ==
  ASSUME LockInv, NEW c \in Callers, Stores(c)
  PROVE  LockInv'
<1>1. /\ CacheTypeOK /\ AtWork(c) /\ Leave(c, queue)
      /\ UNCHANGED <<cacheRegime, version, untold, epoch, lock, locksMade, queue, cutOff,
                     cacheSpare>>
  BY DEF LockInv, Stores, AtWork
<1>2. caller[c].value \in Nat
  BY <1>1 DEF CacheTypeOK
<1>3. entry' \in [CacheKeys -> [value : Nat, fresh : BOOLEAN] \cup {NoEntry}]
  <2>1. \/ entry' = entry
        \/ entry' = [entry EXCEPT ![caller[c].key] = [value |-> caller[c].value, fresh |-> TRUE]]
    BY DEF Stores
  <2>2. [value |-> caller[c].value, fresh |-> TRUE] \in [value : Nat, fresh : BOOLEAN]
    BY <1>2
  <2> QED
    BY <1>1, <2>1, <2>2 DEF CacheTypeOK
<1> QED
  BY <1>1, <1>3, FetchEnds DEF CacheTypeOK

LEMMA FailsKeepsLocks ==
  ASSUME LockInv, NEW c \in Callers, Fails(c)
  PROVE  LockInv'
<1>1. /\ CacheTypeOK /\ AtWork(c) /\ Leave(c, queue) /\ Draw("failures")
      /\ UNCHANGED <<cacheRegime, version, untold, entry, epoch, lock, locksMade, queue, cutOff>>
  BY DEF LockInv, Fails, AtWork
<1>2. cacheSpare' \in CacheBudget
  BY <1>1, DrawsCount DEF CacheTypeOK
<1>3. entry' \in [CacheKeys -> [value : Nat, fresh : BOOLEAN] \cup {NoEntry}]
  BY <1>1 DEF CacheTypeOK
<1> QED
  BY <1>1, <1>2, <1>3, FetchEnds

(* A purge that drops a lock whose next owner has not run yet is counted. *)
LEMMA InvalidateKeepsLocks ==
  ASSUME LockInv, NEW r \in Repos, InvalidateRepo(r)
  PROVE  LockInv'
<1>1. /\ CacheTypeOK /\ LocksAreMade
      /\ lock \in [CacheKeys -> Nat] /\ locksMade \in [CacheKeys -> Nat]
      /\ cutOff \in [CacheKeys -> Nat]
  BY DEF LockInv, CacheTypeOK
<1>2. /\ untold[r] > 0 /\ untold' = [untold EXCEPT ![r] = @ - 1]
      /\ epoch' = [epoch EXCEPT ![r] = @ + 1]
      /\ entry' = [k \in CacheKeys |-> IF k \in Of(r) THEN NoEntry ELSE entry[k]]
      /\ lock' = [k \in CacheKeys |-> IF k \in Of(r) /\ DropsLock(k) THEN 0 ELSE lock[k]]
      /\ cutOff' = [k \in CacheKeys |->
                      IF lock'[k] # lock[k] /\ Woken(k, lock[k]) THEN cutOff[k] + 1
                      ELSE cutOff[k]]
      /\ UNCHANGED <<cacheRegime, version, locksMade, caller, queue, cacheSpare>>
  BY DEF InvalidateRepo
<1>3. /\ lock' \in [CacheKeys -> Nat] /\ cutOff' \in [CacheKeys -> Nat]
      /\ \A k \in CacheKeys :
           \/ lock'[k] = lock[k]
           \/ lock'[k] = 0 /\ lock[k] # 0 /\ ~Held(k, lock[k])
  BY <1>1, <1>2 DEF DropsLock
<1>4. LocksAreMade' /\ OneOwner' /\ Once(queue')
  <2>1. \A k \in CacheKeys : lock'[k] <= locksMade[k]
    BY <1>1, <1>3 DEF LocksAreMade
  <2> QED
    BY <1>2, <2>1 DEF LockInv, LocksAreMade, OneOwner, Once, Busy, Uses
<1>5. DropsAreCounted'
  <2> SUFFICES ASSUME NEW k \in CacheKeys PROVE Cardinality(Dropped(k)') <= cutOff'[k]
    BY DEF DropsAreCounted
  <2>1. /\ Cardinality(Dropped(k)) <= cutOff[k] /\ cutOff[k] \in Nat /\ locksMade[k] \in Nat
    BY <1>1 DEF LockInv, DropsAreCounted
  <2>2. IsFiniteSet(Dropped(k))
    <3>1. IsFiniteSet(1 .. locksMade[k])
      BY <2>1, FS_Interval
    <3> QED
      BY <3>1, FS_Subset DEF Dropped
  <2>3. Cardinality(Dropped(k)) \in Nat
    BY <2>2, FS_CardinalityType
  <2>4. PICK n : n = lock[k]
    OBVIOUS
  <2>5. \A x \in Dropped(k)' : x \in Dropped(k) \cup {n}
    BY <1>2, <2>4 DEF Dropped, Busy, Uses
  <2>6. CASE Dropped(k)' \subseteq Dropped(k)
    <3>1. IsFiniteSet(Dropped(k)') /\ Cardinality(Dropped(k)') <= Cardinality(Dropped(k))
      BY <2>2, <2>6, FS_Subset
    <3>2. Cardinality(Dropped(k)') \in Nat
      BY <3>1, FS_CardinalityType
    <3>3. cutOff'[k] >= cutOff[k] /\ cutOff'[k] \in Nat
      BY <1>2, <2>1
    <3> QED
      BY <2>1, <2>3, <3>1, <3>2, <3>3
  <2>7. CASE n \in Dropped(k)'
    <3>1. /\ n # lock'[k]
          /\ \E c \in Callers : Busy(c) /\ Uses(c, k, n)
      BY <1>2, <2>7 DEF Dropped, Busy, Uses
    <3>2. lock'[k] # lock[k] /\ ~Held(k, lock[k])
      BY <1>3, <2>4, <3>1
    <3>3. Woken(k, lock[k])
      BY <2>4, <3>1, <3>2 DEF Woken, Held, AtWork, Busy
    <3>4. cutOff'[k] = cutOff[k] + 1
      BY <1>2, <3>2, <3>3
    <3>5. /\ IsFiniteSet(Dropped(k) \cup {n})
          /\ Cardinality(Dropped(k) \cup {n}) =
               IF n \in Dropped(k) THEN Cardinality(Dropped(k)) ELSE Cardinality(Dropped(k)) + 1
      BY <2>2, FS_AddElement
    <3>6. Dropped(k)' \subseteq Dropped(k) \cup {n}
      BY <2>5
    <3>7. IsFiniteSet(Dropped(k)') /\ Cardinality(Dropped(k)') <= Cardinality(Dropped(k) \cup {n})
      BY <3>5, <3>6, FS_Subset
    <3>8. Cardinality(Dropped(k)') \in Nat
      BY <3>7, FS_CardinalityType
    <3> QED
      BY <2>1, <2>3, <3>4, <3>5, <3>7, <3>8
  <2> QED
    BY <2>5, <2>6, <2>7
<1>6. CacheTypeOK'
  <2>1. /\ untold' \in [Repos -> Nat] /\ epoch' \in [Repos -> Nat]
        /\ entry' \in [CacheKeys -> [value : Nat, fresh : BOOLEAN] \cup {NoEntry}]
    BY <1>1, <1>2 DEF CacheTypeOK
  <2> QED
    BY <1>1, <1>2, <1>3, <2>1 DEF CacheTypeOK
<1> QED
  BY <1>4, <1>5, <1>6 DEF LockInv

(* A push, and an entry whose time is up. *)
LEMMA OutsideKeepsLocks ==
  ASSUME LockInv,
         (\E r \in Repos : Push(r)) \/ (\E k \in CacheKeys : Expires(k))
  PROVE  LockInv'
<1>1. /\ CacheTypeOK
      /\ UNCHANGED <<cacheRegime, epoch, lock, locksMade, caller, queue, cutOff>>
      /\ Draw("pushes") \/ Draw("expiries")
  BY DEF LockInv, Push, Expires
<1>2. cacheSpare' \in CacheBudget
  BY <1>1, DrawsCount DEF CacheTypeOK
<1>3. /\ version' \in [Repos -> Nat] /\ untold' \in [Repos -> Nat]
      /\ entry' \in [CacheKeys -> [value : Nat, fresh : BOOLEAN] \cup {NoEntry}]
  <2>1. CASE \E r \in Repos : Push(r)
    BY <1>1, <2>1 DEF Push, CacheTypeOK
  <2>2. CASE \E k \in CacheKeys : Expires(k)
    <3>1. PICK k \in CacheKeys : /\ entry[k] # NoEntry /\ entry' = [entry EXCEPT ![k].fresh = FALSE]
                                 /\ UNCHANGED <<version, untold>>
      BY <2>2 DEF Expires, Hit
    <3>2. entry[k] \in [value : Nat, fresh : BOOLEAN]
      BY <1>1, <3>1 DEF CacheTypeOK
    <3>3. [entry[k] EXCEPT !.fresh = FALSE] \in [value : Nat, fresh : BOOLEAN]
      BY <3>2
    <3> QED
      BY <1>1, <3>1, <3>3 DEF CacheTypeOK
  <2> QED
    BY <2>1, <2>2
<1>4. CacheTypeOK'
  BY <1>1, <1>2, <1>3 DEF CacheTypeOK
<1> QED
  BY <1>1, <1>4, LocksStay DEF LockInv

-----------------------------------------------------------------------------
LEMMA LockInvariance == CacheSpec => []LockInv
<1>1. CacheInit => LockInv
  <2> SUFFICES ASSUME CacheInit PROVE LockInv
    OBVIOUS
  <2>1. /\ \A c \in Callers : caller[c] = Idler
        /\ queue = <<>> /\ ToSet(queue) = {}
    BY DEF CacheInit, ToSet
  <2>2. Idler \in CallerState /\ Idler.pc = "idle"
    BY DEF Idler, CallerState
  <2>3. cacheSpare \in CacheBudget
    BY CacheAssumption DEF CacheInit, CacheRegime
  <2>4. CacheTypeOK
    BY <2>1, <2>2, <2>3, EmptySeq DEF CacheInit, CacheTypeOK, CallerState
  <2>5. \A c \in Callers : ~Busy(c)
    BY <2>1, <2>2 DEF Busy
  <2>6. LocksAreMade /\ Once(queue) /\ OneOwner
    BY <2>1, <2>2, <2>5 DEF CacheInit, LocksAreMade, Once, OneOwner
  <2>7. DropsAreCounted
    <3>1. \A k \in CacheKeys : Dropped(k) = {} /\ cutOff[k] = 0
      BY <2>5 DEF CacheInit, Dropped
    <3> QED
      BY <3>1, FS_EmptySet DEF DropsAreCounted
  <2> QED
    BY <2>4, <2>6, <2>7 DEF LockInv
<1>2. LockInv /\ [CacheNext]_cacheVars => LockInv'
  <2> SUFFICES ASSUME LockInv, [CacheNext]_cacheVars PROVE LockInv'
    OBVIOUS
  <2>0. cacheRegime.callers \subseteq Callers /\ cacheRegime.keys \subseteq CacheKeys
    BY CacheAssumption DEF LockInv, CacheTypeOK, CacheRegime
  <2>1. CASE UNCHANGED cacheVars
    <3>1. LocksAreMade' /\ Once(queue)' /\ OneOwner' /\ DropsAreCounted'
      BY <2>1, LocksStay DEF cacheVars
    <3>2. CacheTypeOK'
      BY <2>1 DEF cacheVars, LockInv, CacheTypeOK
    <3> QED
      BY <3>1, <3>2 DEF LockInv
  <2>2. CASE \E c \in cacheRegime.callers : \E k \in cacheRegime.keys : CallHits(c, k)
    BY <2>1, <2>2 DEF CallHits
  <2>3. CASE \E c \in cacheRegime.callers : \E k \in cacheRegime.keys : CallMisses(c, k)
    BY <2>0, <2>3, CallMissesKeepsLocks
  <2>4. CASE \E c \in cacheRegime.callers : GoesOn(c)
    BY <2>0, <2>4, ResumesKeepsLocks, AnswersKeepsLocks, StoresKeepsLocks, FailsKeepsLocks
       DEF GoesOn
  <2>5. CASE \E r \in {RepoOf[k] : k \in cacheRegime.keys} : Push(r) \/ InvalidateRepo(r)
    BY <2>0, <2>5, OutsideKeepsLocks, InvalidateKeepsLocks, CacheAssumption
  <2>6. CASE \E k \in cacheRegime.keys : Expires(k)
    BY <2>0, <2>6, OutsideKeepsLocks
  <2> QED
    BY <2>1, <2>2, <2>3, <2>4, <2>5, <2>6 DEF CacheNext
<1> QED
  BY <1>1, <1>2, PTL DEF CacheSpec

(* Those at work on a key have different locks: the key's own, or a dropped one. *)
LEMMA FetchesAreFew == LockInv => CacheTypeOK /\ OneFetchPerKey
<1> SUFFICES ASSUME LockInv PROVE OneFetchPerKey
  BY DEF LockInv
<1> SUFFICES ASSUME NEW k \in CacheKeys
             PROVE  Cardinality({c \in Callers : AtWork(c) /\ caller[c].key = k}) <= 1 + cutOff[k]
  BY DEF OneFetchPerKey
<1> DEFINE W == {c \in Callers : AtWork(c) /\ caller[c].key = k}
<1> DEFINE T == Dropped(k) \cup {lock[k]}
<1>1. /\ Cardinality(Dropped(k)) <= cutOff[k] /\ cutOff[k] \in Nat /\ locksMade[k] \in Nat
  BY DEF LockInv, CacheTypeOK, DropsAreCounted
<1>2. IsFiniteSet(Dropped(k))
  <2>1. IsFiniteSet(1 .. locksMade[k])
    BY <1>1, FS_Interval
  <2> QED
    BY <2>1, FS_Subset DEF Dropped
<1>3. Cardinality(Dropped(k)) \in Nat
  BY <1>2, FS_CardinalityType
<1>4. /\ IsFiniteSet(T)
      /\ Cardinality(T) <= Cardinality(Dropped(k)) + 1 /\ Cardinality(T) \in Nat
  BY <1>2, <1>3, FS_AddElement
<1>5. \A c \in W : caller[c].lock \in T
  <2> SUFFICES ASSUME NEW c \in W, caller[c].lock # lock[k] PROVE caller[c].lock \in Dropped(k)
    OBVIOUS
  <2>1. Busy(c) /\ caller[c].key = k /\ caller[c].pc # "idle"
    BY DEF AtWork, Busy
  <2>2. caller[c].lock \in 1 .. locksMade[k]
    BY <2>1 DEF LockInv, LocksAreMade
  <2> QED
    BY <2>1, <2>2 DEF Dropped, Uses
<1>6. \A c, d \in W : caller[c].lock = caller[d].lock => c = d
  BY DEF LockInv, OneOwner, AtWork, Busy, Uses
<1> HIDE DEF W, T
<1>7. [c \in W |-> caller[c].lock] \in Injection(W, T)
  BY <1>5, <1>6 DEF Injection, IsInjective
<1>8. IsFiniteSet(W) /\ Cardinality(W) <= Cardinality(T)
  BY <1>4, <1>7, FS_Injection
<1>9. Cardinality(W) \in Nat
  BY <1>8, FS_CardinalityType
<1>10. Cardinality(W) <= 1 + cutOff[k]
  BY <1>1, <1>3, <1>4, <1>8, <1>9
<1> QED
  BY <1>10 DEF W

(***************************************************************************)
(* The services keep their promises, each while the others do what they    *)
(* do: an ended pull request is mentioned at most once more, nothing is    *)
(* said again but what a failure made the sweep forget, and coroutines of  *)
(* one key fetch one at a time but for those a purge has cut off.          *)
(***************************************************************************)
THEOREM ServicesStaySound == ServicesSpec => []ServicesAreSound
<1>1. ServicesInit => NudgeInit /\ CacheInit
  BY DEF ServicesInit
<1>2. [ServicesNext]_<<nudgeVars, cacheVars>> => [NudgeNext]_nudgeVars /\ [CacheNext]_cacheVars
  BY DEF ServicesNext
<1>3. ServicesSpec => NudgeSpec /\ CacheSpec
  BY <1>1, <1>2, PTL DEF ServicesSpec, NudgeSpec, CacheSpec
<1>4. NudgeInv /\ LockInv => ServicesAreSound
  BY NudgesAreSound, FetchesAreFew DEF ServicesAreSound
<1> QED
  BY <1>3, <1>4, NudgeInvariance, LockInvariance, PTL
=============================================================================
