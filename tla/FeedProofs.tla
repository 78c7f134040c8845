------------------------------ MODULE FeedProofs ------------------------------
(***************************************************************************)
(* What the poller makes of GitHub, for any repositories, pages, windows,  *)
(* and any number of events, commits and pull requests: three inductive    *)
(* invariants, one for each of its ways of learning.                       *)
(*                                                                         *)
(* Events: what was handled is what was seen, in its order.  Commits: what *)
(* was posted is among what is known, and what is owed is still on a page. *)
(* Pull requests: each row of a poll agrees with GitHub as it was when the *)
(* poll began, the memory agrees with what the calls left (CallsFit), the  *)
(* calls take turns, and what a handler heard last agrees with the memory  *)
(* (HeardFits).  First, ranks in a finite set.                             *)
(***************************************************************************)
EXTENDS MCActivity, FiniteSetTheorems, SequenceTheorems, TLAPS

(* A member of a finite set stands where as many are before it as its place says. *)
LEMMA RanksDiffer ==
  ASSUME NEW S, IsFiniteSet(S), NEW at, \A e \in S : at[e] \in Int,
         \A d, e \in S : at[d] = at[e] => d = e
  PROVE  /\ \A e \in S : RankIn(S, at, e) \in 0 .. Cardinality(S) - 1
         /\ \A d, e \in S : at[d] < at[e] => RankIn(S, at, d) < RankIn(S, at, e)
         /\ \A d, e \in S : RankIn(S, at, d) = RankIn(S, at, e) => d = e
         /\ \A i \in 1 .. Cardinality(S) : \E e \in S : RankIn(S, at, e) = i - 1
<1> DEFINE below(e) == {d \in S : at[d] < at[e]}
<1>1. Cardinality(S) \in Nat
  BY FS_CardinalityType
<1>2. ASSUME NEW e \in S
      PROVE  /\ IsFiniteSet(below(e)) /\ RankIn(S, at, e) = Cardinality(below(e))
             /\ RankIn(S, at, e) \in 0 .. Cardinality(S) - 1 /\ RankIn(S, at, e) \in Int
  <2>1. below(e) \subseteq S \ {e} /\ IsFiniteSet(S \ {e}) /\ Cardinality(S \ {e}) = Cardinality(S) - 1
    BY FS_RemoveElement
  <2>2. IsFiniteSet(below(e)) /\ Cardinality(below(e)) <= Cardinality(S) - 1
    BY <2>1, FS_Subset
  <2>3. Cardinality(below(e)) \in Nat
    BY <2>2, FS_CardinalityType
  <2> QED
    BY <1>1, <2>2, <2>3 DEF RankIn
<1>3. ASSUME NEW d \in S, NEW e \in S, at[d] < at[e] PROVE RankIn(S, at, d) < RankIn(S, at, e)
  <2>1. below(d) \subseteq below(e) \ {d} /\ d \in below(e)
    BY <1>3
  <2>2. /\ IsFiniteSet(below(e) \ {d}) /\ Cardinality(below(e) \ {d}) = Cardinality(below(e)) - 1
    BY <1>2, <2>1, FS_RemoveElement
  <2>3. Cardinality(below(d)) <= Cardinality(below(e)) - 1
    BY <2>1, <2>2, FS_Subset
  <2>4. /\ RankIn(S, at, d) = Cardinality(below(d)) /\ RankIn(S, at, e) = Cardinality(below(e))
        /\ Cardinality(below(d)) \in Int /\ Cardinality(below(e)) \in Int
    BY <1>2
  <2> HIDE DEF below
  <2> QED
    BY <2>3, <2>4
<1> HIDE DEF below
<1>4. ASSUME NEW d \in S, NEW e \in S, RankIn(S, at, d) = RankIn(S, at, e) PROVE d = e
  <2>0. RankIn(S, at, d) \in Int /\ RankIn(S, at, e) \in Int
    BY <1>2
  <2>1. ~(RankIn(S, at, d) < RankIn(S, at, e)) /\ ~(RankIn(S, at, e) < RankIn(S, at, d))
    BY <1>4, <2>0
  <2>2. ~(at[d] < at[e]) /\ ~(at[e] < at[d])
    BY <1>3, <2>1
  <2> QED
    BY <2>2
<1>5. ASSUME NEW i \in 1 .. Cardinality(S) PROVE \E e \in S : RankIn(S, at, e) = i - 1
  <2> DEFINE n == Cardinality(S)
             rankOf == [e \in S |-> RankIn(S, at, e) + 1]
  <2>1. rankOf \in [S -> 1 .. n] /\ \A d, e \in S : rankOf[d] = rankOf[e] => d = e
    <3>1. \A e \in S : RankIn(S, at, e) \in Int /\ RankIn(S, at, e) + 1 \in 1 .. n
      <4> SUFFICES ASSUME NEW e \in S PROVE RankIn(S, at, e) \in Int /\ RankIn(S, at, e) + 1 \in 1 .. n
        OBVIOUS
      <4>1. PICK r : r = RankIn(S, at, e)
        OBVIOUS
      <4>0. RankIn(S, at, e) \in 0 .. Cardinality(S) - 1 /\ Cardinality(S) \in Int
        BY <1>1, <1>2
      <4>2. r \in 0 .. n - 1 /\ n \in Int
        BY <4>0, <4>1
      <4>3. r \in Int /\ r + 1 \in 1 .. n
        BY <4>2
      <4> QED
        BY <4>1, <4>3
    <3> QED
      BY <1>4, <3>1
  <2>2. IsFiniteSet(1 .. n) /\ Cardinality(1 .. n) = n
    BY <1>1, FS_Interval
  <2> HIDE DEF rankOf, n
  <2>3. rankOf \in Injection(S, 1 .. n)
    BY <2>1 DEF Injection, IsInjective
  <2>4. rankOf \in Surjection(S, 1 .. n)
    BY <2>2, <2>3, FS_Injection DEF n
  <2>5. \E e \in S : rankOf[e] = i
    BY <2>4 DEF Surjection, n
  <2>6. PICK e \in S : rankOf[e] = i
    BY <2>5
  <2>7. RankIn(S, at, e) \in Int /\ RankIn(S, at, e) + 1 = i /\ i \in Int
    <3>1. rankOf[e] = RankIn(S, at, e) + 1
      BY DEF rankOf
    <3>2. RankIn(S, at, e) \in Int
      BY <1>2
    <3> QED
      BY <2>6, <3>1, <3>2
  <2> QED
    BY <2>7
<1> QED
  BY <1>2, <1>3, <1>4, <1>5

LEMMA EarliestOrders ==
  ASSUME NEW S, IsFiniteSet(S), NEW at, \A e \in S : at[e] \in Int,
         \A d, e \in S : at[d] = at[e] => d = e
  PROVE  LET s == EarliestFirst(S, at) IN
         /\ s \in Seq(S) /\ Len(s) = Cardinality(S) /\ DOMAIN s = 1 .. Cardinality(S)
         /\ \A e \in S : \E i \in DOMAIN s : s[i] = e
         /\ \A i \in DOMAIN s : s[i] \in S
         /\ \A i, j \in DOMAIN s : i < j => at[s[i]] < at[s[j]]
<1> DEFINE s == EarliestFirst(S, at)  n == Cardinality(S)
<1>1. n \in Nat
  BY FS_CardinalityType
<1>2. DOMAIN s = 1 .. n /\ \A i \in 1 .. n : s[i] = CHOOSE e \in S : RankIn(S, at, e) = i - 1
  BY DEF EarliestFirst
<1>3. \A i \in 1 .. n : s[i] \in S /\ RankIn(S, at, s[i]) = i - 1
  BY <1>2, RanksDiffer
<1>4. s \in Seq(S) /\ Len(s) = n
  <2>1. s = [i \in 1 .. n |-> s[i]]
    BY DEF EarliestFirst
  <2>2. s \in [1 .. n -> S]
    BY <1>2, <1>3, <2>1
  <2> QED
    BY <1>1, <2>2
<1>5. ASSUME NEW e \in S PROVE \E i \in DOMAIN s : s[i] = e
  <2>1. PICK r : r = RankIn(S, at, e)
    OBVIOUS
  <2>2. r \in 0 .. n - 1
    BY <2>1, RanksDiffer
  <2>3. r + 1 \in 1 .. n /\ (r + 1) - 1 = r
    BY <1>1, <2>2
  <2>4. s[r + 1] \in S /\ RankIn(S, at, s[r + 1]) = r
    BY <1>3, <2>3
  <2>5. s[r + 1] = e
    BY <2>1, <2>4, RanksDiffer
  <2> QED
    BY <1>2, <2>3, <2>5
<1>6. ASSUME NEW i \in DOMAIN s, NEW j \in DOMAIN s, i < j PROVE at[s[i]] < at[s[j]]
  <2>1. /\ s[i] \in S /\ s[j] \in S
        /\ RankIn(S, at, s[i]) = i - 1 /\ RankIn(S, at, s[j]) = j - 1
        /\ i \in Int /\ j \in Int
    BY <1>2, <1>3
  <2>2. at[s[j]] < at[s[i]] => j - 1 < i - 1
    BY <2>1, RanksDiffer
  <2>3. at[s[i]] = at[s[j]] => i - 1 = j - 1
    BY <2>1
  <2> QED
    BY <1>6, <2>1, <2>2, <2>3
<1> QED
  BY <1>2, <1>3, <1>4, <1>5, <1>6

LEMMA StandsInOrder ==
  ASSUME NEW S, IsFiniteSet(S), NEW at, \A e \in S : at[e] \in Int,
         \A d, e \in S : at[d] = at[e] => d = e,
         NEW s, s = EarliestFirst(S, at)
  PROVE  /\ s \in Seq(S) /\ DOMAIN s = 1 .. Len(s)
         /\ \A e \in S : \E i \in DOMAIN s : s[i] = e
         /\ \A i \in DOMAIN s : s[i] \in S
         /\ \A i, j \in DOMAIN s : i < j => at[s[i]] < at[s[j]]
<1>1. /\ s \in Seq(S) /\ Len(s) = Cardinality(S) /\ DOMAIN s = 1 .. Cardinality(S)
      /\ \A e \in S : \E i \in DOMAIN s : s[i] = e
      /\ \A i \in DOMAIN s : s[i] \in S
      /\ \A i, j \in DOMAIN s : i < j => at[s[i]] < at[s[j]]
  BY EarliestOrders
<1> QED
  BY <1>1

LEMMA AscendingOrders ==
  ASSUME NEW S, IsFiniteSet(S), S \subseteq Int
  PROVE  /\ Ascending(S) \in Seq(S) /\ DOMAIN Ascending(S) = 1 .. Len(Ascending(S))
         /\ \A e \in S : \E i \in DOMAIN Ascending(S) : Ascending(S)[i] = e
         /\ \A i \in DOMAIN Ascending(S) : Ascending(S)[i] \in S
         /\ \A i, j \in DOMAIN Ascending(S) : i < j => Ascending(S)[i] < Ascending(S)[j]
<1>1. PICK at : at = [e \in S |-> e]
  OBVIOUS
<1>2. \A e \in S : at[e] = e
  BY <1>1
<1>3. \A e \in S : at[e] \in Int
  BY <1>2
<1>4. \A d, e \in S : at[d] = at[e] => d = e
  BY <1>2
<1>5. PICK s : s = EarliestFirst(S, at)
  OBVIOUS
<1>6. s = Ascending(S)
  BY <1>1, <1>5 DEF Ascending
<1>7. s \in Seq(S) /\ DOMAIN s = 1 .. Len(s)
  BY <1>3, <1>4, <1>5, StandsInOrder, Zenon
<1>8. (\A e \in S : \E i \in DOMAIN s : s[i] = e) /\ (\A i \in DOMAIN s : s[i] \in S)
  BY <1>3, <1>4, <1>5, StandsInOrder, Zenon
<1>9. \A i, j \in DOMAIN s : i < j => at[s[i]] < at[s[j]]
  BY <1>3, <1>4, <1>5, StandsInOrder, Zenon
<1>10. \A i, j \in DOMAIN s : i < j => s[i] < s[j]
  BY <1>2, <1>8, <1>9
<1> QED
  BY <1>6, <1>7, <1>8, <1>10

LEMMA LatestOrders ==
  ASSUME NEW S, IsFiniteSet(S), NEW at, \A e \in S : at[e] \in Int,
         \A d, e \in S : at[d] = at[e] => d = e,
         NEW s, s = LatestFirst(S, at)
  PROVE  /\ s \in Seq(S) /\ DOMAIN s = 1 .. Len(s)
         /\ \A e \in S : \E i \in DOMAIN s : s[i] = e
         /\ \A i \in DOMAIN s : s[i] \in S
         /\ \A i, j \in DOMAIN s : i < j => at[s[j]] < at[s[i]]
<1>1. PICK back : back = [e \in S |-> -at[e]]
  OBVIOUS
<1>2. \A e \in S : back[e] = -at[e]
  BY <1>1
<1>3. \A e \in S : back[e] \in Int
  BY <1>2
<1>4. \A d, e \in S : back[d] = back[e] => d = e
  BY <1>2
<1>5. PICK r : r = EarliestFirst(S, back)
  OBVIOUS
<1>6. r \in Seq(S) /\ DOMAIN r = 1 .. Len(r)
  BY <1>3, <1>4, <1>5, StandsInOrder, Zenon
<1>7. ASSUME NEW e \in S PROVE \E i \in DOMAIN r : r[i] = e
  BY <1>3, <1>4, <1>5, StandsInOrder
<1>8. \A i \in DOMAIN r : r[i] \in S
  BY <1>3, <1>4, <1>5, StandsInOrder, Zenon
<1>9. \A i, j \in DOMAIN r : i < j => back[r[i]] < back[r[j]]
  BY <1>3, <1>4, <1>5, StandsInOrder, Zenon
<1>10. \A i, j \in DOMAIN r : i < j => at[r[j]] < at[r[i]]
  BY <1>2, <1>8, <1>9
<1>11. s = r
  BY <1>1, <1>5 DEF LatestFirst
<1> QED
  BY <1>6, <1>7, <1>8, <1>10, <1>11

LEMMA SeqWithin == ASSUME NEW S, NEW T, S \subseteq T, NEW s \in Seq(S) PROVE s \in Seq(T)
  OBVIOUS

-----------------------------------------------------------------------------
(* The events feed.                                                        *)

IsSeen(e) == \E known \in seen : e \in known
Waits(e)  == \E j \in DOMAIN queue : queue[j] = e
IsDone(e) == \E i \in DOMAIN handled : handled[i] = e

EventTyped ==
  /\ eventRegime \in EventRegimes /\ hour \in Nat
  /\ IsFiniteSet(feed) /\ feed \subseteq Nat /\ happened \subseteq Nat
  /\ queue \in Seq(Nat) /\ handled \in Seq(Nat) /\ first \in Nat /\ first <= Len(handled)

(* What was seen was dispatched, waits for it, or was history.                 *)
SeenIsShown ==
  /\ \A e \in UNION seen : e \in feed
  /\ \A e \in UNION seen : Tracked(e) => Waits(e) \/ IsDone(e) \/ e \in history
  /\ \A e \in page : IsSeen(e)

(* What was dispatched is still remembered, or will not be shown again.        *)
NotShownAgain ==
  /\ \A j \in DOMAIN queue : IsSeen(queue[j]) \/ queue[j] \in feed \ FeedPage
  /\ \A i \in DOMAIN handled : IsSeen(handled[i]) \/ handled[i] \in feed \ FeedPage

(* The dispatched and the waiting, one behind the other.                       *)
InTurn ==
  /\ \A i, j \in DOMAIN queue : i < j => queue[i] < queue[j]
  /\ \A i \in DOMAIN handled, j \in DOMAIN queue :
       handled[i] # queue[j] /\ (first < i => handled[i] < queue[j])

EventInv == EventTyped /\ SeenIsShown /\ NotShownAgain /\ InTurn /\ HandledOnce /\ HandledInOrder

LEMMA EventStarts == EventInit => EventInv
<1> SUFFICES ASSUME EventInit PROVE EventInv
  OBVIOUS
<1>1. /\ eventRegime \in EventRegimes /\ hour = eventRegime.past /\ happened = {}
      /\ feed = 1 .. eventRegime.past /\ seen = {} /\ queue = <<>> /\ handled = <<>>
      /\ first = 0 /\ page = {} /\ eventRegime.past \in Nat
  BY EventAssumption DEF EventInit
<1>2. IsFiniteSet(feed) /\ feed \subseteq Nat
  BY <1>1, FS_Interval
<1>3. DOMAIN queue = {} /\ DOMAIN handled = {} /\ Len(handled) = 0
  BY <1>1
<1>4. EventTyped
  BY <1>1, <1>2, <1>3 DEF EventTyped
<1> QED
  BY <1>1, <1>3, <1>4
     DEF EventInv, SeenIsShown, NotShownAgain, InTurn, HandledOnce, HandledInOrder, IsSeen

(* What newer events pushed off the page is not shown again. *)
LEMMA OffStaysOff ==
  ASSUME EventTyped, feed \subseteq feed', IsFiniteSet(feed'), UNCHANGED eventRegime
  PROVE  \A e \in feed \ FeedPage : e \in feed' \ FeedPage'
<1> SUFFICES ASSUME NEW e \in feed, e \notin FeedPage PROVE e \in feed' /\ e \notin FeedPage'
  OBVIOUS
<1> DEFINE newer == {d \in feed : d > e}  newest == {d \in feed' : d > e}
<1>1. IsFiniteSet(newest) /\ newer \subseteq newest
  BY FS_Subset
<1>2. Cardinality(newer) <= Cardinality(newest) /\ IsFiniteSet(newer)
  BY <1>1, FS_Subset
<1>3. Cardinality(newer) \in Nat /\ Cardinality(newest) \in Nat /\ eventRegime.page \in Nat
  BY <1>1, <1>2, FS_CardinalityType, EventAssumption DEF EventTyped
<1>4. ~(Cardinality(newer) < eventRegime.page)
  BY DEF FeedPage
<1>5. ~(Cardinality(newest) < eventRegime.page)
  BY <1>2, <1>3, <1>4
<1> QED
  BY <1>5 DEF FeedPage

(* GitHub adds events to its feed, or time passes. *)
LEMMA FeedGrows ==
  ASSUME EventInv, feed \subseteq feed', IsFiniteSet(feed'), feed' \subseteq Nat,
         happened' \subseteq Nat, hour' \in Nat,
         UNCHANGED <<eventRegime, seen, queue, handled, first, page, history>>
  PROVE  EventInv'
<1>1. EventTyped'
  BY DEF EventInv, EventTyped
<1>2. \A e \in feed \ FeedPage : e \in feed' \ FeedPage'
  BY OffStaysOff DEF EventInv
<1>3. /\ \A e : IsSeen(e)' <=> IsSeen(e)
      /\ \A e : Waits(e)' <=> Waits(e)
      /\ \A e : IsDone(e)' <=> IsDone(e)
      /\ \A e : Tracked(e)' <=> Tracked(e)
  BY DEF IsSeen, Waits, IsDone, Tracked
<1>4. SeenIsShown'
  BY <1>3 DEF EventInv, SeenIsShown
<1>5. NotShownAgain'
  BY <1>2, <1>3 DEF EventInv, NotShownAgain
<1>6. InTurn' /\ HandledOnce' /\ HandledInOrder'
  BY DEF EventInv, InTurn, HandledOnce, HandledInOrder
<1> QED
  BY <1>1, <1>4, <1>5, <1>6 DEF EventInv

LEMMA GitHubKeeps == ASSUME EventInv, Happens \/ Appears \/ HourPasses PROVE EventInv'
<1>1. /\ hour \in Nat /\ IsFiniteSet(feed) /\ feed \subseteq Nat /\ happened \subseteq Nat
      /\ UNCHANGED <<eventRegime, seen, queue, handled, first, page, history>>
  BY DEF EventInv, EventTyped, Happens, Appears, HourPasses, Polling
<1>2. CASE Happens
  <2>1. PICK e : e = hour + 1
    OBVIOUS
  <2>2. e \in Nat /\ hour' = e
    BY <1>1, <1>2, <2>1 DEF Happens
  <2>3. \/ feed' = feed \cup {e} /\ happened' = happened
        \/ feed' = feed /\ happened' = happened \cup {e}
    BY <1>2, <2>1 DEF Happens
  <2>4. IsFiniteSet(feed \cup {e})
    BY <1>1, FS_AddElement
  <2> QED
    BY <1>1, <2>2, <2>3, <2>4, FeedGrows
<1>3. CASE Appears
  <2>1. PICK e \in happened : happened' = happened \ {e} /\ feed' = feed \cup {e}
    BY <1>3 DEF Appears
  <2>2. IsFiniteSet(feed \cup {e}) /\ hour' = hour
    BY <1>1, <1>3, FS_AddElement DEF Appears
  <2> QED
    BY <1>1, <2>1, <2>2, FeedGrows
<1>4. CASE HourPasses
  <2>1. hour' = hour + 1 /\ feed' = feed /\ happened' = happened
    BY <1>4 DEF HourPasses
  <2> QED
    BY <1>1, <2>1, FeedGrows
<1> QED
  BY <1>2, <1>3, <1>4

(* The next event is dispatched. *)
LEMMA DispatchKeeps == ASSUME EventInv, DispatchEvent PROVE EventInv'
<1>1. PICK e, n : e = Head(queue) /\ n = Len(handled) + 1
  OBVIOUS
<1>2. /\ queue # <<>> /\ queue' = Tail(queue) /\ handled' = Append(handled, e)
      /\ UNCHANGED <<eventRegime, hour, happened, feed, seen, first, page, history>>
      /\ queue \in Seq(Nat) /\ handled \in Seq(Nat) /\ first \in Nat /\ first <= Len(handled)
  BY <1>1 DEF DispatchEvent, EventInv, EventTyped
<1>3. /\ e \in Nat /\ queue' \in Seq(Nat) /\ 1 \in DOMAIN queue /\ queue[1] = e
      /\ \A j \in DOMAIN queue' : j \in Nat /\ j + 1 \in DOMAIN queue /\ queue'[j] = queue[j + 1]
      /\ \A j \in DOMAIN queue : j \in Nat /\ (j # 1 => j - 1 \in DOMAIN queue')
  <2>1. /\ Len(queue) \in Nat \ {0} /\ DOMAIN queue = 1 .. Len(queue) /\ e = queue[1]
        /\ Tail(queue) \in Seq(Nat) /\ Len(Tail(queue)) = Len(queue) - 1
        /\ \A j \in 1 .. Len(queue) - 1 : Tail(queue)[j] = queue[j + 1]
    BY <1>1, <1>2, HeadTailProperties, EmptySeq
  <2>2. DOMAIN queue' = 1 .. Len(queue) - 1
    BY <1>2, <2>1
  <2> QED
    BY <1>2, <2>1, <2>2
<1>4. /\ handled' \in Seq(Nat) /\ n \in Nat /\ Len(handled') = n /\ first < n
      /\ DOMAIN handled' = DOMAIN handled \cup {n} /\ n \notin DOMAIN handled
      /\ handled'[n] = e /\ \A i \in DOMAIN handled : i \in Nat /\ i < n /\ handled'[i] = handled[i]
  <2>1. /\ Append(handled, e) \in Seq(Nat) /\ Len(Append(handled, e)) = Len(handled) + 1
        /\ \A i \in 1 .. Len(handled) : Append(handled, e)[i] = handled[i]
        /\ Append(handled, e)[Len(handled) + 1] = e
    BY <1>2, <1>3, AppendProperties
  <2>2. Len(handled) \in Nat /\ DOMAIN handled = 1 .. Len(handled) /\ DOMAIN handled' = 1 .. Len(handled) + 1
    BY <1>2, <2>1
  <2> QED
    BY <1>1, <1>2, <2>1, <2>2
<1>5. EventTyped'
  BY <1>2, <1>3, <1>4 DEF EventInv, EventTyped
<1>6. FeedPage' = FeedPage /\ (\A x : IsSeen(x)' <=> IsSeen(x)) /\ (\A x : Tracked(x)' <=> Tracked(x))
  BY <1>2 DEF FeedPage, IsSeen, Tracked
<1>7. ASSUME NEW x, Waits(x) \/ IsDone(x) PROVE Waits(x)' \/ IsDone(x)'
  <2>1. CASE IsDone(x)
    BY <1>4, <2>1 DEF IsDone
  <2>2. CASE Waits(x)
    <3>1. PICK j \in DOMAIN queue : queue[j] = x
      BY <2>2 DEF Waits
    <3>2. CASE j = 1
      BY <1>3, <1>4, <3>1, <3>2 DEF IsDone
    <3>3. CASE j # 1
      <4>1. PICK l : l = j - 1
        OBVIOUS
      <4>2. l \in DOMAIN queue' /\ l + 1 = j
        BY <1>3, <3>3, <4>1
      <4> QED
        BY <1>3, <3>1, <4>2 DEF Waits
    <3> QED
      BY <3>2, <3>3
  <2> QED
    BY <1>7, <2>1, <2>2
<1>8. SeenIsShown'
  BY <1>2, <1>6, <1>7 DEF EventInv, SeenIsShown
<1>9. NotShownAgain'
  <2>1. \A j \in DOMAIN queue' : IsSeen(queue'[j]) \/ queue'[j] \in feed \ FeedPage
    BY <1>3 DEF EventInv, NotShownAgain
  <2>2. \A i \in DOMAIN handled' : IsSeen(handled'[i]) \/ handled'[i] \in feed \ FeedPage
    BY <1>3, <1>4 DEF EventInv, NotShownAgain
  <2> QED
    BY <1>2, <1>6, <2>1, <2>2 DEF NotShownAgain
<1>10. \A j \in DOMAIN queue' : e < queue'[j] /\ e \in Nat /\ queue'[j] \in Nat
  <2>1. \A j \in DOMAIN queue' : 1 < j + 1
    BY <1>3
  <2>2. \A j \in DOMAIN queue' : e < queue'[j]
    BY <1>3, <2>1 DEF EventInv, InTurn
  <2> QED
    BY <1>3, <2>2
<1>11. InTurn'
  <2>1. \A i, j \in DOMAIN queue' : i < j => queue'[i] < queue'[j]
    <3>1. \A i, j \in DOMAIN queue' : i < j => i + 1 < j + 1
      BY <1>3
    <3> QED
      BY <1>3, <3>1 DEF EventInv, InTurn
  <2>2. ASSUME NEW i \in DOMAIN handled', NEW j \in DOMAIN queue'
        PROVE  handled'[i] # queue'[j] /\ (first < i => handled'[i] < queue'[j])
    <3>1. CASE i = n
      BY <1>4, <1>10, <3>1
    <3>2. CASE i # n
      BY <1>3, <1>4, <3>2 DEF EventInv, InTurn
    <3> QED
      BY <3>1, <3>2
  <2> QED
    BY <1>2, <2>1, <2>2 DEF InTurn
<1>12. HandledOnce'
  <2>1. \A i \in DOMAIN handled : handled[i] # e
    BY <1>3 DEF EventInv, InTurn
  <2> QED
    BY <1>4, <2>1 DEF EventInv, HandledOnce
<1>13. HandledInOrder'
  <2>1. \A i \in DOMAIN handled : first < i => handled[i] < e
    BY <1>3 DEF EventInv, InTurn
  <2>2. \A i \in DOMAIN handled : ~(n < i)
    BY <1>4
  <2> QED
    BY <1>2, <1>4, <2>1, <2>2 DEF EventInv, HandledInOrder
<1> QED
  BY <1>5, <1>8, <1>9, <1>11, <1>12, <1>13 DEF EventInv

(* A page of the feed is read, and what is new of it waits to be dispatched. *)
LEMMA PollsKeep == ASSUME EventInv, PollEvents PROVE EventInv'
<1>1. /\ eventRegime \in EventRegimes /\ hour \in Nat /\ IsFiniteSet(feed) /\ feed \subseteq Nat
      /\ happened \subseteq Nat /\ handled \in Seq(Nat) /\ first' = Len(handled)
      /\ Len(handled) \in Nat /\ DOMAIN handled = 1 .. Len(handled) /\ queue = <<>>
      /\ page' = FeedPage /\ UNCHANGED <<eventRegime, hour, happened, feed, handled>>
  BY DEF EventInv, EventTyped, PollEvents
<1>2. FeedPage \subseteq feed /\ FeedPage' = FeedPage /\ (\A x : Tracked(x)' <=> Tracked(x))
      /\ \A x : IsDone(x)' <=> IsDone(x)
  BY <1>1 DEF FeedPage, Tracked, IsDone
<1>3. \A i \in DOMAIN handled : ~(first' < i)
  BY <1>1
<1>4. HandledOnce' /\ HandledInOrder'
  BY <1>1, <1>3 DEF EventInv, HandledOnce, HandledInOrder
<1>5. CASE FeedPage = {}
  <2>1. UNCHANGED <<seen, queue, history>> /\ DOMAIN queue = {} /\ DOMAIN queue' = {}
    BY <1>1, <1>5 DEF PollEvents
  <2>2. EventTyped'
    BY <1>1, <2>1 DEF EventInv, EventTyped
  <2>3. (\A x : IsSeen(x)' <=> IsSeen(x)) /\ (\A x : Waits(x)' <=> Waits(x))
    BY <2>1 DEF IsSeen, Waits
  <2>4. SeenIsShown'
    BY <1>1, <1>2, <1>5, <2>1, <2>3 DEF EventInv, SeenIsShown
  <2>5. NotShownAgain' /\ InTurn'
    BY <1>1, <1>2, <2>1, <2>3 DEF EventInv, NotShownAgain, InTurn
  <2> QED
    BY <1>4, <2>2, <2>4, <2>5 DEF EventInv
<1>6. CASE FeedPage # {}
  <2>1. PICK fresh : fresh = {e \in Fresh(FeedPage) : Tracked(e)}
    OBVIOUS
  <2>2. seen' = NowSeen(FeedPage) /\ queue' = Ascending(fresh)
    BY <1>6, <2>1 DEF PollEvents, OldestFirst
  <2>3. history' = IF seen = {} THEN FeedPage \ WithinWindow(FeedPage) ELSE history
    BY <1>6 DEF PollEvents
  <2>4. \A e \in fresh : e \in FeedPage /\ Tracked(e) /\ ~IsSeen(e)
    BY <2>1 DEF Fresh, WithinWindow, IsSeen
  <2>5. \A e \in FeedPage : Tracked(e) /\ ~IsSeen(e) => e \in fresh \/ (seen = {} /\ e \in history')
    BY <2>1, <2>3 DEF Fresh, IsSeen
  <2>6. IsFiniteSet(fresh) /\ fresh \subseteq Int
    <3>1. fresh \subseteq feed
      BY <1>2, <2>4
    <3>2. \A x \in fresh : x \in Int
      BY <1>1, <3>1
    <3>3. IsFiniteSet(fresh)
      BY <1>1, <3>1, FS_Subset, Zenon
    <3> QED
      BY <3>2, <3>3
  <2>7. /\ queue' \in Seq(fresh) /\ DOMAIN queue' = 1 .. Len(queue')
        /\ \A e \in fresh : \E j \in DOMAIN queue' : queue'[j] = e
        /\ \A j \in DOMAIN queue' : queue'[j] \in fresh
        /\ \A i, j \in DOMAIN queue' : i < j => queue'[i] < queue'[j]
    <3>1. PICK line : line = Ascending(fresh)
      OBVIOUS
    <3>2. /\ line \in Seq(fresh) /\ DOMAIN line = 1 .. Len(line)
          /\ \A e \in fresh : \E j \in DOMAIN line : line[j] = e
          /\ \A j \in DOMAIN line : line[j] \in fresh
          /\ \A i, j \in DOMAIN line : i < j => line[i] < line[j]
      BY <2>6, <3>1, AscendingOrders, Zenon
    <3> QED
      BY <2>2, <3>1, <3>2
  <2>8. queue' \in Seq(Nat)
    <3>1. \A e \in fresh : e \in Nat
      BY <1>1, <1>2, <2>4
    <3> QED
      BY <2>7, <3>1
  <2>9. EventTyped'
    BY <1>1, <2>8 DEF EventTyped
  <2>10. seen' = {FeedPage} \/ seen' = {FeedPage \cup UNION seen}
    BY <2>2 DEF NowSeen
  <2>11. \A e \in FeedPage : \E known \in seen' : e \in known
    <3>1. PICK all : seen' = {all} /\ FeedPage \subseteq all
      BY <2>10, Zenon
    <3> QED
      BY <3>1
  <2>12. \A e \in UNION seen' : e \in FeedPage \/ e \in UNION seen
    BY <2>10
  <2>13. \A e : IsSeen(e) => e \in feed
    BY DEF EventInv, SeenIsShown, IsSeen
  <2>14. SeenIsShown'
    <3>1. \A e \in UNION seen' : e \in feed'
      BY <1>1, <1>2, <2>12 DEF EventInv, SeenIsShown
    <3>2. ASSUME NEW e \in UNION seen', Tracked(e) PROVE Waits(e)' \/ IsDone(e)' \/ e \in history'
      <4>1. CASE IsSeen(e)
        <5>1. e \in UNION seen /\ seen # {} /\ ~Waits(e)
          BY <1>1, <4>1 DEF IsSeen, Waits
        <5>2. IsDone(e) \/ e \in history
          BY <3>2, <5>1 DEF EventInv, SeenIsShown
        <5> QED
          BY <1>2, <2>3, <5>1, <5>2
      <4>2. CASE ~IsSeen(e)
        <5>1. e \in FeedPage
          BY <2>12, <4>2 DEF IsSeen
        <5>2. e \in fresh \/ e \in history'
          BY <2>5, <3>2, <4>2, <5>1
        <5> QED
          BY <2>7, <5>2 DEF Waits
      <4> QED
        BY <4>1, <4>2
    <3> QED
      BY <1>1, <1>2, <2>11, <3>1, <3>2 DEF SeenIsShown, IsSeen
  <2>15. NotShownAgain'
    <3>1. \A j \in DOMAIN queue' : \E known \in seen' : queue'[j] \in known
      BY <2>4, <2>7, <2>11
    <3>2. \A i \in DOMAIN handled : handled[i] \in FeedPage \/ handled[i] \in feed \ FeedPage
      BY <2>13 DEF EventInv, NotShownAgain
    <3>3. \A i \in DOMAIN handled' :
            (\E known \in seen' : handled'[i] \in known) \/ handled'[i] \in feed' \ FeedPage'
      BY <1>1, <1>2, <2>11, <3>2
    <3> QED
      BY <3>1, <3>3 DEF NotShownAgain, IsSeen
  <2>16. InTurn'
    <3>1. \A i \in DOMAIN handled, j \in DOMAIN queue' : handled[i] # queue'[j]
      BY <2>4, <2>7 DEF EventInv, NotShownAgain
    <3> QED
      BY <1>1, <1>3, <2>7, <3>1 DEF InTurn
  <2> QED
    BY <1>4, <2>9, <2>14, <2>15, <2>16 DEF EventInv
<1> QED
  BY <1>5, <1>6

LEMMA AnewKeeps == ASSUME EventInv, StartsAnew PROVE EventInv'
<1>1. /\ seen' = {} /\ queue' = <<>> /\ handled' = <<>> /\ first' = 0 /\ page' = {}
      /\ UNCHANGED <<eventRegime, hour, happened, feed>>
  BY DEF StartsAnew
<1>2. DOMAIN queue' = {} /\ DOMAIN handled' = {} /\ Len(handled') = 0
  BY <1>1
<1>3. EventTyped'
  BY <1>1, <1>2 DEF EventInv, EventTyped
<1> QED
  BY <1>1, <1>2, <1>3
     DEF EventInv, SeenIsShown, NotShownAgain, InTurn, HandledOnce, HandledInOrder, IsSeen

LEMMA EventKept == ASSUME EventInv, EventNext \/ UNCHANGED eventVars PROVE EventInv'
<1>1. CASE UNCHANGED eventVars
  <2>1. UNCHANGED <<eventRegime, hour, happened, feed, seen, queue, handled, first, page, history>>
    BY <1>1 DEF eventVars
  <2>2. IsFiniteSet(feed') /\ feed' \subseteq Nat /\ happened' \subseteq Nat /\ hour' \in Nat
    BY <2>1 DEF EventInv, EventTyped
  <2> QED
    BY <2>1, <2>2, FeedGrows
<1>2. CASE EventNext
  BY <1>2, GitHubKeeps, PollsKeep, DispatchKeeps, AnewKeeps DEF EventNext
<1> QED
  BY <1>1, <1>2

LEMMA EventSays == ASSUME EventInv PROVE EventsArrive
<1>1. ASSUME queue = <<>>, NEW e \in page, Tracked(e) PROVE e \in Range(handled) \cup history
  <2>1. IsSeen(e) /\ ~Waits(e)
    BY <1>1 DEF EventInv, SeenIsShown, Waits
  <2>2. IsDone(e) \/ e \in history
    BY <1>1, <2>1 DEF EventInv, SeenIsShown, IsSeen
  <2> QED
    BY <2>2 DEF IsDone, Range
<1> QED
  BY <1>1 DEF EventInv, EventsArrive, NothingSlips

-----------------------------------------------------------------------------
(* Commits.                                                                *)

Mentions == Nat \X commitRegime.issues
Sweeps ==
  [at : {"idle", "read", "comment"}, left : SUBSET Branches, found : Seq(Nat),
   todo : SUBSET Mentions, rows : SUBSET Mentions]
CommitTyped ==
  /\ commitRegime \in CommitRegimes /\ tracked \subseteq Branches
  /\ branches \in [Branches -> SUBSET Nat]
  /\ \A b \in Branches : branches[b] \subseteq commitRegime.pushes[b]
  /\ sweep \in Sweeps /\ (sweep.at # "comment" => sweep.rows = {})
  /\ posted \in Seq(Mentions) /\ owed \in [Branches -> SUBSET Mentions]

(* A comment is on record, or nobody could write that it is; and what is on    *)
(* record was posted.                                                          *)
PostedIsKnown ==
  /\ \A i \in DOMAIN posted : posted[i] \in synced \cup sweep.rows \cup unrecorded
  /\ \A p \in synced \cup sweep.rows : p \in Range(posted)

(* What a processed commit says is told, is given up, or is at hand.           *)
AtHand(p) == \/ sweep.at = "read" /\ p[1] \in Range(sweep.found)
             \/ sweep.at = "comment" /\ p \in sweep.todo
ProcessedIsTold == \A p \in PairsOf(processed) : p \in Range(posted) \cup waived \/ AtHand(p)

(* What a page showed when the poll began, and still does, is processed, or    *)
(* its branch is still to be read.                                             *)
OwedIsRead ==
  \A b \in Branches :
    /\ owed[b] \subseteq PairsOf(branches[b])
    /\ \A p \in owed[b] : p[1] \in BranchPage(b) =>
         p[1] \in processed \/ (sweep.at = "read" /\ b \in sweep.left)

CommitInv == CommitTyped /\ PostedIsKnown /\ CommentedOnce /\ ProcessedIsTold /\ OwedIsRead

(* A pair of a set of commits is one of any other that has its commit. *)
LEMMA PairsFollow ==
  ASSUME NEW C, NEW D
  PROVE  /\ \A p \in PairsOf(C) : p[1] \in C /\ (p[1] \in D => p \in PairsOf(D))
         /\ C \subseteq Nat => PairsOf(C) \subseteq Mentions
         /\ C = {} => PairsOf(C) = {}
  BY DEF PairsOf, Mentions

LEMMA CommitStarts == CommitInit => CommitInv
<1> SUFFICES ASSUME CommitInit PROVE CommitInv
  OBVIOUS
<1>1. /\ commitRegime \in CommitRegimes /\ branches = [b \in Branches |-> {}] /\ tracked = {"main"}
      /\ processed = {} /\ sweep = NoSweep /\ synced = {} /\ posted = <<>>
      /\ owed = [b \in Branches |-> {}]
  BY DEF CommitInit, NoneOwed
<1>2. /\ DOMAIN posted = {} /\ PairsOf(processed) = {} /\ sweep.rows = {} /\ "main" \in Branches
  BY <1>1, CommitAssumption, PairsFollow DEF NoSweep, Branches
<1>3. sweep \in Sweeps
  BY <1>1 DEF NoSweep, Sweeps
<1>4. CommitTyped
  BY <1>1, <1>2, <1>3 DEF CommitTyped
<1>5. PostedIsKnown /\ CommentedOnce /\ ProcessedIsTold
  BY <1>1, <1>2 DEF PostedIsKnown, CommentedOnce, ProcessedIsTold
<1>6. OwedIsRead
  BY <1>1 DEF OwedIsRead
<1> QED
  BY <1>4, <1>5, <1>6 DEF CommitInv

(* What newer commits pushed off the page of a branch does not come back. *)
LEMMA PageOnlyLoses ==
  ASSUME CommitTyped, NEW b \in Branches, branches[b] \subseteq branches'[b],
         branches'[b] \subseteq commitRegime.pushes[b], UNCHANGED <<commitRegime, since>>
  PROVE  \A c \in branches[b] : c \in BranchPage(b)' => c \in BranchPage(b)
<1> SUFFICES ASSUME NEW c \in branches[b], c \in BranchPage(b)' PROVE c \in BranchPage(b)
  OBVIOUS
<1> DEFINE newer == {d \in branches[b] : d > c}  newest == {d \in branches'[b] : d > c}
<1>1. newer \subseteq newest /\ newest \subseteq commitRegime.pushes[b] /\ commitRegime.page \in Nat
      /\ IsFiniteSet(commitRegime.pushes[b])
  BY CommitAssumption DEF CommitTyped, Branches
<1>2. IsFiniteSet(newest)
  BY <1>1, FS_Subset
<1>3. Cardinality(newer) <= Cardinality(newest) /\ IsFiniteSet(newer)
  BY <1>1, <1>2, FS_Subset
<1>4. Cardinality(newer) \in Nat /\ Cardinality(newest) \in Nat
  BY <1>2, <1>3, FS_CardinalityType
<1>5. Cardinality(newest) < commitRegime.page /\ c >= since
  BY DEF BranchPage
<1>6. Cardinality(newer) < commitRegime.page
  BY <1>1, <1>3, <1>4, <1>5
<1> QED
  BY <1>5, <1>6 DEF BranchPage

(* GitHub and the registry. *)
LEMMA RepositoryKeeps ==
  ASSUME CommitInv,
         \/ \E b \in Branches : Push(b) \/ TracksBranch(b)
         \/ \E i \in commitRegime.issues : GetsCard(i)
         \/ UNCHANGED commitVars
  PROVE  CommitInv'
<1>1. /\ UNCHANGED <<commitRegime, since, processed, sweep, synced, posted, owed, waived, unrecorded>>
      /\ Branches' = Branches
  BY DEF Push, TracksBranch, GetsCard, CardComments, commitVars, Branches
<1>2. tracked' \subseteq Branches
  BY <1>1 DEF CommitInv, CommitTyped, Push, TracksBranch, GetsCard, commitVars
<1>3. /\ branches' \in [Branches -> SUBSET Nat]
      /\ \A b \in Branches : branches[b] \subseteq branches'[b] /\ branches'[b] \subseteq commitRegime.pushes[b]
  <2>1. branches \in [Branches -> SUBSET Nat] /\ \A b \in Branches : branches[b] \subseteq commitRegime.pushes[b]
    BY DEF CommitInv, CommitTyped
  <2>2. CASE branches' = branches
    BY <2>1, <2>2
  <2>3. CASE branches' # branches
    <3>1. PICK b \in Branches : Push(b)
      BY <2>3 DEF TracksBranch, GetsCard, commitVars
    <3>2. PICK more : more \subseteq commitRegime.pushes[b] /\ branches' = [branches EXCEPT ![b] = @ \cup more]
      BY <3>1 DEF Push
    <3>3. commitRegime.pushes[b] \subseteq Nat
      BY CommitAssumption DEF CommitInv, CommitTyped, Branches
    <3> QED
      BY <2>1, <3>2, <3>3
  <2> QED
    BY <2>2, <2>3
<1>4. CommitTyped'
  BY <1>1, <1>2, <1>3 DEF CommitInv, CommitTyped, Sweeps, Mentions
<1>5. PostedIsKnown' /\ CommentedOnce'
  BY <1>1 DEF CommitInv, PostedIsKnown, CommentedOnce
<1>6. ProcessedIsTold'
  BY <1>1 DEF CommitInv, ProcessedIsTold, AtHand, PairsOf
<1>7. OwedIsRead'
  <2> SUFFICES ASSUME NEW b \in Branches
               PROVE  /\ owed[b] \subseteq PairsOf(branches[b])'
                      /\ \A p \in owed[b] : p[1] \in BranchPage(b)' =>
                           p[1] \in processed \/ (sweep.at = "read" /\ b \in sweep.left)
    BY <1>1 DEF OwedIsRead
  <2>1. /\ owed[b] \subseteq PairsOf(branches[b])
        /\ \A p \in owed[b] : p[1] \in BranchPage(b) =>
             p[1] \in processed \/ (sweep.at = "read" /\ b \in sweep.left)
    BY DEF CommitInv, OwedIsRead
  <2>2. \A c \in branches[b] : c \in BranchPage(b)' => c \in BranchPage(b)
    BY <1>1, <1>3, PageOnlyLoses DEF CommitInv
  <2>3. \A p \in owed[b] : p[1] \in branches[b]
    BY <2>1, PairsFollow
  <2>4. PairsOf(branches[b]) \subseteq PairsOf(branches[b])'
    BY <1>1, <1>3 DEF PairsOf
  <2> QED
    BY <2>1, <2>2, <2>3, <2>4
<1> QED
  BY <1>4, <1>5, <1>6, <1>7 DEF CommitInv

LEMMA CommitFacts ==
  ASSUME CommitInv
  PROVE  /\ commitRegime \in CommitRegimes /\ tracked \subseteq Branches
         /\ branches \in [Branches -> SUBSET Nat]
         /\ \A b \in Branches : branches[b] \subseteq commitRegime.pushes[b]
         /\ \A b \in Branches : IsFiniteSet(commitRegime.pushes[b])
         /\ sweep \in Sweeps /\ (sweep.at # "comment" => sweep.rows = {})
         /\ posted \in Seq(Mentions) /\ owed \in [Branches -> SUBSET Mentions]
         /\ NoSweep \in Sweeps /\ NoneOwed \in [Branches -> SUBSET Mentions]
  BY CommitAssumption DEF CommitInv, CommitTyped, NoSweep, NoneOwed, Sweeps, Branches

LEMMA CommitSteady ==
  ASSUME UNCHANGED commitRegime
  PROVE  /\ Branches' = Branches /\ Sweeps' = Sweeps /\ Mentions' = Mentions
         /\ \A C : PairsOf(C)' = PairsOf(C)
  BY DEF Branches, Sweeps, Mentions, PairsOf

LEMMA DescendingHas ==
  ASSUME NEW S, IsFiniteSet(S), S \subseteq Nat
  PROVE  Descending(S) \in Seq(S) /\ \A e \in S : \E i \in DOMAIN Descending(S) : Descending(S)[i] = e
<1>1. PICK at : at = [e \in S |-> e]
  OBVIOUS
<1>2. \A e \in S : at[e] = e
  BY <1>1
<1>3. \A e \in S : at[e] \in Int
  BY <1>2
<1>4. \A d, e \in S : at[d] = at[e] => d = e
  BY <1>2
<1>5. PICK s : s = LatestFirst(S, at)
  OBVIOUS
<1>6. s = Descending(S)
  BY <1>1, <1>5 DEF Descending
<1>7. s \in Seq(S) /\ \A e \in S : \E i \in DOMAIN s : s[i] = e
  BY <1>3, <1>4, <1>5, LatestOrders, Zenon
<1> QED
  BY <1>6, <1>7

LEMMA ConcatHas ==
  ASSUME NEW T, NEW s \in Seq(T), NEW t \in Seq(T)
  PROVE  \A c : c \in Range(s) \/ c \in Range(t) => c \in Range(s \o t)
<1>1. /\ Len(s) \in Nat /\ Len(t) \in Nat /\ DOMAIN s = 1 .. Len(s) /\ DOMAIN t = 1 .. Len(t)
      /\ Len(s \o t) = Len(s) + Len(t) /\ s \o t \in Seq(T)
      /\ \A i \in 1 .. Len(s) + Len(t) :
           (s \o t)[i] = IF i <= Len(s) THEN s[i] ELSE t[i - Len(s)]
  BY ConcatProperties
<1>2. DOMAIN (s \o t) = 1 .. Len(s) + Len(t)
  BY <1>1
<1>3. ASSUME NEW i \in DOMAIN s PROVE i \in DOMAIN (s \o t) /\ (s \o t)[i] = s[i]
  BY <1>1, <1>2
<1>4. ASSUME NEW i \in DOMAIN t PROVE \E l \in DOMAIN (s \o t) : (s \o t)[l] = t[i]
  <2>1. PICK l : l = i + Len(s)
    OBVIOUS
  <2>2. l \in 1 .. Len(s) + Len(t) /\ ~(l <= Len(s)) /\ l - Len(s) = i
    BY <1>1, <2>1
  <2> QED
    BY <1>1, <1>2, <2>2
<1> QED
  BY <1>3, <1>4 DEF Range

LEMMA BeginKeeps == ASSUME CommitInv, BeginCommits PROVE CommitInv'
<1>1. /\ UNCHANGED <<commitRegime, branches, tracked, since, processed, synced, posted, unrecorded, waived>>
      /\ sweep.at = "idle" /\ sweep' = [NoSweep EXCEPT !.at = "read", !.left = tracked]
      /\ owed' = [b \in Branches |->
                    IF b \in tracked THEN {p \in PairsOf(BranchPage(b)) : p[2] \in mapped} ELSE {}]
  BY DEF BeginCommits, Repository, CardComments, BranchesToRead
<1>2. Branches' = Branches /\ Sweeps' = Sweeps /\ Mentions' = Mentions
  BY <1>1, CommitSteady
<1>3. /\ sweep' \in Sweeps /\ sweep'.at = "read" /\ sweep'.left = tracked /\ sweep'.found = <<>>
      /\ sweep'.todo = {} /\ sweep'.rows = {} /\ sweep.rows = {}
  BY <1>1, CommitFacts DEF NoSweep, Sweeps
<1>4. \A b \in Branches : BranchPage(b) \subseteq branches[b] /\ branches[b] \subseteq Nat
  BY CommitFacts DEF BranchPage
<1>5. \A b \in Branches : owed'[b] \subseteq PairsOf(BranchPage(b)) /\ (b \notin tracked => owed'[b] = {})
  BY <1>1
<1>6. CommitTyped'
  <2>1. \A b \in Branches : owed'[b] \subseteq Mentions
    BY <1>4, <1>5, PairsFollow
  <2>2. owed' \in [Branches -> SUBSET Mentions]
    BY <1>1, <2>1
  <2> QED
    BY <1>1, <1>2, <1>3, <2>2, CommitFacts DEF CommitTyped
<1>7. PostedIsKnown' /\ CommentedOnce'
  BY <1>1, <1>3 DEF CommitInv, PostedIsKnown, CommentedOnce
<1>8. ProcessedIsTold'
  BY <1>1 DEF CommitInv, ProcessedIsTold, AtHand, PairsOf
<1>9. OwedIsRead'
  <2> SUFFICES ASSUME NEW b \in Branches
               PROVE  /\ owed'[b] \subseteq PairsOf(branches[b])'
                      /\ \A p \in owed'[b] : p[1] \in BranchPage(b)' =>
                           p[1] \in processed' \/ (sweep'.at = "read" /\ b \in sweep'.left)
    BY <1>1, <1>2 DEF OwedIsRead
  <2>1. PairsOf(BranchPage(b)) \subseteq PairsOf(branches[b])'
    BY <1>1, <1>4 DEF PairsOf
  <2> QED
    BY <1>3, <1>5, <2>1
<1> QED
  BY <1>6, <1>7, <1>8, <1>9 DEF CommitInv

(* The pages and what is owed of them, when GitHub stands still. *)
LEMMA OwedStays ==
  ASSUME OwedIsRead, UNCHANGED <<commitRegime, branches, since>>, processed \subseteq processed',
         \A b \in Branches :
           \/ owed'[b] = {}
           \/ /\ owed'[b] = owed[b]
              /\ b \in sweep.left /\ sweep.at = "read" =>
                   BranchPage(b) \subseteq processed' \/ (b \in sweep'.left /\ sweep'.at = "read")
  PROVE  OwedIsRead'
<1>1. Branches' = Branches /\ (\A b \in Branches : BranchPage(b)' = BranchPage(b))
      /\ \A b \in Branches : PairsOf(branches[b])' = PairsOf(branches[b])
  BY DEF BranchPage, Branches, PairsOf
<1> SUFFICES ASSUME NEW b \in Branches
             PROVE  /\ owed'[b] \subseteq PairsOf(branches[b])
                    /\ \A p \in owed'[b] : p[1] \in BranchPage(b) =>
                         p[1] \in processed' \/ (sweep'.at = "read" /\ b \in sweep'.left)
  BY <1>1 DEF OwedIsRead
<1>2. /\ owed[b] \subseteq PairsOf(branches[b])
      /\ \A p \in owed[b] : p[1] \in BranchPage(b) =>
           p[1] \in processed \/ (sweep.at = "read" /\ b \in sweep.left)
  BY DEF OwedIsRead
<1> QED
  BY <1>2

LEMMA ReadKeeps == ASSUME CommitInv, ReadBranch PROVE CommitInv'
<1>1. PICK b : b = IF "main" \in sweep.left THEN "main" ELSE CHOOSE x \in sweep.left : TRUE
  OBVIOUS
<1>2. PICK new, onward :
        new = Descending(BranchPage(b) \ processed) /\ onward = [sweep EXCEPT !.left = @ \ {b}]
  OBVIOUS
<1>3. /\ UNCHANGED <<commitRegime, branches, tracked, since, synced, posted, unrecorded>>
      /\ sweep.at = "read" /\ b \in sweep.left /\ b \in Branches /\ sweep.rows = {}
  BY <1>1, CommitFacts DEF ReadBranch, Repository, CardComments, Sweeps
<1>4. \/ /\ processed' = processed \cup BranchPage(b)
         /\ sweep' = [onward EXCEPT !.found = @ \o new]
         /\ UNCHANGED <<owed, waived>>
      \/ sweep' = onward /\ owed' = [owed EXCEPT ![b] = {}] /\ UNCHANGED <<processed, waived>>
      \/ /\ sweep' = NoSweep /\ owed' = NoneOwed /\ UNCHANGED processed
         /\ waived' = waived \cup PairsOf(Range(sweep.found))
  BY <1>1, <1>2 DEF ReadBranch
<1>5. Branches' = Branches /\ Sweeps' = Sweeps /\ Mentions' = Mentions
  BY <1>3, CommitSteady
<1>6. /\ onward \in Sweeps /\ onward.at = "read" /\ onward.left = sweep.left \ {b}
      /\ onward.found = sweep.found /\ onward.todo = sweep.todo /\ onward.rows = {}
      /\ sweep.found \in Seq(Nat) /\ sweep.left \subseteq Branches
  BY <1>2, <1>3, CommitFacts DEF Sweeps
<1>7. new \in Seq(Nat) /\ \A c \in BranchPage(b) \ processed : c \in Range(new)
  <2>1. PICK S : S = BranchPage(b) \ processed
    OBVIOUS
  <2>2. S \subseteq Nat /\ IsFiniteSet(S)
    <3>1. S \subseteq branches[b] /\ branches[b] \subseteq Nat /\ branches[b] \subseteq commitRegime.pushes[b]
      BY <1>3, <2>1, CommitFacts DEF BranchPage
    <3>2. S \subseteq Nat /\ S \subseteq commitRegime.pushes[b] /\ IsFiniteSet(commitRegime.pushes[b])
      BY <1>3, <3>1, CommitFacts
    <3> QED
      BY <3>2, FS_Subset
  <2>3. new \in Seq(S) /\ \A c \in S : \E i \in DOMAIN new : new[i] = c
    BY <1>2, <2>1, <2>2, DescendingHas
  <2>4. new \in Seq(Nat)
    BY <2>2, <2>3, SeqWithin
  <2> QED
    BY <2>1, <2>3, <2>4 DEF Range
<1>8. CASE processed' = processed \cup BranchPage(b) /\ sweep' = [onward EXCEPT !.found = @ \o new]
           /\ UNCHANGED <<owed, waived>>
  <2>1. /\ sweep' \in Sweeps /\ sweep'.at = "read" /\ sweep'.left = sweep.left \ {b}
        /\ sweep'.found = sweep.found \o new /\ sweep'.rows = {}
    <3>1. sweep.found \o new \in Seq(Nat)
      BY <1>6, <1>7, ConcatProperties
    <3> QED
      BY <1>6, <1>8, <3>1 DEF Sweeps
  <2>2. \A c : c \in Range(sweep.found) \/ c \in Range(new) => c \in Range(sweep'.found)
    BY <1>6, <1>7, <2>1, ConcatHas
  <2>3. CommitTyped'
    BY <1>3, <1>5, <1>8, <2>1, CommitFacts DEF CommitTyped
  <2>4. PostedIsKnown' /\ CommentedOnce'
    BY <1>3, <2>1 DEF CommitInv, PostedIsKnown, CommentedOnce
  <2>5. ProcessedIsTold'
    <3> SUFFICES ASSUME NEW p \in PairsOf(processed)'
                 PROVE  p \in Range(posted) \cup waived \/ p[1] \in Range(sweep'.found)
      BY <1>3, <1>8, <2>1 DEF ProcessedIsTold, AtHand
    <3>1. p \in PairsOf(processed \cup BranchPage(b))
      BY <1>3, <1>8 DEF PairsOf
    <3>2. p[1] \in processed \cup BranchPage(b) /\ (p[1] \in processed => p \in PairsOf(processed))
      BY <3>1, PairsFollow
    <3>3. CASE p[1] \in processed
      BY <1>3, <2>2, <3>2, <3>3 DEF CommitInv, ProcessedIsTold, AtHand
    <3>4. CASE p[1] \notin processed
      BY <1>7, <2>2, <3>2, <3>4
    <3> QED
      BY <3>3, <3>4
  <2>6. OwedIsRead'
    BY <1>3, <1>8, <2>1, OwedStays DEF CommitInv
  <2> QED
    BY <2>3, <2>4, <2>5, <2>6 DEF CommitInv
<1>9. CASE sweep' = onward /\ owed' = [owed EXCEPT ![b] = {}] /\ UNCHANGED <<processed, waived>>
  <2>1. owed' \in [Branches -> SUBSET Mentions]
    BY <1>3, <1>9, CommitFacts
  <2>2. CommitTyped'
    BY <1>3, <1>5, <1>6, <1>9, <2>1, CommitFacts DEF CommitTyped
  <2>3. PostedIsKnown' /\ CommentedOnce'
    BY <1>3, <1>6, <1>9 DEF CommitInv, PostedIsKnown, CommentedOnce
  <2>4. ProcessedIsTold'
    BY <1>3, <1>6, <1>9 DEF CommitInv, ProcessedIsTold, AtHand, PairsOf
  <2>5. \A x \in Branches : owed'[x] = IF x = b THEN {} ELSE owed[x]
    BY <1>9, CommitFacts
  <2>6. OwedIsRead'
    BY <1>3, <1>6, <1>9, <2>5, OwedStays DEF CommitInv
  <2> QED
    BY <2>2, <2>3, <2>4, <2>6 DEF CommitInv
<1>10. CASE sweep' = NoSweep /\ owed' = NoneOwed /\ UNCHANGED processed
            /\ waived' = waived \cup PairsOf(Range(sweep.found))
  <2>1. sweep'.rows = {} /\ sweep'.at = "idle" /\ \A x \in Branches : owed'[x] = {}
    BY <1>10 DEF NoSweep, NoneOwed
  <2>2. CommitTyped'
    BY <1>3, <1>5, <1>10, <2>1, CommitFacts DEF CommitTyped
  <2>3. PostedIsKnown' /\ CommentedOnce'
    BY <1>3, <2>1 DEF CommitInv, PostedIsKnown, CommentedOnce
  <2>4. ProcessedIsTold'
    <3> SUFFICES ASSUME NEW p \in PairsOf(processed) PROVE p \in Range(posted) \cup waived'
      BY <1>3, <1>10, CommitSteady DEF ProcessedIsTold, PairsOf
    <3> QED
      BY <1>3, <1>10, PairsFollow DEF CommitInv, ProcessedIsTold, AtHand
  <2>5. OwedIsRead'
    BY <1>3, <1>10, <2>1, OwedStays DEF CommitInv
  <2> QED
    BY <2>2, <2>3, <2>4, <2>5 DEF CommitInv
<1> QED
  BY <1>4, <1>8, <1>9, <1>10

(* What is found is kept or cut, and nothing is lost between. *)
LEMMA CutParts ==
  ASSUME NEW T, NEW s \in Seq(T), NEW k \in 0 .. Len(s)
  PROVE  \A c \in Range(s) : c \in Range(SubSeq(s, 1, k)) \/ c \in Range(SubSeq(s, k + 1, Len(s)))
<1>1. Len(s) \in Nat /\ DOMAIN s = 1 .. Len(s)
  OBVIOUS
<1>2. SubSeq(s, 1, k) = [i \in 1 .. k |-> s[i]]
  BY <1>1, SubSeqProperties
<1>3. /\ DOMAIN SubSeq(s, k + 1, Len(s)) = 1 .. Len(s) - k
      /\ \A i \in 1 .. Len(s) - k : SubSeq(s, k + 1, Len(s))[i] = s[k + i]
  <2>1. PICK m, n : m = k + 1 /\ n = Len(s)
    OBVIOUS
  <2>2. /\ Len(SubSeq(s, m, n)) = n - m + 1
        /\ \A i \in 1 .. n - m + 1 : SubSeq(s, m, n)[i] = s[m + i - 1]
        /\ DOMAIN SubSeq(s, m, n) = 1 .. n - m + 1
    BY <1>1, <2>1
  <2>3. n - m + 1 = Len(s) - k /\ \A i \in 1 .. Len(s) - k : m + i - 1 = k + i
    BY <1>1, <2>1
  <2> QED
    BY <2>1, <2>2, <2>3
<1>4. ASSUME NEW j \in DOMAIN s
      PROVE  \/ \E i \in DOMAIN SubSeq(s, 1, k) : SubSeq(s, 1, k)[i] = s[j]
             \/ \E i \in DOMAIN SubSeq(s, k + 1, Len(s)) : SubSeq(s, k + 1, Len(s))[i] = s[j]
  <2>1. CASE j <= k
    <3>1. j \in 1 .. k
      BY <1>1, <2>1
    <3> QED
      BY <1>2, <3>1
  <2>2. CASE ~(j <= k)
    <3>1. PICK i : i = j - k
      OBVIOUS
    <3>2. i \in 1 .. Len(s) - k /\ k + i = j
      BY <1>1, <2>2, <3>1
    <3> QED
      BY <1>3, <3>2
  <2> QED
    BY <2>1, <2>2
<1> QED
  BY <1>4 DEF Range

LEMMA CutKeeps == ASSUME CommitInv, CutCommits PROVE CommitInv'
<1>1. PICK n, kept : n = Len(sweep.found) /\ kept = IF n < commitRegime.cut THEN n ELSE commitRegime.cut
  OBVIOUS
<1>2. PICK todo, cut :
        /\ todo = PairsOf(Range(SubSeq(sweep.found, 1, kept)))
        /\ cut = PairsOf(Range(SubSeq(sweep.found, kept + 1, n)))
  OBVIOUS
<1>3. /\ UNCHANGED <<commitRegime, branches, tracked, since, processed, synced, posted, unrecorded, owed>>
      /\ sweep.at = "read" /\ sweep.left = {} /\ sweep.rows = {} /\ waived' = waived \cup cut
      /\ sweep' = IF n = 0 THEN NoSweep ELSE [sweep EXCEPT !.at = "comment", !.todo = todo]
  BY <1>1, <1>2, CommitFacts DEF CutCommits, Repository, CardComments
<1>4. sweep.found \in Seq(Nat) /\ sweep \in Sweeps
  BY CommitFacts DEF Sweeps
<1>5. n \in Nat /\ kept \in 0 .. n
  <2>1. commitRegime.cut \in Nat
    BY CommitFacts, CommitAssumption
  <2>2. n \in Nat
    BY <1>1, <1>4
  <2> QED
    BY <1>1, <2>1, <2>2
<1>6. \A c \in Range(sweep.found) :
        c \in Range(SubSeq(sweep.found, 1, kept)) \/ c \in Range(SubSeq(sweep.found, kept + 1, n))
  BY <1>1, <1>4, <1>5, CutParts
<1>7. todo \subseteq Mentions
  <2>1. SubSeq(sweep.found, 1, kept) \in Seq(Nat)
    BY <1>1, <1>4, <1>5, SubSeqProperties
  <2>2. Range(SubSeq(sweep.found, 1, kept)) \subseteq Nat
    BY <2>1 DEF Range
  <2> QED
    BY <1>2, <2>2, PairsFollow
<1>8. /\ sweep' \in Sweeps /\ sweep'.rows = {} /\ sweep'.at \in {"idle", "comment"}
      /\ n # 0 => sweep'.at = "comment" /\ sweep'.todo = todo
  BY <1>3, <1>4, <1>7, CommitFacts DEF Sweeps, NoSweep
<1>9. Branches' = Branches /\ Sweeps' = Sweeps /\ Mentions' = Mentions
  BY <1>3, CommitSteady
<1>10. CommitTyped'
  BY <1>3, <1>8, <1>9, CommitFacts DEF CommitTyped
<1>11. PostedIsKnown' /\ CommentedOnce'
  BY <1>3, <1>8 DEF CommitInv, PostedIsKnown, CommentedOnce
<1>12. ProcessedIsTold'
  <2> SUFFICES ASSUME NEW p \in PairsOf(processed)
               PROVE  p \in Range(posted) \cup waived' \/ (sweep'.at = "comment" /\ p \in sweep'.todo)
    BY <1>3 DEF ProcessedIsTold, AtHand, PairsOf
  <2>1. CASE p[1] \notin Range(sweep.found)
    BY <1>3, <2>1 DEF CommitInv, ProcessedIsTold, AtHand
  <2>2. CASE p[1] \in Range(sweep.found)
    <3>1. n # 0
      <4>1. \E i \in DOMAIN sweep.found : sweep.found[i] = p[1]
        BY <2>2 DEF Range
      <4> QED
        BY <1>1, <1>4, <4>1
    <3>2. p \in todo \/ p \in cut
      BY <1>2, <1>6, <2>2, PairsFollow
    <3> QED
      BY <1>3, <1>8, <3>1, <3>2
  <2> QED
    BY <2>1, <2>2
<1>13. OwedIsRead'
  BY <1>3, OwedStays DEF CommitInv
<1> QED
  BY <1>10, <1>11, <1>12, <1>13 DEF CommitInv

(* One comment: there already, for nobody, posted, refused, or posted unrecorded. *)
LEMMA CommentKeeps == ASSUME CommitInv, CommentOne PROVE CommitInv'
<1>1. /\ UNCHANGED <<commitRegime, branches, tracked, since, processed, synced, owed>>
      /\ sweep.at = "comment" /\ sweep \in Sweeps /\ sweep.todo \subseteq Mentions
      /\ sweep.rows \subseteq Mentions
  BY CommitFacts DEF CommentOne, Repository, Sweeps
<1>2. PICK p \in sweep.todo :
        \/ /\ p[2] \notin mapped \/ AlreadySynced(p)
           /\ sweep' = [sweep EXCEPT !.todo = @ \ {p}]
           /\ waived' = IF p[2] \in mapped THEN waived ELSE waived \cup {p}
           /\ UNCHANGED <<posted, unrecorded>>
        \/ /\ ~AlreadySynced(p) /\ posted' = Append(posted, p) /\ UNCHANGED <<waived, unrecorded>>
           /\ sweep' = [sweep EXCEPT !.todo = @ \ {p}, !.rows = @ \cup {p}]
        \/ /\ sweep' = [sweep EXCEPT !.todo = @ \ {p}]
           /\ waived' = waived \cup {p} /\ UNCHANGED <<posted, unrecorded>>
        \/ /\ ~AlreadySynced(p) /\ posted' = Append(posted, p) /\ UNCHANGED waived
           /\ sweep' = [sweep EXCEPT !.todo = @ \ {p}] /\ unrecorded' = unrecorded \cup {p}
  BY <1>1 DEF CommentOne, RecordedRows, Sweeps
<1>3. /\ sweep' \in Sweeps /\ sweep'.at = "comment" /\ sweep'.todo = sweep.todo \ {p}
      /\ \/ sweep'.rows = sweep.rows /\ UNCHANGED <<posted, unrecorded>>
         \/ posted' = Append(posted, p) /\ ~AlreadySynced(p)
            /\ sweep'.rows \in {sweep.rows, sweep.rows \cup {p}} /\ unrecorded \subseteq unrecorded'
            /\ p \in sweep'.rows \cup unrecorded'
  <2>1. CASE sweep' = [sweep EXCEPT !.todo = @ \ {p}, !.rows = @ \cup {p}]
    <3>1. /\ sweep' \in Sweeps /\ sweep'.at = "comment" /\ sweep'.todo = sweep.todo \ {p}
          /\ sweep'.rows = sweep.rows \cup {p}
      BY <1>1, <2>1 DEF Sweeps
    <3>2. \/ posted' = Append(posted, p) /\ ~AlreadySynced(p) /\ unrecorded \subseteq unrecorded'
          \/ sweep'.rows = sweep.rows /\ UNCHANGED <<posted, unrecorded>>
      <4>1. sweep' = [sweep EXCEPT !.todo = @ \ {p}] => sweep'.rows = sweep.rows
        BY <1>1 DEF Sweeps
      <4> QED
        BY <1>2, <4>1
    <3> QED
      BY <3>1, <3>2
  <2>2. CASE sweep' = [sweep EXCEPT !.todo = @ \ {p}]
    <3>1. /\ sweep' \in Sweeps /\ sweep'.at = "comment" /\ sweep'.todo = sweep.todo \ {p}
          /\ sweep'.rows = sweep.rows
      BY <1>1, <2>2 DEF Sweeps
    <3>2. \/ posted' = Append(posted, p) /\ ~AlreadySynced(p) /\ unrecorded \subseteq unrecorded'
             /\ p \in sweep'.rows \cup unrecorded'
          \/ UNCHANGED <<posted, unrecorded>>
      <4>1. sweep' = [sweep EXCEPT !.todo = @ \ {p}, !.rows = @ \cup {p}] => p \in sweep'.rows
        BY <1>1 DEF Sweeps
      <4> QED
        BY <1>2, <4>1
    <3> QED
      BY <3>1, <3>2
  <2> QED
    BY <1>2, <2>1, <2>2
<1>4. /\ waived \subseteq waived'
      /\ p \in waived' \/ posted' = Append(posted, p) \/ (AlreadySynced(p) /\ UNCHANGED posted)
  BY <1>2
<1>5. PICK n : n = Len(posted) + 1
  OBVIOUS
<1>6. posted \in Seq(Mentions) /\ p \in Mentions
  BY <1>1, CommitFacts
<1>7. /\ DOMAIN posted \subseteq DOMAIN posted' /\ (\A i \in DOMAIN posted : posted'[i] = posted[i])
      /\ posted' \in Seq(Mentions)
      /\ posted' = Append(posted, p) =>
           DOMAIN posted' = DOMAIN posted \cup {n} /\ posted'[n] = p
  <2>1. /\ Append(posted, p) \in Seq(Mentions) /\ Len(Append(posted, p)) = Len(posted) + 1
        /\ \A i \in 1 .. Len(posted) : Append(posted, p)[i] = posted[i]
        /\ Append(posted, p)[Len(posted) + 1] = p
    BY <1>6, AppendProperties
  <2>2. /\ Len(posted) \in Nat /\ DOMAIN posted = 1 .. Len(posted)
        /\ DOMAIN Append(posted, p) = 1 .. Len(posted) + 1
    BY <1>6, <2>1
  <2>3. 1 .. Len(posted) + 1 = 1 .. Len(posted) \cup {n}
    BY <1>5, <2>2
  <2> QED
    BY <1>3, <1>5, <1>6, <2>1, <2>2, <2>3
<1>8. \A x : x \in Range(posted) => x \in Range(posted')
  BY <1>7 DEF Range
<1>9. CommitTyped'
  BY <1>1, <1>3, <1>7, CommitFacts, CommitSteady DEF CommitTyped
<1>10. PostedIsKnown'
  <2>1. ASSUME NEW i \in DOMAIN posted' PROVE posted'[i] \in synced \cup sweep'.rows \cup unrecorded'
    BY <1>3, <1>7, <2>1 DEF CommitInv, PostedIsKnown
  <2>2. ASSUME NEW x \in synced \cup sweep'.rows PROVE x \in Range(posted')
    <3>1. CASE x \in synced \cup sweep.rows
      BY <1>8, <3>1 DEF CommitInv, PostedIsKnown
    <3>2. CASE x \notin synced \cup sweep.rows
      <4>1. x = p /\ posted' = Append(posted, p)
        BY <1>3, <2>2, <3>2
      <4> QED
        BY <1>7, <4>1 DEF Range
    <3> QED
      BY <3>1, <3>2
  <2> QED
    BY <1>1, <2>1, <2>2 DEF PostedIsKnown
<1>11. CommentedOnce'
  <2>1. CASE UNCHANGED <<posted, unrecorded>>
    BY <2>1 DEF CommitInv, CommentedOnce
  <2>2. CASE posted' = Append(posted, p) /\ ~AlreadySynced(p) /\ unrecorded \subseteq unrecorded'
    <3>1. \A i \in DOMAIN posted : posted[i] = p => p \in unrecorded
      BY <2>2 DEF CommitInv, PostedIsKnown, AlreadySynced
    <3> QED
      BY <1>7, <2>2, <3>1 DEF CommitInv, CommentedOnce
  <2> QED
    BY <1>3, <2>1, <2>2
<1>12. ProcessedIsTold'
  <2> SUFFICES ASSUME NEW x \in PairsOf(processed)
               PROVE  x \in Range(posted') \cup waived' \/ (sweep'.at = "comment" /\ x \in sweep'.todo)
    BY <1>1 DEF ProcessedIsTold, AtHand, PairsOf
  <2>1. x \in Range(posted) \cup waived \/ x \in sweep.todo
    BY <1>1 DEF CommitInv, ProcessedIsTold, AtHand
  <2>2. CASE x = p
    <3>1. AlreadySynced(p) => p \in Range(posted)
      BY DEF AlreadySynced, CommitInv, PostedIsKnown
    <3>2. posted' = Append(posted, p) => p \in Range(posted')
      BY <1>7 DEF Range
    <3> QED
      BY <1>4, <1>8, <2>2, <3>1, <3>2
  <2>3. CASE x # p
    BY <1>3, <1>4, <1>8, <2>1, <2>3
  <2> QED
    BY <2>2, <2>3
<1>13. OwedIsRead'
  BY <1>1, OwedStays DEF CommitInv
<1> QED
  BY <1>9, <1>10, <1>11, <1>12, <1>13 DEF CommitInv

LEMMA RowsKeep == ASSUME CommitInv, CommitRows PROVE CommitInv'
<1>1. /\ UNCHANGED <<commitRegime, branches, tracked, since, processed, posted, owed, waived, unrecorded>>
      /\ sweep.at = "comment" /\ sweep.todo = {} /\ synced' = synced \cup sweep.rows
      /\ sweep' = NoSweep /\ sweep'.rows = {} /\ sweep'.at = "idle"
  BY DEF CommitRows, Repository, NoSweep
<1>2. CommitTyped'
  BY <1>1, CommitFacts, CommitSteady DEF CommitTyped
<1>3. PostedIsKnown' /\ CommentedOnce'
  BY <1>1 DEF CommitInv, PostedIsKnown, CommentedOnce
<1>4. ProcessedIsTold'
  BY <1>1 DEF CommitInv, ProcessedIsTold, AtHand, PairsOf
<1>5. OwedIsRead'
  BY <1>1, OwedStays DEF CommitInv
<1> QED
  BY <1>2, <1>3, <1>4, <1>5 DEF CommitInv

(* The rows of the poll are lost, with the database or with the process. *)
LEMMA LossKeeps == ASSUME CommitInv, CommentsFail \/ StartsOver PROVE CommitInv'
<1>1. /\ UNCHANGED <<commitRegime, branches, tracked, synced, posted>>
      /\ sweep' = NoSweep /\ sweep'.rows = {} /\ owed' = NoneOwed /\ \A b \in Branches : owed'[b] = {}
      /\ unrecorded' = unrecorded \cup (sweep.rows \cap Range(posted))
      /\ \/ sweep.at = "comment" /\ waived' = waived \cup sweep.todo /\ processed' = processed
         \/ processed' = {}
  BY DEF CommentsFail, StartsOver, Repository, NoSweep, NoneOwed
<1>2. CommitTyped'
  BY <1>1, CommitFacts, CommitSteady DEF CommitTyped
<1>3. PostedIsKnown'
  BY <1>1 DEF CommitInv, PostedIsKnown, Range
<1>4. CommentedOnce'
  BY <1>1 DEF CommitInv, CommentedOnce
<1>5. ProcessedIsTold'
  BY <1>1 DEF CommitInv, ProcessedIsTold, AtHand, PairsOf
<1>6. OwedIsRead'
  BY <1>1, CommitSteady DEF OwedIsRead
<1> QED
  BY <1>2, <1>3, <1>4, <1>5, <1>6 DEF CommitInv

LEMMA CommitKept == ASSUME CommitInv, CommitNext \/ UNCHANGED commitVars PROVE CommitInv'
  BY RepositoryKeeps, BeginKeeps, ReadKeeps, CutKeeps, CommentKeeps, RowsKeep, LossKeeps DEF CommitNext

LEMMA CommitSays == ASSUME CommitInv PROVE CommitsAreTold
<1>1. RecordedIsThere
  BY DEF CommitInv, PostedIsKnown, RecordedIsThere
<1>2. ASSUME sweep.at = "idle", NEW b \in Branches, NEW p \in owed[b], p[1] \in BranchPage(b)
      PROVE  p \in Range(posted) \cup waived
  <2>1. p[1] \in processed /\ p \in PairsOf(branches[b])
    BY <1>2 DEF CommitInv, OwedIsRead
  <2>2. p \in PairsOf(processed)
    BY <2>1, PairsFollow
  <2> QED
    BY <1>2, <2>2 DEF CommitInv, ProcessedIsTold, AtHand
<1> QED
  BY <1>1, <1>2 DEF CommitInv, CommitsAreTold, CommitsArrive

-----------------------------------------------------------------------------
(* Pull requests.                                                          *)

Reviewers == SUBSET feedRegime.reviewers
PullStates == {"none", "open", "closed", "merged"}
PullRecord ==
  [state : PullStates, draft : BOOLEAN, labels : {0, 1}, reviewers : Reviewers, updated : Nat, created : Nat]
ToldRecord == [state : PullStates, draft : BOOLEAN, labels : {0, 1}, reviewers : Reviewers]
KnownRecord == [draft : SUBSET BOOLEAN, labels : SUBSET {0, 1}, reviewers : SUBSET Reviewers]
MemoryRecord ==
  [since : SUBSET Nat, opened : SUBSET FeedPulls, closed : SUBSET FeedPulls,
   known : [FeedPulls -> KnownRecord], branches : SUBSET FeedPulls, probed : SUBSET FeedPulls]
PollRecord ==
  [at : {"idle", "rows"}, rows : Seq([n : FeedPulls, pull : PullRecord]), row : Nat \ {0}, stage : 1 .. 6,
   withdrawn : SUBSET FeedPulls, blind : BOOLEAN, probes : Seq(FeedPulls), unasked : SUBSET FeedPulls,
   began : Nat, whole : BOOLEAN, clean : BOOLEAN, passes : Nat]
Call == {"opened", "reopened", "found", "closed"} \X BOOLEAN

FeedTyped ==
  /\ feedRegime \in FeedRegimes /\ clock \in Nat /\ hub \in [FeedPulls -> PullRecord]
  /\ watched \in BOOLEAN /\ ready \in BOOLEAN
  /\ memory \in MemoryRecord /\ poll \in PollRecord /\ withdrawn \subseteq FeedPulls
  /\ told \in [FeedPulls -> ToldRecord] /\ calls \in [FeedPulls -> Seq(Call)]
  /\ IsFiniteSet(Revived)

(* GitHub's clock tells the changes apart. *)
HubInOrder ==
  /\ poll.began <= clock
  /\ \A n \in FeedPulls : hub[n].state # "none" =>
       /\ hub[n].updated <= clock
       /\ \A m \in FeedPulls : hub[m].state # "none" /\ hub[m].updated = hub[n].updated => m = n

(* What a pull request that the list has shown is known by. *)
IsOld(n) ==
  hub[n].state # "none" /\ (n \in memory.opened \/ ~(\A s \in memory.since : hub[n].created >= s))
Past(i, k) == i < poll.row \/ (i = poll.row /\ poll.stage > k)

(* The row of a poll: what it says of GitHub, and what was noted and told of it. *)
RowShows(i) ==
  LET n == poll.rows[i].n  pull == poll.rows[i].pull IN
  /\ \A j \in DOMAIN poll.rows : poll.rows[j].n = n => i = j
  /\ pull.state # "none" /\ hub[n].state # "none" /\ pull.created = hub[n].created
  /\ pull.state = "merged" => hub[n].state = "merged"
  /\ hub[n].updated <= poll.began => pull = hub[n]
RowNotes(i) ==
  LET n == poll.rows[i].n  pull == poll.rows[i].pull IN
  /\ Past(i, 1) => IsOld(n)
  /\ Past(i, 2) => memory.known[n].draft = {pull.draft}
  /\ Past(i, 3) => memory.known[n].labels = {pull.labels}
  /\ Past(i, 4) => memory.known[n].reviewers = {pull.reviewers}
RowEnds(i) ==
  LET n == poll.rows[i].n  pull == poll.rows[i].pull IN
  /\ Past(i, 5) /\ pull.state = "open" => n \notin memory.closed /\ (~poll.blind => n \notin withdrawn)
  /\ Past(i, 6) /\ pull.state # "open" => n \in memory.closed
  /\ ~Past(i, 5) => /\ n \in poll.withdrawn => n \in withdrawn
                    /\ ~poll.blind /\ n \in withdrawn => n \in poll.withdrawn
  /\ told[n].state = "merged" => pull.state = "merged"

(* Who is asked for by number. *)
ProbesWait ==
  /\ \A i \in DOMAIN poll.probes :
       /\ poll.probes[i] \in withdrawn \ (Numbers(poll.rows) \cup memory.probed)
       /\ \A j \in DOMAIN poll.probes : poll.probes[i] = poll.probes[j] => i = j
  /\ ~poll.blind /\ (poll.at = "rows" \/ poll.whole) =>
       /\ withdrawn \subseteq poll.withdrawn \cup Numbers(poll.rows)
       /\ \A n \in withdrawn \ Numbers(poll.rows) :
            n \in memory.probed \cup poll.unasked \cup Range(poll.probes)
  /\ poll.at = "idle" /\ poll.whole => poll.probes = <<>> /\ poll.row > Len(poll.rows)
  /\ poll.at = "idle" /\ ~poll.whole => poll.rows = <<>> /\ poll.probes = <<>>
ProbesCount ==
  LET turns == feedRegime.probes * poll.passes
      known == Cardinality(memory.probed) + Cardinality(Revived)
  IN /\ turns <= known
     /\ poll.at = "rows" /\ poll.clean /\ poll.unasked # {} =>
          turns + feedRegime.probes <= known + Len(poll.probes)

(* The calls, and what they leave. *)
LastCall(n) == calls[n][Len(calls[n])]
CallsFit(n) ==
  /\ (\E i \in DOMAIN calls[n] : calls[n][i][1] # "found") => IsOld(n)
  /\ n \in memory.closed <=> calls[n] # <<>> /\ LastCall(n)[1] = "closed"
  /\ n \in withdrawn =>
       /\ \/ calls[n] = <<>> \/ LastCall(n)[1] = "closed"
          \/ Reopening(LastCall(n)) /\ ~LastCall(n)[2]
          \/ LastCall(n)[1] = "opened" /\ \A j \in 1 .. Len(calls[n]) - 1 : ~calls[n][j][2]
       /\ (\A i \in DOMAIN calls[n] : calls[n][i][1] = "found") => \A i \in DOMAIN calls[n] : ~calls[n][i][2]
TakeTurns(s) ==
  \A i \in 1 .. Len(s) - 1 :
    /\ s[i + 1][1] = "opened" => \A j \in 1 .. i : s[j][1] = "found"
    /\ s[i + 1][1] = "closed" => s[i][1] # "closed"
    /\ Reopening(s[i + 1]) =>
         \/ s[i][1] = "closed"
         \/ Reopening(s[i]) /\ ~s[i][2]
         \/ s[i][1] = "opened" /\ \A j \in 1 .. i - 1 : ~s[j][2]
TurnsFit(n) == TakeTurns(calls[n])

(* What the handlers heard of a pull request agrees with what is noted of it.  *)
AtRow(n) == poll.at = "rows" /\ poll.row \in DOMAIN poll.rows /\ poll.rows[poll.row].n = n
Midway(n) == AtRow(n) /\ poll.stage > 2 /\ poll.rows[poll.row].pull.state # "open"
HeardFits(n) ==
  /\ memory.known[n].draft # {} => IsOld(n)
  /\ told[n].state = "merged" => hub[n].state = "merged"
  /\ n \notin missed =>
       /\ n \in memory.closed => told[n].state \in {"closed", "merged"}
       /\ \A v \in memory.known[n].labels : told[n].labels = v
       /\ \A v \in memory.known[n].reviewers : v \subseteq told[n].reviewers
       /\ n \in memory.closed \/ FoundByNumber(n) \/ Midway(n)
            \/ \A v \in memory.known[n].draft : told[n].draft = v
       /\ n \in memory.opened /\ memory.known[n].draft = {} =>
            AtRow(n) /\ poll.stage = 2 /\ told[n].draft = poll.rows[poll.row].pull.draft

FeedInv ==
  /\ FeedTyped /\ HubInOrder /\ NeverIdled
  /\ \A i \in DOMAIN poll.rows : RowShows(i) /\ RowNotes(i) /\ RowEnds(i)
  /\ ProbesWait /\ ProbesCount
  /\ \A n \in FeedPulls : CallsFit(n) /\ TurnsFit(n) /\ HeardFits(n)

LEMMA FeedSteady ==
  ASSUME UNCHANGED feedRegime
  PROVE  /\ FeedPulls' = FeedPulls /\ PullRecord' = PullRecord /\ ToldRecord' = ToldRecord
         /\ MemoryRecord' = MemoryRecord /\ PollRecord' = PollRecord
  BY DEF FeedPulls, PullRecord, ToldRecord, MemoryRecord, PollRecord, KnownRecord, Reviewers

LEMMA SeqParts ==
  ASSUME NEW T, NEW s \in Seq(T)
  PROVE  Len(s) \in Nat /\ DOMAIN s = 1 .. Len(s) /\ \A i \in DOMAIN s : s[i] \in T
  OBVIOUS

(* A row of a poll, and what is typed of the current one. *)
LEMMA RowsTyped ==
  ASSUME FeedTyped
  PROVE  /\ poll.row \in Nat \ {0} /\ poll.stage \in 1 .. 6 /\ Len(poll.rows) \in Nat
         /\ DOMAIN poll.rows = 1 .. Len(poll.rows)
         /\ \A i \in DOMAIN poll.rows : poll.rows[i].n \in FeedPulls /\ poll.rows[i].pull \in PullRecord
<1>1. /\ poll.rows \in Seq([n : FeedPulls, pull : PullRecord])
      /\ poll.row \in Nat \ {0} /\ poll.stage \in 1 .. 6
  BY DEF FeedTyped, PollRecord
<1>2. /\ Len(poll.rows) \in Nat /\ DOMAIN poll.rows = 1 .. Len(poll.rows)
      /\ \A i \in DOMAIN poll.rows : poll.rows[i] \in [n : FeedPulls, pull : PullRecord]
  BY <1>1, SeqParts, Zenon
<1> QED
  BY <1>1, <1>2

LEMMA BlanksTyped == BlankMemory \in MemoryRecord /\ NoPoll \in PollRecord
<1>1. Unseen \in KnownRecord
  BY DEF Unseen, KnownRecord
<1>2. BlankMemory \in MemoryRecord
  BY <1>1 DEF BlankMemory, MemoryRecord
<1>3. NoPoll \in PollRecord
  BY DEF NoPoll, PollRecord
<1> QED
  BY <1>2, <1>3

(* A poll that has not begun, and a memory without calls to its name. *)
LEMMA NothingAsked ==
  ASSUME poll = NoPoll
  PROVE  /\ poll.rows = <<>> /\ poll.probes = <<>> /\ poll.at = "idle" /\ ~poll.whole /\ poll.passes = 0
         /\ poll.began = 0 /\ DOMAIN poll.rows = {} /\ DOMAIN poll.probes = {}
         /\ \A n : ~AtRow(n) /\ ~Midway(n)
  BY DEF NoPoll, AtRow, Midway

LEMMA NothingCalled ==
  ASSUME calls = [n \in FeedPulls |-> <<>>], memory = BlankMemory, IsFiniteSet(FeedPulls)
  PROVE  /\ Revived = {} /\ memory.probed = {}
         /\ Cardinality(Revived) = 0 /\ Cardinality(memory.probed) = 0 /\ IsFiniteSet(Revived)
         /\ \A n \in FeedPulls : CallsFit(n) /\ TurnsFit(n)
<1>1. \A n \in FeedPulls : calls[n] = <<>> /\ DOMAIN calls[n] = {} /\ Len(calls[n]) = 0
  OBVIOUS
<1>2. Revived = {}
  BY <1>1 DEF Revived
<1>3. memory.probed = {} /\ memory.closed = {}
  BY DEF BlankMemory
<1>4. Cardinality({}) = 0 /\ IsFiniteSet({})
  BY FS_EmptySet
<1>5. 1 .. 0 - 1 = {}
  OBVIOUS
<1>6. \A n \in FeedPulls : CallsFit(n) /\ TurnsFit(n)
  BY <1>1, <1>3, <1>5 DEF CallsFit, TurnsFit, TakeTurns
<1> QED
  BY <1>2, <1>3, <1>4, <1>6

LEMMA FeedStarts == FeedInit => FeedInv
<1> SUFFICES ASSUME FeedInit PROVE FeedInv
  OBVIOUS
<1>1. /\ feedRegime \in FeedRegimes /\ clock = feedRegime.start /\ watched = TRUE /\ ready = TRUE
      /\ hub = feedRegime.hub /\ memory = BlankMemory /\ poll = NoPoll
      /\ withdrawn = feedRegime.withdrawn /\ calls = [n \in FeedPulls |-> <<>>] /\ missed = {}
      /\ told = [n \in FeedPulls |->
           [state |-> IF n \in withdrawn THEN "closed" ELSE hub[n].state,
            draft |-> hub[n].draft, labels |-> hub[n].labels, reviewers |-> hub[n].reviewers]]
  BY DEF FeedInit
<1>2. /\ IsFiniteSet(FeedPulls) /\ FeedPulls \subseteq Nat /\ withdrawn \subseteq FeedPulls
      /\ clock \in Nat /\ feedRegime.probes \in Nat
      /\ hub \in [FeedPulls ->
           [state : PullStates, draft : BOOLEAN, labels : {0, 1},
            reviewers : SUBSET feedRegime.reviewers, updated : 0 .. clock, created : 0 .. clock]]
      /\ \A m, n \in FeedPulls :
           hub[m].updated = hub[n].updated => m = n \/ "none" \in {hub[m].state, hub[n].state}
  BY <1>1, FeedAssumption DEF FeedPulls, PullStates
<1>3. \A n \in FeedPulls : hub[n] \in PullRecord /\ hub[n].updated <= clock
  BY <1>2 DEF PullRecord, Reviewers
<1>4. hub \in [FeedPulls -> PullRecord]
  BY <1>2, <1>3
<1>5. told \in [FeedPulls -> ToldRecord]
  BY <1>1, <1>3 DEF PullRecord, ToldRecord, PullStates
<1>6. calls \in [FeedPulls -> Seq(Call)]
  BY <1>1
<1>7. /\ poll.rows = <<>> /\ poll.probes = <<>> /\ poll.at = "idle" /\ ~poll.whole /\ poll.passes = 0
      /\ poll.began = 0 /\ DOMAIN poll.rows = {} /\ DOMAIN poll.probes = {}
      /\ \A n : ~AtRow(n) /\ ~Midway(n)
  BY <1>1, NothingAsked
<1>8. /\ Cardinality(Revived) = 0 /\ Cardinality(memory.probed) = 0 /\ IsFiniteSet(Revived)
      /\ \A n \in FeedPulls : CallsFit(n) /\ TurnsFit(n)
  BY <1>1, <1>2, NothingCalled
<1>9. memory \in MemoryRecord /\ poll \in PollRecord
  BY <1>1, BlanksTyped
<1>10. FeedTyped
  BY <1>1, <1>2, <1>4, <1>5, <1>6, <1>8, <1>9 DEF FeedTyped
<1>11. HubInOrder /\ NeverIdled
  BY <1>1, <1>2, <1>3, <1>7 DEF HubInOrder, NeverIdled
<1>12. ProbesWait
  BY <1>7 DEF ProbesWait
<1>13. ProbesCount
  <2>1. feedRegime.probes * poll.passes = 0
    BY <1>2, <1>7
  <2> QED
    BY <1>7, <1>8, <2>1 DEF ProbesCount
<1>14. \A n \in FeedPulls : HeardFits(n)
  <2> SUFFICES ASSUME NEW n \in FeedPulls PROVE HeardFits(n)
    OBVIOUS
  <2>1. memory.known[n] = Unseen /\ n \notin memory.opened /\ n \notin memory.closed
    BY <1>1 DEF BlankMemory
  <2>2. told[n].state = "merged" => hub[n].state = "merged"
    BY <1>1
  <2> QED
    BY <2>1, <2>2 DEF HeardFits, Unseen
<1> QED
  BY <1>7, <1>8, <1>10, <1>11, <1>12, <1>13, <1>14 DEF FeedInv

(* The process and the registry stand still, and GitHub only adds to what a    *)
(* pull request has been.                                                      *)
LEMMA GitHubMoves ==
  ASSUME FeedInv, clock' \in Nat, clock <= clock', watched' \in BOOLEAN, ready' \in BOOLEAN, NeverIdled',
         hub' \in [FeedPulls -> PullRecord], HubInOrder',
         \A n \in FeedPulls :
           /\ hub'[n] = hub[n] \/ hub'[n].updated > clock
           /\ hub[n].state # "none" => hub'[n].state # "none" /\ hub'[n].created = hub[n].created
           /\ hub[n].state = "merged" => hub'[n].state = "merged",
         UNCHANGED <<feedRegime, memory, withdrawn, poll, told, calls, missed>>
  PROVE  FeedInv'
<1>1. /\ memory' = memory /\ withdrawn' = withdrawn /\ poll' = poll /\ told' = told
      /\ calls' = calls /\ missed' = missed /\ feedRegime' = feedRegime
      /\ FeedPulls' = FeedPulls /\ PullRecord' = PullRecord /\ ToldRecord' = ToldRecord
      /\ MemoryRecord' = MemoryRecord /\ PollRecord' = PollRecord /\ Revived' = Revived
  BY FeedSteady DEF Revived
<1>2. FeedTyped'
  BY <1>1 DEF FeedInv, FeedTyped
<1>3. \A n \in FeedPulls : IsOld(n) => IsOld(n)'
  BY <1>1 DEF IsOld
<1>4. \A i \in DOMAIN poll.rows : poll.rows[i].n \in FeedPulls /\ poll.began <= clock
                               /\ poll.began \in Nat /\ clock \in Nat
  <2>1. poll \in PollRecord /\ poll.began <= clock /\ clock \in Nat
    BY DEF FeedInv, FeedTyped, HubInOrder
  <2>2. poll.rows \in Seq([n : FeedPulls, pull : PullRecord]) /\ poll.began \in Nat
    BY <2>1 DEF PollRecord
  <2>3. \A i \in DOMAIN poll.rows : poll.rows[i] \in [n : FeedPulls, pull : PullRecord]
    BY <2>2, SeqParts, Zenon
  <2> QED
    BY <2>1, <2>2, <2>3
<1>5. \A n \in FeedPulls : hub[n].updated \in Nat /\ hub'[n].updated \in Nat
  BY DEF FeedInv, FeedTyped, PullRecord
<1>6. ASSUME NEW i \in DOMAIN poll.rows PROVE RowShows(i)' /\ RowNotes(i)' /\ RowEnds(i)'
  <2>1. RowShows(i) /\ RowNotes(i) /\ RowEnds(i)
    BY DEF FeedInv
  <2>2. RowShows(i)'
    BY <1>1, <1>4, <1>5, <2>1 DEF RowShows
  <2>3. RowNotes(i)'
    BY <1>1, <1>3, <1>4, <2>1 DEF RowNotes, Past
  <2>4. RowEnds(i)'
    BY <1>1, <2>1 DEF RowEnds, Past
  <2> QED
    BY <2>2, <2>3, <2>4
<1>7. ProbesWait' /\ ProbesCount'
  BY <1>1 DEF FeedInv, ProbesWait, ProbesCount, Numbers
<1>8. ASSUME NEW n \in FeedPulls PROVE CallsFit(n)' /\ TurnsFit(n)' /\ HeardFits(n)'
  <2>1. CallsFit(n) /\ TurnsFit(n) /\ HeardFits(n)
    BY DEF FeedInv
  <2>2. CallsFit(n)' /\ TurnsFit(n)'
    BY <1>1, <1>3, <2>1 DEF CallsFit, TurnsFit, LastCall, Reopening
  <2>3. HeardFits(n)'
    BY <1>1, <1>3, <2>1 DEF HeardFits, FoundByNumber, Midway, AtRow
  <2> QED
    BY <2>2, <2>3
<1> QED
  BY <1>1, <1>2, <1>6, <1>7, <1>8 DEF FeedInv

LEMMA NothingMoves ==
  ASSUME FeedInv, clock' \in Nat, clock <= clock', watched' \in BOOLEAN, ready' \in BOOLEAN, NeverIdled',
         UNCHANGED <<feedRegime, hub, memory, withdrawn, poll, told, calls, missed>>
  PROVE  FeedInv'
<1>1. hub' \in [FeedPulls -> PullRecord] /\ hub' = hub
  BY DEF FeedInv, FeedTyped
<1>2. HubInOrder'
  <2>1. clock \in Nat /\ poll.began \in Nat /\ \A n \in FeedPulls : hub[n].updated \in Nat
    BY DEF FeedInv, FeedTyped, PollRecord, PullRecord
  <2>2. FeedPulls' = FeedPulls /\ poll' = poll
    BY FeedSteady
  <2> QED
    BY <1>1, <2>1, <2>2 DEF FeedInv, HubInOrder
<1> QED
  BY <1>1, <1>2, GitHubMoves

LEMMA OnlookersKeep ==
  ASSUME FeedInv, TimePasses \/ PlaceComesOrGoes \/ RefreshList \/ UNCHANGED feedVars PROVE FeedInv'
<1>1. /\ clock \in Nat /\ watched \in BOOLEAN /\ ready \in BOOLEAN /\ NeverIdled
      /\ UNCHANGED <<feedRegime, hub, memory, withdrawn, poll, told, calls, missed>>
  BY DEF FeedInv, FeedTyped, TimePasses, PlaceComesOrGoes, RefreshList, feedVars, WatchList, Registry,
         HeardSoFar, OnGitHub
<1>2. CASE TimePasses
  <2>1. clock' = clock + 1 /\ watched' = watched /\ ready' = ready
    BY <1>2 DEF TimePasses, WatchList
  <2>2. NeverIdled'
    BY <1>1, <2>1 DEF NeverIdled
  <2> QED
    BY <1>1, <2>1, <2>2, NothingMoves
<1>3. CASE PlaceComesOrGoes
  <2>1. clock' = clock /\ watched' = watched /\ ready' = ~ready
    BY <1>3 DEF PlaceComesOrGoes, OnGitHub
  <2>2. NeverIdled' /\ ready' \in BOOLEAN
    BY <1>1, <2>1 DEF NeverIdled
  <2> QED
    BY <1>1, <2>1, <2>2, NothingMoves
<1>4. CASE RefreshList
  <2>1. clock' = clock /\ ready' = ready /\ watched' \in {watched, Adopts(ready), Adopts(FALSE)}
    BY <1>4 DEF RefreshList, OnGitHub
  <2>2. feedRegime.others \in BOOLEAN
    BY FeedAssumption DEF FeedInv, FeedTyped
  <2>3. watched' \in BOOLEAN /\ (~feedRegime.others => watched')
    BY <1>1, <2>1, <2>2 DEF Adopts, NeverIdled
  <2>4. NeverIdled'
    BY <1>1, <2>3 DEF NeverIdled
  <2> QED
    BY <1>1, <2>1, <2>3, <2>4, NothingMoves
<1>5. CASE UNCHANGED feedVars
  <2>1. clock' = clock /\ watched' = watched /\ ready' = ready
    BY <1>5 DEF feedVars
  <2>2. NeverIdled'
    BY <1>1, <2>1 DEF NeverIdled
  <2> QED
    BY <1>1, <2>1, <2>2, NothingMoves
<1> QED
  BY <1>2, <1>3, <1>4, <1>5

(* A pull request changes. *)
LEMMA ChangeKeeps ==
  ASSUME FeedInv, NEW n \in FeedPulls, NEW pull \in PullRecord, Changed(n, pull), pull.state # "none",
         hub[n].state # "none" => pull.created = hub[n].created,
         hub[n].state = "merged" => pull.state = "merged"
  PROVE  FeedInv'
<1>1. PICK now : now = [pull EXCEPT !.updated = clock + 1]
  OBVIOUS
<1>2. /\ clock' = clock + 1 /\ hub' = [hub EXCEPT ![n] = now]
      /\ UNCHANGED <<feedRegime, watched, ready, memory, withdrawn, poll, told, calls, missed>>
  BY <1>1 DEF Changed, WatchList, Registry, HeardSoFar
<1>3. clock \in Nat /\ hub \in [FeedPulls -> PullRecord] /\ watched \in BOOLEAN /\ ready \in BOOLEAN
  BY DEF FeedInv, FeedTyped
<1>4. /\ now \in PullRecord /\ now.updated = clock + 1 /\ now.state = pull.state
      /\ now.created = pull.created
  BY <1>1, <1>3 DEF PullRecord
<1>5. /\ hub' \in [FeedPulls -> PullRecord] /\ hub'[n] = now
      /\ \A m \in FeedPulls : m # n => hub'[m] = hub[m]
  BY <1>2, <1>3, <1>4
<1>6. \A m \in FeedPulls : hub[m].updated \in Nat
  BY <1>3 DEF PullRecord
<1>7. HubInOrder'
  <2>1. FeedPulls' = FeedPulls /\ poll' = poll /\ poll.began \in Nat
    BY <1>2, FeedSteady DEF FeedInv, FeedTyped, PollRecord
  <2>2. ASSUME NEW m \in FeedPulls, hub'[m].state # "none" PROVE hub'[m].updated <= clock'
    BY <1>2, <1>3, <1>4, <1>5, <1>6, <2>2 DEF FeedInv, HubInOrder
  <2>3. ASSUME NEW m \in FeedPulls, NEW o \in FeedPulls, hub'[m].state # "none", hub'[o].state # "none",
               hub'[m].updated = hub'[o].updated
        PROVE  m = o
    <3>1. \A x \in FeedPulls : x # n /\ hub[x].state # "none" => hub[x].updated < clock + 1
      BY <1>3, <1>6 DEF FeedInv, HubInOrder
    <3>2. CASE m = n \/ o = n
      BY <1>3, <1>4, <1>5, <1>6, <2>3, <3>1, <3>2
    <3>3. CASE m # n /\ o # n
      BY <1>5, <2>3, <3>3 DEF FeedInv, HubInOrder
    <3> QED
      BY <3>2, <3>3
  <2>4. poll.began <= clock'
    BY <1>2, <1>3, <2>1 DEF FeedInv, HubInOrder
  <2> QED
    BY <2>1, <2>2, <2>3, <2>4 DEF HubInOrder
<1>8. NeverIdled'
  BY <1>2 DEF FeedInv, NeverIdled
<1>9. \A m \in FeedPulls :
        /\ hub'[m] = hub[m] \/ hub'[m].updated > clock
        /\ hub[m].state # "none" => hub'[m].state # "none" /\ hub'[m].created = hub[m].created
        /\ hub[m].state = "merged" => hub'[m].state = "merged"
  BY <1>3, <1>4, <1>5
<1> QED
  BY <1>2, <1>3, <1>5, <1>7, <1>8, <1>9, GitHubMoves

LEMMA ChangesKeep ==
  ASSUME FeedInv, NEW n \in FeedPulls,
         Opens(n) \/ FlipsDraft(n) \/ Relabels(n) \/ Requests(n) \/ ClosesPull(n) \/ Reopens(n)
  PROVE  FeedInv'
<1>1. hub[n] \in PullRecord /\ clock \in Nat
  BY DEF FeedInv, FeedTyped
<1>2. CASE Opens(n)
  <2>1. PICK pull : pull = [NoPullYet EXCEPT !.state = "open", !.created = clock + 1]
    OBVIOUS
  <2>2. pull = [state |-> "open", draft |-> FALSE, labels |-> 0, reviewers |-> {},
                updated |-> 0, created |-> clock + 1]
    BY <2>1 DEF NoPullYet
  <2>3. pull \in PullRecord /\ pull.state = "open"
    BY <1>1, <2>2 DEF PullRecord, PullStates, Reviewers
  <2>4. Changed(n, pull) /\ hub[n].state = "none"
    BY <1>2, <2>1 DEF Opens
  <2> QED
    BY <2>3, <2>4, ChangeKeeps
<1>3. CASE FlipsDraft(n)
  <2>1. PICK pull : pull = [hub[n] EXCEPT !.draft = ~@]
    OBVIOUS
  <2>2. pull \in PullRecord /\ pull.state = hub[n].state /\ pull.created = hub[n].created
    BY <1>1, <2>1 DEF PullRecord
  <2>3. Changed(n, pull) /\ hub[n].state # "none"
    BY <1>3, <2>1 DEF FlipsDraft
  <2> QED
    BY <2>2, <2>3, ChangeKeeps
<1>4. CASE Relabels(n)
  <2>1. PICK pull : pull = [hub[n] EXCEPT !.labels = 1 - @]
    OBVIOUS
  <2>2. pull \in PullRecord /\ pull.state = hub[n].state /\ pull.created = hub[n].created
    BY <1>1, <2>1 DEF PullRecord
  <2>3. Changed(n, pull) /\ hub[n].state # "none"
    BY <1>4, <2>1 DEF Relabels
  <2> QED
    BY <2>2, <2>3, ChangeKeeps
<1>5. CASE Requests(n)
  <2>1. PICK r \in feedRegime.reviewers :
          Changed(n, [hub[n] EXCEPT !.reviewers = IF r \in @ THEN @ \ {r} ELSE @ \cup {r}])
    BY <1>5 DEF Requests
  <2>2. PICK pull : pull = [hub[n] EXCEPT !.reviewers = IF r \in @ THEN @ \ {r} ELSE @ \cup {r}]
    OBVIOUS
  <2>3. pull \in PullRecord /\ pull.state = hub[n].state /\ pull.created = hub[n].created
    BY <1>1, <2>2 DEF PullRecord, Reviewers
  <2>4. Changed(n, pull) /\ hub[n].state = "open"
    BY <1>5, <2>1, <2>2 DEF Requests
  <2> QED
    BY <2>3, <2>4, ChangeKeeps
<1>6. CASE ClosesPull(n) \/ Reopens(n)
  <2>1. PICK s, pull : /\ s \in PullStates \ {"none"} /\ pull = [hub[n] EXCEPT !.state = s]
                       /\ Changed(n, pull) /\ hub[n].state \in {"open", "closed"}
    BY <1>6 DEF ClosesPull, Reopens, PullStates
  <2>2. pull \in PullRecord /\ pull.state # "none" /\ pull.created = hub[n].created
    BY <1>1, <2>1 DEF PullRecord
  <2> QED
    BY <2>1, <2>2, ChangeKeeps
<1> QED
  BY <1>2, <1>3, <1>4, <1>5, <1>6

LEMMA EndKeeps == ASSUME FeedInv, EndPoll PROVE FeedInv'
<1>1. /\ poll.at = "rows" /\ poll.row > Len(poll.rows) /\ poll.probes = <<>>
      /\ UNCHANGED <<feedRegime, clock, hub, watched, ready, memory, withdrawn, told, calls, missed>>
  BY DEF EndPoll, OnGitHub, WatchList, Registry, HeardSoFar
<1>2. FeedTyped /\ poll \in PollRecord
  BY DEF FeedInv, FeedTyped
<1>3. PICK passes : passes = IF poll.clean /\ poll.unasked # {} THEN poll.passes + 1 ELSE 0
  OBVIOUS
<1>4. poll' = [poll EXCEPT !.at = "idle", !.whole = TRUE, !.passes = passes]
  BY <1>3 DEF EndPoll
<1>5. poll.passes \in Nat /\ passes \in Nat
  BY <1>2, <1>3 DEF PollRecord
<1>6. /\ poll' \in PollRecord /\ poll'.at = "idle" /\ poll'.whole = TRUE
      /\ poll'.rows = poll.rows /\ poll'.row = poll.row /\ poll'.stage = poll.stage
      /\ poll'.withdrawn = poll.withdrawn /\ poll'.blind = poll.blind /\ poll'.probes = poll.probes
      /\ poll'.unasked = poll.unasked /\ poll'.began = poll.began
      /\ poll'.passes = IF poll.clean /\ poll.unasked # {} THEN poll.passes + 1 ELSE 0
      /\ poll.passes \in Nat
  BY <1>2, <1>3, <1>4, <1>5 DEF PollRecord
<1>7. /\ FeedPulls' = FeedPulls /\ PullRecord' = PullRecord /\ ToldRecord' = ToldRecord
      /\ MemoryRecord' = MemoryRecord /\ PollRecord' = PollRecord /\ Revived' = Revived
  BY <1>1, FeedSteady DEF Revived
<1>8. FeedTyped'
  BY <1>1, <1>2, <1>6, <1>7 DEF FeedTyped
<1>9. HubInOrder' /\ NeverIdled'
  BY <1>1, <1>6, <1>7 DEF FeedInv, HubInOrder, NeverIdled
<1>10. \A n : IsOld(n)' <=> IsOld(n)
  BY <1>1 DEF IsOld
<1>11. ASSUME NEW i \in DOMAIN poll.rows PROVE RowShows(i)' /\ RowNotes(i)' /\ RowEnds(i)'
  <2>1. RowShows(i) /\ RowNotes(i) /\ RowEnds(i)
    BY DEF FeedInv
  <2>2. RowShows(i)'
    BY <1>1, <1>6, <1>10, <2>1 DEF RowShows, Past
  <2>3. RowNotes(i)'
    BY <1>1, <1>6, <1>10, <2>1 DEF RowNotes, Past
  <2>4. RowEnds(i)'
    BY <1>1, <1>6, <1>10, <2>1 DEF RowEnds, Past
  <2> QED
    BY <2>2, <2>3, <2>4
<1>12. ProbesWait'
  BY <1>1, <1>6 DEF FeedInv, ProbesWait, Numbers
<1>13. ProbesCount'
  <2>1. PICK p, k : p = feedRegime.probes /\ k = Cardinality(memory.probed) + Cardinality(Revived)
    OBVIOUS
  <2>2. /\ p * poll.passes <= k
        /\ poll.clean /\ poll.unasked # {} => p * poll.passes + p <= k + Len(poll.probes)
    BY <1>1, <2>1 DEF FeedInv, ProbesCount
  <2>3. p \in Nat /\ k \in Nat /\ Len(poll.probes) = 0
    <3>1. IsFiniteSet(memory.probed) /\ IsFiniteSet(Revived)
      <4>1. memory.probed \subseteq FeedPulls /\ IsFiniteSet(FeedPulls)
        BY <1>2, FeedAssumption DEF FeedTyped, MemoryRecord, FeedPulls
      <4> QED
        BY <1>2, <4>1, FS_Subset DEF FeedTyped
    <3>2. Cardinality(memory.probed) \in Nat /\ Cardinality(Revived) \in Nat
      BY <3>1, FS_CardinalityType
    <3>3. p \in Nat
      BY <1>2, <2>1, FeedAssumption DEF FeedTyped
    <3> QED
      BY <1>1, <2>1, <3>2, <3>3
  <2>4. p * (poll.passes + 1) = p * poll.passes + p /\ p * 0 = 0
    BY <1>6, <2>3
  <2>5. p * poll'.passes <= k
    BY <1>6, <2>2, <2>3, <2>4
  <2> QED
    BY <1>1, <1>6, <1>7, <2>1, <2>5 DEF ProbesCount
<1>14. ASSUME NEW n \in FeedPulls PROVE CallsFit(n)' /\ TurnsFit(n)' /\ HeardFits(n)'
  <2>1. CallsFit(n) /\ TurnsFit(n) /\ HeardFits(n)
    BY DEF FeedInv
  <2>2. CallsFit(n)' /\ TurnsFit(n)'
    BY <1>1, <1>10, <2>1 DEF CallsFit, TurnsFit, LastCall, Reopening
  <2>3. ~AtRow(n)
    BY <1>1, <1>2, RowsTyped DEF AtRow
  <2>4. HeardFits(n)'
    BY <1>1, <1>10, <2>1, <2>3 DEF HeardFits, FoundByNumber, Midway
  <2> QED
    BY <2>2, <2>4
<1> QED
  BY <1>6, <1>7, <1>8, <1>9, <1>11, <1>12, <1>13, <1>14 DEF FeedInv

LEMMA RestartKeeps == ASSUME FeedInv, Restart PROVE FeedInv'
<1>1. /\ memory' = BlankMemory /\ poll' = NoPoll /\ calls' = [n \in FeedPulls |-> <<>>] /\ missed' = {}
      /\ UNCHANGED <<feedRegime, clock, hub, watched, ready, withdrawn, told>>
  BY DEF Restart, OnGitHub, WatchList, Registry
<1>2. FeedTyped
  BY DEF FeedInv
<1>3. /\ FeedPulls' = FeedPulls /\ PullRecord' = PullRecord /\ ToldRecord' = ToldRecord
      /\ MemoryRecord' = MemoryRecord /\ PollRecord' = PollRecord /\ BlankMemory' = BlankMemory
      /\ NoPoll' = NoPoll
  BY <1>1, FeedSteady DEF BlankMemory, NoPoll, FeedPulls, Unseen
<1>4. IsFiniteSet(FeedPulls) /\ feedRegime.probes \in Nat
  BY <1>2, FeedAssumption DEF FeedTyped, FeedPulls
<1>5. /\ poll'.rows = <<>> /\ poll'.probes = <<>> /\ poll'.at = "idle" /\ poll'.whole = FALSE
      /\ poll'.passes = 0 /\ poll'.began = 0 /\ DOMAIN poll'.rows = {} /\ DOMAIN poll'.probes = {}
      /\ poll'.row = 1 /\ Len(poll'.rows) = 0
  BY <1>1 DEF NoPoll
<1>6. /\ \A n \in FeedPulls : calls'[n] = <<>> /\ DOMAIN calls'[n] = {} /\ Len(calls'[n]) = 0
      /\ memory'.probed = {} /\ memory'.closed = {} /\ memory'.opened = {}
      /\ \A n \in FeedPulls : memory'.known[n] = Unseen
  BY <1>1 DEF BlankMemory
<1>7. Revived' = {} /\ Cardinality(Revived') = 0 /\ Cardinality(memory'.probed) = 0 /\ IsFiniteSet(Revived')
  <2>1. Revived' = {}
    <3> SUFFICES ASSUME NEW x \in Revived' PROVE FALSE
      OBVIOUS
    <3>1. PICK n \in FeedPulls : x \in {<<n, i>> : i \in {j \in DOMAIN calls'[n] : calls'[n][j] = <<"found", TRUE>>}}
      BY <1>3 DEF Revived
    <3> QED
      BY <1>6, <3>1
  <2> QED
    BY <1>6, <2>1, FS_EmptySet
<1>8. FeedTyped'
  <2>1. calls' \in [FeedPulls -> Seq(Call)]
    BY <1>1
  <2> QED
    BY <1>1, <1>2, <1>3, <1>7, <2>1, BlanksTyped DEF FeedTyped
<1>9. HubInOrder' /\ NeverIdled'
  <2>1. clock \in Nat
    BY <1>2 DEF FeedTyped
  <2> QED
    BY <1>1, <1>3, <1>5, <2>1 DEF FeedInv, HubInOrder, NeverIdled
<1>10. ProbesWait'
  BY <1>5 DEF ProbesWait
<1>11. ProbesCount'
  <2>1. feedRegime'.probes * poll'.passes = 0
    BY <1>1, <1>4, <1>5
  <2> QED
    BY <1>5, <1>7, <2>1 DEF ProbesCount
<1>12. ASSUME NEW n \in FeedPulls PROVE CallsFit(n)' /\ TurnsFit(n)' /\ HeardFits(n)'
  <2>1. 1 .. 0 - 1 = {}
    OBVIOUS
  <2>2. CallsFit(n)' /\ TurnsFit(n)'
    BY <1>6, <2>1 DEF CallsFit, TurnsFit, TakeTurns
  <2>3. told[n].state = "merged" => hub[n].state = "merged"
    BY DEF FeedInv, HeardFits
  <2>4. HeardFits(n)'
    BY <1>1, <1>6, <2>3 DEF HeardFits, Unseen
  <2> QED
    BY <2>2, <2>4
<1> QED
  BY <1>3, <1>5, <1>8, <1>9, <1>10, <1>11, <1>12 DEF FeedInv

LEMMA FirstCut ==
  ASSUME NEW T, NEW s \in Seq(T), NEW k \in 0 .. Len(s) PROVE SubSeq(s, 1, k) = [i \in 1 .. k |-> s[i]]
<1>1. Len(s) \in Nat /\ DOMAIN s = 1 .. Len(s)
  OBVIOUS
<1> QED
  BY <1>1, SubSeqProperties

LEMMA ListedSeq == ASSUME NEW T, NEW k \in Nat, NEW f \in [1 .. k -> T] PROVE f \in Seq(T)
  OBVIOUS

(* What the list shows. *)
LEMMA RowsListed ==
  ASSUME FeedInv, NEW x, NEW rows, rows = Rows(x)
  PROVE  /\ rows \in Seq([n : FeedPulls, pull : PullRecord])
         /\ \A i \in DOMAIN rows :
              /\ rows[i].n \in FeedPulls /\ rows[i].pull = hub[rows[i].n] /\ hub[rows[i].n].state # "none"
              /\ \A j \in DOMAIN rows : rows[j].n = rows[i].n => i = j
<1>1. PICK S, at, shown :
        /\ S = {n \in PagePulls : hub[n].updated >= x} /\ at = [n \in FeedPulls |-> hub[n].updated]
        /\ shown = LatestFirst(S, at)
  OBVIOUS
<1>2. rows = [i \in DOMAIN shown |-> [n |-> shown[i], pull |-> hub[shown[i]]]]
  BY <1>1 DEF Rows
<1>3. /\ hub \in [FeedPulls -> PullRecord] /\ IsFiniteSet(FeedPulls)
      /\ \A n \in FeedPulls : hub[n] \in PullRecord /\ hub[n].updated \in Nat
  BY FeedAssumption DEF FeedInv, FeedTyped, FeedPulls, PullRecord
<1>4. S \subseteq FeedPulls /\ \A n \in S : hub[n].state # "none"
  BY <1>1 DEF PagePulls
<1>5. IsFiniteSet(S)
  BY <1>3, <1>4, FS_Subset
<1>6. \A e \in S : at[e] = hub[e].updated
  BY <1>1, <1>4
<1>7. \A e \in S : at[e] \in Int
  BY <1>3, <1>4, <1>6
<1>8. \A d, e \in S : at[d] = at[e] => d = e
  BY <1>4, <1>6 DEF FeedInv, HubInOrder
<1>9. shown = LatestFirst(S, at)
  BY <1>1
<1>10. shown \in Seq(S) /\ DOMAIN shown = 1 .. Len(shown)
  BY <1>9, <1>5, <1>7, <1>8, LatestOrders, Zenon
<1>11. \A i \in DOMAIN shown : shown[i] \in S
  BY <1>9, <1>5, <1>7, <1>8, LatestOrders, Zenon
<1>12. \A i, j \in DOMAIN shown : i < j => at[shown[j]] < at[shown[i]]
  BY <1>9, <1>5, <1>7, <1>8, LatestOrders, Zenon
<1>13. ASSUME NEW i \in DOMAIN shown, NEW j \in DOMAIN shown, shown[i] = shown[j] PROVE i = j
  <2>1. i \in Int /\ j \in Int /\ at[shown[i]] \in Int /\ at[shown[j]] \in Int
    BY <1>7, <1>10, <1>11
  <2>2. ~(i < j) /\ ~(j < i)
    BY <1>12, <1>13, <2>1
  <2> QED
    BY <2>1, <2>2
<1>14. DOMAIN rows = DOMAIN shown
       /\ \A i \in DOMAIN rows : rows[i].n = shown[i] /\ rows[i].pull = hub[shown[i]]
                                 /\ rows[i] \in [n : FeedPulls, pull : PullRecord]
  BY <1>2, <1>3, <1>4, <1>11
<1>15. rows \in Seq([n : FeedPulls, pull : PullRecord])
  <2>1. PICK T : T = [n : FeedPulls, pull : PullRecord]
    OBVIOUS
  <2>2. rows \in [1 .. Len(shown) -> T] /\ Len(shown) \in Nat
    BY <1>2, <1>10, <1>14, <2>1
  <2>3. rows \in Seq(T)
    BY <2>2, ListedSeq
  <2> QED
    BY <2>1, <2>3
<1> QED
  BY <1>4, <1>11, <1>13, <1>14, <1>15

(* Who is asked for by number: so many, the lowest numbers first. *)
LEMMA ProbesListed ==
  ASSUME FeedTyped, NEW W, W \subseteq FeedPulls, NEW list, list = Ascending(W), NEW asked, asked = FirstOf(list)
  PROVE  /\ asked \in Seq(FeedPulls) /\ Range(list) \subseteq FeedPulls
         /\ \A i \in DOMAIN asked : asked[i] \in W /\ \A j \in DOMAIN asked : asked[i] = asked[j] => i = j
         /\ \A n \in W : n \in Range(asked) \cup (Range(list) \ Range(asked))
         /\ Range(list) \ Range(asked) # {} => Len(asked) = feedRegime.probes
<1>1. IsFiniteSet(FeedPulls) /\ FeedPulls \subseteq Nat /\ feedRegime.probes \in Nat
  BY FeedAssumption DEF FeedTyped, FeedPulls
<1>2. IsFiniteSet(W) /\ W \subseteq Int
  <2>1. IsFiniteSet(W)
    BY <1>1, FS_Subset
  <2>2. W \subseteq Int
    BY <1>1
  <2> QED
    BY <2>1, <2>2
<1>3. /\ list \in Seq(W) /\ DOMAIN list = 1 .. Len(list)
      /\ \A e \in W : \E i \in DOMAIN list : list[i] = e
      /\ \A i \in DOMAIN list : list[i] \in W
      /\ \A i, j \in DOMAIN list : i < j => list[i] < list[j]
  <2>1. list \in Seq(W) /\ DOMAIN list = 1 .. Len(list)
    BY <1>2, AscendingOrders
  <2>2. ASSUME NEW e \in W PROVE \E i \in DOMAIN list : list[i] = e
    BY <1>2, AscendingOrders
  <2>3. \A i \in DOMAIN list : list[i] \in W
    BY <1>2, AscendingOrders
  <2>4. \A i, j \in DOMAIN list : i < j => list[i] < list[j]
    BY <1>2, AscendingOrders
  <2> QED
    BY <2>1, <2>2, <2>3, <2>4
<1>4. PICK l, k : l = Len(list) /\ k = IF l < feedRegime.probes THEN l ELSE feedRegime.probes
  OBVIOUS
<1>5. l \in Nat /\ k \in 0 .. l
  BY <1>1, <1>3, <1>4
<1>6. \A i \in 1 .. k : i \in DOMAIN list
  <2>1. DOMAIN list = 1 .. l
    BY <1>3, <1>4
  <2> QED
    BY <1>5, <2>1
<1>7. asked = [i \in 1 .. k |-> list[i]] /\ asked \in Seq(W) /\ Len(asked) = k
  <2>1. asked = SubSeq(list, 1, k)
    BY <1>4 DEF FirstOf
  <2>2. list \in Seq(W) /\ k \in 0 .. Len(list)
    BY <1>3, <1>4, <1>5
  <2>3. SubSeq(list, 1, k) = [i \in 1 .. k |-> list[i]]
    BY <2>2, FirstCut
  <2>4. \A i \in 1 .. k : list[i] \in W
    BY <1>3, <1>6
  <2>5. k \in Nat /\ asked = [i \in 1 .. k |-> list[i]]
    BY <1>5, <2>1, <2>3
  <2>6. asked \in [1 .. k -> W]
    BY <2>4, <2>5
  <2>7. asked \in Seq(W)
    BY <2>6, <2>5, ListedSeq
  <2> QED
    <3>1. Len(asked) \in Nat /\ DOMAIN asked = 1 .. Len(asked) /\ DOMAIN asked = 1 .. k
      BY <2>5, <2>7
    <3>2. Len(asked) = k
      BY <2>5, <3>1
    <3> QED
      BY <2>5, <2>7, <3>2
<1>8. DOMAIN asked = 1 .. k /\ \A i \in 1 .. k : asked[i] = list[i] /\ i \in DOMAIN list
  BY <1>7, <1>6
<1>9. ASSUME NEW i \in DOMAIN asked, NEW j \in DOMAIN asked, asked[i] = asked[j] PROVE i = j
  <2>1. i \in DOMAIN list /\ j \in DOMAIN list /\ i \in Int /\ j \in Int /\ list[i] = list[j]
    BY <1>8, <1>9
  <2>2. list[i] \in Int /\ list[j] \in Int
    BY <1>2, <1>3, <2>1
  <2>3. ~(i < j) /\ ~(j < i)
    BY <1>3, <2>1, <2>2
  <2> QED
    BY <2>1, <2>3
<1>10. ASSUME Range(list) \ Range(asked) # {} PROVE Len(asked) = feedRegime.probes
  <2>1. PICK i \in DOMAIN list : list[i] \notin Range(asked)
    BY <1>10 DEF Range
  <2>2. i \notin DOMAIN asked
    BY <1>8, <2>1 DEF Range
  <2> QED
    BY <1>1, <1>3, <1>4, <1>5, <1>7, <1>8, <2>2
<1>11. asked \in Seq(FeedPulls)
  BY <1>7, SeqWithin
<1>12. Range(list) \subseteq FeedPulls
  BY <1>3 DEF Range
<1>13. \A n \in W : n \in Range(list)
  BY <1>3 DEF Range
<1>14. \A i \in DOMAIN asked : asked[i] \in W
  BY <1>3, <1>8
<1> QED
  BY <1>9, <1>10, <1>11, <1>12, <1>13, <1>14

(* A poll begins: the baseline is set once, and what is known stays known.     *)
LEMMA BaselineSet ==
  ASSUME FeedInv, BeginPoll
  PROVE  /\ UNCHANGED <<feedRegime, clock, hub, watched, ready, withdrawn, told, calls, missed>>
         /\ memory' \in MemoryRecord /\ poll.at = "idle"
         /\ memory'.opened = memory.opened /\ memory'.closed = memory.closed
         /\ memory'.known = memory.known /\ memory'.probed = memory.probed
         /\ \A n : IsOld(n) => IsOld(n)'
         /\ \A n : ~AtRow(n) /\ ~Midway(n)
<1>1. /\ UNCHANGED <<feedRegime, clock, hub, watched, ready, withdrawn, told, calls, missed>>
      /\ poll.at = "idle"
  BY DEF BeginPoll, OnGitHub, WatchList, Registry, HeardSoFar
<1>2. PICK base : /\ base = IF memory.since # {} THEN memory.since
                             ELSE {IF clock > feedRegime.catchup THEN clock - feedRegime.catchup ELSE 0}
                  /\ memory' = [memory EXCEPT !.since = base]
  BY DEF BeginPoll
<1>3. memory \in MemoryRecord /\ clock \in Nat /\ feedRegime.catchup \in Nat
  BY FeedAssumption DEF FeedInv, FeedTyped
<1>4. base \subseteq Nat
  <2>1. CASE memory.since # {}
    BY <1>2, <1>3, <2>1 DEF MemoryRecord
  <2>2. CASE memory.since = {}
    BY <1>2, <1>3, <2>2
  <2> QED
    BY <2>1, <2>2
<1>5. /\ memory' \in MemoryRecord
      /\ memory'.opened = memory.opened /\ memory'.closed = memory.closed /\ memory'.since = base
      /\ memory'.known = memory.known /\ memory'.probed = memory.probed
  BY <1>2, <1>3, <1>4 DEF MemoryRecord
<1>6. ASSUME NEW n, IsOld(n) PROVE IsOld(n)'
  <2>1. CASE memory.since # {}
    <3>1. memory'.since = memory.since
      BY <1>2, <1>5, <2>1
    <3> QED
      BY <1>1, <1>5, <1>6, <3>1 DEF IsOld
  <2>2. CASE memory.since = {}
    BY <1>1, <1>5, <1>6, <2>2 DEF IsOld
  <2> QED
    BY <2>1, <2>2
<1> QED
  BY <1>1, <1>5, <1>6 DEF AtRow, Midway

(* What a poll begins with: nothing, or the rows and those to ask for.         *)
LEMMA PollGiven ==
  ASSUME FeedInv, BeginPoll, poll' # NoPoll
  PROVE  \E rows, probes, reads, gone, unasked :
           /\ reads \in BOOLEAN /\ gone \subseteq withdrawn /\ unasked \subseteq FeedPulls
           /\ poll' = [at |-> "rows", rows |-> rows, row |-> 1, stage |-> 1, withdrawn |-> gone,
                       blind |-> ~reads, probes |-> probes, unasked |-> unasked, began |-> clock,
                       whole |-> FALSE, clean |-> TRUE, passes |-> IF reads THEN poll.passes ELSE 0]
           /\ rows \in Seq([n : FeedPulls, pull : PullRecord])
           /\ \A i \in DOMAIN rows :
                /\ rows[i].n \in FeedPulls /\ rows[i].pull = hub[rows[i].n] /\ hub[rows[i].n].state # "none"
                /\ \A j \in DOMAIN rows : rows[j].n = rows[i].n => i = j
           /\ reads => gone = withdrawn
           /\ probes \in Seq(FeedPulls)
           /\ \A i \in DOMAIN probes :
                /\ probes[i] \in gone \ (Numbers(rows) \cup memory.probed)
                /\ \A j \in DOMAIN probes : probes[i] = probes[j] => i = j
           /\ \A n \in gone \ (Numbers(rows) \cup memory.probed) : n \in Range(probes) \cup unasked
           /\ unasked # {} => Len(probes) = feedRegime.probes
<1>1. PICK lists, reads \in BOOLEAN :
        poll' = IF ~lists THEN NoPoll
                ELSE LET rows == Rows(CHOOSE s \in (IF memory.since # {} THEN memory.since
                                                  ELSE {IF clock > feedRegime.catchup THEN clock - feedRegime.catchup ELSE 0}) : TRUE)
                         gone == IF reads THEN withdrawn ELSE {}
                         list == ProbeList(Numbers(rows), gone)
                     IN [NoPoll EXCEPT
                           !.at = "rows", !.rows = rows, !.withdrawn = gone,
                           !.blind = ~reads, !.passes = IF reads THEN poll.passes ELSE 0,
                           !.probes = FirstOf(list), !.began = clock,
                           !.unasked = Range(list) \ Range(FirstOf(list))]
  BY Zenon DEF BeginPoll
<1>2. PICK x : x = CHOOSE s \in (IF memory.since # {} THEN memory.since
                                   ELSE {IF clock > feedRegime.catchup THEN clock - feedRegime.catchup ELSE 0}) : TRUE
  OBVIOUS
<1>3. PICK rows, gone : rows = Rows(x) /\ gone = IF reads THEN withdrawn ELSE {}
  OBVIOUS
<1>4. PICK list, asked, unasked :
        list = ProbeList(Numbers(rows), gone) /\ asked = FirstOf(list) /\ unasked = Range(list) \ Range(asked)
  OBVIOUS
<1>5. /\ reads \in BOOLEAN /\ rows = Rows(x)
      /\ gone = IF reads THEN withdrawn ELSE {}
      /\ list = ProbeList(Numbers(rows), gone) /\ asked = FirstOf(list)
      /\ unasked = Range(list) \ Range(asked)
      /\ poll' = [NoPoll EXCEPT
                    !.at = "rows", !.rows = rows, !.withdrawn = gone,
                    !.blind = ~reads, !.passes = IF reads THEN poll.passes ELSE 0,
                    !.probes = asked, !.began = clock, !.unasked = unasked]
  BY <1>1, <1>2, <1>3, <1>4
<1>6. PICK passes : passes = IF reads THEN poll.passes ELSE 0
  OBVIOUS
<1>7. poll' = [NoPoll EXCEPT
                 !.at = "rows", !.rows = rows, !.withdrawn = gone, !.blind = ~reads,
                 !.passes = passes, !.probes = asked, !.began = clock, !.unasked = unasked]
  BY <1>5, <1>6
<1>8. poll' = [at |-> "rows", rows |-> rows, row |-> 1, stage |-> 1, withdrawn |-> gone,
               blind |-> ~reads, probes |-> asked, unasked |-> unasked, began |-> clock,
               whole |-> FALSE, clean |-> TRUE, passes |-> passes]
  BY <1>7 DEF NoPoll
<1>9. rows = Rows(x)
  BY <1>5
<1>10. rows \in Seq([n : FeedPulls, pull : PullRecord])
  BY <1>9, RowsListed, Zenon
<1>11. \A i \in DOMAIN rows :
        /\ rows[i].n \in FeedPulls /\ rows[i].pull = hub[rows[i].n] /\ hub[rows[i].n].state # "none"
        /\ \A j \in DOMAIN rows : rows[j].n = rows[i].n => i = j
  BY <1>9, RowsListed, Zenon
<1>12. gone \subseteq withdrawn /\ (reads => gone = withdrawn)
  BY <1>5
<1>13. PICK W : W = gone \ (Numbers(rows) \cup memory.probed)
  OBVIOUS
<1>14. FeedTyped /\ withdrawn \subseteq FeedPulls
  BY DEF FeedInv, FeedTyped
<1>15. W \subseteq FeedPulls
  BY <1>12, <1>13, <1>14
<1>16. list = Ascending(W) /\ asked = FirstOf(list)
  BY <1>5, <1>13 DEF ProbeList
<1>17. list = Ascending(W)
  BY <1>16
<1>18. asked = FirstOf(list)
  BY <1>16
<1>19. asked \in Seq(FeedPulls) /\ Range(list) \subseteq FeedPulls
  BY <1>14, <1>15, <1>17, <1>18, ProbesListed, Zenon
<1>20. \A i \in DOMAIN asked : asked[i] \in W /\ \A j \in DOMAIN asked : asked[i] = asked[j] => i = j
  BY <1>14, <1>15, <1>17, <1>18, ProbesListed, Zenon
<1>21. \A n \in W : n \in Range(asked) \cup (Range(list) \ Range(asked))
  BY <1>14, <1>15, <1>17, <1>18, ProbesListed, Zenon
<1>22. Range(list) \ Range(asked) # {} => Len(asked) = feedRegime.probes
  BY <1>14, <1>15, <1>17, <1>18, ProbesListed, Zenon
<1>23. unasked = Range(list) \ Range(asked)
  BY <1>5
<1>24. reads \in BOOLEAN /\ gone \subseteq withdrawn /\ unasked \subseteq FeedPulls
  BY <1>5, <1>12, <1>19, <1>23
<1>25. unasked # {} => Len(asked) = feedRegime.probes
  BY <1>22, <1>23
<1>26. \A n \in W : n \in Range(asked) \cup unasked
  BY <1>21, <1>23
<1>27. \A i \in DOMAIN asked :
         /\ asked[i] \in gone \ (Numbers(rows) \cup memory.probed)
         /\ \A j \in DOMAIN asked : asked[i] = asked[j] => i = j
  BY <1>13, <1>20
<1>28. \A n \in gone \ (Numbers(rows) \cup memory.probed) : n \in Range(asked) \cup unasked
  BY <1>13, <1>26
<1> QED
  BY <1>6, <1>8, <1>10, <1>11, <1>12, <1>19, <1>24, <1>25, <1>27, <1>28

LEMMA FeedCounts ==
  ASSUME FeedTyped
  PROVE  /\ IsFiniteSet(FeedPulls) /\ feedRegime.probes \in Nat
         /\ IsFiniteSet(memory.probed) /\ Cardinality(memory.probed) \in Nat
         /\ IsFiniteSet(Revived) /\ Cardinality(Revived) \in Nat
<1>1. IsFiniteSet(FeedPulls) /\ feedRegime.probes \in Nat
  BY FeedAssumption DEF FeedTyped, FeedPulls
<1>2. memory.probed \subseteq FeedPulls
  BY DEF FeedTyped, MemoryRecord
<1>3. IsFiniteSet(memory.probed) /\ IsFiniteSet(Revived)
  BY <1>1, <1>2, FS_Subset DEF FeedTyped
<1> QED
  BY <1>1, <1>3, FS_CardinalityType

LEMMA PollBegins == ASSUME FeedInv, BeginPoll PROVE FeedInv'
<1>1. /\ UNCHANGED <<feedRegime, clock, hub, watched, ready, withdrawn, told, calls, missed>>
      /\ memory' \in MemoryRecord /\ poll.at = "idle"
      /\ memory'.opened = memory.opened /\ memory'.closed = memory.closed
      /\ memory'.known = memory.known /\ memory'.probed = memory.probed
      /\ \A n : ~AtRow(n) /\ ~Midway(n)
  BY BaselineSet
<1>2. \A n : IsOld(n) => IsOld(n)'
  BY BaselineSet
<1>3. FeedTyped /\ poll \in PollRecord /\ clock \in Nat /\ poll.passes \in Nat
  BY DEF FeedInv, FeedTyped, PollRecord
<1>4. /\ FeedPulls' = FeedPulls /\ PullRecord' = PullRecord /\ ToldRecord' = ToldRecord
      /\ MemoryRecord' = MemoryRecord /\ PollRecord' = PollRecord /\ Revived' = Revived
  BY <1>1, FeedSteady DEF Revived
<1>5. /\ feedRegime.probes \in Nat
      /\ Cardinality(memory.probed) \in Nat /\ Cardinality(Revived) \in Nat
  BY <1>3, FeedCounts
<1>6. ASSUME poll' \in PollRecord, poll'.began <= clock, poll'.row = 1, poll'.stage = 1 PROVE
         FeedTyped' /\ HubInOrder' /\ NeverIdled'
  <2>1. FeedTyped'
    BY <1>1, <1>3, <1>4, <1>6 DEF FeedTyped
  <2>2. HubInOrder' /\ NeverIdled'
    BY <1>1, <1>4, <1>6 DEF FeedInv, HubInOrder, NeverIdled
  <2> QED
    BY <2>1, <2>2
<1>7. ASSUME NEW n \in FeedPulls PROVE CallsFit(n)' /\ TurnsFit(n)' /\ HeardFits(n)'
  <2>1. CallsFit(n) /\ TurnsFit(n) /\ HeardFits(n)
    BY DEF FeedInv
  <2>2. CallsFit(n)' /\ TurnsFit(n)'
    BY <1>1, <1>2, <2>1 DEF CallsFit, TurnsFit, LastCall, Reopening
  <2>3. HeardFits(n)'
    BY <1>1, <1>2, <2>1 DEF HeardFits, FoundByNumber
  <2> QED
    BY <2>2, <2>3
<1>8. CASE poll' = NoPoll
  <2>1. poll' \in PollRecord
    BY <1>8, BlanksTyped
  <2>2. /\ poll'.rows = <<>> /\ poll'.probes = <<>> /\ poll'.at = "idle" /\ poll'.whole = FALSE
        /\ poll'.passes = 0 /\ poll'.began = 0 /\ DOMAIN poll'.rows = {} /\ DOMAIN poll'.probes = {}
        /\ poll'.row = 1 /\ poll'.stage = 1 /\ Len(poll'.rows) = 0
    BY <1>8 DEF NoPoll
  <2>3. FeedTyped' /\ HubInOrder' /\ NeverIdled'
    BY <1>3, <1>6, <2>1, <2>2
  <2>4. ProbesWait'
    BY <2>2 DEF ProbesWait
  <2>5. feedRegime'.probes * poll'.passes = 0
    BY <1>1, <1>5, <2>2
  <2>6. ProbesCount'
    BY <1>1, <1>4, <1>5, <2>2, <2>5 DEF ProbesCount
  <2> QED
    BY <1>4, <1>7, <2>2, <2>3, <2>4, <2>6 DEF FeedInv
<1>9. CASE poll' # NoPoll
  <2>1. PICK rows, probes, reads, gone, unasked :
          /\ reads \in BOOLEAN /\ gone \subseteq withdrawn /\ unasked \subseteq FeedPulls
          /\ poll' = [at |-> "rows", rows |-> rows, row |-> 1, stage |-> 1, withdrawn |-> gone,
                      blind |-> ~reads, probes |-> probes, unasked |-> unasked, began |-> clock,
                      whole |-> FALSE, clean |-> TRUE, passes |-> IF reads THEN poll.passes ELSE 0]
          /\ rows \in Seq([n : FeedPulls, pull : PullRecord])
          /\ \A i \in DOMAIN rows :
               /\ rows[i].n \in FeedPulls /\ rows[i].pull = hub[rows[i].n] /\ hub[rows[i].n].state # "none"
               /\ \A j \in DOMAIN rows : rows[j].n = rows[i].n => i = j
          /\ reads => gone = withdrawn
          /\ probes \in Seq(FeedPulls)
          /\ \A i \in DOMAIN probes :
               /\ probes[i] \in gone \ (Numbers(rows) \cup memory.probed)
               /\ \A j \in DOMAIN probes : probes[i] = probes[j] => i = j
          /\ \A n \in gone \ (Numbers(rows) \cup memory.probed) : n \in Range(probes) \cup unasked
          /\ unasked # {} => Len(probes) = feedRegime.probes
    BY <1>9, PollGiven, Zenon
  <2>2. /\ poll'.rows = rows /\ poll'.probes = probes /\ poll'.at = "rows" /\ poll'.whole = FALSE
        /\ poll'.began = clock /\ poll'.row = 1 /\ poll'.stage = 1 /\ poll'.withdrawn = gone
        /\ poll'.blind = ~reads /\ poll'.unasked = unasked /\ poll'.clean = TRUE
        /\ poll'.passes = IF reads THEN poll.passes ELSE 0
    BY <2>1
  <2>3. poll' \in PollRecord
    <3>1. (IF reads THEN poll.passes ELSE 0) \in Nat /\ gone \subseteq FeedPulls
      BY <1>3, <2>1 DEF FeedTyped
    <3> QED
      BY <1>3, <2>1, <3>1 DEF PollRecord
  <2>4. FeedTyped' /\ HubInOrder' /\ NeverIdled'
    BY <1>3, <1>6, <2>2, <2>3
  <2>5. ASSUME NEW i \in DOMAIN rows PROVE RowShows(i)' /\ RowNotes(i)' /\ RowEnds(i)'
    <3>1. /\ rows[i].n \in FeedPulls /\ rows[i].pull = hub[rows[i].n] /\ hub[rows[i].n].state # "none"
          /\ \A j \in DOMAIN rows : rows[j].n = rows[i].n => i = j
          /\ i \in Nat \ {0}
      BY <2>1
    <3>2. \A k \in 1 .. 6 : ~Past(i, k)'
      BY <2>2, <3>1 DEF Past
    <3>3. RowShows(i)'
      BY <1>1, <2>2, <3>1 DEF RowShows
    <3>4. RowNotes(i)'
      BY <3>2 DEF RowNotes
    <3>5. told[rows[i].n].state = "merged" => hub[rows[i].n].state = "merged"
      BY <3>1 DEF FeedInv, HeardFits
    <3>6. reads \in BOOLEAN /\ gone \subseteq withdrawn /\ (reads => gone = withdrawn)
      BY <2>1
    <3>7. ~Past(i, 5)' /\ ~Past(i, 6)'
      BY <3>2
    <3>8. RowEnds(i)'
      BY <1>1, <2>2, <3>1, <3>5, <3>6, <3>7 DEF RowEnds
    <3> QED
      BY <3>3, <3>4, <3>8
  <2>6. ProbesWait'
    <3>1. Numbers(poll'.rows) = Numbers(rows)
      BY <2>2
    <3>2. \A i \in DOMAIN probes :
            /\ probes[i] \in withdrawn \ (Numbers(rows) \cup memory.probed)
            /\ \A j \in DOMAIN probes : probes[i] = probes[j] => i = j
      BY <2>1
    <3>3. reads => /\ withdrawn \subseteq gone \cup Numbers(rows)
                   /\ \A n \in withdrawn \ Numbers(rows) : n \in memory.probed \cup unasked \cup Range(probes)
      BY <2>1
    <3> QED
      BY <1>1, <2>2, <3>1, <3>2, <3>3 DEF ProbesWait
  <2>7. ProbesCount'
    <3>1. PICK p, k : p = feedRegime.probes /\ k = Cardinality(memory.probed) + Cardinality(Revived)
      OBVIOUS
    <3>2. p \in Nat /\ k \in Nat
      BY <1>5, <3>1
    <3>3. p * poll.passes <= k /\ p * 0 = 0
      BY <3>1, <3>2 DEF FeedInv, ProbesCount
    <3>4. p * poll'.passes <= k
      BY <2>1, <2>2, <3>2, <3>3
    <3>5. p * poll'.passes \in Nat
      BY <1>3, <2>1, <2>2, <3>2
    <3>6. unasked # {} => p * poll'.passes + p <= k + Len(probes)
      BY <2>1, <3>1, <3>2, <3>4, <3>5
    <3> QED
      BY <1>1, <1>4, <2>2, <3>1, <3>4, <3>6 DEF ProbesCount
  <2> QED
    BY <1>4, <1>7, <2>2, <2>4, <2>5, <2>6, <2>7 DEF FeedInv
<1> QED
  BY <1>8, <1>9

(* A row is worked through in stages: what each notes, and what is heard.      *)
RowIs(n, pull) ==
  /\ poll.at = "rows" /\ poll.row \in DOMAIN poll.rows
  /\ n = poll.rows[poll.row].n /\ pull = poll.rows[poll.row].pull

LEMMA StageTaken ==
  ASSUME FeedInv, TakeStage
  PROVE  \E n \in FeedPulls, pull \in PullRecord, stage \in Range(Stages) :
           /\ RowIs(n, pull) /\ stage = Stages[poll.stage] /\ memory' = Noted(stage)
           /\ UNCHANGED <<feedRegime, clock, hub, watched, ready>>
           /\ \/ ~Tells(stage) /\ Sees(n, pull) /\ Goes /\ UNCHANGED <<withdrawn, calls, missed>>
              \/ Tells(stage) /\ Hears(n, pull, stage) /\ Counts(n, stage, TRUE) /\ Goes /\ UNCHANGED missed
              \/ Tells(stage) /\ Falls(n) /\ Counts(n, stage, FALSE) /\ UNCHANGED <<told, withdrawn>>
<1>1. FeedTyped /\ poll.at = "rows" /\ poll.row <= Len(poll.rows)
  BY DEF FeedInv, TakeStage
<1>2. poll.row \in DOMAIN poll.rows /\ poll.stage \in 1 .. 6
  BY <1>1, RowsTyped
<1>3. PICK n, pull, stage : n = Row.n /\ pull = Row.pull /\ stage = Stages[poll.stage]
  OBVIOUS
<1>4. n \in FeedPulls /\ pull \in PullRecord
  BY <1>1, <1>2, <1>3, RowsTyped DEF Row
<1>5. stage \in Range(Stages)
  BY <1>2, <1>3 DEF Stages, Range
<1>6. RowIs(n, pull)
  BY <1>1, <1>2, <1>3 DEF RowIs, Row
<1>7. memory' = Noted(stage) /\ UNCHANGED <<feedRegime, clock, hub, watched, ready>>
  BY <1>3 DEF TakeStage, Notes, OnGitHub, WatchList
<1>8. \/ ~Tells(stage) /\ Sees(n, pull) /\ Goes /\ UNCHANGED <<withdrawn, calls, missed>>
      \/ Tells(stage) /\ Hears(n, pull, stage) /\ Counts(n, stage, TRUE) /\ Goes /\ UNCHANGED missed
      \/ Tells(stage) /\ Falls(n) /\ Counts(n, stage, FALSE) /\ UNCHANGED <<told, withdrawn>>
  BY <1>3, Zenon DEF TakeStage, Registry
<1> QED
  BY <1>3, <1>4, <1>5, <1>6, <1>7, <1>8

(* Which stage it is, and what it has to tell. *)
LEMMA StageNames ==
  /\ Stages[1] = "opened" /\ Stages[2] = "draft" /\ Stages[3] = "labeled"
  /\ Stages[4] = "review_requested" /\ Stages[5] = "reopened" /\ Stages[6] = "closed"
  /\ Len(Stages) = 6
  /\ Range(Stages) = {"opened", "draft", "labeled", "review_requested", "reopened", "closed"}
<1>1. Stages = <<"opened", "draft", "labeled", "review_requested", "reopened", "closed">>
  BY DEF Stages
<1>2. DOMAIN Stages = {1, 2, 3, 4, 5, 6}
  BY <1>1
<1>3. Range(Stages) = {Stages[1], Stages[2], Stages[3], Stages[4], Stages[5], Stages[6]}
  BY <1>2 DEF Range
<1> QED
  BY <1>1, <1>3

LEMMA StageTells ==
  ASSUME NEW n, NEW pull, RowIs(n, pull)
  PROVE  /\ Tells("opened") <=> n \notin memory.opened /\ \A s \in memory.since : pull.created >= s
         /\ Tells("draft") <=> Differs(memory.known[n].draft, pull.draft) /\ pull.state = "open"
         /\ Tells("labeled") <=> Differs(memory.known[n].labels, pull.labels)
         /\ Tells("review_requested")
              <=> \E seen0 \in memory.known[n].reviewers : ~(pull.reviewers \subseteq seen0)
         /\ Tells("reopened") <=> pull.state = "open" /\ (n \in memory.closed \/ n \in poll.withdrawn)
         /\ Tells("closed") <=> pull.state \in {"closed", "merged"} /\ n \notin memory.closed
  BY DEF RowIs, Tells, Row, Known

(* What a stage notes, of this pull request alone. *)
NotesSo(n, pull, k, noted) ==
  /\ noted \in MemoryRecord /\ noted.since = memory.since /\ noted.probed = memory.probed
  /\ noted.opened = IF k = 1 /\ Tells("opened") THEN memory.opened \cup {n} ELSE memory.opened
  /\ noted.closed = IF k = 5 /\ Tells("reopened") THEN memory.closed \ {n}
                    ELSE IF k = 6 /\ Tells("closed") THEN memory.closed \cup {n} ELSE memory.closed
  /\ \A m \in FeedPulls : m # n => noted.known[m] = memory.known[m]
  /\ noted.known[n].draft = IF k = 2 THEN {pull.draft} ELSE memory.known[n].draft
  /\ noted.known[n].labels = IF k = 3 THEN {pull.labels} ELSE memory.known[n].labels
  /\ noted.known[n].reviewers = IF k = 4 THEN {pull.reviewers} ELSE memory.known[n].reviewers

LEMMA StageNotes ==
  ASSUME FeedTyped, NEW n \in FeedPulls, NEW pull \in PullRecord, RowIs(n, pull),
         NEW k \in 1 .. 6, NEW noted, noted = Noted(Stages[k])
  PROVE  NotesSo(n, pull, k, noted)
<1> USE DEF NotesSo
<1>1. memory \in MemoryRecord /\ n = Row.n /\ pull = Row.pull
  BY DEF FeedTyped, RowIs, Row
<1>2. /\ memory.known \in [FeedPulls -> KnownRecord] /\ memory.known[n] \in KnownRecord
      /\ memory.opened \subseteq FeedPulls /\ memory.closed \subseteq FeedPulls
      /\ memory.branches \subseteq FeedPulls
  BY <1>1 DEF MemoryRecord
<1>3. pull.draft \in BOOLEAN /\ pull.labels \in {0, 1} /\ pull.reviewers \in Reviewers
  BY DEF PullRecord
<1>4. CASE k = 1
  <2>1. noted = IF Tells("opened") THEN [memory EXCEPT !.opened = @ \cup {n}] ELSE memory
    BY <1>1, <1>4, StageNames DEF Noted
  <2> QED
    BY <1>1, <1>2, <1>4, <2>1 DEF MemoryRecord
<1>5. CASE k = 5
  <2>1. noted = IF Tells("reopened") THEN [memory EXCEPT !.closed = @ \ {n}] ELSE memory
    BY <1>1, <1>5, StageNames DEF Noted
  <2>2. CASE Tells("reopened")
    <3>1. noted = [memory EXCEPT !.closed = memory.closed \ {n}]
      BY <2>1, <2>2
    <3> QED
      BY <1>1, <1>2, <1>5, <2>2, <3>1 DEF MemoryRecord
  <2>3. CASE ~Tells("reopened")
    BY <1>1, <1>2, <1>5, <2>1, <2>3 DEF MemoryRecord
  <2> QED
    BY <2>2, <2>3
<1>6. CASE k = 6
  <2>1. noted = IF Tells("closed") THEN [memory EXCEPT !.closed = @ \cup {n}] ELSE memory
    BY <1>1, <1>6, StageNames DEF Noted
  <2>2. CASE Tells("closed")
    <3>1. noted = [memory EXCEPT !.closed = memory.closed \cup {n}]
      BY <2>1, <2>2
    <3> QED
      BY <1>1, <1>2, <1>6, <2>2, <3>1 DEF MemoryRecord
  <2>3. CASE ~Tells("closed")
    BY <1>1, <1>2, <1>6, <2>1, <2>3 DEF MemoryRecord
  <2> QED
    BY <2>2, <2>3
<1>7. CASE k = 2
  <2>1. noted = [memory EXCEPT !.known[n].draft = {pull.draft}]
    BY <1>1, <1>7, StageNames DEF Noted
  <2>2. PICK it : it = [memory.known[n] EXCEPT !.draft = {pull.draft}]
    OBVIOUS
  <2>3. noted = [memory EXCEPT !.known = [memory.known EXCEPT ![n] = it]]
    BY <2>1, <2>2
  <2>4. /\ it \in KnownRecord /\ it.draft = {pull.draft} /\ it.labels = memory.known[n].labels
        /\ it.reviewers = memory.known[n].reviewers
    BY <1>2, <1>3, <2>2 DEF KnownRecord
  <2> QED
    BY <1>1, <1>2, <1>7, <2>3, <2>4 DEF MemoryRecord
<1>8. CASE k = 3
  <2>1. PICK heads : heads = IF pull.state = "open" THEN memory.branches \cup {n} ELSE memory.branches \ {n}
    OBVIOUS
  <2>2. noted = [memory EXCEPT !.known[n].labels = {pull.labels}, !.branches = heads]
    BY <1>1, <1>8, <2>1, StageNames DEF Noted
  <2>3. PICK it : it = [memory.known[n] EXCEPT !.labels = {pull.labels}]
    OBVIOUS
  <2>4. noted = [memory EXCEPT !.known = [memory.known EXCEPT ![n] = it], !.branches = heads]
    BY <2>2, <2>3
  <2>5. /\ it \in KnownRecord /\ it.labels = {pull.labels} /\ it.draft = memory.known[n].draft
        /\ it.reviewers = memory.known[n].reviewers
    BY <1>2, <1>3, <2>3 DEF KnownRecord
  <2>6. heads \subseteq FeedPulls
    BY <1>2, <2>1
  <2>7. PICK known : known = [memory.known EXCEPT ![n] = it]
    OBVIOUS
  <2>8. /\ known \in [FeedPulls -> KnownRecord] /\ known[n] = it
        /\ \A m \in FeedPulls : m # n => known[m] = memory.known[m]
    BY <1>2, <2>5, <2>7
  <2>9. noted = [memory EXCEPT !.known = known, !.branches = heads]
    BY <2>4, <2>7
  <2>10. /\ noted \in MemoryRecord /\ noted.since = memory.since /\ noted.probed = memory.probed
        /\ noted.opened = memory.opened /\ noted.closed = memory.closed /\ noted.known = known
    BY <1>1, <2>6, <2>8, <2>9 DEF MemoryRecord
  <2> QED
    BY <1>8, <2>5, <2>8, <2>10
<1>9. CASE k = 4
  <2>1. noted = [memory EXCEPT !.known[n].reviewers = {pull.reviewers}]
    BY <1>1, <1>9, StageNames DEF Noted
  <2>2. PICK it : it = [memory.known[n] EXCEPT !.reviewers = {pull.reviewers}]
    OBVIOUS
  <2>3. noted = [memory EXCEPT !.known = [memory.known EXCEPT ![n] = it]]
    BY <2>1, <2>2
  <2>4. /\ it \in KnownRecord /\ it.reviewers = {pull.reviewers} /\ it.draft = memory.known[n].draft
        /\ it.labels = memory.known[n].labels
    BY <1>2, <1>3, <2>2 DEF KnownRecord
  <2> QED
    BY <1>1, <1>2, <1>9, <2>3, <2>4 DEF MemoryRecord
<1> QED
  BY <1>4, <1>5, <1>6, <1>7, <1>8, <1>9

(* What is heard, of this pull request alone. *)
LEMMA SeenSo ==
  ASSUME FeedTyped, NEW n \in FeedPulls, NEW pull \in PullRecord, RowIs(n, pull), Sees(n, pull)
  PROVE  /\ told' \in [FeedPulls -> ToldRecord] /\ \A m \in FeedPulls : m # n => told'[m] = told[m]
         /\ told'[n].state = told[n].state
         /\ told'[n].draft = IF memory.known[n].draft = {} /\ n \notin memory.opened THEN pull.draft ELSE told[n].draft
         /\ told'[n].labels = IF memory.known[n].labels = {} THEN pull.labels ELSE told[n].labels
         /\ told'[n].reviewers = IF memory.known[n].reviewers = {} THEN pull.reviewers ELSE told[n].reviewers
<1>1. PICK d, l, r :
        /\ d = IF memory.known[n].draft = {} /\ n \notin memory.opened THEN pull.draft ELSE told[n].draft
        /\ l = IF memory.known[n].labels = {} THEN pull.labels ELSE told[n].labels
        /\ r = IF memory.known[n].reviewers = {} THEN pull.reviewers ELSE told[n].reviewers
  OBVIOUS
<1>2. Known = memory.known[n]
  BY DEF Known, Row, RowIs
<1>3. told' = [told EXCEPT ![n] = [state |-> told[n].state, draft |-> d, labels |-> l, reviewers |-> r]]
  BY <1>1, <1>2 DEF Sees
<1>4. told \in [FeedPulls -> ToldRecord] /\ told[n] \in ToldRecord
  BY DEF FeedTyped
<1>5. d \in BOOLEAN /\ l \in {0, 1} /\ r \in Reviewers
  BY <1>1, <1>4 DEF ToldRecord, PullRecord
<1>6. PICK it : it = [state |-> told[n].state, draft |-> d, labels |-> l, reviewers |-> r]
  OBVIOUS
<1>7. it \in ToldRecord /\ it.state = told[n].state /\ it.draft = d /\ it.labels = l /\ it.reviewers = r
  BY <1>4, <1>5, <1>6 DEF ToldRecord
<1> QED
  BY <1>1, <1>3, <1>4, <1>6, <1>7

LEMMA HeardSo ==
  ASSUME FeedTyped, NEW n \in FeedPulls, NEW pull \in PullRecord, NEW stage \in Range(Stages), Hears(n, pull, stage)
  PROVE  /\ told' \in [FeedPulls -> ToldRecord] /\ \A m \in FeedPulls : m # n => told'[m] = told[m]
         /\ told'[n].state = IF stage \in {"opened", "reopened"} THEN "open"
                             ELSE IF stage = "closed" THEN pull.state ELSE told[n].state
         /\ told'[n].draft = IF stage \in {"opened", "reopened", "draft"} THEN pull.draft ELSE told[n].draft
         /\ told'[n].labels = IF stage = "labeled" THEN pull.labels ELSE told[n].labels
         /\ told'[n].reviewers = IF stage = "review_requested" THEN pull.reviewers ELSE told[n].reviewers
         /\ withdrawn' \subseteq FeedPulls /\ \A m \in FeedPulls : m # n => (m \in withdrawn' <=> m \in withdrawn)
         /\ stage = "reopened" => n \notin withdrawn'
         /\ stage \notin {"reopened", "closed"} => withdrawn' = withdrawn
<1>1. PICK it :
        it = CASE stage \in {"opened", "reopened"} -> [told[n] EXCEPT !.state = "open", !.draft = pull.draft]
               [] stage = "draft" -> [told[n] EXCEPT !.draft = pull.draft]
               [] stage = "labeled" -> [told[n] EXCEPT !.labels = pull.labels]
               [] stage = "review_requested" -> [told[n] EXCEPT !.reviewers = pull.reviewers]
               [] stage = "closed" -> [told[n] EXCEPT !.state = pull.state]
  OBVIOUS
<1>2. told' = [told EXCEPT ![n] = it]
  BY <1>1 DEF Hears
<1>3. told \in [FeedPulls -> ToldRecord] /\ told[n] \in ToldRecord /\ withdrawn \subseteq FeedPulls
  BY DEF FeedTyped
<1>4. stage \in {"opened", "draft", "labeled", "review_requested", "reopened", "closed"}
  BY StageNames
<1>5. /\ it \in ToldRecord
      /\ it.state = IF stage \in {"opened", "reopened"} THEN "open"
                    ELSE IF stage = "closed" THEN pull.state ELSE told[n].state
      /\ it.draft = IF stage \in {"opened", "reopened", "draft"} THEN pull.draft ELSE told[n].draft
      /\ it.labels = IF stage = "labeled" THEN pull.labels ELSE told[n].labels
      /\ it.reviewers = IF stage = "review_requested" THEN pull.reviewers ELSE told[n].reviewers
  BY <1>1, <1>3, <1>4 DEF ToldRecord, PullRecord, PullStates
<1>6. withdrawn' = CASE stage = "reopened" -> withdrawn \ {n}
                     [] stage = "closed" /\ pull.state = "closed" /\ n \in linked -> withdrawn \cup {n}
                     [] OTHER -> withdrawn
  BY DEF Hears
<1>7. /\ withdrawn' \subseteq FeedPulls /\ \A m \in FeedPulls : m # n => (m \in withdrawn' <=> m \in withdrawn)
      /\ stage = "reopened" => n \notin withdrawn'
      /\ stage \notin {"reopened", "closed"} => withdrawn' = withdrawn
  BY <1>3, <1>6
<1> QED
  BY <1>2, <1>3, <1>5, <1>7

(* A call is added to those of a pull request. *)
LEMMA AppendParts ==
  ASSUME NEW T, NEW s \in Seq(T), NEW e \in T
  PROVE  /\ Append(s, e) \in Seq(T) /\ Len(s) \in Nat /\ Len(Append(s, e)) = Len(s) + 1
         /\ DOMAIN s = 1 .. Len(s) /\ DOMAIN Append(s, e) = 1 .. Len(s) + 1
         /\ \A i \in 1 .. Len(s) : Append(s, e)[i] = s[i]
         /\ Append(s, e)[Len(s) + 1] = e
  OBVIOUS

RevivedOf(S, f) == UNION {{<<n, i>> : i \in {j \in DOMAIN f[n] : f[n][j] = <<"found", TRUE>>}} : n \in S}

RevivedAt(S, f, x) == \E n \in S : \E i \in DOMAIN f[n] : f[n][i] = <<"found", TRUE>> /\ x = <<n, i>>

LEMMA Revivals == ASSUME NEW S, NEW f, NEW x PROVE x \in RevivedOf(S, f) <=> RevivedAt(S, f, x)
<1>1. ASSUME x \in RevivedOf(S, f)
      PROVE  RevivedAt(S, f, x)
  <2>1. PICK n \in S : x \in {<<n, i>> : i \in {j \in DOMAIN f[n] : f[n][j] = <<"found", TRUE>>}}
    BY <1>1 DEF RevivedOf
  <2>2. PICK i : i \in {j \in DOMAIN f[n] : f[n][j] = <<"found", TRUE>>} /\ x = <<n, i>>
    BY <2>1
  <2> QED
    BY <2>2 DEF RevivedAt
<1>2. ASSUME NEW n \in S, NEW i \in DOMAIN f[n], f[n][i] = <<"found", TRUE>>, x = <<n, i>>
      PROVE  x \in RevivedOf(S, f)
  <2>1. x \in {<<n, j>> : j \in {k \in DOMAIN f[n] : f[n][k] = <<"found", TRUE>>}}
    BY <1>2
  <2> QED
    BY <2>1 DEF RevivedOf
<1> QED
  BY <1>1, <1>2 DEF RevivedAt

LEMMA CallAdded ==
  ASSUME FeedTyped, UNCHANGED feedRegime, NEW n \in FeedPulls, NEW c \in Call,
         calls' = [calls EXCEPT ![n] = Append(@, c)]
  PROVE  /\ calls' \in [FeedPulls -> Seq(Call)] /\ \A m \in FeedPulls : m # n => calls'[m] = calls[m]
         /\ Len(calls[n]) \in Nat /\ Len(calls'[n]) = Len(calls[n]) + 1
         /\ DOMAIN calls[n] = 1 .. Len(calls[n]) /\ DOMAIN calls'[n] = 1 .. Len(calls[n]) + 1
         /\ \A i \in 1 .. Len(calls[n]) : calls'[n][i] = calls[n][i]
         /\ calls'[n][Len(calls[n]) + 1] = c
         /\ c # <<"found", TRUE>> => Revived' = Revived
         /\ c = <<"found", TRUE>> =>
              Revived' = Revived \cup {<<n, Len(calls[n]) + 1>>} /\ <<n, Len(calls[n]) + 1>> \notin Revived
<1>1. calls \in [FeedPulls -> Seq(Call)] /\ calls[n] \in Seq(Call) /\ FeedPulls' = FeedPulls
  BY FeedSteady DEF FeedTyped
<1>2. PICK s, t : s = calls[n] /\ t = Append(s, c)
  OBVIOUS
<1>3. /\ t \in Seq(Call) /\ Len(s) \in Nat /\ Len(t) = Len(s) + 1
      /\ DOMAIN s = 1 .. Len(s) /\ DOMAIN t = 1 .. Len(s) + 1
      /\ \A i \in 1 .. Len(s) : t[i] = s[i]
      /\ t[Len(s) + 1] = c
  BY <1>1, <1>2, AppendParts
<1>4. /\ calls' \in [FeedPulls -> Seq(Call)] /\ calls'[n] = t
      /\ \A m \in FeedPulls : m # n => calls'[m] = calls[m]
  BY <1>1, <1>2, <1>3
<1>5. \A x : x \in Revived <=> RevivedAt(FeedPulls, calls, x)
  <2>1. Revived = RevivedOf(FeedPulls, calls)
    BY DEF Revived, RevivedOf
  <2> QED
    BY <2>1, Revivals, Zenon
<1>6. \A x : x \in Revived' <=> RevivedAt(FeedPulls, calls', x)
  <2>1. Revived' = RevivedOf(FeedPulls, calls')
    BY <1>1 DEF Revived, RevivedOf
  <2> QED
    BY <2>1, Revivals, Zenon
<1>7. Len(s) + 1 \notin DOMAIN s /\ Len(s) + 1 \in DOMAIN t /\ \A i \in DOMAIN t : i \in DOMAIN s \/ i = Len(s) + 1
  BY <1>3
<1>8. \A i \in DOMAIN s : i \in DOMAIN t /\ t[i] = s[i]
  BY <1>3
<1>9. PICK l : l = Len(s) + 1
  OBVIOUS
<1>10. <<n, l>> \notin Revived
  <2> SUFFICES ASSUME <<n, l>> \in Revived PROVE FALSE
    OBVIOUS
  <2>1. PICK m \in FeedPulls, i \in Nat : i \in DOMAIN calls[m] /\ <<n, l>> = <<m, i>>
    <3>1. PICK m \in FeedPulls : \E i \in DOMAIN calls[m] : calls[m][i] = <<"found", TRUE>> /\ <<n, l>> = <<m, i>>
      BY <1>5 DEF RevivedAt
    <3>2. PICK i \in DOMAIN calls[m] : <<n, l>> = <<m, i>>
      BY <3>1
    <3>3. m = n /\ i = l
      BY <3>2
    <3>4. l \in Nat
      BY <1>3, <1>9
    <3> QED
      BY <3>2, <3>3, <3>4
  <2>2. l \in DOMAIN s
    BY <1>2, <2>1
  <2> QED
    BY <1>7, <1>9, <2>2
<1>11. ASSUME NEW x PROVE x \in Revived => x \in Revived'
  <2> SUFFICES ASSUME x \in Revived PROVE x \in Revived'
    OBVIOUS
  <2>1. RevivedAt(FeedPulls, calls, x)
    BY <1>5
  <2>2. PICK m \in FeedPulls : \E i \in DOMAIN calls[m] : calls[m][i] = <<"found", TRUE>> /\ x = <<m, i>>
    BY <2>1 DEF RevivedAt
  <2>3. PICK i \in DOMAIN calls[m] : calls[m][i] = <<"found", TRUE>> /\ x = <<m, i>>
    BY <2>2
  <2>4. i \in DOMAIN calls'[m] /\ calls'[m][i] = calls[m][i]
    BY <1>2, <1>4, <1>8
  <2> QED
    BY <1>6, <2>3, <2>4 DEF RevivedAt
<1>12. ASSUME NEW x PROVE x \in Revived' => x \in Revived \/ (x = <<n, l>> /\ c = <<"found", TRUE>>)
  <2> SUFFICES ASSUME x \in Revived' PROVE x \in Revived \/ (x = <<n, l>> /\ c = <<"found", TRUE>>)
    OBVIOUS
  <2>1. RevivedAt(FeedPulls, calls', x)
    BY <1>6
  <2>2. PICK m \in FeedPulls : \E i \in DOMAIN calls'[m] : calls'[m][i] = <<"found", TRUE>> /\ x = <<m, i>>
    BY <2>1 DEF RevivedAt
  <2>3. PICK i : i \in DOMAIN calls'[m] /\ calls'[m][i] = <<"found", TRUE>> /\ x = <<m, i>>
    BY <2>2
  <2>4. CASE m # n
    <3>1. calls'[m] = calls[m]
      BY <1>4, <2>4
    <3> QED
      BY <1>5, <2>3, <3>1 DEF RevivedAt
  <2>5. CASE m = n
    <3>1. CASE i \in DOMAIN s
      <4>1. calls[m][i] = <<"found", TRUE>> /\ i \in DOMAIN calls[m]
        BY <1>2, <1>4, <1>8, <2>3, <2>5, <3>1
      <4> QED
        BY <1>5, <2>3, <4>1 DEF RevivedAt
    <3>2. CASE i = l
      <4>1. calls'[n][l] = c
        BY <1>3, <1>4, <1>9
      <4> QED
        BY <2>3, <2>5, <3>2, <4>1
    <3> QED
      BY <1>4, <1>7, <1>9, <2>3, <2>5, <3>1, <3>2
  <2> QED
    BY <2>4, <2>5
<1>13. c # <<"found", TRUE>> => Revived' = Revived
  BY <1>11, <1>12
<1>14. c = <<"found", TRUE>> => <<n, l>> \in Revived'
  <2> SUFFICES ASSUME c = <<"found", TRUE>> PROVE <<n, l>> \in Revived'
    OBVIOUS
  <2>1. l \in DOMAIN calls'[n] /\ calls'[n][l] = <<"found", TRUE>>
    BY <1>3, <1>4, <1>7, <1>9
  <2> QED
    BY <1>6, <2>1 DEF RevivedAt
<1>15. c = <<"found", TRUE>> => Revived' = Revived \cup {<<n, l>>}
  BY <1>11, <1>12, <1>14
<1>16. /\ Len(calls[n]) \in Nat /\ Len(calls'[n]) = Len(calls[n]) + 1
       /\ DOMAIN calls[n] = 1 .. Len(calls[n]) /\ DOMAIN calls'[n] = 1 .. Len(calls[n]) + 1
       /\ \A i \in 1 .. Len(calls[n]) : calls'[n][i] = calls[n][i]
       /\ calls'[n][Len(calls[n]) + 1] = c /\ l = Len(calls[n]) + 1
  BY <1>2, <1>3, <1>4, <1>9
<1> QED
  BY <1>4, <1>10, <1>13, <1>15, <1>16

(* The turns, when the call is one that may follow.                            *)
LEMMA CallFollows ==
  ASSUME FeedInv, UNCHANGED feedRegime, NEW n \in FeedPulls, NEW c \in Call,
         calls' = [calls EXCEPT ![n] = Append(@, c)],
         NEW s, s = calls[n],
         n \in memory.closed' <=> c[1] = "closed",
         IsOld(n) => IsOld(n)', c[1] # "found" => IsOld(n)',
         c[1] = "opened" => \A i \in DOMAIN s : s[i][1] = "found",
         c[1] = "closed" => n \notin memory.closed,
         Reopening(c) => n \in memory.closed \/ n \in withdrawn,
         n \in withdrawn' => \/ c[1] = "closed" \/ (Reopening(c) /\ ~c[2])
                             \/ c[1] = "opened" /\ \A i \in DOMAIN s : ~s[i][2],
         c[1] = "found" => (n \in withdrawn' => n \in withdrawn)
  PROVE  CallsFit(n)' /\ TurnsFit(n)'
<1>1. CallsFit(n) /\ TurnsFit(n) /\ FeedTyped
  BY DEF FeedInv
<1>2. PICK t, l : t = calls'[n] /\ l = Len(s)
  OBVIOUS
<1>3. /\ l \in Nat /\ Len(t) = l + 1 /\ DOMAIN s = 1 .. l /\ DOMAIN t = 1 .. l + 1
      /\ \A i \in 1 .. l : t[i] = s[i]
      /\ t[l + 1] = c
  <2>1. /\ Len(calls[n]) \in Nat /\ Len(calls'[n]) = Len(calls[n]) + 1
        /\ DOMAIN calls[n] = 1 .. Len(calls[n]) /\ DOMAIN calls'[n] = 1 .. Len(calls[n]) + 1
        /\ \A i \in 1 .. Len(calls[n]) : calls'[n][i] = calls[n][i]
        /\ calls'[n][Len(calls[n]) + 1] = c
    BY <1>1, CallAdded, Zenon
  <2> QED
    BY <1>2, <2>1
<1>4. /\ (\E i \in DOMAIN s : s[i][1] # "found") => IsOld(n)
      /\ n \in memory.closed <=> s # <<>> /\ s[l][1] = "closed"
      /\ n \in withdrawn =>
           /\ \/ s = <<>> \/ s[l][1] = "closed"
              \/ Reopening(s[l]) /\ ~s[l][2]
              \/ s[l][1] = "opened" /\ \A j \in 1 .. l - 1 : ~s[j][2]
           /\ (\A i \in DOMAIN s : s[i][1] = "found") => \A i \in DOMAIN s : ~s[i][2]
  BY <1>1, <1>2 DEF CallsFit, LastCall
<1>5. t # <<>> /\ t[Len(t)] = c
  BY <1>3
<1>6. (\E i \in DOMAIN t : t[i][1] # "found") => IsOld(n)'
  <2> SUFFICES ASSUME NEW i \in DOMAIN t, t[i][1] # "found" PROVE IsOld(n)'
    OBVIOUS
  <2>1. CASE i \in 1 .. l
    BY <1>3, <1>4, <2>1
  <2>2. CASE i = l + 1
    BY <1>3, <2>2
  <2> QED
    BY <1>3, <2>1, <2>2
<1>7. ASSUME n \in withdrawn'
      PROVE  /\ \/ c[1] = "closed" \/ (Reopening(c) /\ ~c[2])
                \/ c[1] = "opened" /\ \A j \in 1 .. Len(t) - 1 : ~t[j][2]
             /\ (\A i \in DOMAIN t : t[i][1] = "found") => \A i \in DOMAIN t : ~t[i][2]
  <2>1. \A j \in 1 .. Len(t) - 1 : j \in DOMAIN s /\ t[j] = s[j]
    BY <1>3
  <2>2. \/ c[1] = "closed" \/ (Reopening(c) /\ ~c[2])
        \/ c[1] = "opened" /\ \A j \in 1 .. Len(t) - 1 : ~t[j][2]
    BY <1>7, <2>1
  <2>3. ASSUME \A i \in DOMAIN t : t[i][1] = "found" PROVE \A i \in DOMAIN t : ~t[i][2]
    <3>1. l + 1 \in DOMAIN t /\ \A i \in DOMAIN s : i \in DOMAIN t /\ t[i] = s[i]
      BY <1>3
    <3>2. c[1] = "found" /\ \A i \in DOMAIN s : s[i][1] = "found"
      BY <1>3, <2>3, <3>1
    <3>3. n \in withdrawn /\ ~c[2]
      BY <1>7, <2>2, <3>2
    <3>4. \A i \in DOMAIN s : ~s[i][2]
      BY <1>4, <3>2, <3>3
    <3>5. \A i \in DOMAIN t : i \in DOMAIN s \/ i = l + 1
      BY <1>3
    <3> QED
      BY <1>3, <3>1, <3>3, <3>4, <3>5
  <2> QED
    BY <2>2, <2>3
<1>8. CallsFit(n)'
  BY <1>2, <1>5, <1>6, <1>7 DEF CallsFit, LastCall
<1>9. ASSUME NEW i \in 1 .. Len(t) - 1
      PROVE  /\ t[i + 1][1] = "opened" => \A j \in 1 .. i : t[j][1] = "found"
             /\ t[i + 1][1] = "closed" => t[i][1] # "closed"
             /\ Reopening(t[i + 1]) =>
                  \/ t[i][1] = "closed"
                  \/ Reopening(t[i]) /\ ~t[i][2]
                  \/ t[i][1] = "opened" /\ \A j \in 1 .. i - 1 : ~t[j][2]
  <2>1. i \in 1 .. l /\ i \in Nat /\ t[i] = s[i] /\ \A j \in 1 .. i : j \in DOMAIN s /\ t[j] = s[j]
    BY <1>3
  <2>2. CASE i < l
    <3>1. i \in 1 .. l - 1 /\ t[i + 1] = s[i + 1] /\ \A j \in 1 .. i - 1 : j \in 1 .. i
      <4>1. \A j \in 1 .. i - 1 : j \in 1 .. i
        BY <2>1
      <4>2. l \in Nat
        BY <1>3
      <4>3. i \in 1 .. l - 1 /\ i + 1 \in 1 .. l
        BY <2>1, <2>2, <4>2
      <4>4. t[i + 1] = s[i + 1]
        BY <1>3, <4>3
      <4> QED
        BY <4>1, <4>3, <4>4
    <3>2. /\ s[i + 1][1] = "opened" => \A j \in 1 .. i : s[j][1] = "found"
          /\ s[i + 1][1] = "closed" => s[i][1] # "closed"
          /\ Reopening(s[i + 1]) =>
               \/ s[i][1] = "closed"
               \/ Reopening(s[i]) /\ ~s[i][2]
               \/ s[i][1] = "opened" /\ \A j \in 1 .. i - 1 : ~s[j][2]
      BY <1>1, <1>2, <3>1 DEF TurnsFit, TakeTurns
    <3> QED
      BY <2>1, <3>1, <3>2
  <2>3. CASE i = l
    <3>1. t[i + 1] = c /\ s # <<>> /\ t[i] = s[l] /\ \A j \in 1 .. l - 1 : j \in 1 .. i
      BY <1>3, <2>1, <2>3
    <3>2. c[1] = "opened" => \A j \in 1 .. i : t[j][1] = "found"
      BY <2>1
    <3>3. c[1] = "closed" => t[i][1] # "closed"
      BY <1>4, <3>1
    <3>4. Reopening(c) => \/ s[l][1] = "closed"
                          \/ Reopening(s[l]) /\ ~s[l][2]
                          \/ s[l][1] = "opened" /\ \A j \in 1 .. l - 1 : ~s[j][2]
      BY <1>4, <3>1
    <3>5. \A j \in 1 .. l - 1 : t[j] = s[j]
      BY <2>1, <3>1
    <3> QED
      BY <2>3, <3>1, <3>2, <3>3, <3>4, <3>5
  <2> QED
    BY <1>3, <2>1, <2>2, <2>3
<1>10. TurnsFit(n)'
  <2>1. TakeTurns(t)
    BY <1>9 DEF TakeTurns
  <2> QED
    BY <1>2, <2>1 DEF TurnsFit
<1> QED
  BY <1>8, <1>10

(* The poll goes on to the next stage, or the next row. *)
LEMMA RowGoes ==
  ASSUME FeedTyped, NEW at \in DOMAIN poll.rows, at = poll.row, Goes
  PROVE  /\ poll' \in PollRecord /\ poll'.at = poll.at /\ poll'.rows = poll.rows
         /\ poll'.withdrawn = poll.withdrawn /\ poll'.blind = poll.blind /\ poll'.probes = poll.probes
         /\ poll'.unasked = poll.unasked /\ poll'.began = poll.began /\ poll'.whole = poll.whole
         /\ poll'.clean = poll.clean /\ poll'.passes = poll.passes
         /\ \/ poll.stage \in 1 .. 5 /\ poll'.row = poll.row /\ poll'.stage = poll.stage + 1
            \/ poll.stage = 6 /\ poll'.row = poll.row + 1 /\ poll'.stage = 1
         /\ \A k \in 1 .. 6 : Past(at, k)' <=> k <= poll.stage
         /\ \A j \in DOMAIN poll.rows, k \in 1 .. 6 : j # at => (Past(j, k)' <=> Past(j, k))
<1>1. poll \in PollRecord /\ Len(Stages) = 6
  BY StageNames DEF FeedTyped
<1>2. /\ poll.row \in Nat \ {0} /\ poll.stage \in 1 .. 6 /\ Len(poll.rows) \in Nat
      /\ DOMAIN poll.rows = 1 .. Len(poll.rows)
  BY RowsTyped
<1>3. PICK row, stage : /\ row = IF poll.stage < 6 THEN poll.row ELSE poll.row + 1
                        /\ stage = IF poll.stage < 6 THEN poll.stage + 1 ELSE 1
  OBVIOUS
<1>4. row \in Nat \ {0} /\ stage \in 1 .. 6
  BY <1>2, <1>3
<1>5. poll' = [poll EXCEPT !.row = row, !.stage = stage]
  <2>1. CASE poll.stage < 6
    <3>1. poll' = [poll EXCEPT !.stage = poll.stage + 1]
      BY <1>1, <2>1 DEF Goes
    <3>2. row = poll.row /\ stage = poll.stage + 1
      BY <1>3, <2>1
    <3> QED
      BY <1>1, <3>1, <3>2 DEF PollRecord
  <2>2. CASE ~(poll.stage < 6)
    BY <1>1, <1>3, <2>2 DEF Goes
  <2> QED
    BY <2>1, <2>2
<1>6. /\ poll' \in PollRecord /\ poll'.at = poll.at /\ poll'.rows = poll.rows
      /\ poll'.withdrawn = poll.withdrawn /\ poll'.blind = poll.blind /\ poll'.probes = poll.probes
      /\ poll'.unasked = poll.unasked /\ poll'.began = poll.began /\ poll'.whole = poll.whole
      /\ poll'.clean = poll.clean /\ poll'.passes = poll.passes /\ poll'.row = row /\ poll'.stage = stage
  BY <1>1, <1>4, <1>5 DEF PollRecord
<1>7. \/ poll.stage \in 1 .. 5 /\ row = poll.row /\ stage = poll.stage + 1
      \/ poll.stage = 6 /\ row = poll.row + 1 /\ stage = 1
  BY <1>2, <1>3
<1>8. ASSUME NEW k \in 1 .. 6 PROVE Past(at, k)' <=> k <= poll.stage
  <2>1. Past(at, k)' <=> at < row \/ (at = row /\ stage > k)
    BY <1>6 DEF Past
  <2> QED
    BY <1>2, <1>7, <2>1
<1>9. ASSUME NEW j \in DOMAIN poll.rows, NEW k \in 1 .. 6, j # at PROVE Past(j, k)' <=> Past(j, k)
  <2>1. Past(j, k)' <=> j < row \/ (j = row /\ stage > k)
    BY <1>6 DEF Past
  <2>2. j \in Nat
    BY <1>2
  <2> QED
    BY <1>2, <1>7, <1>9, <2>1, <2>2 DEF Past
<1> QED
  BY <1>6, <1>7, <1>8, <1>9

(* What happens at a row is about its own pull request. *)
OthersKeep(n) ==
  \A m \in FeedPulls : m # n =>
    /\ memory'.known[m] = memory.known[m] /\ told'[m] = told[m] /\ calls'[m] = calls[m]
    /\ m \in memory'.opened <=> m \in memory.opened
    /\ m \in memory'.closed <=> m \in memory.closed
    /\ m \in withdrawn' <=> m \in withdrawn
    /\ m \in missed <=> m \in missed'

LEMMA RowMoves ==
  ASSUME FeedInv, NEW n \in FeedPulls, NEW pull, RowIs(n, pull), NEW at, at = poll.row,
         UNCHANGED <<feedRegime, clock, hub, watched, ready>>,
         memory' \in MemoryRecord, memory'.since = memory.since, memory'.probed = memory.probed,
         told' \in [FeedPulls -> ToldRecord], calls' \in [FeedPulls -> Seq(Call)],
         withdrawn' \subseteq FeedPulls, Revived' = Revived, OthersKeep(n),
         Goes \/ poll' = NoPoll, Goes => RowNotes(at)' /\ RowEnds(at)',
         CallsFit(n)', TurnsFit(n)', HeardFits(n)'
  PROVE  FeedInv'
<1>1. FeedTyped /\ poll \in PollRecord /\ at \in DOMAIN poll.rows /\ poll.rows[at].n = n
  BY DEF FeedInv, FeedTyped, RowIs
<1>2. /\ FeedPulls' = FeedPulls /\ PullRecord' = PullRecord /\ ToldRecord' = ToldRecord
      /\ MemoryRecord' = MemoryRecord /\ PollRecord' = PollRecord
  BY FeedSteady
<1>3. /\ clock \in Nat /\ clock' = clock /\ hub' = hub /\ watched' = watched /\ ready' = ready
      /\ feedRegime' = feedRegime
  BY <1>1 DEF FeedTyped
<1>4. ASSUME poll' \in PollRecord, poll'.began <= clock PROVE FeedTyped' /\ HubInOrder' /\ NeverIdled'
  <2>1. FeedTyped'
    BY <1>1, <1>2, <1>3, <1>4 DEF FeedTyped
  <2>2. HubInOrder' /\ NeverIdled'
    BY <1>2, <1>3, <1>4 DEF FeedInv, HubInOrder, NeverIdled
  <2> QED
    BY <2>1, <2>2
<1>5. \A m \in FeedPulls : m # n => (IsOld(m)' <=> IsOld(m))
  BY <1>3 DEF OthersKeep, IsOld
<1>6. ASSUME NEW m \in FeedPulls, m # n PROVE CallsFit(m)' /\ TurnsFit(m)' /\ HeardFits(m)'
  <2>1. CallsFit(m) /\ TurnsFit(m) /\ HeardFits(m)
    BY DEF FeedInv
  <2>2. /\ memory'.known[m] = memory.known[m] /\ told'[m] = told[m] /\ calls'[m] = calls[m]
        /\ m \in memory'.opened <=> m \in memory.opened
        /\ m \in memory'.closed <=> m \in memory.closed
        /\ m \in withdrawn' <=> m \in withdrawn
        /\ m \in missed <=> m \in missed'
        /\ IsOld(m)' <=> IsOld(m)
    BY <1>5, <1>6 DEF OthersKeep
  <2>3. CallsFit(m)' /\ TurnsFit(m)'
    BY <2>1, <2>2 DEF CallsFit, TurnsFit, LastCall, Reopening
  <2>4. ~AtRow(m) /\ ~Midway(m)
    BY <1>1, <1>6 DEF AtRow, Midway
  <2>5. HeardFits(m)'
    BY <1>3, <2>1, <2>2, <2>4 DEF HeardFits, FoundByNumber
  <2> QED
    BY <2>3, <2>5
<1>7. CASE poll' = NoPoll
  <2>1. poll' \in PollRecord
    BY <1>7, BlanksTyped
  <2>2. /\ poll'.rows = <<>> /\ poll'.probes = <<>> /\ poll'.at = "idle" /\ poll'.whole = FALSE
        /\ poll'.passes = 0 /\ poll'.began = 0 /\ DOMAIN poll'.rows = {} /\ DOMAIN poll'.probes = {}
    BY <1>7 DEF NoPoll
  <2>3. FeedTyped' /\ HubInOrder' /\ NeverIdled'
    BY <1>3, <1>4, <2>1, <2>2
  <2>4. ProbesWait'
    BY <2>2 DEF ProbesWait
  <2>5. /\ feedRegime.probes \in Nat
        /\ Cardinality(memory.probed) \in Nat /\ Cardinality(Revived) \in Nat
    BY <1>1, FeedCounts
  <2>6. feedRegime'.probes * poll'.passes = 0
    BY <1>3, <2>2, <2>5
  <2>7. ProbesCount'
    BY <1>3, <2>2, <2>5, <2>6 DEF ProbesCount
  <2> QED
    BY <1>2, <1>6, <2>2, <2>3, <2>4, <2>7 DEF FeedInv
<1>8. CASE Goes
  <2>1. /\ poll' \in PollRecord /\ poll'.at = poll.at /\ poll'.rows = poll.rows
        /\ poll'.withdrawn = poll.withdrawn /\ poll'.blind = poll.blind /\ poll'.probes = poll.probes
        /\ poll'.unasked = poll.unasked /\ poll'.began = poll.began /\ poll'.whole = poll.whole
        /\ poll'.clean = poll.clean /\ poll'.passes = poll.passes /\ poll.at = "rows"
    BY <1>1, <1>8, RowGoes DEF RowIs
  <2>2. \A j \in DOMAIN poll.rows, k \in 1 .. 6 : j # at => (Past(j, k)' <=> Past(j, k))
    BY <1>1, <1>8, RowGoes, Zenon
  <2>3. FeedTyped' /\ HubInOrder' /\ NeverIdled'
    BY <1>4, <2>1 DEF FeedInv, HubInOrder
  <2>4. ASSUME NEW i \in DOMAIN poll.rows PROVE RowShows(i)' /\ RowNotes(i)' /\ RowEnds(i)'
    <3>1. RowShows(i) /\ RowNotes(i) /\ RowEnds(i) /\ RowShows(at)
      BY <1>1 DEF FeedInv
    <3>2. RowShows(i)'
      BY <1>3, <2>1, <3>1 DEF RowShows
    <3>3. CASE i = at
      BY <1>8, <3>2, <3>3
    <3>4. CASE i # at
      <4>1. PICK m : m = poll.rows[i].n
        OBVIOUS
      <4>2. m \in FeedPulls /\ m # n
        BY <1>1, <3>1, <3>4, <4>1, RowsTyped DEF RowShows
      <4>3. /\ (Past(i, 1)' <=> Past(i, 1)) /\ (Past(i, 2)' <=> Past(i, 2)) /\ (Past(i, 3)' <=> Past(i, 3))
            /\ (Past(i, 4)' <=> Past(i, 4)) /\ (Past(i, 5)' <=> Past(i, 5)) /\ (Past(i, 6)' <=> Past(i, 6))
        BY <2>2, <3>4
      <4>4. /\ memory'.known[m] = memory.known[m] /\ told'[m] = told[m]
            /\ m \in memory'.closed <=> m \in memory.closed
            /\ m \in withdrawn' <=> m \in withdrawn
            /\ IsOld(m)' <=> IsOld(m)
        BY <1>5, <4>2 DEF OthersKeep
      <4>5. RowNotes(i)'
        BY <2>1, <3>1, <4>1, <4>3, <4>4 DEF RowNotes
      <4>6. RowEnds(i)'
        BY <2>1, <3>1, <4>1, <4>3, <4>4 DEF RowEnds
      <4> QED
        BY <3>2, <4>5, <4>6
    <3> QED
      BY <3>3, <3>4
  <2>5. ProbesWait'
    <3>1. n \in Numbers(poll.rows) /\ Numbers(poll'.rows) = Numbers(poll.rows)
      BY <1>1, <2>1 DEF Numbers
    <3>2. \A m \in FeedPulls \ Numbers(poll.rows) : m \in withdrawn' <=> m \in withdrawn
      BY <3>1 DEF OthersKeep
    <3>3. withdrawn \subseteq FeedPulls
      BY <1>1 DEF FeedTyped
    <3>4. \A i \in DOMAIN poll.probes : poll.probes[i] \in withdrawn' \ (Numbers(poll.rows) \cup memory.probed)
      BY <3>2, <3>3 DEF FeedInv, ProbesWait
    <3>5. \A i \in DOMAIN poll.probes : \A j \in DOMAIN poll.probes : poll.probes[i] = poll.probes[j] => i = j
      BY DEF FeedInv, ProbesWait
    <3>6. ~poll.blind =>
            /\ withdrawn \subseteq poll.withdrawn \cup Numbers(poll.rows)
            /\ \A m \in withdrawn \ Numbers(poll.rows) :
                 m \in memory.probed \cup poll.unasked \cup Range(poll.probes)
      BY <2>1 DEF FeedInv, ProbesWait
    <3>7. ~poll.blind =>
            /\ withdrawn' \subseteq poll.withdrawn \cup Numbers(poll.rows)
            /\ \A m \in withdrawn' \ Numbers(poll.rows) :
                 m \in memory.probed \cup poll.unasked \cup Range(poll.probes)
      BY <3>2, <3>6
    <3> QED
      BY <2>1, <3>1, <3>4, <3>5, <3>7 DEF ProbesWait
  <2>6. ProbesCount'
    BY <1>3, <2>1 DEF FeedInv, ProbesCount
  <2> QED
    BY <1>2, <1>6, <2>1, <2>3, <2>4, <2>5, <2>6 DEF FeedInv
<1> QED
  BY <1>7, <1>8

(* What is known of the pull request at hand before a stage. *)
LEMMA RowFacts ==
  ASSUME FeedInv, NEW n \in FeedPulls, NEW pull \in PullRecord, RowIs(n, pull)
  PROVE  /\ poll.stage \in 1 .. 6 /\ FeedTyped
         /\ hub[n].state # "none" /\ pull.state \in {"open", "closed", "merged"} /\ pull.created = hub[n].created
         /\ pull.state = "merged" => hub[n].state = "merged"
         /\ poll.stage > 1 => IsOld(n)
         /\ poll.stage > 2 => memory.known[n].draft = {pull.draft}
         /\ poll.stage > 3 => memory.known[n].labels = {pull.labels}
         /\ poll.stage > 4 => memory.known[n].reviewers = {pull.reviewers}
         /\ poll.stage > 5 /\ pull.state = "open" => n \notin memory.closed /\ (~poll.blind => n \notin withdrawn)
         /\ poll.stage <= 5 => /\ n \in poll.withdrawn => n \in withdrawn
                               /\ ~poll.blind /\ n \in withdrawn => n \in poll.withdrawn
         /\ told[n].state = "merged" => pull.state = "merged"
         /\ ~IsOld(n) => /\ \A i \in DOMAIN calls[n] : calls[n][i][1] = "found"
                         /\ n \notin memory.closed /\ memory.known[n].draft = {}
<1>1. PICK at : at = poll.row
  OBVIOUS
<1>2. FeedTyped /\ at \in DOMAIN poll.rows /\ n = poll.rows[at].n /\ pull = poll.rows[at].pull
  BY <1>1 DEF FeedInv, RowIs
<1>3. poll.stage \in 1 .. 6 /\ DOMAIN poll.rows \subseteq Nat
  BY <1>2, RowsTyped
<1>4. \A k \in 1 .. 6 : Past(at, k) <=> poll.stage > k
  BY <1>1, <1>2, <1>3 DEF Past
<1>5. RowShows(at) /\ RowNotes(at) /\ RowEnds(at) /\ CallsFit(n) /\ HeardFits(n)
  BY <1>2 DEF FeedInv
<1>6. /\ hub[n].state # "none" /\ pull.state \in {"open", "closed", "merged"} /\ pull.created = hub[n].created
      /\ pull.state = "merged" => hub[n].state = "merged"
  BY <1>2, <1>5 DEF RowShows, PullRecord, PullStates
<1>7. /\ poll.stage > 1 => IsOld(n)
      /\ poll.stage > 2 => memory.known[n].draft = {pull.draft}
      /\ poll.stage > 3 => memory.known[n].labels = {pull.labels}
      /\ poll.stage > 4 => memory.known[n].reviewers = {pull.reviewers}
  BY <1>2, <1>4, <1>5 DEF RowNotes
<1>8. /\ poll.stage > 5 /\ pull.state = "open" => n \notin memory.closed /\ (~poll.blind => n \notin withdrawn)
      /\ poll.stage <= 5 => /\ n \in poll.withdrawn => n \in withdrawn
                            /\ ~poll.blind /\ n \in withdrawn => n \in poll.withdrawn
      /\ told[n].state = "merged" => pull.state = "merged"
  BY <1>2, <1>3, <1>4, <1>5 DEF RowEnds
<1>9. ASSUME ~IsOld(n)
      PROVE  /\ \A i \in DOMAIN calls[n] : calls[n][i][1] = "found"
             /\ n \notin memory.closed /\ memory.known[n].draft = {}
  <2>1. \A i \in DOMAIN calls[n] : calls[n][i][1] = "found"
    BY <1>5, <1>9 DEF CallsFit
  <2>2. memory.known[n].draft = {}
    BY <1>5, <1>9 DEF HeardFits
  <2>3. n \notin memory.closed
    <3> SUFFICES ASSUME n \in memory.closed PROVE FALSE
      OBVIOUS
    <3>1. calls[n] # <<>> /\ calls[n][Len(calls[n])][1] = "closed"
      BY <1>5 DEF CallsFit, LastCall
    <3>2. calls[n] \in Seq(Call)
      BY <1>2 DEF FeedTyped
    <3>3. Len(calls[n]) \in DOMAIN calls[n]
      BY <3>1, <3>2
    <3> QED
      BY <2>1, <3>1, <3>3
  <2> QED
    BY <2>1, <2>2, <2>3
<1> QED
  BY <1>2, <1>3, <1>6, <1>7, <1>8, <1>9

(* Whatever the stage, the pull request is known afterwards. *)
LEMMA RowKnown ==
  ASSUME FeedInv, NEW n \in FeedPulls, NEW pull \in PullRecord, RowIs(n, pull),
         NEW k \in 1 .. 6, k = poll.stage, NEW noted, noted = Noted(Stages[k]), memory' = noted,
         UNCHANGED <<feedRegime, hub>>
  PROVE  /\ IsOld(n)' /\ memory' \in MemoryRecord /\ memory'.since = memory.since
         /\ memory'.probed = memory.probed
         /\ \A m \in FeedPulls : m # n => /\ memory'.known[m] = memory.known[m]
                                          /\ m \in memory'.opened <=> m \in memory.opened
                                          /\ m \in memory'.closed <=> m \in memory.closed
<1>1. FeedTyped
  BY DEF FeedInv
<1>2. hub[n].state # "none" /\ pull.created = hub[n].created /\ (k > 1 => IsOld(n))
  BY RowFacts
<1>3. NotesSo(n, pull, k, noted)
  BY <1>1, StageNotes
<1>5. /\ noted \in MemoryRecord /\ noted.since = memory.since /\ noted.probed = memory.probed
      /\ noted.opened = IF k = 1 /\ Tells("opened") THEN memory.opened \cup {n} ELSE memory.opened
      /\ noted.closed = IF k = 5 /\ Tells("reopened") THEN memory.closed \ {n}
                        ELSE IF k = 6 /\ Tells("closed") THEN memory.closed \cup {n} ELSE memory.closed
      /\ \A m \in FeedPulls : m # n => noted.known[m] = memory.known[m]
  BY <1>3 DEF NotesSo
<1>6. IsOld(n)'
  <2>1. CASE k = 1
    <3>1. Tells("opened") <=> n \notin memory.opened /\ \A s \in memory.since : pull.created >= s
      BY StageTells
    <3>2. n \in noted.opened \/ ~(\A s \in memory.since : hub[n].created >= s)
      BY <1>2, <1>5, <2>1, <3>1
    <3> QED
      BY <1>2, <1>5, <3>2 DEF IsOld
  <2>2. CASE k > 1
    BY <1>2, <1>5, <2>2 DEF IsOld
  <2> QED
    BY <1>2, <2>1, <2>2
<1> QED
  BY <1>5, <1>6

(* A stage with nothing to tell. *)
LEMMA StageQuiet ==
  ASSUME FeedInv, NEW n \in FeedPulls, NEW pull \in PullRecord, RowIs(n, pull),
         NEW k \in 1 .. 6, k = poll.stage, NEW noted, noted = Noted(Stages[k]), memory' = noted,
         ~Tells(Stages[k]), Sees(n, pull), Goes,
         UNCHANGED <<feedRegime, clock, hub, watched, ready, withdrawn, calls, missed>>
  PROVE  FeedInv'
<1>1. PICK at : at = poll.row
  OBVIOUS
<1>2. FeedTyped /\ at \in DOMAIN poll.rows /\ n = poll.rows[at].n /\ pull = poll.rows[at].pull /\ poll.at = "rows"
  BY <1>1 DEF FeedInv, RowIs
<1>3. NotesSo(n, pull, k, noted)
  BY <1>2, StageNotes
<1>4. /\ k = 1 => ~Tells("opened")
      /\ k = 2 => ~(Differs(memory.known[n].draft, pull.draft) /\ pull.state = "open")
      /\ k = 3 => ~Differs(memory.known[n].labels, pull.labels)
      /\ k = 4 => \A known \in memory.known[n].reviewers : pull.reviewers \subseteq known
      /\ k = 5 => ~(pull.state = "open" /\ (n \in memory.closed \/ n \in poll.withdrawn)) /\ ~Tells("reopened")
      /\ k = 6 => ~(pull.state \in {"closed", "merged"} /\ n \notin memory.closed) /\ ~Tells("closed")
  BY StageNames, StageTells
<1>5. noted.opened = memory.opened /\ noted.closed = memory.closed
  BY <1>3, <1>4 DEF NotesSo
<1>6. /\ noted.known[n].draft = IF k = 2 THEN {pull.draft} ELSE memory.known[n].draft
      /\ noted.known[n].labels = IF k = 3 THEN {pull.labels} ELSE memory.known[n].labels
      /\ noted.known[n].reviewers = IF k = 4 THEN {pull.reviewers} ELSE memory.known[n].reviewers
  BY <1>3 DEF NotesSo
<1>7. IsOld(n)' /\ memory' \in MemoryRecord /\ memory'.since = memory.since /\ memory'.probed = memory.probed
  BY RowKnown
<1>8. /\ told' \in [FeedPulls -> ToldRecord] /\ \A m \in FeedPulls : m # n => told'[m] = told[m]
      /\ told'[n].state = told[n].state
      /\ told'[n].draft = IF memory.known[n].draft = {} /\ n \notin memory.opened THEN pull.draft ELSE told[n].draft
      /\ told'[n].labels = IF memory.known[n].labels = {} THEN pull.labels ELSE told[n].labels
      /\ told'[n].reviewers = IF memory.known[n].reviewers = {} THEN pull.reviewers ELSE told[n].reviewers
  BY <1>2, SeenSo
<1>9. OthersKeep(n)
  BY <1>3, <1>5, <1>8 DEF NotesSo, OthersKeep
<1>10. /\ poll'.at = "rows" /\ poll'.rows = poll.rows /\ poll'.withdrawn = poll.withdrawn /\ poll'.blind = poll.blind
       /\ \/ k \in 1 .. 5 /\ poll'.row = poll.row /\ poll'.stage = k + 1
          \/ k = 6 /\ poll'.row = poll.row + 1 /\ poll'.stage = 1
  BY <1>1, <1>2, RowGoes
<1>11. \A l \in 1 .. 6 : Past(at, l)' <=> l <= k
  BY <1>1, <1>2, RowGoes
<1>12. /\ hub[n].state # "none" /\ pull.state \in {"open", "closed", "merged"}
       /\ k > 2 => memory.known[n].draft = {pull.draft}
       /\ k > 3 => memory.known[n].labels = {pull.labels}
       /\ k > 4 => memory.known[n].reviewers = {pull.reviewers}
       /\ k > 5 /\ pull.state = "open" => n \notin memory.closed /\ (~poll.blind => n \notin withdrawn)
       /\ k <= 5 => /\ n \in poll.withdrawn => n \in withdrawn
                    /\ ~poll.blind /\ n \in withdrawn => n \in poll.withdrawn
       /\ told[n].state = "merged" => pull.state = "merged"
       /\ ~IsOld(n) => memory.known[n].draft = {}
  BY RowFacts
<1>13. RowNotes(at)'
  <2>1. (Past(at, 2)' <=> 2 <= k) /\ (Past(at, 3)' <=> 3 <= k) /\ (Past(at, 4)' <=> 4 <= k)
    BY <1>11
  <2>2. /\ 2 <= k => noted.known[n].draft = {pull.draft}
        /\ 3 <= k => noted.known[n].labels = {pull.labels}
        /\ 4 <= k => noted.known[n].reviewers = {pull.reviewers}
    BY <1>6, <1>12
  <2> QED
    BY <1>2, <1>7, <1>10, <2>1, <2>2 DEF RowNotes
<1>14. RowEnds(at)'
  <2>1. 5 <= k /\ pull.state = "open" => n \notin memory.closed /\ (~poll.blind => n \notin withdrawn)
    BY <1>4, <1>12
  <2>2. 6 <= k /\ pull.state # "open" => n \in memory.closed
    BY <1>4, <1>12
  <2>3. ~(5 <= k) => /\ n \in poll.withdrawn => n \in withdrawn
                     /\ ~poll.blind /\ n \in withdrawn => n \in poll.withdrawn
    BY <1>12
  <2>4. told'[n].state = "merged" => pull.state = "merged"
    BY <1>8, <1>12
  <2>5. (Past(at, 5)' <=> 5 <= k) /\ (Past(at, 6)' <=> 6 <= k)
    BY <1>11
  <2> QED
    BY <1>2, <1>5, <1>10, <2>1, <2>2, <2>3, <2>4, <2>5 DEF RowEnds
<1>15. CallsFit(n) /\ TurnsFit(n) /\ HeardFits(n)
  BY DEF FeedInv
<1>16. CallsFit(n)' /\ TurnsFit(n)'
  BY <1>5, <1>7, <1>15 DEF CallsFit, TurnsFit, LastCall, Reopening
<1>17. HeardFits(n)'
  <2>1. memory'.known[n].draft # {} => IsOld(n)'
    BY <1>7
  <2>2. told'[n].state = "merged" => hub'[n].state = "merged"
    BY <1>8, <1>15 DEF HeardFits
  <2>3. ASSUME n \notin missed
        PROVE  /\ n \in memory.closed => told'[n].state \in {"closed", "merged"}
               /\ \A v \in noted.known[n].labels : told'[n].labels = v
               /\ \A v \in noted.known[n].reviewers : v \subseteq told'[n].reviewers
               /\ n \in memory.closed \/ FoundByNumber(n) \/ Midway(n)'
                    \/ \A v \in noted.known[n].draft : told'[n].draft = v
               /\ ~(n \in memory.opened /\ noted.known[n].draft = {})
    <3>1. /\ n \in memory.closed => told[n].state \in {"closed", "merged"}
          /\ \A v \in memory.known[n].labels : told[n].labels = v
          /\ \A v \in memory.known[n].reviewers : v \subseteq told[n].reviewers
          /\ n \in memory.closed \/ FoundByNumber(n) \/ Midway(n)
               \/ \A v \in memory.known[n].draft : told[n].draft = v
          /\ n \in memory.opened /\ memory.known[n].draft = {} =>
               AtRow(n) /\ poll.stage = 2 /\ told[n].draft = poll.rows[poll.row].pull.draft
      BY <1>15, <2>3 DEF HeardFits
    <3>2. n \in memory.closed => told'[n].state \in {"closed", "merged"}
      BY <1>8, <3>1
    <3>3. \A v \in noted.known[n].labels : told'[n].labels = v
      <4>1. CASE k = 3
        <5>1. memory.known[n].labels = {} \/ pull.labels \in memory.known[n].labels
          BY <1>4, <4>1 DEF Differs
        <5> QED
          BY <1>6, <1>8, <3>1, <4>1, <5>1
      <4>2. CASE k # 3
        BY <1>6, <1>8, <3>1, <4>2
      <4> QED
        BY <4>1, <4>2
    <3>4. \A v \in noted.known[n].reviewers : v \subseteq told'[n].reviewers
      <4>1. CASE k = 4
        <5>1. CASE memory.known[n].reviewers = {}
          BY <1>6, <1>8, <4>1, <5>1
        <5>2. CASE memory.known[n].reviewers # {}
          <6>1. PICK known \in memory.known[n].reviewers : TRUE
            BY <5>2
          <6>2. pull.reviewers \subseteq known /\ known \subseteq told[n].reviewers
            BY <1>4, <3>1, <4>1
          <6> QED
            BY <1>6, <1>8, <4>1, <5>2, <6>2
        <5> QED
          BY <5>1, <5>2
      <4>2. CASE k # 4
        BY <1>6, <1>8, <3>1, <4>2
      <4> QED
        BY <4>1, <4>2
    <3>5. Midway(n) <=> k > 2 /\ pull.state # "open"
      BY <1>1, <1>2 DEF Midway, AtRow
    <3>6. k \in 1 .. 5 => (Midway(n)' <=> k + 1 > 2 /\ pull.state # "open")
      BY <1>1, <1>2, <1>10 DEF Midway, AtRow
    <3>7. n \in memory.closed \/ FoundByNumber(n) \/ Midway(n)'
            \/ \A v \in noted.known[n].draft : told'[n].draft = v
      <4>1. CASE k = 1
        <5>1. noted.known[n].draft = memory.known[n].draft /\ ~Midway(n)
          BY <1>6, <3>5, <4>1
        <5>2. memory.known[n].draft # {} => told'[n].draft = told[n].draft
          BY <1>8
        <5> QED
          BY <3>1, <5>1, <5>2
      <4>2. CASE k = 2
        <5>1. noted.known[n].draft = {pull.draft} /\ ~Midway(n) /\ (pull.state # "open" => Midway(n)')
          BY <1>6, <3>5, <3>6, <4>2
        <5>2. CASE pull.state = "open" /\ memory.known[n].draft = {}
          <6>1. told'[n].draft = pull.draft
            BY <1>1, <1>2, <1>8, <3>1, <5>2
          <6> QED
            BY <5>1, <6>1
        <5>3. CASE pull.state = "open" /\ memory.known[n].draft # {}
          <6>1. pull.draft \in memory.known[n].draft
            BY <1>4, <4>2, <5>3 DEF Differs
          <6>2. told'[n].draft = told[n].draft
            BY <1>8, <5>3
          <6> QED
            BY <3>1, <5>1, <6>1, <6>2
        <5> QED
          BY <5>1, <5>2, <5>3
      <4>3. CASE k \in 3 .. 6
        <5>1. /\ noted.known[n].draft = memory.known[n].draft /\ memory.known[n].draft = {pull.draft}
              /\ told'[n].draft = told[n].draft
          BY <1>6, <1>8, <1>12, <4>3
        <5>2. k = 6 /\ pull.state # "open" => n \in memory.closed
          BY <1>4, <1>12
        <5>3. Midway(n) => n \in memory.closed \/ Midway(n)'
          BY <3>5, <3>6, <4>3, <5>2
        <5> QED
          BY <3>1, <5>1, <5>3
      <4> QED
        BY <4>1, <4>2, <4>3
    <3>8. ~(n \in memory.opened /\ noted.known[n].draft = {})
      <4>1. CASE k = 1
        BY <1>6, <3>1, <4>1
      <4>2. CASE k = 2
        BY <1>6, <4>2
      <4>3. CASE k \in 3 .. 6
        BY <1>6, <1>12, <4>3
      <4> QED
        BY <4>1, <4>2, <4>3
    <3> QED
      BY <3>2, <3>3, <3>4, <3>7, <3>8
  <2>4. FoundByNumber(n)' <=> FoundByNumber(n)
    BY DEF FoundByNumber
  <2> QED
    BY <1>5, <2>1, <2>2, <2>3, <2>4 DEF HeardFits
<1>18. Revived' = Revived
  BY FeedSteady DEF Revived
<1>19. calls' \in [FeedPulls -> Seq(Call)] /\ withdrawn' \subseteq FeedPulls
  BY <1>2 DEF FeedTyped
<1> QED
  BY <1>1, <1>7, <1>8, <1>9, <1>13, <1>14, <1>16, <1>17, <1>18, <1>19, RowMoves

(* What a stage tells is counted in its turn, whether the handler takes it or not. *)
LEMMA StageCounts ==
  ASSUME FeedInv, NEW n \in FeedPulls, NEW pull \in PullRecord, RowIs(n, pull),
         NEW k \in 1 .. 6, k = poll.stage, NEW noted, noted = Noted(Stages[k]), memory' = noted,
         Tells(Stages[k]), NEW ok \in BOOLEAN, Counts(n, Stages[k], ok), UNCHANGED <<feedRegime, hub>>,
         k = 5 /\ ok => n \notin withdrawn', k <= 4 \/ ~ok => withdrawn' = withdrawn
  PROVE  /\ CallsFit(n)' /\ TurnsFit(n)' /\ calls' \in [FeedPulls -> Seq(Call)]
         /\ \A m \in FeedPulls : m # n => calls'[m] = calls[m]
         /\ Revived' = Revived /\ (FoundByNumber(n) => FoundByNumber(n)')
<1>1. FeedTyped
  BY DEF FeedInv
<1>2. NotesSo(n, pull, k, noted)
  BY <1>1, StageNotes
<1>3. IsOld(n)'
  BY RowKnown
<1>4. /\ Tells("opened") <=> n \notin memory.opened /\ \A s \in memory.since : pull.created >= s
      /\ Tells("reopened") => n \in memory.closed \/ n \in poll.withdrawn
      /\ Tells("closed") => n \notin memory.closed
  BY StageTells
<1>5. /\ pull.created = hub[n].created
      /\ k <= 5 => (n \in poll.withdrawn => n \in withdrawn)
      /\ ~IsOld(n) => (\A i \in DOMAIN calls[n] : calls[n][i][1] = "found") /\ n \notin memory.closed
  BY RowFacts
<1>6. CallsFit(n) /\ TurnsFit(n)
  BY DEF FeedInv
<1>7. CASE k \in 2 .. 4
  <2>1. Stages[k] \notin {"opened", "reopened", "found", "closed"}
    BY <1>7, StageNames
  <2>2. calls' = calls
    BY <2>1 DEF Counts
  <2>3. noted.closed = memory.closed /\ withdrawn' = withdrawn
    BY <1>2, <1>7 DEF NotesSo
  <2>4. CallsFit(n)' /\ TurnsFit(n)'
    BY <1>3, <1>6, <2>2, <2>3 DEF CallsFit, TurnsFit, LastCall, Reopening
  <2>5. Revived' = Revived /\ (FoundByNumber(n) => FoundByNumber(n)') /\ calls' \in [FeedPulls -> Seq(Call)]
    BY <1>1, <2>2, FeedSteady DEF Revived, FoundByNumber, FeedTyped
  <2> QED
    BY <2>2, <2>4, <2>5
<1>8. CASE k \in {1, 5, 6}
  <2>1. PICK c : c = <<Stages[k], ok>>
    OBVIOUS
  <2>2. Stages[k] \in {"opened", "reopened", "closed"}
    BY <1>8, StageNames
  <2>3. c \in Call /\ c[1] = Stages[k] /\ c[2] = ok /\ c # <<"found", TRUE>>
    BY <2>1, <2>2 DEF Call
  <2>4. calls' = [calls EXCEPT ![n] = Append(@, c)]
    BY <2>1, <2>2 DEF Counts
  <2>5. /\ calls' \in [FeedPulls -> Seq(Call)] /\ \A m \in FeedPulls : m # n => calls'[m] = calls[m]
        /\ Revived' = Revived
    BY <1>1, <2>3, <2>4, CallAdded
  <2>6. FoundByNumber(n) => FoundByNumber(n)'
    <3>1. /\ Len(calls[n]) \in Nat /\ DOMAIN calls[n] = 1 .. Len(calls[n])
          /\ DOMAIN calls'[n] = 1 .. Len(calls[n]) + 1
          /\ \A i \in 1 .. Len(calls[n]) : calls'[n][i] = calls[n][i]
      BY <1>1, <2>3, <2>4, CallAdded
    <3> QED
      BY <3>1 DEF FoundByNumber
  <2>7. PICK s : s = calls[n]
    OBVIOUS
  <2>8. CASE k = 1
    <3>1. c[1] = "opened" /\ ~IsOld(n) /\ withdrawn' = withdrawn
      BY <1>4, <1>5, <2>3, <2>8, StageNames DEF IsOld
    <3>2. noted.closed = memory.closed
      BY <1>2, <2>8 DEF NotesSo
    <3>3. n \notin memory.closed' /\ \A i \in DOMAIN s : s[i][1] = "found"
      BY <1>5, <2>7, <3>1, <3>2
    <3>4. n \in withdrawn' => \A i \in DOMAIN s : ~s[i][2]
      BY <1>6, <2>7, <3>1, <3>3 DEF CallsFit
    <3>5. /\ n \in memory.closed' <=> c[1] = "closed"
          /\ c[1] # "found" /\ c[1] # "closed" /\ ~Reopening(c)
      BY <3>1, <3>3 DEF Reopening
    <3> QED
      <4>1. n \in withdrawn' => \/ c[1] = "closed" \/ (Reopening(c) /\ ~c[2])
                                \/ c[1] = "opened" /\ \A i \in DOMAIN s : ~s[i][2]
        BY <3>1, <3>4
      <4>2. c[1] = "opened" => \A i \in DOMAIN s : s[i][1] = "found"
        BY <3>3
      <4>3. CallsFit(n)' /\ TurnsFit(n)'
        BY <1>3, <2>3, <2>4, <2>7, <3>5, <4>1, <4>2, CallFollows
      <4> QED
        BY <2>5, <2>6, <4>3
  <2>9. CASE k = 5
    <3>1. c[1] = "reopened" /\ Tells("reopened")
      BY <2>3, <2>9, StageNames
    <3>2. n \notin memory.closed'
      BY <1>2, <2>9, <3>1 DEF NotesSo
    <3>3. n \in memory.closed \/ n \in withdrawn
      BY <1>4, <1>5, <2>9, <3>1
    <3>4. n \in withdrawn' => ~c[2]
      BY <2>3, <2>9
    <3>5. /\ n \in memory.closed' <=> c[1] = "closed"
          /\ c[1] # "found" /\ c[1] # "closed" /\ c[1] # "opened" /\ Reopening(c)
      BY <3>1, <3>2 DEF Reopening
    <3> QED
      BY <1>3, <2>3, <2>4, <2>7, <3>3, <3>4, <3>5, CallFollows, <2>5, <2>6
  <2>10. CASE k = 6
    <3>1. c[1] = "closed" /\ Tells("closed")
      BY <2>3, <2>10, StageNames
    <3>2. n \in memory.closed'
      BY <1>2, <2>10, <3>1 DEF NotesSo
    <3>3. n \notin memory.closed
      BY <1>4, <3>1
    <3>5. /\ n \in memory.closed' <=> c[1] = "closed"
          /\ c[1] # "found" /\ c[1] # "opened" /\ ~Reopening(c)
      BY <3>1, <3>2 DEF Reopening
    <3> QED
      BY <1>3, <2>3, <2>4, <2>7, <3>1, <3>3, <3>5, CallFollows, <2>5, <2>6
  <2> QED
    BY <1>8, <2>8, <2>9, <2>10
<1> QED
  BY <1>7, <1>8

(* The handler of what a stage tells fails. *)
LEMMA StageFails ==
  ASSUME FeedInv, NEW n \in FeedPulls, NEW pull \in PullRecord, RowIs(n, pull),
         NEW k \in 1 .. 6, k = poll.stage, NEW noted, noted = Noted(Stages[k]), memory' = noted,
         Tells(Stages[k]), Falls(n), Counts(n, Stages[k], FALSE),
         UNCHANGED <<feedRegime, clock, hub, watched, ready, told, withdrawn>>
  PROVE  FeedInv'
<1>1. PICK at : at = poll.row
  OBVIOUS
<1>2. FeedTyped /\ at \in DOMAIN poll.rows /\ poll.at = "rows"
  BY <1>1 DEF FeedInv, RowIs
<1>3. poll' = NoPoll /\ missed' = missed \cup {n}
  BY DEF Falls
<1>4. /\ IsOld(n)' /\ memory' \in MemoryRecord /\ memory'.since = memory.since /\ memory'.probed = memory.probed
      /\ \A m \in FeedPulls : m # n => /\ memory'.known[m] = memory.known[m]
                                       /\ m \in memory'.opened <=> m \in memory.opened
                                       /\ m \in memory'.closed <=> m \in memory.closed
  BY RowKnown
<1>5. /\ CallsFit(n)' /\ TurnsFit(n)' /\ calls' \in [FeedPulls -> Seq(Call)]
      /\ \A m \in FeedPulls : m # n => calls'[m] = calls[m]
      /\ Revived' = Revived
  BY StageCounts
<1>6. OthersKeep(n)
  BY <1>3, <1>4, <1>5 DEF OthersKeep
<1>7. ~Goes
  <2>1. Goes => poll'.at = "rows"
    BY <1>1, <1>2, RowGoes
  <2> QED
    BY <1>3, <2>1 DEF NoPoll
<1>8. HeardFits(n)'
  <2>1. HeardFits(n)
    BY DEF FeedInv
  <2>2. told[n].state = "merged" => hub[n].state = "merged"
    BY <2>1 DEF HeardFits
  <2> QED
    BY <1>3, <1>4, <2>2 DEF HeardFits
<1>9. told' \in [FeedPulls -> ToldRecord] /\ withdrawn' \subseteq FeedPulls
  BY <1>2 DEF FeedTyped
<1> QED
  BY <1>1, <1>3, <1>4, <1>5, <1>6, <1>7, <1>8, <1>9, RowMoves

(* The handler takes what a stage tells. *)
LEMMA StageHeard ==
  ASSUME FeedInv, NEW n \in FeedPulls, NEW pull \in PullRecord, RowIs(n, pull),
         NEW k \in 1 .. 6, k = poll.stage, NEW noted, noted = Noted(Stages[k]), memory' = noted,
         Tells(Stages[k]), Hears(n, pull, Stages[k]), Goes, Counts(n, Stages[k], TRUE),
         UNCHANGED <<feedRegime, clock, hub, watched, ready, missed>>
  PROVE  FeedInv'
<1>1. PICK at : at = poll.row
  OBVIOUS
<1>2. FeedTyped /\ at \in DOMAIN poll.rows /\ n = poll.rows[at].n /\ pull = poll.rows[at].pull /\ poll.at = "rows"
  BY <1>1 DEF FeedInv, RowIs
<1>3. NotesSo(n, pull, k, noted)
  BY <1>2, StageNotes
<1>4. /\ IsOld(n)' /\ memory' \in MemoryRecord /\ memory'.since = memory.since /\ memory'.probed = memory.probed
      /\ \A m \in FeedPulls : m # n => /\ memory'.known[m] = memory.known[m]
                                       /\ m \in memory'.opened <=> m \in memory.opened
                                       /\ m \in memory'.closed <=> m \in memory.closed
  BY RowKnown
<1>5. /\ k = 1 => Tells("opened") /\ n \notin memory.opened /\ \A s \in memory.since : pull.created >= s
      /\ k = 2 => pull.state = "open"
      /\ k = 5 => pull.state = "open" /\ Tells("reopened")
      /\ k = 6 => pull.state \in {"closed", "merged"} /\ Tells("closed")
  BY StageNames, StageTells
<1>6. /\ noted.closed = IF k = 5 THEN memory.closed \ {n} ELSE IF k = 6 THEN memory.closed \cup {n} ELSE memory.closed
      /\ k # 1 => noted.opened = memory.opened
  BY <1>3, <1>5 DEF NotesSo
<1>7. /\ noted.known[n].draft = IF k = 2 THEN {pull.draft} ELSE memory.known[n].draft
      /\ noted.known[n].labels = IF k = 3 THEN {pull.labels} ELSE memory.known[n].labels
      /\ noted.known[n].reviewers = IF k = 4 THEN {pull.reviewers} ELSE memory.known[n].reviewers
  BY <1>3 DEF NotesSo
<1>8. /\ told' \in [FeedPulls -> ToldRecord] /\ \A m \in FeedPulls : m # n => told'[m] = told[m]
      /\ told'[n].state = IF k \in {1, 5} THEN "open" ELSE IF k = 6 THEN pull.state ELSE told[n].state
      /\ told'[n].draft = IF k \in {1, 2, 5} THEN pull.draft ELSE told[n].draft
      /\ told'[n].labels = IF k = 3 THEN pull.labels ELSE told[n].labels
      /\ told'[n].reviewers = IF k = 4 THEN pull.reviewers ELSE told[n].reviewers
      /\ withdrawn' \subseteq FeedPulls /\ \A m \in FeedPulls : m # n => (m \in withdrawn' <=> m \in withdrawn)
      /\ k = 5 => n \notin withdrawn'
      /\ k \notin {5, 6} => withdrawn' = withdrawn
  <2>1. PICK stage : stage = Stages[k]
    OBVIOUS
  <2>2. /\ stage \in Range(Stages) /\ Hears(n, pull, stage)
        /\ stage \in {"opened", "reopened"} <=> k \in {1, 5}
        /\ stage \in {"opened", "reopened", "draft"} <=> k \in {1, 2, 5}
        /\ stage = "closed" <=> k = 6
        /\ stage = "labeled" <=> k = 3
        /\ stage = "review_requested" <=> k = 4
        /\ stage = "reopened" <=> k = 5
    BY <2>1, StageNames
  <2>3. /\ told' \in [FeedPulls -> ToldRecord] /\ \A m \in FeedPulls : m # n => told'[m] = told[m]
        /\ told'[n].state = IF stage \in {"opened", "reopened"} THEN "open"
                            ELSE IF stage = "closed" THEN pull.state ELSE told[n].state
        /\ told'[n].draft = IF stage \in {"opened", "reopened", "draft"} THEN pull.draft ELSE told[n].draft
        /\ told'[n].labels = IF stage = "labeled" THEN pull.labels ELSE told[n].labels
        /\ told'[n].reviewers = IF stage = "review_requested" THEN pull.reviewers ELSE told[n].reviewers
        /\ withdrawn' \subseteq FeedPulls /\ \A m \in FeedPulls : m # n => (m \in withdrawn' <=> m \in withdrawn)
        /\ stage = "reopened" => n \notin withdrawn'
        /\ stage \notin {"reopened", "closed"} => withdrawn' = withdrawn
    BY <1>2, <2>2, HeardSo
  <2> QED
    BY <2>2, <2>3
<1>9. /\ CallsFit(n)' /\ TurnsFit(n)' /\ calls' \in [FeedPulls -> Seq(Call)]
      /\ \A m \in FeedPulls : m # n => calls'[m] = calls[m]
      /\ Revived' = Revived /\ (FoundByNumber(n) => FoundByNumber(n)')
  <2>1. PICK ok \in BOOLEAN : ok = TRUE
    OBVIOUS
  <2>2. Counts(n, Stages[k], ok)
    BY <2>1
  <2>3. (k = 5 /\ ok => n \notin withdrawn') /\ (k <= 4 \/ ~ok => withdrawn' = withdrawn)
    BY <1>8, <2>1
  <2> QED
    BY <2>2, <2>3, StageCounts
<1>10. OthersKeep(n)
  BY <1>4, <1>8, <1>9 DEF OthersKeep
<1>11. /\ poll'.at = "rows" /\ poll'.rows = poll.rows /\ poll'.withdrawn = poll.withdrawn /\ poll'.blind = poll.blind
       /\ \/ k \in 1 .. 5 /\ poll'.row = poll.row /\ poll'.stage = k + 1
          \/ k = 6 /\ poll'.row = poll.row + 1 /\ poll'.stage = 1
  BY <1>1, <1>2, RowGoes
<1>12. \A l \in 1 .. 6 : Past(at, l)' <=> l <= k
  BY <1>1, <1>2, RowGoes
<1>13. /\ hub[n].state # "none" /\ pull.state \in {"open", "closed", "merged"} /\ pull.created = hub[n].created
       /\ pull.state = "merged" => hub[n].state = "merged"
       /\ k > 2 => memory.known[n].draft = {pull.draft}
       /\ k > 3 => memory.known[n].labels = {pull.labels}
       /\ k > 4 => memory.known[n].reviewers = {pull.reviewers}
       /\ k <= 5 => /\ n \in poll.withdrawn => n \in withdrawn
                    /\ ~poll.blind /\ n \in withdrawn => n \in poll.withdrawn
       /\ told[n].state = "merged" => pull.state = "merged"
       /\ ~IsOld(n) => n \notin memory.closed /\ memory.known[n].draft = {}
  BY RowFacts
<1>14. RowNotes(at)'
  <2>1. (Past(at, 2)' <=> 2 <= k) /\ (Past(at, 3)' <=> 3 <= k) /\ (Past(at, 4)' <=> 4 <= k)
    BY <1>12
  <2>2. /\ 2 <= k => noted.known[n].draft = {pull.draft}
        /\ 3 <= k => noted.known[n].labels = {pull.labels}
        /\ 4 <= k => noted.known[n].reviewers = {pull.reviewers}
    BY <1>7, <1>13
  <2> QED
    BY <1>2, <1>4, <1>11, <2>1, <2>2 DEF RowNotes
<1>15. RowEnds(at)'
  <2>1. 5 <= k /\ pull.state = "open" => n \notin noted.closed /\ n \notin withdrawn'
    BY <1>5, <1>6, <1>8
  <2>2. 6 <= k => n \in noted.closed
    BY <1>6
  <2>3. ~(5 <= k) => /\ n \in poll.withdrawn => n \in withdrawn'
                     /\ ~poll.blind /\ n \in withdrawn' => n \in poll.withdrawn
    BY <1>8, <1>13
  <2>4. told'[n].state = "merged" => pull.state = "merged"
    BY <1>8, <1>13
  <2>5. (Past(at, 5)' <=> 5 <= k) /\ (Past(at, 6)' <=> 6 <= k)
    BY <1>12
  <2> QED
    BY <1>2, <1>11, <2>1, <2>2, <2>3, <2>4, <2>5 DEF RowEnds
<1>16. HeardFits(n)
  BY DEF FeedInv
<1>17. HeardFits(n)'
  <2>1. memory'.known[n].draft # {} => IsOld(n)'
    BY <1>4
  <2>2. told'[n].state = "merged" => hub'[n].state = "merged"
    BY <1>8, <1>13, <1>16 DEF HeardFits
  <2>3. ASSUME n \notin missed
        PROVE  /\ n \in noted.closed => told'[n].state \in {"closed", "merged"}
               /\ \A v \in noted.known[n].labels : told'[n].labels = v
               /\ \A v \in noted.known[n].reviewers : v \subseteq told'[n].reviewers
               /\ n \in noted.closed \/ FoundByNumber(n) \/ Midway(n)'
                    \/ \A v \in noted.known[n].draft : told'[n].draft = v
               /\ n \in noted.opened /\ noted.known[n].draft = {} =>
                    AtRow(n)' /\ poll'.stage = 2 /\ told'[n].draft = poll'.rows[poll'.row].pull.draft
    <3>1. /\ n \in memory.closed => told[n].state \in {"closed", "merged"}
          /\ \A v \in memory.known[n].labels : told[n].labels = v
          /\ \A v \in memory.known[n].reviewers : v \subseteq told[n].reviewers
          /\ n \in memory.closed \/ FoundByNumber(n) \/ Midway(n)
               \/ \A v \in memory.known[n].draft : told[n].draft = v
      BY <1>16, <2>3 DEF HeardFits
    <3>2. k = 1 => n \notin memory.closed /\ memory.known[n].draft = {}
      <4>1. k = 1 => ~IsOld(n)
        BY <1>5, <1>13 DEF IsOld
      <4> QED
        BY <1>13, <4>1
    <3>3. n \in noted.closed => told'[n].state \in {"closed", "merged"}
      BY <1>5, <1>6, <1>8, <3>1, <3>2
    <3>4. \A v \in noted.known[n].labels : told'[n].labels = v
      BY <1>7, <1>8, <3>1
    <3>5. \A v \in noted.known[n].reviewers : v \subseteq told'[n].reviewers
      BY <1>7, <1>8, <3>1
    <3>6. Midway(n) <=> k > 2 /\ pull.state # "open"
      BY <1>1, <1>2 DEF Midway, AtRow
    <3>7. k \in 1 .. 5 => (Midway(n)' <=> k + 1 > 2 /\ pull.state # "open")
      BY <1>1, <1>2, <1>11 DEF Midway, AtRow
    <3>8. n \in noted.closed \/ FoundByNumber(n) \/ Midway(n)'
            \/ \A v \in noted.known[n].draft : told'[n].draft = v
      <4>1. CASE k = 1
        BY <1>7, <3>2, <4>1
      <4>2. CASE k \in {2, 5}
        BY <1>7, <1>8, <1>13, <4>2
      <4>3. CASE k = 6
        BY <1>6, <4>3
      <4>4. CASE k \in {3, 4}
        <5>1. noted.known[n].draft = memory.known[n].draft /\ told'[n].draft = told[n].draft
          BY <1>7, <1>8, <4>4
        <5>2. noted.closed = memory.closed /\ (Midway(n) => Midway(n)')
          BY <1>6, <3>6, <3>7, <4>4
        <5> QED
          BY <3>1, <5>1, <5>2
      <4> QED
        BY <4>1, <4>2, <4>3, <4>4
    <3>9. n \in noted.opened /\ noted.known[n].draft = {} =>
            AtRow(n)' /\ poll'.stage = 2 /\ told'[n].draft = poll'.rows[poll'.row].pull.draft
      <4>1. CASE k = 1
        <5>1. poll'.stage = 2 /\ poll'.row = at /\ poll'.rows = poll.rows /\ poll'.at = "rows"
          BY <1>1, <1>11, <4>1
        <5>2. told'[n].draft = pull.draft
          BY <1>8, <4>1
        <5> QED
          BY <1>2, <5>1, <5>2 DEF AtRow
      <4>2. CASE k > 1
        BY <1>7, <1>13, <4>2
      <4> QED
        BY <4>1, <4>2
    <3> QED
      BY <3>3, <3>4, <3>5, <3>8, <3>9
  <2> QED
    BY <1>9, <2>1, <2>2, <2>3 DEF HeardFits
<1> QED
  BY <1>1, <1>4, <1>8, <1>9, <1>10, <1>14, <1>15, <1>17, RowMoves

LEMMA StagesKeep == ASSUME FeedInv, TakeStage PROVE FeedInv'
<1>1. PICK n \in FeedPulls, pull \in PullRecord, stage \in Range(Stages) :
        /\ RowIs(n, pull) /\ stage = Stages[poll.stage] /\ memory' = Noted(stage)
        /\ UNCHANGED <<feedRegime, clock, hub, watched, ready>>
        /\ \/ ~Tells(stage) /\ Sees(n, pull) /\ Goes /\ UNCHANGED <<withdrawn, calls, missed>>
           \/ Tells(stage) /\ Hears(n, pull, stage) /\ Counts(n, stage, TRUE) /\ Goes /\ UNCHANGED missed
           \/ Tells(stage) /\ Falls(n) /\ Counts(n, stage, FALSE) /\ UNCHANGED <<told, withdrawn>>
  BY StageTaken, Zenon
<1>2. PICK k : k = poll.stage
  OBVIOUS
<1>3. k \in 1 .. 6
  BY <1>2, RowsTyped DEF FeedInv
<1>4. PICK noted : noted = Noted(Stages[k])
  OBVIOUS
<1>5. stage = Stages[k] /\ memory' = noted
  BY <1>1, <1>2, <1>4
<1>6. CASE ~Tells(stage) /\ Sees(n, pull) /\ Goes /\ UNCHANGED <<withdrawn, calls, missed>>
  BY <1>1, <1>2, <1>3, <1>4, <1>5, <1>6, StageQuiet
<1>7. CASE Tells(stage) /\ Hears(n, pull, stage) /\ Counts(n, stage, TRUE) /\ Goes /\ UNCHANGED missed
  BY <1>1, <1>2, <1>3, <1>4, <1>5, <1>7, StageHeard
<1>8. CASE Tells(stage) /\ Falls(n) /\ Counts(n, stage, FALSE) /\ UNCHANGED <<told, withdrawn>>
  BY <1>1, <1>2, <1>3, <1>4, <1>5, <1>8, StageFails
<1> QED
  BY <1>1, <1>6, <1>7, <1>8

(* Asking by number, once the rows are done. *)
LEMMA TailParts ==
  ASSUME NEW T, NEW s \in Seq(T), s # <<>>
  PROVE  /\ Head(s) = s[1] /\ 1 \in DOMAIN s /\ Head(s) \in T
         /\ Tail(s) \in Seq(T) /\ Len(s) \in Nat /\ Len(Tail(s)) \in Nat /\ Len(s) = Len(Tail(s)) + 1
         /\ \A i \in DOMAIN Tail(s) : i + 1 \in DOMAIN s /\ i + 1 # 1 /\ Tail(s)[i] = s[i + 1] /\ i \in Nat
         /\ \A x \in Range(s) : x = Head(s) \/ x \in Range(Tail(s))
<1>1. /\ Head(s) = s[1] /\ Len(s) \in Nat \ {0} /\ DOMAIN s = 1 .. Len(s) /\ Tail(s) \in Seq(T)
      /\ Len(Tail(s)) = Len(s) - 1
  OBVIOUS
<1>2. DOMAIN Tail(s) = 1 .. Len(s) - 1 /\ \A i \in 1 .. Len(s) - 1 : Tail(s)[i] = s[i + 1]
  BY <1>1
<1>3. ASSUME NEW x \in Range(s) PROVE x = Head(s) \/ x \in Range(Tail(s))
  <2>1. PICK i \in DOMAIN s : s[i] = x
    BY DEF Range
  <2>2. CASE i = 1
    BY <1>1, <2>1, <2>2
  <2>3. CASE i # 1
    <3>1. PICK j : j = i - 1
      OBVIOUS
    <3>2. j \in 1 .. Len(s) - 1 /\ i = j + 1
      BY <1>1, <2>3, <3>1
    <3>3. Tail(s)[j] = x /\ j \in DOMAIN Tail(s)
      BY <1>2, <2>1, <3>2
    <3> QED
      BY <3>3 DEF Range
  <2> QED
    BY <2>2, <2>3
<1>4. 1 \in DOMAIN s /\ s[1] \in T
  BY <1>1
<1>5. \A i \in DOMAIN Tail(s) : i + 1 \in DOMAIN s /\ i + 1 # 1 /\ i \in Nat
  BY <1>1, <1>2
<1> QED
  BY <1>1, <1>2, <1>3, <1>4, <1>5

LEMMA OthersFit ==
  ASSUME FeedInv, NEW n \in FeedPulls, NEW m \in FeedPulls, m # n, ~AtRow(m), OthersKeep(n),
         memory'.since = memory.since, UNCHANGED <<feedRegime, hub>>
  PROVE  CallsFit(m)' /\ TurnsFit(m)' /\ HeardFits(m)'
<1>1. CallsFit(m) /\ TurnsFit(m) /\ HeardFits(m)
  BY DEF FeedInv
<1>2. /\ memory'.known[m] = memory.known[m] /\ told'[m] = told[m] /\ calls'[m] = calls[m]
      /\ m \in memory'.opened <=> m \in memory.opened
      /\ m \in memory'.closed <=> m \in memory.closed
      /\ m \in withdrawn' <=> m \in withdrawn
      /\ m \in missed <=> m \in missed'
      /\ IsOld(m)' <=> IsOld(m)
  BY DEF OthersKeep, IsOld
<1>3. CallsFit(m)' /\ TurnsFit(m)'
  BY <1>1, <1>2 DEF CallsFit, TurnsFit, LastCall, Reopening
<1>4. HeardFits(m)'
  BY <1>1, <1>2 DEF HeardFits, FoundByNumber, Midway
<1> QED
  BY <1>3, <1>4

LEMMA PollDrops ==
  ASSUME FeedInv, NEW n \in FeedPulls, \A m \in FeedPulls : m # n => ~AtRow(m), poll' = NoPoll,
         UNCHANGED <<feedRegime, clock, hub, watched, ready>>,
         memory' \in MemoryRecord, memory'.since = memory.since, memory'.probed = memory.probed,
         told' \in [FeedPulls -> ToldRecord], calls' \in [FeedPulls -> Seq(Call)],
         withdrawn' \subseteq FeedPulls, Revived' = Revived, OthersKeep(n),
         CallsFit(n)', TurnsFit(n)', HeardFits(n)'
  PROVE  FeedInv'
<1>1. FeedTyped /\ clock \in Nat
  BY DEF FeedInv, FeedTyped
<1>2. /\ FeedPulls' = FeedPulls /\ PullRecord' = PullRecord /\ ToldRecord' = ToldRecord
      /\ MemoryRecord' = MemoryRecord /\ PollRecord' = PollRecord
  BY FeedSteady
<1>3. poll' \in PollRecord
  BY BlanksTyped
<1>4. /\ poll'.rows = <<>> /\ poll'.probes = <<>> /\ poll'.at = "idle" /\ poll'.whole = FALSE
      /\ poll'.passes = 0 /\ poll'.began = 0 /\ DOMAIN poll'.rows = {} /\ DOMAIN poll'.probes = {}
  BY DEF NoPoll
<1>5. FeedTyped'
  BY <1>1, <1>2, <1>3 DEF FeedTyped
<1>6. HubInOrder' /\ NeverIdled'
  BY <1>1, <1>2, <1>4 DEF FeedInv, HubInOrder, NeverIdled
<1>7. ProbesWait'
  BY <1>4 DEF ProbesWait
<1>8. ProbesCount'
  <2>1. /\ feedRegime.probes \in Nat
        /\ Cardinality(memory.probed) \in Nat /\ Cardinality(Revived) \in Nat
    BY <1>1, FeedCounts
  <2>2. feedRegime'.probes * poll'.passes = 0
    BY <1>4, <2>1
  <2> QED
    BY <1>4, <2>1, <2>2 DEF ProbesCount
<1>9. \A m \in FeedPulls : CallsFit(m)' /\ TurnsFit(m)' /\ HeardFits(m)'
  BY OthersFit
<1> QED
  BY <1>2, <1>4, <1>5, <1>6, <1>7, <1>8, <1>9 DEF FeedInv

(* The one asked for is on no row: what the rows show and leave stands. *)
LEMMA ProbeMoves ==
  ASSUME FeedInv, NEW n \in FeedPulls, n \notin Numbers(poll.rows), poll.row > Len(poll.rows),
         UNCHANGED <<feedRegime, clock, hub, watched, ready>>,
         memory' \in MemoryRecord, memory'.since = memory.since,
         told' \in [FeedPulls -> ToldRecord], calls' \in [FeedPulls -> Seq(Call)],
         withdrawn' \subseteq FeedPulls, IsFiniteSet(Revived'), OthersKeep(n), poll' \in PollRecord,
         poll'.rows = poll.rows, poll'.row = poll.row, poll'.stage = poll.stage,
         poll'.withdrawn = poll.withdrawn, poll'.blind = poll.blind, poll'.began = poll.began,
         ProbesWait', ProbesCount', CallsFit(n)', TurnsFit(n)', HeardFits(n)'
  PROVE  FeedInv'
<1>1. FeedTyped
  BY DEF FeedInv
<1>2. /\ FeedPulls' = FeedPulls /\ PullRecord' = PullRecord /\ ToldRecord' = ToldRecord
      /\ MemoryRecord' = MemoryRecord /\ PollRecord' = PollRecord
  BY FeedSteady
<1>3. FeedTyped'
  BY <1>1, <1>2 DEF FeedTyped
<1>4. HubInOrder' /\ NeverIdled'
  BY <1>2 DEF FeedInv, HubInOrder, NeverIdled
<1>5. \A m : ~AtRow(m)
  BY <1>1, RowsTyped DEF AtRow
<1>6. \A m \in FeedPulls : CallsFit(m)' /\ TurnsFit(m)' /\ HeardFits(m)'
  BY <1>5, OthersFit
<1>7. ASSUME NEW i \in DOMAIN poll.rows PROVE RowShows(i)' /\ RowNotes(i)' /\ RowEnds(i)'
  <2>1. RowShows(i) /\ RowNotes(i) /\ RowEnds(i)
    BY DEF FeedInv
  <2>2. RowShows(i)'
    BY <2>1 DEF RowShows
  <2>3. PICK m : m = poll.rows[i].n
    OBVIOUS
  <2>4. m \in FeedPulls /\ m # n
    BY <1>1, <2>3, RowsTyped DEF Numbers
  <2>5. /\ memory'.known[m] = memory.known[m] /\ told'[m] = told[m]
        /\ m \in memory'.closed <=> m \in memory.closed
        /\ m \in withdrawn' <=> m \in withdrawn
        /\ IsOld(m)' <=> IsOld(m)
    BY <2>4 DEF OthersKeep, IsOld
  <2>6. RowNotes(i)' /\ RowEnds(i)'
    BY <2>1, <2>3, <2>5 DEF RowNotes, RowEnds, Past
  <2> QED
    BY <2>2, <2>6
<1> QED
  BY <1>2, <1>3, <1>4, <1>6, <1>7 DEF FeedInv

AskedFor(n, rest) ==
  /\ poll.at = "rows" /\ poll.row > Len(poll.rows) /\ n \in withdrawn \ (Numbers(poll.rows) \cup memory.probed)
  /\ Len(rest) \in Nat /\ Len(poll.probes) = Len(rest) + 1
  /\ \A i \in DOMAIN rest :
       /\ rest[i] \in withdrawn \ (Numbers(poll.rows) \cup memory.probed) /\ rest[i] # n
       /\ \A j \in DOMAIN rest : rest[i] = rest[j] => i = j
  /\ \A x \in Range(poll.probes) : x = n \/ x \in Range(rest)

LEMMA ProbeTaken ==
  ASSUME FeedInv, Probe
  PROVE  \E n \in FeedPulls, rest \in Seq(FeedPulls), later \in PollRecord :
           /\ AskedFor(n, rest) /\ later = [poll EXCEPT !.probes = rest]
           /\ UNCHANGED <<feedRegime, clock, hub, watched, ready>>
           /\ \/ /\ poll' = [later EXCEPT !.unasked = @ \cup {n}, !.clean = FALSE]
                 /\ UNCHANGED <<memory, withdrawn, told, calls, missed>>
              \/ /\ memory' = [memory EXCEPT !.probed = @ \cup {n}] /\ poll' = later
                 /\ UNCHANGED <<withdrawn, told, calls, missed>>
              \/ /\ hub[n].state = "open" /\ memory' = [memory EXCEPT !.closed = @ \ {n}] /\ poll' = later
                 /\ Hears(n, hub[n], "reopened") /\ Counts(n, "found", TRUE) /\ UNCHANGED missed
              \/ /\ memory' = [memory EXCEPT !.closed = @ \ {n}]
                 /\ Falls(n) /\ Counts(n, "found", FALSE) /\ UNCHANGED <<told, withdrawn>>
<1>1. /\ poll.at = "rows" /\ poll.row > Len(poll.rows) /\ poll.probes # <<>>
      /\ UNCHANGED <<feedRegime, clock, hub, watched, ready>>
  BY DEF Probe, OnGitHub, WatchList
<1>2. poll \in PollRecord /\ poll.probes \in Seq(FeedPulls)
  BY DEF FeedInv, FeedTyped, PollRecord
<1>3. PICK probes, n, rest, later : /\ probes = poll.probes /\ n = Head(probes) /\ rest = Tail(probes)
                                    /\ later = [poll EXCEPT !.probes = rest]
  OBVIOUS
<1>4. /\ n = probes[1] /\ 1 \in DOMAIN probes /\ n \in FeedPulls
      /\ rest \in Seq(FeedPulls) /\ Len(probes) \in Nat /\ Len(rest) \in Nat /\ Len(probes) = Len(rest) + 1
      /\ \A i \in DOMAIN rest : i + 1 \in DOMAIN probes /\ i + 1 # 1 /\ rest[i] = probes[i + 1] /\ i \in Nat
      /\ \A x \in Range(probes) : x = n \/ x \in Range(rest)
  BY <1>1, <1>2, <1>3, TailParts
<1>5. \A i \in DOMAIN probes :
        /\ probes[i] \in withdrawn \ (Numbers(poll.rows) \cup memory.probed)
        /\ \A j \in DOMAIN probes : probes[i] = probes[j] => i = j
  BY <1>3 DEF FeedInv, ProbesWait
<1>6. ASSUME NEW i \in DOMAIN rest
      PROVE  /\ rest[i] \in withdrawn \ (Numbers(poll.rows) \cup memory.probed) /\ rest[i] # n
             /\ \A j \in DOMAIN rest : rest[i] = rest[j] => i = j
  <2>1. rest[i] \in withdrawn \ (Numbers(poll.rows) \cup memory.probed) /\ rest[i] # n
    BY <1>4, <1>5
  <2>2. ASSUME NEW j \in DOMAIN rest, rest[i] = rest[j] PROVE i = j
    <3>1. i + 1 = j + 1 /\ i \in Nat /\ j \in Nat
      BY <1>4, <1>5, <2>2
    <3> QED
      BY <3>1
  <2> QED
    BY <2>1, <2>2
<1>7. AskedFor(n, rest)
  <2>1. n \in withdrawn \ (Numbers(poll.rows) \cup memory.probed)
    BY <1>4, <1>5
  <2>2. Len(rest) \in Nat /\ Len(poll.probes) = Len(rest) + 1
    BY <1>3, <1>4
  <2>3. \A x \in Range(poll.probes) : x = n \/ x \in Range(rest)
    BY <1>3, <1>4
  <2> QED
    BY <1>1, <1>6, <2>1, <2>2, <2>3 DEF AskedFor
<1>8. later \in PollRecord
  BY <1>2, <1>3, <1>4 DEF PollRecord
<1>9. n = Head(poll.probes) /\ later = [poll EXCEPT !.probes = Tail(@)]
  BY <1>3
<1>10. \/ /\ poll' = [later EXCEPT !.unasked = @ \cup {n}, !.clean = FALSE]
          /\ UNCHANGED <<memory, withdrawn, told, calls, missed>>
       \/ /\ memory' = [memory EXCEPT !.probed = @ \cup {n}] /\ poll' = later
          /\ UNCHANGED <<withdrawn, told, calls, missed>>
       \/ /\ hub[n].state = "open" /\ memory' = [memory EXCEPT !.closed = @ \ {n}] /\ poll' = later
          /\ Hears(n, hub[n], "reopened") /\ Counts(n, "found", TRUE) /\ UNCHANGED missed
       \/ /\ memory' = [memory EXCEPT !.closed = @ \ {n}]
          /\ Falls(n) /\ Counts(n, "found", FALSE) /\ UNCHANGED <<told, withdrawn>>
  BY <1>9 DEF Probe, Registry, HeardSoFar
<1>11. n \in FeedPulls /\ rest \in Seq(FeedPulls) /\ later = [poll EXCEPT !.probes = rest]
  BY <1>3, <1>4
<1> QED
  BY <1>1, <1>7, <1>8, <1>10, <1>11, Zenon

(* Those still to be asked for, and how many they are. *)
LEMMA RestWaits ==
  ASSUME FeedInv, NEW n \in FeedPulls, NEW rest \in Seq(FeedPulls), AskedFor(n, rest),
         \A m \in FeedPulls : m # n => (m \in withdrawn' <=> m \in withdrawn),
         poll'.at = "rows", poll'.rows = poll.rows, poll'.probes = rest, poll'.withdrawn = poll.withdrawn,
         poll'.blind = poll.blind, withdrawn' \subseteq withdrawn,
         memory'.probed \in {memory.probed, memory.probed \cup {n}},
         poll'.unasked \in {poll.unasked, poll.unasked \cup {n}},
         n \in withdrawn' => n \in memory'.probed \cup poll'.unasked
  PROVE  ProbesWait'
<1>1. \A i \in DOMAIN rest :
        /\ rest[i] \in withdrawn \ (Numbers(poll.rows) \cup memory.probed) /\ rest[i] # n
        /\ \A j \in DOMAIN rest : rest[i] = rest[j] => i = j
  BY DEF AskedFor
<1>2. withdrawn \subseteq FeedPulls
  BY DEF FeedInv, FeedTyped
<1>3. \A i \in DOMAIN rest : rest[i] \in withdrawn' \ (Numbers(poll.rows) \cup memory'.probed)
  BY <1>1, <1>2
<1>4. ASSUME ~poll.blind
      PROVE  /\ withdrawn' \subseteq poll.withdrawn \cup Numbers(poll.rows)
             /\ \A m \in withdrawn' \ Numbers(poll.rows) : m \in memory'.probed \cup poll'.unasked \cup Range(rest)
  <2>1. /\ withdrawn \subseteq poll.withdrawn \cup Numbers(poll.rows)
        /\ \A m \in withdrawn \ Numbers(poll.rows) :
             m \in memory.probed \cup poll.unasked \cup Range(poll.probes)
    BY <1>4 DEF FeedInv, ProbesWait, AskedFor
  <2>2. \A x \in Range(poll.probes) : x = n \/ x \in Range(rest)
    BY DEF AskedFor
  <2> QED
    BY <2>1, <2>2
<1>5. Numbers(poll'.rows) = Numbers(poll.rows)
  OBVIOUS
<1> QED
  BY <1>1, <1>3, <1>4, <1>5 DEF ProbesWait

LEMMA RestCounts ==
  ASSUME FeedInv, NEW n, NEW rest, AskedFor(n, rest), feedRegime' = feedRegime,
         poll'.passes = poll.passes, poll'.probes = rest,
         NEW K, K = Cardinality(memory.probed) + Cardinality(Revived),
         \/ poll'.clean = FALSE /\ Cardinality(memory'.probed) + Cardinality(Revived') = K
         \/ /\ poll'.clean = poll.clean /\ poll'.unasked = poll.unasked
            /\ Cardinality(memory'.probed) + Cardinality(Revived') = K + 1
  PROVE  ProbesCount'
<1>1. PICK p, l : p = feedRegime.probes /\ l = Len(rest)
  OBVIOUS
<1>2. p \in Nat /\ K \in Nat /\ poll.passes \in Nat /\ l \in Nat
  BY <1>1, FeedCounts DEF FeedInv, FeedTyped, PollRecord, AskedFor
<1>3. p * poll.passes <= K /\ p * poll.passes \in Nat
  BY <1>1, <1>2 DEF FeedInv, ProbesCount
<1>4. poll.clean /\ poll.unasked # {} => p * poll.passes + p <= K + l + 1
  <2>1. poll.at = "rows" /\ Len(poll.probes) = l + 1
    BY <1>1 DEF AskedFor
  <2>2. poll.clean /\ poll.unasked # {} => p * poll.passes + p <= K + Len(poll.probes)
    BY <1>1, <2>1 DEF FeedInv, ProbesCount
  <2> QED
    BY <1>2, <2>1, <2>2
<1>5. PICK t : t = p * poll.passes
  OBVIOUS
<1>6. t \in Nat /\ t <= K /\ (poll.clean /\ poll.unasked # {} => t + p <= K + l + 1)
  BY <1>3, <1>4, <1>5
<1>7. feedRegime'.probes * poll'.passes = t /\ Len(poll'.probes) = l /\ feedRegime'.probes = p
  BY <1>1, <1>5
<1>8. PICK k : k = Cardinality(memory'.probed) + Cardinality(Revived')
  OBVIOUS
<1>9. CASE poll'.clean = FALSE /\ k = K
  BY <1>6, <1>7, <1>8, <1>9 DEF ProbesCount
<1>10. CASE poll'.clean = poll.clean /\ poll'.unasked = poll.unasked /\ k = K + 1
  <2>1. t <= k /\ (poll.clean /\ poll.unasked # {} => t + p <= k + l)
    BY <1>2, <1>6, <1>10
  <2> QED
    BY <1>7, <1>8, <1>10, <2>1 DEF ProbesCount
<1> QED
  BY <1>8, <1>9, <1>10

(* The answer is that it is closed, or there is none: nothing is told. *)
LEMMA NothingHeard ==
  ASSUME FeedInv, NEW n \in FeedPulls, ~AtRow(n),
         UNCHANGED <<feedRegime, hub, told, calls, withdrawn, missed>>,
         memory'.since = memory.since, memory'.opened = memory.opened,
         memory'.closed = memory.closed, memory'.known = memory.known
  PROVE  CallsFit(n)' /\ TurnsFit(n)' /\ HeardFits(n)' /\ OthersKeep(n) /\ Revived' = Revived
<1>1. CallsFit(n) /\ TurnsFit(n) /\ HeardFits(n)
  BY DEF FeedInv
<1>2. IsOld(n)' <=> IsOld(n)
  BY DEF IsOld
<1>3. CallsFit(n)' /\ TurnsFit(n)'
  BY <1>1, <1>2 DEF CallsFit, TurnsFit, LastCall, Reopening
<1>4. HeardFits(n)'
  BY <1>1, <1>2 DEF HeardFits, FoundByNumber, Midway
<1>5. OthersKeep(n)
  BY DEF OthersKeep
<1>6. Revived' = Revived
  BY FeedSteady DEF Revived
<1> QED
  BY <1>3, <1>4, <1>5, <1>6

LEMMA ProbeLeaves ==
  ASSUME FeedInv, NEW n \in FeedPulls, NEW rest \in Seq(FeedPulls), NEW later \in PollRecord,
         AskedFor(n, rest), later = [poll EXCEPT !.probes = rest],
         UNCHANGED <<feedRegime, clock, hub, watched, ready, withdrawn, told, calls, missed>>,
         \/ poll' = [later EXCEPT !.unasked = @ \cup {n}, !.clean = FALSE] /\ memory' = memory
         \/ memory' = [memory EXCEPT !.probed = @ \cup {n}] /\ poll' = later
  PROVE  FeedInv'
<1>1. /\ FeedTyped /\ poll \in PollRecord /\ memory \in MemoryRecord /\ withdrawn \subseteq FeedPulls
      /\ told \in [FeedPulls -> ToldRecord] /\ calls \in [FeedPulls -> Seq(Call)] /\ IsFiniteSet(Revived)
  BY DEF FeedInv, FeedTyped
<1>2. /\ poll.at = "rows" /\ poll.row > Len(poll.rows) /\ n \notin Numbers(poll.rows)
      /\ n \in withdrawn /\ n \notin memory.probed
  BY DEF AskedFor
<1>3. \A m : ~AtRow(m)
  BY <1>1, <1>2, RowsTyped DEF AtRow
<1>4. /\ later.at = "rows" /\ later.rows = poll.rows /\ later.row = poll.row
      /\ later.stage = poll.stage /\ later.withdrawn = poll.withdrawn /\ later.blind = poll.blind
      /\ later.began = poll.began /\ later.probes = rest /\ later.passes = poll.passes
      /\ later.unasked = poll.unasked /\ later.clean = poll.clean
  BY <1>1, <1>2 DEF PollRecord
<1>5. ASSUME poll' = [later EXCEPT !.unasked = @ \cup {n}, !.clean = FALSE], memory' = memory
      PROVE  /\ poll'.unasked = poll.unasked \cup {n} /\ poll' \in PollRecord
             /\ poll'.at = "rows" /\ poll'.rows = poll.rows /\ poll'.row = poll.row
             /\ poll'.stage = poll.stage /\ poll'.withdrawn = poll.withdrawn /\ poll'.blind = poll.blind
             /\ poll'.began = poll.began /\ poll'.probes = rest /\ poll'.passes = poll.passes
  BY <1>4, <1>5 DEF PollRecord
<1>6. ASSUME memory' = [memory EXCEPT !.probed = @ \cup {n}], poll' = later
      PROVE  /\ memory'.probed = memory.probed \cup {n} /\ memory' \in MemoryRecord
             /\ memory'.since = memory.since /\ memory'.opened = memory.opened
             /\ memory'.closed = memory.closed /\ memory'.known = memory.known
  BY <1>1, <1>6 DEF MemoryRecord
<1>7. /\ memory' \in MemoryRecord /\ memory'.since = memory.since /\ memory'.opened = memory.opened
      /\ memory'.closed = memory.closed /\ memory'.known = memory.known
      /\ memory'.probed \in {memory.probed, memory.probed \cup {n}}
  BY <1>1, <1>6
<1>8. /\ poll' \in PollRecord /\ poll'.at = "rows" /\ poll'.rows = poll.rows /\ poll'.row = poll.row
      /\ poll'.stage = poll.stage /\ poll'.withdrawn = poll.withdrawn /\ poll'.blind = poll.blind
      /\ poll'.began = poll.began /\ poll'.probes = rest /\ poll'.passes = poll.passes
      /\ poll'.unasked \in {poll.unasked, poll.unasked \cup {n}}
  BY <1>4, <1>5
<1>9. n \in memory'.probed \cup poll'.unasked
  BY <1>5, <1>6
<1>10. CallsFit(n)' /\ TurnsFit(n)' /\ HeardFits(n)' /\ OthersKeep(n) /\ Revived' = Revived
  BY <1>3, <1>7, NothingHeard
<1>11. ProbesWait'
  <2>1. \A m \in FeedPulls : m # n => (m \in withdrawn' <=> m \in withdrawn)
    OBVIOUS
  <2> QED
    BY <1>7, <1>8, <1>9, <2>1, RestWaits
<1>12. PICK K : K = Cardinality(memory.probed) + Cardinality(Revived)
  OBVIOUS
<1>13. \/ poll'.clean = FALSE /\ Cardinality(memory'.probed) + Cardinality(Revived') = K
       \/ /\ poll'.clean = poll.clean /\ poll'.unasked = poll.unasked
          /\ Cardinality(memory'.probed) + Cardinality(Revived') = K + 1
  <2>1. CASE poll' = [later EXCEPT !.unasked = @ \cup {n}, !.clean = FALSE] /\ memory' = memory
    BY <1>1, <1>10, <1>12, <2>1 DEF PollRecord
  <2>2. CASE memory' = [memory EXCEPT !.probed = @ \cup {n}] /\ poll' = later
    <3>1. IsFiniteSet(memory.probed) /\ Cardinality(memory.probed) \in Nat /\ Cardinality(Revived) \in Nat
      BY <1>1, FeedCounts
    <3>2. memory'.probed = memory.probed \cup {n}
      BY <1>1, <2>2 DEF MemoryRecord
    <3>3. Cardinality(memory.probed \cup {n}) = Cardinality(memory.probed) + 1
      BY <1>2, <3>1, FS_AddElement
    <3>4. poll'.clean = poll.clean /\ poll'.unasked = poll.unasked
      BY <1>1, <2>2 DEF PollRecord
    <3> QED
      BY <1>10, <1>12, <3>1, <3>2, <3>3, <3>4
  <2> QED
    BY <2>1, <2>2
<1>14. ProbesCount'
  BY <1>8, <1>12, <1>13, RestCounts
<1>15. /\ told' \in [FeedPulls -> ToldRecord] /\ calls' \in [FeedPulls -> Seq(Call)]
       /\ withdrawn' \subseteq FeedPulls /\ IsFiniteSet(Revived')
  BY <1>1, <1>10
<1> QED
  BY <1>2, <1>7, <1>8, <1>10, <1>11, <1>14, <1>15, ProbeMoves

(* The answer is that it is open: its reopening is told. *)
FoundSo(n, ok) ==
  /\ CallsFit(n)' /\ TurnsFit(n)' /\ calls' \in [FeedPulls -> Seq(Call)]
  /\ \A m \in FeedPulls : m # n => calls'[m] = calls[m]
  /\ FoundByNumber(n)' /\ (~ok => Revived' = Revived)
  /\ ok => IsFiniteSet(Revived') /\ Cardinality(Revived') = Cardinality(Revived) + 1
  /\ memory' \in MemoryRecord /\ memory'.since = memory.since /\ memory'.probed = memory.probed
  /\ memory'.opened = memory.opened /\ memory'.known = memory.known
  /\ memory'.closed = memory.closed \ {n}

LEMMA FoundCounts ==
  ASSUME FeedInv, NEW n \in FeedPulls, NEW rest, AskedFor(n, rest), NEW ok \in BOOLEAN,
         Counts(n, "found", ok), memory' = [memory EXCEPT !.closed = @ \ {n}],
         feedRegime' = feedRegime, hub' = hub, ok => n \notin withdrawn'
  PROVE  FoundSo(n, ok)
<1>1. FeedTyped /\ memory \in MemoryRecord /\ calls \in [FeedPulls -> Seq(Call)]
  BY DEF FeedInv, FeedTyped
<1>2. n \in withdrawn
  BY DEF AskedFor
<1>3. PICK c, s : c = <<"found", ok>> /\ s = calls[n]
  OBVIOUS
<1>4. c \in Call /\ c[1] = "found" /\ c[2] = ok /\ Reopening(c) /\ c[1] # "closed" /\ c[1] # "opened"
  BY <1>3 DEF Call, Reopening
<1>5. calls' = [calls EXCEPT ![n] = Append(@, c)]
  BY <1>3 DEF Counts
<1>6. /\ memory' \in MemoryRecord /\ memory'.since = memory.since /\ memory'.probed = memory.probed
      /\ memory'.opened = memory.opened /\ memory'.known = memory.known
      /\ memory'.closed = memory.closed \ {n}
  BY <1>1 DEF MemoryRecord
<1>7. IsOld(n) <=> IsOld(n)'
  BY <1>6 DEF IsOld
<1>8. n \in memory.closed' <=> c[1] = "closed"
  BY <1>4, <1>6
<1>9. n \in withdrawn' => \/ c[1] = "closed" \/ (Reopening(c) /\ ~c[2])
                          \/ c[1] = "opened" /\ \A i \in DOMAIN s : ~s[i][2]
  BY <1>4
<1>10. CallsFit(n)' /\ TurnsFit(n)'
  BY <1>2, <1>3, <1>4, <1>5, <1>7, <1>8, <1>9, CallFollows
<1>11. /\ calls' \in [FeedPulls -> Seq(Call)] /\ \A m \in FeedPulls : m # n => calls'[m] = calls[m]
       /\ Len(calls[n]) \in Nat /\ DOMAIN calls'[n] = 1 .. Len(calls[n]) + 1
       /\ calls'[n][Len(calls[n]) + 1] = c
       /\ c # <<"found", TRUE>> => Revived' = Revived
       /\ c = <<"found", TRUE>> =>
            Revived' = Revived \cup {<<n, Len(calls[n]) + 1>>} /\ <<n, Len(calls[n]) + 1>> \notin Revived
  BY <1>1, <1>4, <1>5, CallAdded
<1>12. FoundByNumber(n)'
  <2>1. Len(calls[n]) + 1 \in DOMAIN calls'[n]
    BY <1>11
  <2> QED
    BY <1>4, <1>11, <2>1 DEF FoundByNumber
<1>13. ASSUME ~ok PROVE Revived' = Revived
  <2>1. <<"found", TRUE>>[2] = TRUE /\ c[2] = FALSE
    BY <1>4, <1>13
  <2>2. c # <<"found", TRUE>>
    BY <2>1
  <2> QED
    BY <1>11, <2>2
<1>14. ASSUME ok PROVE IsFiniteSet(Revived') /\ Cardinality(Revived') = Cardinality(Revived) + 1
  <2>1. c = <<"found", TRUE>>
    BY <1>3, <1>14
  <2>2. IsFiniteSet(Revived)
    BY <1>1 DEF FeedTyped
  <2>3. PICK e : e = <<n, Len(calls[n]) + 1>>
    OBVIOUS
  <2>4. Revived' = Revived \cup {e} /\ e \notin Revived
    BY <1>11, <2>1, <2>3
  <2>5. IsFiniteSet(Revived \cup {e}) /\ Cardinality(Revived \cup {e}) = Cardinality(Revived) + 1
    BY <2>2, <2>4, FS_AddElement
  <2> QED
    BY <2>4, <2>5
<1> QED
  BY <1>6, <1>10, <1>11, <1>12, <1>13, <1>14 DEF FoundSo

LEMMA ProbeFinds ==
  ASSUME FeedInv, NEW n \in FeedPulls, NEW rest \in Seq(FeedPulls), NEW later \in PollRecord,
         AskedFor(n, rest), later = [poll EXCEPT !.probes = rest], poll' = later,
         hub[n].state = "open", memory' = [memory EXCEPT !.closed = @ \ {n}],
         Hears(n, hub[n], "reopened"), Counts(n, "found", TRUE),
         UNCHANGED <<feedRegime, clock, hub, watched, ready, missed>>
  PROVE  FeedInv'
<1>1. FeedTyped /\ poll \in PollRecord /\ hub[n] \in PullRecord /\ HeardFits(n)
  BY DEF FeedInv, FeedTyped
<1>2. /\ poll.at = "rows" /\ poll.row > Len(poll.rows) /\ n \notin Numbers(poll.rows)
      /\ n \in withdrawn /\ n \notin memory.probed
  BY DEF AskedFor
<1>3. "reopened" \in Range(Stages) /\ "reopened" \in {"opened", "reopened"} /\ "reopened" \notin {"labeled", "review_requested"}
  BY StageNames
<1>4. /\ told' \in [FeedPulls -> ToldRecord] /\ \A m \in FeedPulls : m # n => told'[m] = told[m]
      /\ told'[n].state = "open" /\ told'[n].labels = told[n].labels /\ told'[n].reviewers = told[n].reviewers
      /\ withdrawn' \subseteq FeedPulls /\ \A m \in FeedPulls : m # n => (m \in withdrawn' <=> m \in withdrawn)
      /\ n \notin withdrawn'
  BY <1>1, <1>3, HeardSo
<1>5. /\ CallsFit(n)' /\ TurnsFit(n)' /\ calls' \in [FeedPulls -> Seq(Call)]
      /\ \A m \in FeedPulls : m # n => calls'[m] = calls[m]
      /\ FoundByNumber(n)'
      /\ IsFiniteSet(Revived') /\ Cardinality(Revived') = Cardinality(Revived) + 1
      /\ memory' \in MemoryRecord /\ memory'.since = memory.since /\ memory'.probed = memory.probed
      /\ memory'.opened = memory.opened /\ memory'.known = memory.known
      /\ memory'.closed = memory.closed \ {n}
  <2>1. PICK ok \in BOOLEAN : ok = TRUE
    OBVIOUS
  <2>2. Counts(n, "found", ok)
    BY <2>1
  <2>3. feedRegime' = feedRegime /\ hub' = hub /\ (ok => n \notin withdrawn')
    BY <1>4
  <2>4. FoundSo(n, ok)
    BY <2>1, <2>2, <2>3, FoundCounts
  <2> QED
    BY <2>1, <2>4 DEF FoundSo
<1>6. OthersKeep(n)
  BY <1>4, <1>5 DEF OthersKeep
<1>7. ~AtRow(n) /\ (IsOld(n)' <=> IsOld(n))
  BY <1>1, <1>2, <1>5, RowsTyped DEF AtRow, IsOld
<1>8. HeardFits(n)'
  BY <1>1, <1>4, <1>5, <1>7 DEF HeardFits
<1>9. /\ poll' \in PollRecord /\ poll'.at = "rows" /\ poll'.rows = poll.rows /\ poll'.row = poll.row
      /\ poll'.stage = poll.stage /\ poll'.withdrawn = poll.withdrawn /\ poll'.blind = poll.blind
      /\ poll'.began = poll.began /\ poll'.probes = rest /\ poll'.passes = poll.passes
      /\ poll'.unasked = poll.unasked /\ poll'.clean = poll.clean
  BY <1>1, <1>2 DEF PollRecord
<1>10. withdrawn' \subseteq withdrawn
  BY <1>4
<1>11. ProbesWait'
  BY <1>4, <1>5, <1>9, <1>10, RestWaits
<1>12. PICK K : K = Cardinality(memory.probed) + Cardinality(Revived)
  OBVIOUS
<1>13. Cardinality(memory'.probed) + Cardinality(Revived') = K + 1
  BY <1>1, <1>5, <1>12, FeedCounts
<1>14. ProbesCount'
  BY <1>9, <1>12, <1>13, RestCounts
<1> QED
  BY <1>2, <1>4, <1>5, <1>6, <1>8, <1>9, <1>11, <1>14, ProbeMoves

LEMMA ProbeFalls ==
  ASSUME FeedInv, NEW n \in FeedPulls, NEW rest \in Seq(FeedPulls), AskedFor(n, rest),
         memory' = [memory EXCEPT !.closed = @ \ {n}], Falls(n), Counts(n, "found", FALSE),
         UNCHANGED <<feedRegime, clock, hub, watched, ready, told, withdrawn>>
  PROVE  FeedInv'
<1>1. FeedTyped /\ HeardFits(n) /\ poll.row > Len(poll.rows) /\ n \in withdrawn
  BY DEF FeedInv, AskedFor
<1>2. /\ CallsFit(n)' /\ TurnsFit(n)' /\ calls' \in [FeedPulls -> Seq(Call)]
      /\ \A m \in FeedPulls : m # n => calls'[m] = calls[m]
      /\ Revived' = Revived
      /\ memory' \in MemoryRecord /\ memory'.since = memory.since /\ memory'.probed = memory.probed
      /\ memory'.opened = memory.opened /\ memory'.known = memory.known
      /\ memory'.closed = memory.closed \ {n}
  <2>1. PICK ok \in BOOLEAN : ok = FALSE
    OBVIOUS
  <2>2. Counts(n, "found", ok)
    BY <2>1
  <2>3. feedRegime' = feedRegime /\ hub' = hub /\ (ok => n \notin withdrawn')
    BY <2>1
  <2>4. FoundSo(n, ok)
    BY <2>1, <2>2, <2>3, FoundCounts
  <2> QED
    BY <2>1, <2>4 DEF FoundSo
<1>3. poll' = NoPoll /\ missed' = missed \cup {n}
  BY DEF Falls
<1>4. OthersKeep(n)
  BY <1>2, <1>3 DEF OthersKeep
<1>5. \A m : ~AtRow(m)
  BY <1>1, RowsTyped DEF AtRow
<1>6. IsOld(n)' <=> IsOld(n)
  BY <1>2 DEF IsOld
<1>7. HeardFits(n)'
  BY <1>1, <1>2, <1>3, <1>6 DEF HeardFits
<1>8. told' \in [FeedPulls -> ToldRecord] /\ withdrawn' \subseteq FeedPulls
  BY <1>1 DEF FeedTyped
<1> QED
  BY <1>2, <1>3, <1>4, <1>5, <1>7, <1>8, PollDrops

LEMMA ProbesKeep == ASSUME FeedInv, Probe PROVE FeedInv'
<1>1. PICK n \in FeedPulls, rest \in Seq(FeedPulls), later \in PollRecord :
        /\ AskedFor(n, rest) /\ later = [poll EXCEPT !.probes = rest]
        /\ UNCHANGED <<feedRegime, clock, hub, watched, ready>>
        /\ \/ /\ poll' = [later EXCEPT !.unasked = @ \cup {n}, !.clean = FALSE]
              /\ UNCHANGED <<memory, withdrawn, told, calls, missed>>
           \/ /\ memory' = [memory EXCEPT !.probed = @ \cup {n}] /\ poll' = later
              /\ UNCHANGED <<withdrawn, told, calls, missed>>
           \/ /\ hub[n].state = "open" /\ memory' = [memory EXCEPT !.closed = @ \ {n}] /\ poll' = later
              /\ Hears(n, hub[n], "reopened") /\ Counts(n, "found", TRUE) /\ UNCHANGED missed
           \/ /\ memory' = [memory EXCEPT !.closed = @ \ {n}]
              /\ Falls(n) /\ Counts(n, "found", FALSE) /\ UNCHANGED <<told, withdrawn>>
  BY ProbeTaken, Zenon
<1>2. CASE /\ poll' = [later EXCEPT !.unasked = @ \cup {n}, !.clean = FALSE]
           /\ UNCHANGED <<memory, withdrawn, told, calls, missed>>
  BY <1>1, <1>2, ProbeLeaves
<1>3. CASE /\ memory' = [memory EXCEPT !.probed = @ \cup {n}] /\ poll' = later
           /\ UNCHANGED <<withdrawn, told, calls, missed>>
  BY <1>1, <1>3, ProbeLeaves
<1>4. CASE /\ hub[n].state = "open" /\ memory' = [memory EXCEPT !.closed = @ \ {n}] /\ poll' = later
           /\ Hears(n, hub[n], "reopened") /\ Counts(n, "found", TRUE) /\ UNCHANGED missed
  BY <1>1, <1>4, ProbeFinds
<1>5. CASE /\ memory' = [memory EXCEPT !.closed = @ \ {n}]
           /\ Falls(n) /\ Counts(n, "found", FALSE) /\ UNCHANGED <<told, withdrawn>>
  BY <1>1, <1>5, ProbeFalls
<1> QED
  BY <1>1, <1>2, <1>3, <1>4, <1>5

LEMMA FeedKept == ASSUME FeedInv, FeedNext \/ UNCHANGED feedVars PROVE FeedInv'
<1>1. CASE UNCHANGED feedVars
  BY <1>1, OnlookersKeep
<1>2. CASE \E n \in FeedPulls :
             Opens(n) \/ FlipsDraft(n) \/ Relabels(n) \/ Requests(n) \/ ClosesPull(n) \/ Reopens(n)
  BY <1>2, ChangesKeep
<1>3. CASE TimePasses \/ PlaceComesOrGoes \/ RefreshList
  BY <1>3, OnlookersKeep
<1>4. CASE BeginPoll
  BY <1>4, PollBegins
<1>5. CASE TakeStage
  BY <1>5, StagesKeep
<1>6. CASE Probe
  BY <1>6, ProbesKeep
<1>7. CASE EndPoll
  BY <1>7, EndKeeps
<1>8. CASE Restart
  BY <1>8, RestartKeeps
<1> QED
  BY <1>1, <1>2, <1>3, <1>4, <1>5, <1>6, <1>7, <1>8 DEF FeedNext

(* A poll that went through is at rest until the next begins. *)
WholeAtRest == poll.whole => poll.at = "idle"

LEMMA RestStarts == ASSUME FeedInit PROVE WholeAtRest
  BY DEF FeedInit, WholeAtRest, NoPoll

LEMMA RestKept == ASSUME FeedInv, WholeAtRest, FeedNext \/ UNCHANGED feedVars PROVE WholeAtRest'
<1>1. poll \in PollRecord /\ NoPoll.whole = FALSE
  BY DEF FeedInv, FeedTyped, NoPoll
<1>2. CASE \/ \E n \in FeedPulls :
                Opens(n) \/ FlipsDraft(n) \/ Relabels(n) \/ Requests(n) \/ ClosesPull(n) \/ Reopens(n)
           \/ TimePasses \/ PlaceComesOrGoes \/ RefreshList \/ UNCHANGED feedVars
  <2>1. poll' = poll
    BY <1>2 DEF Opens, FlipsDraft, Relabels, Requests, ClosesPull, Reopens, Changed, TimePasses,
                PlaceComesOrGoes, RefreshList, feedVars
  <2> QED
    BY <2>1 DEF WholeAtRest
<1>3. CASE BeginPoll
  <2>1. PICK lists, reads \in BOOLEAN :
          poll' = IF ~lists THEN NoPoll
                  ELSE LET rows == Rows(CHOOSE s \in (IF memory.since # {} THEN memory.since
                                                    ELSE {IF clock > feedRegime.catchup THEN clock - feedRegime.catchup ELSE 0}) : TRUE)
                           gone == IF reads THEN withdrawn ELSE {}
                           list == ProbeList(Numbers(rows), gone)
                       IN [NoPoll EXCEPT
                             !.at = "rows", !.rows = rows, !.withdrawn = gone,
                             !.blind = ~reads, !.passes = IF reads THEN poll.passes ELSE 0,
                             !.probes = FirstOf(list), !.began = clock,
                             !.unasked = Range(list) \ Range(FirstOf(list))]
    BY <1>3, Zenon DEF BeginPoll
  <2>2. CASE ~lists
    BY <1>1, <2>1, <2>2 DEF WholeAtRest
  <2>3. CASE lists
    <3>1. PICK rows, gone, passes, asked, unasked :
            poll' = [NoPoll EXCEPT
                       !.at = "rows", !.rows = rows, !.withdrawn = gone,
                       !.blind = ~reads, !.passes = passes,
                       !.probes = asked, !.began = clock, !.unasked = unasked]
      BY <2>1, <2>3
    <3>2. poll'.whole = FALSE
      BY <3>1 DEF NoPoll
    <3> QED
      BY <3>2 DEF WholeAtRest
  <2> QED
    BY <2>2, <2>3
<1>4. CASE TakeStage \/ Probe
  <2>1. poll.at = "rows" /\ ~poll.whole
    BY <1>4 DEF TakeStage, Probe, WholeAtRest
  <2>2. poll'.whole = poll.whole \/ poll' = NoPoll
    <3>1. CASE TakeStage
      <4>1. poll' = NoPoll \/ Goes
        BY <3>1, Zenon DEF TakeStage, Falls
      <4> QED
        BY <1>1, <4>1 DEF Goes, PollRecord
    <3>2. CASE Probe
      <4>1. PICK later, all : /\ later = [poll EXCEPT !.probes = Tail(@)]
                              /\ \/ poll' = [later EXCEPT !.unasked = all, !.clean = FALSE]
                                 \/ poll' = later \/ poll' = NoPoll
        BY <3>2 DEF Probe, Falls
      <4> QED
        BY <1>1, <4>1 DEF PollRecord
    <3> QED
      BY <1>4, <3>1, <3>2
  <2> QED
    BY <1>1, <2>1, <2>2 DEF WholeAtRest
<1>5. CASE EndPoll
  <2>1. poll'.at = "idle"
    BY <1>1, <1>5 DEF EndPoll, PollRecord
  <2> QED
    BY <2>1 DEF WholeAtRest
<1>6. CASE Restart
  BY <1>1, <1>6 DEF Restart, WholeAtRest
<1> QED
  BY <1>2, <1>3, <1>4, <1>5, <1>6 DEF FeedNext

(* After a poll that went through, every row is behind it. *)
LEMMA RowsDone ==
  ASSUME FeedInv, WholeAtRest, poll.whole
  PROVE  /\ \A m : ~AtRow(m)
         /\ \A i \in DOMAIN poll.rows : \A k \in 1 .. 6 : Past(i, k)
         /\ poll.probes = <<>> /\ poll.at = "idle"
<1>1. poll.at = "idle" /\ poll.probes = <<>> /\ poll.row > Len(poll.rows)
  BY DEF WholeAtRest, FeedInv, ProbesWait
<1>2. FeedTyped
  BY DEF FeedInv
<1>3. \A i \in DOMAIN poll.rows : i < poll.row
  BY <1>1, <1>2, RowsTyped
<1> QED
  BY <1>1, <1>3 DEF AtRow, Past

LEMMA FeedSays == ASSUME FeedInv, WholeAtRest PROVE FeedIsFollowed
<1>1. ToldInTurn
  <2> SUFFICES ASSUME NEW n \in FeedPulls PROVE TakeTurns(calls[n])
    BY DEF ToldInTurn, TakeTurns
  <2> QED
    BY DEF FeedInv, TurnsFit
<1>2. RowsAreTold
  <2> SUFFICES ASSUME poll.whole, NEW i \in DOMAIN poll.rows, NEW n, NEW pull,
                      n = poll.rows[i].n, pull = poll.rows[i].pull, n \notin missed
               PROVE  /\ pull.labels = told[n].labels /\ pull.reviewers \subseteq told[n].reviewers
                      /\ pull.state \in {"closed", "merged"} =>
                           \/ told[n].state = pull.state
                           \/ told[n].state = "closed" /\ pull.state = "merged"
                      /\ pull.state = "open" => pull.draft = told[n].draft \/ FoundByNumber(n)
    BY DEF RowsAreTold, Passed
  <2>1. FeedTyped /\ RowNotes(i) /\ RowEnds(i)
    BY DEF FeedInv
  <2>2. n \in FeedPulls
    BY <2>1, RowsTyped
  <2>3. HeardFits(n)
    BY <2>2 DEF FeedInv
  <2>4. Past(i, 2) /\ Past(i, 3) /\ Past(i, 4) /\ Past(i, 5) /\ Past(i, 6) /\ ~AtRow(n)
    BY RowsDone
  <2>5. /\ memory.known[n].labels = {pull.labels} /\ memory.known[n].reviewers = {pull.reviewers}
        /\ memory.known[n].draft = {pull.draft}
    BY <2>1, <2>4 DEF RowNotes
  <2>6. pull.labels = told[n].labels /\ pull.reviewers \subseteq told[n].reviewers
    BY <2>3, <2>5 DEF HeardFits
  <2>7. pull.state # "open" => n \in memory.closed
    BY <2>1, <2>4 DEF RowEnds
  <2>8. pull.state = "open" => n \notin memory.closed
    BY <2>1, <2>4 DEF RowEnds
  <2>9. told[n].state = "merged" => pull.state = "merged"
    BY <2>1 DEF RowEnds
  <2>10. n \in memory.closed => told[n].state \in {"closed", "merged"}
    BY <2>3 DEF HeardFits
  <2>11. pull.state = "open" => pull.draft = told[n].draft \/ FoundByNumber(n)
    BY <2>3, <2>4, <2>5, <2>8 DEF HeardFits, Midway
  <2> QED
    BY <2>6, <2>7, <2>9, <2>10, <2>11
<1>3. ReopeningsArrive
  <2> SUFFICES ASSUME poll.whole, ~poll.blind, NEW n \in withdrawn, hub[n].state = "open",
                      hub[n].updated <= poll.began
               PROVE  /\ n \notin Numbers(poll.rows)
                      /\ \/ n \in memory.probed
                         \/ /\ n \in poll.unasked
                            /\ feedRegime.probes * poll.passes <= Cardinality(memory.probed) + Cardinality(Revived)
    BY DEF ReopeningsArrive
  <2>1. n \notin Numbers(poll.rows)
    <3> SUFFICES ASSUME NEW i \in DOMAIN poll.rows, n = poll.rows[i].n PROVE FALSE
      BY DEF Numbers
    <3>1. RowShows(i) /\ RowEnds(i) /\ Past(i, 5)
      BY RowsDone DEF FeedInv
    <3>2. poll.rows[i].pull = hub[n]
      BY <3>1 DEF RowShows
    <3> QED
      BY <3>1, <3>2 DEF RowEnds
  <2>2. poll.probes = <<>>
    BY RowsDone
  <2>3. n \in memory.probed \cup poll.unasked \cup Range(poll.probes)
    BY <2>1 DEF FeedInv, ProbesWait
  <2>4. Range(poll.probes) = {}
    BY <2>2 DEF Range
  <2>5. feedRegime.probes * poll.passes <= Cardinality(memory.probed) + Cardinality(Revived)
    BY DEF FeedInv, ProbesCount
  <2> QED
    BY <2>1, <2>3, <2>4, <2>5
<1>4. NeverIdled
  BY DEF FeedInv
<1> QED
  BY <1>1, <1>2, <1>3, <1>4 DEF FeedIsFollowed

-----------------------------------------------------------------------------
(***************************************************************************)
(* Whatever fails, comes late or starts again: every event of the          *)
(* repository is handled once and in its order (github_poller.py,          *)
(* _poll_events), every commit of a watched branch that mentions an issue  *)
(* is commented on once (_poll_commits), and the handlers hear of each     *)
(* pull request in turn, all that the list shows, and every reopening      *)
(* (_poll_pulls), but for what the properties name.                        *)
(***************************************************************************)
THEOREM FeedsStayFollowed == ActivitySpec => []FeedsAreFollowed
<1> DEFINE FeedsInv == EventInv /\ CommitInv /\ FeedInv /\ WholeAtRest
<1>1. ActivityInit => FeedsInv
  BY EventStarts, CommitStarts, FeedStarts, RestStarts DEF ActivityInit
<1>2. FeedsInv /\ [ActivityNext]_<<atWork, reviewVars, feedVars, mirrorVars, eventVars,
                                   commitVars, archVars, trackVars>> => FeedsInv'
  <2> SUFFICES ASSUME FeedsInv, [ActivityNext]_<<atWork, reviewVars, feedVars, mirrorVars, eventVars,
                                                 commitVars, archVars, trackVars>>
               PROVE  FeedsInv'
    OBVIOUS
  <2>1. /\ EventNext \/ UNCHANGED eventVars
        /\ CommitNext \/ UNCHANGED commitVars
        /\ FeedNext \/ UNCHANGED feedVars
    BY DEF ActivityNext
  <2> QED
    BY <2>1, EventKept, CommitKept, FeedKept, RestKept
<1>3. FeedsInv => FeedsAreFollowed
  BY EventSays, CommitSays, FeedSays DEF FeedsAreFollowed
<1>4. QED
  BY <1>1, <1>2, <1>3, PTL DEF ActivitySpec
=============================================================================
