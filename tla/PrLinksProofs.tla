---------------------------- MODULE PrLinksProofs ----------------------------
(***************************************************************************)
(* Proofs about PrLinks.  The registry's operations are first shown to     *)
(* change each row harmlessly (RowAdvances); a table all of whose rows     *)
(* advance stays sound (AdvancingIsSound); and every handler is a          *)
(* composition of such operations, except that reconciling an edit also    *)
(* retires rows, which ReconciledIsSound treats.                           *)
(***************************************************************************)
EXTENDS PrLinks, FiniteSetTheorems, TLAPS

Exists(table, p) == \E s \in Slots : table[<<p, s>>] # NoRow
Drives(table, p) == \E s \in Slots : Driving(table[<<p, s>>])

(* What every table the service commits satisfies. *)
Sound(table) ==
  /\ table \in Table
  /\ \A k \in Keys : table[k].source = Superseded => table[k].withdrawn
  /\ \A p \in Prs : Exists(table, p) => Drives(table, p)

(* From r to q: a driving row keeps driving, a new row drives. *)
RowAdvances(r, q) ==
  /\ q \in Row \cup {NoRow}
  /\ q.source = Superseded => q.withdrawn
  /\ Driving(r) => Driving(q)
  /\ q # NoRow => r # NoRow \/ Driving(q)

(* If every row of a sound table advances, the table stays sound. *)
LEMMA AdvancingIsSound ==
  ASSUME NEW t, Sound(t), NEW u, DOMAIN u = Keys, u = [k \in Keys |-> u[k]],
         \A k \in Keys : RowAdvances(t[k], u[k])
  PROVE  Sound(u)
<1>1. u \in Table
  BY DEF RowAdvances, Table
<1>2. \A k \in Keys : u[k].source = Superseded => u[k].withdrawn
  BY DEF RowAdvances
<1>3. \A p \in Prs : \A s \in Slots : <<p, s>> \in Keys
  BY DEF Keys
<1>4. ASSUME NEW p \in Prs, Exists(u, p) PROVE Drives(u, p)
  <2>1. PICK s \in Slots : u[<<p, s>>] # NoRow
    BY <1>4 DEF Exists
  <2>2. CASE Driving(u[<<p, s>>])
    BY <2>2 DEF Drives
  <2>3. CASE t[<<p, s>>] # NoRow
    <3>1. PICK r \in Slots : Driving(t[<<p, r>>])
      BY <2>3 DEF Sound, Exists, Drives
    <3>2. QED BY <3>1, <1>3 DEF RowAdvances, Drives
  <2>4. QED BY <2>1, <2>2, <2>3, <1>3 DEF RowAdvances
<1>5. QED BY <1>1, <1>2, <1>4 DEF Sound

(* A new match: upsert_pr_task_link never unlinks a row that drives. *)
LEMMA UpsertAdvances ==
  ASSUME NEW r \in Row \cup {NoRow}, r.source = Superseded => r.withdrawn,
         NEW c \in Cards, NEW src \in LinkSources \ {Superseded}
  PROVE  /\ RowAdvances(r, Upserted(r, c, src))
         /\ Upserted(r, c, src) # NoRow
<1> DEFINE q == Upserted(r, c, src)
<1>1. CASE r = NoRow
  <2>1. q = [source |-> src, card |-> c, merged |-> FALSE, withdrawn |-> FALSE, stamp |-> 0]
    BY <1>1 DEF Upserted, NoRow
  <2>2. q \in Row
    BY <2>1 DEF Row
  <2>3. q.source = src /\ src # Superseded /\ src # "none"
    BY <2>1 DEF LinkSources, PrOwned, Weak, UnSuperseding, Superseded
  <2>4. q # NoRow
    BY <2>3 DEF NoRow
  <2>5. QED BY <1>1, <2>2, <2>3, <2>4 DEF RowAdvances, Driving
<1>2. CASE r # NoRow /\ q = r
  BY <1>2 DEF RowAdvances
<1>3. CASE r # NoRow /\ q # r
  <2>1. r \in Row
    BY <1>3
  <2>2. q = [r EXCEPT !.source = KeptSource(r.source, src, r.card = c), !.card = c,
                      !.merged = FALSE, !.withdrawn = FALSE]
    BY <1>3 DEF Upserted
  <2>3. ~StaysSuperseded(r.source, src)
    BY <1>3 DEF Upserted
  <2>4. KeptSource(r.source, src, r.card = c) \in LinkSources \ {Superseded}
    BY <2>1, <2>3 DEF KeptSource, Row, PrOwned, LinkSources, Superseded, UnSuperseding, Weak
  <2>5. q \in Row /\ q.source # Superseded
    BY <2>1, <2>2, <2>4 DEF Row
  <2>6. q # NoRow
    BY <2>5 DEF NoRow, Row, LinkSources, UnSuperseding, Weak, PrOwned, Superseded
  <2>7. QED BY <2>5, <2>6 DEF RowAdvances, Driving
<1>4. CASE q # NoRow
  BY <1>1, <1>2, <1>3, <1>4
<1>5. QED BY <1>1, <1>2, <1>3 DEF Upserted, NoRow

LEMMA KeysAreRead ==
  ASSUME NEW t, Sound(t), NEW k \in Keys
  PROVE  /\ t[k] \in Row \cup {NoRow}
         /\ t[k].source = Superseded => t[k].withdrawn
         /\ k[1] \in Prs /\ k[2] \in Slots /\ k = <<k[1], k[2]>>
BY DEF Sound, Table, Keys

(* Linking any set of issues that have cards, whatever names them. *)
LEMMA LinkingIsSound ==
  ASSUME NEW t, Sound(t), NEW p \in Prs, NEW is \in SUBSET Issues, NEW co,
         \A i \in is : co[i] \in Cards,
         NEW src \in [Issues -> LinkSources \ {Superseded}]
  PROVE  /\ Sound(LinkIssues(t, p, is, co, src))
         /\ \A k \in Keys : RowAdvances(t[k], LinkIssues(t, p, is, co, src)[k])
         /\ \A i \in is : LinkIssues(t, p, is, co, src)[<<p, i>>] # NoRow
<1> DEFINE u == LinkIssues(t, p, is, co, src)
<1>1. u = [k \in Keys |-> IF k[1] = p /\ k[2] \in is
                          THEN Upserted(t[k], co[k[2]], src[k[2]]) ELSE t[k]]
  BY DEF LinkIssues
<1>2. ASSUME NEW k \in Keys PROVE RowAdvances(t[k], u[k])
  <2>1. t[k] \in Row \cup {NoRow} /\ (t[k].source = Superseded => t[k].withdrawn)
    BY KeysAreRead
  <2>2. CASE k[1] = p /\ k[2] \in is
    <3>1. u[k] = Upserted(t[k], co[k[2]], src[k[2]])
      BY <1>1, <2>2
    <3>2. co[k[2]] \in Cards /\ src[k[2]] \in LinkSources \ {Superseded}
      BY <2>2
    <3>3. QED BY <2>1, <3>1, <3>2, UpsertAdvances
  <2>3. CASE ~(k[1] = p /\ k[2] \in is)
    <3>1. u[k] = t[k]
      BY <1>1, <2>3
    <3>2. QED BY <2>1, <3>1 DEF RowAdvances
  <2>4. QED BY <2>2, <2>3
<1>3. ASSUME NEW i \in is PROVE u[<<p, i>>] # NoRow
  <2>1. <<p, i>> \in Keys /\ <<p, i>>[1] = p /\ <<p, i>>[2] = i
    BY DEF Keys, Slots
  <2>2. u[<<p, i>>] = Upserted(t[<<p, i>>], co[i], src[i])
    BY <1>1, <2>1
  <2>3. QED BY <2>1, <2>2, KeysAreRead, UpsertAdvances
<1>4. DOMAIN u = Keys /\ u = [k \in Keys |-> u[k]]
  BY <1>1
<1> HIDE DEF u
<1>5. Sound(u)
  BY <1>2, <1>4, AdvancingIsSound
<1>6. QED BY <1>2, <1>3, <1>5 DEF u

(* An operation that keeps every row's source, and withdrawals of retired rows. *)
LEMMA KeepingIsAdvancing ==
  ASSUME NEW r \in Row \cup {NoRow}, r.source = Superseded => r.withdrawn,
         NEW q \in Row \cup {NoRow}, q.source = r.source,
         q.source = Superseded => q.withdrawn
  PROVE  RowAdvances(r, q)
<1>1. r = NoRow <=> r.source = "none"
  BY DEF Row, NoRow, LinkSources, UnSuperseding, Weak, PrOwned, Superseded
<1>2. q = NoRow <=> q.source = "none"
  BY DEF Row, NoRow, LinkSources, UnSuperseding, Weak, PrOwned, Superseded
<1>3. QED BY <1>1, <1>2 DEF RowAdvances, Driving

LEMMA ReviveIsSound ==
  ASSUME NEW t, Sound(t), NEW p \in Prs, NEW at
  PROVE  Sound(Revive(t, p, at))
<1> DEFINE u == Revive(t, p, at)
<1>1. u = [k \in Keys |-> IF k \in Revivable(t, p, at)
                          THEN [t[k] EXCEPT !.withdrawn = FALSE] ELSE t[k]]
  BY DEF Revive
<1>2. ASSUME NEW k \in Keys PROVE RowAdvances(t[k], u[k])
  <2>1. t[k] \in Row \cup {NoRow} /\ (t[k].source = Superseded => t[k].withdrawn)
    BY KeysAreRead
  <2>2. CASE k \in Revivable(t, p, at)
    <3>1. t[k] # NoRow /\ t[k].source # Superseded
      BY <2>2 DEF Revivable
    <3>2. u[k] \in Row /\ u[k].source = t[k].source
      BY <1>1, <2>1, <2>2, <3>1 DEF Row
    <3>3. QED BY <2>1, <3>1, <3>2, KeepingIsAdvancing
  <2>3. CASE k \notin Revivable(t, p, at)
    BY <1>1, <2>1, <2>3 DEF RowAdvances
  <2>4. QED BY <2>2, <2>3
<1>3. DOMAIN u = Keys /\ u = [k \in Keys |-> u[k]]
  BY <1>1
<1> HIDE DEF u
<1>4. QED BY <1>2, <1>3, AdvancingIsSound DEF u

LEMMA MarkWithdrawnIsSound ==
  ASSUME NEW t, Sound(t), NEW p \in Prs, NEW at \in Nat
  PROVE  Sound(MarkWithdrawn(t, p, at))
<1> DEFINE u == MarkWithdrawn(t, p, at)
<1>1. u = [k \in Keys |-> IF k \in NewlyWithdrawn(t, p, at)
                          THEN [t[k] EXCEPT !.withdrawn = TRUE, !.stamp = at] ELSE t[k]]
  BY DEF MarkWithdrawn
<1>2. ASSUME NEW k \in Keys PROVE RowAdvances(t[k], u[k])
  <2>1. t[k] \in Row \cup {NoRow} /\ (t[k].source = Superseded => t[k].withdrawn)
    BY KeysAreRead
  <2>2. CASE k \in NewlyWithdrawn(t, p, at)
    <3>1. t[k] # NoRow
      BY <2>2 DEF NewlyWithdrawn
    <3>2. u[k] \in Row /\ u[k].source = t[k].source /\ u[k].withdrawn
      BY <1>1, <2>1, <2>2, <3>1 DEF Row
    <3>3. QED BY <2>1, <3>1, <3>2, KeepingIsAdvancing
  <2>3. CASE k \notin NewlyWithdrawn(t, p, at)
    BY <1>1, <2>1, <2>3 DEF RowAdvances
  <2>4. QED BY <2>2, <2>3
<1>3. DOMAIN u = Keys /\ u = [k \in Keys |-> u[k]]
  BY <1>1
<1> HIDE DEF u
<1>4. QED BY <1>2, <1>3, AdvancingIsSound DEF u

LEMMA MarkMergedIsSound ==
  ASSUME NEW t, Sound(t), NEW p \in Prs
  PROVE  Sound(MarkMerged(t, p))
<1> DEFINE u == MarkMerged(t, p)
<1>1. u = [k \in Keys |-> IF k \in NewlyMerged(t, p)
                          THEN [t[k] EXCEPT !.merged = TRUE] ELSE t[k]]
  BY DEF MarkMerged
<1>2. ASSUME NEW k \in Keys PROVE RowAdvances(t[k], u[k])
  <2>1. t[k] \in Row \cup {NoRow} /\ (t[k].source = Superseded => t[k].withdrawn)
    BY KeysAreRead
  <2>2. CASE k \in NewlyMerged(t, p)
    <3>1. t[k] # NoRow
      BY <2>2 DEF NewlyMerged
    <3>2. u[k] \in Row /\ u[k].source = t[k].source /\ u[k].withdrawn = t[k].withdrawn
      BY <1>1, <2>1, <2>2, <3>1 DEF Row
    <3>3. QED BY <2>1, <3>1, <3>2, KeepingIsAdvancing
  <2>3. CASE k \notin NewlyMerged(t, p)
    BY <1>1, <2>1, <2>3 DEF RowAdvances
  <2>4. QED BY <2>2, <2>3
<1>3. DOMAIN u = Keys /\ u = [k \in Keys |-> u[k]]
  BY <1>1
<1> HIDE DEF u
<1>4. QED BY <1>2, <1>3, AdvancingIsSound DEF u

(* A pull request's standalone row keeps its card, and its source unless the *)
(* row is retired.                                                           *)
StandaloneKept(t, u) ==
  \A p \in Prs : LET k == <<p, Standalone>>
                 IN /\ u[k].card = t[k].card
                    /\ u[k].source \in {t[k].source, Superseded}

LEMMA OperationsKeepStandalone ==
  ASSUME NEW t, Sound(t), NEW p \in Prs, NEW at
  PROVE  /\ \A is \in SUBSET Issues : \A co, src :
              StandaloneKept(t, LinkIssues(t, p, is, co, src))
         /\ StandaloneKept(t, Revive(t, p, at))
         /\ StandaloneKept(t, MarkWithdrawn(t, p, at))
         /\ StandaloneKept(t, MarkMerged(t, p))
         /\ \A ks \in SUBSET Keys : (\A k \in ks : t[k] \in Row) => StandaloneKept(t, Retire(t, ks))
<1>1. \A q \in Prs : <<q, Standalone>> \in Keys /\ <<q, Standalone>>[2] = Standalone
  BY DEF Keys, Slots
<1>2. \A k \in Keys : t[k] \in Row \cup {NoRow}
  BY DEF Sound, Table
<1>3. \A is \in SUBSET Issues : \A co, src : StandaloneKept(t, LinkIssues(t, p, is, co, src))
  BY <1>1, RegistryAssumption DEF LinkIssues, StandaloneKept
<1>4. ASSUME NEW k \in Keys
      PROVE  /\ Revive(t, p, at)[k].card = t[k].card /\ Revive(t, p, at)[k].source = t[k].source
  BY <1>2 DEF Revive, Row, NoRow
<1>5. ASSUME NEW k \in Keys
      PROVE  /\ MarkWithdrawn(t, p, at)[k].card = t[k].card
             /\ MarkWithdrawn(t, p, at)[k].source = t[k].source
  BY <1>2 DEF MarkWithdrawn, Row, NoRow
<1>6. ASSUME NEW k \in Keys
      PROVE  MarkMerged(t, p)[k].card = t[k].card /\ MarkMerged(t, p)[k].source = t[k].source
  BY <1>2 DEF MarkMerged, Row, NoRow
<1>7. ASSUME NEW ks \in SUBSET Keys, \A k \in ks : t[k] \in Row, NEW k \in Keys
      PROVE  Retire(t, ks)[k].card = t[k].card /\ Retire(t, ks)[k].source \in {t[k].source, Superseded}
  BY <1>2, <1>7 DEF Retire, Row
<1>8. QED BY <1>1, <1>3, <1>4, <1>5, <1>6, <1>7 DEF StandaloneKept

LEMMA KeptIsTransitive ==
  ASSUME NEW t, NEW u, NEW v, StandaloneKept(t, u), StandaloneKept(u, v)
  PROVE  StandaloneKept(t, v)
BY DEF StandaloneKept

-----------------------------------------------------------------------------
(* What deliveries name, and the tables the handlers make of them. *)

LEMMA RegimeIsTyped ==
  ASSUME TypeOK PROVE regime.texts \subseteq Statements /\ regime.matches \subseteq Matches
BY LinksAssumption DEF TypeOK, Regime

LEMMA DeliveryNamesIssues ==
  ASSUME TypeOK, NEW d \in Delivery
  PROVE  /\ d.text.body \subseteq Issues /\ Written(d) \subseteq Issues
         /\ Referenced(d) \subseteq Issues /\ FirstWritten(d) \subseteq Issues
         /\ d.pr \in Prs /\ d.at \in Nat /\ d.text \in Statements /\ d.state \in PrStates
         /\ IssueLinkSource(d) \in [Issues -> LinkSources \ {Superseded}]
<1>1. d.text \in [body : SUBSET Issues, title : SUBSET Issues, branch : SUBSET Issues]
  BY LinksAssumption DEF Delivery
<1>2. IssueLinkSource(d) \in [Issues -> LinkSources \ {Superseded}]
  BY DEF IssueLinkSource, LinkSources, UnSuperseding, Weak, PrOwned, Superseded
<1>3. QED BY <1>1, <1>2 DEF Delivery, Written, Referenced, FirstWritten

LEMMA HasCardHasCard ==
  ASSUME TypeOK, NEW is \in SUBSET Issues
  PROVE  HasCard(is) \in SUBSET Issues /\ \A i \in HasCard(is) : cardOf[i] \in Cards
BY DEF TypeOK, HasCard

LEMMA EnsureIsSound ==
  ASSUME NEW t, Sound(t), NEW d \in Delivery
  PROVE  Sound(EnsureLinksLive(t, d)) /\ StandaloneKept(t, EnsureLinksLive(t, d))
<1>1. d.pr \in Prs
  BY DEF Delivery
<1>2. Sound(Revive(t, d.pr, d.at)) /\ StandaloneKept(t, Revive(t, d.pr, d.at))
  BY <1>1, ReviveIsSound, OperationsKeepStandalone
<1>3. StandaloneKept(t, t)
  BY DEF StandaloneKept
<1>4. QED BY <1>2, <1>3 DEF EnsureLinksLive

LEMMA LinkNamedIsSound ==
  ASSUME TypeOK, NEW t, Sound(t), NEW d \in Delivery, NEW is \in SUBSET Issues
  PROVE  LET u == LinkIssues(t, d.pr, HasCard(is), cardOf, IssueLinkSource(d))
         IN /\ Sound(u) /\ StandaloneKept(t, u)
            /\ \A k \in Keys : RowAdvances(t[k], u[k])
            /\ \A i \in HasCard(is) : u[<<d.pr, i>>] # NoRow
BY DeliveryNamesIssues, HasCardHasCard, LinkingIsSound, OperationsKeepStandalone

LEMMA OpenedIsSound ==
  ASSUME TypeOK, NEW t, Sound(t), NEW d \in Delivery
  PROVE  Sound(OpenedTable(t, d)) /\ StandaloneKept(t, OpenedTable(t, d))
<1>1. Sound(EnsureLinksLive(t, d)) /\ StandaloneKept(t, EnsureLinksLive(t, d))
  BY EnsureIsSound
<1>2. Referenced(d) \in SUBSET Issues
  BY DeliveryNamesIssues
<1>3. Sound(OpenedTable(t, d)) /\ StandaloneKept(EnsureLinksLive(t, d), OpenedTable(t, d))
  BY <1>1, <1>2, LinkNamedIsSound DEF OpenedTable
<1>4. QED BY <1>1, <1>3, KeptIsTransitive

LEMMA MergedIsSound ==
  ASSUME TypeOK, Sound(links), NEW d \in Delivery
  PROVE  /\ Sound(LinkedAtMerge(d))
         /\ Sound(MergedTable(d)) /\ StandaloneKept(links, MergedTable(d))
<1>1. Written(d) \in SUBSET Issues /\ d.pr \in Prs
  BY DeliveryNamesIssues
<1>2. Sound(LinkedAtMerge(d)) /\ StandaloneKept(links, LinkedAtMerge(d))
  BY <1>1, LinkNamedIsSound DEF LinkedAtMerge
<1>3. Sound(MergedTable(d)) /\ StandaloneKept(LinkedAtMerge(d), MergedTable(d))
  BY <1>1, <1>2, MarkMergedIsSound, OperationsKeepStandalone DEF MergedTable
<1>4. QED BY <1>2, <1>3, KeptIsTransitive

(* Reconciling an edit retires rows, and leaves one that drives. *)
LEMMA ReconciledIsSound ==
  ASSUME TypeOK, NEW t, Sound(t), NEW d \in Delivery
  PROVE  Sound(Reconciled(t, d)) /\ StandaloneKept(t, Reconciled(t, d))
<1> DEFINE r == Relinked(t, d)
           R == RetiredSlots(t, d)
           u == Retire(r, {d.pr} \X R)
<1>0. Referenced(d) \in SUBSET Issues /\ d.pr \in Prs
  BY DeliveryNamesIssues
<1>1. NewlyNamed(t, d) = HasCard(Referenced(d) \ IssueRows(t, d.pr))
  BY DEF NewlyNamed, HasCard
<1>2. Referenced(d) \ IssueRows(t, d.pr) \in SUBSET Issues
  BY <1>0
<1>3. /\ Sound(r) /\ StandaloneKept(t, r)
      /\ \A k \in Keys : RowAdvances(t[k], r[k])
      /\ \A i \in NewlyNamed(t, d) : r[<<d.pr, i>>] # NoRow
  BY <1>1, <1>2, LinkNamedIsSound DEF Relinked
<1>4. R \subseteq Slots /\ \A s \in R : Driving(t[<<d.pr, s>>]) /\ s \notin Referenced(d)
  BY <1>0, RegistryAssumption DEF RetiredSlots, IssueRows, HasStandalone, Slots
<1>5. {d.pr} \X R \in SUBSET Keys
  BY <1>0, <1>4 DEF Keys
<1>6. \A k \in {d.pr} \X R : r[k] \in Row
  <2> SUFFICES ASSUME NEW s \in R PROVE r[<<d.pr, s>>] \in Row
    OBVIOUS
  <2>1. <<d.pr, s>> \in Keys
    BY <1>5
  <2>2. Driving(r[<<d.pr, s>>]) /\ r[<<d.pr, s>>] \in Row \cup {NoRow}
    BY <1>3, <1>4, <2>1, KeysAreRead DEF RowAdvances
  <2>3. QED BY <2>2 DEF Driving
<1>7. StandaloneKept(r, u)
  BY <1>0, <1>3, <1>5, <1>6, OperationsKeepStandalone
<1>8. u = [k \in Keys |-> IF k \in {d.pr} \X R
                          THEN [r[k] EXCEPT !.withdrawn = TRUE, !.source = Superseded] ELSE r[k]]
  BY DEF Retire
<1> HIDE DEF r, R, u
<1>9. u \in Table /\ \A k \in Keys : u[k].source = Superseded => u[k].withdrawn
  <2>1. ASSUME NEW k \in Keys
        PROVE  u[k] \in Row \cup {NoRow} /\ (u[k].source = Superseded => u[k].withdrawn)
    <3>1. CASE k \in {d.pr} \X R
      <4>1. u[k] = [r[k] EXCEPT !.withdrawn = TRUE, !.source = Superseded] /\ r[k] \in Row
        BY <1>6, <1>8, <3>1
      <4>2. QED BY <4>1 DEF Row, LinkSources
    <3>2. CASE k \notin {d.pr} \X R
      BY <1>3, <1>8, <3>2, KeysAreRead
    <3>3. QED BY <3>1, <3>2
  <2>2. QED BY <1>8, <2>1 DEF Table
<1>10. ASSUME NEW p \in Prs, Exists(u, p) PROVE Drives(u, p)
  <2>1. \A s \in Slots : <<p, s>> \in Keys
    BY DEF Keys
  <2>2. CASE p = d.pr /\ R # {}
    <3>1. PICK i \in StillLinked(t, d) : TRUE
      BY <2>2 DEF R, RetiredSlots
    <3>2. i \in Referenced(d) /\ i \in Slots /\ Driving(r[<<p, i>>])
      <4>1. CASE i \in Attached(Relinked(t, d), d, NewlyNamed(t, d))
        BY <1>0, <1>3, <2>2, <4>1 DEF Attached, NewlyNamed, HasCard, Slots, Driving, r
      <4>2. CASE i \in IssueRows(t, d.pr) \cap Referenced(d)
        BY <1>3, <2>1, <2>2, <4>2 DEF IssueRows, Slots, RowAdvances
      <4>3. QED BY <3>1, <4>1, <4>2 DEF StillLinked
    <3>3. i \notin R
      BY <1>4, <3>2
    <3>4. u[<<p, i>>] = r[<<p, i>>]
      BY <1>8, <2>1, <3>2, <3>3
    <3>5. QED BY <3>2, <3>4 DEF Drives
  <2>3. CASE ~(p = d.pr /\ R # {})
    <3>1. \A s \in Slots : u[<<p, s>>] = r[<<p, s>>]
      BY <1>8, <2>1, <2>3
    <3>2. QED BY <1>3, <1>10, <3>1 DEF Sound, Exists, Drives
  <2>4. QED BY <2>2, <2>3
<1>11. Sound(u)
  BY <1>9, <1>10 DEF Sound
<1>12. Reconciled(t, d) = t \/ Reconciled(t, d) = u
  BY DEF Reconciled, u, r, R
<1>13. StandaloneKept(t, t) /\ StandaloneKept(t, u)
  BY <1>3, <1>7, KeptIsTransitive DEF StandaloneKept
<1>14. QED BY <1>11, <1>12, <1>13

-----------------------------------------------------------------------------
(* The handlers as steps. *)

IInv == TypeOK /\ Sound(links) /\ OwnCardIsKept

(* What a handler leaves: a sound table, and a board a merge alone completes. *)
Served ==
  /\ Sound(links') /\ StandaloneKept(links, links')
  /\ board' \in [Cards -> Places] /\ matching' \subseteq Delivery
  /\ mergeLog' \subseteq Prs \X Cards /\ UNCHANGED <<cardOf, triaged>>
  /\ \A c \in Cards : board[c] # "completed" /\ board'[c] = "completed" =>
       \E p \in Prs : <<p, c>> \in mergeLog' \ mergeLog

(* No card of new is completed that was not completed in bd. *)
CompletesNothing(bd, new) ==
  /\ new \in [Cards -> Places]
  /\ \A c \in Cards : new[c] = "completed" => bd[c] = "completed"

LEMMA AskingCompletesNothing ==
  ASSUME NEW bd \in [Cards -> Places], NEW cs, NEW late
  PROVE  CompletesNothing(bd, AskForQa(bd, cs, late))
BY DEF CompletesNothing, AskForQa, LateNeedsQa, Places

LEMMA RewindingCompletesNothing ==
  ASSUME NEW bd \in [Cards -> Places], NEW cs
  PROVE  CompletesNothing(bd, OutOfReview(bd, cs))
BY DEF CompletesNothing, OutOfReview, Places

LEMMA IdleServes ==
  ASSUME IInv, UNCHANGED <<service, matching>> PROVE Served
<1> SUFFICES /\ links' = links /\ board' = board /\ mergeLog' = mergeLog /\ triaged' = triaged
             /\ cardOf' = cardOf /\ matching' = matching
             => Served
  BY DEF service
<1> QED BY DEF IInv, TypeOK, Served, StandaloneKept

LEMMA PipelineServes ==
  ASSUME IInv, NEW d \in Delivery, NEW t, Sound(t), StandaloneKept(links, t), NEW bd,
         CompletesNothing(board, bd), OpenPipeline(t, bd, d)
  PROVE  Served
<1>1. Sound(links') /\ StandaloneKept(links, links')
  BY OpenedIsSound, KeptIsTransitive DEF IInv, OpenPipeline
<1>2. CompletesNothing(bd, board')
  BY AskingCompletesNothing DEF OpenPipeline, CompletesNothing
<1>3. matching' \subseteq Delivery
  BY DEF OpenPipeline, IInv, TypeOK
<1>4. QED BY <1>1, <1>2, <1>3 DEF Served, CompletesNothing, OpenPipeline, IInv, TypeOK

LEMMA OpenedServes ==
  ASSUME IInv, NEW d \in Delivery, HandleOpened(d) PROVE Served
<1>1. StandaloneKept(links, links) /\ CompletesNothing(board, board) /\ Sound(links)
  BY DEF StandaloneKept, CompletesNothing, IInv, TypeOK
<1>2. QED BY <1>1, PipelineServes DEF HandleOpened

LEMMA EditedServes ==
  ASSUME IInv, NEW d \in Delivery, HandleEdited(d) PROVE Served
<1> DEFINE live == EnsureLinksLive(links, d)
           after == Reconciled(live, d)
           bd == ReconciledBoard(live, d)
<1>1. Sound(live) /\ StandaloneKept(links, live)
  BY EnsureIsSound DEF IInv
<1>2. Sound(after) /\ StandaloneKept(links, after)
  BY <1>1, ReconciledIsSound, KeptIsTransitive DEF IInv
<1>3. CompletesNothing(board, bd)
  <2>1. board \in [Cards -> Places]
    BY DEF IInv, TypeOK
  <2>2. CompletesNothing(board, board)
    BY <2>1 DEF CompletesNothing
  <2>3. \A cs, rw : CompletesNothing(board, OutOfReview(AskForQa(board, cs, TRUE), rw))
    <3> TAKE cs, rw
    <3>1. CompletesNothing(board, AskForQa(board, cs, TRUE))
      BY <2>1, AskingCompletesNothing
    <3>2. AskForQa(board, cs, TRUE) \in [Cards -> Places]
      BY <3>1 DEF CompletesNothing
    <3>3. CompletesNothing(AskForQa(board, cs, TRUE), OutOfReview(AskForQa(board, cs, TRUE), rw))
      BY <3>2, RewindingCompletesNothing
    <3>4. QED BY <3>1, <3>3 DEF CompletesNothing
  <2>4. QED BY <2>2, <2>3 DEF ReconciledBoard
<1>4. CASE d.state # "open"
  BY <1>4, IdleServes DEF HandleEdited
<1>5. CASE d.state = "open" /\ TasksOf(after, d.pr) = {}
  <2>1. OpenPipeline(after, bd, d)
    BY <1>5 DEF HandleEdited
  <2>2. QED BY <1>2, <1>3, <2>1, PipelineServes
<1>6. CASE d.state = "open" /\ TasksOf(after, d.pr) # {}
  <2>1. /\ links' = after /\ board' = bd
        /\ UNCHANGED <<cardOf, triaged, mergeLog, matching>>
    BY <1>6 DEF HandleEdited
  <2> HIDE DEF after, bd, live
  <2>2. QED BY <1>2, <1>3, <2>1 DEF Served, CompletesNothing, IInv, TypeOK
<1>7. QED BY <1>4, <1>5, <1>6

LEMMA ClosedServes ==
  ASSUME IInv, NEW d \in Delivery, HandleClosedWithoutMerge(d) PROVE Served
<1>1. d.pr \in Prs /\ d.at \in Nat
  BY DEF Delivery
<1>2. Sound(links') /\ StandaloneKept(links, links')
  BY <1>1, MarkWithdrawnIsSound, OperationsKeepStandalone DEF HandleClosedWithoutMerge, IInv
<1>3. CompletesNothing(board, board')
  BY RewindingCompletesNothing DEF HandleClosedWithoutMerge, IInv, TypeOK
<1>4. QED BY <1>2, <1>3 DEF Served, CompletesNothing, HandleClosedWithoutMerge, IInv, TypeOK

LEMMA DueCardsAreCards ==
  ASSUME IInv, NEW d \in Delivery
  PROVE  DueCards(d) \subseteq Cards /\ IsFiniteSet(DueCards(d))
<1>1. Sound(LinkedAtMerge(d)) /\ Written(d) \in SUBSET Issues
  BY MergedIsSound, DeliveryNamesIssues DEF IInv
<1>2. \A r \in MergedRows(d) : r \in Row
  BY <1>1, KeysAreRead DEF MergedRows, NewlyMerged
<1>3. AffectedCards(d) \subseteq Cards
  BY <1>1, <1>2, HasCardHasCard DEF AffectedCards, Row, IInv
<1>4. DueCards(d) \subseteq Cards
  BY <1>3 DEF DueCards
<1>5. QED BY <1>4, LinksAssumption, FS_Subset

LEMMA MergedServes ==
  ASSUME IInv, NEW d \in Delivery, HandleMerged(d)
  PROVE  Served /\ budget' \in Budget
<1>0. d.pr \in Prs
  BY DEF Delivery
<1>1. PICK refused \in SUBSET DueCards(d) :
        /\ Cardinality(refused) <= budget.refusals
        /\ links' = MergedTable(d)
        /\ board' = [c \in Cards |-> IF c \in DueCards(d) \ refused THEN "completed" ELSE board[c]]
        /\ mergeLog' = mergeLog \cup ({d.pr} \X (DueCards(d) \ refused))
        /\ budget' = [budget EXCEPT !.refusals = @ - Cardinality(refused)]
        /\ UNCHANGED <<cardOf, triaged, matching>>
  BY DEF HandleMerged
<1>2. DueCards(d) \subseteq Cards /\ Cardinality(refused) \in Nat
  BY DueCardsAreCards, FS_Subset, FS_CardinalityType
<1>3. Sound(links') /\ StandaloneKept(links, links')
  BY <1>1, MergedIsSound DEF IInv
<1>4. board' \in [Cards -> Places] /\ mergeLog' \subseteq Prs \X Cards
  BY <1>0, <1>1, <1>2 DEF IInv, TypeOK, Places
<1>5. ASSUME NEW c \in Cards, board[c] # "completed", board'[c] = "completed"
      PROVE  <<d.pr, c>> \in mergeLog' \ mergeLog
  <2>1. c \in DueCards(d) \ refused
    BY <1>1, <1>5
  <2>2. <<d.pr, c>> \notin mergeLog
    BY <2>1 DEF DueCards
  <2>3. QED BY <1>1, <2>1, <2>2
<1>6. budget' \in Budget
  BY <1>1, <1>2 DEF IInv, TypeOK, Budget
<1>7. matching' \subseteq Delivery /\ UNCHANGED <<cardOf, triaged>>
  BY <1>1 DEF IInv, TypeOK
<1>8. QED BY <1>0, <1>3, <1>4, <1>5, <1>6, <1>7 DEF Served

LEMMA DispatchServes ==
  ASSUME IInv, NEW d \in Delivery, Dispatch(d)
  PROVE  Served /\ budget' \in Budget
<1>1. CASE HandleOpened(d) /\ UNCHANGED budget
  BY <1>1, OpenedServes DEF IInv, TypeOK
<1>2. CASE HandleEdited(d) /\ UNCHANGED budget
  BY <1>2, EditedServes DEF IInv, TypeOK
<1>3. CASE HandleClosedWithoutMerge(d) /\ UNCHANGED budget
  BY <1>3, ClosedServes DEF IInv, TypeOK
<1>4. CASE HandleMerged(d)
  BY <1>4, MergedServes
<1>5. CASE HandleSweep(d) /\ UNCHANGED budget
  BY <1>5, OpenedServes, EditedServes, ClosedServes, IdleServes DEF HandleSweep, IInv, TypeOK
<1>6. QED BY <1>1, <1>2, <1>3, <1>4, <1>5 DEF Dispatch

-----------------------------------------------------------------------------
(* The steps of Next keep IInv. *)

(* What IInv needs of a served step, whoever takes it. *)
LEMMA ServedKeepsOwnCards ==
  ASSUME IInv, StandaloneKept(links, links'), UNCHANGED triaged
  PROVE  OwnCardIsKept'
BY DEF IInv, TypeOK, OwnCardIsKept, StandaloneKept

LEMMA FollowUpIsDelivery ==
  ASSUME NEW d \in Delivery PROVE FollowUp(d) \subseteq Delivery
BY DEF FollowUp, Delivery, Kinds

LEMMA HandleKeepsIInv ==
  ASSUME IInv, NEW d \in inbox, Handle(d) PROVE IInv' /\ Served
<1>1. d \in Delivery
  BY DEF IInv, TypeOK
<1>2. Served /\ budget' \in Budget
  BY <1>1, DispatchServes DEF Handle
<1>3. inbox' \subseteq Delivery
  BY <1>1, FollowUpIsDelivery DEF Handle, IInv, TypeOK
<1>4. OwnCardIsKept'
  BY <1>2, ServedKeepsOwnCards DEF Served
<1>5. TypeOK'
  BY <1>2, <1>3 DEF Handle, Served, Sound, IInv, TypeOK
<1>6. QED BY <1>2, <1>4, <1>5 DEF IInv, Served

LEMMA FuzzyLinkKeepsIInv ==
  ASSUME IInv, NEW d \in matching, NEW c \in Matches, FuzzyLink(d, c) PROVE IInv' /\ CompletesNothing(board, board')
<1> DEFINE k == <<d.pr, Standalone>>
           row == Upserted(links[k], c, "auto_link")
<1>1. d \in Delivery /\ d.pr \in Prs /\ c \in Cards /\ k \in Keys
  BY LinksAssumption DEF IInv, TypeOK, Delivery, Keys, Slots
<1>2. links[k] \in Row \cup {NoRow} /\ (links[k].source = Superseded => links[k].withdrawn)
  BY <1>1, KeysAreRead DEF IInv
<1>3. "auto_link" \in LinkSources \ {Superseded}
  BY DEF LinkSources, Superseded
<1>4. RowAdvances(links[k], row)
  BY <1>1, <1>2, <1>3, UpsertAdvances
<1>5. links' = [links EXCEPT ![k] = row]
  BY DEF FuzzyLink
<1>6. links \in Table
  BY DEF IInv, Sound
<1>7. DOMAIN links' = Keys /\ links' = [j \in Keys |-> links'[j]]
  BY <1>5, <1>6 DEF Table
<1>8. ASSUME NEW j \in Keys PROVE RowAdvances(links[j], links'[j])
  <2>1. CASE j = k
    BY <1>1, <1>4, <1>5, <1>6, <2>1 DEF Table
  <2>2. CASE j # k
    <3>1. links'[j] = links[j]
      BY <1>5, <1>6, <2>2 DEF Table
    <3>2. QED BY <3>1, KeysAreRead DEF RowAdvances, IInv
  <2>3. QED BY <2>1, <2>2
<1>9. Sound(links')
  BY <1>7, <1>8, AdvancingIsSound DEF IInv
<1>10. OwnCardIsKept'
  <2> SUFFICES ASSUME NEW p \in triaged
               PROVE  /\ links'[<<p, Standalone>>].card = OwnCard[p]
                      /\ links'[<<p, Standalone>>].source \in PrOwned \cup {Superseded}
    BY DEF OwnCardIsKept, FuzzyLink
  <2>1. p \in Prs /\ <<p, Standalone>> \in Keys
    BY DEF IInv, TypeOK, Keys, Slots
  <2>2. /\ links[<<p, Standalone>>].card = OwnCard[p]
        /\ links[<<p, Standalone>>].source \in PrOwned \cup {Superseded}
    BY DEF IInv, OwnCardIsKept
  <2>3. CASE p # d.pr
    BY <1>5, <1>6, <2>1, <2>2, <2>3 DEF Table
  <2>4. CASE p = d.pr
    <3>1. c # OwnCard[p]
      BY <2>1, LinksAssumption
    <3>2. links[k] # NoRow
      BY <2>2, <2>4 DEF NoRow, PrOwned, Superseded
    <3>3. row = links[k]
      BY <2>2, <2>4, <3>1, <3>2
      DEF Upserted, StaysSuperseded, DeclinesRepoint, PrOwned, UnSuperseding, Superseded
    <3>4. QED BY <1>5, <1>6, <2>1, <2>2, <2>4, <3>3 DEF Table
  <2>5. QED BY <2>3, <2>4
<1>11. CompletesNothing(board, board')
  <2>1. board \in [Cards -> Places] /\ CompletesNothing(board, board)
    BY DEF IInv, TypeOK, CompletesNothing
  <2>2. board' = board \/ board' = AskForQa(board, {c}, Late(d))
    BY DEF FuzzyLink
  <2>3. QED BY <2>1, <2>2, AskingCompletesNothing
<1>12. TypeOK'
  BY <1>1, <1>9, <1>11, FollowUpIsDelivery
  DEF FuzzyLink, EndMatching, Sound, IInv, TypeOK, CompletesNothing
<1>13. QED BY <1>9, <1>10, <1>11, <1>12 DEF IInv

LEMMA TriageCreatesKeepsIInv ==
  ASSUME IInv, NEW d \in matching, TriageCreates(d) PROVE IInv' /\ CompletesNothing(board, board')
<1> DEFINE k == <<d.pr, Standalone>>
           row == [NoRow EXCEPT !.source = "pr_task_created", !.card = OwnCard[d.pr]]
<1>1. d \in Delivery /\ d.pr \in Prs /\ k \in Keys /\ OwnCard[d.pr] \in Cards
  BY LinksAssumption DEF IInv, TypeOK, Delivery, Keys, Slots
<1>2. row \in Row /\ row.source = "pr_task_created" /\ row.card = OwnCard[d.pr]
  BY <1>1 DEF NoRow, Row, LinkSources, PrOwned
<1>3. row # NoRow /\ row.source # Superseded
  BY <1>2 DEF NoRow, Superseded
<1>4. links' = [links EXCEPT ![k] = row] /\ links \in Table
  BY DEF TriageCreates, IInv, Sound
<1> HIDE DEF row
<1>5. DOMAIN links' = Keys /\ links' = [j \in Keys |-> links'[j]]
  BY <1>4 DEF Table
<1>6. ASSUME NEW j \in Keys PROVE RowAdvances(links[j], links'[j])
  <2>1. CASE j = k
    <3>1. links'[j] = row
      BY <1>1, <1>4, <2>1 DEF Table
    <3>2. QED BY <1>2, <1>3, <3>1 DEF RowAdvances, Driving
  <2>2. CASE j # k
    <3>1. links'[j] = links[j]
      BY <1>4, <2>2 DEF Table
    <3>2. QED BY <3>1, KeysAreRead DEF RowAdvances, IInv
  <2>3. QED BY <2>1, <2>2
<1>7. Sound(links')
  BY <1>5, <1>6, AdvancingIsSound DEF IInv
<1>8. OwnCardIsKept'
  <2> SUFFICES ASSUME NEW p \in triaged \cup {d.pr}
               PROVE  /\ links'[<<p, Standalone>>].card = OwnCard[p]
                      /\ links'[<<p, Standalone>>].source \in PrOwned \cup {Superseded}
    BY DEF OwnCardIsKept, TriageCreates
  <2>1. p \in Prs /\ <<p, Standalone>> \in Keys
    BY <1>1 DEF IInv, TypeOK, Keys, Slots
  <2>2. CASE p = d.pr
    <3>1. links'[<<p, Standalone>>] = row
      BY <1>1, <1>4, <2>2 DEF Table
    <3>2. QED BY <1>2, <2>2, <3>1 DEF PrOwned
  <2>3. CASE p # d.pr
    <3>1. links'[<<p, Standalone>>] = links[<<p, Standalone>>]
      BY <1>4, <2>1, <2>3 DEF Table
    <3>2. QED BY <2>3, <3>1 DEF IInv, OwnCardIsKept
  <2>4. QED BY <2>2, <2>3
<1>9. CompletesNothing(board, board')
  BY <1>1 DEF TriageCreates, CompletesNothing, IInv, TypeOK, Places
<1>10. cardOf' \in [Issues -> Cards \cup {NoCard}]
  <2>1. FirstWritten(d) \subseteq Issues
    BY <1>1, DeliveryNamesIssues DEF IInv
  <2>2. cardOf \in [Issues -> Cards \cup {NoCard}]
    BY DEF IInv, TypeOK
  <2>3. CASE UNCHANGED cardOf
    BY <2>2, <2>3
  <2>4. CASE \E i \in FirstWritten(d) :
               cardOf' = [cardOf EXCEPT ![i] = IF @ = NoCard THEN OwnCard[d.pr] ELSE @]
    BY <1>1, <2>1, <2>2, <2>4
  <2>5. QED BY <2>3, <2>4 DEF TriageCreates
<1>11. /\ links' \in Table /\ board' \in [Cards -> Places]
       /\ inbox' \subseteq Delivery /\ matching' \subseteq Delivery /\ triaged' \subseteq Prs
  BY <1>1, <1>7, <1>9, FollowUpIsDelivery
  DEF TriageCreates, EndMatching, Sound, CompletesNothing, IInv, TypeOK
<1>12. TypeOK'
  BY <1>10, <1>11 DEF TriageCreates, EndMatching, IInv, TypeOK
<1>13. QED BY <1>7, <1>8, <1>9, <1>12 DEF IInv

LEMMA MatchKeepsIInv ==
  ASSUME IInv, NEW d \in matching, Match(d) PROVE IInv' /\ CompletesNothing(board, board')
<1>1. d \in Delivery /\ FollowUp(d) \subseteq Delivery
  BY FollowUpIsDelivery DEF IInv, TypeOK
<1>2. CASE TriageRefused(d) \/ TriageSkips(d)
  <2>1. UNCHANGED service
    BY <1>2 DEF TriageRefused, TriageSkips
  <2>2. budget' \in Budget
    BY <1>2 DEF TriageRefused, TriageSkips, IInv, TypeOK, Budget
  <2>3. /\ inbox' \subseteq Delivery /\ matching' \subseteq Delivery
        /\ UNCHANGED <<regime, github, said>>
    BY <1>1, <1>2 DEF TriageRefused, TriageSkips, EndMatching, IInv, TypeOK
  <2>4. TypeOK' /\ OwnCardIsKept' /\ Sound(links')
    BY <2>1, <2>2, <2>3 DEF service, IInv, TypeOK, OwnCardIsKept
  <2>5. QED BY <2>1, <2>4 DEF IInv, TypeOK, CompletesNothing, service
<1>3. CASE \E c \in regime.matches : FuzzyLink(d, c)
  BY <1>3, RegimeIsTyped, FuzzyLinkKeepsIInv DEF IInv
<1>4. QED BY <1>2, <1>3, TriageCreatesKeepsIInv DEF Match

LEMMA ChangeIsTyped ==
  ASSUME TypeOK, NEW p \in Prs, NEW kind \in Kinds, NEW state \in PrStates, NEW text \in Statements,
         Change(p, kind, state, text)
  PROVE  TypeOK' /\ UNCHANGED service
<1>1. github[p].at + 1 \in Nat
  BY DEF TypeOK
<1>2. github' \in [Prs -> [state : PrStates, text : Statements, at : Nat]]
  BY <1>1 DEF TypeOK, Change
<1>3. inbox' \subseteq Delivery
  BY <1>1 DEF TypeOK, Change, Delivery
<1>4. said' \in [Prs -> SUBSET Issues]
  <2>1. text.body \subseteq Issues
    BY LinksAssumption
  <2>2. QED BY <2>1 DEF TypeOK, Change
<1>5. QED BY <1>2, <1>3, <1>4 DEF TypeOK, Change, service

LEMMA GitHubIsTyped ==
  ASSUME TypeOK, NEW p \in Prs, GitHubStep(p) PROVE TypeOK' /\ UNCHANGED service
<1>1. /\ github[p].text \in Statements /\ github[p].state \in PrStates
      /\ {"open", "closed", "merged"} \subseteq PrStates
      /\ {"opened", "edited", "closed", "reopened"} \subseteq Kinds
  BY DEF TypeOK, PrStates, Kinds
<1>2. CASE \E s \in regime.texts : Open(p, s)
  BY <1>1, <1>2, RegimeIsTyped, ChangeIsTyped DEF Open
<1>3. CASE \E s \in regime.texts : Edit(p, s)
  BY <1>1, <1>3, RegimeIsTyped, ChangeIsTyped DEF Edit
<1>4. CASE Close(p)
  BY <1>1, <1>4, ChangeIsTyped DEF Close
<1>5. CASE Reopen(p)
  BY <1>1, <1>5, ChangeIsTyped DEF Reopen
<1>6. CASE Merge(p)
  BY <1>1, <1>6, ChangeIsTyped DEF Merge
<1>7. QED BY <1>2, <1>3, <1>4, <1>5, <1>6 DEF GitHubStep

(* A step that leaves the table and the log of triage alone. *)
LEMMA OutsideKeepsIInv ==
  ASSUME IInv, TypeOK', UNCHANGED <<links, triaged>> PROVE IInv'
BY DEF IInv, OwnCardIsKept

LEMMA SnapshotIsDelivery ==
  ASSUME TypeOK, NEW p \in Prs, NEW kind \in Kinds PROVE Snapshot(p, kind) \in Delivery
BY DEF TypeOK, Snapshot, Delivery

(* What every step does, for the action property below. *)
CompletesLogged ==
  \A c \in Cards : board[c] # "completed" /\ board'[c] = "completed" =>
    \E p \in Prs : <<p, c>> \in mergeLog' \ mergeLog

LEMMA NextKeepsIInv ==
  ASSUME IInv, Next PROVE IInv' /\ CompletesLogged
<1>1. CASE \E p \in Prs : GitHubStep(p)
  BY <1>1, GitHubIsTyped, OutsideKeepsIInv DEF IInv, service, CompletesLogged
<1>2. CASE \E p \in Prs : Sweep(p)
  <2>1. "sweep" \in Kinds
    BY DEF Kinds
  <2>2. inbox' \subseteq Delivery
    BY <1>2, <2>1, SnapshotIsDelivery DEF Sweep, IInv, TypeOK
  <2>3. TypeOK' /\ UNCHANGED <<links, triaged, board>>
    BY <1>2, <2>2 DEF Sweep, service, IInv, TypeOK
  <2>4. QED BY <2>3, OutsideKeepsIInv DEF CompletesLogged
<1>3. CASE \E p \in Prs : CatchUp(p)
  <2>1. "replayed" \in Kinds
    BY DEF Kinds
  <2>2. inbox' \subseteq Delivery
    BY <1>3, <2>1, SnapshotIsDelivery DEF CatchUp, IInv, TypeOK
  <2>3. budget' \in Budget
    BY <1>3 DEF CatchUp, IInv, TypeOK, Budget
  <2>4. TypeOK' /\ UNCHANGED <<links, triaged, board>>
    BY <1>3, <2>2, <2>3 DEF CatchUp, service, IInv, TypeOK
  <2>5. QED BY <2>4, OutsideKeepsIInv DEF CompletesLogged
<1>4. CASE \E d \in inbox : Handle(d)
  BY <1>4, HandleKeepsIInv DEF Served, CompletesLogged
<1>5. CASE \E d \in inbox : Lose(d)
  <2>1. TypeOK' /\ UNCHANGED <<links, triaged, board>>
    BY <1>5 DEF Lose, service, IInv, TypeOK, Budget
  <2>2. QED BY <2>1, OutsideKeepsIInv DEF CompletesLogged
<1>6. CASE \E d \in matching : Match(d)
  BY <1>6, MatchKeepsIInv DEF CompletesNothing, CompletesLogged
<1>7. CASE \E i \in Issues : SyncIssue(i)
  <2>1. TypeOK' /\ UNCHANGED <<links, triaged, board>>
    BY <1>7, LinksAssumption DEF SyncIssue, IInv, TypeOK
  <2>2. QED BY <2>1, OutsideKeepsIInv DEF CompletesLogged
<1>8. CASE \E c \in Cards : MoveByHand(c)
  <2>1. TypeOK' /\ UNCHANGED <<links, triaged>>
    BY <1>8 DEF MoveByHand, IInv, TypeOK, Places, Budget
  <2>2. CompletesLogged
    BY <1>8 DEF MoveByHand, CompletesLogged, IInv, TypeOK
  <2>3. QED BY <2>1, <2>2, OutsideKeepsIInv
<1>9. QED BY <1>1, <1>2, <1>3, <1>4, <1>5, <1>6, <1>7, <1>8 DEF Next

LEMMA InitIsSound == Init => IInv
<1> SUFFICES ASSUME Init PROVE IInv
  OBVIOUS
<1>1. (CHOOSE s \in Statements : TRUE) \in Statements
  BY LinksAssumption
<1>2. NoRow.source # Superseded /\ \A k \in Keys : links[k] = NoRow
  BY DEF Init, NoRow, Superseded
<1>3. Sound(links)
  <2>1. \A p \in Prs, s \in Slots : links[<<p, s>>] = NoRow
    BY <1>2 DEF Keys
  <2>2. QED BY <1>2, <2>1 DEF Init, Sound, Table, Exists
<1>4. budget \in Budget
  BY LinksAssumption DEF Init, Regime
<1>5. TypeOK
  BY <1>1, <1>3, <1>4, LinksAssumption DEF Init, TypeOK, Sound, PrStates, Places
<1>6. QED BY <1>3, <1>5 DEF IInv, Init, OwnCardIsKept

LEMMA Invariance == Spec => []IInv
<1>1. IInv /\ [Next]_vars => IInv'
  <2> SUFFICES ASSUME IInv, [Next]_vars PROVE IInv'
    OBVIOUS
  <2>1. CASE UNCHANGED vars
    BY <2>1 DEF vars, IInv, TypeOK, OwnCardIsKept
  <2>2. QED BY <2>1, NextKeepsIInv
<1>2. QED BY <1>1, InitIsSound, PTL DEF Spec

-----------------------------------------------------------------------------
(* The theorems. *)

(* Every variable keeps its type: no handler writes a link without a card,  *)
(* or a source that is not one of the code's.                               *)
THEOREM TypeCorrect == Spec => []TypeOK
BY Invariance, PTL DEF IInv

(* A link superseded by an issue is withdrawn for good, so that it never    *)
(* counts as an open pull request in the merge gate (has_any_open_pr).      *)
THEOREM SupersededStaysOut == Spec => []SupersededIsWithdrawn
<1>1. IInv => SupersededIsWithdrawn
  BY DEF IInv, Sound, SupersededIsWithdrawn
<1>2. QED BY <1>1, Invariance, PTL

(* A pull request that was ever linked keeps a card its events go to,       *)
(* however it is edited, relinked, closed, reopened and redelivered.        *)
THEOREM NeverStrands == Spec => []NeverStranded
<1>1. IInv => NeverStranded
  BY DEF IInv, Sound, NeverStranded, Exists, Drives, TasksOf
<1>2. QED BY <1>1, Invariance, PTL

(* The row of a card opened for a pull request is never pointed elsewhere   *)
(* nor taken over by a match (upsert_pr_task_link, _declines_repoint).      *)
THEOREM OwnCardStays == Spec => []OwnCardIsKept
BY Invariance, PTL DEF IInv

(* A card is completed only by a merge whose completion was not logged      *)
(* before: redelivered and replayed merges undo nothing.                    *)
THEOREM MergesSpeakOnce == Spec => MergeSpeaksOnce
<1>1. IInv /\ [Next]_vars => [CompletesLogged]_vars
  BY NextKeepsIInv
<1>2. [CompletesLogged]_vars =>
        [\A c \in Cards : board[c] # "completed" /\ board'[c] = "completed" =>
           \E p \in Prs : <<p, c>> \in mergeLog' \ mergeLog]_vars
  BY DEF CompletesLogged
<1>3. QED BY <1>1, <1>2, Invariance, PTL DEF Spec, MergeSpeaksOnce

-----------------------------------------------------------------------------
(***************************************************************************)
(* What the registry of pull requests is worth, for any number of pull     *)
(* requests, issues and cards: told everything in order, it says what      *)
(* GitHub says, so that a merge waits for the other pull requests of a     *)
(* card; and in every circumstance a merge completes what was said, and no *)
(* handler takes a completion back.                                        *)
(*                                                                         *)
(* Told states the first: the handled snapshots of a pull request are a    *)
(* prefix of its past, and its rows agree with the last of them.  Traced   *)
(* states where the card and the source of every row come from.            *)
(***************************************************************************)

(* A row agrees with the state of its pull request. *)
RowSays(row, v) ==
  CASE v = "open"   -> Active(row)
    [] v = "closed" -> row.withdrawn /\ ~row.merged
    [] v = "merged" -> row.merged
    [] OTHER        -> FALSE

(* So do all rows of p, and none was withdrawn for a close after h. *)
Agrees(t, p, v, h) ==
  \A s \in Slots : LET row == t[<<p, s>>]
                   IN (Driving(row) => RowSays(row, v)) /\ row.stamp <= h

Live(row) == Driving(row) => Active(row)

(* Where the card and the source of a row come from. *)
RowTraced(k, row) ==
  row # NoRow =>
    IF k[2] = Standalone
    THEN \/ row.card \in Matches /\ row.source \in {"auto_link", Superseded}
         \/ /\ row.card = OwnCard[k[1]] /\ k[1] \in triaged
            /\ row.source \in PrOwned \cup {Superseded}
    ELSE /\ row.card = cardOf[k[2]]
         /\ row.source \in UnSuperseding \cup Weak \cup {Superseded}
         /\ row.source = "issue_keyword" => k[2] \in said[k[1]]

Traced(t) == \A k \in Keys : RowTraced(k, t[k])

Elsewhere(t, u, p) == \A k \in Keys : k[1] # p => u[k] = t[k]

-----------------------------------------------------------------------------
(* What a link becomes. *)
LEMMA LinkSourcesRead ==
  ASSUME TypeOK, NEW d \in Delivery, NEW i \in Issues
  PROVE  /\ IssueLinkSource(d)[i] \in UnSuperseding \cup Weak
         /\ IssueLinkSource(d)[i] = "issue_keyword" => i \in d.text.body
BY DEF IssueLinkSource, UnSuperseding, Weak

LEMMA UpsertOfIssue ==
  ASSUME NEW r \in Row \cup {NoRow}, NEW k \in Keys, k[2] \in Issues, RowTraced(k, r),
         NEW src \in UnSuperseding \cup Weak, src = "issue_keyword" => k[2] \in said[k[1]],
         cardOf[k[2]] \in Cards
  PROVE  LET q == Upserted(r, cardOf[k[2]], src)
         IN RowTraced(k, q) /\ q.stamp = r.stamp /\ (Live(r) => Live(q))
<1> DEFINE c == cardOf[k[2]]
           q == Upserted(r, c, src)
<1>0. k[2] # Standalone
  BY RegistryAssumption
<1>1. CASE r = NoRow
  <2>1. q = [source |-> src, card |-> c, merged |-> FALSE, withdrawn |-> FALSE, stamp |-> 0]
    BY <1>1 DEF Upserted, NoRow
  <2>2. RowTraced(k, q)
    BY <1>0, <2>1 DEF RowTraced
  <2>3. q # NoRow
    BY <2>1 DEF NoRow, UnSuperseding, Weak
  <2>4. Live(q) /\ q.stamp = r.stamp
    BY <1>1, <2>1, <2>3 DEF Live, Active, NoRow
  <2>5. QED
    BY <2>2, <2>4
<1>2. CASE r # NoRow /\ q = r
  BY <1>2
<1>3. CASE r # NoRow /\ q # r
  <2>1. r \in Row
    BY <1>3
  <2> DEFINE s == KeptSource(r.source, src, r.card = c)
  <2>2. q = [r EXCEPT !.source = s, !.card = c, !.merged = FALSE, !.withdrawn = FALSE]
    BY <1>3 DEF Upserted
  <2>3. r.source \notin PrOwned
    BY <1>0, <1>3 DEF RowTraced, UnSuperseding, Weak, PrOwned, Superseded
  <2>4. s = src
    BY <2>3 DEF KeptSource
  <2>5. /\ q.source = src /\ q.card = c /\ q.merged = FALSE /\ q.withdrawn = FALSE
        /\ q.stamp = r.stamp
    BY <2>1, <2>2, <2>4 DEF Row
  <2>6. RowTraced(k, q)
    BY <1>0, <2>5 DEF RowTraced
  <2>7. q # NoRow
    BY <2>5 DEF NoRow, UnSuperseding, Weak
  <2>8. Live(q)
    BY <2>5, <2>7 DEF Live, Active
  <2>9. QED
    BY <2>5, <2>6, <2>8
<1>4. QED
  BY <1>1, <1>2, <1>3

LEMMA LinkingTraces ==
  ASSUME TypeOK, NEW t, Sound(t), NEW d \in Delivery, NEW is \in SUBSET Issues,
         d.text.body \subseteq said[d.pr]
  PROVE  LET u == LinkIssues(t, d.pr, HasCard(is), cardOf, IssueLinkSource(d))
         IN /\ Elsewhere(t, u, d.pr)
            /\ Traced(t) => /\ Traced(u)
                            /\ \A k \in Keys : u[k].stamp = t[k].stamp /\ (Live(t[k]) => Live(u[k]))
<1> DEFINE u == LinkIssues(t, d.pr, HasCard(is), cardOf, IssueLinkSource(d))
<1>1. \A k \in Keys : u[k] = IF k[1] = d.pr /\ k[2] \in HasCard(is)
                            THEN Upserted(t[k], cardOf[k[2]], IssueLinkSource(d)[k[2]]) ELSE t[k]
  BY DEF LinkIssues
<1>2. Elsewhere(t, u, d.pr)
  BY <1>1 DEF Elsewhere
<1>3. ASSUME Traced(t), NEW k \in Keys
      PROVE  RowTraced(k, u[k]) /\ u[k].stamp = t[k].stamp /\ (Live(t[k]) => Live(u[k]))
  <2>1. RowTraced(k, t[k]) /\ t[k] \in Row \cup {NoRow}
    BY <1>3, KeysAreRead DEF Traced
  <2>2. CASE k[1] = d.pr /\ k[2] \in HasCard(is)
    <3>1. k[2] \in Issues /\ cardOf[k[2]] \in Cards
      BY <2>2, HasCardHasCard
    <3>2. /\ IssueLinkSource(d)[k[2]] \in UnSuperseding \cup Weak
          /\ IssueLinkSource(d)[k[2]] = "issue_keyword" => k[2] \in said[k[1]]
      BY <2>2, <3>1, LinkSourcesRead
    <3>3. QED
      BY <1>1, <2>1, <2>2, <3>1, <3>2, UpsertOfIssue
  <2>3. CASE ~(k[1] = d.pr /\ k[2] \in HasCard(is))
    BY <1>1, <2>1, <2>3
  <2>4. QED
    BY <2>2, <2>3
<1>4. QED
  BY <1>2, <1>3 DEF Traced

-----------------------------------------------------------------------------
(* What the other operations leave of a row: its card, and its source unless *)
(* the row is retired.                                                       *)
Carried(t, u) ==
  \A k \in Keys : /\ u[k].card = t[k].card
                  /\ u[k].source \in {t[k].source, Superseded}
                  /\ t[k] = NoRow => u[k] = NoRow

LEMMA CarryingTraces ==
  ASSUME NEW t, NEW u, Carried(t, u), Traced(t) PROVE Traced(u)
<1> SUFFICES ASSUME NEW k \in Keys, u[k] # NoRow PROVE RowTraced(k, u[k])
  BY DEF Traced, RowTraced
<1>1. t[k] # NoRow /\ u[k].card = t[k].card /\ u[k].source \in {t[k].source, Superseded}
  BY DEF Carried
<1>2. RowTraced(k, t[k])
  BY DEF Traced
<1>3. Superseded # "issue_keyword"
  BY DEF Superseded
<1>4. QED
  BY <1>1, <1>2, <1>3 DEF RowTraced

(* From t to u a handler only adds to p's links and retires some of them: a *)
(* pull request all of whose links are live keeps it so.                    *)
Grows(t, u, p) ==
  /\ Elsewhere(t, u, p) /\ Traced(u)
  /\ \A k \in Keys : u[k].stamp = t[k].stamp /\ (Live(t[k]) => Live(u[k]))

LEMMA GrowsIsTransitive ==
  ASSUME NEW t, NEW u, NEW v, NEW p, Grows(t, u, p), Grows(u, v, p) PROVE Grows(t, v, p)
BY DEF Grows, Elsewhere

LEMMA GrowsIsReflexive == ASSUME NEW t, NEW p, Traced(t) PROVE Grows(t, t, p)
BY DEF Grows, Elsewhere

LEMMA RevivingGrows ==
  ASSUME NEW t, Sound(t), Traced(t), NEW p \in Prs, NEW at
  PROVE  Grows(t, Revive(t, p, at), p)
<1> DEFINE u == Revive(t, p, at)
<1>1. ASSUME NEW k \in Keys
      PROVE  /\ k[1] # p => u[k] = t[k]
             /\ u[k].card = t[k].card /\ u[k].source = t[k].source
             /\ t[k] = NoRow => u[k] = NoRow
             /\ u[k].stamp = t[k].stamp /\ (Live(t[k]) => Live(u[k]))
  <2>1. u[k] = IF k \in Revivable(t, p, at) THEN [t[k] EXCEPT !.withdrawn = FALSE] ELSE t[k]
    BY DEF Revive
  <2>2. CASE k \notin Revivable(t, p, at)
    BY <2>1, <2>2
  <2>3. CASE k \in Revivable(t, p, at)
    <3>1. k[1] = p /\ t[k] \in Row /\ t[k] # NoRow /\ t[k].withdrawn /\ t[k].source # Superseded
      BY <2>3, KeysAreRead DEF Revivable
    <3>2. u[k] = [t[k] EXCEPT !.withdrawn = FALSE]
      BY <2>1, <2>3
    <3>3. /\ u[k].card = t[k].card /\ u[k].source = t[k].source /\ u[k].stamp = t[k].stamp
      BY <3>1, <3>2 DEF Row
    <3>4. ~Live(t[k])
      BY <3>1 DEF Live, Driving, Active
    <3>5. QED
      BY <3>1, <3>3, <3>4
  <2>4. QED
    BY <2>2, <2>3
<1>2. Carried(t, u) /\ Elsewhere(t, u, p)
  BY <1>1 DEF Carried, Elsewhere
<1>3. Traced(u)
  BY <1>2, CarryingTraces
<1>4. QED
  BY <1>1, <1>2, <1>3 DEF Grows

(* Revived by a snapshot that no close outdates, all links are live. *)
LEMMA RevivingEnlivens ==
  ASSUME NEW t, Sound(t), NEW p \in Prs, NEW at \in Nat,
         \A s \in Slots : LET row == t[<<p, s>>]
                          IN (Driving(row) => ~row.merged) /\ row.stamp <= at
  PROVE  \A s \in Slots : Live(Revive(t, p, at)[<<p, s>>])
<1> SUFFICES ASSUME NEW s \in Slots PROVE Live(Revive(t, p, at)[<<p, s>>])
  OBVIOUS
<1> DEFINE k == <<p, s>>
           u == Revive(t, p, at)
<1>1. k \in Keys /\ k[1] = p
  BY DEF Keys
<1>2. t[k] \in Row \cup {NoRow} /\ (t[k].source = Superseded => t[k].withdrawn)
  BY <1>1, KeysAreRead
<1>3. t[k].stamp \in Nat /\ ~OlderThanClose(t[k], at)
  BY <1>2 DEF OlderThanClose, Row, NoRow
<1>4. u[k] = IF k \in Revivable(t, p, at) THEN [t[k] EXCEPT !.withdrawn = FALSE] ELSE t[k]
  BY <1>1 DEF Revive
<1>5. CASE k \in Revivable(t, p, at)
  <2>1. t[k] # NoRow /\ t[k].source # Superseded /\ t[k] \in Row
    BY <1>2, <1>5 DEF Revivable
  <2>2. ~t[k].merged
    BY <2>1 DEF Driving
  <2>3. u[k] = [t[k] EXCEPT !.withdrawn = FALSE]
    BY <1>4, <1>5
  <2>4. u[k].withdrawn = FALSE /\ u[k].merged = t[k].merged /\ u[k].source = t[k].source
    BY <2>1, <2>3 DEF Row
  <2>5. QED
    BY <2>2, <2>4 DEF Live, Active, Driving
<1>6. CASE k \notin Revivable(t, p, at)
  <2>1. u[k] = t[k]
    BY <1>4, <1>6
  <2>2. ASSUME Driving(t[k]) PROVE Active(t[k])
    <3>1. ~t[k].withdrawn
      BY <1>1, <1>3, <1>6, <2>2 DEF Revivable, Driving
    <3>2. QED
      BY <2>2, <3>1 DEF Active, Driving
  <2>3. QED
    BY <2>1, <2>2 DEF Live
<1>7. QED
  BY <1>5, <1>6

LEMMA EnsuringGrows ==
  ASSUME NEW t, Sound(t), Traced(t), NEW d \in Delivery
  PROVE  Grows(t, EnsureLinksLive(t, d), d.pr)
BY RevivingGrows, GrowsIsReflexive DEF EnsureLinksLive, Delivery

LEMMA NamingGrows ==
  ASSUME TypeOK, NEW t, Sound(t), Traced(t), NEW d \in Delivery, NEW is \in SUBSET Issues,
         d.text.body \subseteq said[d.pr]
  PROVE  Grows(t, LinkIssues(t, d.pr, HasCard(is), cardOf, IssueLinkSource(d)), d.pr)
BY LinkingTraces DEF Grows

LEMMA OpeningGrows ==
  ASSUME TypeOK, NEW t, Sound(t), Traced(t), NEW d \in Delivery, d.text.body \subseteq said[d.pr]
  PROVE  Grows(t, OpenedTable(t, d), d.pr) /\ Grows(EnsureLinksLive(t, d), OpenedTable(t, d), d.pr)
<1> DEFINE v == EnsureLinksLive(t, d)
<1>1. Grows(t, v, d.pr) /\ Sound(v)
  BY EnsuringGrows, EnsureIsSound
<1>2. Traced(v)
  BY <1>1 DEF Grows
<1>3. Referenced(d) \in SUBSET Issues
  BY DeliveryNamesIssues
<1> HIDE DEF v
<1>4. Grows(v, LinkIssues(v, d.pr, HasCard(Referenced(d)), cardOf, IssueLinkSource(d)), d.pr)
  BY <1>1, <1>2, <1>3, NamingGrows
<1>5. QED
  BY <1>1, <1>4, GrowsIsTransitive DEF OpenedTable, v

LEMMA RetiringGrows ==
  ASSUME NEW t, Sound(t), Traced(t), NEW p \in Prs, NEW R \in SUBSET Slots,
         \A s \in R : Driving(t[<<p, s>>])
  PROVE  Grows(t, Retire(t, {p} \X R), p)
<1> DEFINE u == Retire(t, {p} \X R)
<1>1. ASSUME NEW k \in Keys
      PROVE  /\ k[1] # p => u[k] = t[k]
             /\ u[k].card = t[k].card /\ u[k].source \in {t[k].source, Superseded}
             /\ t[k] = NoRow => u[k] = NoRow
             /\ u[k].stamp = t[k].stamp /\ (Live(t[k]) => Live(u[k]))
  <2>1. u[k] = IF k \in {p} \X R THEN [t[k] EXCEPT !.withdrawn = TRUE, !.source = Superseded]
               ELSE t[k]
    BY DEF Retire
  <2>2. CASE k \notin {p} \X R
    BY <2>1, <2>2
  <2>3. CASE k \in {p} \X R
    <3>1. k[1] = p /\ t[k] # NoRow /\ t[k] \in Row
      BY <2>3, KeysAreRead DEF Driving
    <3>2. u[k] = [t[k] EXCEPT !.withdrawn = TRUE, !.source = Superseded]
      BY <2>1, <2>3
    <3>3. u[k].card = t[k].card /\ u[k].source = Superseded /\ u[k].stamp = t[k].stamp
      BY <3>1, <3>2 DEF Row
    <3>4. QED
      BY <3>1, <3>3 DEF Live, Driving
  <2>4. QED
    BY <2>2, <2>3
<1>2. Carried(t, u) /\ Elsewhere(t, u, p)
  BY <1>1 DEF Carried, Elsewhere
<1>3. Traced(u)
  BY <1>2, CarryingTraces
<1>4. QED
  BY <1>1, <1>2, <1>3 DEF Grows

LEMMA ReconcilingGrows ==
  ASSUME TypeOK, NEW t, Sound(t), Traced(t), NEW d \in Delivery, d.text.body \subseteq said[d.pr]
  PROVE  Grows(t, Reconciled(t, d), d.pr)
<1> DEFINE r == Relinked(t, d)
           R == RetiredSlots(t, d)
<1>1. Referenced(d) \ IssueRows(t, d.pr) \in SUBSET Issues /\ d.pr \in Prs
  BY DeliveryNamesIssues
<1>2. NewlyNamed(t, d) = HasCard(Referenced(d) \ IssueRows(t, d.pr))
  BY DEF NewlyNamed, HasCard
<1>3. r = LinkIssues(t, d.pr, HasCard(Referenced(d) \ IssueRows(t, d.pr)), cardOf, IssueLinkSource(d))
  BY <1>2 DEF Relinked
<1>4. Grows(t, r, d.pr)
  BY <1>1, <1>3, NamingGrows
<1>5. Sound(r) /\ \A k \in Keys : RowAdvances(t[k], r[k])
  BY <1>1, <1>3, LinkNamedIsSound
<1>6. R \in SUBSET Slots /\ \A s \in R : Driving(t[<<d.pr, s>>])
  BY RegistryAssumption DEF RetiredSlots, IssueRows, HasStandalone, Slots
<1>7. \A s \in R : Driving(r[<<d.pr, s>>])
  BY <1>1, <1>5, <1>6 DEF RowAdvances, Keys
<1>8. Traced(r)
  BY <1>4 DEF Grows
<1> HIDE DEF r, R
<1>9. Grows(r, Retire(r, {d.pr} \X R), d.pr)
  BY <1>1, <1>5, <1>6, <1>7, <1>8, RetiringGrows
<1>10. Grows(t, Retire(r, {d.pr} \X R), d.pr) /\ Grows(t, t, d.pr)
  BY <1>4, <1>9, GrowsIsTransitive, GrowsIsReflexive
<1>11. QED
  BY <1>10 DEF Reconciled, r, R

LEMMA ClosingCarries ==
  ASSUME NEW t, Sound(t), NEW p \in Prs, NEW at
  PROVE  Carried(t, MarkWithdrawn(t, p, at)) /\ Elsewhere(t, MarkWithdrawn(t, p, at), p)
<1> DEFINE u == MarkWithdrawn(t, p, at)
<1>1. ASSUME NEW k \in Keys
      PROVE  /\ k[1] # p => u[k] = t[k]
             /\ u[k].card = t[k].card /\ u[k].source = t[k].source
             /\ t[k] = NoRow => u[k] = NoRow
  <2>1. u[k] = IF k \in NewlyWithdrawn(t, p, at)
               THEN [t[k] EXCEPT !.withdrawn = TRUE, !.stamp = at] ELSE t[k]
    BY DEF MarkWithdrawn
  <2>2. CASE k \notin NewlyWithdrawn(t, p, at)
    BY <2>1, <2>2
  <2>3. CASE k \in NewlyWithdrawn(t, p, at)
    <3>1. k[1] = p /\ t[k] \in Row /\ t[k] # NoRow
      BY <2>3, KeysAreRead DEF NewlyWithdrawn
    <3>2. u[k] = [t[k] EXCEPT !.withdrawn = TRUE, !.stamp = at]
      BY <2>1, <2>3
    <3>3. u[k].card = t[k].card /\ u[k].source = t[k].source
      BY <3>1, <3>2 DEF Row
    <3>4. QED
      BY <3>1, <3>3
  <2>4. QED
    BY <2>2, <2>3
<1>2. QED
  BY <1>1 DEF Carried, Elsewhere

LEMMA MergingCarries ==
  ASSUME NEW t, Sound(t), NEW p \in Prs
  PROVE  Carried(t, MarkMerged(t, p)) /\ Elsewhere(t, MarkMerged(t, p), p)
<1> DEFINE u == MarkMerged(t, p)
<1>1. ASSUME NEW k \in Keys
      PROVE  /\ k[1] # p => u[k] = t[k]
             /\ u[k].card = t[k].card /\ u[k].source = t[k].source
             /\ t[k] = NoRow => u[k] = NoRow
  <2>1. u[k] = IF k \in NewlyMerged(t, p) THEN [t[k] EXCEPT !.merged = TRUE] ELSE t[k]
    BY DEF MarkMerged
  <2>2. CASE k \notin NewlyMerged(t, p)
    BY <2>1, <2>2
  <2>3. CASE k \in NewlyMerged(t, p)
    <3>1. k[1] = p /\ t[k] \in Row /\ t[k] # NoRow
      BY <2>3, KeysAreRead DEF NewlyMerged
    <3>2. u[k] = [t[k] EXCEPT !.merged = TRUE]
      BY <2>1, <2>3
    <3>3. u[k].card = t[k].card /\ u[k].source = t[k].source
      BY <3>1, <3>2 DEF Row
    <3>4. QED
      BY <3>1, <3>3
  <2>4. QED
    BY <2>2, <2>3
<1>2. QED
  BY <1>1 DEF Carried, Elsewhere

(* A close handled after what it closed: every driving row is withdrawn. *)
LEMMA ClosingSays ==
  ASSUME NEW t, Sound(t), NEW p \in Prs, NEW at \in Nat, NEW h \in Nat, NEW v \in {"open", "closed"},
         Agrees(t, p, v, h), h <= at, v = "open" => h < at
  PROVE  Agrees(MarkWithdrawn(t, p, at), p, "closed", at)
<1> DEFINE u == MarkWithdrawn(t, p, at)
<1> SUFFICES ASSUME NEW s \in Slots
             PROVE  LET row == u[<<p, s>>]
                    IN /\ Driving(row) => row.withdrawn /\ ~row.merged
                       /\ row.stamp <= at
  BY DEF Agrees, RowSays
<1> DEFINE k == <<p, s>>
<1>1. k \in Keys /\ k[1] = p
  BY DEF Keys
<1>2. t[k] \in Row \cup {NoRow} /\ t[k].stamp \in Nat
  <2>1. t[k] \in Row \cup {NoRow}
    BY <1>1, KeysAreRead
  <2>2. QED
    BY <2>1 DEF Row, NoRow
<1>3. (Driving(t[k]) => RowSays(t[k], v)) /\ t[k].stamp <= h
  BY DEF Agrees
<1>4. u[k] = IF k \in NewlyWithdrawn(t, p, at)
             THEN [t[k] EXCEPT !.withdrawn = TRUE, !.stamp = at] ELSE t[k]
  BY <1>1 DEF MarkWithdrawn
<1>5. CASE k \in NewlyWithdrawn(t, p, at)
  <2>1. t[k] # NoRow /\ t[k] \in Row
    BY <1>2, <1>5 DEF NewlyWithdrawn
  <2>2. u[k] = [t[k] EXCEPT !.withdrawn = TRUE, !.stamp = at]
    BY <1>4, <1>5
  <2>3. /\ u[k].withdrawn = TRUE /\ u[k].stamp = at /\ u[k].merged = t[k].merged
        /\ u[k].source = t[k].source
    BY <2>1, <2>2 DEF Row
  <2>4. Driving(t[k]) => ~t[k].merged
    BY <1>3 DEF RowSays, Active
  <2>5. QED
    BY <2>1, <2>3, <2>4 DEF Driving
<1>6. CASE k \notin NewlyWithdrawn(t, p, at)
  <2>1. u[k] = t[k]
    BY <1>4, <1>6
  <2>2. t[k].stamp <= at
    BY <1>2, <1>3
  <2>3. ASSUME Driving(t[k]) PROVE t[k].withdrawn /\ ~t[k].merged
    <3>1. CASE v = "closed"
      BY <1>3, <2>3, <3>1 DEF RowSays
    <3>2. CASE v = "open"
      <4>1. Active(t[k]) /\ ~AlreadyWithdrawn(t[k], at)
        BY <1>2, <1>3, <2>3, <3>2 DEF RowSays, AlreadyWithdrawn
      <4>2. k \in NewlyWithdrawn(t, p, at)
        BY <1>1, <4>1 DEF NewlyWithdrawn, Active
      <4>3. QED
        BY <1>6, <4>2
    <3>3. QED
      BY <3>1, <3>2
  <2>4. QED
    BY <2>1, <2>2, <2>3
<1>7. QED
  BY <1>5, <1>6

LEMMA MergingSays ==
  ASSUME NEW t, Sound(t), NEW p \in Prs, NEW at \in Nat,
         \A s \in Slots : t[<<p, s>>].stamp <= at
  PROVE  Agrees(MarkMerged(t, p), p, "merged", at)
<1> DEFINE u == MarkMerged(t, p)
<1> SUFFICES ASSUME NEW s \in Slots
             PROVE  (Driving(u[<<p, s>>]) => u[<<p, s>>].merged) /\ u[<<p, s>>].stamp <= at
  BY DEF Agrees, RowSays
<1> DEFINE k == <<p, s>>
<1>1. k \in Keys /\ k[1] = p
  BY DEF Keys
<1>2. t[k] \in Row \cup {NoRow} /\ t[k].stamp <= at
  BY <1>1, KeysAreRead
<1>3. u[k] = IF k \in NewlyMerged(t, p) THEN [t[k] EXCEPT !.merged = TRUE] ELSE t[k]
  BY <1>1 DEF MarkMerged
<1>4. CASE k \in NewlyMerged(t, p)
  <2>1. t[k] \in Row
    BY <1>2, <1>4 DEF NewlyMerged
  <2>2. u[k] = [t[k] EXCEPT !.merged = TRUE]
    BY <1>3, <1>4
  <2>3. u[k].merged = TRUE /\ u[k].stamp = t[k].stamp
    BY <2>1, <2>2 DEF Row
  <2>4. QED
    BY <1>2, <2>3
<1>5. CASE k \notin NewlyMerged(t, p)
  <2>1. u[k] = t[k]
    BY <1>3, <1>5
  <2>2. Driving(t[k]) => t[k].merged
    BY <1>1, <1>5 DEF NewlyMerged, Driving
  <2>3. QED
    BY <1>2, <2>1, <2>2
<1>6. QED
  BY <1>4, <1>5

-----------------------------------------------------------------------------
(* What a handler does to the table, in every circumstance. *)
LEMMA PipelineGrows ==
  ASSUME IInv, NEW d \in Delivery, d.text.body \subseteq said[d.pr], NEW t, Sound(t),
         NEW s, Grows(s, t, d.pr), NEW bd, OpenPipeline(t, bd, d)
  PROVE  Grows(s, links', d.pr)
<1>1. Traced(t)
  BY DEF Grows
<1>2. Grows(t, OpenedTable(t, d), d.pr)
  BY <1>1, OpeningGrows DEF IInv
<1>3. QED
  BY <1>2, GrowsIsTransitive DEF OpenPipeline

LEMMA OpenedGrows ==
  ASSUME IInv, Traced(links), NEW d \in Delivery, d.text.body \subseteq said[d.pr], HandleOpened(d)
  PROVE  Grows(links, links', d.pr) /\ Grows(EnsureLinksLive(links, d), links', d.pr)
<1>1. Grows(links, links', d.pr)
  BY PipelineGrows, GrowsIsReflexive DEF HandleOpened, IInv
<1>2. Grows(EnsureLinksLive(links, d), links', d.pr)
  BY OpeningGrows DEF HandleOpened, OpenPipeline, IInv
<1>3. QED
  BY <1>1, <1>2

LEMMA EditedGrows ==
  ASSUME IInv, Traced(links), NEW d \in Delivery, d.text.body \subseteq said[d.pr], HandleEdited(d)
  PROVE  /\ Grows(links, links', d.pr)
         /\ d.state = "open" => Grows(EnsureLinksLive(links, d), links', d.pr)
<1> DEFINE live == EnsureLinksLive(links, d)
           after == Reconciled(live, d)
<1>1. Sound(live) /\ Grows(links, live, d.pr)
  BY EnsureIsSound, EnsuringGrows DEF IInv
<1>2. Traced(live)
  BY <1>1 DEF Grows
<1> HIDE DEF live
<1>3. Sound(after) /\ Grows(live, after, d.pr)
  BY <1>1, <1>2, ReconcilingGrows, ReconciledIsSound DEF IInv
<1> HIDE DEF after
<1>4. Grows(links, after, d.pr)
  BY <1>1, <1>3, GrowsIsTransitive
<1>5. CASE d.state # "open"
  <2>1. links' = links
    BY <1>5 DEF HandleEdited, service
  <2>2. QED
    BY <1>5, <2>1, GrowsIsReflexive
<1>6. CASE d.state = "open" /\ TasksOf(after, d.pr) = {}
  <2>1. OpenPipeline(after, ReconciledBoard(live, d), d)
    BY <1>6 DEF HandleEdited, after, live
  <2>2. Grows(links, links', d.pr) /\ Grows(live, links', d.pr)
    BY <1>3, <1>4, <2>1, PipelineGrows
  <2>3. QED
    BY <2>2 DEF live
<1>7. CASE d.state = "open" /\ TasksOf(after, d.pr) # {}
  <2>1. links' = after
    BY <1>7 DEF HandleEdited, after, live
  <2>2. QED
    BY <1>3, <1>4, <2>1 DEF live
<1>8. QED
  BY <1>5, <1>6, <1>7

(* The rows of the other pull requests stand, and every row is traced. *)
Traces(d) == Elsewhere(links, links', d.pr) /\ Traced(links')

LEMMA ClosedTraces ==
  ASSUME IInv, Traced(links), NEW d \in Delivery, HandleClosedWithoutMerge(d) PROVE Traces(d)
<1>1. Carried(links, links') /\ Elsewhere(links, links', d.pr)
  BY ClosingCarries DEF HandleClosedWithoutMerge, IInv, Delivery
<1>2. QED
  BY <1>1, CarryingTraces DEF Traces

LEMMA LinkedAtMergeGrows ==
  ASSUME IInv, Traced(links), NEW d \in Delivery, d.text.body \subseteq said[d.pr]
  PROVE  Grows(links, LinkedAtMerge(d), d.pr)
BY NamingGrows, DeliveryNamesIssues DEF LinkedAtMerge, IInv

LEMMA MergedTraces ==
  ASSUME IInv, Traced(links), NEW d \in Delivery, d.text.body \subseteq said[d.pr], HandleMerged(d)
  PROVE  Traces(d)
<1>1. Grows(links, LinkedAtMerge(d), d.pr) /\ Sound(LinkedAtMerge(d))
  BY LinkedAtMergeGrows, MergedIsSound DEF IInv
<1>2. /\ Carried(LinkedAtMerge(d), MergedTable(d))
      /\ Elsewhere(LinkedAtMerge(d), MergedTable(d), d.pr)
  BY <1>1, MergingCarries DEF MergedTable, Delivery
<1>3. Traced(MergedTable(d))
  BY <1>1, <1>2, CarryingTraces DEF Grows
<1>4. Elsewhere(links, MergedTable(d), d.pr)
  BY <1>1, <1>2 DEF Grows, Elsewhere
<1>5. QED
  BY <1>3, <1>4 DEF HandleMerged, Traces

LEMMA DispatchTraces ==
  ASSUME IInv, Traced(links), NEW d \in Delivery, d.text.body \subseteq said[d.pr], Dispatch(d)
  PROVE  Traces(d)
<1>1. CASE HandleOpened(d)
  BY <1>1, OpenedGrows DEF Grows, Traces
<1>2. CASE HandleEdited(d)
  BY <1>2, EditedGrows DEF Grows, Traces
<1>3. CASE HandleClosedWithoutMerge(d)
  BY <1>3, ClosedTraces
<1>4. CASE HandleMerged(d)
  BY <1>4, MergedTraces
<1>5. CASE UNCHANGED <<service, matching>>
  BY <1>5 DEF service, Traces, Elsewhere
<1>6. QED
  BY <1>1, <1>2, <1>3, <1>4, <1>5 DEF Dispatch, HandleSweep

-----------------------------------------------------------------------------
(* What a handler makes of the rows of its pull request. *)

(* Opened, reopened, edited or swept while open: every link is live. *)
LEMMA OpenSays ==
  ASSUME IInv, Traced(links), NEW d \in Delivery, d.text.body \subseteq said[d.pr],
         HandleOpened(d) \/ HandleEdited(d), d.state = "open",
         NEW v \in {"none", "open", "closed"}, NEW h \in Nat, h <= d.at, Agrees(links, d.pr, v, h)
  PROVE  Agrees(links', d.pr, "open", d.at)
<1>0. d.pr \in Prs /\ d.at \in Nat /\ Sound(links)
  BY DeliveryNamesIssues DEF IInv
<1>1. Grows(EnsureLinksLive(links, d), links', d.pr) /\ Grows(links, links', d.pr)
  BY OpenedGrows, EditedGrows
<1>2. ASSUME NEW s \in Slots
      PROVE  LET row == links[<<d.pr, s>>] IN (Driving(row) => ~row.merged) /\ row.stamp <= d.at
  <2>1. <<d.pr, s>> \in Keys
    BY <1>0 DEF Keys
  <2>2. links[<<d.pr, s>>] \in Row \cup {NoRow}
    BY <1>0, <2>1, KeysAreRead
  <2>3. links[<<d.pr, s>>].stamp \in Nat
    BY <2>2 DEF Row, NoRow
  <2>4. (Driving(links[<<d.pr, s>>]) => RowSays(links[<<d.pr, s>>], v)) /\ links[<<d.pr, s>>].stamp <= h
    BY DEF Agrees
  <2>5. links[<<d.pr, s>>].stamp <= d.at
    BY <1>0, <2>3, <2>4
  <2>6. QED
    BY <2>4, <2>5 DEF RowSays, Active
<1>3. \A s \in Slots : Live(Revive(links, d.pr, d.at)[<<d.pr, s>>])
  BY <1>0, <1>2, RevivingEnlivens
<1>4. EnsureLinksLive(links, d) = Revive(links, d.pr, d.at)
  BY DEF EnsureLinksLive
<1>5. \A s \in Slots : <<d.pr, s>> \in Keys
  BY <1>0 DEF Keys
<1>6. \A s \in Slots : Live(links'[<<d.pr, s>>]) /\ links'[<<d.pr, s>>].stamp = links[<<d.pr, s>>].stamp
  BY <1>1, <1>3, <1>4, <1>5 DEF Grows
<1>7. QED
  BY <1>2, <1>6 DEF Agrees, RowSays, Live

(* A snapshot that comes next, or that says again what the rows already say. *)
ComesNext(d, v, h) ==
  /\ d.kind # "replayed" /\ d.state # "none"
  /\ d.kind \in {"opened", "reopened"} => d.state = "open"
  /\ d.kind = "edited" => d.state # "merged"
  /\ d.kind = "closed" => d.state # "open"
  /\ d.state = "open" => v # "merged"
  /\ d.state = "closed" => v \in {"open", "closed"} /\ (v = "open" => h < d.at)
  /\ d.state = "closed" /\ d.kind = "edited" => v = "closed"
  /\ h <= d.at

LEMMA HandlerSays ==
  ASSUME IInv, Traced(links), NEW d \in Delivery, d.text.body \subseteq said[d.pr], Dispatch(d),
         NEW v \in PrStates, NEW h \in Nat, ComesNext(d, v, h), Agrees(links, d.pr, v, h)
  PROVE  /\ Agrees(links', d.pr, d.state, d.at)
         /\ matching' = matching \/ (d.state = "open" /\ matching' = matching \cup {d})
<1>0. d.pr \in Prs /\ d.at \in Nat /\ Sound(links) /\ d.state \in PrStates
  BY DeliveryNamesIssues DEF IInv
<1>1. \A s \in Slots : links[<<d.pr, s>>].stamp \in Nat /\ links[<<d.pr, s>>].stamp <= d.at
  <2> SUFFICES ASSUME NEW s \in Slots
               PROVE  links[<<d.pr, s>>].stamp \in Nat /\ links[<<d.pr, s>>].stamp <= d.at
    OBVIOUS
  <2>1. <<d.pr, s>> \in Keys
    BY <1>0 DEF Keys
  <2>2. links[<<d.pr, s>>] \in Row \cup {NoRow}
    BY <1>0, <2>1, KeysAreRead
  <2>3. links[<<d.pr, s>>].stamp \in Nat
    BY <2>2 DEF Row, NoRow
  <2>4. links[<<d.pr, s>>].stamp <= h /\ h <= d.at
    BY DEF Agrees, ComesNext
  <2>5. QED
    BY <1>0, <2>3, <2>4
<1>2. CASE d.state = "open"
  <2>1. HandleOpened(d) \/ HandleEdited(d)
    BY <1>2 DEF Dispatch, HandleSweep, ComesNext, Kinds, Delivery
  <2>2. v \in {"none", "open", "closed"} /\ h <= d.at
    BY <1>2 DEF ComesNext, PrStates
  <2>3. Agrees(links', d.pr, "open", d.at)
    BY <1>2, <2>1, <2>2, OpenSays
  <2>4. matching' = matching \/ matching' = matching \cup {d}
    BY <1>2, <2>1 DEF HandleOpened, HandleEdited, OpenPipeline
  <2>5. QED
    BY <1>2, <2>3, <2>4
<1>3. CASE d.state = "closed"
  <2>1. \/ HandleClosedWithoutMerge(d)
        \/ UNCHANGED <<service, matching>> /\ (d.kind = "edited" \/ TasksOf(links, d.pr) = {})
    BY <1>3 DEF Dispatch, HandleSweep, HandleEdited, ComesNext, Kinds, Delivery
  <2>2. v \in {"open", "closed"} /\ h <= d.at /\ (v = "open" => h < d.at)
    BY <1>3 DEF ComesNext
  <2>3. CASE HandleClosedWithoutMerge(d)
    <3>1. Agrees(MarkWithdrawn(links, d.pr, d.at), d.pr, "closed", d.at)
      BY <1>0, <2>2, ClosingSays
    <3>2. QED
      BY <1>3, <2>3, <3>1 DEF HandleClosedWithoutMerge
  <2>4. CASE UNCHANGED <<service, matching>> /\ d.kind = "edited"
    <3>1. v = "closed"
      BY <1>3, <2>4 DEF ComesNext
    <3>2. links' = links /\ matching' = matching
      BY <2>4 DEF service
    <3>3. QED
      BY <1>1, <1>3, <3>1, <3>2 DEF Agrees
  <2>5. CASE UNCHANGED <<service, matching>> /\ TasksOf(links, d.pr) = {}
    <3>1. \A s \in Slots : ~Driving(links[<<d.pr, s>>])
      BY <2>5 DEF TasksOf
    <3>2. links' = links /\ matching' = matching
      BY <2>5 DEF service
    <3>3. QED
      BY <1>1, <3>1, <3>2 DEF Agrees
  <2>6. QED
    BY <2>1, <2>3, <2>4, <2>5
<1>4. CASE d.state = "merged"
  <2>1. HandleMerged(d) \/ (UNCHANGED <<service, matching>> /\ TasksOf(links, d.pr) = {})
    BY <1>4 DEF Dispatch, HandleSweep, ComesNext, Kinds, Delivery
  <2>2. CASE HandleMerged(d)
    <3>1. Grows(links, LinkedAtMerge(d), d.pr) /\ Sound(LinkedAtMerge(d))
      BY LinkedAtMergeGrows, MergedIsSound DEF IInv
    <3>2. \A s \in Slots : <<d.pr, s>> \in Keys
      BY <1>0 DEF Keys
    <3>3. \A s \in Slots : LinkedAtMerge(d)[<<d.pr, s>>].stamp <= d.at
      BY <1>1, <3>1, <3>2 DEF Grows
    <3>4. Agrees(MergedTable(d), d.pr, "merged", d.at)
      BY <1>0, <3>1, <3>3, MergingSays DEF MergedTable
    <3>5. QED
      BY <1>4, <2>2, <3>4 DEF HandleMerged
  <2>3. CASE UNCHANGED <<service, matching>> /\ TasksOf(links, d.pr) = {}
    <3>1. \A s \in Slots : ~Driving(links[<<d.pr, s>>])
      BY <2>3 DEF TasksOf
    <3>2. links' = links /\ matching' = matching
      BY <2>3 DEF service
    <3>3. QED
      BY <1>1, <3>1, <3>2 DEF Agrees
  <2>4. QED
    BY <2>1, <2>2, <2>3
<1>5. QED
  BY <1>0, <1>2, <1>3, <1>4 DEF PrStates, ComesNext

-----------------------------------------------------------------------------
(* What holds in every circumstance. *)

(* What a snapshot's body names, the pull request has said. *)
Spoken ==
  /\ \A d \in inbox \cup matching : d.text.body \subseteq said[d.pr]
  /\ \A p \in Prs : github[p].state # "none" => github[p].text.body \subseteq said[p]

(* Nobody refers to the card a pull request has yet to open. *)
OwnUntouched ==
  \A p \in Prs : p \notin triaged =>
    board[OwnCard[p]] # "completed" /\ \A i \in Issues : cardOf[i] # OwnCard[p]

(* Why a merge completed a card: it was matched, it is the card of an issue the *)
(* body has named, or it is the pull request's own and no issue's.              *)
Accounted(e) ==
  \/ e[2] \in Matches
  \/ \E i \in said[e[1]] : cardOf[i] = e[2]
  \/ e[2] = OwnCard[e[1]] /\ e[1] \in triaged /\ \A i \in Issues : cardOf[i] # e[2]

Logged == \A e \in mergeLog : Accounted(e)

KeepInv == Traced(links) /\ Spoken /\ OwnUntouched /\ Logged

(* What is said and which card an issue has are never taken back, and an issue *)
(* gets its own card or the new card of a pull request.                        *)
Histories ==
  /\ \A p \in Prs : said[p] \subseteq said'[p]
  /\ triaged \subseteq triaged'
  /\ \A i \in Issues : \/ cardOf'[i] = cardOf[i]
                       \/ cardOf[i] = NoCard /\ cardOf'[i] = IssueCard[i]
                       \/ /\ cardOf[i] = NoCard
                          /\ \E p \in Prs : p \in triaged' \ triaged /\ cardOf'[i] = OwnCard[p]

LEMMA TriageNamesCards ==
  ASSUME IInv, NEW d \in matching, TriageCreates(d)
  PROVE  /\ Histories /\ d.pr \in Prs /\ d.pr \notin triaged
         /\ triaged' = triaged \cup {d.pr} /\ links[<<d.pr, Standalone>>] = NoRow
<1>1. d \in Delivery /\ d.pr \in Prs /\ d.pr \notin triaged
  BY DEF IInv, TypeOK, Delivery, TriageCreates, Triages
<1>2. /\ triaged' = triaged \cup {d.pr} /\ said' = said
      /\ links[<<d.pr, Standalone>>] = NoRow
  BY DEF TriageCreates, EndMatching, Triages
<1>3. FirstWritten(d) \subseteq Issues /\ cardOf \in [Issues -> Cards \cup {NoCard}]
  BY <1>1, DeliveryNamesIssues DEF IInv, TypeOK
<1>4. ASSUME NEW i \in Issues
      PROVE  cardOf'[i] = cardOf[i] \/ (cardOf[i] = NoCard /\ cardOf'[i] = OwnCard[d.pr])
  <2>1. CASE UNCHANGED cardOf
    BY <2>1
  <2>2. CASE \E j \in FirstWritten(d) :
               cardOf' = [cardOf EXCEPT ![j] = IF @ = NoCard THEN OwnCard[d.pr] ELSE @]
    <3>1. PICK j \in FirstWritten(d) :
               cardOf' = [cardOf EXCEPT ![j] = IF @ = NoCard THEN OwnCard[d.pr] ELSE @]
      BY <2>2
    <3>2. CASE i = j
      BY <1>3, <3>1, <3>2
    <3>3. CASE i # j
      BY <1>3, <3>1, <3>3
    <3>4. QED
      BY <3>2, <3>3
  <2>3. QED
    BY <2>1, <2>2 DEF TriageCreates
<1>5. d.pr \in triaged' \ triaged
  BY <1>1, <1>2
<1>6. QED
  BY <1>1, <1>2, <1>4, <1>5 DEF Histories

LEMMA ChangeIsSaid ==
  ASSUME TypeOK, NEW p \in Prs, GitHubStep(p)
  PROVE  /\ \A q \in Prs : said[q] \subseteq said'[q]
         /\ UNCHANGED <<service, matching, budget, regime>>
<1>1. ASSUME NEW kind, NEW state, NEW text, Change(p, kind, state, text)
      PROVE  /\ \A q \in Prs : said[q] \subseteq said'[q]
             /\ UNCHANGED <<service, matching, budget, regime>>
  BY <1>1 DEF Change, TypeOK
<1>2. QED
  BY <1>1 DEF GitHubStep, Open, Edit, Close, Reopen, Merge

LEMMA NextGrowsHistories ==
  ASSUME IInv, [Next]_vars PROVE Histories
<1>1. CASE UNCHANGED <<said, cardOf, triaged>>
  BY <1>1 DEF Histories
<1>2. CASE \E p \in Prs : GitHubStep(p)
  BY <1>2, ChangeIsSaid DEF Histories, service, IInv
<1>3. CASE \E d \in inbox : Handle(d)
  <2>1. UNCHANGED <<said, cardOf, triaged>>
    BY <1>3, HandleKeepsIInv DEF Served, Handle
  <2>2. QED
    BY <1>1, <2>1
<1>4. CASE \E d \in matching : Match(d)
  <2>1. PICK d \in matching : Match(d)
    BY <1>4
  <2>2. CASE TriageCreates(d)
    BY <2>2, TriageNamesCards
  <2>3. CASE UNCHANGED <<said, cardOf, triaged>>
    BY <1>1, <2>3
  <2>4. QED
    BY <2>1, <2>2, <2>3 DEF Match, FuzzyLink, TriageRefused, TriageSkips, EndMatching, service
<1>5. CASE \E i \in Issues : SyncIssue(i)
  <2>1. PICK i \in Issues : SyncIssue(i)
    BY <1>5
  <2>2. \A j \in Issues : \/ cardOf'[j] = cardOf[j]
                          \/ cardOf[j] = NoCard /\ cardOf'[j] = IssueCard[j]
    BY <2>1 DEF SyncIssue, IInv, TypeOK
  <2>3. UNCHANGED <<said, triaged>>
    BY <2>1 DEF SyncIssue
  <2>4. QED
    BY <2>2, <2>3 DEF Histories
<1>6. CASE \/ \E p \in Prs : Sweep(p) \/ CatchUp(p)
           \/ \E d \in inbox : Lose(d)
           \/ \E c \in Cards : MoveByHand(c)
           \/ UNCHANGED vars
  BY <1>1, <1>6 DEF Sweep, CatchUp, Lose, MoveByHand, vars, service
<1>7. QED
  BY <1>2, <1>3, <1>4, <1>5, <1>6 DEF Next

(* A row's origin outlasts what grows. *)
LEMMA TraceLasts ==
  ASSUME IInv, Histories, NEW k \in Keys, NEW row \in Row \cup {NoRow}, RowTraced(k, row)
  PROVE  RowTraced(k, row)'
<1>1. CASE row = NoRow
  BY <1>1 DEF RowTraced
<1>2. CASE row # NoRow /\ k[2] = Standalone
  BY <1>2 DEF RowTraced, Histories
<1>3. CASE row # NoRow /\ k[2] # Standalone
  <2>1. k[1] \in Prs /\ k[2] \in Issues
    BY <1>3 DEF Keys, Slots
  <2>2. row.card \in Cards /\ row.card = cardOf[k[2]]
    BY <1>3 DEF Row, RowTraced
  <2>3. cardOf'[k[2]] = cardOf[k[2]]
    BY <2>1, <2>2, RegistryAssumption DEF Histories
  <2>4. said[k[1]] \subseteq said'[k[1]]
    BY <2>1 DEF Histories
  <2>5. QED
    BY <1>3, <2>2, <2>3, <2>4 DEF RowTraced
<1>4. QED
  BY <1>1, <1>2, <1>3

LEMMA AccountLasts ==
  ASSUME IInv, Histories, NEW e \in Prs \X Cards, Accounted(e)
  PROVE  Accounted(e)'
<1>1. e[1] \in Prs /\ e[2] \in Cards
  OBVIOUS
<1>2. CASE e[2] \in Matches
  BY <1>2 DEF Accounted
<1>3. CASE \E i \in said[e[1]] : cardOf[i] = e[2]
  <2>1. PICK i \in said[e[1]] : cardOf[i] = e[2]
    BY <1>3
  <2>2. i \in Issues /\ i \in said'[e[1]]
    BY <1>1 DEF IInv, TypeOK, Histories
  <2>3. cardOf'[i] = cardOf[i]
    BY <1>1, <2>1, <2>2, RegistryAssumption DEF Histories
  <2>4. QED
    BY <2>1, <2>2, <2>3 DEF Accounted
<1>4. CASE e[2] = OwnCard[e[1]] /\ e[1] \in triaged /\ \A i \in Issues : cardOf[i] # e[2]
  <2>1. ASSUME NEW i \in Issues PROVE cardOf'[i] # e[2]
    <3>1. CASE cardOf'[i] = cardOf[i]
      BY <1>4, <3>1
    <3>2. CASE cardOf'[i] = IssueCard[i]
      BY <1>1, <1>4, <3>2, LinksAssumption
    <3>3. CASE \E p \in Prs : p \in triaged' \ triaged /\ cardOf'[i] = OwnCard[p]
      BY <1>1, <1>4, <3>3, LinksAssumption
    <3>4. QED
      BY <3>1, <3>2, <3>3 DEF Histories
  <2>2. e[1] \in triaged'
    BY <1>4 DEF Histories
  <2>3. QED
    BY <1>4, <2>1, <2>2 DEF Accounted
<1>5. QED
  BY <1>2, <1>3, <1>4 DEF Accounted

LEMMA TableLasts ==
  ASSUME IInv, Histories, NEW u \in Table, Traced(u)
  PROVE  u = links' => Traced(links)'
<1>1. \A k \in Keys : u[k] \in Row \cup {NoRow} /\ RowTraced(k, u[k])
  BY DEF Table, Traced
<1>2. \A k \in Keys : RowTraced(k, u[k])'
  BY <1>1, TraceLasts
<1>3. QED
  BY <1>2 DEF Traced

LEMMA FuzzyLinkTraces ==
  ASSUME IInv, Traced(links), NEW d \in matching, NEW c \in Matches, FuzzyLink(d, c)
  PROVE  Traces(d) /\ \A k \in Keys : links'[k].stamp = links[k].stamp /\ (Live(links[k]) => Live(links'[k]))
<1> DEFINE k == <<d.pr, Standalone>>
           row == Upserted(links[k], c, "auto_link")
<1>1. d \in Delivery /\ d.pr \in Prs /\ c \in Cards /\ k \in Keys /\ k[2] = Standalone /\ k[1] = d.pr
  BY LinksAssumption DEF IInv, TypeOK, Delivery, Keys, Slots
<1>2. links[k] \in Row \cup {NoRow} /\ RowTraced(k, links[k])
  BY <1>1, KeysAreRead DEF IInv, Traced
<1>3. links' = [links EXCEPT ![k] = row] /\ links \in Table
  BY DEF FuzzyLink, IInv, Sound
<1>4. \A j \in Keys : links'[j] = IF j = k THEN row ELSE links[j]
  BY <1>3 DEF Table
<1>5. RowTraced(k, row) /\ row.stamp = links[k].stamp /\ (Live(links[k]) => Live(row))
  <2>1. CASE links[k] = NoRow
    <3>1. row = [source |-> "auto_link", card |-> c, merged |-> FALSE, withdrawn |-> FALSE, stamp |-> 0]
      BY <2>1 DEF Upserted, NoRow
    <3>2. RowTraced(k, row)
      BY <1>1, <3>1 DEF RowTraced
    <3>3. row # NoRow
      BY <3>1 DEF NoRow
    <3>4. Live(row)
      BY <3>1, <3>3 DEF Live, Active
    <3>5. row.stamp = links[k].stamp
      BY <2>1, <3>1 DEF NoRow
    <3>6. QED
      BY <3>2, <3>4, <3>5
  <2>2. CASE links[k] # NoRow /\ row = links[k]
    BY <1>2, <2>2
  <2>3. CASE links[k] # NoRow /\ row # links[k]
    <3>1. ~StaysSuperseded(links[k].source, "auto_link")
      BY <2>3 DEF Upserted
    <3>2. ~DeclinesRepoint(links[k].source, "auto_link", links[k].card = c)
      BY <2>3 DEF Upserted
    <3>3. links[k].source = "auto_link"
      <4>1. links[k].source # Superseded
        BY <3>1 DEF StaysSuperseded, UnSuperseding
      <4>2. CASE links[k].card \in Matches /\ links[k].source \in {"auto_link", Superseded}
        BY <4>1, <4>2
      <4>3. CASE links[k].card = OwnCard[d.pr] /\ links[k].source \in PrOwned \cup {Superseded}
        <5>1. links[k].card # c
          BY <1>1, <4>3, LinksAssumption
        <5>2. QED
          BY <3>2, <4>1, <4>3, <5>1 DEF DeclinesRepoint, PrOwned
      <4>4. QED
        BY <1>1, <1>2, <2>3, <4>2, <4>3 DEF RowTraced
    <3>4. KeptSource(links[k].source, "auto_link", links[k].card = c) = "auto_link"
      BY <3>3 DEF KeptSource, PrOwned
    <3>5. row = [links[k] EXCEPT !.source = "auto_link", !.card = c, !.merged = FALSE, !.withdrawn = FALSE]
      BY <2>3, <3>4 DEF Upserted
    <3>6. links[k] \in Row
      BY <1>2, <2>3
    <3>7. /\ row.source = "auto_link" /\ row.card = c /\ row.merged = FALSE /\ row.withdrawn = FALSE
          /\ row.stamp = links[k].stamp
      BY <3>5, <3>6 DEF Row
    <3>8. RowTraced(k, row)
      BY <1>1, <3>7 DEF RowTraced
    <3>9. row # NoRow
      BY <3>7 DEF NoRow
    <3>10. Live(row)
      BY <3>7, <3>9 DEF Live, Active
    <3>11. QED
      BY <3>7, <3>8, <3>10
  <2>4. QED
    BY <2>1, <2>2, <2>3
<1> HIDE DEF row
<1>6. Elsewhere(links, links', d.pr)
  BY <1>1, <1>4 DEF Elsewhere
<1>7. Traced(links')
  BY <1>4, <1>5 DEF Traced
<1>8. QED
  BY <1>4, <1>5, <1>6, <1>7 DEF Traces

LEMMA TriageTraces ==
  ASSUME IInv, Traced(links), NEW d \in matching, TriageCreates(d)
  PROVE  /\ Traced(links)' /\ Elsewhere(links, links', d.pr)
         /\ \A k \in Keys : links'[k].stamp = links[k].stamp /\ (Live(links[k]) => Live(links'[k]))
<1>1. PICK k : k = <<d.pr, Standalone>>
  OBVIOUS
<1>2. PICK row : row = [NoRow EXCEPT !.source = "pr_task_created", !.card = OwnCard[d.pr]]
  OBVIOUS
<1>3. PICK t : t = links
  OBVIOUS
<1>4. /\ Histories /\ d.pr \in Prs /\ d.pr \in triaged' /\ links[k] = NoRow
      /\ k \in Keys /\ k[2] = Standalone /\ k[1] = d.pr
  BY <1>1, TriageNamesCards DEF Keys, Slots
<1>5. links' = [links EXCEPT ![k] = row] /\ links \in Table
  BY <1>1, <1>2 DEF TriageCreates, IInv, Sound
<1>6. \A j \in Keys : links'[j] = IF j = k THEN row ELSE links[j]
  BY <1>5 DEF Table
<1>7. row = [source |-> "pr_task_created", card |-> OwnCard[d.pr], merged |-> FALSE,
             withdrawn |-> FALSE, stamp |-> 0]
  BY <1>2 DEF NoRow
<1>8. RowTraced(k, row)'
  BY <1>4, <1>7 DEF RowTraced, PrOwned
<1>9. row # NoRow
  BY <1>7 DEF NoRow
<1>10. Live(row) /\ row.stamp = links[k].stamp
  BY <1>4, <1>7, <1>9 DEF Live, Active, NoRow
<1>11. \A j \in Keys : RowTraced(j, t[j])'
  BY <1>3, <1>4, TraceLasts, KeysAreRead DEF IInv, Traced
<1>12. \A j \in Keys : RowTraced(j, links[j])'
  BY <1>3, <1>6, <1>8, <1>11
<1>13. QED
  BY <1>4, <1>6, <1>10, <1>12 DEF Traced, Elsewhere

LEMMA NextKeepsTraced ==
  ASSUME IInv, KeepInv, [Next]_vars PROVE Traced(links)'
<1>0. Histories /\ Traced(links) /\ Sound(links)
  BY NextGrowsHistories DEF IInv, KeepInv
<1>1. CASE UNCHANGED links
  <2>1. PICK u : u = links
    OBVIOUS
  <2>2. u \in Table /\ Traced(u)
    BY <1>0, <2>1 DEF Sound
  <2>3. u = links' => Traced(links)'
    BY <1>0, <2>2, TableLasts
  <2>4. QED
    BY <1>1, <2>1, <2>3
<1>2. ASSUME Sound(links'), Traced(links') PROVE Traced(links)'
  <2>1. PICK u : u = links'
    OBVIOUS
  <2>2. u \in Table /\ Traced(u)
    BY <1>2, <2>1 DEF Sound
  <2>3. u = links' => Traced(links)'
    BY <1>0, <2>2, TableLasts
  <2>4. QED
    BY <2>1, <2>3
<1>3. CASE \E d \in inbox : Handle(d)
  <2>1. PICK d \in inbox : Handle(d)
    BY <1>3
  <2>2. d \in Delivery /\ d.text.body \subseteq said[d.pr] /\ Dispatch(d)
    BY <2>1 DEF Handle, IInv, TypeOK, KeepInv, Spoken
  <2>3. Traced(links') /\ Sound(links')
    BY <1>0, <2>1, <2>2, DispatchTraces, HandleKeepsIInv DEF Traces, Served
  <2>4. QED
    BY <1>2, <2>3
<1>4. CASE \E d \in matching : Match(d)
  <2>1. PICK d \in matching : Match(d)
    BY <1>4
  <2>2. CASE TriageCreates(d)
    BY <1>0, <2>2, TriageTraces
  <2>3. CASE \E c \in regime.matches : FuzzyLink(d, c)
    <3>1. PICK c \in Matches : FuzzyLink(d, c)
      BY <2>3, RegimeIsTyped DEF IInv
    <3>2. Traced(links')
      BY <1>0, <3>1, FuzzyLinkTraces DEF Traces
    <3>3. Sound(links')
      BY <3>1, FuzzyLinkKeepsIInv DEF IInv
    <3>4. QED
      BY <1>2, <3>2, <3>3
  <2>4. CASE TriageRefused(d) \/ TriageSkips(d)
    BY <1>1, <2>4 DEF TriageRefused, TriageSkips, service
  <2>5. QED
    BY <2>1, <2>2, <2>3, <2>4 DEF Match
<1>5. CASE \E p \in Prs : GitHubStep(p)
  BY <1>1, <1>5, ChangeIsSaid DEF service, IInv
<1>6. CASE \/ \E p \in Prs : Sweep(p) \/ CatchUp(p)
           \/ \E d \in inbox : Lose(d)
           \/ \E i \in Issues : SyncIssue(i)
           \/ \E c \in Cards : MoveByHand(c)
           \/ UNCHANGED vars
  BY <1>1, <1>6 DEF Sweep, CatchUp, Lose, MoveByHand, SyncIssue, vars, service
<1>7. QED
  BY <1>3, <1>4, <1>5, <1>6 DEF Next

-----------------------------------------------------------------------------
LEMMA ChangeIsSpoken ==
  ASSUME IInv, KeepInv, NEW p \in Prs, NEW kind, NEW state, NEW text \in Statements,
         Change(p, kind, state, text)
  PROVE  Spoken'
<1>1. /\ github' = [github EXCEPT ![p] = [state |-> state, text |-> text, at |-> @.at + 1]]
      /\ inbox' = inbox \cup {[pr |-> p, kind |-> kind, state |-> state, text |-> text,
                               at |-> github[p].at + 1]}
      /\ said' = [said EXCEPT ![p] = @ \cup text.body]
      /\ matching' = matching
  BY DEF Change
<1>2. /\ said'[p] = said[p] \cup text.body
      /\ \A q \in Prs : said[q] \subseteq said'[q]
      /\ \A d \in inbox \cup matching : d.pr \in Prs
  BY <1>1 DEF IInv, TypeOK, Delivery
<1>3. \A d \in (inbox \cup matching)' : d.text.body \subseteq said'[d.pr]
  <2> SUFFICES ASSUME NEW d \in inbox' \cup matching' PROVE d.text.body \subseteq said'[d.pr]
    OBVIOUS
  <2>1. CASE d \in inbox \cup matching
    BY <1>2, <2>1 DEF KeepInv, Spoken
  <2>2. CASE d \notin inbox \cup matching
    <3>1. d.pr = p /\ d.text = text
      BY <1>1, <2>2
    <3>2. QED
      BY <1>2, <3>1
  <2>3. QED
    BY <2>1, <2>2
<1>4. ASSUME NEW q \in Prs, github'[q].state # "none"
      PROVE  github'[q].text.body \subseteq said'[q]
  <2>1. CASE q = p
    <3>1. github'[q].text = text
      BY <1>1, <2>1 DEF IInv, TypeOK
    <3>2. QED
      BY <1>2, <2>1, <3>1
  <2>2. CASE q # p
    <3>1. github'[q] = github[q]
      BY <1>1, <2>2 DEF IInv, TypeOK
    <3>2. QED
      BY <1>2, <1>4, <3>1 DEF KeepInv, Spoken
  <2>3. QED
    BY <2>1, <2>2
<1>5. QED
  BY <1>3, <1>4 DEF Spoken

LEMMA FollowUpSaysTheSame ==
  ASSUME NEW d \in Delivery
  PROVE  \A e \in FollowUp(d) : e.pr = d.pr /\ e.text = d.text
BY DEF FollowUp, Delivery

LEMMA NextKeepsSpoken ==
  ASSUME IInv, KeepInv, [Next]_vars PROVE Spoken'
<1>0. /\ \A d \in inbox \cup matching : d \in Delivery /\ d.pr \in Prs
      /\ \A p \in Prs : github[p].text \in Statements
  BY DEF IInv, TypeOK, Delivery
<1>1. CASE /\ \A d \in inbox' \cup matching' :
                \E e \in inbox \cup matching : d.pr = e.pr /\ d.text = e.text
           /\ UNCHANGED <<github, said>>
  BY <1>1 DEF KeepInv, Spoken
<1>2. CASE \E p \in Prs : GitHubStep(p)
  BY <1>0, <1>2, ChangeIsSpoken, RegimeIsTyped
  DEF GitHubStep, Open, Edit, Close, Reopen, Merge, IInv
<1>3. CASE \E p \in Prs : Sweep(p) \/ CatchUp(p)
  <2>1. PICK p \in Prs, kind \in {"sweep", "replayed"} :
             /\ github[p].state # "none" /\ inbox' = inbox \cup {Snapshot(p, kind)}
             /\ UNCHANGED <<github, said, matching>>
    BY <1>3 DEF Sweep, CatchUp
  <2>2. Snapshot(p, kind).text = github[p].text /\ Snapshot(p, kind).pr = p
    BY DEF Snapshot
  <2>3. QED
    BY <2>1, <2>2 DEF KeepInv, Spoken
<1>4. CASE \E d \in inbox : Handle(d)
  <2>1. PICK d \in inbox : Handle(d)
    BY <1>4
  <2>2. /\ inbox' \subseteq inbox \cup FollowUp(d)
        /\ UNCHANGED <<github, said>>
    BY <2>1 DEF Handle
  <2>3. matching' \subseteq matching \cup {d}
    BY <2>1 DEF Handle, Dispatch, HandleSweep, HandleOpened, HandleEdited, OpenPipeline,
                HandleClosedWithoutMerge, HandleMerged
  <2>4. QED
    BY <1>0, <1>1, <2>2, <2>3, FollowUpSaysTheSame
<1>5. CASE \E d \in matching : Match(d)
  <2>1. PICK d \in matching : Match(d)
    BY <1>5
  <2>2. EndMatching(d)
    BY <2>1 DEF Match, FuzzyLink, TriageCreates, TriageRefused, TriageSkips
  <2>3. /\ inbox' \subseteq inbox \cup FollowUp(d) /\ matching' \subseteq matching
        /\ UNCHANGED <<github, said>>
    BY <2>2 DEF EndMatching
  <2>4. QED
    BY <1>0, <1>1, <2>3, FollowUpSaysTheSame
<1>6. CASE \/ \E d \in inbox : Lose(d)
           \/ \E i \in Issues : SyncIssue(i)
           \/ \E c \in Cards : MoveByHand(c)
           \/ UNCHANGED vars
  BY <1>1, <1>6 DEF Lose, MoveByHand, SyncIssue, vars
<1>7. QED
  BY <1>2, <1>3, <1>4, <1>5, <1>6 DEF Next

-----------------------------------------------------------------------------
(* Only a merge is logged, with the cards that are due. *)
LEMMA NextLogsWhatIsDue ==
  ASSUME IInv, [Next]_vars, NEW e \in mergeLog' \ mergeLog
  PROVE  \E d \in inbox : Handle(d) /\ e[1] = d.pr /\ e[2] \in DueCards(d) /\ links' = MergedTable(d)
<1>0. mergeLog' # mergeLog
  OBVIOUS
<1>1. PICK d \in inbox : Handle(d)
  <2>1. ~(\E p \in Prs : GitHubStep(p) \/ Sweep(p) \/ CatchUp(p))
    BY <1>0, ChangeIsSaid DEF Sweep, CatchUp, service, IInv
  <2>2. ~(\E d \in matching : Match(d))
    BY <1>0 DEF Match, FuzzyLink, TriageCreates, TriageRefused, TriageSkips, service
  <2>3. /\ ~(\E d \in inbox : Lose(d)) /\ ~(\E i \in Issues : SyncIssue(i))
        /\ ~(\E c \in Cards : MoveByHand(c)) /\ ~UNCHANGED vars
    BY <1>0 DEF Lose, SyncIssue, MoveByHand, service, vars
  <2>4. QED
    BY <2>1, <2>2, <2>3 DEF Next
<1>2. HandleMerged(d)
  <2>1. Dispatch(d)
    BY <1>1 DEF Handle
  <2>2. QED
    BY <1>0, <2>1 DEF Dispatch, HandleSweep, HandleOpened, HandleEdited, OpenPipeline,
                      HandleClosedWithoutMerge, service
<1>3. PICK refused \in SUBSET DueCards(d) : mergeLog' = mergeLog \cup ({d.pr} \X (DueCards(d) \ refused))
  BY <1>2 DEF HandleMerged
<1>4. e[1] = d.pr /\ e[2] \in DueCards(d)
  BY <1>3
<1>5. QED
  BY <1>1, <1>2, <1>4 DEF HandleMerged

(* A card that is due was linked by its pull request or is an issue's. *)
LEMMA DueIsAccounted ==
  ASSUME IInv, KeepInv, NEW d \in inbox, NEW c \in DueCards(d)
  PROVE  /\ Accounted(<<d.pr, c>>)
         /\ \A p \in Prs : p \notin triaged => c # OwnCard[p]
<1>1. /\ d \in Delivery /\ d.text.body \subseteq said[d.pr] /\ d.pr \in Prs
      /\ d.text.body \subseteq Issues /\ Written(d) \subseteq Issues
  BY DeliveryNamesIssues DEF IInv, TypeOK, KeepInv, Spoken
<1>2. Traced(LinkedAtMerge(d)) /\ Sound(LinkedAtMerge(d))
  BY <1>1, LinkedAtMergeGrows, MergedIsSound DEF IInv, KeepInv, Grows
<1>3. ASSUME NEW r \in MergedRows(d)
      PROVE  \E s \in Slots : r = LinkedAtMerge(d)[<<d.pr, s>>] /\ r # NoRow /\ r.source # Superseded
                              /\ RowTraced(<<d.pr, s>>, r)
  <2>1. PICK k \in NewlyMerged(LinkedAtMerge(d), d.pr) : r = LinkedAtMerge(d)[k]
    BY DEF MergedRows
  <2>2. k \in Keys /\ k[1] = d.pr /\ k = <<k[1], k[2]>> /\ k[2] \in Slots
    BY <2>1 DEF NewlyMerged, Keys
  <2>3. r # NoRow /\ r.source # Superseded
    BY <2>1 DEF NewlyMerged
  <2>4. RowTraced(k, r)
    BY <1>2, <2>1, <2>2 DEF Traced
  <2>5. k = <<d.pr, k[2]>>
    BY <2>2
  <2>6. QED
    BY <2>1, <2>2, <2>3, <2>4, <2>5
<1>4. ASSUME NEW i \in HasCard(d.text.body), c = cardOf[i] PROVE Accounted(<<d.pr, c>>)
  <2>1. i \in said[d.pr]
    BY <1>1 DEF HasCard
  <2>2. QED
    BY <1>4, <2>1 DEF Accounted
<1>5. ASSUME NEW r \in MergedRows(d), r.card = c, r.source \notin Weak, c \notin ClaimedElsewhere(d)
      PROVE  Accounted(<<d.pr, c>>)
  <2>1. PICK s \in Slots : r # NoRow /\ r.source # Superseded /\ RowTraced(<<d.pr, s>>, r)
    BY <1>3
  <2>2. CASE s = Standalone
    <3>1. CASE r.card \in Matches
      BY <1>5, <3>1 DEF Accounted
    <3>2. CASE r.card = OwnCard[d.pr] /\ d.pr \in triaged /\ r.source \in PrOwned
      <4>1. \A i \in Issues \ d.text.body : cardOf[i] # c
        BY <1>5, <3>2 DEF ClaimedElsewhere
      <4>2. CASE \E i \in Issues : cardOf[i] = c
        <5>1. PICK i \in Issues : cardOf[i] = c
          BY <4>2
        <5>2. i \in said[d.pr]
          BY <1>1, <4>1, <5>1
        <5>3. QED
          BY <5>1, <5>2 DEF Accounted
      <4>3. CASE \A i \in Issues : cardOf[i] # c
        BY <1>5, <3>2, <4>3 DEF Accounted
      <4>4. QED
        BY <4>2, <4>3
    <3>3. QED
      BY <2>1, <2>2, <3>1, <3>2 DEF RowTraced
  <2>3. CASE s # Standalone
    <3>1. r.card = cardOf[s] /\ r.source = "issue_keyword" /\ s \in said[d.pr]
      BY <1>5, <2>1, <2>3 DEF RowTraced, UnSuperseding, Weak
    <3>2. QED
      BY <1>5, <3>1 DEF Accounted
  <2>4. QED
    BY <2>2, <2>3
<1>6. c \in AffectedCards(d) /\ c \in StatedCards(d)
  BY DEF DueCards
<1>7. Accounted(<<d.pr, c>>)
  <2>1. CASE \E i \in HasCard(d.text.body) : c = cardOf[i]
    BY <1>4, <2>1
  <2>2. CASE \E r \in MergedRows(d) : r.card = c /\ r.source \notin Weak /\ c \notin ClaimedElsewhere(d)
    BY <1>5, <2>2
  <2>3. QED
    BY <1>6, <2>1, <2>2 DEF StatedCards
<1>8. ASSUME NEW p \in Prs, p \notin triaged PROVE c # OwnCard[p]
  <2>1. \A i \in Issues : cardOf[i] # OwnCard[p]
    BY <1>8 DEF KeepInv, OwnUntouched
  <2>2. CASE \E i \in HasCard(Written(d)) : c = cardOf[i]
    BY <1>1, <2>1, <2>2 DEF HasCard
  <2>3. ASSUME NEW r \in MergedRows(d), r.card = c PROVE c # OwnCard[p]
    <3>1. PICK s \in Slots : r # NoRow /\ r.source # Superseded /\ RowTraced(<<d.pr, s>>, r)
      BY <1>3
    <3>2. CASE s = Standalone
      <4>1. \/ r.card \in Matches
            \/ r.card = OwnCard[d.pr] /\ d.pr \in triaged
        BY <3>1, <3>2 DEF RowTraced
      <4>2. QED
        BY <1>1, <1>8, <2>3, <4>1, LinksAssumption
    <3>3. CASE s # Standalone
      <4>1. s \in Issues /\ r.card = cardOf[s]
        BY <3>1, <3>3 DEF RowTraced, Slots
      <4>2. QED
        BY <2>1, <2>3, <4>1
    <3>4. QED
      BY <3>2, <3>3
  <2>4. QED
    BY <1>6, <2>2, <2>3 DEF AffectedCards
<1>9. QED
  BY <1>7, <1>8

LEMMA NextKeepsLogged ==
  ASSUME IInv, KeepInv, [Next]_vars PROVE Logged'
<1>0. Histories /\ IInv'
  BY NextGrowsHistories, NextKeepsIInv DEF IInv, vars, TypeOK, OwnCardIsKept
<1>1. ASSUME NEW e \in mergeLog' PROVE Accounted(e)
  <2>1. CASE e \in mergeLog
    BY <2>1 DEF KeepInv, Logged
  <2>2. CASE e \notin mergeLog
    <3>1. PICK d \in inbox : e[1] = d.pr /\ e[2] \in DueCards(d)
      BY <2>2, NextLogsWhatIsDue
    <3>2. Accounted(<<d.pr, e[2]>>)
      BY <3>1, DueIsAccounted
    <3>3. QED
      BY <3>1, <3>2 DEF Accounted
  <2>3. QED
    BY <2>1, <2>2
<1>2. \A e \in Prs \X Cards : Accounted(e) => Accounted(e)'
  BY <1>0, AccountLasts
<1>3. PICK log : log = mergeLog'
  OBVIOUS
<1>4. \A e \in log : e \in Prs \X Cards /\ Accounted(e)
  BY <1>0, <1>1, <1>3 DEF IInv, TypeOK
<1>5. \A e \in log : Accounted(e)'
  BY <1>2, <1>4
<1>6. QED
  BY <1>3, <1>5 DEF Logged

LEMMA NextKeepsOwnUntouched ==
  ASSUME IInv, KeepInv, [Next]_vars PROVE OwnUntouched'
<1>0. Histories
  BY NextGrowsHistories
<1> SUFFICES ASSUME NEW p \in Prs, p \notin triaged'
             PROVE  board'[OwnCard[p]] # "completed" /\ \A i \in Issues : cardOf'[i] # OwnCard[p]
  BY DEF OwnUntouched
<1>1. p \notin triaged /\ OwnCard[p] \in Cards
  BY <1>0, LinksAssumption DEF Histories
<1>2. board[OwnCard[p]] # "completed" /\ \A i \in Issues : cardOf[i] # OwnCard[p]
  BY <1>1 DEF KeepInv, OwnUntouched
<1>3. ASSUME NEW i \in Issues PROVE cardOf'[i] # OwnCard[p]
  BY <1>0, <1>2, LinksAssumption DEF Histories
<1>4. ASSUME board'[OwnCard[p]] = "completed" PROVE FALSE
  <2>1. Next
    BY <1>2, <1>4 DEF vars
  <2>2. PICK q \in Prs : <<q, OwnCard[p]>> \in mergeLog' \ mergeLog
    BY <1>1, <1>2, <1>4, <2>1, NextKeepsIInv DEF CompletesLogged
  <2>3. PICK d \in inbox : OwnCard[p] \in DueCards(d)
    BY <2>2, NextLogsWhatIsDue
  <2>4. QED
    BY <1>1, <2>3, DueIsAccounted
<1>5. QED
  BY <1>3, <1>4

LEMMA KeepInvariance == Spec => [](IInv /\ KeepInv)
<1>1. ASSUME Init PROVE KeepInv
  <2>1. \A k \in Keys : links[k] = NoRow
    BY <1>1 DEF Init
  <2>2. Traced(links) /\ Spoken /\ Logged
    BY <1>1, <2>1 DEF Init, Traced, RowTraced, Spoken, Logged
  <2>3. OwnUntouched
    BY <1>1, LinksAssumption, RegistryAssumption DEF Init, OwnUntouched
  <2>4. QED
    BY <2>2, <2>3 DEF KeepInv
<1>2. IInv /\ KeepInv /\ [Next]_vars => KeepInv'
  BY NextKeepsTraced, NextKeepsSpoken, NextKeepsLogged, NextKeepsOwnUntouched DEF KeepInv
<1>3. QED
  BY <1>1, <1>2, InitIsSound, Invariance, PTL DEF Spec

-----------------------------------------------------------------------------
(* No handler takes a completion back, unless the pull request is new. *)
Uncompletes(bd, new) == \E c \in Cards : bd[c] = "completed" /\ new[c] # "completed"

LEMMA LateAskingKeeps ==
  ASSUME NEW bd, NEW cs, NEW late, late PROVE ~Uncompletes(bd, AskForQa(bd, cs, late))
BY DEF Uncompletes, AskForQa, LateNeedsQa

LEMMA RewindingKeeps ==
  ASSUME NEW bd, NEW cs PROVE ~Uncompletes(bd, OutOfReview(bd, cs))
BY DEF Uncompletes, OutOfReview

LEMMA KeepsIsTransitive ==
  ASSUME NEW bd, NEW mid, NEW new, ~Uncompletes(bd, mid), ~Uncompletes(mid, new)
  PROVE  ~Uncompletes(bd, new)
BY DEF Uncompletes

LEMMA LatePipelineKeeps ==
  ASSUME NEW d, Late(d), NEW t, NEW bd, ~Uncompletes(board, bd), OpenPipeline(t, bd, d)
  PROVE  ~Uncompletes(board, board')
BY LateAskingKeeps, KeepsIsTransitive DEF OpenPipeline

LEMMA LateEditingKeeps ==
  ASSUME NEW d, Late(d), HandleEdited(d) PROVE ~Uncompletes(board, board')
<1> DEFINE live == EnsureLinksLive(links, d)
           bd == ReconciledBoard(live, d)
<1>1. \A cs, rw : ~Uncompletes(board, OutOfReview(AskForQa(board, cs, TRUE), rw))
  BY LateAskingKeeps, RewindingKeeps, KeepsIsTransitive
<1>2. ~Uncompletes(board, board)
  BY DEF Uncompletes
<1>3. ~Uncompletes(board, bd)
  BY <1>1, <1>2 DEF ReconciledBoard
<1>4. \/ board' = board
      \/ board' = bd
      \/ OpenPipeline(Reconciled(live, d), bd, d)
  BY DEF HandleEdited, service
<1> HIDE DEF bd
<1>5. QED
  BY <1>2, <1>3, <1>4, LatePipelineKeeps

LEMMA LateDispatchKeeps ==
  ASSUME NEW d, Late(d), Dispatch(d) PROVE ~Uncompletes(board, board')
<1>1. CASE HandleOpened(d)
  <2>1. ~Uncompletes(board, board)
    BY DEF Uncompletes
  <2>2. QED
    BY <1>1, <2>1, LatePipelineKeeps DEF HandleOpened
<1>2. CASE HandleEdited(d)
  BY <1>2, LateEditingKeeps
<1>3. CASE HandleClosedWithoutMerge(d)
  BY <1>3, RewindingKeeps DEF HandleClosedWithoutMerge
<1>4. CASE HandleMerged(d)
  BY <1>4 DEF HandleMerged, Uncompletes
<1>5. CASE UNCHANGED service
  BY <1>5 DEF service, Uncompletes
<1>6. QED
  BY <1>1, <1>2, <1>3, <1>4, <1>5 DEF Dispatch, HandleSweep

LEMMA LateMatchKeeps ==
  ASSUME IInv, KeepInv, NEW d \in matching, Late(d), Match(d) PROVE ~Uncompletes(board, board')
<1>1. ASSUME NEW c, FuzzyLink(d, c) PROVE ~Uncompletes(board, board')
  <2>1. board' = board \/ board' = AskForQa(board, {c}, Late(d))
    BY <1>1 DEF FuzzyLink
  <2>2. QED
    BY ZenonT(60), <2>1, LateAskingKeeps DEF Uncompletes
<1>2. CASE TriageCreates(d)
  <2>1. d.pr \in Prs /\ d.pr \notin triaged
    BY <1>2, TriageNamesCards
  <2>2. board[OwnCard[d.pr]] # "completed"
    BY <2>1 DEF KeepInv, OwnUntouched
  <2>3. board' = [board EXCEPT ![OwnCard[d.pr]] = "needs_qa"] /\ board \in [Cards -> Places]
    BY <1>2 DEF TriageCreates, IInv, TypeOK
  <2>4. QED
    BY <2>2, <2>3 DEF Uncompletes
<1>3. CASE UNCHANGED service
  BY <1>3 DEF service, Uncompletes
<1>4. QED
  BY <1>1, <1>2, <1>3 DEF Match, TriageRefused, TriageSkips

(* The pull request's first snapshot is gone once it is handled or matched. *)
LEMMA FirstIsSpent ==
  ASSUME NEW d, ~Late(d)
  PROVE  /\ d \in inbox /\ Handle(d) => d \in inbox \ inbox'
         /\ d \in matching /\ Match(d) => d \in matching \ matching'
<1>1. FollowUp(d) = {}
  BY DEF FollowUp, Late
<1>2. QED
  BY <1>1 DEF Handle, Match, FuzzyLink, TriageCreates, TriageRefused, TriageSkips, EndMatching

Verdict ==
  \A c \in Cards : board[c] = "completed" /\ board'[c] # "completed" =>
    \/ budget'.byHand < budget.byHand
    \/ \E d \in (inbox \ inbox') \cup (matching \ matching') : d.kind = "opened"

LEMMA NextKeepsVerdicts == ASSUME IInv, KeepInv, Next PROVE Verdict
<1>1. CASE ~Uncompletes(board, board')
  BY <1>1 DEF Uncompletes, Verdict
<1>2. CASE \E d \in inbox : Handle(d)
  <2>1. PICK d \in inbox : Handle(d)
    BY <1>2
  <2>2. CASE Late(d)
    BY <1>1, <2>1, <2>2, LateDispatchKeeps DEF Handle
  <2>3. CASE ~Late(d)
    BY <2>1, <2>3, FirstIsSpent DEF Late, Verdict
  <2>4. QED
    BY <2>2, <2>3
<1>3. CASE \E d \in matching : Match(d)
  <2>1. PICK d \in matching : Match(d)
    BY <1>3
  <2>2. CASE Late(d)
    BY <1>1, <2>1, <2>2, LateMatchKeeps
  <2>3. CASE ~Late(d)
    BY <2>1, <2>3, FirstIsSpent DEF Late, Verdict
  <2>4. QED
    BY <2>2, <2>3
<1>4. CASE \E c \in Cards : MoveByHand(c)
  <2>1. budget.byHand \in Nat /\ budget.byHand > 0 /\ budget' = [budget EXCEPT !.byHand = @ - 1]
    BY <1>4 DEF MoveByHand, IInv, TypeOK, Budget
  <2>2. budget'.byHand = budget.byHand - 1
    BY <2>1 DEF IInv, TypeOK, Budget
  <2>3. QED
    BY <2>1, <2>2 DEF Verdict
<1>5. CASE UNCHANGED board
  BY <1>1, <1>5 DEF Uncompletes
<1>6. CASE \E p \in Prs : GitHubStep(p)
  BY <1>5, <1>6, ChangeIsSaid DEF service, IInv
<1>7. CASE \/ \E p \in Prs : Sweep(p) \/ CatchUp(p)
           \/ \E d \in inbox : Lose(d)
           \/ \E i \in Issues : SyncIssue(i)
  BY <1>5, <1>7 DEF Sweep, CatchUp, Lose, SyncIssue, service
<1>8. QED
  BY <1>2, <1>3, <1>4, <1>6, <1>7 DEF Next

-----------------------------------------------------------------------------
(* Told everything in order.  past is the history of a pull request's state: *)
(* past[a] is its state after a changes.  Everything up to h is handled,     *)
(* what is pending comes after, and the rows say what past[h] says.          *)

(* A pull request's next state: nothing follows a merge, and only what is *)
(* open or closed can be closed.                                          *)
Legal(v, w) == v # "merged" /\ (w = "closed" => v \in {"open", "closed"})

(* What a snapshot of p says of p's past. *)
TellsPast(d, past) ==
  /\ d.state = past[d.at] /\ d.state # "none" /\ d.kind # "replayed"
  /\ d.kind \in {"opened", "reopened"} => d.state = "open"
  /\ d.kind = "closed" => d.state # "open"
  /\ d.kind = "edited" => d.at # 0 /\ past[d.at - 1] = d.state

Told(p, past, h) ==
  /\ h <= github[p].at /\ past[github[p].at] = github[p].state
  /\ \A a \in Nat : a < github[p].at => Legal(past[a], past[a + 1])
  /\ Agrees(links, p, past[h], h)
  /\ \A d \in Pending(p) : h <= d.at /\ d.at <= github[p].at /\ TellsPast(d, past)
  /\ \A a \in Nat : h < a /\ a <= github[p].at => \E d \in Pending(p) : d.at = a
  /\ \A d \in Matching(p) : d.at = h /\ past[h] = "open" /\ d.kind # "replayed"

IsTold(p) == \E past \in [Nat -> PrStates] : \E h \in Nat : Told(p, past, h)

ToldInv ==
  ToldInOrder => budget.restarts = 0 /\ budget.lost = 0 /\ \A p \in Prs : IsTold(p)

LEMMA InitIsTold == ASSUME Init PROVE ToldInv
<1> SUFFICES ASSUME ToldInOrder, NEW p \in Prs PROVE IsTold(p)
  BY DEF ToldInv, ToldInOrder, Init
<1>1. PICK past \in [Nat -> PrStates] : past = [a \in Nat |-> "none"]
  BY DEF PrStates
<1>2. \A s \in Slots : links[<<p, s>>] = NoRow
  BY DEF Init, Keys
<1>3. Agrees(links, p, past[0], 0)
  <2>1. NoRow.stamp <= 0 /\ ~Driving(NoRow)
    BY DEF NoRow, Driving
  <2>2. QED
    BY <1>2, <2>1 DEF Agrees
<1>4. github[p].at = 0 /\ github[p].state = "none" /\ inbox = {} /\ matching = {}
  BY DEF Init
<1>5. Told(p, past, 0)
  BY <1>1, <1>3, <1>4 DEF Told, Pending, Matching
<1>6. QED
  BY <1>5 DEF IsTold

(* A step that leaves p and what concerns it as it is. *)
LEMMA OthersStayTold ==
  ASSUME NEW p \in Prs, IsTold(p), github'[p] = github[p], Pending(p)' = Pending(p),
         Matching(p)' = Matching(p), \A s \in Slots : links'[<<p, s>>] = links[<<p, s>>]
  PROVE  IsTold(p)'
<1>1. PICK past \in [Nat -> PrStates], h \in Nat : Told(p, past, h)
  BY DEF IsTold
<1>2. Agrees(links, p, past[h], h)'
  BY <1>1 DEF Told, Agrees
<1>3. Told(p, past, h)'
  BY <1>1, <1>2 DEF Told
<1>4. QED
  BY <1>3 DEF IsTold

(* A change is one more state of the past, and its snapshot is pending. *)
LEMMA ChangeStaysTold ==
  ASSUME TypeOK, NEW p \in Prs, IsTold(p), NEW kind, NEW state \in PrStates, NEW text,
         Change(p, kind, state, text), Legal(github[p].state, state), state # "none", kind # "replayed",
         kind \in {"opened", "reopened"} => state = "open",
         kind = "closed" => state # "open",
         kind = "edited" => github[p].state = state
  PROVE  IsTold(p)'
<1>1. PICK past \in [Nat -> PrStates], h \in Nat : Told(p, past, h)
  BY DEF IsTold
<1>2. PICK now \in Nat : now = github[p].at
  BY DEF TypeOK
<1>3. /\ github'[p].at = now + 1 /\ github'[p].state = state
      /\ links' = links /\ matching' = matching
  BY <1>2 DEF Change, service, TypeOK
<1>4. PICK new : new = [pr |-> p, kind |-> kind, state |-> state, text |-> text, at |-> now + 1]
  OBVIOUS
<1>5. inbox' = inbox \cup {new}
  BY <1>2, <1>4 DEF Change
<1>6. Pending(p)' = Pending(p) \cup {new} /\ Matching(p)' = Matching(p)
  BY <1>3, <1>4, <1>5 DEF Pending, Matching
<1>7. PICK p2 \in [Nat -> PrStates] : p2 = [past EXCEPT ![now + 1] = state]
  BY <1>1
<1>8. p2[now + 1] = state /\ \A a \in Nat : a <= now => p2[a] = past[a]
  BY <1>2, <1>7
<1>9. h <= now /\ past[now] = github[p].state
  BY <1>1, <1>2 DEF Told
<1>10. Agrees(links, p, p2[h], h)'
  <2>1. Agrees(links, p, past[h], h)
    BY <1>1 DEF Told
  <2>2. p2[h] = past[h]
    BY <1>8, <1>9
  <2>3. QED
    BY <1>3, <2>1, <2>2 DEF Agrees
<1>11. \A a \in Nat : a < now + 1 => Legal(p2[a], p2[a + 1])
  <2> SUFFICES ASSUME NEW a \in Nat, a < now + 1 PROVE Legal(p2[a], p2[a + 1])
    OBVIOUS
  <2>1. CASE a = now
    BY <1>8, <1>9, <2>1
  <2>2. CASE a < now
    <3>1. Legal(past[a], past[a + 1])
      BY <1>1, <1>2, <2>2 DEF Told
    <3>2. p2[a] = past[a] /\ p2[a + 1] = past[a + 1]
      BY <1>2, <1>8, <2>2
    <3>3. QED
      BY <3>1, <3>2
  <2>3. QED
    BY <1>2, <2>1, <2>2
<1>12. ASSUME NEW d \in Pending(p)'
       PROVE  h <= d.at /\ d.at <= now + 1 /\ TellsPast(d, p2)
  <2>1. CASE d = new
    <3>1. d.at = now + 1 /\ d.kind = kind /\ d.state = state
      BY <1>4, <2>1
    <3>2. d.at - 1 = now /\ d.at # 0 /\ h <= d.at /\ d.at <= now + 1
      BY <1>2, <1>9, <3>1
    <3>3. p2[d.at - 1] = github[p].state
      BY <1>8, <1>9, <3>2
    <3>4. QED
      BY <1>8, <3>1, <3>2, <3>3 DEF TellsPast
  <2>2. CASE d \in Pending(p)
    <3>1. h <= d.at /\ d.at <= now /\ TellsPast(d, past)
      BY <1>1, <1>2, <2>2 DEF Told
    <3>2. d.at \in Nat
      BY <2>2 DEF Pending, TypeOK, Delivery
    <3>3. p2[d.at] = past[d.at] /\ (d.at # 0 => p2[d.at - 1] = past[d.at - 1])
      BY <1>8, <3>1, <3>2
    <3>4. QED
      BY <3>1, <3>2, <3>3 DEF TellsPast
  <2>3. QED
    BY <1>6, <2>1, <2>2
<1>13. ASSUME NEW a \in Nat, h < a, a <= now + 1
       PROVE  \E d \in Pending(p)' : d.at = a
  <2>1. CASE a = now + 1
    BY <1>4, <1>6, <2>1
  <2>2. CASE a <= now
    BY <1>1, <1>2, <1>6, <1>13, <2>2 DEF Told
  <2>3. QED
    BY <1>2, <1>13, <2>1, <2>2
<1>14. \A d \in Matching(p)' : d.at = h /\ p2[h] = "open" /\ d.kind # "replayed"
  BY <1>1, <1>6, <1>8, <1>9 DEF Told
<1>15. Told(p, p2, h)'
  BY <1>3, <1>8, <1>9, <1>10, <1>11, <1>12, <1>13, <1>14 DEF Told
<1>16. QED
  BY <1>15 DEF IsTold

LEMMA GitHubStaysTold ==
  ASSUME TypeOK, NEW p \in Prs, IsTold(p), GitHubStep(p) PROVE IsTold(p)'
<1>1. /\ github[p].state \in PrStates
      /\ {"open", "closed", "merged"} \subseteq PrStates
  BY DEF TypeOK, PrStates
<1>2. CASE \E s \in regime.texts : Open(p, s)
  <2>1. Legal(github[p].state, "open")
    BY <1>2 DEF Open, Legal
  <2>2. QED
    BY <1>1, <1>2, <2>1, ChangeStaysTold DEF Open
<1>3. CASE \E s \in regime.texts : Edit(p, s)
  <2>1. Legal(github[p].state, github[p].state) /\ github[p].state # "none"
    BY <1>3 DEF Edit, Legal
  <2>2. QED
    BY <1>1, <1>3, <2>1, ChangeStaysTold DEF Edit
<1>4. CASE Close(p)
  <2>1. Legal(github[p].state, "closed")
    BY <1>4 DEF Close, Legal
  <2>2. QED
    BY <1>1, <1>4, <2>1, ChangeStaysTold DEF Close
<1>5. CASE Reopen(p)
  <2>1. Legal(github[p].state, "open")
    BY <1>5 DEF Reopen, Legal
  <2>2. QED
    BY <1>1, <1>5, <2>1, ChangeStaysTold DEF Reopen
<1>6. CASE Merge(p)
  <2>1. Legal(github[p].state, "merged")
    BY <1>6 DEF Merge, Legal
  <2>2. QED
    BY <1>1, <1>6, <2>1, ChangeStaysTold DEF Merge
<1>7. QED
  BY <1>2, <1>3, <1>4, <1>5, <1>6 DEF GitHubStep

(* The sweep's snapshot says what is so now. *)
LEMMA SweepStaysTold ==
  ASSUME TypeOK, NEW p \in Prs, IsTold(p), Sweep(p) PROVE IsTold(p)'
<1>1. PICK past \in [Nat -> PrStates], h \in Nat : Told(p, past, h)
  BY DEF IsTold
<1>2. /\ inbox' = inbox \cup {Snapshot(p, "sweep")} /\ github[p].state # "none"
      /\ UNCHANGED <<github, links, matching>>
  BY DEF Sweep, service
<1>3. Matching(p)' = Matching(p) /\ Pending(p)' = Pending(p) \cup {Snapshot(p, "sweep")}
  BY <1>2 DEF Matching, Pending, Snapshot
<1>4. /\ h <= github[p].at /\ github[p].at <= github[p].at
      /\ Snapshot(p, "sweep").at = github[p].at /\ TellsPast(Snapshot(p, "sweep"), past)
  BY <1>1, <1>2 DEF Told, TellsPast, Snapshot, TypeOK
<1>5. Agrees(links, p, past[h], h)'
  BY <1>1, <1>2 DEF Told, Agrees
<1>6. \A d \in Pending(p)' : h <= d.at /\ d.at <= github'[p].at /\ TellsPast(d, past)
  BY <1>1, <1>2, <1>3, <1>4 DEF Told
<1>7. Told(p, past, h)'
  BY <1>1, <1>2, <1>3, <1>5, <1>6 DEF Told
<1>8. QED
  BY <1>7 DEF IsTold

(* The oldest pending snapshot is the next one, or one that repeats the last. *)
LEMMA OldestComesNext ==
  ASSUME TypeOK, NEW d \in inbox, NEW past \in [Nat -> PrStates], NEW h \in Nat,
         Told(d.pr, past, h), \A e \in Pending(d.pr) : d.at <= e.at
  PROVE  ComesNext(d, past[h], h) /\ (d.at = h \/ d.at = h + 1)
<1>1. d \in Pending(d.pr) /\ d.at \in Nat /\ d.pr \in Prs /\ d.kind \in Kinds
  BY DEF Pending, TypeOK, Delivery
<1>2. h <= d.at /\ d.at <= github[d.pr].at /\ TellsPast(d, past) /\ github[d.pr].at \in Nat
  BY <1>1 DEF Told, TypeOK
<1>3. d.at = h \/ d.at = h + 1
  <2>1. CASE h < github[d.pr].at
    <3>1. h + 1 \in Nat /\ h < h + 1 /\ h + 1 <= github[d.pr].at
      BY <1>2, <2>1
    <3>2. PICK e \in Pending(d.pr) : e.at = h + 1
      BY <3>1 DEF Told
    <3>3. d.at <= h + 1
      BY <3>2
    <3>4. QED
      BY <1>1, <1>2, <3>3
  <2>2. CASE ~(h < github[d.pr].at)
    BY <1>1, <1>2, <2>2
  <2>3. QED
    BY <2>1, <2>2
<1>4. CASE d.at = h
  <2>1. d.state = past[h]
    BY <1>2, <1>4 DEF TellsPast
  <2>2. d.kind = "edited" => d.state # "merged"
    <3> SUFFICES ASSUME d.kind = "edited" PROVE d.state # "merged"
      OBVIOUS
    <3>1. d.at # 0 /\ past[d.at - 1] = d.state
      BY <1>2 DEF TellsPast
    <3>2. d.at - 1 \in Nat /\ d.at - 1 < github[d.pr].at
      BY <1>1, <1>2, <3>1
    <3>3. Legal(past[d.at - 1], past[d.at - 1 + 1])
      BY <3>2 DEF Told
    <3>4. QED
      BY <3>1, <3>3 DEF Legal
  <2>3. QED
    BY <1>2, <1>3, <1>4, <2>1, <2>2 DEF ComesNext, TellsPast
<1>5. CASE d.at = h + 1
  <2>1. h < github[d.pr].at
    BY <1>2, <1>5
  <2>2. Legal(past[h], past[h + 1]) /\ d.state = past[h + 1] /\ h < d.at
    BY <1>2, <1>5, <2>1 DEF Told, TellsPast
  <2>3. d.kind = "edited" => past[h] = d.state
    <3>1. d.at - 1 = h
      BY <1>5
    <3>2. QED
      BY <1>2, <3>1 DEF TellsPast
  <2>4. QED
    BY <1>2, <1>3, <2>2, <2>3 DEF ComesNext, TellsPast, Legal
<1>6. QED
  BY <1>3, <1>4, <1>5

LEMMA HandleStaysTold ==
  ASSUME IInv, KeepInv, NEW d \in inbox, Handle(d), regime.inOrder, IsTold(d.pr)
  PROVE  /\ IsTold(d.pr)'
         /\ \A p \in Prs \ {d.pr} : /\ Pending(p)' = Pending(p) /\ Matching(p)' = Matching(p)
                                     /\ \A s \in Slots : links'[<<p, s>>] = links[<<p, s>>]
         /\ UNCHANGED github
<1>1. PICK past \in [Nat -> PrStates], h \in Nat : Told(d.pr, past, h)
  BY DEF IsTold
<1>2. /\ d \in Delivery /\ d.pr \in Prs /\ d.at \in Nat /\ d.text.body \subseteq said[d.pr]
      /\ d \in Pending(d.pr) /\ TypeOK /\ Traced(links) /\ Dispatch(d)
  BY DEF IInv, TypeOK, Delivery, KeepInv, Spoken, Pending, Handle
<1>3. Matching(d.pr) = {} /\ \A e \in Pending(d.pr) : d.at <= e.at
  BY DEF Handle
<1>4. ComesNext(d, past[h], h) /\ (d.at = h \/ d.at = h + 1)
  BY <1>1, <1>2, <1>3, OldestComesNext
<1>5. Agrees(links, d.pr, past[h], h) /\ past[h] \in PrStates
  BY <1>1 DEF Told
<1>6. /\ Agrees(links', d.pr, d.state, d.at)
      /\ matching' = matching \/ (d.state = "open" /\ matching' = matching \cup {d})
  BY <1>2, <1>4, <1>5, HandlerSays
<1>7. FollowUp(d) = {} /\ inbox' = inbox \ {d} /\ UNCHANGED github
  BY <1>4 DEF ComesNext, FollowUp, Handle
<1>8. \A p \in Prs \ {d.pr} : /\ Pending(p)' = Pending(p) /\ Matching(p)' = Matching(p)
                                /\ \A s \in Slots : links'[<<p, s>>] = links[<<p, s>>]
  <2> SUFFICES ASSUME NEW p \in Prs \ {d.pr}
               PROVE  /\ Pending(p)' = Pending(p) /\ Matching(p)' = Matching(p)
                      /\ \A s \in Slots : links'[<<p, s>>] = links[<<p, s>>]
    OBVIOUS
  <2>1. Pending(p)' = Pending(p)
    BY <1>7 DEF Pending
  <2>2. Matching(p)' = Matching(p)
    BY <1>6 DEF Matching
  <2>3. Elsewhere(links, links', d.pr)
    BY <1>2, DispatchTraces DEF Traces
  <2>4. \A s \in Slots : <<p, s>> \in Keys /\ <<p, s>>[1] # d.pr
    BY DEF Keys
  <2>5. QED
    BY <2>1, <2>2, <2>3, <2>4 DEF Elsewhere
<1>9. PICK n \in Nat, q \in Prs : n = d.at /\ q = d.pr
  BY <1>2
<1>10. d.state = past[n] /\ h <= n /\ n <= github[q].at
  BY <1>1, <1>2, <1>9 DEF Told, TellsPast
<1>11. Pending(q)' = Pending(q) \ {d}
  BY <1>7 DEF Pending
<1>12. \A e \in Pending(q)' : n <= e.at /\ e.at <= github[q].at /\ TellsPast(e, past)
  BY <1>1, <1>3, <1>9, <1>11 DEF Told
<1>13. ASSUME NEW a \in Nat, n < a, a <= github[q].at PROVE \E e \in Pending(q)' : e.at = a
  <2>1. h < a
    BY <1>10, <1>13
  <2>2. PICK e \in Pending(q) : e.at = a
    BY <1>1, <1>9, <1>13, <2>1 DEF Told
  <2>3. e # d
    BY <1>9, <1>13, <2>2
  <2>4. QED
    BY <1>11, <2>2, <2>3
<1>14. \A e \in Matching(q)' : e.at = n /\ past[n] = "open" /\ e.kind # "replayed"
  <2>1. CASE matching' = matching
    BY <1>3, <1>9, <2>1 DEF Matching
  <2>2. CASE d.state = "open" /\ matching' = matching \cup {d}
    <3>1. Matching(q)' = {d}
      BY <1>3, <1>9, <2>2 DEF Matching
    <3>2. QED
      BY <1>4, <1>9, <1>10, <2>2, <3>1 DEF ComesNext
  <2>3. QED
    BY <1>6, <2>1, <2>2
<1>15. Agrees(links, q, past[n], n)'
  BY <1>6, <1>9, <1>10 DEF Agrees
<1>16. /\ past[github[q].at] = github[q].state
       /\ \A a \in Nat : a < github[q].at => Legal(past[a], past[a + 1])
  BY <1>1, <1>9 DEF Told
<1>17. Told(q, past, n)'
  BY <1>7, <1>10, <1>12, <1>13, <1>14, <1>15, <1>16 DEF Told
<1>18. IsTold(q)'
  BY <1>17 DEF IsTold
<1>19. QED
  BY <1>7, <1>8, <1>9, <1>18

(* Links made by a matching are live, and it only runs for an open pull request. *)
LEMMA MatchStaysTold ==
  ASSUME IInv, KeepInv, NEW d \in matching, Match(d), IsTold(d.pr)
  PROVE  /\ IsTold(d.pr)'
         /\ \A p \in Prs \ {d.pr} : /\ Pending(p)' = Pending(p) /\ Matching(p)' = Matching(p)
                                     /\ \A s \in Slots : links'[<<p, s>>] = links[<<p, s>>]
         /\ UNCHANGED github
<1>1. PICK past \in [Nat -> PrStates], h \in Nat : Told(d.pr, past, h)
  BY DEF IsTold
<1>2. d \in Delivery /\ d.pr \in Prs /\ d \in Matching(d.pr)
  BY DEF IInv, TypeOK, Delivery, Matching
<1>3. d.at = h /\ past[h] = "open" /\ d.kind # "replayed"
  BY <1>1, <1>2 DEF Told
<1>4. EndMatching(d)
  BY DEF Match, FuzzyLink, TriageCreates, TriageRefused, TriageSkips
<1>5. inbox' = inbox /\ matching' = matching \ {d} /\ UNCHANGED github
  BY <1>3, <1>4 DEF EndMatching, FollowUp
<1>6. /\ Elsewhere(links, links', d.pr)
      /\ \A k \in Keys : links'[k].stamp = links[k].stamp /\ (Live(links[k]) => Live(links'[k]))
  <2>1. CASE TriageCreates(d)
    BY <2>1, TriageTraces DEF KeepInv
  <2>2. CASE \E c \in regime.matches : FuzzyLink(d, c)
    BY <2>2, RegimeIsTyped, FuzzyLinkTraces DEF Traces, KeepInv, IInv
  <2>3. CASE UNCHANGED service
    BY <2>3 DEF service, Elsewhere
  <2>4. QED
    BY <2>1, <2>2, <2>3 DEF Match, TriageRefused, TriageSkips
<1>7. \A p \in Prs \ {d.pr} : /\ Pending(p)' = Pending(p) /\ Matching(p)' = Matching(p)
                                /\ \A s \in Slots : links'[<<p, s>>] = links[<<p, s>>]
  <2> SUFFICES ASSUME NEW p \in Prs \ {d.pr}
               PROVE  /\ Pending(p)' = Pending(p) /\ Matching(p)' = Matching(p)
                      /\ \A s \in Slots : links'[<<p, s>>] = links[<<p, s>>]
    OBVIOUS
  <2>1. Pending(p)' = Pending(p) /\ Matching(p)' = Matching(p)
    BY <1>5 DEF Pending, Matching
  <2>2. \A s \in Slots : <<p, s>> \in Keys /\ <<p, s>>[1] # d.pr
    BY DEF Keys
  <2>3. QED
    BY <1>6, <2>1, <2>2 DEF Elsewhere
<1>8. PICK q \in Prs : q = d.pr
  BY <1>2
<1>9. Agrees(links, q, past[h], h)'
  <2>1. Agrees(links, q, "open", h)
    BY <1>1, <1>3, <1>8 DEF Told
  <2>2. \A s \in Slots : <<q, s>> \in Keys
    BY DEF Keys
  <2>3. \A s \in Slots : Live(links'[<<q, s>>]) /\ links'[<<q, s>>].stamp = links[<<q, s>>].stamp
    BY <1>6, <2>1, <2>2 DEF Agrees, RowSays, Live
  <2>4. QED
    BY <1>3, <2>1, <2>3 DEF Agrees, RowSays, Live
<1>10. Pending(q)' = Pending(q) /\ Matching(q)' \subseteq Matching(q)
  BY <1>5 DEF Pending, Matching
<1>11. Told(q, past, h)'
  BY <1>1, <1>5, <1>8, <1>9, <1>10 DEF Told
<1>12. IsTold(q)'
  BY <1>11 DEF IsTold
<1>13. QED
  BY <1>5, <1>7, <1>8, <1>12

LEMMA NextStaysTold ==
  ASSUME IInv, KeepInv, ToldInv, [Next]_vars PROVE ToldInv'
<1>0. UNCHANGED regime
  BY ChangeIsSaid DEF Next, Sweep, CatchUp, Handle, Lose, Match, FuzzyLink, TriageCreates,
     TriageRefused, TriageSkips, EndMatching, SyncIssue, MoveByHand, vars, IInv
<1> SUFFICES ASSUME ToldInOrder
             PROVE  budget'.restarts = 0 /\ budget'.lost = 0 /\ \A p \in Prs : IsTold(p)'
  BY <1>0 DEF ToldInv, ToldInOrder
<1>1. budget.restarts = 0 /\ budget.lost = 0 /\ (\A p \in Prs : IsTold(p)) /\ budget \in Budget /\ TypeOK
  BY DEF ToldInv, IInv, TypeOK
<1>2. ASSUME NEW q \in Prs, IsTold(q)', UNCHANGED github,
             \A p \in Prs \ {q} : /\ Pending(p)' = Pending(p) /\ Matching(p)' = Matching(p)
                                  /\ \A s \in Slots : links'[<<p, s>>] = links[<<p, s>>]
      PROVE  \A p \in Prs : IsTold(p)'
  <2> SUFFICES ASSUME NEW p \in Prs PROVE IsTold(p)'
    OBVIOUS
  <2>1. CASE p = q
    BY <1>2, <2>1
  <2>2. CASE p # q
    BY <1>1, <1>2, <2>2, OthersStayTold
  <2>3. QED
    BY <2>1, <2>2
<1>3. CASE \E q \in Prs : GitHubStep(q)
  <2>1. PICK q \in Prs : GitHubStep(q)
    BY <1>3
  <2>2. IsTold(q)' /\ UNCHANGED <<service, matching, budget>>
    BY <1>1, <2>1, GitHubStaysTold, ChangeIsSaid
  <2>3. ASSUME NEW p \in Prs \ {q}, NEW kind, NEW state, NEW text, Change(q, kind, state, text)
        PROVE  github'[p] = github[p] /\ Pending(p)' = Pending(p)
    BY <1>1, <2>3 DEF Change, Pending, TypeOK
  <2>4. \A p \in Prs \ {q} : github'[p] = github[p] /\ Pending(p)' = Pending(p)
    BY <2>1, <2>3 DEF GitHubStep, Open, Edit, Close, Reopen, Merge
  <2>5. \A p \in Prs : Matching(p)' = Matching(p) /\ \A s \in Slots : links'[<<p, s>>] = links[<<p, s>>]
    BY <2>2 DEF service, Matching
  <2>6. ASSUME NEW p \in Prs PROVE IsTold(p)'
    <3>1. CASE p = q
      BY <2>2, <3>1
    <3>2. CASE p # q
      BY <1>1, <2>4, <2>5, <3>2, OthersStayTold
    <3>3. QED
      BY <3>1, <3>2
  <2>7. QED
    BY <1>1, <2>2, <2>6
<1>4. CASE \E q \in Prs : Sweep(q)
  <2>1. PICK q \in Prs : Sweep(q)
    BY <1>4
  <2>2. IsTold(q)' /\ UNCHANGED <<github, service, matching, budget>>
    BY <1>1, <2>1, SweepStaysTold DEF Sweep
  <2>3. \A p \in Prs \ {q} : /\ Pending(p)' = Pending(p) /\ Matching(p)' = Matching(p)
                              /\ \A s \in Slots : links'[<<p, s>>] = links[<<p, s>>]
    BY <2>1 DEF Sweep, Snapshot, Pending, Matching, service
  <2>4. \A p \in Prs : IsTold(p)'
    BY <1>2, <2>2, <2>3
  <2>5. QED
    BY <1>1, <2>2, <2>4
<1>5. CASE \E q \in Prs : CatchUp(q)
  BY <1>1, <1>5 DEF CatchUp
<1>6. CASE \E d \in inbox : Lose(d)
  BY <1>1, <1>6 DEF Lose
<1>7. CASE \E d \in inbox : Handle(d)
  <2>1. PICK d \in inbox : Handle(d)
    BY <1>7
  <2>2. d.pr \in Prs /\ regime.inOrder
    BY <1>1 DEF TypeOK, Delivery, ToldInOrder
  <2>3. \A p \in Prs : IsTold(p)'
    BY <1>1, <1>2, <2>1, <2>2, HandleStaysTold
  <2>4. budget'.restarts = 0 /\ budget'.lost = 0
    <3>1. Dispatch(d)
      BY <2>1 DEF Handle
    <3>2. budget' = budget \/ \E n : budget' = [budget EXCEPT !.refusals = n]
      BY <3>1 DEF Dispatch, HandleMerged
    <3>3. QED
      BY <1>1, <3>2 DEF Budget
  <2>5. QED
    BY <2>3, <2>4
<1>8. CASE \E d \in matching : Match(d)
  <2>1. PICK d \in matching : Match(d)
    BY <1>8
  <2>2. d.pr \in Prs
    BY <1>1 DEF TypeOK, Delivery
  <2>3. \A p \in Prs : IsTold(p)'
    BY <1>1, <1>2, <2>1, <2>2, MatchStaysTold
  <2>4. budget'.restarts = 0 /\ budget'.lost = 0
    BY <1>1, <2>1 DEF Match, FuzzyLink, TriageCreates, TriageRefused, TriageSkips, Budget
  <2>5. QED
    BY <2>3, <2>4
<1>9. CASE \/ \E i \in Issues : SyncIssue(i)
           \/ \E c \in Cards : MoveByHand(c)
           \/ UNCHANGED vars
  <2>1. UNCHANGED <<github, inbox, matching, links>>
    BY <1>9 DEF SyncIssue, MoveByHand, vars
  <2>2. \A p \in Prs : Pending(p)' = Pending(p) /\ Matching(p)' = Matching(p)
    BY <2>1 DEF Pending, Matching
  <2>3. budget'.restarts = 0 /\ budget'.lost = 0
    BY <1>1, <1>9 DEF SyncIssue, MoveByHand, vars, Budget
  <2>4. QED
    BY <1>1, <2>1, <2>2, <2>3, OthersStayTold
<1>10. QED
  BY <1>3, <1>4, <1>5, <1>6, <1>7, <1>8, <1>9 DEF Next

LEMMA ToldInvariance == Spec => [](IInv /\ KeepInv /\ ToldInv)
<1>1. IInv /\ KeepInv /\ ToldInv /\ [Next]_vars => ToldInv'
  BY NextStaysTold
<1>2. QED
  BY <1>1, InitIsTold, KeepInvariance, PTL DEF Spec

-----------------------------------------------------------------------------
(* The theorems. *)

LEMMA ToldIsCaughtUp ==
  ASSUME TypeOK, ToldInv, ToldInOrder, NEW p \in Prs, Quiet(p) PROVE RegistryAgrees(p)
<1>1. PICK past \in [Nat -> PrStates], h \in Nat : Told(p, past, h)
  BY DEF ToldInv, IsTold
<1>2. github[p].at \in Nat
  BY DEF TypeOK
<1>3. h = github[p].at
  <2>1. h <= github[p].at
    BY <1>1 DEF Told
  <2>2. CASE h < github[p].at
    <3>1. \E d \in Pending(p) : d.at = github[p].at
      BY <1>1, <1>2, <2>2 DEF Told
    <3>2. QED
      BY <3>1 DEF Quiet
  <2>3. QED
    BY <1>2, <2>1, <2>2
<1>4. Agrees(links, p, github[p].state, h)
  BY <1>1, <1>3 DEF Told
<1>5. QED
  BY <1>4 DEF Agrees, RowSays, RegistryAgrees

(* Told of everything in GitHub's order, the links of a pull request say what *)
(* GitHub says once its snapshots are handled; and whatever order they come   *)
(* in, the merge handler completes an issue's card only if the body named the *)
(* issue (handle_pr_merged over mark_pr_withdrawn, mark_pr_merged and         *)
(* upsert_pr_task_link).                                                      *)
THEOREM RegistrySaysWhatItWasTold == Spec => []RegistryIsTold
<1>1. IInv /\ ToldInv => CaughtUp
  BY ToldIsCaughtUp DEF CaughtUp, IInv
<1>2. IInv /\ KeepInv => CompletionWasStated
  <2> SUFFICES ASSUME IInv, KeepInv, NEW e \in mergeLog, \E i \in Issues : cardOf[i] = e[2],
                      e[2] \notin Matches
               PROVE  \E i \in said[e[1]] : cardOf[i] = e[2]
    BY DEF CompletionWasStated
  <2>1. Accounted(e)
    BY DEF KeepInv, Logged
  <2>2. QED
    BY <2>1 DEF Accounted
<1>3. IInv /\ KeepInv /\ ToldInv => RegistryIsTold
  BY <1>1, <1>2 DEF RegistryIsTold
<1>4. QED
  BY <1>3, ToldInvariance, PTL

(* What a step may complete, for the action property below. *)
Waits ==
  \A c \in Cards :
    ToldInOrder /\ board[c] # "completed" /\ board'[c] = "completed" =>
    \A p \in Prs : Quiet(p) /\ github[p].state = "open" => c \notin TasksOf(links', p)

LEMMA MergeWaits == ASSUME IInv, KeepInv, ToldInv, [Next]_vars PROVE Waits
<1> SUFFICES ASSUME NEW c \in Cards, ToldInOrder, board[c] # "completed", board'[c] = "completed",
                    NEW p \in Prs, Quiet(p), github[p].state = "open", c \in TasksOf(links', p)
             PROVE  FALSE
  BY DEF Waits
<1>1. Next
  BY DEF vars
<1>2. PICK q \in Prs : <<q, c>> \in mergeLog' \ mergeLog
  BY <1>1, NextKeepsIInv DEF CompletesLogged
<1>3. PICK d \in inbox : Handle(d) /\ c \in DueCards(d) /\ links' = MergedTable(d)
  BY <1>2, NextLogsWhatIsDue
<1>4. d \in Delivery /\ d.text.body \subseteq said[d.pr] /\ Dispatch(d)
  BY <1>3 DEF IInv, TypeOK, KeepInv, Spoken, Handle
<1>5. p # d.pr
  BY DEF Quiet, Pending
<1>6. Elsewhere(links, links', d.pr)
  BY <1>4, DispatchTraces DEF KeepInv, Traces
<1>7. \A s \in Slots : <<p, s>> \in Keys /\ links'[<<p, s>>] = links[<<p, s>>]
  BY <1>5, <1>6 DEF Elsewhere, Keys
<1>8. PICK s \in Slots : Driving(links'[<<p, s>>]) /\ links'[<<p, s>>].card = c
  BY DEF TasksOf
<1>9. Active(links[<<p, s>>])
  BY <1>7, <1>8, ToldIsCaughtUp DEF RegistryAgrees, IInv
<1>10. HasAnyOpenPr(MergedTable(d), c)
  BY <1>3, <1>7, <1>8, <1>9 DEF HasAnyOpenPr
<1>11. QED
  BY <1>3, <1>10 DEF DueCards

(* A merge completes no card that also belongs to a pull request which is     *)
(* open on GitHub and about which everything was told (has_any_open_pr over   *)
(* the rows the other handlers left).                                         *)
THEOREM MergesWaitForOthers == Spec => MergeWaitsForOthers
<1>1. IInv /\ KeepInv /\ ToldInv /\ [Next]_vars => [Waits]_vars
  BY MergeWaits
<1>2. [Waits]_vars =>
        [\A c \in Cards :
           ToldInOrder /\ board[c] # "completed" /\ board'[c] = "completed" =>
           \A p \in Prs : Quiet(p) /\ github[p].state = "open" => c \notin TasksOf(links', p)]_vars
  BY DEF Waits
<1>3. QED
  BY <1>1, <1>2, ToldInvariance, PTL DEF Spec, MergeWaitsForOthers

(* A card leaves completed only by a person's hand or for a pull request that *)
(* is new to the service: no replay, sweep, edit, close or late matching      *)
(* takes a completion back (status_would_move_backwards).                     *)
THEOREM VerdictsStand == Spec => VerdictStands
<1>1. IInv /\ KeepInv /\ [Next]_vars => [Verdict]_vars
  BY NextKeepsVerdicts
<1>2. [Verdict]_vars =>
        [\A c \in Cards : board[c] = "completed" /\ board'[c] # "completed" =>
           \/ budget'.byHand < budget.byHand
           \/ \E d \in (inbox \ inbox') \cup (matching \ matching') : d.kind = "opened"]_vars
  BY DEF Verdict
<1>3. QED
  BY <1>1, <1>2, KeepInvariance, PTL DEF Spec, VerdictStands
=============================================================================
