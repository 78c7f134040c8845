---------------------------- MODULE CommentMirror ----------------------------
(* Comments of GitHub on Plaky's cards (services/comment_dedupe.py and the     *)
(* comment handlers).  Plaky can add a comment and do nothing else with one,   *)
(* GitHub delivers events late, again and out of order, and two handlers may   *)
(* be at work; the sync log remembers what each card has been told.            *)
EXTENDS Naturals, FiniteSets, Sequences

CONSTANTS MirrorRegimes   (* the comment, its wordings and cards, and what happens *)

ASSUME MirrorAssumption ==
  \A r \in MirrorRegimes :
    r.budget \in [again : Nat, refusals : Nat, unheard : Nat, crashes : Nat]

VARIABLES mirrorRegime, mirrorLeft,
          version,      (* GitHub: how often the comment was written so far        *)
          inbox,        (* deliveries that nobody has taken yet                    *)
          cards,        (* Plaky: what was posted on each card, in order           *)
          log,          (* SyncLog: <<card, version>> for every wording recorded   *)
          mirror,       (* the handlers                                            *)
          skipped,      (* deliveries that were taken for already mirrored         *)
          excused       (* cards on which something was posted that was not, or    *)
                        (* not yet, recorded                                       *)
mirrorVars == <<mirrorRegime, mirrorLeft, version, inbox, cards, log, mirror, skipped, excused>>

Handlers == mirrorRegime.handlers
MirrorCards == mirrorRegime.cards
(* Every version has a time of its own, and a wording that may be an old one.  *)
Wording(v) == mirrorRegime.wordings[v]
Versions == DOMAIN mirrorRegime.wordings
(* met: another handler was at work while this one was.                        *)
AtDesk == [at |-> "idle", v |-> 0, edit |-> FALSE, todo |-> {}, rows |-> {}, met |-> FALSE]

MirrorInit ==
  /\ mirrorRegime \in MirrorRegimes /\ mirrorLeft = mirrorRegime.budget
  /\ version = 0 /\ inbox = {} /\ log = {}
  /\ cards = [t \in MirrorCards |-> <<>>]
  /\ mirror = [h \in Handlers |-> AtDesk] /\ skipped = {} /\ excused = {}

SpendsMirror(what) == mirrorLeft[what] > 0 /\ mirrorLeft' = [mirrorLeft EXCEPT ![what] = @ - 1]
Desk(h, m) == mirror' = [mirror EXCEPT ![h] = m]

(* ------------------------------------------------------------------- GitHub *)
WritesComment ==
  /\ version + 1 \in Versions
  /\ version' = version + 1 /\ inbox' = inbox \cup {version + 1}
  /\ UNCHANGED <<mirrorRegime, mirrorLeft, cards, log, mirror, skipped, excused>>
Redelivers ==
  /\ SpendsMirror("again") /\ \E v \in 1..version : v \notin inbox /\ inbox' = inbox \cup {v}
  /\ UNCHANGED <<mirrorRegime, version, cards, log, mirror, skipped, excused>>

(* ----------------------------------------------------- handle_issue_comment *)
(* edit_changed_the_text: an edit that leaves the wording alone is no edit.    *)
ChangesText(v) == v = 1 \/ Wording(v) # Wording(v - 1)
(* The markers a delivery looks for: its own revision, that is this wording at *)
(* this time, and, unless it is an edit, the comment itself, which every row   *)
(* of the comment names.                                                       *)
(* Mutation: the wording alone makes the revision. *)
ByWording(t, v, edit) ==
  {r \in log : r[1] = t /\ (~edit \/ Wording(r[2]) = Wording(v))}
(* Mutation: a creation looks for its own revision alone. *)
ByRevision(t, v, edit) == {r \in log : r = <<t, v>>}
Found(t, v, edit) == {r \in log : r[1] = t /\ (~edit \/ r[2] = v)}

Take(h) ==
  /\ mirror[h].at = "idle"
  /\ \E v \in inbox :
       /\ inbox' = inbox \ {v}
       /\ LET others == {o \in Handlers \ {h} : mirror[o].at # "idle"} IN
          mirror' = [o \in Handlers |->
            IF ~ChangesText(v) THEN mirror[o]
            ELSE IF o = h THEN [at |-> "look", v |-> v, edit |-> v > 1, todo |-> MirrorCards,
                                rows |-> {}, met |-> others # {}]
            ELSE [mirror[o] EXCEPT !.met = @ \/ o \in others]]
  /\ UNCHANGED <<mirrorRegime, mirrorLeft, version, cards, log, skipped, excused>>

(* ---------------------------------------------------- mirror_github_activity *)
(* comment_already_synced, for one card after the other.                       *)
Look(h) ==
  /\ mirror[h].at = "look" /\ mirror[h].todo # {}
  /\ LET m == mirror[h]
         t == CHOOSE t \in m.todo : TRUE
     IN IF Found(t, m.v, m.edit) # {}
        THEN /\ Desk(h, [m EXCEPT !.todo = @ \ {t}])
             /\ skipped' = skipped \cup {<<t, m.v>>}
        ELSE Desk(h, [m EXCEPT !.at = "post"]) /\ UNCHANGED skipped
  /\ UNCHANGED <<mirrorRegime, mirrorLeft, version, inbox, cards, log, excused>>

(* Mutation: a comment that was refused is recorded like another. *)
RecordsAll(rows, t, v, posted) == rows \cup {<<t, v>>}
(* A refused comment is recorded under an action that nobody looks for.        *)
Records(rows, t, v, posted) == IF posted THEN rows \cup {<<t, v>>} ELSE rows

(* add_comment: posted, refused, or posted without an answer.  Until the       *)
(* handler commits, no other sees its rows.                                    *)
Post(h) ==
  /\ mirror[h].at = "post"
  /\ LET m == mirror[h]
         t == CHOOSE t \in m.todo : TRUE
         onwards(posted) == [m EXCEPT !.at = "look", !.todo = @ \ {t},
                                      !.rows = Records(@, t, m.v, posted)]
     IN \/ /\ cards' = [cards EXCEPT ![t] = Append(@, m.v)] /\ Desk(h, onwards(TRUE))
           /\ excused' = IF m.met THEN excused \cup {t} ELSE excused
           /\ UNCHANGED mirrorLeft
        \/ /\ SpendsMirror("refusals") /\ Desk(h, onwards(FALSE)) /\ UNCHANGED <<cards, excused>>
        \/ /\ SpendsMirror("unheard")
           /\ cards' = [cards EXCEPT ![t] = Append(@, m.v)] /\ Desk(h, onwards(FALSE))
           /\ excused' = excused \cup {t}
  /\ UNCHANGED <<mirrorRegime, version, inbox, log, skipped>>

Commit(h) ==
  /\ mirror[h].at = "look" /\ mirror[h].todo = {}
  /\ log' = log \cup mirror[h].rows /\ Desk(h, AtDesk)
  /\ UNCHANGED <<mirrorRegime, mirrorLeft, version, inbox, cards, skipped, excused>>

(* A handler stops before its commit, and its delivery comes again.            *)
HandlerFails(h) ==
  /\ mirror[h].at # "idle" /\ SpendsMirror("crashes")
  /\ inbox' = inbox \cup {mirror[h].v} /\ Desk(h, AtDesk)
  /\ excused' = excused \cup {r[1] : r \in mirror[h].rows}
  /\ UNCHANGED <<mirrorRegime, version, cards, log, skipped>>

MirrorNext ==
  \/ WritesComment \/ Redelivers
  \/ \E h \in Handlers : Take(h) \/ Look(h) \/ Post(h) \/ Commit(h) \/ HandlerFails(h)

(* --------------------------------------------------------------- correctness *)
Times(t, v) == Cardinality({i \in DOMAIN cards[t] : cards[t][i] = v})
(* "Mirror one GitHub activity item exactly once", however often it is         *)
(* delivered, except where two handlers were at work, an answer was lost, or a *)
(* handler stopped between the post and its commit.                            *)
EachVersionOnce ==
  \A t \in MirrorCards : t \notin excused => \A v \in Versions : Times(t, v) <= 1

(* The comment's first wording never comes after an edit of it.                *)
FirstComesFirst ==
  \A t \in MirrorCards : t \notin excused =>
    \A i \in DOMAIN cards[t] : cards[t][i] = 1 => i = 1

(* Nothing is taken for mirrored that is not on the card: a delivery is passed *)
(* over only if the card has this version, or, of a creation, any.  So a       *)
(* refused comment arrives when it is delivered again, and so does a wording   *)
(* that the author went back to.                                               *)
SkippedIsThere ==
  \A s \in skipped :
    \E i \in DOMAIN cards[s[1]] : cards[s[1]][i] = s[2] \/ s[2] = 1

(* Once every delivery has been handled and none was refused or lost, every    *)
(* card has every version that changed the text.                               *)
AllArrive ==
  /\ inbox = {} /\ \A h \in Handlers : mirror[h].at = "idle"
  /\ mirrorLeft.refusals = mirrorRegime.budget.refusals
  => \A t \in MirrorCards, v \in 2..version : ChangesText(v) => Times(t, v) > 0

MirrorIsTrue == EachVersionOnce /\ FirstComesFirst /\ SkippedIsThere /\ AllArrive
=============================================================================
