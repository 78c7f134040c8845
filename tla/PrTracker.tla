------------------------------ MODULE PrTracker ------------------------------
(* The board of open pull requests (services/pr_tracker.py, called by the      *)
(* handlers of an opening and of a merge): a row of open_pr_tracks and an item  *)
(* of Plaky for each.  A handler looks for the row, awaits Plaky, and commits;  *)
(* nothing but the look keeps a second row away, the table has no unique key.   *)
(* A board and a group are configured for it.                                  *)
EXTENDS Naturals, FiniteSets, Sequences, SequencesExt

CONSTANTS TrackRegimes    (* the pull requests, the handlers, and what may happen *)

ASSUME TrackAssumption ==
  \A r \in TrackRegimes :
    /\ r.budget \in [changes : Nat, repeats : Nat, refusals : Nat, stops : Nat]
    /\ IsFiniteSet(r.handlers)

VARIABLES trackRegime, trackLeft,
          openPulls,    (* GitHub: the state of each pull request                *)
          letters,      (* openings, edits, reopenings and merges not yet handled *)
          tracks,       (* open_pr_tracks                                        *)
          trackItems,   (* Plaky: the items of the board, in order of creation   *)
          clerk,        (* the handlers                                          *)
          heardOpen,    (* history: pull requests whose opening, edit or         *)
                        (* reopening was sent while they were no drafts          *)
          crossing,     (* history: two openings of it were handled at once      *)
          adrift        (* history: an answer was lost, a delete refused, or a   *)
                        (* handler stopped between Plaky and its commit          *)
trackVars == <<trackRegime, trackLeft, openPulls, letters, tracks, trackItems, clerk,
               heardOpen, crossing, adrift>>

Clerks == trackRegime.handlers
NoLetter == [at |-> "idle"]
TrackInit ==
  /\ trackRegime \in TrackRegimes /\ trackLeft = trackRegime.budget
  /\ openPulls = [n \in trackRegime.pulls |-> "none"]
  /\ letters = <<>> /\ tracks = {} /\ trackItems = <<>>
  /\ clerk = [h \in Clerks |-> NoLetter]
  /\ heardOpen = {} /\ crossing = {} /\ adrift = {}

SpendsTrack(what) == trackLeft[what] > 0 /\ trackLeft' = [trackLeft EXCEPT ![what] = @ - 1]
AtPlaky == <<tracks, trackItems>>

(* ------------------------------------------------------------------- GitHub *)
(* A close without a merge and the end of a draft reach handlers that leave the *)
(* tracker alone, and so send nothing here; an edit is handled as an opening    *)
(* while the pull request has no card.                                         *)
Turns(n, from, to, kind) ==
  /\ openPulls[n] \in from /\ SpendsTrack("changes")
  /\ openPulls' = [openPulls EXCEPT ![n] = to]
  /\ letters' = IF kind = "" THEN letters
                ELSE Append(letters, [pull |-> n, kind |-> kind, draft |-> to = "draft"])
  /\ heardOpen' = IF kind = "opened" /\ to = "open" THEN heardOpen \cup {n} ELSE heardOpen
  /\ UNCHANGED <<trackRegime, AtPlaky, clerk, crossing, adrift>>
TrackedChange(n) ==
  \/ \E to \in {"draft", "open"} : Turns(n, {"none"}, to, "opened")
  \/ \E s \in {"draft", "open"} : Turns(n, {s}, s, "opened")
  \/ Turns(n, {"draft"}, "open", "")
  \/ Turns(n, {"open", "draft"}, "closed", "")
  \/ Turns(n, {"closed"}, "open", "opened")
  \/ Turns(n, {"open"}, "merged", "merged")

(* ----------------------------------------------------------------- handlers *)
(* Mutation: the row is looked for by the title, which an edit has changed. *)
NoneOfThatTitle(n) == {}
(* The rows of a pull request; more than one, and scalar_one_or_none raises. *)
RowsOf(n) == {r \in tracks : r.pull = n}

(* Mutation: drafts are tracked as well. *)
EveryOpening(letter) == letter.kind = "opened"
Upserts(letter) == letter.kind = "opened" /\ ~letter.draft

InHand(n, where) == \E h \in Clerks : clerk[h].at \in where /\ clerk[h].pull = n

(* A delivery may be taken, and come again. *)
TakesLetter(h, i) ==
  /\ clerk[h].at = "idle" /\ (trackRegime.inOrder => i = 1)
  /\ LET letter == letters[i]  found == RowsOf(letter.pull)
         begun(at, item) == [at |-> at, pull |-> letter.pull, item |-> item] IN
     /\ \/ letters' = RemoveAt(letters, i) /\ UNCHANGED trackLeft
        \/ SpendsTrack("repeats") /\ UNCHANGED letters
     /\ clerk' = [clerk EXCEPT ![h] =
          IF Upserts(letter) /\ found = {} THEN begun("absent", 0)
          ELSE IF letter.kind = "merged" /\ Cardinality(found) = 1
               THEN begun("found", (CHOOSE r \in found : TRUE).item)
          ELSE @]
     /\ crossing' = IF Upserts(letter) /\ InHand(letter.pull, {"absent", "made"})
                    THEN crossing \cup {letter.pull} ELSE crossing
  /\ UNCHANGED <<trackRegime, openPulls, AtPlaky, heardOpen, adrift>>

CreatesItem(h) ==
  /\ clerk[h].at = "absent"
  /\ LET n == clerk[h].pull
         item == Append(trackItems, [pull |-> n, there |-> TRUE]) IN
     \/ /\ trackItems' = item
        /\ clerk' = [clerk EXCEPT ![h].at = "made", ![h].item = Len(item)]
        /\ UNCHANGED <<trackLeft, adrift>>
     \/ /\ SpendsTrack("refusals")
        /\ clerk' = [clerk EXCEPT ![h] = NoLetter]
        /\ \/ UNCHANGED <<trackItems, adrift>>
           \/ trackItems' = item /\ adrift' = adrift \cup {n}   \* unanswered, or without an id
  /\ UNCHANGED <<trackRegime, openPulls, letters, tracks, heardOpen, crossing>>

RecordsTrack(h) ==
  /\ clerk[h].at = "made"
  /\ tracks' = tracks \cup {[pull |-> clerk[h].pull, item |-> clerk[h].item]}
  /\ clerk' = [clerk EXCEPT ![h] = NoLetter]
  /\ UNCHANGED <<trackRegime, trackLeft, openPulls, letters, trackItems, heardOpen, crossing, adrift>>

(* Mutation: the item is left to people. *)
LeavesItem(item) == trackItems
ItemsWithout(item) == [trackItems EXCEPT ![item].there = FALSE]

(* A delete that fails is only warned about: the row goes all the same. *)
ErasesItem(h) ==
  /\ clerk[h].at = "found"
  /\ \/ trackItems' = ItemsWithout(clerk[h].item) /\ UNCHANGED <<trackLeft, adrift>>
     \/ /\ SpendsTrack("refusals") /\ UNCHANGED trackItems
        /\ adrift' = adrift \cup {clerk[h].pull}
  /\ clerk' = [clerk EXCEPT ![h].at = "erased"]
  /\ UNCHANGED <<trackRegime, openPulls, letters, tracks, heardOpen, crossing>>

(* Mutation: the row stays, to be found by the next opening. *)
KeepsRow(h) == tracks
TracksWithout(h) == tracks \ {[pull |-> clerk[h].pull, item |-> clerk[h].item]}

StrikesTrack(h) ==
  /\ clerk[h].at = "erased"
  /\ tracks' = TracksWithout(h)
  /\ clerk' = [clerk EXCEPT ![h] = NoLetter]
  /\ UNCHANGED <<trackRegime, trackLeft, openPulls, letters, trackItems, heardOpen, crossing, adrift>>

ClerkStops(h) ==
  /\ clerk[h].at # "idle" /\ SpendsTrack("stops")
  /\ clerk' = [clerk EXCEPT ![h] = NoLetter]
  /\ adrift' = IF clerk[h].at \in {"made", "erased"} THEN adrift \cup {clerk[h].pull} ELSE adrift
  /\ UNCHANGED <<trackRegime, openPulls, letters, AtPlaky, heardOpen, crossing>>

TrackNext ==
  \/ \E n \in trackRegime.pulls : TrackedChange(n)
  \/ \E h \in Clerks :
       \/ \E i \in DOMAIN letters : TakesLetter(h, i)
       \/ CreatesItem(h) \/ RecordsTrack(h) \/ ErasesItem(h) \/ StrikesTrack(h) \/ ClerkStops(h)

(* --------------------------------------------------------------- correctness *)
Settled(n) == n \notin adrift \cup crossing

(* Rows and items belong together: a pull request has one row at most, which    *)
(* shows on the board, and every item has its row or a handler about to write  *)
(* it.  Except where two openings were handled at once, and after a lost answer, *)
(* a refused delete, or a stop between Plaky and the commit.                    *)
RowsAreShown ==
  \A n \in trackRegime.pulls : Settled(n) =>
    /\ Cardinality(RowsOf(n)) <= 1
    /\ \A r \in RowsOf(n) : trackItems[r.item].there \/ InHand(n, {"erased"})
    /\ \A i \in DOMAIN trackItems :
         trackItems[i].pull = n /\ trackItems[i].there =>
           [pull |-> n, item |-> i] \in tracks \/ InHand(n, {"made"})

(* "Remove a row ... when a PR is closed/merged", and have one while it is      *)
(* open: with everything handled in order, whatever was refused, a merged pull  *)
(* request has no row, nor has one that was a draft each time the tracker heard *)
(* of it; an open one has, if the tracker heard of it since it was no draft and *)
(* nothing was refused.  (Of a close without a merge the tracker never hears.)  *)
BoardIsCurrent ==
  letters = <<>> /\ (\A h \in Clerks : clerk[h].at = "idle")
    /\ Cardinality(Clerks) = 1 /\ trackRegime.inOrder
    /\ trackLeft.repeats = trackRegime.budget.repeats /\ trackLeft.stops = trackRegime.budget.stops =>
    \A n \in trackRegime.pulls :
      /\ openPulls[n] = "merged" \/ n \notin heardOpen => RowsOf(n) = {}
      /\ openPulls[n] = "open" /\ n \in heardOpen /\ trackLeft.refusals = trackRegime.budget.refusals =>
           RowsOf(n) # {}

TrackingIsTrue == RowsAreShown /\ BoardIsCurrent
=============================================================================
