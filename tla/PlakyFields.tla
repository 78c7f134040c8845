------------------------------ MODULE PlakyFields ------------------------------
(* Setting fields and texts of board items.  Plaky takes each kind of value in *)
(* a shape of its own, and the client finds it by trying: candidates for the   *)
(* value, and bodies around each candidate.  What it learns, the body that     *)
(* last worked and that a text cannot be set, is shared by the whole process.  *)
EXTENDS Naturals, Sequences, FiniteSets

CONSTANTS FieldRegimes    (* the fields, what Plaky takes, who calls, what goes wrong *)

VARIABLES fieldRegime, fieldLeft,
          hint,           (* _FIELD_PATCH_SHAPE_HINT, per ladder; 0 when there is none *)
          noText,         (* _ITEM_TEXT_PATCH_UNSUPPORTED                             *)
          cells,          (* Plaky: what each caller's item holds                     *)
          patch           (* the calls                                                *)
fieldVars == <<fieldRegime, fieldLeft, hint, noText, cells, patch>>

Repeat(x, n) == [i \in 1..n |-> x]

(* The candidates for a value, by its form: a number or a long number is tried *)
(* as a person first, a repository as text, as a list and as tags.             *)
Forms == {"plain", "number", "long", "repo", "ids", "repos"}
Candidates(form) ==
  CASE form = "plain"  -> <<"scalar">>
    [] form = "number" -> Repeat("dict", 3) \o <<"scalar">>
    [] form = "long"   -> Repeat("dict", 4) \o <<"scalar">>
    [] form = "repo"   -> Repeat("scalar", 2) \o Repeat("dict", 5)
    [] form = "ids"    -> Repeat("scalar", 2) \o Repeat("dict", 7) \o <<"scalar">>
    [] form = "repos"  -> Repeat("scalar", 2) \o Repeat("dict", 5)
                            \o <<"scalar">> \o Repeat("dict", 5)

(* The bodies around one candidate; the last one of a structure is bare.       *)
BodyCount(ladder) == IF ladder = "dict" THEN 3 ELSE 5
Bare == 3
(* The body that last worked comes first.                                      *)
Bodies(ladder) ==
  LET h == hint[ladder] IN
  [i \in 1..BodyCount(ladder) |->
     IF h = 0 THEN i ELSE IF i = 1 THEN h ELSE IF i <= h THEN i - 1 ELSE i]

Fields == DOMAIN fieldRegime.fields
KindOf(f) == fieldRegime.fields[f].kind
(* Plaky takes some of the shapes that the client tries.                       *)
TextBodies == 10    (* five, with PATCH and again with PUT *)
Tries(form, t) ==
  t \in Nat \X Nat /\ t[1] \in DOMAIN Candidates(form) /\ t[2] \in 1..BodyCount(Candidates(form)[t[1]])
ASSUME FieldAssumption ==
  \A r \in FieldRegimes :
    /\ r.asks \subseteq SUBSET DOMAIN r.fields /\ r.text \subseteq 1..TextBodies
    /\ \A f \in DOMAIN r.fields :
         /\ r.fields[f].form \in Forms
         /\ \A t \in r.fields[f].takes :
              Tries(IF r.fields[f].kind = "choice" THEN "plain" ELSE r.fields[f].form, t)

(* With the schema an option's label or number becomes its id, a plain text.   *)
Form(f, schema) ==
  IF KindOf(f) = "choice" /\ schema THEN "plain" ELSE fieldRegime.fields[f].form
Takes(f, schema) ==
  IF KindOf(f) = "choice" /\ ~schema THEN {} ELSE fieldRegime.fields[f].takes
(* Rewritten as a person for the bulk request.                                 *)
Coerced(fs, schema) == {f \in fs : Form(f, schema) \in {"number", "long"}}

Idle == [at |-> "idle", now |-> {}, rest |-> {}, todo |-> {}, schema |-> FALSE,
         field |-> "none", cand |-> 0, order |-> <<>>, pos |-> 0, conflicts |-> 0,
         only405 |-> TRUE, trusted |-> {}, ok |-> {}, failed |-> {},
         pressed |-> {}, hollow |-> {}, fine |-> TRUE]

FieldInit ==
  /\ fieldRegime \in FieldRegimes
  /\ fieldLeft = fieldRegime.budget
  /\ hint = [ladder \in {"dict", "scalar"} |-> 0]
  /\ noText = FALSE
  /\ cells = [c \in fieldRegime.callers |-> [f \in Fields |-> "old"]]
  /\ patch = [c \in fieldRegime.callers |-> Idle]

Puts(c, p) == patch' = [patch EXCEPT ![c] = p]
Spends(what) == fieldLeft[what] > 0 /\ fieldLeft' = [fieldLeft EXCEPT ![what] = @ - 1]
Holds(c, fs) == cells' = [cells EXCEPT ![c] = [f \in Fields |-> IF f \in fs THEN "asked" ELSE @[f]]]
Maybe(c, fs) == Holds(c, fs) \/ UNCHANGED cells
Learns(ladder, body) == hint' = [hint EXCEPT ![ladder] = body]
Shared == UNCHANGED <<hint, noText>>

(* patch_item_field_values: persons in a second pass, when both kinds are set. *)
(* A title goes the way of the texts first.                                    *)
Begin(c) ==
  /\ patch[c].at \in {"idle", "end"} /\ Spends("calls")
  /\ \E fs \in fieldRegime.asks :
       LET persons == {f \in fs : KindOf(f) = "person"} IN
       \/ Puts(c, IF persons \in {{}, fs}
                  THEN [Idle EXCEPT !.at = "schema", !.now = fs]
                  ELSE [Idle EXCEPT !.at = "schema", !.now = fs \ persons, !.rest = persons])
       \/ /\ \A f \in fs : KindOf(f) = "text"
          /\ Puts(c, [Idle EXCEPT !.at = IF noText THEN "schema" ELSE "text", !.now = fs,
                                  !.pos = 1])
  /\ cells' = [cells EXCEPT ![c] = [f \in Fields |-> "old"]]
  /\ UNCHANGED fieldRegime /\ Shared

(* ------------------------------------------------------- _enforce_item_text *)
TextTakes(pos) == pos \in fieldRegime.text

(* Mutation: any refusal says that texts cannot be set. *)
ForgetsTextAtOnce(p, code) == p.pos = TextBodies
ForgetsText(p, code) == p.pos = TextBodies /\ p.only405 /\ code = "405"

(* Only when every body was answered "method not allowed" is that remembered.  *)
SetText(c) ==
  LET p == patch[c]
      Next1(code) == [p EXCEPT !.only405 = @ /\ code = "405",
                               !.at = IF p.pos = TextBodies THEN "schema" ELSE "text",
                               !.pos = @ + 1]
  IN
  /\ p.at = "text"
  /\ \/ /\ TextTakes(p.pos)
        /\ Holds(c, p.now) /\ Puts(c, [p EXCEPT !.at = "end", !.ok = p.now])
        /\ UNCHANGED <<fieldLeft, noText>>
     \/ \E code \in fieldRegime.textRefusals :
          /\ ~TextTakes(p.pos)
          /\ noText' = (noText \/ ForgetsText(p, code)) /\ Puts(c, Next1(code))
          /\ UNCHANGED <<fieldLeft, cells>>
     \/ /\ Spends("broken") /\ Puts(c, Next1("broken"))
        /\ noText' = (noText \/ ForgetsText(p, "broken"))
        /\ IF TextTakes(p.pos) THEN Maybe(c, p.now) ELSE UNCHANGED cells
  /\ UNCHANGED <<fieldRegime, hint>>

(* ------------------------------------------------- patch_item_field_values *)
(* Without the board's space this pass sets nothing and says so.               *)
PassEnds(p) ==
  IF p.rest = {} THEN [p EXCEPT !.at = "end"]
  ELSE [p EXCEPT !.at = "schema", !.now = p.rest, !.rest = {}]

LoadSchema(c) ==
  LET p == patch[c] IN
  /\ p.at = "schema"
  /\ \/ \E known \in BOOLEAN :
          Puts(c, [p EXCEPT !.schema = known, !.todo = p.now, !.pos = 1, !.trusted = {},
                            !.at = IF Coerced(p.now, known) = {} THEN "pick" ELSE "bulk"])
     \/ Puts(c, PassEnds([p EXCEPT !.fine = FALSE]))
  /\ UNCHANGED <<fieldRegime, fieldLeft, cells>> /\ Shared

BulkBodies == 6
(* Mutation: a bulk that was answered well has set everything. *)
TrustsAll(p) == IF p.pos = 1 THEN p.now ELSE {}
(* "Bulk PATCH often returns 200 while only applying some field types": only   *)
(* what was rewritten for it is taken as set, and only from the flat body.     *)
Trusts(p) == IF p.pos = 1 THEN Coerced(p.now, p.schema) ELSE {}

Bulk(c) ==
  LET p == patch[c]
      set == {f \in Coerced(p.now, p.schema) : KindOf(f) = "person"}
      next == [p EXCEPT !.pos = @ + 1, !.at = IF p.pos = BulkBodies THEN "pick" ELSE "bulk"]
  IN
  /\ p.at = "bulk"
  /\ \/ /\ p.pos = fieldRegime.bulk /\ Holds(c, set)
        /\ Puts(c, [p EXCEPT !.at = "pick", !.ok = @ \cup Trusts(p),
                             !.todo = @ \ Trusts(p), !.hollow = @ \cup (Coerced(p.now, p.schema) \ set)])
        /\ UNCHANGED fieldLeft
     \/ p.pos # fieldRegime.bulk /\ Puts(c, next) /\ UNCHANGED <<fieldLeft, cells>>
     \/ /\ Spends("broken") /\ Puts(c, next)
        /\ IF p.pos = fieldRegime.bulk THEN Maybe(c, set) ELSE UNCHANGED cells
  /\ UNCHANGED fieldRegime /\ Shared

(* One field after the other: together they would lock each other out.         *)
Pick(c) ==
  LET p == patch[c] IN
  /\ p.at = "pick"
  /\ \/ \E f \in p.todo :
          Puts(c, [p EXCEPT !.at = "try", !.field = f, !.cand = 1, !.pos = 1, !.conflicts = 0,
                            !.todo = @ \ {f}, !.order = Bodies(Candidates(Form(f, p.schema))[1])])
     \/ p.todo = {} /\ Puts(c, PassEnds(p))
  /\ UNCHANGED <<fieldRegime, fieldLeft, cells>> /\ Shared

Ladder(p) == Candidates(Form(p.field, p.schema))[p.cand]

(* After a body that was not taken: the next body, the next candidate, or no   *)
(* more, and the field is reported as failed.                                  *)
Onwards(p) ==
  LET ladders == Candidates(Form(p.field, p.schema)) IN
  CASE p.pos < Len(p.order)     -> [p EXCEPT !.pos = @ + 1, !.conflicts = 0]
    [] p.pos = Len(p.order) /\ p.cand < Len(ladders) ->
         [p EXCEPT !.cand = @ + 1, !.pos = 1, !.conflicts = 0,
                   !.order = Bodies(ladders[p.cand + 1])]
    [] OTHER -> [p EXCEPT !.at = "pick", !.failed = @ \cup {<<p.field, p.schema>>}]

(* Mutation: the bare body is remembered like any other. *)
RemembersAny(p) == Learns(Ladder(p), p.order[p.pos])
(* Mutation: the place in the rearranged list is remembered. *)
RemembersPlace(p) == Learns(Ladder(p), p.pos)
(* The body is remembered, except a bare one: "Plaky returns 200 for it        *)
(* WITHOUT persisting".                                                        *)
Remembers(p) ==
  IF Ladder(p) = "dict" /\ p.order[p.pos] = Bare THEN UNCHANGED hint
  ELSE Learns(Ladder(p), p.order[p.pos])

ConflictTries == 3
(* Mutation: a conflict is taken for a refusal. *)
NoPatience(p) == Onwards(p)
(* "409 means another writer holds the item, not that this body shape is       *)
(* wrong": it is sent again, three times.                                      *)
Conflicted(p) ==
  IF p.conflicts < ConflictTries THEN [p EXCEPT !.conflicts = @ + 1]
  ELSE [Onwards(p) EXCEPT !.pressed = @ \cup {p.field}]

TryBody(c) ==
  LET p == patch[c]
      body == p.order[p.pos]
      persists == <<p.cand, body>> \in Takes(p.field, p.schema)
      hollow == ~persists /\ Ladder(p) = "dict" /\ body = Bare /\ fieldRegime.polite
      done == [p EXCEPT !.at = "pick", !.ok = @ \cup {p.field}]
  IN
  /\ p.at = "try"
  /\ \/ /\ persists
        /\ Holds(c, {p.field}) /\ Puts(c, done) /\ Remembers(p)
        /\ UNCHANGED fieldLeft
     \/ /\ hollow
        /\ Puts(c, [done EXCEPT !.hollow = @ \cup {p.field}]) /\ Remembers(p)
        /\ UNCHANGED <<fieldLeft, cells>>
     \/ ~persists /\ ~hollow /\ Puts(c, Onwards(p)) /\ UNCHANGED <<fieldLeft, cells, hint>>
     \/ Spends("conflicts") /\ Puts(c, Conflicted(p)) /\ UNCHANGED <<cells, hint>>
     \/ /\ Spends("broken") /\ Puts(c, [Onwards(p) EXCEPT !.pressed = @ \cup {p.field}])
        /\ IF persists THEN Maybe(c, {p.field}) ELSE UNCHANGED cells
        /\ UNCHANGED hint
  /\ UNCHANGED <<fieldRegime, noText>>

(* A request that is never answered raises in the caller, done or not.         *)
Silence(c) ==
  LET p == patch[c] IN
  /\ p.at \in {"text", "bulk", "try"} /\ Spends("lost")
  /\ Puts(c, [p EXCEPT !.at = "end", !.fine = FALSE, !.todo = {}])
  /\ Maybe(c, IF p.at = "try" THEN {p.field} ELSE p.now)
  /\ UNCHANGED fieldRegime /\ Shared

FieldNext ==
  \E c \in fieldRegime.callers :
    Begin(c) \/ SetText(c) \/ LoadSchema(c) \/ Bulk(c) \/ Pick(c) \/ TryBody(c) \/ Silence(c)

(* ------------------------------------------------------------ correctness *)
FieldTypeOK ==
  /\ hint \in [{"dict", "scalar"} -> 0..5] /\ noText \in BOOLEAN
  /\ \A c \in fieldRegime.callers :
       /\ patch[c].ok \subseteq Fields /\ patch[c].failed \subseteq Fields \X BOOLEAN
       /\ patch[c].conflicts \in 0..ConflictTries

(* A field that is reported as set holds what was asked: a "silently wrong     *)
(* field" (client.py:1516) is due to a bare body or to a number that went in   *)
(* bulk as a person, while the schema was not known.                           *)
ReportedIsHeld ==
  \A c \in fieldRegime.callers : \A f \in patch[c].ok :
    cells[c][f] = "asked" \/ f \in patch[c].hollow

(* A field Plaky would have taken is given up only for more conflicts than the *)
(* client waits out, or for errors, of its own.                                *)
LocksAreWaitedOut ==
  \A c \in fieldRegime.callers : \A f \in Fields, schema \in BOOLEAN :
    <<f, schema>> \in patch[c].failed => Takes(f, schema) = {} \/ f \in patch[c].pressed

(* What the process remembers is true: a body that comes first is one that     *)
(* sets some field, so that nothing is set in vain because of a hint, and      *)
(* texts are given up only on a Plaky that cannot set them.                    *)
LearnsTheTruth ==
  /\ \A ladder \in {"dict", "scalar"} : hint[ladder] # 0 =>
       \E f \in Fields, schema \in BOOLEAN : \E t \in Takes(f, schema) :
         t[2] = hint[ladder] /\ Candidates(Form(f, schema))[t[1]] = ladder
  /\ noText => fieldRegime.text = {}

FieldsAreTrue == FieldTypeOK /\ ReportedIsHeld /\ LocksAreWaitedOut /\ LearnsTheTruth
=============================================================================
