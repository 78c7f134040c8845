----------------------------- MODULE TaskWrites -----------------------------
(* Creating a task or a subtask and changing one: which columns of the board   *)
(* get the developer and the tester, what status goes with it, and what is     *)
(* checked afterwards.  Boards name their person columns differently, a write  *)
(* may land in part, and people change the card meanwhile.                     *)
EXTENDS Naturals, FiniteSets, Sequences

CONSTANTS TaskRegimes,   (* the board's person columns, the configured keys, budgets *)
          Requests       (* what callers ask for                                 *)

(* Of a call, `missed` says that its fields went to another card, `told` what  *)
(* it reports of the developer's column, `walk` what became of its walk-back.  *)
VARIABLES taskRegime, taskLeft,
          card,          (* Plaky: the card at work, and another one of the board *)
          touched,       (* somebody changed the card since the call began       *)
          pickable,      (* whom the QA picker would take                        *)
          call           (* the call of create/subtask/update_task_internal      *)
taskVars == <<taskRegime, taskLeft, card, touched, pickable, call>>

Nobody == "nobody"
People == {"dev", "tester"}
Anyone == People \cup {Nobody}
TaskStatuses == {"", "needs", "assigned", "progress"}
(* A key is the key of one column of a board.                                  *)
ASSUME TaskAssumption ==
  /\ \A regime \in TaskRegimes :
       /\ DOMAIN regime.columns \subseteq Nat /\ regime.statuses \in BOOLEAN
       /\ \A i, j \in DOMAIN regime.columns :
            regime.columns[i].key # "" /\ (regime.columns[i].key = regime.columns[j].key => i = j)
  /\ Requests \subseteq
       [kind : {"create", "subtask", "update"}, engineer : Anyone, given : Anyone, qa : Anyone,
        auto : BOOLEAN, status : TaskStatuses, clear : BOOLEAN, diff : BOOLEAN]
(* filter_developer: roles that mean code; whom the roster does not know passes.*)
MayDevelop(person) == person # "tester"

(* ------------------------------------------------------------- the columns *)
(* The board's person columns in order: their keys and what people call them.  *)
Columns == taskRegime.columns
ColumnKeys == {Columns[i].key : i \in DOMAIN Columns}
Called(label) == {i \in DOMAIN Columns : Columns[i].label = label}
NotKeyed(key) == {i \in DOMAIN Columns : Columns[i].key # key}
Foremost(them) == CHOOSE i \in them : \A j \in them : i <= j
FirstKey(them) == IF them = {} THEN "" ELSE Columns[Foremost(them)].key
OrElse(key, other) == IF key # "" THEN key ELSE other

(* infer_plaky_field_keys_from_normalized: by name, then any other column.     *)
InferEngineer == OrElse(FirstKey(Called("assignee")), FirstKey(NotKeyed(FirstKey(Called("qa")))))
InferQa == OrElse(FirstKey(Called("qa")), FirstKey(NotKeyed(InferEngineer)))
(* _infer_plaky_person_column_keys, for a key still missing: no column that is *)
(* not named so is taken for the tester's.                                     *)
MissingQa(qa) == OrElse(qa, FirstKey(Called("qa")))
MissingEngineer(engineer, qa) ==
  OrElse(engineer, OrElse(FirstKey(Called("assignee") \cap NotKeyed(qa)), FirstKey(NotKeyed(qa))))

(* _scrub_placeholder_field_key: a board that is known decides.                *)
Scrub(key, known) == IF known /\ key \notin ColumnKeys THEN "" ELSE key

(* The keys of a creation: "board schema wins over global config".             *)
(* Mutation: the configured key first. *)
ConfiguredEngineer(known) == OrElse(Scrub(taskRegime.config.engineer, known), IF known THEN InferEngineer ELSE "")
CreateEngineer(known) == OrElse(IF known THEN InferEngineer ELSE "", Scrub(taskRegime.config.engineer, known))
CreateQa(known) == OrElse(IF known THEN InferQa ELSE "", Scrub(taskRegime.config.qa, known))
(* A schema that could not be read may be read by the time keys are missed.    *)
CreateKeys(known, late) ==
  LET qa == IF known \/ late THEN MissingQa(CreateQa(known)) ELSE CreateQa(known)
  IN [engineer |-> IF known \/ late THEN MissingEngineer(CreateEngineer(known), qa) ELSE CreateEngineer(known),
      qa |-> qa]
(* The keys of a change: the caller's or the configured one, then the board's. *)
UpdateKeys(known, late) ==
  LET cfgQa == Scrub(taskRegime.config.qa, known)
      cfgEngineer == Scrub(taskRegime.config.engineer, known)
      qa == IF known \/ late THEN MissingQa(cfgQa) ELSE cfgQa
  IN [engineer |-> IF known \/ late THEN MissingEngineer(cfgEngineer, qa) ELSE cfgEngineer, qa |-> qa]

(* ----------------------------------------------------- what will be written *)
NoFields == [k \in {} |-> Nobody]
FilledWith(fields, key, value) ==
  [k \in DOMAIN fields \cup {key} |-> IF k = key THEN value ELSE fields[k]]
Without(fields, key) == [k \in DOMAIN fields \ {key} |-> fields[k]]
Put(fields, key, person) == IF key = "" \/ person = Nobody THEN fields ELSE FilledWith(fields, key, person)
Eligible(person) == IF person # Nobody /\ MayDevelop(person) THEN person ELSE Nobody

(* Mutation: only the developer who was asked for by name is judged. *)
FilterNothingMore(fields, key) == fields
(* Whatever way a person came into the developer's column.                     *)
FilterColumn(fields, key) ==
  IF key \in DOMAIN fields /\ ~MayDevelop(fields[key]) THEN Without(fields, key) ELSE fields

CreateFields(request, keys) ==
  LET named == Put(Put(NoFields, keys.engineer, Eligible(request.engineer)), keys.qa,
                   IF request.qa # Nobody THEN request.qa ELSE IF request.auto THEN pickable ELSE Nobody)
      given == IF request.given = Nobody THEN named ELSE FilledWith(named, FirstKey(Called("assignee")), request.given)
  IN FilterColumn(given, keys.engineer)
(* create_subtask_internal asks no filter.                                     *)
SubtaskFields(request, keys) ==
  Put(Put(NoFields, keys.engineer, request.engineer), keys.qa,
      IF request.qa # Nobody THEN request.qa ELSE IF request.auto THEN pickable ELSE Nobody)
UpdateFields(request, keys) ==
  LET qa == Put(NoFields, keys.qa, IF request.auto /\ request.qa = Nobody THEN pickable ELSE request.qa)
  IN IF request.clear THEN IF keys.engineer = "" THEN qa ELSE FilledWith(qa, keys.engineer, Nobody)
     ELSE Put(qa, keys.engineer, Eligible(request.engineer))

(* Mutation: a card has an owner if the caller named a developer. *)
JudgesByArgument(request, fields, keys) == keys.engineer # "" /\ Eligible(request.engineer) # Nobody
AssigneePresent(request, fields, keys) == keys.engineer \in DOMAIN fields

(* _status_follow_assignee.  Of a status that was asked for only the one before *)
(* an assignment gives way.  "kept" is what stands when nothing is resolved.   *)
Follow(request, present) ==
  IF ~taskRegime.statuses THEN [status |-> request.status, note |-> FALSE]
  ELSE IF request.status = "" THEN [status |-> IF present THEN "assigned" ELSE "needs", note |-> TRUE]
  ELSE IF present /\ request.status = "needs" THEN [status |-> "assigned", note |-> TRUE]
  ELSE [status |-> request.status, note |-> FALSE]

(* ------------------------------------------------------------- state machine *)
Cards == {"own", "other"}
Blank == [exists |-> TRUE, status |-> "", col |-> [k \in ColumnKeys |-> Nobody]]
TaskResting == [at |-> "rest", request |-> CHOOSE r \in Requests : TRUE, known |-> TRUE,
            keys |-> [engineer |-> "", qa |-> ""], fields |-> NoFields, status |-> "",
            note |-> FALSE, present |-> FALSE, id |-> FALSE, faults |-> 0, missed |-> FALSE,
            told |-> "", walk |-> "", seen |-> Blank]

TaskInit ==
  /\ taskRegime \in TaskRegimes /\ taskLeft = taskRegime.budget
  /\ \E status \in {"needs", "progress"}, owner \in {Nobody, "dev"} :
       card = [own |-> [Blank EXCEPT !.exists = FALSE],
               other |-> [Blank EXCEPT !.status = status, !.col = [k \in ColumnKeys |->
                            IF k = InferEngineer THEN owner ELSE Nobody]]]
  /\ touched = FALSE /\ pickable \in {"tester", Nobody}
  /\ call = TaskResting

SpendsTask(what) == taskLeft[what] > 0 /\ taskLeft' = [taskLeft EXCEPT ![what] = @ - 1]
TaskGoes(c) == call' = c
Done(c) == [c EXCEPT !.at = "done"]
(* A change is made of the card that is there, a creation makes one.           *)
TaskTarget == IF call.request.kind = "update" THEN "other" ELSE "own"

(* The keys, the fields and the status, from what is known of the board.       *)
Prepare(request, known, late) ==
  LET keys == IF request.kind = "update" THEN UpdateKeys(known, late) ELSE CreateKeys(known, late)
      fields == CASE request.kind = "create" -> CreateFields(request, keys)
                  [] request.kind = "subtask" -> SubtaskFields(request, keys)
                  [] OTHER -> UpdateFields(request, keys)
      present == IF request.kind = "create" THEN AssigneePresent(request, fields, keys)
                 ELSE request.engineer # Nobody /\ keys.engineer # ""
      follow == IF request.kind = "update" THEN [status |-> request.status, note |-> FALSE]
                ELSE Follow(request, present)
  IN [TaskResting EXCEPT
        !.at = IF request.kind # "update" THEN "create" ELSE IF request.diff THEN "diff" ELSE "patch",
        !.request = request, !.known = known, !.keys = keys, !.fields = fields,
        !.status = follow.status, !.note = follow.note, !.present = present]

BeginTask ==
  /\ call.at = "rest" /\ SpendsTask("calls")
  /\ \E request \in Requests, known, late \in BOOLEAN :
       /\ known => ~late
       /\ request.kind = "create" \/ request.given = Nobody
       /\ request.kind = "update" \/ (~request.clear /\ ~request.diff)
       /\ request.clear => request.engineer = Nobody
       /\ ~(request.kind = "update" /\ request.auto /\ request.qa = Nobody /\ pickable = Nobody)
       /\ TaskGoes(Prepare(request, known, late))
  /\ touched' = FALSE
  /\ UNCHANGED <<taskRegime, card, pickable>>

(* What lands of a write: all of it and an answer that says so, or less.       *)
Landing(c, which) ==
  [c EXCEPT !.col = [k \in ColumnKeys |-> IF k \in which \cap DOMAIN call.fields THEN call.fields[k] ELSE @[k]],
            !.status = IF "status" \in which /\ call.status # "" THEN call.status ELSE @]
Parts == (DOMAIN call.fields \cap ColumnKeys) \cup (IF call.status = "" THEN {} ELSE {"status"})
Faultless(which, ok) == which = Parts /\ (ok <=> DOMAIN call.fields \subseteq ColumnKeys)
Costs(which, ok) ==
  IF Faultless(which, ok) THEN UNCHANGED taskLeft ELSE SpendsTask("faults")

CallFails(c) == [c EXCEPT !.at = "done", !.told = "error"]
(* create_task and its field patch: both may fail, and raise.  Plaky may name  *)
(* the card it made or not, and only of a named one the fields are patched.    *)
CreateCard ==
  /\ call.at = "create"
  /\ \/ SpendsTask("faults") /\ TaskGoes(CallFails(call)) /\ UNCHANGED card
     \/ \E which \in SUBSET Parts :
          /\ SpendsTask("faults") /\ TaskGoes(CallFails(call))
          /\ card' = [card EXCEPT !.own = Landing([Blank EXCEPT !.exists = TRUE], which)]
     \/ \E which \in SUBSET Parts, ok, id \in BOOLEAN :
          /\ IF id THEN Costs(which, ok) ELSE SpendsTask("faults") /\ which = {} /\ ~ok
          /\ card' = [card EXCEPT !.own = Landing([Blank EXCEPT !.exists = TRUE], which)]
          /\ TaskGoes([call EXCEPT !.id = id, !.faults = IF Faultless(which, ok) THEN 0 ELSE 1,
                     !.at = IF call.request.kind = "subtask" THEN "done"
                            ELSE IF ok \/ Parts = {} THEN "verify" ELSE "again"])
  /\ UNCHANGED <<taskRegime, touched, pickable>>

(* Mutation: the last row of the list is the card. *)
LastRow(listed) == "other"
(* _run_post_create_assignments: the named card, one of its title, or the last *)
(* of the list; none of an empty list.  It may raise.                          *)
ListedAs(listed) == IF listed THEN "own" ELSE "other"
PatchAgain ==
  /\ call.at = "again"
  /\ \/ \E which \in SUBSET Parts, ok, listed \in BOOLEAN :
          LET c == IF call.id THEN "own" ELSE ListedAs(listed) IN
          /\ call.id => listed
          /\ IF listed THEN Costs(which, ok) ELSE SpendsTask("faults") /\ Faultless(which, ok)
          /\ card' = [card EXCEPT ![c] = Landing(@, which)]
          /\ TaskGoes([call EXCEPT !.at = "verify", !.missed = ~listed])
     \/ /\ SpendsTask("faults") /\ UNCHANGED card
        /\ TaskGoes(CallFails(call)) \/ (~call.id /\ TaskGoes([call EXCEPT !.at = "verify"]))
  /\ UNCHANGED <<taskRegime, touched, pickable>>

(* The column is read again, of a card that has been named: an empty one walks *)
(* the status back, and a reading that fails or raises is told.                *)
(* Mutation: a reading that fails says that the column is empty. *)
EmptyIfUnread(read, owner) == owner = Nobody \/ ~read
FoundEmpty(read, owner) == read /\ owner = Nobody
Verify ==
  /\ call.at = "verify"
  /\ IF ~(call.present /\ call.note /\ call.id)
     THEN TaskGoes(Done(call)) /\ UNCHANGED taskLeft
     ELSE \E read \in BOOLEAN :
            LET key == call.keys.engineer
                owner == IF key \in ColumnKeys THEN card.own.col[key] ELSE Nobody
            IN /\ IF read THEN UNCHANGED taskLeft ELSE SpendsTask("faults")
               /\ TaskGoes(IF FoundEmpty(read, owner) THEN [call EXCEPT !.at = "back"]
                       ELSE IF read THEN Done(call) ELSE [Done(call) EXCEPT !.told = "unverified"])
  /\ UNCHANGED <<taskRegime, card, touched, pickable>>
(* Whether the write was refused nobody looks: it is told as done.  A label    *)
(* that is not found any more is not written, and nothing is told.             *)
WalkedBack(c, how, told) == [c EXCEPT !.at = "done", !.walk = how, !.told = told]
WalkBack ==
  /\ call.at = "back"
  /\ \/ /\ card' = [card EXCEPT !.own.status = "needs"] /\ UNCHANGED taskLeft
        /\ TaskGoes(WalkedBack(call, "written", "set_back"))
     \/ /\ SpendsTask("faults") /\ UNCHANGED card
        /\ \/ TaskGoes(WalkedBack(call, "refused", "set_back"))
           \/ TaskGoes(WalkedBack(call, "raised", "unverified"))
           \/ TaskGoes(WalkedBack(call, "no_label", ""))
  /\ UNCHANGED <<taskRegime, touched, pickable>>

(* update_task_internal: with diff_only, what the card already says is left out.*)
(* Mutation: a field that is set at all is left out. *)
SetAtAll(c, key, value) == key \in DOMAIN c.col /\ c.col[key] # Nobody
SameValue(c, key, value) == key \in DOMAIN c.col /\ c.col[key] = value
ReadDiff ==
  /\ call.at = "diff"
  /\ \/ LET c == card.other
            left == {k \in DOMAIN call.fields : ~SameValue(c, k, call.fields[k])}
        IN TaskGoes([call EXCEPT !.at = "patch", !.fields = [k \in left |-> @[k]],
                   !.status = IF @ = c.status THEN "" ELSE @])
           /\ UNCHANGED taskLeft
     \/ SpendsTask("faults") /\ TaskGoes([call EXCEPT !.at = "patch"])
  /\ UNCHANGED <<taskRegime, card, touched, pickable>>

(* The change, and then whether the status has to follow a developer.          *)
PatchCard ==
  /\ call.at = "patch"
  /\ \E which \in SUBSET Parts, ok \in BOOLEAN :
       /\ Parts = {} => ok
       /\ Costs(which, ok)
       /\ card' = [card EXCEPT !.other = Landing(@, which)]
       /\ TaskGoes([call EXCEPT !.faults = IF Faultless(which, ok) THEN 0 ELSE 1,
                  !.at = IF /\ call.request.status = "" /\ taskRegime.statuses
                            /\ Eligible(call.request.engineer) # Nobody
                              \/ (call.request.engineer # Nobody /\ call.keys.engineer = "")
                         THEN "bump" ELSE "done"])
  /\ UNCHANGED <<taskRegime, touched, pickable>>

(* bump_status_for_assignee reads, and writes unless the work has gone on.     *)
(* Mutation: without reading. *)
BumpsAlways(status) == TRUE
Bumps(status) == status \in {"", "needs"}
ReadForBump ==
  /\ call.at = "bump"
  /\ \/ /\ TaskGoes(IF Bumps(card.other.status) THEN [call EXCEPT !.at = "raise", !.seen = card.other] ELSE Done(call))
        /\ UNCHANGED taskLeft
     \/ SpendsTask("faults") /\ TaskGoes(Done(call))
  /\ UNCHANGED <<taskRegime, card, touched, pickable>>
Raise ==
  /\ call.at = "raise"
  /\ \/ card' = [card EXCEPT !.other.status = "assigned"] /\ UNCHANGED taskLeft
     \/ SpendsTask("faults") /\ UNCHANGED card
  /\ TaskGoes(Done(call))
  /\ UNCHANGED <<taskRegime, touched, pickable>>

(* Somebody works on the board.                                                *)
PersonMoves ==
  /\ call.at \notin {"rest", "done"} /\ SpendsTask("moves") /\ touched' = TRUE
  /\ \E c \in {d \in Cards : card[d].exists} :
       \/ card' = [card EXCEPT ![c].status = "progress"]
       \/ InferEngineer # "" /\ card' = [card EXCEPT ![c].col[InferEngineer] = "dev"]
  /\ UNCHANGED <<taskRegime, pickable, call>>

TaskNext ==
  \/ BeginTask \/ CreateCard \/ PatchAgain \/ Verify \/ WalkBack
  \/ ReadDiff \/ PatchCard \/ ReadForBump \/ Raise \/ PersonMoves

(* --------------------------------------------------------------- correctness *)
Ended == call.at = "done"
Owner(c) == IF Called("assignee") = {} THEN Nobody ELSE card[c].col[FirstKey(Called("assignee"))]
Tester(c) == IF Called("qa") = {} THEN Nobody ELSE card[c].col[FirstKey(Called("qa"))]
Named == Called("assignee") # {} /\ Called("qa") # {}

(* "If there's an Assignee in the column, its status is Assigned", and a card   *)
(* never claims an owner it has not got, whatever landed of the writes: once a  *)
(* creation is over, of a board that was known, for a status nobody asked for,  *)
(* and unless the call fails or tells that it could not verify.  Three gaps the *)
(* code leaves silently: a card that Plaky did not name is not read again, a    *)
(* walk-back that is refused, and one whose label is not found.                *)
Unwalked == ~call.id \/ call.walk \in {"refused", "no_label"}
OwnerAndStatusAgree ==
  Ended /\ call.request.kind = "create" /\ card.own.exists /\ call.known /\ call.request.status = ""
    /\ ~touched /\ call.told \notin {"unverified", "error"} /\ Called("assignee") # {} =>
      /\ card.own.status = "assigned" => Owner("own") # Nobody \/ Unwalked
      /\ card.own.status = "needs" => Owner("own") = Nobody

(* The tester never takes the owner's column nor the developer the tester's, on *)
(* a board that names both and was known, whatever the configuration says that  *)
(* another board filled in.  (A change trusts the configuration first.)        *)
ColumnsAreRight ==
  call.known /\ Named /\ call.request.kind # "update" /\ ~touched /\ card.own.exists =>
    /\ call.request.engineer # "tester" /\ call.request.given # "tester" => Owner("own") # "tester"
    /\ Tester("own") = "dev" => call.request.qa = "dev"

(* The configured keys, where there are any, are this board's. *)
ConfiguredRight ==
  /\ taskRegime.config.engineer \in {"", InferEngineer} /\ taskRegime.config.qa \in {"", InferQa}

(* Who may not develop is never made the owner of a task, by argument, by raw   *)
(* field values or by a change, as long as the configured keys, which a change *)
(* trusts, are this board's.  (A subtask is not asked about.)                  *)
IneligibleNeverOwns ==
  call.known /\ Named /\ (call.request.kind = "create" \/ (call.request.kind = "update" /\ ConfiguredRight)) =>
    Owner("own") # "tester" /\ Owner("other") # "tester"

(* A creation writes on no other card unless Plaky neither named the card it    *)
(* made nor lists it.                                                          *)
OtherCardsUntouched ==
  call.at # "rest" /\ call.request.kind # "update" /\ ~touched /\ ~call.missed =>
    Owner("other") # "tester" /\ Tester("other") = Nobody

(* Following the developer never pulls work back that had gone on, and a change *)
(* that went well is there.                                                    *)
ChangeIsMade ==
  Ended /\ call.request.kind = "update" /\ ~touched /\ call.faults = 0 =>
    /\ \A k \in DOMAIN call.fields \cap ColumnKeys : card.other.col[k] = call.fields[k]
    /\ LET wanted == UpdateFields(call.request, call.keys) IN
       \A k \in DOMAIN wanted \cap ColumnKeys : card.other.col[k] = wanted[k]
    /\ card.other.status = "assigned" => call.seen.status # "progress" /\ call.request.status \in {"", "assigned"}


TasksAreTrue ==
  /\ OwnerAndStatusAgree /\ ColumnsAreRight /\ IneligibleNeverOwns
  /\ OtherCardsUntouched /\ ChangeIsMade
=============================================================================
