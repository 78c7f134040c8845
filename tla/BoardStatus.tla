------------------------------ MODULE BoardStatus ------------------------------
(* Which column of a board an intent of the workflow means, and which intent a *)
(* column stands for: boards name their columns as they like, and the code     *)
(* scores every label against hints.  A board here is the list of its columns, *)
(* and a task on it is moved by intents and by people.                         *)
EXTENDS Integers, Sequences, FiniteSets, Functions

CONSTANT StatusBoards     (* the boards: sequences of different labels *)

VARIABLES statusBoard,    (* the board's status column, with its options in order *)
          column,         (* the option the task is on                            *)
          moved           (* what moved it last: an intent, people, or nothing    *)
statusVars == <<statusBoard, column, moved>>

ColumnLabels == {"NEEDS_ASSIGNED", "ASSIGNED", "AVAILABLE", "IN_PROGRESS", "REVISIONS_IN_PROGRESS",
            "PAUSED", "NEEDS_QA", "NEEDS_QA_AGAIN", "IN_QA", "QA_VERIFIED", "QA_REJECTED",
            "COMPLETED", "DEPLOYED"}
ASSUME StatusAssumption == \A b \in StatusBoards : b \in Seq(ColumnLabels)
(* The workflow, by rank; "deployed" has none.                                 *)
WorkflowRank ==
  [needs_assigned |-> 0, assigned |-> 1, in_progress |-> 2, paused |-> 2, needs_qa |-> 3,
   again |-> 3, changes |-> 3, in_qa |-> 4, approved |-> 5, completed |-> 6]
Intents == DOMAIN WorkflowRank \cup {"deployed"}

(* ---------------------------------------------------------------- scoring *)
(* Ten times what the hints of an intent give a label that contains them, or   *)
(* some of their words.  (Mutation, as the score: the negatives are left out.) *)
HintsAlone(intent, label) ==
  CASE intent = "approved"    -> IF label = "QA_VERIFIED" THEN 448 ELSE 0
    [] intent = "paused"      -> IF label = "PAUSED" THEN 257 ELSE 0
    [] intent = "completed"   -> IF label = "COMPLETED" THEN 389 ELSE 0
    [] intent = "deployed"    -> IF label = "DEPLOYED" THEN 323 ELSE 0
    [] intent = "assigned"    -> IF label \in {"ASSIGNED", "NEEDS_ASSIGNED"} THEN 191 ELSE 0
    [] intent = "in_progress" ->
         CASE label = "IN_PROGRESS" -> 272 [] label = "REVISIONS_IN_PROGRESS" -> 687 [] OTHER -> 0
    [] intent = "in_qa" ->
         CASE label = "IN_QA" -> 110 [] label \in {"IN_PROGRESS", "REVISIONS_IN_PROGRESS"} -> 15
           [] OTHER -> 0
    [] intent = "needs_qa" ->
         CASE label \in {"NEEDS_QA", "NEEDS_QA_AGAIN"} -> 191 [] label = "NEEDS_ASSIGNED" -> 15
           [] OTHER -> 0
    [] intent = "again" ->
         CASE label = "NEEDS_QA_AGAIN" -> 529 [] label \in {"NEEDS_QA", "NEEDS_ASSIGNED"} -> 15
           [] OTHER -> 0
    [] intent = "needs_assigned" ->
         CASE label = "NEEDS_ASSIGNED" -> 368 [] label = "AVAILABLE" -> 213
           [] label \in {"ASSIGNED", "NEEDS_QA", "NEEDS_QA_AGAIN"} -> 30 [] OTHER -> 0
    [] intent = "changes" ->
         CASE label = "QA_REJECTED" -> 448 [] label = "REVISIONS_IN_PROGRESS" -> 176
           [] label \in {"NEEDS_ASSIGNED", "NEEDS_QA", "NEEDS_QA_AGAIN"} -> 30 [] OTHER -> 0

(* The labels among them that a negative speaks against.                       *)
Against ==
  [needs_assigned |-> {"NEEDS_QA", "NEEDS_QA_AGAIN"}, assigned |-> {"NEEDS_ASSIGNED"}]

Score(intent, label) ==
  HintsAlone(intent, label)
    - (IF intent \in DOMAIN Against /\ label \in Against[intent] THEN 120 ELSE 0)

(* "Again" is only ever a column that says so.                                 *)
Admits(intent, label) == intent = "again" => label = "NEEDS_QA_AGAIN"

(* The first option with the best score, if that is more than nothing.         *)
None == "none"
ResolveStatus(board, intent) ==
  LET good == {i \in DOMAIN board : Admits(intent, board[i]) /\ Score(intent, board[i]) > 0}
      best == {i \in good : \A j \in good : Score(intent, board[j]) <= Score(intent, board[i])}
  IN IF best = {} THEN None ELSE board[CHOOSE i \in best : \A j \in best : i <= j]

(* ---------------------------------------------------------------- reading *)
Meaning(board, label) ==
  {i \in DOMAIN WorkflowRank : ResolveStatus(board, i) = label}

(* Mutation: the highest rank is taken. *)
HighestMeaning(board, label) ==
  IF Meaning(board, label) = {} THEN None
  ELSE CHOOSE i \in Meaning(board, label) :
         \A j \in Meaning(board, label) : WorkflowRank[j] <= WorkflowRank[i]
(* Several intents can share an option: the lowest rank is taken, so that a    *)
(* write is refused only when the task is certainly further.                   *)
CurrentIntent(board, label) ==
  IF Meaning(board, label) = {} THEN None
  ELSE CHOOSE i \in Meaning(board, label) :
         \A j \in Meaning(board, label) : WorkflowRank[i] <= WorkflowRank[j]

(* ------------------------------------------------------------------ writing *)
Ownership == {"needs_assigned", "assigned"}
(* Mutation: what is not known is not in the way. *)
RegressesIfKnown(current, next) ==
  /\ next \in Ownership /\ current \in DOMAIN WorkflowRank \ Ownership
  /\ WorkflowRank[next] < WorkflowRank[current]
(* Ownership never takes a task back, and an unread board permits nothing.     *)
Regresses(current, next) ==
  /\ next \in Ownership
  /\ \/ current = "unreadable"
     \/ current \in DOMAIN WorkflowRank \ Ownership /\ WorkflowRank[next] < WorkflowRank[current]

StatusInit ==
  /\ statusBoard \in StatusBoards
  /\ column \in Range(statusBoard) /\ moved = "nothing"

(* An intent is written where the board has a column for it.  The item may be  *)
(* unreadable, and an unreadable board resolves nothing.                       *)
WriteIntent(intent) ==
  /\ \E current \in {CurrentIntent(statusBoard, column), "unreadable"} :
       ~Regresses(current, intent)
  /\ ResolveStatus(statusBoard, intent) # None
  /\ column' = ResolveStatus(statusBoard, intent) /\ moved' = intent
  /\ UNCHANGED statusBoard

PeopleMove ==
  /\ column' \in Range(statusBoard) /\ moved' = "people"
  /\ UNCHANGED statusBoard

StatusNext == PeopleMove \/ \E i \in Intents : WriteIntent(i)

(* --------------------------------------------------------------- correctness *)
Own ==
  [needs_assigned |-> "NEEDS_ASSIGNED", assigned |-> "ASSIGNED", paused |-> "PAUSED",
   needs_qa |-> "NEEDS_QA", again |-> "NEEDS_QA_AGAIN", changes |-> "QA_REJECTED",
   in_qa |-> "IN_QA", approved |-> "QA_VERIFIED", completed |-> "COMPLETED",
   deployed |-> "DEPLOYED"]
Has(label) == label \in Range(statusBoard)

(* On a board that has an intent's own column, that one is meant, whatever     *)
(* else the board has and in whatever order; only "NEEDS_QA_AGAIN" may be      *)
(* taken for "NEEDS_QA", where it comes first.                                 *)
OwnColumnWins ==
  \A i \in DOMAIN Own : Has(Own[i]) =>
    \/ ResolveStatus(statusBoard, i) = Own[i]
    \/ i = "needs_qa" /\ ResolveStatus(statusBoard, i) = "NEEDS_QA_AGAIN"

(* "A board with no dedicated deployed column correctly yields no match"       *)
(* (dynamic_qa_status.py:176), nor does one with no column for "again".        *)
DedicatedOnly ==
  \A i \in {"deployed", "again", "approved", "completed", "paused"} :
    ResolveStatus(statusBoard, i) \in {Own[i], None}

(* A column is never read as further along than it is ("only when it is        *)
(* certain the task is further along", dynamic_qa_status.py:592); the one for  *)
(* work in progress is not, on a board that has a column for QA, or no second  *)
(* one for work in progress.                                                   *)
ReadNoFurther(label, rank) ==
  LET read == CurrentIntent(statusBoard, label) IN Has(label) /\ read # None => WorkflowRank[read] <= rank
NeverReadAsFurther ==
  /\ \A i \in DOMAIN Own \cap DOMAIN WorkflowRank : ReadNoFurther(Own[i], WorkflowRank[i])
  /\ Has("IN_QA") \/ ~Has("REVISIONS_IN_PROGRESS") =>
       ReadNoFurther("IN_PROGRESS", WorkflowRank["in_progress"])

(* The owner's coming and going never takes a task out of a column that stands *)
(* for work that has begun.                                                    *)
OwnershipKeepsColumn ==
  [][moved' \in Ownership =>
       LET read == CurrentIntent(statusBoard, column) IN
       read # None => read \in Ownership \/ column' = column]_statusVars

StatusIsRead == OwnColumnWins /\ DedicatedOnly /\ NeverReadAsFurther
=============================================================================
