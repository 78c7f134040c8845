------------------------------ MODULE FieldValues ------------------------------
(* What a word means on a board.  Boards name the options of their Type and    *)
(* Priority columns and the tags of their repositories as they like; people,   *)
(* issues and the assistant use words of their own.  A column here is the list *)
(* of its options' labels, in the board's order.                               *)
EXTENDS Integers, Sequences, FiniteSets, SequencesExt

CONSTANTS ValueBoards,                                (* boards: their three columns  *)
          AskedTypes, AskedPriorities, AskedRepos     (* the words that are asked for *)

VARIABLES valueBoard,     (* the board's three columns                            *)
          written         (* the last request, and what it was turned into        *)
valueVars == <<valueBoard, written>>

NoValue == "none"
AsOptions(column) == {column[i] : i \in DOMAIN column}
ASSUME ValueAssumption ==
  \A board \in ValueBoards : \A column \in {board.type, board.priority, board.tag} :
    column \in Seq(STRING) /\ NoValue \notin AsOptions(column)
Earliest(column, P(_)) ==
  LET hits == {i \in DOMAIN column : P(column[i])} IN
  IF hits = {} THEN NoValue ELSE column[CHOOSE i \in hits : \A j \in hits : i <= j]

(* The labels that lie within others; one of two letters is never looked for.  *)
Within ==
  {<<"refactor", "refactoring">>, <<"test", "tests">>, <<"story", "user story">>,
   <<"task", "subtask">>, <<"fix", "hotfix">>, <<"high", "very high">>, <<"core", "core-ui">>,
   <<"core", "score">>, <<"med", "medium">>, <<"p2", "p2 normal">>}
Alike(a, b) == <<a, b>> \in Within \/ <<b, a>> \in Within
Short == {"qa", "p1", "p2", "p3"}

(* -------------------------------------------------------------- vocabulary *)
Fallbacks ==
  [feature |-> <<"story", "task", "enhancement">>, story |-> <<"feature", "task">>,
   bug |-> <<"issue", "defect", "fix">>, issue |-> <<"bug", "defect">>,
   refactoring |-> <<"refactor", "chore", "task", "story">>,
   research |-> <<"spike", "investigation", "story", "task">>,
   documentation |-> <<"docs", "story", "chore", "task">>,
   chore |-> <<"refactor", "story", "task">>,
   tests |-> <<"test", "qa", "refactor", "story", "task">>,
   task |-> <<"feature", "story">>,
   medium |-> <<"med", "normal", "p2">>, low |-> <<"minor", "p3">>,
   high |-> <<"urgent", "major", "p1">>, critical |-> <<"very important", "p0">>]
TypeWords ==
  {"feature", "story", "bug", "issue", "refactoring", "research", "documentation", "chore",
   "tests", "task"}
(* Priorities have a second vocabulary, and GitHub's one.                      *)
PriorityWord ==
  [w \in {"low", "medium", "high", "med", "normal", "p2", "urgent", "major", "p1", "p3", "minor"} |->
     CASE w \in {"medium", "med", "normal", "p2"}   -> "medium"
       [] w \in {"high", "urgent", "major", "p1"}   -> "high"
       [] OTHER                                     -> "low"]

(* The canonical word for what was asked, or the given one for any other.      *)
Canonical(kind, word, default) ==
  CASE kind = "type" /\ word \in TypeWords                    -> word
    [] kind = "priority" /\ word \in DOMAIN PriorityWord      -> PriorityWord[word]
    [] OTHER                                                  -> default
DefaultOf(kind) == IF kind = "type" THEN "feature" ELSE "medium"
LadderOf(word) == <<word>> \o Fallbacks[word]

(* -------------------------------------- select_field_patch_pair_from_schema *)
Fuzzy(word, label) == word \notin Short /\ label \notin Short /\ Alike(word, label)
BestFor(column, word) ==
  IF word \in AsOptions(column) THEN word ELSE Earliest(column, LAMBDA l : Fuzzy(word, l))

(* Mutation: the first option that answers to any candidate. *)
SelectByOption(column, ladder) ==
  Earliest(column, LAMBDA l : \E i \in DOMAIN ladder : l = ladder[i] \/ Fuzzy(ladder[i], l))
(* "Candidate order is PRIORITY": the first candidate that the board knows, and*)
(* of the options it could mean the one that is the same word.  A column that  *)
(* comes without options takes the first candidate as it is.                   *)
Select(column, ladder) ==
  LET known == {i \in DOMAIN ladder : BestFor(column, ladder[i]) # NoValue} IN
  IF column = <<>> THEN ladder[1]
  ELSE IF known = {} THEN NoValue
  ELSE BestFor(column, ladder[CHOOSE i \in known : \A j \in known : i <= j])

(* ------------------------------------------------------- coerce_field_values *)
(* Mutation: a word nobody knows becomes the default one. *)
MeaningOrDefault(kind, word) == Canonical(kind, word, DefaultOf(kind))
(* "A wrong state on the board, written confidently, ... is worse than refusing".*)
WordMeaning(kind, word) == Canonical(kind, word, NoValue)

(* Only the same label counts here; what is not resolved stays as it was.      *)
Coerce(kind, column, word) ==
  IF column = <<>> \/ word \in AsOptions(column) \/ WordMeaning(kind, word) = NoValue THEN word
  ELSE LET ladder == LadderOf(WordMeaning(kind, word))
           known == {i \in DOMAIN ladder : ladder[i] \in AsOptions(column)}
       IN IF known = {} THEN word ELSE ladder[CHOOSE i \in known : \A j \in known : i <= j]

(* -------------------------------------------- validate_field_values_detailed *)
Refused(column, word) == column # <<>> /\ word \notin AsOptions(column)

(* Mutation: what is right is written, and the rest is left out. *)
ValidatePartly(values, columns, known) ==
  [k \in {x \in DOMAIN values : x \in DOMAIN columns /\ ~Refused(columns[x], values[x])} |-> values[k]]
(* "On any error, cleaned_values is empty": a column the board does not have,  *)
(* or an option it does not have, refuses everything.  Without a schema there  *)
(* is nothing to check.                                                        *)
Validate(values, columns, known) ==
  IF known /\ \E k \in DOMAIN values : k \notin DOMAIN columns \/ Refused(columns[k], values[k])
  THEN <<>> ELSE values

(* ------------------------------- match_repo_tokens_to_plaky_tag_option_values *)
(* The first tag that is the repository's name, contains it or lies within it. *)
TagOf(column, token) == Earliest(column, LAMBDA l : l = token \/ Alike(l, token))
(* Mutation: what has no tag is dropped. *)
MatchTagsSilently(column, tokens) ==
  [tags |-> {TagOf(column, t) : t \in tokens} \ {NoValue}, unmatched |-> {}]
MatchTags(column, tokens) ==
  [tags |-> {TagOf(column, t) : t \in tokens} \ {NoValue},
   unmatched |-> {t \in tokens : TagOf(column, t) = NoValue}]

(* ------------------------------------------------------ merging of the schema *)
(* Mutation: what an item says of a column replaces what the board says. *)
MergeLastWins(board, stubs) ==
  [k \in DOMAIN board \cup DOMAIN stubs |-> IF k \in DOMAIN stubs THEN stubs[k] ELSE board[k]]
(* Columns that the board leaves out are taken from its items, which name no   *)
(* options; a column the board describes stays as it is.                       *)
Merge(board, stubs) ==
  [k \in DOMAIN board \cup DOMAIN stubs |-> IF k \in DOMAIN board THEN board[k] ELSE stubs[k]]

(* ---------------------------------------------------------------- behaviour *)
NotAsked == [by |-> "nobody"]
ValueInit ==
  /\ valueBoard \in ValueBoards
  /\ written = NotAsked

(* A handler sets type and priority of a new task.                             *)
HandlerWrites ==
  \E t \in AskedTypes, p \in AskedPriorities :
    written' = [by |-> "handler", type |-> t, priority |-> p,
                value |-> [type |-> Select(valueBoard.type, LadderOf(Canonical("type", t, "feature"))),
                           priority |-> Select(valueBoard.priority,
                                               LadderOf(Canonical("priority", p, "medium")))]]

(* The assistant sets what it was told, by the names of the columns, some of   *)
(* which the board may only show in its items.                                 *)
AssistantWrites ==
  \E t \in AskedTypes, p \in AskedPriorities, odd \in BOOLEAN, known \in BOOLEAN,
     hidden \in SUBSET {"type", "priority"} :
    LET columns == Merge([k \in {"type", "priority"} \ hidden |-> valueBoard[k]],
                         [k \in {"type", "priority"} |-> <<>>])
        word(k) == IF k = "type" THEN t ELSE p
        values == [k \in {"type", "priority"} \cup (IF odd THEN {"status-9"} ELSE {}) |->
                     IF k \in DOMAIN columns /\ known THEN Coerce(k, columns[k], word(k)) ELSE p]
    IN written' = [by |-> "assistant", type |-> t, priority |-> p, odd |-> odd, known |-> known,
                   hidden |-> hidden, value |-> Validate(values, columns, known)]

RepositoriesWritten ==
  \E tokens \in SUBSET AskedRepos :
    written' = [by |-> "repos", tokens |-> tokens, value |-> MatchTags(valueBoard.tag, tokens)]

ValueNext ==
  /\ written = NotAsked
  /\ HandlerWrites \/ AssistantWrites \/ RepositoriesWritten
  /\ UNCHANGED valueBoard

(* --------------------------------------------------------------- correctness *)
(* The word that was asked for is taken where the board has it, whatever other *)
(* options come before; and a bug is never filed as anything else: "leaving    *)
(* Type unset is better than filing a Bug as a Story" (task_tag_vocab.py:149). *)
WordIsTaken ==
  written.by = "handler" =>
    /\ \A k \in {"type", "priority"} :
         Canonical(k, written[k], DefaultOf(k)) \in AsOptions(valueBoard[k]) =>
           written.value[k] = Canonical(k, written[k], DefaultOf(k))
    /\ written.type \in {"bug", "issue"} =>
         written.value.type \in {"bug", "issue", "defect", "fix", "hotfix", NoValue}

(* What the assistant writes is an option of the board; a word the board does  *)
(* not have and nobody knows is refused; and one that is refused refuses all.  *)
AllOrNothing ==
  written.by = "assistant" /\ written.known =>
    LET seen == {"type", "priority"} \ written.hidden IN
    IF \/ written.odd
       \/ \E k \in seen : /\ valueBoard[k] # <<>> /\ written[k] \notin AsOptions(valueBoard[k])
                          /\ Canonical(k, written[k], NoValue) = NoValue
    THEN written.value = <<>>
    ELSE written.value # <<>> =>
           /\ DOMAIN written.value = {"type", "priority"}
           /\ \A k \in seen : valueBoard[k] # <<>> => written.value[k] \in AsOptions(valueBoard[k])

(* Every repository has a tag or is reported, and it has its own tag unless one *)
(* that resembles it comes first.                                              *)
ReposAccountedFor ==
  written.by = "repos" =>
    \A t \in written.tokens :
      /\ (t \in written.value.unmatched <=>
            \A l \in AsOptions(valueBoard.tag) : l # t /\ ~Alike(l, t))
      /\ t \in AsOptions(valueBoard.tag) =>
           \/ t \in written.value.tags
           \/ \E l \in written.value.tags : Alike(l, t)

ValuesAreSound == WordIsTaken /\ AllOrNothing /\ ReposAccountedFor
=============================================================================
