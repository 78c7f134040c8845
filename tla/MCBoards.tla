------------------------------ MODULE MCBoards ------------------------------
(* Model-checking instances of what stands between the program and Plaky: the  *)
(* client's writes, fields and reads, a board's columns, its schema, what      *)
(* words mean on it, where a repository's tasks go, and the task writes.       *)
EXTENDS PlakyWrites, PlakyFields, PlakyReads, BoardStatus, BoardSchema, FieldValues,
        Catalog, TaskWrites

VARIABLE atWork             (* the module at work; the others stand still *)
BoardModules == {"writes", "fields", "reads", "status", "schema", "values", "catalog", "tasks"}

CONSTANTS titleField, statusField, ownerField, repoField, c1, c2, c3, board1, board2, space1, space2, p1, p2

(* ------------------------------------------------------- the client's writes *)
NoMishaps == [busy |-> 0, broken |-> 0, lost |-> 0, added |-> 0]
Mishaps == [busy |-> 3, broken |-> 2, lost |-> 2, added |-> 1]
(* Every call, on a Plaky that takes the given bodies. *)
Asked(shapes, legacy, home) ==
  [calls |-> {"create", "subtask", "comment", "delete"}, shapes |-> shapes, legacy |-> legacy,
   home |-> home, asked |-> Board, described |-> TRUE, refusals |-> {"400", "404", "422"},
   others |-> 2, page |-> 4, budget |-> Mishaps]
Writings ==
  {Asked({1, 3}, FALSE, Board), Asked({3, 4}, TRUE, Elsewhere), Asked({7}, FALSE, Tracking),
   [Asked({1, 3}, FALSE, Board) EXCEPT !.others = 3, !.page = 3, !.asked = Tracking,
                                  !.described = FALSE]}

(* ------------------------------------------------------- the client's fields *)
Field(kind, form, takes) == [kind |-> kind, form |-> form, takes |-> takes]
(* A Plaky that takes options by id, persons as documented, and flat bulks.    *)
Documented ==
  [fields |-> (titleField :> Field("text", "plain", {<<1, 1>>}))
           @@ (statusField :> Field("choice", "number", {<<1, 1>>}))
           @@ (ownerField :> Field("person", "long", {<<1, 1>>, <<1, 2>>})),
   asks |-> {{titleField}, {titleField, statusField, ownerField}, {statusField}},
   bulk |-> 1, text |-> {5}, textRefusals |-> {"405", "400"}, polite |-> TRUE,
   callers |-> {c1}, budget |-> [calls |-> 2, conflicts |-> 2, broken |-> 1, lost |-> 1]]
(* One that takes other shapes, and has no texts. *)
Peculiar ==
  [Documented EXCEPT
     !.fields = (titleField :> Field("text", "plain", {<<1, 3>>}))
             @@ (repoField :> Field("text", "repo", {<<4, 2>>}))
             @@ (ownerField :> Field("person", "number", {<<2, 1>>})),
     !.asks = {{ownerField}, {repoField, ownerField}, {titleField}},
     !.bulk = 0, !.text = {}, !.textRefusals = {"405"},
     !.budget = [calls |-> 2, conflicts |-> 4, broken |-> 0, lost |-> 0]]
(* Two callers, who share what was learnt. *)
Together ==
  [Documented EXCEPT
     !.fields = (titleField :> Field("text", "plain", {<<1, 4>>}))
             @@ (repoField :> Field("text", "repo", {<<3, 2>>, <<7, 1>>})),
     !.asks = {{titleField}, {repoField}}, !.bulk = 0, !.text = {}, !.textRefusals = {"405", "400"},
     !.callers = {c1, c2},
     !.budget = [calls |-> 3, conflicts |-> 0, broken |-> 0, lost |-> 0]]
FieldWork == {Documented, Peculiar, Together}

(* -------------------------------------------------------- the client's reads *)
(* Callers look for boards, which move; pages fail, and time passes. *)
Searching ==
  [finders |-> {c1, c2}, boards |-> {board1, board2}, spaces |-> {space1, space2},
   start |-> {(board1 :> space1) @@ (board2 :> space2)}, maxNow |-> 2,
   budget |-> [calls |-> 3, pages |-> 1, lost |-> 0, moves |-> 1, listings |-> 0]]
Crowding ==
  [Searching EXCEPT !.finders = {c1, c2, c3}, !.boards = {board1}, !.start = {board1 :> space1},
                    !.maxNow = 1,
                    !.budget = [calls |-> 3, pages |-> 1, lost |-> 1, moves |-> 0, listings |-> 0]]
Listings ==
  [Searching EXCEPT !.finders = {c1}, !.boards = {board1}, !.start = {board1 :> space1}, !.maxNow = 0,
                    !.budget = [calls |-> 0, pages |-> 0, lost |-> 0, moves |-> 0, listings |-> 1]]
Searches == {Searching, Crowding, Listings}

(* ------------------------------------------------------------ status columns *)
Standard == <<"NEEDS_ASSIGNED", "ASSIGNED", "IN_PROGRESS", "PAUSED", "NEEDS_QA", "IN_QA",
              "QA_VERIFIED", "QA_REJECTED", "COMPLETED">>
MCStatusBoards ==
  ({<<a, b>> : a, b \in ColumnLabels} \ {<<a, a>> : a \in ColumnLabels})
    \cup {SetToSeq(S) : S \in kSubset(1, ColumnLabels) \cup kSubset(3, ColumnLabels)}
    \cup {Standard, Reverse(Standard)}

(* ------------------------------------------------------- schemas and groups *)
(* Two processes read one schema; requests fail, and so does Redis. *)
Sharing ==
  [home |-> (c1 :> p1) @@ (c2 :> p1) @@ (c3 :> p2), maxHour |-> 3,
   budget |-> [calls |-> 3, failures |-> 1, lost |-> 1, redis |-> 1, places |-> 0, changes |-> 0]]
(* Tasks find their groups, which come and go. *)
Placing ==
  [home |-> (c1 :> p1), maxHour |-> 4,
   budget |-> [calls |-> 0, failures |-> 0, lost |-> 0, redis |-> 0, places |-> 4, changes |-> 2]]

MCSchemaRegimes == {Sharing, Placing}

(* ---------------------------------------------------------- values and words *)
TypeColumns ==
  {<<>>, <<"story", "research">>, <<"user story", "story", "task">>, <<"refactoring", "bug", "issue">>,
   <<"subtask", "task">>, <<"issue", "story">>, <<"hotfix", "chore">>, <<"qa", "tests">>,
   <<"test", "docs", "feature">>, <<"enhancement", "defect">>}
PriorityColumns ==
  {<<>>, <<"low", "medium", "high">>, <<"very high", "high", "p2 normal">>,
   <<"urgent", "minor", "normal">>}
TagColumns == {<<>>, <<"core-ui", "core">>, <<"score", "core", "web">>, <<"web">>}
MCValueBoards ==
  {[type |-> t, priority |-> <<"low", "medium", "high">>, tag |-> <<"core-ui", "core">>] :
     t \in TypeColumns}
    \cup {[type |-> <<"story", "bug">>, priority |-> p, tag |-> g] :
            p \in PriorityColumns, g \in TagColumns}
MCAskedTypes == TypeWords \cup {"backlog"}
MCAskedPriorities == {"high", "p2", "minor", "whenever", "medium"}
MCAskedRepos == {"core", "web", "lost"}

(* ------------------------------------------------------------------ placement *)
Layout(first, second) == (1 :> first) @@ (2 :> second)
MCLayouts ==
  {Layout({"core-ui", "diva"}, {"core"}), Layout({"core", "backlog"}, {"core-ui", "core"}),
   Layout({"backlog", "big plans"}, {"diva"}), Layout({"core-ui"}, {"diva", "big plans"})}
(* Nothing is configured, and two processes find out. *)
Discovering ==
  [configured |-> {}, home |-> (1 :> 1) @@ (2 :> 2), categorical |-> TRUE, default |-> TRUE,
   discover |-> TRUE, maxDay |-> 2,
   budget |-> [calls |-> 3, failures |-> 1, partial |-> 1, crashes |-> 1, edits |-> 0, changes |-> 0]]
(* People edit the entries. *)
Edited ==
  [Discovering EXCEPT !.configured = {"core"}, !.categorical = FALSE, !.default = FALSE,
     !.budget = [calls |-> 2, failures |-> 0, partial |-> 0, crashes |-> 0, edits |-> 2, changes |-> 0]]
(* Discovery is off. *)
Plain ==
  [Edited EXCEPT !.home = 1 :> 1, !.categorical = TRUE, !.default = TRUE, !.discover = FALSE,
     !.maxDay = 0,
     !.budget = [calls |-> 1, failures |-> 0, partial |-> 0, crashes |-> 0, edits |-> 1, changes |-> 1]]

MCCatalogRegimes == {Discovering, Edited, Plain}

(* ---------------------------------------------------------------- task writes *)
Col(k, l) == [key |-> k, label |-> l]
Usual == <<Col("p1", "assignee"), Col("p2", "qa")>>
PersonColumns ==
  {Usual, <<Col("p1", "qa"), Col("p2", "assignee")>>, <<Col("p2", "assignee")>>,
   <<Col("p1", "reviewer"), Col("p2", "qa")>>}
(* The configured keys fit one board of these, or there are none. *)
Tasks(columns, config, statuses, faults) ==
  [columns |-> columns, config |-> config, statuses |-> statuses,
   budget |-> [calls |-> 1, faults |-> faults, moves |-> 1]]
MCTaskRegimes ==
  {Tasks(cs, [engineer |-> "p1", qa |-> "p2"], TRUE, 1) : cs \in PersonColumns}
    \cup {Tasks(Usual, [engineer |-> "", qa |-> ""], s, 2) : s \in BOOLEAN}
Ask4(kind) ==
  [kind |-> kind, engineer |-> Nobody, given |-> Nobody, qa |-> Nobody, auto |-> TRUE,
   status |-> "", clear |-> FALSE, diff |-> FALSE]
MCRequests ==
  {[Ask4("create") EXCEPT !.engineer = e, !.given = g, !.status = s] :
     e, g \in Anyone, s \in {"", "needs", "progress"}}
    \cup {[Ask4("subtask") EXCEPT !.engineer = e, !.status = s] : e \in Anyone, s \in {"", "needs"}}
    \cup {[Ask4("update") EXCEPT !.engineer = e, !.qa = q, !.auto = FALSE, !.status = s, !.diff = d] :
            e \in Anyone, q \in {"tester", Nobody}, s \in {"", "progress"}, d \in BOOLEAN}
    \cup {[Ask4("update") EXCEPT !.clear = TRUE, !.auto = a] : a \in BOOLEAN}

(* -------------------------------------------------------------- one at a time *)
AnyOf(S) == CHOOSE x \in S : TRUE
BoardsInit ==
  /\ atWork \in BoardModules
  /\ WriteInit /\ (atWork # "writes" => writeRegime = AnyOf(WriteRegimes) /\ op.call = "delete")
  /\ FieldInit /\ (atWork # "fields" => fieldRegime = AnyOf(FieldRegimes))
  /\ ReadInit /\ (atWork # "reads" => readRegime = AnyOf(ReadRegimes))
  /\ StatusInit /\ (atWork # "status" => statusBoard = Standard /\ column = "PAUSED")
  /\ SchemaInit /\ (atWork # "schema" => schemaRegime = AnyOf(SchemaRegimes) /\ grouped)
  /\ ValueInit /\ (atWork # "values" => valueBoard = AnyOf(ValueBoards))
  /\ CatalogInit /\ (atWork # "catalog" => catalogRegime = AnyOf(CatalogRegimes) /\ layout = AnyOf(Layouts))
  /\ TaskInit /\ (atWork # "tasks" => taskRegime = AnyOf(TaskRegimes) /\ pickable = Nobody
                             /\ card.other.status = "needs" /\ card.other.col[InferEngineer] = Nobody)
BoardsNext ==
  /\ UNCHANGED atWork
  /\ \/ atWork = "writes" /\ WriteNext
        /\ UNCHANGED <<fieldVars, readVars, statusVars, schemaVars, valueVars, catalogVars, taskVars>>
     \/ atWork = "fields" /\ FieldNext
        /\ UNCHANGED <<writeVars, readVars, statusVars, schemaVars, valueVars, catalogVars, taskVars>>
     \/ atWork = "reads" /\ ReadNext
        /\ UNCHANGED <<writeVars, fieldVars, statusVars, schemaVars, valueVars, catalogVars, taskVars>>
     \/ atWork = "status" /\ StatusNext
        /\ UNCHANGED <<writeVars, fieldVars, readVars, schemaVars, valueVars, catalogVars, taskVars>>
     \/ atWork = "schema" /\ SchemaNext
        /\ UNCHANGED <<writeVars, fieldVars, readVars, statusVars, valueVars, catalogVars, taskVars>>
     \/ atWork = "values" /\ ValueNext
        /\ UNCHANGED <<writeVars, fieldVars, readVars, statusVars, schemaVars, catalogVars, taskVars>>
     \/ atWork = "catalog" /\ CatalogNext
        /\ UNCHANGED <<writeVars, fieldVars, readVars, statusVars, schemaVars, valueVars, taskVars>>
     \/ atWork = "tasks" /\ TaskNext
        /\ UNCHANGED <<writeVars, fieldVars, readVars, statusVars, schemaVars, valueVars, catalogVars>>
BoardsSpec ==
  BoardsInit /\ [][BoardsNext]_<<atWork, writeVars, fieldVars, readVars, statusVars, schemaVars,
                                valueVars, catalogVars, taskVars>>

(* What each module promises, of the module at work.                           *)
(* A call of the client did what it says, and only that; fields are set that    *)
(* are reported as set; reads are whole and made once.                         *)
ClientIsTrue ==
  /\ atWork = "writes" => WritesAreTrue
  /\ atWork = "fields" => FieldsAreTrue
  /\ atWork = "reads" => ReadsAreTrue
(* A column is read as what it stands for, a word is set as what it means, and *)
(* the schema that a caller is told is the board's, and read once.             *)
BoardsAreRead ==
  /\ atWork = "status" => StatusIsRead
  /\ atWork = "values" => ValuesAreSound
  /\ atWork = "schema" => SchemaIsTrue
(* A task goes where its repository belongs, and is written as it was asked.    *)
TasksAreSound ==
  /\ atWork = "catalog" => PlacementIsTrue
  /\ atWork = "tasks" => TasksAreTrue
(* What a cache answers, of a board's place or of its schema, wears off.       *)
CachesWearOff == PlacesWearOff /\ SchemaWearsOff
(* An owner's coming and going moves no card out of work that has begun, and   *)
(* classifying a repository leaves the place that it has.                      *)
PlacesAreKept == OwnershipKeepsColumn /\ EntriesHold
=============================================================================
