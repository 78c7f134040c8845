------------------------------ MODULE BoardSchema ------------------------------
(* The schema of a board, which every write looks up: each process keeps what  *)
(* it read for a while, the processes share a copy in Redis, and one caller of *)
(* a process reads at a time.  Next to it, the board's groups, by which a task *)
(* finds the group of its repository.                                          *)
EXTENDS Naturals, FiniteSets

CONSTANTS SchemaRegimes   (* the callers and their processes, and what goes wrong *)
ASSUME SchemaAssumption ==
  \A r \in SchemaRegimes : r.maxHour \in Nat /\ "nobody" \notin DOMAIN r.home

VARIABLES schemaRegime, schemaLeft,
          hour,           (* the clock                                            *)
          memory,         (* _schema_cache of each process                        *)
          copy,           (* the copy in Redis                                    *)
          fetching,       (* _fetch_lock of each process: who reads               *)
          reader,         (* the callers of fetch_board_schema_bundle             *)
          grouped,        (* Plaky: whether the board has a group of the repository *)
          groupCache,     (* _groups_cache of each process                        *)
          everListed,     (* what the last good listing of the groups said        *)
          placed          (* where each process last put a task                   *)
schemaVars == <<schemaRegime, schemaLeft, hour, memory, copy, fetching, reader,
                grouped, groupCache, everListed, placed>>

SchemaTTL == 2
(* What a reading is: of the board with its fields, and of its groups.  A      *)
(* reading whose board failed has no fields; "kept" is when it was read.       *)
Reading(ok, groups) == [ok |-> ok, groups |-> groups, kept |-> hour]
Nothing == [ok |-> FALSE, groups |-> FALSE, kept |-> 0]
NotKept == [has |-> FALSE, reading |-> Nothing, at |-> 0]
Kept(reading) == [has |-> TRUE, reading |-> reading, at |-> hour]
(* Mutation: what is kept is good for ever. *)
FreshForEver(entry) == entry.has
Fresh(entry) == entry.has /\ hour - entry.at < SchemaTTL

Readers == DOMAIN schemaRegime.home
Procs == {schemaRegime.home[c] : c \in Readers}
Mine(c) == memory[schemaRegime.home[c]]
AtRest == [at |-> "rest", reading |-> Nothing, how |-> "none", needless |-> FALSE]

SchemaInit ==
  /\ schemaRegime \in SchemaRegimes /\ schemaLeft = schemaRegime.budget
  /\ hour = 0 /\ copy = NotKept /\ grouped \in BOOLEAN
  /\ memory = [p \in Procs |-> NotKept] /\ fetching = [p \in Procs |-> "nobody"]
  /\ reader = [c \in Readers |-> AtRest]
  /\ groupCache = [p \in Procs |-> NotKept]
  /\ everListed = [p \in Procs |-> "never"] /\ placed = [p \in Procs |-> "nowhere"]

SpendsSchema(what) == schemaLeft[what] > 0 /\ schemaLeft' = [schemaLeft EXCEPT ![what] = @ - 1]
Becomes(c, r) == reader' = [reader EXCEPT ![c] = r]
Told(r, reading, how) == [r EXCEPT !.at = "told", !.reading = reading, !.how = how]
Remember(c, reading) == memory' = [memory EXCEPT ![schemaRegime.home[c]] = Kept(reading)]
GroupState == <<grouped, groupCache, everListed, placed>>

(* ------------------------------------------------- fetch_board_schema_bundle *)
AskSchema(c) ==
  /\ reader[c].at \in {"rest", "told"} /\ SpendsSchema("calls")
  /\ Becomes(c, [AtRest EXCEPT !.at = "memory"])
  /\ UNCHANGED <<schemaRegime, hour, memory, copy, fetching, GroupState>>

LookInMemory(c) ==
  /\ reader[c].at = "memory"
  /\ Becomes(c, IF Fresh(Mine(c)) THEN Told(reader[c], Mine(c).reading, "kept")
                ELSE [reader[c] EXCEPT !.at = "redis"])
  /\ UNCHANGED <<schemaRegime, schemaLeft, hour, memory, copy, fetching, GroupState>>

(* The copy is taken over, for another while.  A Redis that fails has none.    *)
LookInRedis(c) ==
  /\ reader[c].at = "redis"
  /\ \/ /\ Fresh(copy) /\ Remember(c, copy.reading)
        /\ Becomes(c, Told(reader[c], copy.reading, "kept")) /\ UNCHANGED schemaLeft
     \/ /\ \/ ~Fresh(copy) /\ UNCHANGED schemaLeft
           \/ Fresh(copy) /\ SpendsSchema("redis")
        /\ Becomes(c, [reader[c] EXCEPT !.at = "wait"]) /\ UNCHANGED memory
  /\ UNCHANGED <<schemaRegime, hour, copy, fetching, GroupState>>

(* Mutation: whoever gets the lock reads. *)
ReadsAtOnce(c) == [reader[c] EXCEPT !.at = "read", !.needless = Fresh(Mine(c))]
(* The process may have read it while this caller waited.                      *)
AfterWaiting(c) ==
  IF Fresh(Mine(c)) THEN Told(reader[c], Mine(c).reading, "kept")
  ELSE [reader[c] EXCEPT !.at = "read"]

TakeFetchLock(c) ==
  LET p == schemaRegime.home[c] IN
  /\ reader[c].at = "wait" /\ fetching[p] = "nobody"
  /\ Becomes(c, AfterWaiting(c))
  /\ fetching' = [fetching EXCEPT ![p] = IF AfterWaiting(c).at = "read" THEN c ELSE "nobody"]
  /\ UNCHANGED <<schemaRegime, schemaLeft, hour, memory, copy, GroupState>>

(* The board, its groups and its first items; a request that nobody answers    *)
(* raises in the caller, and the lock is let go.                               *)
ReadBoard(c) ==
  /\ reader[c].at = "read"
  /\ \/ \E groups \in BOOLEAN :
          /\ Becomes(c, [reader[c] EXCEPT !.at = "keep", !.reading = Reading(TRUE, groups)])
          /\ IF groups THEN UNCHANGED schemaLeft ELSE SpendsSchema("failures")
          /\ UNCHANGED fetching
     \/ \E groups \in BOOLEAN :
          /\ SpendsSchema("failures") /\ UNCHANGED fetching
          /\ Becomes(c, [reader[c] EXCEPT !.at = "keep", !.reading = Reading(FALSE, groups)])
     \/ /\ SpendsSchema("lost")
        /\ Becomes(c, Told(reader[c], Nothing, "raised"))
        /\ fetching' = [fetching EXCEPT ![schemaRegime.home[c]] = "nobody"]
  /\ UNCHANGED <<schemaRegime, hour, memory, copy, GroupState>>

(* Mutation: a reading is kept if any part of it could be read. *)
KeepsAnything(reading) == reading.ok \/ reading.groups
(* "A failed read is not an answer worth keeping."                             *)
Keeps(reading) == reading.ok

KeepSchema(c) ==
  LET reading == [reader[c].reading EXCEPT !.kept = hour] IN
  /\ reader[c].at = "keep"
  /\ Becomes(c, Told(reader[c], reading, "read"))
  /\ fetching' = [fetching EXCEPT ![schemaRegime.home[c]] = "nobody"]
  /\ IF Keeps(reading)
     THEN /\ Remember(c, reading)
          /\ \/ copy' = Kept(reading) /\ UNCHANGED schemaLeft
             \/ SpendsSchema("redis") /\ UNCHANGED copy
     ELSE UNCHANGED <<memory, copy, schemaLeft>>
  /\ UNCHANGED <<schemaRegime, hour, GroupState>>

(* ---------------------------------------------------- resolve_group_for_repo *)
(* Mutation: a listing that fails says that there are no groups. *)
NoGroupsIfFailed(p) == [has |-> TRUE, reading |-> Reading(TRUE, FALSE), at |-> hour]
(* A listing that fails leaves the old one in use.                             *)
GroupsIfFailed(p) == groupCache[p]

(* The group of the repository, or else the configured one.                    *)
PlaceTask(p) ==
  /\ SpendsSchema("places")
  /\ \E listed \in {"fresh", "good", "failed"} :
       LET entry == CASE listed = "good" -> Kept(Reading(TRUE, grouped))
                      [] listed = "failed" -> GroupsIfFailed(p)
                      [] OTHER -> groupCache[p]
       IN /\ (listed = "fresh") <=> Fresh(groupCache[p])
          /\ groupCache' = [groupCache EXCEPT ![p] = entry]
          /\ everListed' = [everListed EXCEPT ![p] =
               IF listed = "good" THEN IF grouped THEN "with" ELSE "without" ELSE @]
          /\ placed' = [placed EXCEPT ![p] =
               IF entry.has /\ entry.reading.groups THEN "its group" ELSE "fallback"]
  /\ UNCHANGED <<schemaRegime, hour, memory, copy, fetching, reader, grouped>>

(* ------------------------------------------------------------------ the world *)
GroupChanges ==
  /\ SpendsSchema("changes") /\ grouped' = ~grouped
  /\ UNCHANGED <<schemaRegime, hour, memory, copy, fetching, reader, groupCache, everListed, placed>>

HourPasses ==
  /\ hour < schemaRegime.maxHour /\ hour' = hour + 1
  /\ UNCHANGED <<schemaRegime, schemaLeft, memory, copy, fetching, reader, GroupState>>

SchemaNext ==
  \/ \E c \in Readers :
       \/ AskSchema(c) \/ LookInMemory(c) \/ LookInRedis(c)
       \/ TakeFetchLock(c) \/ ReadBoard(c) \/ KeepSchema(c)
  \/ \E p \in Procs : PlaceTask(p)
  \/ GroupChanges \/ HourPasses

(* --------------------------------------------------------------- correctness *)
SchemaTypeOK ==
  /\ hour \in 0..schemaRegime.maxHour /\ fetching \in [Procs -> Readers \cup {"nobody"}]
  /\ \A p \in Procs : memory[p].at <= hour /\ groupCache[p].at <= hour
  /\ \A c \in Readers : reader[c].at \in {"rest", "memory", "redis", "wait", "read", "keep", "told"}

(* "Caching it pinned an empty schema for ninety seconds": nobody is told, from *)
(* a cache, that the board has no fields because somebody else could not read it.*)
FailureIsOwn ==
  /\ \A c \in Readers : reader[c].how = "kept" => reader[c].reading.ok
  /\ \A p \in Procs : memory[p].has => memory[p].reading.ok
  /\ copy.has => copy.reading.ok

(* "One fetch per board, not one per caller": in each process one caller reads, *)
(* and none reads what the process has read while it waited.                   *)
OneFetch ==
  \A p \in Procs :
    /\ {c \in Readers : schemaRegime.home[c] = p /\ reader[c].at \in {"read", "keep"}}
         = {fetching[p]} \ {"nobody"}
    /\ \A c \in Readers : ~reader[c].needless

(* A task of a repository that has a group of its own, as far as the board     *)
(* ever said, is put there, whatever fails now.                                *)
GroupIsKept ==
  \A p \in Procs : placed[p] # "nowhere" =>
    (placed[p] = "its group" <=> everListed[p] = "with")

SchemaIsTrue == SchemaTypeOK /\ FailureIsOwn /\ OneFetch /\ GroupIsKept

(* What a caller is told from a cache was read less than twice the time to     *)
(* live ago: the shared copy may be that old when a process takes it over for  *)
(* as long again.                                                              *)
SchemaWearsOff ==
  [][\A c \in Readers :
       reader[c].at # "told" /\ reader'[c].at = "told" /\ reader'[c].how = "kept" =>
         hour - reader'[c].reading.kept <= 2 * SchemaTTL - 2]_schemaVars
=============================================================================
