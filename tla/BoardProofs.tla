----------------------------- MODULE BoardProofs -----------------------------
(***************************************************************************)
(* What stands between the program and Plaky, for any boards, callers,     *)
(* processes and words.  Each module has its own inductive invariant; the  *)
(* theorems about all of them are at the end.                              *)
(***************************************************************************)
EXTENDS MCBoards, FiniteSetTheorems, SequenceTheorems, WellFoundedInduction, TLAPS

-----------------------------------------------------------------------------
(* The schema of a board, and its groups.                                  *)

ReadingRecord == [ok : BOOLEAN, groups : BOOLEAN, kept : Nat]
EntryRecord   == [has : BOOLEAN, reading : ReadingRecord, at : Nat]
ReaderRecord  ==
  [at : {"rest", "memory", "redis", "wait", "read", "keep", "told"}, reading : ReadingRecord,
   how : {"none", "kept", "read", "raised"}, needless : BOOLEAN]
SchemaTyped ==
  /\ schemaRegime \in SchemaRegimes /\ hour \in 0 .. schemaRegime.maxHour
  /\ memory \in [Procs -> EntryRecord] /\ copy \in EntryRecord
  /\ fetching \in [Procs -> Readers \cup {"nobody"}]
  /\ reader \in [Readers -> ReaderRecord] /\ grouped \in BOOLEAN
  /\ groupCache \in [Procs -> EntryRecord]
  /\ everListed \in [Procs -> {"never", "with", "without"}]
  /\ placed \in [Procs -> {"nowhere", "its group", "fallback"}]

(* A kept reading was whole; the copy is as old as its reading, and what a     *)
(* process keeps may be a fresh copy's.                                        *)
MemoryHolds(p) ==
  /\ memory[p].at <= hour /\ groupCache[p].at <= hour
  /\ memory[p].has => /\ memory[p].reading.ok
                      /\ memory[p].at <= memory[p].reading.kept + (SchemaTTL - 1)
CopyHolds == copy.has => copy.reading.ok /\ copy.reading.kept = copy.at /\ copy.at <= hour

(* Who reads has the lock of its process, and nobody else has.                 *)
Fits(r) ==
  /\ r.how = "kept" => r.reading.ok
  /\ ~r.needless /\ (r.at # "told" => r.how = "none")
ReaderHolds(c) ==
  /\ Fits(reader[c])
  /\ reader[c].at \in {"read", "keep"} <=> fetching[schemaRegime.home[c]] = c
LockHolds(p) == fetching[p] # "nobody" => schemaRegime.home[fetching[p]] = p

(* The listing of the groups that a process keeps is the last good one.        *)
GroupsHold(p) ==
  /\ groupCache[p].has <=> everListed[p] # "never"
  /\ groupCache[p].has /\ groupCache[p].reading.groups <=> everListed[p] = "with"
  /\ placed[p] # "nowhere" => (placed[p] = "its group" <=> everListed[p] = "with")

SchemaInv ==
  /\ SchemaTyped /\ CopyHolds
  /\ \A p \in Procs : MemoryHolds(p) /\ LockHolds(p) /\ GroupsHold(p)
  /\ \A c \in Readers : ReaderHolds(c)

LEMMA SchemaStarts == ASSUME SchemaInit PROVE SchemaInv
<1>1. SchemaTyped
  BY SchemaAssumption DEF SchemaInit, SchemaTyped, EntryRecord, ReadingRecord, ReaderRecord,
     NotKept, Nothing, AtRest
<1>2. CopyHolds /\ \A p \in Procs : MemoryHolds(p) /\ LockHolds(p) /\ GroupsHold(p)
  BY DEF SchemaInit, CopyHolds, MemoryHolds, LockHolds, GroupsHold, NotKept, Nothing
<1>3. \A c \in Readers : ReaderHolds(c)
  BY SchemaAssumption DEF SchemaInit, ReaderHolds, Fits, AtRest, Procs, Readers
<1> QED
  BY <1>1, <1>2, <1>3 DEF SchemaInv

LEMMA SchemaRests == ASSUME SchemaInv, UNCHANGED schemaVars PROVE SchemaInv'
<1>1. SchemaTyped' /\ CopyHolds'
  BY DEF SchemaInv, schemaVars, SchemaTyped, CopyHolds, Procs, Readers
<1>2. ASSUME NEW p \in Procs' PROVE MemoryHolds(p)' /\ LockHolds(p)' /\ GroupsHold(p)'
  <2>1. p \in Procs /\ MemoryHolds(p) /\ LockHolds(p) /\ GroupsHold(p)
    BY DEF SchemaInv, schemaVars, Procs, Readers
  <2> QED
    BY <2>1 DEF schemaVars, MemoryHolds, LockHolds, GroupsHold
<1>3. \A c \in Readers' : ReaderHolds(c)'
  BY DEF SchemaInv, schemaVars, ReaderHolds, Readers
<1> QED
  BY <1>1, <1>2, <1>3 DEF SchemaInv

LEMMA SchemaFacts ==
  ASSUME SchemaTyped
  PROVE  /\ hour \in Nat /\ schemaRegime.maxHour \in Nat /\ copy \in EntryRecord
         /\ \A p \in Procs : memory[p] \in EntryRecord /\ groupCache[p] \in EntryRecord
         /\ \A c \in Readers : /\ schemaRegime.home[c] \in Procs /\ reader[c] \in ReaderRecord
                              /\ Mine(c) \in EntryRecord /\ c # "nobody"
<1>1. hour \in Nat /\ schemaRegime.maxHour \in Nat
  <2>1. schemaRegime \in SchemaRegimes /\ hour \in 0 .. schemaRegime.maxHour
    BY DEF SchemaTyped
  <2>2. schemaRegime.maxHour \in Nat
    BY <2>1, SchemaAssumption
  <2> QED
    BY <2>1, <2>2
<1>2. \A p \in Procs : memory[p] \in EntryRecord /\ groupCache[p] \in EntryRecord
  BY DEF SchemaTyped
<1>3. ASSUME NEW c \in Readers
      PROVE  /\ schemaRegime.home[c] \in Procs /\ reader[c] \in ReaderRecord
             /\ Mine(c) \in EntryRecord /\ c # "nobody"
  <2>1. schemaRegime.home[c] \in Procs
    BY DEF Procs
  <2>2. reader[c] \in ReaderRecord
    BY DEF SchemaTyped
  <2>3. c # "nobody"
    BY SchemaAssumption DEF SchemaTyped, Readers
  <2> QED
    BY <1>2, <2>1, <2>2, <2>3 DEF Mine
<1>4. copy \in EntryRecord
  BY DEF SchemaTyped
<1> QED
  BY <1>1, <1>2, <1>3, <1>4

LEMMA ReaderMoves ==
  ASSUME SchemaTyped, NEW c \in Readers, NEW r, Becomes(c, r)
  PROVE  reader'[c] = r /\ \A d \in Readers : d # c => reader'[d] = reader[d]
BY DEF Becomes, SchemaTyped

(* A task is placed by the listing that the process has then.                  *)
LEMMA PlaceDoes ==
  ASSUME SchemaTyped, NEW p \in Procs, PlaceTask(p)
  PROVE  /\ \/ groupCache'[p] = groupCache[p] /\ everListed'[p] = everListed[p]
            \/ /\ groupCache'[p] = Kept(Reading(TRUE, grouped))
               /\ everListed'[p] = IF grouped THEN "with" ELSE "without"
         /\ placed'[p] = IF groupCache'[p].has /\ groupCache'[p].reading.groups
                         THEN "its group" ELSE "fallback"
         /\ \A q \in Procs : q # p => UNCHANGED <<groupCache[q], everListed[q], placed[q]>>
<1>1. PICK listed, entry :
        /\ entry = IF listed = "good" THEN Kept(Reading(TRUE, grouped)) ELSE groupCache[p]
        /\ groupCache' = [groupCache EXCEPT ![p] = entry]
        /\ everListed' = [everListed EXCEPT ![p] =
               IF listed = "good" THEN IF grouped THEN "with" ELSE "without" ELSE @]
        /\ placed' = [placed EXCEPT ![p] =
               IF entry.has /\ entry.reading.groups THEN "its group" ELSE "fallback"]
  BY DEF PlaceTask, GroupsIfFailed
<1>2. groupCache'[p] = entry /\ \A q \in Procs : q # p => groupCache'[q] = groupCache[q]
  BY <1>1 DEF SchemaTyped
<1>3. /\ everListed'[p] = IF listed = "good" THEN IF grouped THEN "with" ELSE "without" ELSE everListed[p]
      /\ \A q \in Procs : q # p => everListed'[q] = everListed[q]
  BY <1>1 DEF SchemaTyped
<1>4. /\ placed'[p] = IF entry.has /\ entry.reading.groups THEN "its group" ELSE "fallback"
      /\ \A q \in Procs : q # p => placed'[q] = placed[q]
  BY <1>1 DEF SchemaTyped
<1> QED
  BY <1>1, <1>2, <1>3, <1>4

LEMMA SchemaTypesKept == ASSUME SchemaInv, SchemaNext PROVE SchemaTyped' /\ UNCHANGED schemaRegime
<1>1. UNCHANGED <<schemaRegime, Procs, Readers>>
  BY DEF SchemaNext, AskSchema, LookInMemory, LookInRedis, TakeFetchLock, ReadBoard, KeepSchema,
     PlaceTask, GroupChanges, HourPasses, Procs, Readers
<1>2. SchemaTyped
  BY DEF SchemaInv
<1>3. hour \in Nat /\ schemaRegime.maxHour \in Nat
  <2>1. schemaRegime \in SchemaRegimes /\ hour \in 0 .. schemaRegime.maxHour
    BY <1>2 DEF SchemaTyped
  <2>2. schemaRegime.maxHour \in Nat
    BY <2>1, SchemaAssumption
  <2> QED
    BY <2>1, <2>2
<1>4. ASSUME NEW c \in Readers
      PROVE  /\ schemaRegime.home[c] \in Procs /\ reader[c] \in ReaderRecord
             /\ Mine(c) \in EntryRecord /\ copy \in EntryRecord
  <2>1. schemaRegime.home[c] \in Procs
    BY DEF Procs
  <2> QED
    BY <1>2, <2>1 DEF Mine, SchemaTyped
<1>5. ASSUME NEW reading \in ReadingRecord PROVE Kept(reading) \in EntryRecord
  BY <1>3 DEF Kept, EntryRecord
<1>6. \A ok, groups \in BOOLEAN : Reading(ok, groups) \in ReadingRecord
  BY <1>3 DEF Reading, ReadingRecord
<1>7. ASSUME NEW c \in Readers, NEW r, r \in ReaderRecord, Becomes(c, r)
      PROVE  reader' \in [Readers' -> ReaderRecord]
  BY <1>1, <1>2, <1>7 DEF Becomes, SchemaTyped
<1>8. ASSUME NEW c \in Readers, NEW reading \in ReadingRecord, Remember(c, reading)
      PROVE  memory' \in [Procs' -> EntryRecord]
  BY <1>1, <1>2, <1>4, <1>5, <1>8 DEF Remember, SchemaTyped
<1>9. ASSUME NEW r \in ReaderRecord, NEW reading \in ReadingRecord, NEW how \in {"kept", "read", "raised"}
      PROVE  Told(r, reading, how) \in ReaderRecord
  BY DEF Told, ReaderRecord
<1>10. Nothing \in ReadingRecord /\ AtRest \in ReaderRecord
  BY DEF Nothing, AtRest, ReadingRecord, ReaderRecord
<1>11. ASSUME NEW c \in Readers, AskSchema(c) PROVE SchemaTyped'
  <2>1. [AtRest EXCEPT !.at = "memory"] \in ReaderRecord
    BY <1>10 DEF ReaderRecord
  <2> QED
    BY <1>1, <1>2, <1>7, <1>11, <2>1 DEF AskSchema, GroupState, SchemaTyped
<1>12. ASSUME NEW c \in Readers, LookInMemory(c) PROVE SchemaTyped'
  <2>1. Told(reader[c], Mine(c).reading, "kept") \in ReaderRecord
    BY <1>4, <1>9 DEF EntryRecord
  <2>2. [reader[c] EXCEPT !.at = "redis"] \in ReaderRecord
    BY <1>4 DEF ReaderRecord
  <2> QED
    BY <1>1, <1>2, <1>7, <1>12, <2>1, <2>2 DEF LookInMemory, GroupState, SchemaTyped
<1>13. ASSUME NEW c \in Readers, LookInRedis(c) PROVE SchemaTyped'
  <2>1. copy.reading \in ReadingRecord
    BY <1>4 DEF EntryRecord
  <2>2. Told(reader[c], copy.reading, "kept") \in ReaderRecord
    BY <1>4, <1>9, <2>1
  <2>3. [reader[c] EXCEPT !.at = "wait"] \in ReaderRecord
    BY <1>4 DEF ReaderRecord
  <2>4. memory' \in [Procs' -> EntryRecord]
    BY <1>1, <1>2, <1>8, <1>13, <2>1 DEF LookInRedis, SchemaTyped
  <2> QED
    BY <1>1, <1>2, <1>7, <1>13, <2>2, <2>3, <2>4 DEF LookInRedis, GroupState, SchemaTyped
<1>14. ASSUME NEW c \in Readers, TakeFetchLock(c) PROVE SchemaTyped'
  <2>1. AfterWaiting(c) \in ReaderRecord
    <3>1. Told(reader[c], Mine(c).reading, "kept") \in ReaderRecord
      BY <1>4, <1>9 DEF EntryRecord
    <3>2. [reader[c] EXCEPT !.at = "read"] \in ReaderRecord
      BY <1>4 DEF ReaderRecord
    <3> QED
      BY <3>1, <3>2 DEF AfterWaiting
  <2>2. reader' \in [Readers' -> ReaderRecord]
    BY <1>7, <1>14, <2>1 DEF TakeFetchLock
  <2>3. fetching' \in [Procs' -> Readers' \cup {"nobody"}]
    BY <1>1, <1>2, <1>14 DEF TakeFetchLock, SchemaTyped
  <2> QED
    BY <1>1, <1>2, <1>14, <2>2, <2>3 DEF TakeFetchLock, GroupState, SchemaTyped
<1>15. ASSUME NEW c \in Readers, ReadBoard(c) PROVE SchemaTyped'
  <2>1. ASSUME NEW reading \in ReadingRecord
        PROVE  [reader[c] EXCEPT !.at = "keep", !.reading = reading] \in ReaderRecord
    BY <1>4 DEF ReaderRecord
  <2>2. Told(reader[c], Nothing, "raised") \in ReaderRecord
    BY <1>4, <1>9, <1>10
  <2>3. reader' \in [Readers' -> ReaderRecord]
    BY <1>6, <1>7, <1>15, <2>1, <2>2 DEF ReadBoard
  <2>4. fetching' \in [Procs' -> Readers' \cup {"nobody"}]
    BY <1>1, <1>2, <1>15 DEF ReadBoard, SchemaTyped
  <2> QED
    BY <1>1, <1>2, <1>15, <2>3, <2>4 DEF ReadBoard, GroupState, SchemaTyped
<1>16. ASSUME NEW c \in Readers, KeepSchema(c) PROVE SchemaTyped'
  <2>1. PICK reading : reading = [reader[c].reading EXCEPT !.kept = hour]
    OBVIOUS
  <2>2. reading \in ReadingRecord
    BY <1>3, <1>4, <2>1 DEF ReaderRecord, ReadingRecord
  <2>3. Told(reader[c], reading, "read") \in ReaderRecord
    BY <1>4, <1>9, <2>2
  <2>4. reader' \in [Readers' -> ReaderRecord]
    BY <1>7, <1>16, <2>1, <2>3 DEF KeepSchema
  <2>5. fetching' \in [Procs' -> Readers' \cup {"nobody"}]
    BY <1>1, <1>2, <1>16 DEF KeepSchema, SchemaTyped
  <2>6. memory' \in [Procs' -> EntryRecord]
    BY <1>1, <1>2, <1>8, <1>16, <2>1, <2>2 DEF KeepSchema, SchemaTyped
  <2>7. copy' \in EntryRecord
    BY <1>2, <1>5, <1>16, <2>1, <2>2 DEF KeepSchema, SchemaTyped
  <2> QED
    BY <1>1, <1>2, <1>16, <2>4, <2>5, <2>6, <2>7 DEF KeepSchema, GroupState, SchemaTyped
<1>17. ASSUME NEW p \in Procs, PlaceTask(p) PROVE SchemaTyped'
  <2>1. groupCache[p] \in EntryRecord
    BY <1>2 DEF SchemaTyped
  <2>2. Kept(Reading(TRUE, grouped)) \in EntryRecord
    BY <1>2, <1>5, <1>6 DEF SchemaTyped
  <2>3. PICK entry \in EntryRecord, ever \in {"never", "with", "without"},
             at \in {"its group", "fallback"} :
          /\ groupCache' = [groupCache EXCEPT ![p] = entry]
          /\ everListed' = [everListed EXCEPT ![p] = ever] /\ placed' = [placed EXCEPT ![p] = at]
    <3>1. everListed[p] \in {"never", "with", "without"}
      BY <1>2 DEF SchemaTyped
    <3> QED
      BY <1>17, <2>1, <2>2, <3>1 DEF PlaceTask, GroupsIfFailed
  <2>4. /\ groupCache' \in [Procs' -> EntryRecord]
        /\ everListed' \in [Procs' -> {"never", "with", "without"}]
        /\ placed' \in [Procs' -> {"nowhere", "its group", "fallback"}]
    BY <1>1, <1>2, <2>3 DEF SchemaTyped
  <2> QED
    BY <1>1, <1>2, <1>17, <2>4 DEF PlaceTask, SchemaTyped
<1>18. CASE GroupChanges
  BY <1>1, <1>2, <1>18 DEF GroupChanges, SchemaTyped
<1>19. CASE HourPasses
  <2>1. hour' \in 0 .. schemaRegime'.maxHour
    BY <1>1, <1>3, <1>19 DEF HourPasses
  <2> QED
    BY <1>1, <1>2, <1>19, <2>1 DEF HourPasses, GroupState, SchemaTyped
<1> QED
  BY <1>1, <1>11, <1>12, <1>13, <1>14, <1>15, <1>16, <1>17, <1>18, <1>19 DEF SchemaNext

LEMMA SchemaMemoryKept ==
  ASSUME SchemaInv, SchemaNext
  PROVE  CopyHolds' /\ \A p \in Procs : MemoryHolds(p)'
<1>1. SchemaTyped /\ SchemaTyped' /\ CopyHolds /\ UNCHANGED schemaRegime
  BY SchemaTypesKept DEF SchemaInv
<1>2. /\ hour \in Nat /\ copy \in EntryRecord
      /\ \A p \in Procs : memory[p] \in EntryRecord /\ groupCache[p] \in EntryRecord /\ MemoryHolds(p)
      /\ \A c \in Readers : schemaRegime.home[c] \in Procs /\ reader[c] \in ReaderRecord
  BY <1>1, SchemaFacts DEF SchemaInv
<1>3. ASSUME NEW c \in Readers, LookInRedis(c) PROVE CopyHolds' /\ \A p \in Procs : MemoryHolds(p)'
  <2>1. CopyHolds' /\ UNCHANGED <<hour, copy, groupCache>>
    BY <1>1, <1>3 DEF LookInRedis, CopyHolds, GroupState
  <2>2. ASSUME NEW p \in Procs PROVE MemoryHolds(p)'
    <3>1. CASE memory'[p] = memory[p]
      BY <1>2, <2>1, <3>1 DEF MemoryHolds
    <3>2. CASE memory'[p] # memory[p]
      <4>1. Fresh(copy) /\ memory'[p] = Kept(copy.reading)
        BY <1>1, <1>2, <1>3, <3>2 DEF LookInRedis, Remember, SchemaTyped
      <4>2. /\ copy.reading.ok /\ copy.reading.kept = copy.at /\ hour - copy.at < 2
            /\ copy.at \in Nat /\ memory'[p].at = hour /\ memory'[p].reading = copy.reading
        BY <1>1, <1>2, <4>1 DEF Fresh, CopyHolds, Kept, SchemaTTL, EntryRecord
      <4> QED
        BY <1>2, <2>1, <4>2 DEF MemoryHolds, SchemaTTL
    <3> QED
      BY <3>1, <3>2
  <2> QED
    BY <2>1, <2>2
<1>4. ASSUME NEW c \in Readers, KeepSchema(c) PROVE CopyHolds' /\ \A p \in Procs : MemoryHolds(p)'
  <2>1. PICK reading : reading = [reader[c].reading EXCEPT !.kept = hour]
    OBVIOUS
  <2>2. reading.kept = hour /\ UNCHANGED <<hour, groupCache>>
    BY <1>2, <1>4, <2>1 DEF ReaderRecord, ReadingRecord, KeepSchema, GroupState
  <2>3. CASE Keeps(reading)
    <3>1. reading.ok /\ Remember(c, reading) /\ copy' \in {copy, Kept(reading)}
      BY <1>4, <2>1, <2>3 DEF KeepSchema, Keeps
    <3>2. CopyHolds'
      BY <1>1, <1>2, <2>2, <3>1 DEF CopyHolds, Kept
    <3>3. ASSUME NEW p \in Procs PROVE MemoryHolds(p)'
      <4>1. memory'[p] \in {memory[p], Kept(reading)}
        BY <1>1, <1>2, <3>1 DEF Remember, SchemaTyped
      <4> QED
        BY <1>2, <2>2, <3>1, <4>1 DEF MemoryHolds, Kept, SchemaTTL
    <3> QED
      BY <3>2, <3>3
  <2>4. CASE ~Keeps(reading)
    <3>1. UNCHANGED <<memory, copy>>
      BY <1>4, <2>1, <2>4 DEF KeepSchema
    <3> QED
      BY <1>1, <1>2, <2>2, <3>1 DEF CopyHolds, MemoryHolds
  <2> QED
    BY <2>3, <2>4
<1>5. ASSUME NEW p \in Procs, PlaceTask(p) PROVE CopyHolds' /\ \A q \in Procs : MemoryHolds(q)'
  <2>1. UNCHANGED <<hour, memory, copy>>
    BY <1>5 DEF PlaceTask
  <2>2. ASSUME NEW q \in Procs PROVE groupCache'[q].at <= hour
    <3>1. groupCache'[q] = groupCache[q] \/ groupCache'[q] = Kept(Reading(TRUE, grouped))
      BY <1>1, <1>5, PlaceDoes
    <3>2. Kept(Reading(TRUE, grouped)).at = hour
      BY DEF Kept
    <3>3. groupCache[q].at <= hour
      BY <1>2 DEF MemoryHolds
    <3>4. hour <= hour
      BY <1>2
    <3>5. CASE groupCache'[q] = groupCache[q]
      BY <3>3, <3>5
    <3>6. CASE groupCache'[q] = Kept(Reading(TRUE, grouped))
      BY <3>2, <3>4, <3>6
    <3> QED
      BY <3>1, <3>5, <3>6
  <2>3. CopyHolds'
    BY <1>1, <2>1 DEF CopyHolds
  <2>4. ASSUME NEW q \in Procs PROVE MemoryHolds(q)'
    BY <1>2, <2>1, <2>2 DEF MemoryHolds
  <2> QED
    BY <2>3, <2>4
<1>6. CASE HourPasses
  <2>1. hour' = hour + 1 /\ UNCHANGED <<memory, copy, groupCache>>
    BY <1>6 DEF HourPasses, GroupState
  <2> QED
    BY <1>1, <1>2, <2>1 DEF CopyHolds, MemoryHolds, EntryRecord
<1>7. CASE UNCHANGED <<hour, memory, copy, groupCache>>
  BY <1>1, <1>2, <1>7 DEF CopyHolds, MemoryHolds
<1>8. ASSUME NEW c \in Readers, AskSchema(c) \/ LookInMemory(c) \/ TakeFetchLock(c) \/ ReadBoard(c)
      PROVE  UNCHANGED <<hour, memory, copy, groupCache>>
  BY <1>8 DEF AskSchema, LookInMemory, TakeFetchLock, ReadBoard, GroupState
<1>9. GroupChanges => UNCHANGED <<hour, memory, copy, groupCache>>
  BY DEF GroupChanges
<1> QED
  BY <1>3, <1>4, <1>5, <1>6, <1>7, <1>8, <1>9 DEF SchemaNext

LEMMA SchemaReadersKept ==
  ASSUME SchemaInv, SchemaNext
  PROVE  (\A p \in Procs : LockHolds(p)') /\ \A c \in Readers : ReaderHolds(c)'
<1>1. SchemaTyped /\ SchemaTyped' /\ CopyHolds /\ UNCHANGED schemaRegime
  BY SchemaTypesKept DEF SchemaInv
<1>2. \A c \in Readers : /\ schemaRegime.home[c] \in Procs /\ reader[c] \in ReaderRecord
                         /\ Mine(c) \in EntryRecord /\ c # "nobody"
                         /\ ReaderHolds(c) /\ MemoryHolds(schemaRegime.home[c])
  BY <1>1, SchemaFacts DEF SchemaInv
<1>3. \A p \in Procs : LockHolds(p)
  BY DEF SchemaInv
<1>4. UNCHANGED <<Procs, Readers>>
  BY <1>1 DEF Procs, Readers
<1>5. ASSUME NEW c \in Readers, NEW r, Becomes(c, r), UNCHANGED fetching,
             Fits(r),
             r.at \in {"read", "keep"} <=> reader[c].at \in {"read", "keep"}
      PROVE  (\A p \in Procs : LockHolds(p)') /\ \A d \in Readers : ReaderHolds(d)'
  <2>1. reader'[c] = r /\ \A d \in Readers : d # c => reader'[d] = reader[d]
    BY <1>1, <1>5, ReaderMoves
  <2>2. ASSUME NEW d \in Readers PROVE ReaderHolds(d)'
    <3>1. CASE d = c
      BY <1>1, <1>2, <1>5, <2>1, <3>1 DEF ReaderHolds, Fits
    <3>2. CASE d # c
      BY <1>1, <1>2, <1>5, <2>1, <3>2 DEF ReaderHolds, Fits
    <3> QED
      BY <3>1, <3>2
  <2> QED
    BY <1>1, <1>3, <1>5, <2>2 DEF LockHolds
<1>6. ASSUME NEW c \in Readers, NEW r, Becomes(c, r), Fits(r),
             r.at \notin {"read", "keep"}, reader[c].at \in {"read", "keep"},
             fetching' = [fetching EXCEPT ![schemaRegime.home[c]] = "nobody"]
      PROVE  (\A p \in Procs : LockHolds(p)') /\ \A d \in Readers : ReaderHolds(d)'
  <2>1. reader'[c] = r /\ \A d \in Readers : d # c => reader'[d] = reader[d]
    BY <1>1, <1>6, ReaderMoves
  <2>2. ASSUME NEW d \in Readers PROVE ReaderHolds(d)'
    <3>1. CASE d = c
      <4>1. fetching'[schemaRegime.home[d]] # d
        BY <1>1, <1>2, <1>6, <3>1 DEF SchemaTyped
      <4> QED
        BY <1>1, <1>2, <1>6, <2>1, <3>1, <4>1 DEF ReaderHolds, Fits
    <3>2. CASE d # c
      <4>1. reader'[d] = reader[d] /\ fetching[schemaRegime.home[c]] = c
        BY <1>2, <1>6, <2>1, <3>2 DEF ReaderHolds
      <4>2. fetching'[schemaRegime.home[d]] = d <=> fetching[schemaRegime.home[d]] = d
        BY <1>1, <1>2, <1>6, <3>2, <4>1 DEF SchemaTyped
      <4> QED
        BY <1>1, <1>2, <4>1, <4>2 DEF ReaderHolds, Fits
    <3> QED
      BY <3>1, <3>2
  <2>3. ASSUME NEW p \in Procs PROVE LockHolds(p)'
    BY <1>1, <1>3, <1>6 DEF LockHolds, SchemaTyped
  <2> QED
    BY <2>2, <2>3
<1>7. ASSUME NEW c \in Readers, AskSchema(c)
      PROVE  (\A p \in Procs : LockHolds(p)') /\ \A d \in Readers : ReaderHolds(d)'
  <2>1. PICK r : r = [AtRest EXCEPT !.at = "memory"]
    OBVIOUS
  <2>2. Fits(r) /\ r.at = "memory"
    BY <2>1 DEF AtRest, Fits
  <2> QED
    BY <1>5, <1>7, <2>1, <2>2 DEF AskSchema
<1>8. ASSUME NEW c \in Readers, LookInMemory(c)
      PROVE  (\A p \in Procs : LockHolds(p)') /\ \A d \in Readers : ReaderHolds(d)'
  <2>1. PICK r : r = IF Fresh(Mine(c)) THEN Told(reader[c], Mine(c).reading, "kept")
                     ELSE [reader[c] EXCEPT !.at = "redis"]
    OBVIOUS
  <2>2. Fits(r) /\ r.at \in {"told", "redis"}
    <3>1. Fits(reader[c]) /\ reader[c].at = "memory" /\ reader[c].how = "none" /\ ~reader[c].needless
      BY <1>2, <1>8 DEF ReaderHolds, LookInMemory, Fits
    <3>2. Fresh(Mine(c)) => Mine(c).reading.ok
      BY <1>2 DEF MemoryHolds, Mine, Fresh
    <3> QED
      BY <1>2, <2>1, <3>1, <3>2 DEF Told, Fits, ReaderRecord
  <2> QED
    BY <1>5, <1>8, <2>1, <2>2 DEF LookInMemory
<1>9. ASSUME NEW c \in Readers, LookInRedis(c)
      PROVE  (\A p \in Procs : LockHolds(p)') /\ \A d \in Readers : ReaderHolds(d)'
  <2>1. PICK r : /\ Becomes(c, r)
                 /\ \/ r = Told(reader[c], copy.reading, "kept") /\ Fresh(copy)
                    \/ r = [reader[c] EXCEPT !.at = "wait"]
    BY <1>9 DEF LookInRedis
  <2>2. Fits(r) /\ r.at \in {"told", "wait"}
    <3>1. Fits(reader[c]) /\ reader[c].at = "redis" /\ reader[c].how = "none" /\ ~reader[c].needless
      BY <1>2, <1>9 DEF ReaderHolds, LookInRedis, Fits
    <3>2. Fresh(copy) => copy.reading.ok
      BY <1>1 DEF CopyHolds, Fresh
    <3> QED
      BY <1>2, <2>1, <3>1, <3>2 DEF Told, Fits, ReaderRecord
  <2> QED
    BY <1>5, <1>9, <2>1, <2>2 DEF LookInRedis
<1>10. ASSUME NEW c \in Readers, TakeFetchLock(c)
       PROVE  (\A p \in Procs : LockHolds(p)') /\ \A d \in Readers : ReaderHolds(d)'
  <2>1. CASE Fresh(Mine(c))
    <3>1. PICK r : r = Told(reader[c], Mine(c).reading, "kept")
      OBVIOUS
    <3>2. Fits(r) /\ r.at = "told"
      <4>1. Fits(reader[c]) /\ ~reader[c].needless
        BY <1>2 DEF ReaderHolds, Fits
      <4>2. Mine(c).reading.ok
        BY <1>2, <2>1 DEF MemoryHolds, Mine, Fresh
      <4> QED
        BY <1>2, <3>1, <4>1, <4>2 DEF Told, Fits, ReaderRecord
    <3>3. UNCHANGED fetching /\ Becomes(c, r) /\ reader[c].at = "wait"
      <4>1. AfterWaiting(c) = r /\ reader[c].at = "wait" /\ Becomes(c, r)
        BY <1>10, <2>1, <3>1 DEF TakeFetchLock, AfterWaiting
      <4>2. /\ fetching[schemaRegime.home[c]] = "nobody"
            /\ fetching' = [fetching EXCEPT ![schemaRegime.home[c]] = "nobody"]
        BY <1>10, <3>2, <4>1 DEF TakeFetchLock
      <4>3. UNCHANGED fetching
        <5>1. fetching = [p \in DOMAIN fetching |-> fetching[p]]
          BY <1>1 DEF SchemaTyped
        <5> QED
          BY <4>2, <5>1
      <4> QED
        BY <4>1, <4>3
    <3> QED
      BY <1>5, <3>2, <3>3
  <2>2. CASE ~Fresh(Mine(c))
    <3>1. PICK r : r = [reader[c] EXCEPT !.at = "read"]
      OBVIOUS
    <3>2. Fits(r) /\ r.at = "read"
      <4>1. Fits(reader[c]) /\ ~reader[c].needless /\ reader[c].how = "none"
        BY <1>2, <1>10 DEF ReaderHolds, Fits, TakeFetchLock
      <4> QED
        BY <1>2, <3>1, <4>1 DEF Fits, ReaderRecord
    <3>3. /\ fetching' = [fetching EXCEPT ![schemaRegime.home[c]] = c] /\ reader' = [reader EXCEPT ![c] = r]
          /\ fetching[schemaRegime.home[c]] = "nobody"
      BY <1>10, <2>2, <3>1, <3>2 DEF TakeFetchLock, AfterWaiting, Becomes
    <3>4. ASSUME NEW d \in Readers PROVE ReaderHolds(d)'
      <4>1. CASE d = c
        BY <1>1, <1>2, <3>2, <3>3, <4>1 DEF ReaderHolds, SchemaTyped
      <4>2. CASE d # c
        <5>1. reader'[d] = reader[d]
          BY <1>1, <3>3, <4>2 DEF SchemaTyped
        <5>2. fetching'[schemaRegime.home[d]] = d <=> fetching[schemaRegime.home[d]] = d
          BY <1>1, <1>2, <3>3, <4>2 DEF SchemaTyped
        <5> QED
          BY <1>1, <1>2, <5>1, <5>2 DEF ReaderHolds, Fits
      <4> QED
        BY <4>1, <4>2
    <3>5. ASSUME NEW p \in Procs PROVE LockHolds(p)'
      BY <1>1, <1>3, <3>3 DEF LockHolds, SchemaTyped
    <3> QED
      BY <3>4, <3>5
  <2> QED
    BY <2>1, <2>2
<1>11. ASSUME NEW c \in Readers, ReadBoard(c)
       PROVE  (\A p \in Procs : LockHolds(p)') /\ \A d \in Readers : ReaderHolds(d)'
  <2>1. reader[c].at = "read" /\ reader[c].how = "none" /\ ~reader[c].needless
    BY <1>2, <1>11 DEF ReadBoard, ReaderHolds, Fits
  <2>2. ASSUME NEW reading, Becomes(c, [reader[c] EXCEPT !.at = "keep", !.reading = reading]),
               UNCHANGED fetching
        PROVE  (\A p \in Procs : LockHolds(p)') /\ \A d \in Readers : ReaderHolds(d)'
    <3>1. PICK r : r = [reader[c] EXCEPT !.at = "keep", !.reading = reading]
      OBVIOUS
    <3>2. Fits(r) /\ r.at = "keep"
      BY <1>2, <2>1, <3>1 DEF ReaderRecord, Fits
    <3> QED
      BY <1>5, <2>1, <2>2, <3>1, <3>2
  <2>3. CASE /\ Becomes(c, Told(reader[c], Nothing, "raised"))
             /\ fetching' = [fetching EXCEPT ![schemaRegime.home[c]] = "nobody"]
    <3>1. PICK r : r = Told(reader[c], Nothing, "raised")
      OBVIOUS
    <3>2. Fits(r) /\ r.at = "told"
      BY <1>2, <2>1, <3>1 DEF Told, ReaderRecord, Fits
    <3> QED
      BY <1>6, <2>1, <2>3, <3>1, <3>2
  <2> QED
    BY <1>11, <2>2, <2>3 DEF ReadBoard
<1>12. ASSUME NEW c \in Readers, KeepSchema(c)
       PROVE  (\A p \in Procs : LockHolds(p)') /\ \A d \in Readers : ReaderHolds(d)'
  <2>1. PICK r : r = Told(reader[c], [reader[c].reading EXCEPT !.kept = hour], "read")
    OBVIOUS
  <2>2. Fits(r) /\ r.at = "told"
    BY <1>2, <2>1 DEF Told, ReaderRecord, ReaderHolds, Fits
  <2> QED
    BY <1>6, <1>12, <2>1, <2>2 DEF KeepSchema
<1>13. CASE UNCHANGED <<reader, fetching>>
  BY <1>1, <1>2, <1>3, <1>13 DEF LockHolds, ReaderHolds
<1>14. (\E p \in Procs : PlaceTask(p)) \/ GroupChanges \/ HourPasses => UNCHANGED <<reader, fetching>>
  BY DEF PlaceTask, GroupChanges, HourPasses
<1> QED
  BY <1>7, <1>8, <1>9, <1>10, <1>11, <1>12, <1>13, <1>14 DEF SchemaNext

LEMMA SchemaKept == ASSUME SchemaInv, SchemaNext PROVE SchemaInv'
<1>1. SchemaTyped /\ SchemaTyped' /\ UNCHANGED <<schemaRegime, Procs, Readers>>
  BY SchemaTypesKept DEF SchemaInv, Procs, Readers
<1>2. ASSUME NEW p \in Procs PROVE GroupsHold(p)'
  <2>1. GroupsHold(p) /\ groupCache[p] \in EntryRecord
    BY <1>1 DEF SchemaInv, SchemaTyped
  <2>2. CASE UNCHANGED <<groupCache[p], everListed[p], placed[p]>>
    BY <2>1, <2>2 DEF GroupsHold
  <2>3. CASE PlaceTask(p)
    <3>1. placed'[p] = IF groupCache'[p].has /\ groupCache'[p].reading.groups
                       THEN "its group" ELSE "fallback"
      BY <1>1, <2>3, PlaceDoes
    <3>2. CASE everListed'[p] = everListed[p] /\ groupCache'[p] = groupCache[p]
      BY <2>1, <3>1, <3>2 DEF GroupsHold
    <3>3. CASE /\ groupCache'[p] = Kept(Reading(TRUE, grouped))
               /\ everListed'[p] = IF grouped THEN "with" ELSE "without"
      <4>1. groupCache'[p].has /\ groupCache'[p].reading.groups = grouped
        BY <3>3 DEF Kept, Reading
      <4> QED
        BY <3>1, <3>3, <4>1 DEF GroupsHold
    <3> QED
      BY <1>1, <2>3, <3>2, <3>3, PlaceDoes
  <2>4. ASSUME NEW q \in Procs, PlaceTask(q), p # q
        PROVE  UNCHANGED <<groupCache[p], everListed[p], placed[p]>>
    BY <1>1, <2>4, PlaceDoes
  <2>5. ASSUME \A q \in Procs : ~PlaceTask(q) PROVE UNCHANGED <<groupCache[p], everListed[p], placed[p]>>
    BY <2>5 DEF SchemaNext, AskSchema, LookInMemory, LookInRedis, TakeFetchLock, ReadBoard,
       KeepSchema, GroupChanges, HourPasses, GroupState
  <2> QED
    BY <2>2, <2>3, <2>4, <2>5
<1> QED
  BY <1>1, <1>2, SchemaMemoryKept, SchemaReadersKept DEF SchemaInv

(* What a caller is told from a cache is no older than two whiles.             *)
LEMMA SchemaWears ==
  ASSUME SchemaInv, SchemaNext
  PROVE  \A c \in Readers :
           reader[c].at # "told" /\ reader'[c].at = "told" /\ reader'[c].how = "kept" =>
             hour - reader'[c].reading.kept <= 2 * SchemaTTL - 2
<1> SUFFICES ASSUME NEW c \in Readers, reader[c].at # "told", reader'[c].at = "told",
                    reader'[c].how = "kept"
             PROVE  hour - reader'[c].reading.kept <= 2 * SchemaTTL - 2
  OBVIOUS
<1>1. SchemaTyped /\ CopyHolds /\ schemaRegime.home[c] \in Procs /\ MemoryHolds(schemaRegime.home[c])
  BY DEF SchemaInv, Procs
<1>2. hour \in Nat /\ copy \in EntryRecord /\ Mine(c) \in EntryRecord /\ reader[c] \in ReaderRecord
  BY <1>1, SchemaFacts
<1>3. CASE Fresh(Mine(c)) /\ reader'[c] = Told(reader[c], Mine(c).reading, "kept")
  <2>1. /\ hour - Mine(c).at < 2 /\ Mine(c).at <= Mine(c).reading.kept + 1
        /\ Mine(c).at \in Nat /\ Mine(c).reading.kept \in Nat
    BY <1>1, <1>2, <1>3 DEF Fresh, SchemaTTL, MemoryHolds, Mine, EntryRecord, ReadingRecord
  <2>2. reader'[c].reading = Mine(c).reading
    BY <1>2, <1>3 DEF Told, ReaderRecord
  <2> QED
    BY <1>2, <2>1, <2>2 DEF SchemaTTL
<1>4. CASE Fresh(copy) /\ reader'[c] = Told(reader[c], copy.reading, "kept")
  <2>1. hour - copy.at < 2 /\ copy.at = copy.reading.kept /\ copy.at \in Nat
    BY <1>1, <1>2, <1>4 DEF Fresh, SchemaTTL, CopyHolds, EntryRecord
  <2>2. reader'[c].reading = copy.reading
    BY <1>2, <1>4 DEF Told, ReaderRecord
  <2> QED
    BY <1>2, <2>1, <2>2 DEF SchemaTTL
<1>5. ASSUME NEW d \in Readers, d # c, NEW r, Becomes(d, r) PROVE FALSE
  BY <1>1, <1>5, ReaderMoves
<1>6. \A d \in Readers :
        AskSchema(d) \/ LookInMemory(d) \/ LookInRedis(d) \/ TakeFetchLock(d) \/ ReadBoard(d)
          \/ KeepSchema(d) => d = c
  BY <1>5 DEF AskSchema, LookInMemory, LookInRedis, TakeFetchLock, ReadBoard, KeepSchema
<1>7. ASSUME NEW r, Becomes(c, r) PROVE r.at = "told" /\ r.how = "kept" /\ reader'[c] = r
  BY <1>1, <1>7, ReaderMoves
<1>8. AskSchema(c) => FALSE
  BY <1>7 DEF AskSchema, AtRest
<1>9. LookInMemory(c) => Fresh(Mine(c)) /\ reader'[c] = Told(reader[c], Mine(c).reading, "kept")
  BY <1>2, <1>7 DEF LookInMemory, ReaderRecord
<1>10. LookInRedis(c) => Fresh(copy) /\ reader'[c] = Told(reader[c], copy.reading, "kept")
  BY <1>2, <1>7 DEF LookInRedis, ReaderRecord
<1>11. TakeFetchLock(c) => Fresh(Mine(c)) /\ reader'[c] = Told(reader[c], Mine(c).reading, "kept")
  <2> SUFFICES ASSUME TakeFetchLock(c) PROVE Fresh(Mine(c)) /\ reader'[c] = Told(reader[c], Mine(c).reading, "kept")
    OBVIOUS
  <2>1. AfterWaiting(c).at = "told" /\ reader'[c] = AfterWaiting(c)
    BY <1>7 DEF TakeFetchLock
  <2> QED
    BY <1>2, <2>1 DEF AfterWaiting, ReaderRecord
<1>12. ASSUME NEW reading, NEW how, Becomes(c, Told(reader[c], reading, how)) PROVE how = "kept"
  <2>1. PICK r : r = Told(reader[c], reading, how)
    OBVIOUS
  <2>2. r.how = "kept"
    BY <1>7, <1>12, <2>1
  <2> QED
    BY <1>2, <2>1, <2>2 DEF Told, ReaderRecord
<1>13. ReadBoard(c) => FALSE
  <2>1. ASSUME NEW reading, Becomes(c, [reader[c] EXCEPT !.at = "keep", !.reading = reading])
        PROVE  FALSE
    <3>1. PICK r : r = [reader[c] EXCEPT !.at = "keep", !.reading = reading]
      OBVIOUS
    <3>2. r.at = "told"
      BY <1>7, <2>1, <3>1
    <3> QED
      BY <1>2, <3>1, <3>2 DEF ReaderRecord
  <2> QED
    BY <1>12, <2>1 DEF ReadBoard
<1>14. KeepSchema(c) => FALSE
  BY <1>12 DEF KeepSchema
<1>15. (\E p \in Procs : PlaceTask(p)) \/ GroupChanges \/ HourPasses => FALSE
  BY DEF PlaceTask, GroupChanges, HourPasses
<1> QED
  BY <1>3, <1>4, <1>6, <1>8, <1>9, <1>10, <1>11, <1>13, <1>14, <1>15 DEF SchemaNext

LEMMA SchemaSays == ASSUME SchemaInv PROVE SchemaIsTrue
<1>1. SchemaTyped
  BY DEF SchemaInv
<1>2. SchemaTypeOK /\ FailureIsOwn
  BY <1>1 DEF SchemaInv, SchemaTyped, SchemaTypeOK, FailureIsOwn, CopyHolds, MemoryHolds, ReaderHolds,
     Fits, ReaderRecord
<1>3. OneFetch
  <2> SUFFICES ASSUME NEW p \in Procs
               PROVE  {c \in Readers : schemaRegime.home[c] = p /\ reader[c].at \in {"read", "keep"}}
                        = {fetching[p]} \ {"nobody"}
    BY DEF SchemaInv, ReaderHolds, Fits, OneFetch
  <2>1. \A c \in Readers : reader[c].at \in {"read", "keep"} <=> fetching[schemaRegime.home[c]] = c
    BY DEF SchemaInv, ReaderHolds
  <2>2. fetching[p] # "nobody" => fetching[p] \in Readers /\ schemaRegime.home[fetching[p]] = p
    BY <1>1 DEF SchemaInv, LockHolds, SchemaTyped
  <2>3. "nobody" \notin Readers
    BY <1>1, SchemaAssumption DEF SchemaTyped, Readers
  <2> QED
    BY <2>1, <2>2, <2>3
<1>4. GroupIsKept
  BY DEF SchemaInv, GroupsHold, GroupIsKept
<1> QED
  BY <1>2, <1>3, <1>4 DEF SchemaIsTrue

-----------------------------------------------------------------------------
(* The places of boards, and the listings of their tasks.                  *)

PlaceRecord  == [space : Spaces \cup {"none"}, read : Nat]
FinderRecord ==
  [at : {"rest", "look", "wait", "spaces", "walk", "done"}, board : ReadBoards \cup {"none"},
   own : [ReadBoards -> PlaceRecord] \cup {<<>>}, todo : SUBSET Spaces, whole : BOOLEAN,
   saw : {FALSE}, answer : PlaceRecord]
ReadTyped ==
  /\ readRegime \in ReadRegimes /\ now \in Nat /\ stamped \in Nat /\ stamped <= now
  /\ spaceCache \in [ReadBoards -> PlaceRecord]
  /\ lock \in readRegime.finders \cup {"nobody"}
  /\ finder \in [readRegime.finders -> FinderRecord]

(* What the last walk came to is as old as its stamp. *)
CacheHolds(b) ==
  /\ spaceCache[b].read <= now
  /\ spaceCache[b] # Unknown /\ b \notin stale => spaceCache[b].read = stamped
(* Who walks has the lock. *)
FinderHolds(c) ==
  /\ finder[c].at \in {"look", "wait", "spaces", "walk"} =>
       finder[c].board \in ReadBoards /\ finder[c].own \in [ReadBoards -> PlaceRecord]
  /\ finder[c].at \in {"spaces", "walk"} <=> lock = c
ReadInv ==
  /\ ReadTyped /\ NeverShownEmpty
  /\ (\A b \in ReadBoards : CacheHolds(b)) /\ \A c \in readRegime.finders : FinderHolds(c)

LEMMA ReadStarts == ASSUME ReadInit PROVE ReadInv
<1>1. Unknown \in PlaceRecord /\ Resting \in FinderRecord
  BY DEF Unknown, Resting, PlaceRecord, FinderRecord
<1>2. ReadTyped
  BY <1>1 DEF ReadInit, ReadTyped
<1>3. \A b \in ReadBoards : CacheHolds(b)
  BY DEF ReadInit, CacheHolds, Unknown
<1>4. \A c \in readRegime.finders : FinderHolds(c)
  BY ReadAssumption DEF ReadInit, FinderHolds, Resting
<1>5. NeverShownEmpty
  BY DEF ReadInit, NeverShownEmpty, NoListing
<1> QED
  BY <1>2, <1>3, <1>4, <1>5 DEF ReadInv

LEMMA ReadRests == ASSUME ReadInv, UNCHANGED readVars PROVE ReadInv'
<1>1. ReadTyped' /\ NeverShownEmpty'
  BY DEF ReadInv, readVars, ReadTyped, NeverShownEmpty, ReadBoards, Spaces, PlaceRecord, FinderRecord
<1>2. \A b \in ReadBoards' : CacheHolds(b)'
  BY DEF ReadInv, readVars, CacheHolds, ReadBoards
<1>3. ASSUME NEW c \in readRegime'.finders PROVE FinderHolds(c)'
  <2>1. FinderHolds(c)
    BY DEF ReadInv, readVars
  <2> QED
    BY <2>1 DEF readVars, FinderHolds, ReadBoards, Spaces, PlaceRecord
<1> QED
  BY <1>1, <1>2, <1>3 DEF ReadInv

LEMMA FinderMoves ==
  ASSUME ReadTyped, NEW c \in readRegime.finders, NEW f, Sets(c, f)
  PROVE  finder'[c] = f /\ \A d \in readRegime.finders : d # c => finder'[d] = finder[d]
BY DEF Sets, ReadTyped

(* A caller who goes on alone.                                                 *)
LEMMA FinderGoesOn ==
  ASSUME ReadInv, NEW c \in readRegime.finders, NEW f \in FinderRecord, Sets(c, f),
         UNCHANGED <<readRegime, now, stamped, spaceCache, stale, lock, listing>>,
         f.at \in {"look", "wait", "spaces", "walk"} =>
           f.board \in ReadBoards /\ f.own \in [ReadBoards -> PlaceRecord],
         f.at \in {"spaces", "walk"} <=> finder[c].at \in {"spaces", "walk"}
  PROVE  ReadInv'
<1>1. ReadTyped /\ UNCHANGED <<ReadBoards, Spaces, PlaceRecord, FinderRecord>>
  BY DEF ReadInv, ReadBoards, Spaces, PlaceRecord, FinderRecord
<1>2. ReadTyped'
  BY <1>1 DEF Sets, ReadTyped
<1>3. ASSUME NEW d \in readRegime.finders PROVE FinderHolds(d)'
  <2>1. FinderHolds(d) /\ FinderHolds(c)
    BY DEF ReadInv
  <2>2. CASE d = c
    <3>1. finder'[c] = f
      BY <1>1, FinderMoves
    <3> QED
      BY <1>1, <2>1, <2>2, <3>1 DEF FinderHolds
  <2>3. CASE d # c
    <3>1. finder'[d] = finder[d]
      BY <1>1, <2>3, FinderMoves
    <3> QED
      BY <1>1, <2>1, <3>1 DEF FinderHolds
  <2> QED
    BY <2>2, <2>3
<1>4. ASSUME NEW b \in ReadBoards PROVE CacheHolds(b)'
  BY DEF ReadInv, CacheHolds
<1> QED
  BY <1>1, <1>2, <1>3, <1>4 DEF ReadInv, NeverShownEmpty

(* One who takes the lock, or lets it go.                                      *)
LEMMA LockMoves ==
  ASSUME ReadInv, NEW c \in readRegime.finders, NEW f \in FinderRecord, Sets(c, f),
         UNCHANGED <<readRegime, now>>, lock' \in readRegime.finders \cup {"nobody"},
         f.at \in {"look", "wait", "spaces", "walk"} =>
           f.board \in ReadBoards /\ f.own \in [ReadBoards -> PlaceRecord],
         lock \in {"nobody", c}, lock' \in {"nobody", c},
         f.at \in {"spaces", "walk"} <=> lock' = c
  PROVE  /\ \A d \in readRegime.finders : FinderHolds(d)'
         /\ finder' \in [readRegime.finders -> FinderRecord]
<1>1. ReadTyped /\ UNCHANGED <<ReadBoards, Spaces, PlaceRecord, FinderRecord>>
  BY DEF ReadInv, ReadBoards, Spaces, PlaceRecord, FinderRecord
<1>2. \A d \in readRegime.finders : d # "nobody"
  BY <1>1, ReadAssumption DEF ReadTyped
<1>3. ASSUME NEW d \in readRegime.finders PROVE FinderHolds(d)'
  <2>1. FinderHolds(d)
    BY DEF ReadInv
  <2>2. CASE d = c
    <3>1. finder'[c] = f
      BY <1>1, FinderMoves
    <3> QED
      BY <1>1, <2>2, <3>1 DEF FinderHolds
  <2>3. CASE d # c
    <3>1. finder'[d] = finder[d]
      BY <1>1, <2>3, FinderMoves
    <3>2. lock # d /\ lock' # d
      BY <1>2, <2>3
    <3> QED
      BY <1>1, <2>1, <3>1, <3>2 DEF FinderHolds
  <2> QED
    BY <2>2, <2>3
<1>4. finder' \in [readRegime.finders -> FinderRecord]
  BY <1>1 DEF Sets, ReadTyped
<1> QED
  BY <1>3, <1>4

LEMMA ReadFacts ==
  ASSUME ReadTyped
  PROVE  /\ now \in Nat /\ stamped \in Nat /\ Unknown \in PlaceRecord /\ Resting \in FinderRecord
         /\ \A b \in ReadBoards : Cached(b) \in PlaceRecord /\ spaceCache[b] \in PlaceRecord
         /\ \A c \in readRegime.finders : finder[c] \in FinderRecord /\ c # "nobody"
<1>1. Unknown \in PlaceRecord /\ Resting \in FinderRecord
  BY DEF Unknown, Resting, PlaceRecord, FinderRecord
<1>2. \A b \in ReadBoards : Cached(b) \in PlaceRecord /\ spaceCache[b] \in PlaceRecord
  BY <1>1 DEF Cached, ReadTyped
<1>3. \A c \in readRegime.finders : finder[c] \in FinderRecord /\ c # "nobody"
  BY ReadAssumption DEF ReadTyped
<1> QED
  BY <1>1, <1>2, <1>3 DEF ReadTyped

LEMMA AnswerFits ==
  ASSUME NEW f \in FinderRecord, NEW place \in PlaceRecord
  PROVE  Answers(f, place) \in FinderRecord /\ Answers(f, place).at = "done"
BY DEF Answers, FinderRecord

LEMMA AskKeeps == ASSUME ReadInv, NEW c \in readRegime.finders, Ask(c) PROVE ReadInv'
<1>1. ReadTyped /\ Unknown \in PlaceRecord
  BY ReadFacts DEF ReadInv
<1>2. PICK b \in ReadBoards :
        Sets(c, [Resting EXCEPT !.at = "look", !.board = b, !.own = [x \in ReadBoards |-> Unknown]])
  BY DEF Ask
<1>3. PICK f : f = [Resting EXCEPT !.at = "look", !.board = b, !.own = [x \in ReadBoards |-> Unknown]]
  OBVIOUS
<1>4. PICK own : own = [x \in ReadBoards |-> Unknown]
  OBVIOUS
<1>5. own \in [ReadBoards -> PlaceRecord]
  BY <1>1, <1>4
<1>6. f \in FinderRecord /\ f.at = "look" /\ f.board = b /\ f.own = own
  BY <1>1, <1>3, <1>4, <1>5 DEF Resting, FinderRecord
<1>7. Sets(c, f)
  BY <1>2, <1>3
<1> QED
  BY <1>5, <1>6, <1>7, FinderGoesOn DEF Ask, World, Cache

LEMMA LookKeeps == ASSUME ReadInv, NEW c \in readRegime.finders, Look(c) PROVE ReadInv'
<1>1. ReadTyped /\ finder[c] \in FinderRecord /\ finder[c].at = "look" /\ FinderHolds(c)
  BY ReadFacts DEF ReadInv, Look
<1>2. finder[c].board \in ReadBoards /\ finder[c].own \in [ReadBoards -> PlaceRecord]
  BY <1>1 DEF FinderHolds
<1>3. CASE Sets(c, Answers(finder[c], Cached(finder[c].board)))
  <2>1. PICK f : f = Answers(finder[c], Cached(finder[c].board))
    OBVIOUS
  <2>2. f \in FinderRecord /\ f.at = "done"
    BY <1>1, <1>2, <2>1, ReadFacts, AnswerFits
  <2> QED
    BY <1>1, <1>3, <2>1, <2>2, FinderGoesOn DEF Look, World, Cache
<1>4. CASE Sets(c, [finder[c] EXCEPT !.at = "wait"])
  <2>1. PICK f : f = [finder[c] EXCEPT !.at = "wait"]
    OBVIOUS
  <2>2. f \in FinderRecord /\ f.at = "wait" /\ f.board = finder[c].board /\ f.own = finder[c].own
    BY <1>1, <2>1 DEF FinderRecord
  <2> QED
    BY <1>1, <1>2, <1>4, <2>1, <2>2, FinderGoesOn DEF Look, World, Cache
<1> QED
  BY <1>3, <1>4 DEF Look

LEMMA EnterKeeps == ASSUME ReadInv, NEW c \in readRegime.finders, Enter(c) PROVE ReadInv'
<1>1. ReadTyped /\ finder[c] \in FinderRecord /\ finder[c].at = "wait" /\ FinderHolds(c) /\ c # "nobody"
  BY ReadFacts DEF ReadInv, Enter
<1>2. finder[c].board \in ReadBoards /\ finder[c].own \in [ReadBoards -> PlaceRecord]
  BY <1>1 DEF FinderHolds
<1>3. PICK f : f = Enters(finder[c])
  OBVIOUS
<1>4. Sets(c, f) /\ lock = "nobody" /\ lock' = IF f.at = "spaces" THEN c ELSE lock
  BY <1>3 DEF Enter
<1>5. /\ f \in FinderRecord /\ f.at \in {"spaces", "done"}
      /\ f.at = "spaces" => f.board = finder[c].board /\ f.own = finder[c].own
  <2>1. CASE f = Answers(finder[c], Cached(finder[c].board))
    BY <1>1, <1>2, <2>1, ReadFacts, AnswerFits
  <2>2. CASE f = [finder[c] EXCEPT !.at = "spaces"]
    BY <1>1, <2>2 DEF FinderRecord
  <2> QED
    BY <1>3, <2>1, <2>2 DEF Enters
<1>6. UNCHANGED <<readRegime, readLeft, now, places, spaceCache, stamped, stale, listing>>
  BY DEF Enter, World, Cache
<1>7. /\ \A d \in readRegime.finders : FinderHolds(d)'
      /\ finder' \in [readRegime.finders -> FinderRecord]
  BY <1>1, <1>2, <1>4, <1>5, <1>6, LockMoves
<1>8. UNCHANGED <<ReadBoards, Spaces, PlaceRecord, FinderRecord>>
  BY <1>6 DEF ReadBoards, Spaces, PlaceRecord, FinderRecord
<1>9. ReadTyped'
  BY <1>1, <1>4, <1>6, <1>7, <1>8 DEF ReadTyped
<1>10. \A b \in ReadBoards : CacheHolds(b)'
  BY <1>6 DEF ReadInv, CacheHolds
<1> QED
  BY <1>6, <1>7, <1>8, <1>9, <1>10 DEF ReadInv, NeverShownEmpty

LEMMA WalkSpacesKeeps == ASSUME ReadInv, NEW c \in readRegime.finders, WalkSpaces(c) PROVE ReadInv'
<1>1. ReadTyped /\ finder[c] \in FinderRecord /\ finder[c].at = "spaces" /\ FinderHolds(c)
  BY ReadFacts DEF ReadInv, WalkSpaces
<1>2. finder[c].board \in ReadBoards /\ finder[c].own \in [ReadBoards -> PlaceRecord]
  BY <1>1 DEF FinderHolds
<1>3. ASSUME NEW f, Sets(c, f), f \in FinderRecord, f.at = "walk", f.board = finder[c].board,
             f.own = finder[c].own
      PROVE  ReadInv'
  BY <1>1, <1>2, <1>3, FinderGoesOn DEF WalkSpaces, World, Cache
<1>4. CASE Sets(c, [finder[c] EXCEPT !.at = "walk", !.todo = Spaces])
  <2>1. PICK f : f = [finder[c] EXCEPT !.at = "walk", !.todo = Spaces]
    OBVIOUS
  <2>2. f \in FinderRecord /\ f.at = "walk" /\ f.board = finder[c].board /\ f.own = finder[c].own
    BY <1>1, <2>1 DEF FinderRecord
  <2> QED
    BY <1>3, <1>4, <2>1, <2>2
<1>5. ASSUME NEW ss \in SUBSET Spaces, Sets(c, [finder[c] EXCEPT !.at = "walk", !.todo = ss, !.whole = FALSE])
      PROVE  ReadInv'
  <2>1. PICK f : f = [finder[c] EXCEPT !.at = "walk", !.todo = ss, !.whole = FALSE]
    OBVIOUS
  <2>2. f \in FinderRecord /\ f.at = "walk" /\ f.board = finder[c].board /\ f.own = finder[c].own
    BY <1>1, <2>1 DEF FinderRecord
  <2> QED
    BY <1>3, <1>5, <2>1, <2>2
<1> QED
  BY <1>4, <1>5 DEF WalkSpaces

LEMMA WalkSpaceKeeps == ASSUME ReadInv, NEW c \in readRegime.finders, WalkSpace(c) PROVE ReadInv'
<1>1. ReadTyped /\ finder[c] \in FinderRecord /\ finder[c].at = "walk" /\ FinderHolds(c)
  BY ReadFacts DEF ReadInv, WalkSpace
<1>2. finder[c].board \in ReadBoards /\ finder[c].own \in [ReadBoards -> PlaceRecord]
  BY <1>1 DEF FinderHolds
<1>3. PICK s \in Spaces, bs \in SUBSET ReadBoards :
        LET own == [b \in ReadBoards |-> IF b \in bs THEN [space |-> s, read |-> now] ELSE finder[c].own[b]]
        IN  \/ Sets(c, [finder[c] EXCEPT !.todo = @ \ {s}, !.own = own])
            \/ Sets(c, [[finder[c] EXCEPT !.todo = @ \ {s}, !.own = own] EXCEPT !.whole = FALSE])
  <2>1. finder[c].todo \subseteq Spaces
    BY <1>1 DEF FinderRecord
  <2>2. PICK s \in finder[c].todo :
          LET Learnt(bs) == [b \in ReadBoards |-> IF b \in bs THEN [space |-> s, read |-> now] ELSE finder[c].own[b]]
              there   == {b \in ReadBoards : places[b] = s}
          IN  \/ Sets(c, [finder[c] EXCEPT !.todo = @ \ {s}, !.own = Learnt(there)])
              \/ \E bs \in SUBSET there :
                   Sets(c, [[finder[c] EXCEPT !.todo = @ \ {s}, !.own = Learnt(bs)] EXCEPT !.whole = FALSE])
    BY <1>1 DEF WalkSpace, FinderRecord
  <2>3. {b \in ReadBoards : places[b] = s} \in SUBSET ReadBoards
    OBVIOUS
  <2> QED
    BY <2>1, <2>2, <2>3
<1>4. PICK own : own = [b \in ReadBoards |-> IF b \in bs THEN [space |-> s, read |-> now] ELSE finder[c].own[b]]
  OBVIOUS
<1>5. own \in [ReadBoards -> PlaceRecord]
  <2>1. [space |-> s, read |-> now] \in PlaceRecord
    BY <1>1 DEF PlaceRecord, ReadTyped
  <2> QED
    BY <1>2, <1>4, <2>1
<1>6. ASSUME NEW f, Sets(c, f), f \in FinderRecord, f.at = "walk", f.board = finder[c].board, f.own = own
      PROVE  ReadInv'
  BY <1>1, <1>2, <1>5, <1>6, FinderGoesOn DEF WalkSpace, World, Cache
<1>7. PICK f : f = [finder[c] EXCEPT !.todo = @ \ {s}, !.own = own]
  OBVIOUS
<1>8. f \in FinderRecord /\ f.at = "walk" /\ f.board = finder[c].board /\ f.own = own
  BY <1>1, <1>5, <1>7 DEF FinderRecord
<1>9. PICK g : g = [f EXCEPT !.whole = FALSE]
  OBVIOUS
<1>10. g \in FinderRecord /\ g.at = "walk" /\ g.board = finder[c].board /\ g.own = own
  BY <1>8, <1>9 DEF FinderRecord
<1>11. Sets(c, f) \/ Sets(c, g)
  BY <1>3, <1>4, <1>7, <1>9
<1> QED
  BY <1>6, <1>8, <1>10, <1>11

LEMMA WalkRaisesKeeps == ASSUME ReadInv, NEW c \in readRegime.finders, WalkRaises(c) PROVE ReadInv'
<1>1. /\ ReadTyped /\ finder[c] \in FinderRecord /\ finder[c].at \in {"spaces", "walk"}
      /\ FinderHolds(c) /\ c # "nobody" /\ Unknown \in PlaceRecord
  BY ReadFacts DEF ReadInv, WalkRaises
<1>2. lock = c /\ lock' = "nobody"
  BY <1>1 DEF FinderHolds, WalkRaises, LetsGo
<1>3. PICK f : f = Answers(finder[c], Unknown)
  OBVIOUS
<1>4. f \in FinderRecord /\ f.at = "done" /\ Sets(c, f)
  BY <1>1, <1>3, AnswerFits DEF WalkRaises
<1>5. UNCHANGED <<readRegime, now, places, spaceCache, stamped, stale, listing>>
  BY DEF WalkRaises, World, Cache
<1>6. /\ \A d \in readRegime.finders : FinderHolds(d)'
      /\ finder' \in [readRegime.finders -> FinderRecord]
  BY <1>1, <1>2, <1>4, <1>5, LockMoves
<1>7. UNCHANGED <<ReadBoards, Spaces, PlaceRecord, FinderRecord>>
  BY <1>5 DEF ReadBoards, Spaces, PlaceRecord, FinderRecord
<1>8. ReadTyped' /\ \A b \in ReadBoards : CacheHolds(b)'
  BY <1>1, <1>2, <1>5, <1>6, <1>7 DEF ReadTyped, ReadInv, CacheHolds
<1> QED
  BY <1>5, <1>6, <1>7, <1>8 DEF ReadInv, NeverShownEmpty

(* What a walk found is as old as the stamp it leaves, and what it did not     *)
(* come to is stale.                                                           *)
LEMMA WalkedKeeps == ASSUME ReadInv, NEW c \in readRegime.finders, Walked(c) PROVE ReadInv'
<1>1. /\ ReadTyped /\ finder[c] \in FinderRecord /\ finder[c].at = "walk"
      /\ FinderHolds(c) /\ c # "nobody" /\ now \in Nat
  BY ReadFacts DEF ReadInv, Walked
<1>2. /\ lock = c /\ lock' = "nobody"
      /\ finder[c].board \in ReadBoards /\ finder[c].own \in [ReadBoards -> PlaceRecord]
  BY <1>1 DEF FinderHolds, Walked, LetsGo
<1>3. ASSUME NEW b \in ReadBoards
      PROVE  [finder[c].own[b] EXCEPT !.read = now] \in PlaceRecord /\ [finder[c].own[b] EXCEPT !.read = now].read = now
  BY <1>1, <1>2 DEF PlaceRecord
<1>4. PICK f : f = Answers(finder[c], [finder[c].own[finder[c].board] EXCEPT !.read = now])
  OBVIOUS
<1>5. f \in FinderRecord /\ f.at = "done" /\ Sets(c, f)
  BY <1>1, <1>2, <1>3, <1>4, AnswerFits DEF Walked
<1>6. UNCHANGED <<readRegime, now, places, listing>>
  BY DEF Walked, World
<1>7. /\ \A d \in readRegime.finders : FinderHolds(d)'
      /\ finder' \in [readRegime.finders -> FinderRecord]
  BY <1>1, <1>2, <1>5, <1>6, LockMoves
<1>8. UNCHANGED <<ReadBoards, Spaces, PlaceRecord, FinderRecord>>
  BY <1>6 DEF ReadBoards, Spaces, PlaceRecord, FinderRecord
<1>9. /\ spaceCache' \in [ReadBoards -> PlaceRecord] /\ stamped' \in Nat /\ stamped' <= now
      /\ \A b \in ReadBoards : CacheHolds(b)'
  <2>1. CASE Found(finder[c]) = {}
    BY <1>1, <1>6, <2>1 DEF Walked, Cache, ReadTyped, ReadInv, CacheHolds
  <2>2. CASE Found(finder[c]) # {}
    <3>1. /\ spaceCache' = [b \in ReadBoards |-> IF b \in Found(finder[c])
                              THEN [finder[c].own[b] EXCEPT !.read = now] ELSE spaceCache[b]]
          /\ stamped' = now
          /\ stale' = (stale \ Found(finder[c])) \cup {b \in ReadBoards \ Found(finder[c]) : spaceCache[b] # Unknown}
      BY <2>2 DEF Walked
    <3>2. \A b \in ReadBoards : spaceCache[b] \in PlaceRecord /\ CacheHolds(b)
      BY <1>1 DEF ReadInv, ReadTyped
    <3>3. ASSUME NEW b \in ReadBoards PROVE spaceCache'[b] \in PlaceRecord /\ CacheHolds(b)'
      <4>1. CASE b \in Found(finder[c])
        <5>1. PICK place : place = [finder[c].own[b] EXCEPT !.read = now]
          OBVIOUS
        <5>2. place \in PlaceRecord /\ place.read = now /\ spaceCache'[b] = place
          BY <1>3, <3>1, <4>1, <5>1
        <5> QED
          BY <1>1, <1>6, <3>1, <5>2 DEF CacheHolds
      <4>2. CASE b \notin Found(finder[c])
        BY <1>6, <3>1, <3>2, <4>2 DEF CacheHolds
      <4> QED
        BY <4>1, <4>2
    <3>4. spaceCache' \in [ReadBoards -> PlaceRecord]
      <4>1. spaceCache' = [b \in ReadBoards |-> spaceCache'[b]]
        BY <3>1
      <4>2. [b \in ReadBoards |-> spaceCache'[b]] \in [ReadBoards -> PlaceRecord]
        BY <3>3
      <4> QED
        BY <4>1, <4>2
    <3>5. stamped' \in Nat /\ stamped' <= now
      BY <1>1, <3>1
    <3> QED
      BY <3>3, <3>4, <3>5
  <2> QED
    BY <2>1, <2>2
<1>10. ReadTyped'
  BY <1>1, <1>2, <1>6, <1>7, <1>8, <1>9 DEF ReadTyped
<1> QED
  BY <1>6, <1>7, <1>8, <1>9, <1>10 DEF ReadInv, NeverShownEmpty

LEMMA GetTasksKeeps == ASSUME ReadInv, GetTasks PROVE ReadInv'
<1>1. PICK n \in 0 .. 3 : \E labels \in [1 .. n -> Labels] :
        \E status \in {"open", "all", "done", "odd"}, known \in BOOLEAN :
          LET read == {<<i, labels[i]>> : i \in 1 .. n} IN
          listing' = [status |-> status, board |-> read, known |-> known,
                      rows |-> Filters(read, status, known)]
  BY DEF GetTasks
<1>2. PICK read, status, known :
        listing' = [status |-> status, board |-> read, known |-> known, rows |-> Filters(read, status, known)]
  BY <1>1
<1>3. /\ listing'.status = status /\ listing'.board = read /\ listing'.known = known
      /\ listing'.rows = Filters(read, status, known)
  BY <1>2
<1>4. Filters(read, status, known) = {} => read = {}
  BY DEF Filters
<1>5. ASSUME NEW r \in Filters(read, status, known), Matches(Resolved(r[2], known), status)
      PROVE  \A q \in read : q \in Filters(read, status, known) <=> Matches(Resolved(q[2], known), status)
  <2>1. r \in read
    BY DEF Filters, FiltersStrictly
  <2>2. r \in FiltersStrictly(read, status, known)
    BY <1>5, <2>1 DEF FiltersStrictly
  <2>3. Filters(read, status, known) = FiltersStrictly(read, status, known)
    BY <2>2 DEF Filters
  <2> QED
    BY <2>3 DEF FiltersStrictly
<1>6. NeverShownEmpty'
  BY <1>3, <1>4, <1>5 DEF NeverShownEmpty
<1>7. UNCHANGED <<readRegime, now, spaceCache, stamped, stale, lock, finder>>
  BY DEF GetTasks, World, Cache
<1>8. UNCHANGED <<ReadBoards, Spaces, PlaceRecord, FinderRecord>>
  BY <1>7 DEF ReadBoards, Spaces, PlaceRecord, FinderRecord
<1>9. ReadTyped'
  BY <1>7, <1>8 DEF ReadInv, ReadTyped
<1>10. (\A b \in ReadBoards : CacheHolds(b)') /\ \A c \in readRegime.finders : FinderHolds(c)'
  BY <1>7, <1>8 DEF ReadInv, CacheHolds, FinderHolds
<1> QED
  BY <1>6, <1>7, <1>8, <1>9, <1>10 DEF ReadInv

LEMMA ReadKept == ASSUME ReadInv, ReadNext PROVE ReadInv'
<1>1. CASE BoardMoves \/ TimePasses
  <2>1. UNCHANGED <<readRegime, spaceCache, stamped, stale, lock, finder, listing>> /\ now' \in {now, now + 1}
    BY <1>1 DEF BoardMoves, TimePasses, Cache
  <2>2. UNCHANGED <<ReadBoards, Spaces, PlaceRecord, FinderRecord>>
    BY <2>1 DEF ReadBoards, Spaces, PlaceRecord, FinderRecord
  <2>3. ReadTyped' /\ ReadTyped /\ \A b \in ReadBoards : spaceCache[b] \in PlaceRecord
    BY <2>1, <2>2 DEF ReadInv, ReadTyped
  <2>4. ASSUME NEW b \in ReadBoards PROVE CacheHolds(b)'
    <3>1. CacheHolds(b) /\ now \in Nat /\ spaceCache[b].read \in Nat
      BY <2>3 DEF ReadInv, ReadTyped, PlaceRecord
    <3> QED
      BY <2>1, <3>1 DEF CacheHolds
  <2>5. \A c \in readRegime.finders : FinderHolds(c)'
    BY <2>1, <2>2 DEF ReadInv, FinderHolds
  <2> QED
    BY <2>1, <2>2, <2>3, <2>4, <2>5 DEF ReadInv, NeverShownEmpty
<1> QED
  BY <1>1, AskKeeps, LookKeeps, EnterKeeps, WalkSpacesKeeps, WalkSpaceKeeps, WalkedKeeps,
     WalkRaisesKeeps, GetTasksKeeps DEF ReadNext, FinderStep

LEMMA ReadSays == ASSUME ReadInv PROVE ReadsAreTrue
<1>1. ReadTyped /\ NeverShownEmpty
  BY DEF ReadInv
<1>2. ReadTypeOK
  <2>1. \A b \in ReadBoards : spaceCache[b] \in PlaceRecord /\ CacheHolds(b)
    BY DEF ReadInv, ReadTyped
  <2>2. \A c \in readRegime.finders : finder[c].board \in ReadBoards \cup {"none"}
    BY <1>1, ReadFacts DEF FinderRecord
  <2> QED
    BY <1>1, <2>1, <2>2 DEF ReadTypeOK, ReadTyped, CacheHolds, PlaceRecord
<1>3. OneRefresh
  <2>1. \A c \in readRegime.finders :
          /\ c # "nobody" /\ ~finder[c].saw
          /\ finder[c].at \in {"spaces", "walk"} <=> lock = c
    BY <1>1, ReadFacts DEF ReadInv, FinderRecord, FinderHolds
  <2>2. lock \in readRegime.finders \cup {"nobody"}
    BY <1>1 DEF ReadTyped
  <2> QED
    BY <2>1, <2>2 DEF OneRefresh, Walkers
<1> QED
  BY <1>1, <1>2, <1>3 DEF ReadsAreTrue

(* An answer from the cache is as young as the cache's stamp says, unless a    *)
(* walk did not come to its board.                                             *)
LEMMA PlacesWear ==
  ASSUME ReadInv, ReadNext
  PROVE  \A c \in readRegime.finders :
           finder[c].at \in {"look", "wait"} /\ finder'[c].at = "done" =>
             finder'[c].answer.read + TTL >= now \/ finder[c].board \in stale
<1> SUFFICES ASSUME NEW c \in readRegime.finders, finder[c].at \in {"look", "wait"},
                    finder'[c].at = "done"
             PROVE  finder'[c].answer.read + TTL >= now \/ finder[c].board \in stale
  OBVIOUS
<1>1. ReadTyped /\ finder[c] \in FinderRecord /\ FinderHolds(c) /\ now \in Nat /\ stamped \in Nat
  BY ReadFacts DEF ReadInv
<1>2. PICK b \in ReadBoards : b = finder[c].board
  BY <1>1 DEF FinderHolds
<1>3. CacheHolds(b) /\ Cached(b) \in PlaceRecord /\ spaceCache[b] \in PlaceRecord
  BY <1>1, ReadFacts DEF ReadInv
<1>4. CASE Cached(b) # Unknown /\ finder'[c] = Answers(finder[c], Cached(b))
  <2>1. Cached(b) = spaceCache[b] /\ ~(now - stamped > TTL) /\ spaceCache[b] # Unknown
    BY <1>4 DEF Cached
  <2>2. finder'[c].answer = spaceCache[b]
    BY <1>1, <1>4, <2>1 DEF Answers, FinderRecord
  <2>3. CASE b \notin stale
    <3>1. spaceCache[b].read = stamped
      BY <1>3, <2>1, <2>3 DEF CacheHolds
    <3> QED
      BY <1>1, <2>1, <2>2, <3>1 DEF TTL
  <2> QED
    BY <1>2, <2>3
<1>5. ASSUME NEW d \in readRegime.finders, d # c, NEW f, Sets(d, f) PROVE FALSE
  BY <1>1, <1>5, FinderMoves
<1>6. ASSUME NEW f, Sets(c, f) PROVE finder'[c] = f /\ f.at = "done"
  BY <1>1, <1>6, FinderMoves
<1>7. Look(c) => Cached(b) # Unknown /\ finder'[c] = Answers(finder[c], Cached(b))
  <2>1. ASSUME Sets(c, [finder[c] EXCEPT !.at = "wait"]) PROVE FALSE
    <3>1. PICK f : f = [finder[c] EXCEPT !.at = "wait"]
      OBVIOUS
    <3>2. f.at = "wait"
      BY <1>1, <3>1 DEF FinderRecord
    <3> QED
      BY <1>6, <2>1, <3>1, <3>2
  <2> QED
    BY <1>2, <1>6, <2>1 DEF Look
<1>8. Enter(c) => Cached(b) # Unknown /\ finder'[c] = Answers(finder[c], Cached(b))
  <2>1. ASSUME Enter(c) PROVE Cached(b) # Unknown /\ finder'[c] = Answers(finder[c], Cached(b))
    <3>1. PICK f : f = Enters(finder[c])
      OBVIOUS
    <3>2. f.at = "done" /\ finder'[c] = f
      BY <1>6, <2>1, <3>1 DEF Enter
    <3>3. [finder[c] EXCEPT !.at = "spaces"].at = "spaces"
      BY <1>1 DEF FinderRecord
    <3> QED
      BY <1>2, <3>1, <3>2, <3>3 DEF Enters
  <2> QED
    BY <2>1
<1>9. ~WalkSpaces(c) /\ ~WalkSpace(c) /\ ~Walked(c) /\ ~WalkRaises(c) /\ ~Ask(c)
  BY DEF WalkSpaces, WalkSpace, Walked, WalkRaises, Ask
<1>10. \A d \in readRegime.finders : Ask(d) \/ FinderStep(d) \/ WalkRaises(d) => d = c
  BY <1>5 DEF Ask, FinderStep, Look, Enter, WalkSpaces, WalkSpace, Walked, WalkRaises
<1>11. ~GetTasks /\ ~BoardMoves /\ ~TimePasses
  BY DEF GetTasks, BoardMoves, TimePasses
<1> QED
  BY <1>4, <1>7, <1>8, <1>9, <1>10, <1>11 DEF ReadNext, FinderStep

-----------------------------------------------------------------------------
(* The groups that tasks are placed in.                                    *)

LEMMA LeastOf == ASSUME NEW T \in SUBSET Nat, T # {} PROVE \E m \in T : \A n \in T : m <= n
<1>1. PICK m \in T : \A n \in T : <<n, m>> \notin OpToRel(<, Nat)
  BY NatLessThanWellFounded, WFMin
<1>2. ASSUME NEW n \in T PROVE m <= n
  <2>1. <<n, m>> \in Nat \X Nat
    OBVIOUS
  <2>2. ~(n < m)
    BY <1>1, <2>1 DEF OpToRel
  <2> QED
    BY <2>2
<1> QED
  BY <1>2

BoardMaps     == UNION {[B -> SUBSET GroupNames] : B \in SUBSET Nat}
CatalogFile   == [whole : BOOLEAN, at : Nat, boards : BoardMaps]
EntryOfRepo   == [ids : {"none", "configured", "table"}, tier : Nat]
RouterRecord  ==
  [at : {"rest", "fetch", "save", "write", "told"}, repo : Repos, seen : CatalogFile,
   live : CatalogFile, src : {"none", "explicit", "default", "discovered"},
   where : Nat \X (GroupNames \cup {"nowhere"}), used : CatalogFile, asked : BOOLEAN]
CatalogTyped ==
  /\ catalogRegime \in CatalogRegimes /\ layout \in Layouts /\ day \in Nat
  /\ file \in CatalogFile /\ repos \in [Repos -> EntryOfRepo]
  /\ router \in [Servers -> RouterRecord]

HasBoards(f) == f.whole => DOMAIN f.boards # {}
(* What a call found in a catalogue.                                           *)
OwnGroupFound(r) ==
  LET own == {b \in DOMAIN r.used.boards : r.repo \in r.used.boards[b]} IN
  own # {} => /\ r.src = "discovered"
              /\ r.where = <<CHOOSE b \in own : \A c \in own : b <= c, r.repo>>
RouterFits(r) ==
  /\ HasBoards(r.seen)
  /\ r.at = "told" /\ r.used.whole => OwnGroupFound(r)
  /\ r.at # "told" => ~r.used.whole /\ ~r.asked
  /\ r.at \in {"save", "write"} => r.live.whole /\ HasBoards(r.live)
  /\ r.asked /\ r.seen.whole => r.used.whole
CatalogInv == CatalogTyped /\ HasBoards(file) /\ \A p \in Servers : RouterFits(router[p])

LEMMA NamesInOrder ==
  /\ DOMAIN NameOrder = 1 .. 5 /\ NameOrder[3] = "core" /\ NameOrder[4] = "core-ui"
  /\ Repos \subseteq GroupNames
<1>1. DOMAIN NameOrder = 1 .. 5 /\ NameOrder[3] = "core" /\ NameOrder[4] = "core-ui"
  BY DEF NameOrder
<1>2. 3 \in DOMAIN NameOrder /\ 4 \in DOMAIN NameOrder
  BY <1>1
<1> QED
  BY <1>1, <1>2 DEF Repos, GroupNames

LEMMA MatchScores ==
  ASSUME NEW repo \in Repos, NEW name
  PROVE  /\ Match(repo, name) \in {0, 550, 700, 1000}
         /\ Match(repo, name) = 1000 <=> name = repo
<1>1. CASE name = repo
  BY <1>1 DEF Match, PartOf, Repos
<1>2. CASE name # repo /\ PartOf(repo, name)
  BY <1>2 DEF Match, PartOf
<1>3. CASE name # repo /\ ~PartOf(repo, name) /\ PartOf(name, repo)
  BY <1>3 DEF Match, PartOf
<1>4. CASE name # repo /\ ~PartOf(repo, name) /\ ~PartOf(name, repo)
  BY <1>4 DEF Match
<1> QED
  BY <1>1, <1>2, <1>3, <1>4

LEMMA OwnGroupBest ==
  ASSUME NEW boards \in BoardMaps, NEW repo \in Repos,
         NEW b \in DOMAIN boards, repo \in boards[b],
         \A c \in DOMAIN boards : repo \in boards[c] => b <= c
  PROVE  Discover(boards, repo) = <<b, repo>>
<1>1. /\ DOMAIN boards \subseteq Nat /\ \A c \in DOMAIN boards : boards[c] \subseteq GroupNames
      /\ repo \in Prefixed /\ repo \in RepoLike
  BY DEF BoardMaps, Repos, Prefixed, RepoLike
<1>2. PICK scoped : scoped = Scoped(boards)
  OBVIOUS
<1>3. /\ DOMAIN scoped \subseteq DOMAIN boards /\ \A c \in DOMAIN scoped : scoped[c] = boards[c]
      /\ b \in DOMAIN scoped
  <2>1. Categorical(boards[b])
    BY <1>1 DEF Categorical
  <2> QED
    BY <1>2, <2>1 DEF Scoped
<1>4. PICK found : found = GroupsToTry(scoped, repo)
  OBVIOUS
<1>5. Match(repo, repo) = 1000 /\ \A name : name # repo => Match(repo, name) \in {0, 550, 700}
  BY MatchScores
<1>6. <<b, repo>> \in found
  <2>1. <<b, repo>> \in (DOMAIN scoped) \X GroupNames
    BY <1>1, <1>3
  <2>2. repo \in scoped[b]
    BY <1>3
  <2> QED
    BY <1>4, <1>5, <2>1, <2>2 DEF GroupsToTry, MinScore
<1>7. ASSUME NEW q \in found
      PROVE  q = <<q[1], q[2]>> /\ q[1] \in Nat /\ (q[2] = repo => b <= q[1])
  <2>1. q \in (DOMAIN scoped) \X GroupNames /\ q[2] \in scoped[q[1]]
    BY <1>4 DEF GroupsToTry
  <2>2. q = <<q[1], q[2]>> /\ q[1] \in DOMAIN scoped /\ q[2] \in boards[q[1]]
    BY <1>3, <2>1
  <2> QED
    BY <1>1, <1>3, <2>2
<1>8. ASSUME NEW q \in found, q # <<b, repo>>
      PROVE  Better(repo, <<b, repo>>, q) /\ ~Better(repo, q, <<b, repo>>)
  <2>1. PICK m \in Nat : m = q[1]
    BY <1>7
  <2>2. PICK name : name = q[2]
    OBVIOUS
  <2>3. CASE name = repo
    <3>1. b <= m /\ q = <<m, repo>> /\ b \in Nat
      BY <1>1, <1>7, <2>1, <2>2, <2>3
    <3>2. b < m /\ b # m
      BY <1>8, <3>1
    <3> QED
      BY <1>5, <2>1, <2>2, <2>3, <3>1, <3>2 DEF Better, FirstBetter
  <2>4. CASE name # repo
    BY <1>5, <2>2, <2>4 DEF Better
  <2> QED
    BY <2>3, <2>4
<1>9. found # {} /\ (CHOOSE p \in found : \A q \in found \ {p} : Better(repo, p, q)) = <<b, repo>>
  <2>1. \A q \in found \ {<<b, repo>>} : Better(repo, <<b, repo>>, q)
    BY <1>8
  <2>2. \A p \in found : (\A q \in found \ {p} : Better(repo, p, q)) => p = <<b, repo>>
    BY <1>6, <1>8
  <2> QED
    BY <1>6, <2>1, <2>2
<1> QED
  BY <1>2, <1>4, <1>9 DEF Discover

(* There always is a best one.                                                 *)
LEMMA DiscoverIsFound ==
  ASSUME NEW boards \in BoardMaps, NEW repo \in Repos
  PROVE  Discover(boards, repo) \in Nat \X (GroupNames \cup {"nowhere"})
<1>1. PICK found : found = GroupsToTry(Scoped(boards), repo)
  OBVIOUS
<1>2. \A q \in found : q = <<q[1], q[2]>> /\ q[1] \in Nat /\ q[2] \in GroupNames
  <2>1. DOMAIN Scoped(boards) \subseteq Nat
    BY DEF Scoped, BoardMaps
  <2> QED
    BY <1>1, <2>1 DEF GroupsToTry
<1>3. CASE found = {}
  BY <1>1, <1>3 DEF Discover, Nowhere
<1>4. CASE found # {}
  <2>1. \A q \in found : Match(repo, q[2]) \in 0 .. 1000
    BY MatchScores
  <2>2. PICK q1 \in found : \A q \in found : Match(repo, q[2]) <= Match(repo, q1[2])
    <3>1. {1000 - Match(repo, q[2]) : q \in found} \in SUBSET Nat
      BY <2>1
    <3>2. PICK T : T = {1000 - Match(repo, q[2]) : q \in found}
      OBVIOUS
    <3>3. T \in SUBSET Nat /\ T # {}
      BY <1>4, <3>1, <3>2
    <3>4. PICK m \in T : \A n \in T : m <= n
      BY <3>3, LeastOf
    <3>5. PICK top \in found : m = 1000 - Match(repo, top[2])
      BY <3>2
    <3>6. ASSUME NEW q \in found PROVE Match(repo, q[2]) <= Match(repo, top[2])
      <4>1. PICK x \in 0 .. 1000 : x = Match(repo, q[2])
        BY <2>1
      <4>2. PICK y \in 0 .. 1000 : y = Match(repo, top[2])
        BY <2>1
      <4>3. 1000 - y <= 1000 - x
        BY <3>2, <3>4, <3>5, <4>1, <4>2
      <4> QED
        BY <4>1, <4>2, <4>3
    <3> QED
      BY <3>6
  <2>3. PICK found2 : found2 = {q \in found : Match(repo, q[2]) = Match(repo, q1[2])}
    OBVIOUS
  <2>4. PICK q2 \in found2 : \A q \in found2 : q2[1] <= q[1]
    <3>1. {q[1] : q \in found2} \in SUBSET Nat /\ {q[1] : q \in found2} # {}
      BY <1>2, <2>3
    <3>2. PICK m \in {q[1] : q \in found2} : \A n \in {q[1] : q \in found2} : m <= n
      BY <3>1, LeastOf
    <3> QED
      BY <3>2
  <2>5. PICK found3 : found3 = {q \in found2 : q[1] = q2[1]}
    OBVIOUS
  <2>6. \A n \in GroupNames : NamePlace(n) \in Nat /\ NameOrder[NamePlace(n)] = n
    <3> SUFFICES ASSUME NEW n \in GroupNames PROVE NamePlace(n) \in Nat /\ NameOrder[NamePlace(n)] = n
      OBVIOUS
    <3>1. \E i \in DOMAIN NameOrder : NameOrder[i] = n
      BY DEF GroupNames
    <3>2. NamePlace(n) \in DOMAIN NameOrder /\ NameOrder[NamePlace(n)] = n
      BY <3>1 DEF NamePlace
    <3> QED
      BY <3>2, NamesInOrder
  <2>7. PICK q3 \in found3 : \A q \in found3 : NamePlace(q3[2]) <= NamePlace(q[2])
    <3>1. {NamePlace(q[2]) : q \in found3} \in SUBSET Nat /\ {NamePlace(q[2]) : q \in found3} # {}
      BY <1>2, <2>3, <2>4, <2>5, <2>6
    <3>2. PICK m \in {NamePlace(q[2]) : q \in found3} : \A n \in {NamePlace(q[2]) : q \in found3} : m <= n
      BY <3>1, LeastOf
    <3> QED
      BY <3>2
  <2>8. ASSUME NEW q \in found, q # q3 PROVE Better(repo, q3, q)
    <3>1. q3 \in found /\ q3[1] \in Nat /\ q[1] \in Nat /\ q3[1] = q2[1] /\ Match(repo, q3[2]) = Match(repo, q1[2])
      BY <1>2, <2>3, <2>5, <2>7
    <3>2. CASE Match(repo, q[2]) # Match(repo, q1[2])
      <4>1. PICK x \in 0 .. 1000 : x = Match(repo, q[2])
        BY <2>1
      <4>2. PICK y \in 0 .. 1000 : y = Match(repo, q1[2])
        BY <2>1
      <4>3. x <= y /\ x # y
        BY <2>2, <3>2, <4>1, <4>2
      <4> QED
        BY <3>1, <4>1, <4>2, <4>3 DEF Better
    <3>3. CASE Match(repo, q[2]) = Match(repo, q1[2]) /\ q[1] # q2[1]
      <4>1. q2[1] <= q[1]
        BY <2>3, <2>4, <3>3
      <4> QED
        BY <3>1, <3>3, <4>1 DEF Better, FirstBetter
    <3>4. CASE Match(repo, q[2]) = Match(repo, q1[2]) /\ q[1] = q2[1]
      <4>1. NamePlace(q3[2]) <= NamePlace(q[2])
        BY <2>3, <2>5, <2>7, <3>4
      <4>2. q[2] # q3[2]
        BY <1>2, <2>8, <3>1, <3>4
      <4>3. NamePlace(q3[2]) \in Nat /\ NamePlace(q[2]) \in Nat /\ NamePlace(q3[2]) # NamePlace(q[2])
        BY <1>2, <2>6, <3>1, <4>2
      <4> QED
        BY <3>1, <3>4, <4>1, <4>3 DEF Better, FirstBetter
    <3> QED
      BY <3>2, <3>3, <3>4
  <2>9. q3 \in found /\ \A q \in found \ {q3} : Better(repo, q3, q)
    BY <2>3, <2>5, <2>7, <2>8
  <2>10. Discover(boards, repo) \in found
    BY <1>1, <1>4, <2>9 DEF Discover
  <2> QED
    BY <1>2, <2>10
<1> QED
  BY <1>3, <1>4

LEMMA LegacyIs ==
  ASSUME NEW r \in RouterRecord
  PROVE  /\ Legacy(r) \in RouterRecord /\ Legacy(r).at = "told" /\ Legacy(r).seen = r.seen
         /\ Legacy(r).used = r.used /\ Legacy(r).asked = r.asked /\ Legacy(r).repo = r.repo
<1>1. Nowhere \in Nat \X (GroupNames \cup {"nowhere"})
  BY DEF Nowhere
<1>2. PICK q : q = Legacy(r)
  OBVIOUS
<1>3. /\ q \in RouterRecord /\ q.at = "told" /\ q.seen = r.seen
      /\ q.used = r.used /\ q.asked = r.asked /\ q.repo = r.repo
  BY <1>1, <1>2 DEF Legacy, RouterRecord
<1> QED
  BY <1>2, <1>3

(* Who is placed by a whole catalogue has the own group, if that is there.     *)
LEMMA PlacedFits ==
  ASSUME NEW r \in RouterRecord, NEW f \in CatalogFile, f.whole, HasBoards(r.seen)
  PROVE  Placed(r, f) \in RouterRecord /\ RouterFits(Placed(r, f))
         /\ Placed(r, f).used = f /\ Placed(r, f).at = "told" /\ Placed(r, f).seen = r.seen
<1>1. r.repo \in Repos /\ f.boards \in BoardMaps
  BY DEF RouterRecord, CatalogFile
<1>2. PICK place \in Nat \X (GroupNames \cup {"nowhere"}) : place = Discover(f.boards, r.repo)
  BY <1>1, DiscoverIsFound
<1>4. /\ Placed(r, f) \in RouterRecord /\ Placed(r, f).used = f /\ Placed(r, f).at = "told"
      /\ Placed(r, f).seen = r.seen /\ Placed(r, f).repo = r.repo
      /\ place # Nowhere => Placed(r, f).src = "discovered" /\ Placed(r, f).where = place
  <2>1. CASE place = Nowhere
    <3>1. PICK q : q = Legacy(r)
      OBVIOUS
    <3>2. q \in RouterRecord /\ q.at = "told" /\ q.seen = r.seen /\ q.repo = r.repo
      BY <3>1, LegacyIs
    <3>3. PICK t : t = [q EXCEPT !.used = f]
      OBVIOUS
    <3>4. /\ t \in RouterRecord /\ t.used = f /\ t.at = q.at /\ t.seen = q.seen /\ t.repo = q.repo
      BY <3>2, <3>3 DEF RouterRecord
    <3> QED
      BY <1>2, <2>1, <3>1, <3>2, <3>3, <3>4 DEF Placed
  <2>2. CASE place # Nowhere
    BY <1>2, <2>2 DEF Placed, RouterRecord
  <2> QED
    BY <2>1, <2>2
<1>5. OwnGroupFound(Placed(r, f))
  <2>1. PICK own : own = {b \in DOMAIN f.boards : r.repo \in f.boards[b]}
    OBVIOUS
  <2>2. CASE own = {}
    BY <1>4, <2>1, <2>2 DEF OwnGroupFound
  <2>3. CASE own # {}
    <3>1. own \in SUBSET Nat
      BY <1>1, <2>1 DEF BoardMaps
    <3>2. PICK m \in own : \A c \in own : m <= c
      BY <2>3, <3>1, LeastOf
    <3>3. (CHOOSE b \in own : \A c \in own : b <= c) = m
      <4>1. \A b \in own : (\A c \in own : b <= c) => b = m
        BY <3>1, <3>2
      <4> QED
        BY <3>2, <4>1
    <3>4. place = <<m, r.repo>>
      BY <1>1, <1>2, <2>1, <3>2, OwnGroupBest
    <3>5. place # Nowhere
      BY <3>4, <1>1 DEF Nowhere, Repos
    <3> QED
      BY <1>4, <2>1, <3>3, <3>4, <3>5 DEF OwnGroupFound
  <2> QED
    BY <2>2, <2>3
<1> QED
  BY <1>4, <1>5 DEF RouterFits

(* Who does without a catalogue.                                               *)
LEMMA LegacyFits ==
  ASSUME NEW r \in RouterRecord, HasBoards(r.seen), ~r.used.whole, r.asked => ~r.seen.whole
  PROVE  Legacy(r) \in RouterRecord /\ RouterFits(Legacy(r))
<1>1. PICK q : q = Legacy(r)
  OBVIOUS
<1>2. q \in RouterRecord /\ q.at = "told" /\ q.seen = r.seen /\ q.used = r.used /\ q.asked = r.asked
  BY <1>1, LegacyIs
<1> QED
  BY <1>1, <1>2 DEF RouterFits

LEMMA WithoutFits ==
  ASSUME NEW r \in RouterRecord, HasBoards(r.seen), ~r.used.whole
  PROVE  WithoutPlaky(r) \in RouterRecord /\ RouterFits(WithoutPlaky(r))
<1>1. CASE r.seen.whole
  <2>1. PICK q \in RouterRecord : q = Placed(r, r.seen) /\ RouterFits(q) /\ q.used = r.seen /\ q.at = "told" /\ q.seen = r.seen
    BY <1>1, PlacedFits DEF RouterRecord
  <2>2. PICK t : t = [q EXCEPT !.asked = TRUE]
    OBVIOUS
  <2>3. /\ t \in RouterRecord /\ t.seen = q.seen /\ t.at = q.at
        /\ t.used = q.used /\ t.repo = q.repo /\ t.src = q.src /\ t.where = q.where
    BY <2>2 DEF RouterRecord
  <2>4. RouterFits(t)
    BY <1>1, <2>1, <2>3 DEF RouterFits, OwnGroupFound
  <2> QED
    BY <1>1, <2>1, <2>2, <2>3, <2>4 DEF WithoutPlaky
<1>2. CASE ~r.seen.whole
  <2>1. PICK q : q = [r EXCEPT !.asked = TRUE]
    OBVIOUS
  <2>2. q \in RouterRecord /\ q.seen = r.seen /\ q.used = r.used
    BY <2>1 DEF RouterRecord
  <2> QED
    BY <1>2, <2>1, <2>2, LegacyFits DEF WithoutPlaky
<1> QED
  BY <1>1, <1>2

LEMMA NoFileIs == NoFile \in CatalogFile /\ ~NoFile.whole /\ HasBoards(NoFile)
<1>1. [b \in {} |-> {}] \in BoardMaps
  <2>1. [b \in {} |-> {}] \in [{} -> SUBSET GroupNames] /\ {} \in SUBSET Nat
    OBVIOUS
  <2> QED
    BY <2>1 DEF BoardMaps
<1> QED
  BY <1>1 DEF NoFile, CatalogFile, HasBoards

LEMMA AtEaseFits == AtEase \in RouterRecord /\ RouterFits(AtEase)
<1>1. AtEase \in RouterRecord /\ AtEase.seen = NoFile /\ AtEase.used = NoFile /\ AtEase.at = "rest" /\ ~AtEase.asked
  BY NoFileIs DEF AtEase, Nowhere, RouterRecord, Repos
<1> QED
  BY <1>1, NoFileIs DEF RouterFits

LEMMA CatalogStarts == ASSUME CatalogInit PROVE CatalogInv
<1>1. repos \in [Repos -> EntryOfRepo]
  BY DEF CatalogInit, EntryOfRepo, NoEntry
<1>2. router \in [Servers -> RouterRecord] /\ \A p \in Servers : RouterFits(router[p])
  BY AtEaseFits DEF CatalogInit
<1> QED
  BY <1>1, <1>2, NoFileIs DEF CatalogInit, CatalogInv, CatalogTyped

LEMMA CatalogRests == ASSUME CatalogInv, UNCHANGED catalogVars PROVE CatalogInv'
<1>1. Servers' = Servers
  BY DEF catalogVars, Servers
<1> QED
  BY <1>1 DEF CatalogInv, catalogVars, CatalogTyped

(* A call goes on.                                                             *)
LEMMA RouterGoes ==
  ASSUME CatalogInv, NEW p \in Servers, NEW r \in RouterRecord, RouterFits(r), Routes(p, r),
         UNCHANGED catalogRegime
  PROVE  router' \in [Servers' -> RouterRecord] /\ \A q \in Servers' : RouterFits(router[q])'
<1>1. Servers' = Servers /\ router \in [Servers -> RouterRecord]
  BY DEF CatalogInv, CatalogTyped, Servers
<1>2. router' = [router EXCEPT ![p] = r]
  BY DEF Routes
<1>3. router' \in [Servers' -> RouterRecord]
  BY <1>1, <1>2
<1>4. ASSUME NEW q \in Servers PROVE RouterFits(router'[q])
  BY <1>1, <1>2 DEF CatalogInv
<1> QED
  BY <1>1, <1>3, <1>4

LEMMA AskRoutingKeeps == ASSUME CatalogInv, NEW p \in Servers, AskRouting(p) PROVE CatalogInv'
<1>1. PICK repo \in Repos :
        LET r == [AtEase EXCEPT !.repo = repo, !.seen = file] IN
           Routes(p, IF Explicit(p, repo) THEN [r EXCEPT !.at = "told", !.src = "explicit"]
                     ELSE IF ~catalogRegime.discover THEN Legacy(r)
                     ELSE IF FileFresh(file) THEN Placed(r, file)
                     ELSE [r EXCEPT !.at = "fetch"])
  BY DEF AskRouting
<1>2. PICK r : r = [AtEase EXCEPT !.repo = repo, !.seen = file]
  OBVIOUS
<1>3. file \in CatalogFile /\ HasBoards(file)
  BY DEF CatalogInv, CatalogTyped
<1>4. r \in RouterRecord /\ r.seen = file /\ r.used = NoFile /\ ~r.asked
  BY <1>2, <1>3, AtEaseFits DEF AtEase, RouterRecord
<1>5. PICK told : told = [r EXCEPT !.at = "told", !.src = "explicit"]
  OBVIOUS
<1>6. told \in RouterRecord /\ RouterFits(told)
  <2>1. told \in RouterRecord /\ told.at = "told" /\ told.seen = file /\ told.used = NoFile /\ ~told.asked
    BY <1>4, <1>5 DEF RouterRecord
  <2> QED
    BY <1>3, <2>1, NoFileIs DEF RouterFits
<1>7. PICK fetch : fetch = [r EXCEPT !.at = "fetch"]
  OBVIOUS
<1>8. fetch \in RouterRecord /\ RouterFits(fetch)
  <2>1. fetch \in RouterRecord /\ fetch.at = "fetch" /\ fetch.seen = file /\ fetch.used = NoFile /\ ~fetch.asked
    BY <1>4, <1>7 DEF RouterRecord
  <2> QED
    BY <1>3, <2>1, NoFileIs DEF RouterFits
<1>9. Legacy(r) \in RouterRecord /\ RouterFits(Legacy(r))
  BY <1>3, <1>4, NoFileIs, LegacyFits
<1>10. FileFresh(file) => Placed(r, file) \in RouterRecord /\ RouterFits(Placed(r, file))
  BY <1>3, <1>4, PlacedFits DEF FileFresh
<1>11. PICK s \in RouterRecord : RouterFits(s) /\ Routes(p, s)
  BY <1>2, <1>1, <1>5, <1>6, <1>7, <1>8, <1>9, <1>10
<1>12. router' \in [Servers' -> RouterRecord] /\ \A q \in Servers' : RouterFits(router[q])'
  BY <1>11, RouterGoes DEF AskRouting
<1> QED
  BY <1>12 DEF AskRouting, CatalogInv, CatalogTyped

LEMMA FetchKeeps == ASSUME CatalogInv, NEW p \in Servers, FetchCatalog(p) PROVE CatalogInv'
<1>1. /\ router[p] \in RouterRecord /\ RouterFits(router[p]) /\ router[p].at = "fetch"
      /\ ~router[p].used.whole /\ ~router[p].asked /\ HasBoards(router[p].seen)
  BY DEF CatalogInv, CatalogTyped, FetchCatalog, RouterFits
<1>2. WithoutPlaky(router[p]) \in RouterRecord /\ RouterFits(WithoutPlaky(router[p]))
  BY <1>1, WithoutFits
<1>3. ASSUME NEW failed \in SUBSET DOMAIN layout,
             NEW live, live = Listing(Scoped([b \in DOMAIN layout |-> IF b \in failed THEN {} ELSE layout[b]])),
             WorthKeeping(live), Routes(p, [router[p] EXCEPT !.at = "save", !.live = live])
      PROVE  \E s \in RouterRecord : RouterFits(s) /\ Routes(p, s)
  <2>1. PICK read : read = [b \in DOMAIN layout |-> IF b \in failed THEN {} ELSE layout[b]]
    OBVIOUS
  <2>2. DOMAIN read \in SUBSET Nat /\ read \in [DOMAIN read -> SUBSET GroupNames]
    BY <2>1, LayoutAssumption DEF CatalogInv, CatalogTyped
  <2>3. PICK scoped : scoped = Scoped(read)
    OBVIOUS
  <2>4. DOMAIN scoped \in SUBSET Nat /\ scoped \in [DOMAIN scoped -> SUBSET GroupNames]
    BY <2>2, <2>3 DEF Scoped
  <2>5. scoped \in BoardMaps
    BY <2>4 DEF BoardMaps
  <2>6. live = Listing(scoped)
    BY <1>3, <2>1, <2>3
  <2>7. live \in CatalogFile /\ live.whole /\ HasBoards(live)
    <3>1. day \in Nat /\ live = [whole |-> TRUE, at |-> day, boards |-> scoped] /\ DOMAIN live.boards # {}
      BY <1>3, <2>6 DEF Listing, WorthKeeping, CatalogInv, CatalogTyped
    <3> QED
      BY <2>5, <3>1 DEF CatalogFile, HasBoards
  <2>8. PICK s : s = [router[p] EXCEPT !.at = "save", !.live = live]
    OBVIOUS
  <2>9. /\ s \in RouterRecord /\ s.at = "save" /\ s.live = live /\ s.seen = router[p].seen
        /\ s.used = router[p].used /\ s.asked = router[p].asked
    BY <1>1, <2>7, <2>8 DEF RouterRecord
  <2>10. RouterFits(s)
    BY <1>1, <2>7, <2>9 DEF RouterFits
  <2> QED
    BY <1>3, <2>8, <2>9, <2>10
<1>4. PICK s \in RouterRecord : RouterFits(s) /\ Routes(p, s)
  BY <1>2, <1>3 DEF FetchCatalog
<1>5. router' \in [Servers' -> RouterRecord] /\ \A q \in Servers' : RouterFits(router[q])'
  BY <1>4, RouterGoes DEF FetchCatalog
<1> QED
  BY <1>5 DEF FetchCatalog, CatalogInv, CatalogTyped

LEMMA SaveKeeps == ASSUME CatalogInv, NEW p \in Servers, SaveCatalog(p) PROVE CatalogInv'
<1>1. /\ router[p] \in RouterRecord /\ RouterFits(router[p]) /\ router[p].at \in {"save", "write"}
      /\ ~router[p].used.whole /\ ~router[p].asked /\ HasBoards(router[p].seen)
      /\ router[p].live \in CatalogFile /\ router[p].live.whole /\ HasBoards(router[p].live)
  BY DEF CatalogInv, CatalogTyped, SaveCatalog, RouterFits, RouterRecord
<1>2. CASE router[p].at = "save"
  <2>1. PICK s : s = [router[p] EXCEPT !.at = "write"]
    OBVIOUS
  <2>2. /\ s \in RouterRecord /\ s.at = "write" /\ s.live = router[p].live /\ s.seen = router[p].seen
        /\ s.used = router[p].used /\ s.asked = router[p].asked
    BY <1>1, <2>1 DEF RouterRecord
  <2>3. RouterFits(s) /\ Routes(p, s) /\ file' = NoFile
    BY <1>1, <1>2, <2>1, <2>2 DEF RouterFits, SaveCatalog
  <2>4. router' \in [Servers' -> RouterRecord] /\ \A q \in Servers' : RouterFits(router[q])'
    BY <2>2, <2>3, RouterGoes DEF SaveCatalog
  <2> QED
    BY <2>3, <2>4, NoFileIs DEF SaveCatalog, CatalogInv, CatalogTyped
<1>3. CASE router[p].at # "save"
  <2>1. PICK t : t = [router[p] EXCEPT !.live = NoFile]
    OBVIOUS
  <2>2. t \in RouterRecord /\ t.seen = router[p].seen
    BY <1>1, <2>1, NoFileIs DEF RouterRecord
  <2>3. PICK s \in RouterRecord : s = Placed(t, router[p].live) /\ RouterFits(s)
    BY <1>1, <2>2, PlacedFits
  <2>4. Routes(p, s) /\ file' = router[p].live
    BY <1>3, <2>1, <2>3 DEF SaveCatalog
  <2>5. router' \in [Servers' -> RouterRecord] /\ \A q \in Servers' : RouterFits(router[q])'
    BY <2>3, <2>4, RouterGoes DEF SaveCatalog
  <2> QED
    BY <1>1, <2>4, <2>5 DEF SaveCatalog, CatalogInv, CatalogTyped
<1> QED
  BY <1>2, <1>3

LEMMA ServerStopsKeeps == ASSUME CatalogInv, NEW p \in Servers, ServerStops(p) PROVE CatalogInv'
<1>1. router' \in [Servers' -> RouterRecord] /\ \A q \in Servers' : RouterFits(router[q])'
  BY AtEaseFits, RouterGoes DEF ServerStops
<1> QED
  BY <1>1 DEF ServerStops, CatalogInv, CatalogTyped

(* A new entry places what was placed.                                         *)
LEMMA EntryGoes ==
  ASSUME CatalogInv, NEW repo \in Repos, NEW entry \in EntryOfRepo,
         repos' = [repos EXCEPT ![repo] = entry],
         UNCHANGED <<catalogRegime, day, layout, file, router>>
  PROVE  CatalogInv'
<1>1. Servers' = Servers
  BY DEF Servers
<1> QED
  BY <1>1 DEF CatalogInv, CatalogTyped

LEMMA CatalogKept ==
  ASSUME CatalogInv, CatalogNext
  PROVE  CatalogInv' /\ \A repo \in Repos : repos[repo].ids # "none" => repos'[repo].ids # "none"
<1>1. ASSUME NEW p \in Servers, Classify(p)
      PROVE  CatalogInv' /\ \A repo \in Repos : repos[repo].ids # "none" => repos'[repo].ids # "none"
  <2>1. PICK repo \in Repos, tier \in {0, 2} : repos' = [repos EXCEPT ![repo] = Classified(@, tier)]
    BY <1>1 DEF Classify
  <2>2. PICK entry : entry = Classified(repos[repo], tier)
    OBVIOUS
  <2>3. entry \in EntryOfRepo /\ entry.ids = repos[repo].ids
    BY <2>2 DEF CatalogInv, CatalogTyped, Classified, EntryOfRepo
  <2>4. repos' = [repos EXCEPT ![repo] = entry]
    BY <2>1, <2>2
  <2>5. CatalogInv'
    BY <1>1, <2>3, <2>4, EntryGoes DEF Classify
  <2> QED
    BY <2>3, <2>4, <2>5 DEF CatalogInv, CatalogTyped
<1>2. ASSUME NEW p \in Servers, Register(p)
      PROVE  CatalogInv' /\ \A repo \in Repos : repos[repo].ids # "none" => repos'[repo].ids # "none"
  <2>1. PICK repo \in Repos, tier \in {0, 2} : repos' = [repos EXCEPT ![repo] = [ids |-> "table", tier |-> tier]]
    BY <1>2 DEF Register
  <2>2. PICK entry : entry = [ids |-> "table", tier |-> tier]
    OBVIOUS
  <2>3. entry \in EntryOfRepo /\ entry.ids = "table"
    BY <2>2 DEF EntryOfRepo
  <2>4. repos' = [repos EXCEPT ![repo] = entry]
    BY <2>1, <2>2
  <2>5. CatalogInv'
    BY <1>2, <2>3, <2>4, EntryGoes DEF Register
  <2> QED
    BY <2>3, <2>4, <2>5 DEF CatalogInv, CatalogTyped
<1>3. CASE LayoutChanges \/ DayPasses
  <2>1. Servers' = Servers
    BY <1>3 DEF LayoutChanges, DayPasses, Servers
  <2> QED
    BY <1>3, <2>1 DEF LayoutChanges, DayPasses, CatalogInv, CatalogTyped
<1>4. ASSUME NEW p \in Servers, AskRouting(p) \/ FetchCatalog(p) \/ SaveCatalog(p) \/ ServerStops(p)
      PROVE  UNCHANGED repos
  BY <1>4 DEF AskRouting, FetchCatalog, SaveCatalog, ServerStops
<1> QED
  BY <1>1, <1>2, <1>3, <1>4, AskRoutingKeeps, FetchKeeps, SaveKeeps, ServerStopsKeeps DEF CatalogNext

LEMMA CatalogSays == ASSUME CatalogInv PROVE PlacementIsTrue
<1>1. OwnGroupWins
  BY DEF CatalogInv, RouterFits, OwnGroupFound, OwnGroupWins, CatalogTold
<1>2. KeptUntilBetter
  BY DEF CatalogInv, RouterFits, HasBoards, KeptUntilBetter
<1> QED
  BY <1>1, <1>2 DEF PlacementIsTrue

-----------------------------------------------------------------------------
(* What the columns of a board mean.                                       *)

LEMMA WorkflowRanks ==
  \A i \in DOMAIN WorkflowRank :
    /\ WorkflowRank[i] \in Nat
    /\ i \in Ownership => WorkflowRank[i] <= 1
    /\ i \notin Ownership => WorkflowRank[i] >= 2
BY DEF WorkflowRank, Ownership

LEMMA LowestIsMeant ==
  ASSUME NEW board, NEW label, CurrentIntent(board, label) # None
  PROVE  /\ CurrentIntent(board, label) \in Meaning(board, label)
         /\ \A j \in Meaning(board, label) : WorkflowRank[CurrentIntent(board, label)] <= WorkflowRank[j]
<1>1. Meaning(board, label) # {} /\ Meaning(board, label) \subseteq DOMAIN WorkflowRank
  BY DEF CurrentIntent, Meaning
<1>2. PICK T : T = {WorkflowRank[i] : i \in Meaning(board, label)}
  OBVIOUS
<1>3. T \in SUBSET Nat /\ T # {}
  BY <1>1, <1>2, WorkflowRanks
<1>4. PICK m \in T : \A n \in T : m <= n
  BY <1>3, LeastOf
<1>5. \E i \in Meaning(board, label) : \A j \in Meaning(board, label) : WorkflowRank[i] <= WorkflowRank[j]
  BY <1>2, <1>4
<1> QED
  BY <1>1, <1>5 DEF CurrentIntent

(* An owner who comes or goes leaves the column of work that has begun.        *)
LEMMA OwnershipKeeps ==
  ASSUME StatusNext, moved' \in Ownership, CurrentIntent(statusBoard, column) # None
  PROVE  CurrentIntent(statusBoard, column) \in Ownership
<1>1. PICK i \in Ownership : WriteIntent(i)
  BY DEF StatusNext, PeopleMove, WriteIntent, Ownership
<1>2. PICK read : read = CurrentIntent(statusBoard, column)
  OBVIOUS
<1>3. read \in DOMAIN WorkflowRank /\ i \in DOMAIN WorkflowRank
  <2>1. i \in DOMAIN WorkflowRank
    BY <1>1 DEF WorkflowRank, Ownership
  <2> QED
    BY <1>2, <2>1, LowestIsMeant DEF Meaning
<1>4. ~Regresses(read, i)
  BY <1>1, <1>2 DEF WriteIntent, Regresses
<1>5. read \in Ownership
  BY <1>1, <1>3, <1>4, WorkflowRanks DEF Regresses
<1> QED
  BY <1>2, <1>5

Speaks(i, label) ==
  \/ i = "needs_assigned" /\ label \in {"NEEDS_QA", "NEEDS_QA_AGAIN"}
  \/ i = "assigned" /\ label = "NEEDS_ASSIGNED"
LEMMA AgainstIs == \A i, label : i \in DOMAIN Against /\ label \in Against[i] <=> Speaks(i, label)
<1>1. /\ DOMAIN Against = {"needs_assigned", "assigned"}
      /\ Against["needs_assigned"] = {"NEEDS_QA", "NEEDS_QA_AGAIN"} /\ Against["assigned"] = {"NEEDS_ASSIGNED"}
  BY DEF Against
<1> QED
  BY <1>1 DEF Speaks

LEMMA ScoreIs ==
  ASSUME NEW i \in Intents, NEW label, NEW n \in Int, HintsAlone(i, label) = n
  PROVE  (Speaks(i, label) => Score(i, label) = n - 120) /\ (~Speaks(i, label) => Score(i, label) = n)
<1>2. Speaks(i, label) <=> i \in DOMAIN Against /\ label \in Against[i]
  BY AgainstIs
<1>3. Score(i, label) = n - (IF i \in DOMAIN Against /\ label \in Against[i] THEN 120 ELSE 0)
  BY DEF Score
<1>4. CASE Speaks(i, label)
  BY <1>2, <1>3, <1>4
<1>5. CASE ~Speaks(i, label)
  BY <1>2, <1>3, <1>5
<1> QED
  BY <1>4, <1>5

LEMMA ScoreNumbers ==
  ASSUME NEW i \in Intents, NEW label \in ColumnLabels
  PROVE  Score(i, label) \in Int /\ Score(i, label) <= 1000
<1>1. HintsAlone(i, label) \in 0 .. 1000
  BY DEF HintsAlone, Intents, WorkflowRank
<1>2. PICK n \in 0 .. 1000 : HintsAlone(i, label) = n
  BY <1>1
<1>3. Score(i, label) \in {n, n - 120}
  BY <1>2, ScoreIs
<1> QED
  BY <1>2, <1>3

(* An intent scores its own column highest.                                    *)
LEMMA OwnScoresHighest ==
  ASSUME NEW i \in DOMAIN Own, NEW label \in ColumnLabels
  PROVE  /\ Own[i] \in ColumnLabels /\ Admits(i, Own[i]) /\ Score(i, Own[i]) > 0 /\ i \in Intents
         /\ label # Own[i] /\ Admits(i, label) =>
              /\ Score(i, label) < Score(i, Own[i]) \/ (i = "needs_qa" /\ label = "NEEDS_QA_AGAIN")
              /\ i \in {"deployed", "again", "approved", "completed", "paused"} => Score(i, label) <= 0
<1>1. i \in Intents
  BY DEF Own, Intents, WorkflowRank
<1>2. CASE i = "needs_assigned"
  <2>1. Own[i] = "NEEDS_ASSIGNED"
    BY <1>2 DEF Own
  <2>2. HintsAlone(i, "NEEDS_ASSIGNED") = 368
    BY <1>2 DEF HintsAlone
  <2>3. Score(i, Own[i]) = 368
    BY <1>1, <1>2, <2>1, <2>2, AgainstIs DEF Score, Speaks
  <2>4. label = "AVAILABLE" => HintsAlone(i, label) = 213
    BY <1>2 DEF HintsAlone
  <2>5. label = "AVAILABLE" => Score(i, label) = 213
    BY <1>1, <1>2, <2>4, AgainstIs DEF Score, Speaks
  <2>6. label = "ASSIGNED" => HintsAlone(i, label) = 30
    BY <1>2 DEF HintsAlone
  <2>7. label = "ASSIGNED" => Score(i, label) = 30
    BY <1>1, <1>2, <2>6, AgainstIs DEF Score, Speaks
  <2>8. label \in {"NEEDS_QA", "NEEDS_QA_AGAIN"} => HintsAlone(i, label) = 30
    BY <1>2 DEF HintsAlone
  <2>9. label \in {"NEEDS_QA", "NEEDS_QA_AGAIN"} => Score(i, label) = -90
    BY <1>1, <1>2, <2>8, AgainstIs DEF Score, Speaks
  <2>10. label \notin {"NEEDS_ASSIGNED", "AVAILABLE", "ASSIGNED", "NEEDS_QA", "NEEDS_QA_AGAIN"} => HintsAlone(i, label) = 0
    BY <1>2 DEF HintsAlone
  <2>11. label \notin {"NEEDS_ASSIGNED", "AVAILABLE", "ASSIGNED", "NEEDS_QA", "NEEDS_QA_AGAIN"} => Score(i, label) = 0
    BY <1>1, <1>2, <2>10, AgainstIs DEF Score, Speaks
  <2> QED
    BY <1>2, <2>1, <2>3, <1>1, <2>5, <2>7, <2>9, <2>11 DEF ColumnLabels, Admits
<1>3. CASE i = "assigned"
  <2>1. Own[i] = "ASSIGNED"
    BY <1>3 DEF Own
  <2>2. HintsAlone(i, "ASSIGNED") = 191
    BY <1>3 DEF HintsAlone
  <2>3. Score(i, Own[i]) = 191
    BY <1>1, <1>3, <2>1, <2>2, AgainstIs DEF Score, Speaks
  <2>4. label = "NEEDS_ASSIGNED" => HintsAlone(i, label) = 191
    BY <1>3 DEF HintsAlone
  <2>5. label = "NEEDS_ASSIGNED" => Score(i, label) = 71
    BY <1>1, <1>3, <2>4, AgainstIs DEF Score, Speaks
  <2>6. label \notin {"ASSIGNED", "NEEDS_ASSIGNED"} => HintsAlone(i, label) = 0
    BY <1>3 DEF HintsAlone
  <2>7. label \notin {"ASSIGNED", "NEEDS_ASSIGNED"} => Score(i, label) = 0
    BY <1>1, <1>3, <2>6, AgainstIs DEF Score, Speaks
  <2> QED
    BY <1>3, <2>1, <2>3, <1>1, <2>5, <2>7 DEF ColumnLabels, Admits
<1>4. CASE i = "needs_qa"
  <2>1. Own[i] = "NEEDS_QA"
    BY <1>4 DEF Own
  <2>2. HintsAlone(i, "NEEDS_QA") = 191
    BY <1>4 DEF HintsAlone
  <2>3. Score(i, Own[i]) = 191
    BY <1>1, <1>4, <2>1, <2>2, AgainstIs DEF Score, Speaks
  <2>4. label = "NEEDS_QA_AGAIN" => HintsAlone(i, label) = 191
    BY <1>4 DEF HintsAlone
  <2>5. label = "NEEDS_QA_AGAIN" => Score(i, label) = 191
    BY <1>1, <1>4, <2>4, AgainstIs DEF Score, Speaks
  <2>6. label = "NEEDS_ASSIGNED" => HintsAlone(i, label) = 15
    BY <1>4 DEF HintsAlone
  <2>7. label = "NEEDS_ASSIGNED" => Score(i, label) = 15
    BY <1>1, <1>4, <2>6, AgainstIs DEF Score, Speaks
  <2>8. label \notin {"NEEDS_QA", "NEEDS_QA_AGAIN", "NEEDS_ASSIGNED"} => HintsAlone(i, label) = 0
    BY <1>4 DEF HintsAlone
  <2>9. label \notin {"NEEDS_QA", "NEEDS_QA_AGAIN", "NEEDS_ASSIGNED"} => Score(i, label) = 0
    BY <1>1, <1>4, <2>8, AgainstIs DEF Score, Speaks
  <2> QED
    BY <1>4, <2>1, <2>3, <1>1, <2>5, <2>7, <2>9 DEF ColumnLabels, Admits
<1>5. CASE i = "again"
  <2>1. Own[i] = "NEEDS_QA_AGAIN"
    BY <1>5 DEF Own
  <2>2. HintsAlone(i, "NEEDS_QA_AGAIN") = 529
    BY <1>5 DEF HintsAlone
  <2>3. Score(i, Own[i]) = 529
    BY <1>1, <1>5, <2>1, <2>2, AgainstIs DEF Score, Speaks
  <2> QED
    BY <1>5, <2>1, <2>3, <1>1 DEF ColumnLabels, Admits
<1>6. CASE i = "changes"
  <2>1. Own[i] = "QA_REJECTED"
    BY <1>6 DEF Own
  <2>2. HintsAlone(i, "QA_REJECTED") = 448
    BY <1>6 DEF HintsAlone
  <2>3. Score(i, Own[i]) = 448
    BY <1>1, <1>6, <2>1, <2>2, AgainstIs DEF Score, Speaks
  <2>4. label = "REVISIONS_IN_PROGRESS" => HintsAlone(i, label) = 176
    BY <1>6 DEF HintsAlone
  <2>5. label = "REVISIONS_IN_PROGRESS" => Score(i, label) = 176
    BY <1>1, <1>6, <2>4, AgainstIs DEF Score, Speaks
  <2>6. label \in {"NEEDS_ASSIGNED", "NEEDS_QA", "NEEDS_QA_AGAIN"} => HintsAlone(i, label) = 30
    BY <1>6 DEF HintsAlone
  <2>7. label \in {"NEEDS_ASSIGNED", "NEEDS_QA", "NEEDS_QA_AGAIN"} => Score(i, label) = 30
    BY <1>1, <1>6, <2>6, AgainstIs DEF Score, Speaks
  <2>8. label \notin {"QA_REJECTED", "REVISIONS_IN_PROGRESS", "NEEDS_ASSIGNED", "NEEDS_QA", "NEEDS_QA_AGAIN"} => HintsAlone(i, label) = 0
    BY <1>6 DEF HintsAlone
  <2>9. label \notin {"QA_REJECTED", "REVISIONS_IN_PROGRESS", "NEEDS_ASSIGNED", "NEEDS_QA", "NEEDS_QA_AGAIN"} => Score(i, label) = 0
    BY <1>1, <1>6, <2>8, AgainstIs DEF Score, Speaks
  <2> QED
    BY <1>6, <2>1, <2>3, <1>1, <2>5, <2>7, <2>9 DEF ColumnLabels, Admits
<1>7. CASE i = "in_qa"
  <2>1. Own[i] = "IN_QA"
    BY <1>7 DEF Own
  <2>2. HintsAlone(i, "IN_QA") = 110
    BY <1>7 DEF HintsAlone
  <2>3. Score(i, Own[i]) = 110
    BY <1>1, <1>7, <2>1, <2>2, AgainstIs DEF Score, Speaks
  <2>4. label \in {"IN_PROGRESS", "REVISIONS_IN_PROGRESS"} => HintsAlone(i, label) = 15
    BY <1>7 DEF HintsAlone
  <2>5. label \in {"IN_PROGRESS", "REVISIONS_IN_PROGRESS"} => Score(i, label) = 15
    BY <1>1, <1>7, <2>4, AgainstIs DEF Score, Speaks
  <2>6. label \notin {"IN_QA", "IN_PROGRESS", "REVISIONS_IN_PROGRESS"} => HintsAlone(i, label) = 0
    BY <1>7 DEF HintsAlone
  <2>7. label \notin {"IN_QA", "IN_PROGRESS", "REVISIONS_IN_PROGRESS"} => Score(i, label) = 0
    BY <1>1, <1>7, <2>6, AgainstIs DEF Score, Speaks
  <2> QED
    BY <1>7, <2>1, <2>3, <1>1, <2>5, <2>7 DEF ColumnLabels, Admits
<1>8. CASE i = "paused"
  <2>1. Own[i] = "PAUSED"
    BY <1>8 DEF Own
  <2>2. HintsAlone(i, "PAUSED") = 257
    BY <1>8 DEF HintsAlone
  <2>3. Score(i, Own[i]) = 257
    BY <1>1, <1>8, <2>1, <2>2, AgainstIs DEF Score, Speaks
  <2>4. label # "PAUSED" => HintsAlone(i, label) = 0
    BY <1>8 DEF HintsAlone
  <2>5. label # "PAUSED" => Score(i, label) = 0
    BY <1>1, <1>8, <2>4, AgainstIs DEF Score, Speaks
  <2> QED
    BY <1>8, <2>1, <2>3, <1>1, <2>5 DEF ColumnLabels, Admits
<1>9. CASE i = "approved"
  <2>1. Own[i] = "QA_VERIFIED"
    BY <1>9 DEF Own
  <2>2. HintsAlone(i, "QA_VERIFIED") = 448
    BY <1>9 DEF HintsAlone
  <2>3. Score(i, Own[i]) = 448
    BY <1>1, <1>9, <2>1, <2>2, AgainstIs DEF Score, Speaks
  <2>4. label # "QA_VERIFIED" => HintsAlone(i, label) = 0
    BY <1>9 DEF HintsAlone
  <2>5. label # "QA_VERIFIED" => Score(i, label) = 0
    BY <1>1, <1>9, <2>4, AgainstIs DEF Score, Speaks
  <2> QED
    BY <1>9, <2>1, <2>3, <1>1, <2>5 DEF ColumnLabels, Admits
<1>10. CASE i = "completed"
  <2>1. Own[i] = "COMPLETED"
    BY <1>10 DEF Own
  <2>2. HintsAlone(i, "COMPLETED") = 389
    BY <1>10 DEF HintsAlone
  <2>3. Score(i, Own[i]) = 389
    BY <1>1, <1>10, <2>1, <2>2, AgainstIs DEF Score, Speaks
  <2>4. label # "COMPLETED" => HintsAlone(i, label) = 0
    BY <1>10 DEF HintsAlone
  <2>5. label # "COMPLETED" => Score(i, label) = 0
    BY <1>1, <1>10, <2>4, AgainstIs DEF Score, Speaks
  <2> QED
    BY <1>10, <2>1, <2>3, <1>1, <2>5 DEF ColumnLabels, Admits
<1>11. CASE i = "deployed"
  <2>1. Own[i] = "DEPLOYED"
    BY <1>11 DEF Own
  <2>2. HintsAlone(i, "DEPLOYED") = 323
    BY <1>11 DEF HintsAlone
  <2>3. Score(i, Own[i]) = 323
    BY <1>1, <1>11, <2>1, <2>2, AgainstIs DEF Score, Speaks
  <2>4. label # "DEPLOYED" => HintsAlone(i, label) = 0
    BY <1>11 DEF HintsAlone
  <2>5. label # "DEPLOYED" => Score(i, label) = 0
    BY <1>1, <1>11, <2>4, AgainstIs DEF Score, Speaks
  <2> QED
    BY <1>11, <2>1, <2>3, <1>1, <2>5 DEF ColumnLabels, Admits
<1> QED
  BY <1>2, <1>3, <1>4, <1>5, <1>6, <1>7, <1>8, <1>9, <1>10, <1>11 DEF Own

(* The column that an intent means scores best of those that it may mean.      *)
LEMMA Resolves ==
  ASSUME NEW board \in Seq(ColumnLabels), NEW i \in Intents
  PROVE  \/ /\ ResolveStatus(board, i) = None
            /\ \A j \in DOMAIN board : Admits(i, board[j]) => Score(i, board[j]) <= 0
         \/ \E k \in DOMAIN board :
              /\ ResolveStatus(board, i) = board[k] /\ Admits(i, board[k]) /\ Score(i, board[k]) > 0
              /\ \A j \in DOMAIN board : Admits(i, board[j]) => Score(i, board[j]) <= Score(i, board[k])
<1>1. DOMAIN board \subseteq Nat /\ \A j \in DOMAIN board : board[j] \in ColumnLabels
  BY LenProperties, ElementOfSeq
<1>2. PICK points : points = [j \in DOMAIN board |-> Score(i, board[j])]
  OBVIOUS
<1>3. \A j \in DOMAIN board : points[j] = Score(i, board[j]) /\ points[j] \in Int /\ points[j] <= 1000
  BY <1>1, <1>2, ScoreNumbers
<1>4. PICK good : good = {j \in DOMAIN board : Admits(i, board[j]) /\ Score(i, board[j]) > 0}
  OBVIOUS
<1>5. PICK best : best = {j \in good : \A l \in good : Score(i, board[l]) <= Score(i, board[j])}
  OBVIOUS
<1>6. ResolveStatus(board, i) = IF best = {} THEN None ELSE board[CHOOSE j \in best : \A l \in best : j <= l]
  BY <1>4, <1>5 DEF ResolveStatus
<1>7. CASE good = {}
  <2>1. best = {}
    BY <1>5, <1>7
  <2>2. \A j \in DOMAIN board : Admits(i, board[j]) => ~(points[j] > 0)
    BY <1>3, <1>4, <1>7
  <2>3. \A j \in DOMAIN board : Admits(i, board[j]) => points[j] <= 0
    BY <1>3, <2>2
  <2> QED
    BY <1>3, <1>6, <2>1, <2>3
<1>8. CASE good # {}
  <2>1. PICK T : T = {1000 - points[j] : j \in good}
    OBVIOUS
  <2>2. T \in SUBSET Nat /\ T # {}
    BY <1>3, <1>4, <1>8, <2>1
  <2>3. PICK m \in T : \A n \in T : m <= n
    BY <2>2, LeastOf
  <2>4. PICK b \in good : m = 1000 - points[b]
    BY <2>1, <2>3
  <2>5. ASSUME NEW l \in good PROVE points[l] <= points[b]
    <3>1. PICK n : n = 1000 - points[l]
      OBVIOUS
    <3>2. n \in T
      BY <2>1, <3>1
    <3>3. m <= n
      BY <2>3, <3>2
    <3>4. points[l] \in Int /\ points[b] \in Int
      BY <1>3, <1>4
    <3> QED
      BY <2>4, <3>1, <3>3, <3>4
  <2>6. b \in best
    BY <1>3, <1>4, <1>5, <2>5
  <2>7. best \in SUBSET Nat /\ best # {}
    BY <1>1, <1>4, <1>5, <2>6
  <2>8. \E j \in best : \A l \in best : j <= l
    BY <2>7, LeastOf
  <2>9. PICK k \in best : ResolveStatus(board, i) = board[k]
    BY <1>6, <2>7, <2>8
  <2>10. k \in good /\ points[b] <= points[k] /\ points[k] > 0
    BY <1>3, <1>4, <1>5, <2>9
  <2>11. ASSUME NEW j \in DOMAIN board, Admits(i, board[j]) PROVE points[j] <= points[k]
    <3>1. CASE j \in good
      BY <1>3, <1>4, <2>5, <2>10, <3>1
    <3>2. CASE j \notin good
      <4>1. ~(points[j] > 0)
        BY <1>3, <1>4, <2>11, <3>2
      <4> QED
        BY <1>3, <1>4, <2>10, <4>1
    <3> QED
      BY <3>1, <3>2
  <2>12. k \in DOMAIN board /\ Admits(i, board[k])
    BY <1>4, <2>10
  <2> QED
    BY <1>3, <2>9, <2>10, <2>11, <2>12
<1> QED
  BY <1>7, <1>8

LEMMA OwnIsMeant ==
  ASSUME NEW board \in Seq(ColumnLabels), NEW i \in DOMAIN Own
  PROVE  /\ Own[i] \in Range(board) =>
              \/ ResolveStatus(board, i) = Own[i]
              \/ i = "needs_qa" /\ ResolveStatus(board, i) = "NEEDS_QA_AGAIN"
         /\ i \in {"deployed", "again", "approved", "completed", "paused"} =>
              ResolveStatus(board, i) \in {Own[i], None}
<1>1. DOMAIN board \subseteq Nat /\ \A j \in DOMAIN board : board[j] \in ColumnLabels
  BY LenProperties, ElementOfSeq
<1>2. i \in Intents
  BY DEF Own, Intents, WorkflowRank
<1>3. Own[i] \in ColumnLabels /\ Admits(i, Own[i]) /\ Score(i, Own[i]) > 0
  BY OwnScoresHighest DEF ColumnLabels
<1>4. CASE ResolveStatus(board, i) = None /\ \A j \in DOMAIN board : Admits(i, board[j]) => Score(i, board[j]) <= 0
  <2>1. ASSUME NEW j \in DOMAIN board, board[j] = Own[i] PROVE FALSE
    <3>1. PICK n \in Int : n = Score(i, Own[i])
      BY <1>2, <1>3, ScoreNumbers
    <3>2. n > 0 /\ n <= 0
      BY <1>3, <1>4, <2>1, <3>1
    <3> QED
      BY <3>1, <3>2
  <2> QED
    BY <1>4, <2>1 DEF Range
<1>5. ASSUME NEW k \in DOMAIN board, ResolveStatus(board, i) = board[k], Admits(i, board[k]), Score(i, board[k]) > 0,
             \A j \in DOMAIN board : Admits(i, board[j]) => Score(i, board[j]) <= Score(i, board[k]),
             board[k] # Own[i]
      PROVE  /\ Own[i] \in Range(board) => i = "needs_qa" /\ board[k] = "NEEDS_QA_AGAIN"
             /\ i \notin {"deployed", "again", "approved", "completed", "paused"}
  <2>1. PICK n \in Int : n = Score(i, Own[i])
    BY <1>2, <1>3, ScoreNumbers
  <2>2. PICK l \in Int : l = Score(i, board[k])
    BY <1>1, <1>2, ScoreNumbers
  <2>3. /\ l < n \/ (i = "needs_qa" /\ board[k] = "NEEDS_QA_AGAIN")
        /\ i \in {"deployed", "again", "approved", "completed", "paused"} => l <= 0
        /\ l > 0
    BY <1>1, <1>5, <2>1, <2>2, OwnScoresHighest
  <2>4. Own[i] \in Range(board) => n <= l
    BY <1>3, <1>5, <2>1, <2>2 DEF Range
  <2> QED
    BY <2>1, <2>2, <2>3, <2>4
<1>6. \/ ResolveStatus(board, i) = None /\ \A j \in DOMAIN board : Admits(i, board[j]) => Score(i, board[j]) <= 0
      \/ \E k \in DOMAIN board :
              /\ ResolveStatus(board, i) = board[k] /\ Admits(i, board[k]) /\ Score(i, board[k]) > 0
              /\ \A j \in DOMAIN board : Admits(i, board[j]) => Score(i, board[j]) <= Score(i, board[k])
  BY <1>2, Resolves
<1> QED
  BY <1>4, <1>5, <1>6

(* What may be read in the columns for QA and for work in progress.            *)
LEMMA FewReadThese ==
  ASSUME NEW i \in DOMAIN WorkflowRank
  PROVE  /\ Admits(i, "NEEDS_QA") /\ Score(i, "NEEDS_QA") > 0 => i \in {"needs_qa", "changes"}
         /\ Score(i, "IN_PROGRESS") > 0 => i \in {"in_progress", "in_qa"}
<1>1. i \in Intents
  BY DEF Intents
<1>2. ASSUME i \notin {"in_progress", "in_qa"} PROVE ~(Score(i, "IN_PROGRESS") > 0)
  <2>1. HintsAlone(i, "IN_PROGRESS") = 0 /\ ~Speaks(i, "IN_PROGRESS")
    BY <1>2 DEF HintsAlone, WorkflowRank, Speaks
  <2>2. Score(i, "IN_PROGRESS") = 0
    BY <1>1, <2>1, ScoreIs
  <2> QED
    BY <2>2
<1>3. CASE i = "needs_assigned"
  <2>1. HintsAlone(i, "NEEDS_QA") = 30 /\ Speaks(i, "NEEDS_QA")
    BY <1>3 DEF HintsAlone, Speaks
  <2>2. Score(i, "NEEDS_QA") = 30 - 120
    BY <1>1, <2>1, ScoreIs
  <2> QED
    BY <1>2, <2>2
<1>4. CASE i = "again"
  BY <1>2, <1>4 DEF Admits
<1>5. CASE i \notin {"needs_assigned", "again", "needs_qa", "changes"}
  <2>1. HintsAlone(i, "NEEDS_QA") = 0 /\ ~Speaks(i, "NEEDS_QA")
    BY <1>5 DEF HintsAlone, WorkflowRank, Speaks
  <2>2. Score(i, "NEEDS_QA") = 0
    BY <1>1, <2>1, ScoreIs
  <2> QED
    BY <1>2, <2>2
<1> QED
  BY <1>2, <1>3, <1>4, <1>5

LEMMA MeaningScores ==
  ASSUME NEW board \in Seq(ColumnLabels), NEW label \in ColumnLabels, NEW i \in Meaning(board, label)
  PROVE  i \in DOMAIN WorkflowRank /\ ResolveStatus(board, i) = label /\ Admits(i, label) /\ Score(i, label) > 0
<1>1. i \in DOMAIN WorkflowRank /\ ResolveStatus(board, i) = label /\ i \in Intents
  BY DEF Meaning, Intents
<1>2. label # None
  BY DEF ColumnLabels, None
<1> QED
  BY <1>1, <1>2, Resolves

(* A column with an intent of its own is read as that, or as something less.   *)
LEMMA ReadAtMost ==
  ASSUME NEW board, NEW label, NEW i \in Meaning(board, label)
  PROVE  /\ CurrentIntent(board, label) \in DOMAIN WorkflowRank
         /\ WorkflowRank[CurrentIntent(board, label)] <= WorkflowRank[i]
<1>1. CurrentIntent(board, label) # None
  <2>1. Meaning(board, label) # {} /\ Meaning(board, label) \subseteq DOMAIN WorkflowRank
    BY DEF Meaning
  <2>2. PICK T : T = {WorkflowRank[j] : j \in Meaning(board, label)}
    OBVIOUS
  <2>3. T \in SUBSET Nat /\ T # {}
    BY <2>1, <2>2, WorkflowRanks
  <2>4. PICK m \in T : \A n \in T : m <= n
    BY <2>3, LeastOf
  <2>5. \E k \in Meaning(board, label) : \A j \in Meaning(board, label) : WorkflowRank[k] <= WorkflowRank[j]
    BY <2>2, <2>4
  <2>6. CurrentIntent(board, label) \in Meaning(board, label)
    BY <2>1, <2>5 DEF CurrentIntent
  <2> QED
    BY <2>1, <2>6 DEF WorkflowRank, None
<1> QED
  BY <1>1, LowestIsMeant DEF Meaning

LEMMA NoneReadFurther == ASSUME statusBoard \in Seq(ColumnLabels) PROVE NeverReadAsFurther
<1>1. ASSUME NEW i \in DOMAIN Own \cap DOMAIN WorkflowRank PROVE ReadNoFurther(Own[i], WorkflowRank[i])
  <2>1. CASE Has(Own[i]) /\ ResolveStatus(statusBoard, i) = Own[i]
    <3>1. i \in Meaning(statusBoard, Own[i])
      BY <1>1, <2>1 DEF Meaning
    <3> QED
      BY <3>1, ReadAtMost DEF ReadNoFurther
  <2>2. CASE Has(Own[i]) /\ i = "needs_qa" /\ CurrentIntent(statusBoard, Own[i]) # None
    <3>1. Own[i] = "NEEDS_QA" /\ WorkflowRank[i] = 3
      BY <2>2 DEF Own, WorkflowRank
    <3>2. PICK read : read = CurrentIntent(statusBoard, Own[i])
      OBVIOUS
    <3>3. read \in Meaning(statusBoard, "NEEDS_QA")
      BY <2>2, <3>1, <3>2, LowestIsMeant
    <3>4. read \in DOMAIN WorkflowRank /\ Admits(read, "NEEDS_QA") /\ Score(read, "NEEDS_QA") > 0
      BY <3>3, MeaningScores DEF ColumnLabels
    <3>5. read \in {"needs_qa", "changes"}
      BY <3>4, FewReadThese
    <3>6. WorkflowRank[read] = 3
      BY <3>5 DEF WorkflowRank
    <3> QED
      BY <3>1, <3>2, <3>6 DEF ReadNoFurther
  <2>3. Has(Own[i]) => ResolveStatus(statusBoard, i) = Own[i] \/ i = "needs_qa"
    BY <1>1, OwnIsMeant DEF Has
  <2> QED
    BY <2>1, <2>2, <2>3 DEF ReadNoFurther
<1>2. ASSUME Has("IN_QA") \/ ~Has("REVISIONS_IN_PROGRESS")
      PROVE  ReadNoFurther("IN_PROGRESS", WorkflowRank["in_progress"])
  <2>1. PICK read : read = CurrentIntent(statusBoard, "IN_PROGRESS")
    OBVIOUS
  <2>2. WorkflowRank["in_progress"] = 2 /\ "in_progress" \in DOMAIN WorkflowRank /\ "in_progress" \in Intents
    BY DEF WorkflowRank, Intents
  <2>3. ASSUME read # None, Has("IN_QA") PROVE read = "in_progress"
    <3>1. read \in Meaning(statusBoard, "IN_PROGRESS")
      BY <2>1, <2>3, LowestIsMeant
    <3>2. read \in {"in_progress", "in_qa"} /\ ResolveStatus(statusBoard, read) = "IN_PROGRESS"
      BY <3>1, MeaningScores, FewReadThese DEF ColumnLabels
    <3>3. "in_qa" \in DOMAIN Own /\ Own["in_qa"] = "IN_QA"
      BY DEF Own
    <3>4. ResolveStatus(statusBoard, "in_qa") = "IN_QA"
      BY <2>3, <3>3, OwnIsMeant DEF Has
    <3> QED
      BY <3>2, <3>4
  <2>4. ASSUME Has("IN_PROGRESS"), ~Has("REVISIONS_IN_PROGRESS") PROVE "in_progress" \in Meaning(statusBoard, "IN_PROGRESS")
    <3>1. /\ HintsAlone("in_progress", "IN_PROGRESS") = 272 /\ ~Speaks("in_progress", "IN_PROGRESS")
          /\ \A label \in ColumnLabels \ {"IN_PROGRESS", "REVISIONS_IN_PROGRESS"} :
               HintsAlone("in_progress", label) = 0 /\ ~Speaks("in_progress", label)
      BY DEF HintsAlone, Speaks, ColumnLabels
    <3>2. Score("in_progress", "IN_PROGRESS") = 272
      BY <2>2, <3>1, ScoreIs
    <3>3. \A label \in ColumnLabels \ {"IN_PROGRESS", "REVISIONS_IN_PROGRESS"} : Score("in_progress", label) = 0
      BY <2>2, <3>1, ScoreIs
    <3>4. Admits("in_progress", "IN_PROGRESS")
      BY DEF Admits
    <3>5. PICK j \in DOMAIN statusBoard : statusBoard[j] = "IN_PROGRESS"
      BY <2>4 DEF Has, Range
    <3>6. PICK k \in DOMAIN statusBoard :
            ResolveStatus(statusBoard, "in_progress") = statusBoard[k] /\ Score("in_progress", statusBoard[k]) > 0
      <4>1. ~(Score("in_progress", statusBoard[j]) <= 0)
        BY <3>2, <3>5
      <4> QED
        BY <2>2, <3>4, <3>5, <4>1, Resolves
    <3>7. statusBoard[k] \in ColumnLabels \ {"REVISIONS_IN_PROGRESS"}
      BY <2>4, ElementOfSeq, LenProperties DEF Has, Range
    <3>8. statusBoard[k] = "IN_PROGRESS"
      BY <3>3, <3>6, <3>7
    <3> QED
      BY <2>2, <3>6, <3>8 DEF Meaning
  <2> QED
    BY <1>2, <2>1, <2>2, <2>3, <2>4, ReadAtMost DEF ReadNoFurther
<1> QED
  BY <1>1, <1>2 DEF NeverReadAsFurther

LEMMA StatusSays == ASSUME statusBoard \in Seq(ColumnLabels) PROVE StatusIsRead
<1>1. OwnColumnWins
  BY OwnIsMeant DEF OwnColumnWins, Has
<1>2. {"deployed", "again", "approved", "completed", "paused"} \subseteq DOMAIN Own
  BY DEF Own
<1>3. DedicatedOnly
  BY <1>2, OwnIsMeant DEF DedicatedOnly
<1> QED
  BY <1>1, <1>3, NoneReadFurther DEF StatusIsRead

-----------------------------------------------------------------------------
(* What a word means on a board.                                           *)

LEMMA FirstOf ==
  ASSUME NEW T \in SUBSET Nat, T # {}
  PROVE  /\ (CHOOSE i \in T : \A j \in T : i <= j) \in T
         /\ \A j \in T : (CHOOSE i \in T : \A k \in T : i <= k) <= j
<1>1. \E i \in T : \A j \in T : i <= j
  BY LeastOf
<1> QED
  BY <1>1

LEMMA BestForIs ==
  ASSUME NEW labels, DOMAIN labels \in SUBSET Nat, NEW word
  PROVE  /\ word \in AsOptions(labels) => BestFor(labels, word) = word
         /\ BestFor(labels, word) \in {word, NoValue} \/ Fuzzy(word, BestFor(labels, word))
<1>1. CASE word \in AsOptions(labels)
  BY <1>1 DEF BestFor
<1>2. CASE word \notin AsOptions(labels)
  <2>1. PICK hits : hits = {i \in DOMAIN labels : Fuzzy(word, labels[i])}
    OBVIOUS
  <2>2. BestFor(labels, word) = IF hits = {} THEN NoValue ELSE labels[CHOOSE i \in hits : \A j \in hits : i <= j]
    BY <1>2, <2>1 DEF BestFor, Earliest
  <2>3. CASE hits = {}
    BY <1>2, <2>2, <2>3
  <2>4. CASE hits # {}
    <3>1. PICK i \in hits : BestFor(labels, word) = labels[i]
      BY <2>1, <2>2, <2>4, FirstOf
    <3> QED
      BY <1>2, <2>1, <3>1
  <2> QED
    BY <2>3, <2>4
<1> QED
  BY <1>1, <1>2

(* The first word that the board knows is what is selected.                    *)
LEMMA SelectIs ==
  ASSUME NEW labels, DOMAIN labels \in SUBSET Nat, NEW ladder, DOMAIN ladder \in SUBSET (Nat \ {0}), 1 \in DOMAIN ladder
  PROVE  /\ ladder[1] \in AsOptions(labels) /\ ladder[1] # NoValue => Select(labels, ladder) = ladder[1]
         /\ \/ Select(labels, ladder) \in {ladder[1], NoValue}
            \/ \E i \in DOMAIN ladder : Select(labels, ladder) = BestFor(labels, ladder[i])
<1>1. PICK known : known = {i \in DOMAIN ladder : BestFor(labels, ladder[i]) # NoValue}
  OBVIOUS
<1>2. /\ labels = <<>> => Select(labels, ladder) = ladder[1]
      /\ labels # <<>> /\ known = {} => Select(labels, ladder) = NoValue
      /\ labels # <<>> /\ known # {} =>
           Select(labels, ladder) = BestFor(labels, ladder[CHOOSE i \in known : \A j \in known : i <= j])
  BY <1>1 DEF Select
<1>3. known \in SUBSET Nat /\ known \subseteq DOMAIN ladder /\ \A j \in known : 1 <= j
  BY <1>1
<1>4. ASSUME ladder[1] \in AsOptions(labels), ladder[1] # NoValue PROVE Select(labels, ladder) = ladder[1]
  <2>1. BestFor(labels, ladder[1]) = ladder[1]
    BY <1>4, BestForIs
  <2>2. 1 \in known /\ labels # <<>>
    BY <1>1, <1>4, <2>1 DEF AsOptions
  <2>3. PICK first : first = CHOOSE i \in known : \A j \in known : i <= j
    OBVIOUS
  <2>4. first \in known /\ first <= 1
    BY <1>3, <2>2, <2>3, FirstOf
  <2>5. first = 1
    BY <1>3, <2>4
  <2> QED
    BY <1>2, <2>1, <2>2, <2>3, <2>5
<1>5. CASE labels # <<>> /\ known # {}
  <2>1. PICK i \in known : Select(labels, ladder) = BestFor(labels, ladder[i])
    BY <1>2, <1>3, <1>5, FirstOf
  <2> QED
    BY <1>3, <1>4, <2>1
<1> QED
  BY <1>2, <1>4, <1>5

ValueInv == valueBoard \in ValueBoards /\ ValuesAreSound

LEMMA ValueStarts == ASSUME ValueInit PROVE ValueInv
BY DEF ValueInit, NotAsked, ValueInv, ValuesAreSound, WordIsTaken, AllOrNothing, ReposAccountedFor
LEMMA ValueRests == ASSUME ValueInv, UNCHANGED valueVars PROVE ValueInv'
BY DEF valueVars, ValueInv, ValuesAreSound, WordIsTaken, AllOrNothing, ReposAccountedFor

LadderWords ==
  TypeWords \cup {"low", "medium", "high", "enhancement", "defect", "fix", "refactor", "spike", "investigation",
                   "docs", "test", "qa", "med", "normal", "p2", "minor", "p3", "urgent", "major", "p1"}
LEMMA Ladders ==
  ASSUME NEW word \in TypeWords \cup {"low", "medium", "high"}
  PROVE  /\ DOMAIN LadderOf(word) \in SUBSET (Nat \ {0}) /\ 1 \in DOMAIN LadderOf(word)
         /\ LadderOf(word)[1] = word
         /\ word \in {"bug", "issue"} =>
              \A i \in DOMAIN LadderOf(word) : LadderOf(word)[i] \in {"bug", "issue", "defect", "fix"}
<1>1. Fallbacks[word] \in Seq(LadderWords)
  <2>1. CASE word = "feature"
    BY <2>1 DEF Fallbacks, TypeWords, LadderWords
  <2>2. CASE word = "story"
    BY <2>2 DEF Fallbacks, TypeWords, LadderWords
  <2>3. CASE word = "bug"
    BY <2>3 DEF Fallbacks, TypeWords, LadderWords
  <2>4. CASE word = "issue"
    BY <2>4 DEF Fallbacks, TypeWords, LadderWords
  <2>5. CASE word = "refactoring"
    BY <2>5 DEF Fallbacks, TypeWords, LadderWords
  <2>6. CASE word = "research"
    BY <2>6 DEF Fallbacks, TypeWords, LadderWords
  <2>7. CASE word = "documentation"
    BY <2>7 DEF Fallbacks, TypeWords, LadderWords
  <2>8. CASE word = "chore"
    BY <2>8 DEF Fallbacks, TypeWords, LadderWords
  <2>9. CASE word = "tests"
    BY <2>9 DEF Fallbacks, TypeWords, LadderWords
  <2>10. CASE word = "task"
    BY <2>10 DEF Fallbacks, TypeWords, LadderWords
  <2>11. CASE word = "low"
    BY <2>11 DEF Fallbacks, TypeWords, LadderWords
  <2>12. CASE word = "medium"
    BY <2>12 DEF Fallbacks, TypeWords, LadderWords
  <2>13. CASE word = "high"
    BY <2>13 DEF Fallbacks, TypeWords, LadderWords
  <2> QED
    BY <2>1, <2>2, <2>3, <2>4, <2>5, <2>6, <2>7, <2>8, <2>9, <2>10, <2>11, <2>12, <2>13 DEF TypeWords
<1>2. word \in LadderWords
  BY DEF LadderWords
<1>3. PICK one : one = <<word>>
  OBVIOUS
<1>4. one \in Seq(LadderWords) /\ Len(one) = 1 /\ one[1] = word
  BY <1>2, <1>3
<1>5. /\ LadderOf(word) \in Seq(LadderWords) /\ Len(LadderOf(word)) = 1 + Len(Fallbacks[word])
      /\ LadderOf(word)[1] = word
  BY <1>1, <1>3, <1>4, ConcatProperties DEF LadderOf
<1>6. DOMAIN LadderOf(word) = 1 .. (1 + Len(Fallbacks[word])) /\ Len(Fallbacks[word]) \in Nat
  BY <1>1, <1>5, LenProperties
<1>7. ASSUME word \in {"bug", "issue"}
      PROVE  \A i \in DOMAIN LadderOf(word) : LadderOf(word)[i] \in {"bug", "issue", "defect", "fix"}
  <2>1. Fallbacks[word] \in Seq({"bug", "issue", "defect", "fix"})
    <3>1. CASE word = "bug"
      BY <3>1 DEF Fallbacks
    <3>2. CASE word = "issue"
      BY <3>2 DEF Fallbacks
    <3> QED
      BY <1>7, <3>1, <3>2
  <2>2. one \in Seq({"bug", "issue", "defect", "fix"})
    BY <1>3, <1>7
  <2>3. LadderOf(word) \in Seq({"bug", "issue", "defect", "fix"})
    BY <1>3, <2>1, <2>2, ConcatProperties DEF LadderOf
  <2> QED
    BY <2>3, ElementOfSeq, LenProperties
<1> QED
  BY <1>5, <1>6, <1>7

LEMMA CanonicalIs ==
  ASSUME NEW kind \in {"type", "priority"}, NEW word, NEW default
  PROVE  /\ Canonical(kind, word, default) \in TypeWords \cup {"low", "medium", "high", default}
         /\ kind = "type" => Canonical(kind, word, default) = IF word \in TypeWords THEN word ELSE default
<1>1. CASE kind = "type"
  BY <1>1 DEF Canonical
<1>2. CASE kind = "priority"
  <2>1. word \in DOMAIN PriorityWord => PriorityWord[word] \in {"low", "medium", "high"}
    BY DEF PriorityWord
  <2> QED
    BY <1>2, <2>1 DEF Canonical
<1> QED
  BY <1>1, <1>2

LEMMA ColumnsOfBoard ==
  ASSUME ValueInv, NEW labels \in {valueBoard.type, valueBoard.priority, valueBoard.tag}
  PROVE  DOMAIN labels \in SUBSET Nat /\ NoValue \notin AsOptions(labels)
<1>1. labels \in Seq(STRING) /\ NoValue \notin AsOptions(labels)
  BY ValueAssumption DEF ValueInv
<1> QED
  BY <1>1, LenProperties

(* What a handler selects for a word.                                          *)
LEMMA WordSelected ==
  ASSUME NEW labels, DOMAIN labels \in SUBSET Nat, NEW word \in TypeWords \cup {"low", "medium", "high"}
  PROVE  /\ word \in AsOptions(labels) => Select(labels, LadderOf(word)) = word
         /\ word \in {"bug", "issue"} =>
              Select(labels, LadderOf(word)) \in {"bug", "issue", "defect", "fix", "hotfix", NoValue}
<1>1. word # NoValue
  BY DEF TypeWords, NoValue
<1>2. /\ DOMAIN LadderOf(word) \in SUBSET (Nat \ {0}) /\ 1 \in DOMAIN LadderOf(word)
      /\ LadderOf(word)[1] = word
      /\ word \in {"bug", "issue"} =>
           \A i \in DOMAIN LadderOf(word) : LadderOf(word)[i] \in {"bug", "issue", "defect", "fix"}
  BY Ladders
<1>3. /\ word \in AsOptions(labels) => Select(labels, LadderOf(word)) = word
      /\ \/ Select(labels, LadderOf(word)) \in {word, NoValue}
         \/ \E i \in DOMAIN LadderOf(word) : Select(labels, LadderOf(word)) = BestFor(labels, LadderOf(word)[i])
  <2>1. PICK ladder : ladder = LadderOf(word)
    OBVIOUS
  <2> QED
    BY <1>1, <1>2, <2>1, SelectIs
<1>4. ASSUME NEW w \in {"bug", "issue", "defect", "fix"}
      PROVE  BestFor(labels, w) \in {"bug", "issue", "defect", "fix", "hotfix", NoValue}
  <2>1. ASSUME NEW label, Fuzzy(w, label) PROVE label = "hotfix"
    BY <2>1 DEF Fuzzy, Alike, Within
  <2> QED
    BY <2>1, BestForIs
<1> QED
  BY <1>2, <1>3, <1>4

LEMMA HandlerIsRight == ASSUME ValueInv, HandlerWrites, UNCHANGED valueBoard PROVE ValueInv'
<1>1. PICK t \in AskedTypes :
        \E p \in AskedPriorities :
          written' = [by |-> "handler", type |-> t, priority |-> p,
                value |-> [type |-> Select(valueBoard.type, LadderOf(Canonical("type", t, "feature"))),
                           priority |-> Select(valueBoard.priority,
                                               LadderOf(Canonical("priority", p, "medium")))]]
  BY DEF HandlerWrites
<1>2. PICK p \in AskedPriorities :
        written' = [by |-> "handler", type |-> t, priority |-> p,
                value |-> [type |-> Select(valueBoard.type, LadderOf(Canonical("type", t, "feature"))),
                           priority |-> Select(valueBoard.priority,
                                               LadderOf(Canonical("priority", p, "medium")))]]
  BY <1>1
<1>3. PICK first : first = Canonical("type", t, "feature")
  OBVIOUS
<1>4. PICK second : second = Canonical("priority", p, "medium")
  OBVIOUS
<1>5. first \in TypeWords \cup {"low", "medium", "high"} /\ first = IF t \in TypeWords THEN t ELSE "feature"
  <2>1. "feature" \in TypeWords
    BY DEF TypeWords
  <2> QED
    BY <1>3, <2>1, CanonicalIs
<1>6. second \in TypeWords \cup {"low", "medium", "high"}
  BY <1>4, CanonicalIs
<1>7. PICK told : told = Select(valueBoard.type, LadderOf(first))
  OBVIOUS
<1>8. PICK urge : urge = Select(valueBoard.priority, LadderOf(second))
  OBVIOUS
<1>9. /\ first \in AsOptions(valueBoard.type) => told = first
      /\ first \in {"bug", "issue"} => told \in {"bug", "issue", "defect", "fix", "hotfix", NoValue}
  BY <1>5, <1>7, ColumnsOfBoard, WordSelected
<1>10. second \in AsOptions(valueBoard.priority) => urge = second
  BY <1>6, <1>8, ColumnsOfBoard, WordSelected
<1>11. written' = [by |-> "handler", type |-> t, priority |-> p, value |-> [type |-> told, priority |-> urge]]
  BY <1>2, <1>3, <1>4, <1>7, <1>8
<1>12. /\ written'.by = "handler" /\ written'.type = t
       /\ written'["type"] = t /\ written'["priority"] = p
       /\ written'.value["type"] = told /\ written'.value["priority"] = urge
       /\ written'.value.type = told
  BY <1>11
<1>13. t \in {"bug", "issue"} => first = t
  BY <1>5 DEF TypeWords
<1>14. WordIsTaken'
  <2>1. ASSUME NEW k \in {"type", "priority"},
               Canonical(k, written'[k], DefaultOf(k)) \in AsOptions(valueBoard[k])
        PROVE  written'.value[k] = Canonical(k, written'[k], DefaultOf(k))
    <3>1. CASE k = "type"
      <4>1. Canonical(k, written'[k], DefaultOf(k)) = first /\ valueBoard[k] = valueBoard.type
        BY <1>3, <1>12, <3>1 DEF DefaultOf
      <4> QED
        BY <1>9, <1>12, <2>1, <3>1, <4>1
    <3>2. CASE k = "priority"
      <4>1. Canonical(k, written'[k], DefaultOf(k)) = second /\ valueBoard[k] = valueBoard.priority
        BY <1>4, <1>12, <3>2 DEF DefaultOf
      <4> QED
        BY <1>10, <1>12, <2>1, <3>2, <4>1
    <3> QED
      BY <3>1, <3>2
  <2> QED
    BY <1>9, <1>12, <1>13, <2>1 DEF WordIsTaken
<1> QED
  BY <1>12, <1>14 DEF ValueInv, ValuesAreSound, AllOrNothing, ReposAccountedFor

LEMMA TagsAreRight == ASSUME ValueInv, RepositoriesWritten, UNCHANGED valueBoard PROVE ValueInv'
<1>1. PICK tokens \in SUBSET AskedRepos :
        written' = [by |-> "repos", tokens |-> tokens, value |-> MatchTags(valueBoard.tag, tokens)]
  BY DEF RepositoriesWritten
<1>2. PICK labels : labels = valueBoard.tag
  OBVIOUS
<1>3. DOMAIN labels \in SUBSET Nat /\ NoValue \notin AsOptions(labels)
  BY <1>2, ColumnsOfBoard
<1>4. ASSUME NEW t
      PROVE  /\ TagOf(labels, t) = NoValue <=> \A l \in AsOptions(labels) : l # t /\ ~Alike(l, t)
             /\ TagOf(labels, t) # NoValue => TagOf(labels, t) = t \/ Alike(TagOf(labels, t), t)
  <2>1. PICK hits : hits = {i \in DOMAIN labels : labels[i] = t \/ Alike(labels[i], t)}
    OBVIOUS
  <2>2. TagOf(labels, t) = IF hits = {} THEN NoValue ELSE labels[CHOOSE i \in hits : \A j \in hits : i <= j]
    BY <2>1 DEF TagOf, Earliest
  <2>3. CASE hits = {}
    BY <2>1, <2>2, <2>3 DEF AsOptions
  <2>4. CASE hits # {}
    <3>1. PICK i \in hits : TagOf(labels, t) = labels[i]
      BY <1>3, <2>1, <2>2, <2>4, FirstOf
    <3>2. labels[i] \in AsOptions(labels) /\ (labels[i] = t \/ Alike(labels[i], t))
      BY <2>1, <3>1 DEF AsOptions
    <3> QED
      BY <1>3, <3>1, <3>2
  <2> QED
    BY <2>3, <2>4
<1>5. /\ written'.by = "repos" /\ written'.tokens = tokens
      /\ written'.value.tags = {TagOf(labels, t) : t \in tokens} \ {NoValue}
      /\ written'.value.unmatched = {t \in tokens : TagOf(labels, t) = NoValue}
  BY <1>1, <1>2 DEF MatchTags
<1>6. ASSUME NEW t \in tokens
      PROVE  /\ t \in written'.value.unmatched <=> \A l \in AsOptions(labels) : l # t /\ ~Alike(l, t)
             /\ t \in AsOptions(labels) =>
                  t \in written'.value.tags \/ \E l \in written'.value.tags : Alike(l, t)
  <2>1. t \in written'.value.unmatched <=> TagOf(labels, t) = NoValue
    BY <1>5
  <2>2. TagOf(labels, t) # NoValue => TagOf(labels, t) \in written'.value.tags
    BY <1>5
  <2> QED
    BY <1>4, <2>1, <2>2
<1>7. ReposAccountedFor'
  BY <1>2, <1>5, <1>6 DEF ReposAccountedFor
<1> QED
  BY <1>5, <1>7 DEF ValueInv, ValuesAreSound, AllOrNothing, WordIsTaken

(* A word that nobody knows stays as it was, and is refused.                   *)
LEMMA UnknownStays ==
  ASSUME NEW kind, NEW labels, NEW word, labels # <<>>, word \notin AsOptions(labels),
         Canonical(kind, word, NoValue) = NoValue
  PROVE  Refused(labels, Coerce(kind, labels, word))
BY DEF Coerce, WordMeaning, Refused

(* What is written to the columns that the board describes passes its check.   *)
LEMMA AssistantIsRight == ASSUME ValueInv, AssistantWrites, UNCHANGED valueBoard PROVE ValueInv'
<1>1. PICK t \in AskedTypes, p \in AskedPriorities, odd \in BOOLEAN, known \in BOOLEAN :
        \E hidden \in SUBSET {"type", "priority"} :
          LET columns == Merge([k \in {"type", "priority"} \ hidden |-> valueBoard[k]],
                               [k \in {"type", "priority"} |-> <<>>])
              word(k) == IF k = "type" THEN t ELSE p
              values == [k \in {"type", "priority"} \cup (IF odd THEN {"status-9"} ELSE {}) |->
                           IF k \in DOMAIN columns /\ known THEN Coerce(k, columns[k], word(k)) ELSE p]
          IN written' = [by |-> "assistant", type |-> t, priority |-> p, odd |-> odd, known |-> known,
                         hidden |-> hidden, value |-> Validate(values, columns, known)]
  BY DEF AssistantWrites
<1>2. PICK hidden \in SUBSET {"type", "priority"} :
          LET columns == Merge([k \in {"type", "priority"} \ hidden |-> valueBoard[k]],
                               [k \in {"type", "priority"} |-> <<>>])
              word(k) == IF k = "type" THEN t ELSE p
              values == [k \in {"type", "priority"} \cup (IF odd THEN {"status-9"} ELSE {}) |->
                           IF k \in DOMAIN columns /\ known THEN Coerce(k, columns[k], word(k)) ELSE p]
          IN written' = [by |-> "assistant", type |-> t, priority |-> p, odd |-> odd, known |-> known,
                         hidden |-> hidden, value |-> Validate(values, columns, known)]
  BY <1>1
<1>3. PICK columns : columns = Merge([k \in {"type", "priority"} \ hidden |-> valueBoard[k]],
                                     [k \in {"type", "priority"} |-> <<>>])
  OBVIOUS
<1>4. PICK values : values = [k \in {"type", "priority"} \cup (IF odd THEN {"status-9"} ELSE {}) |->
                           IF k \in DOMAIN columns /\ known
                           THEN Coerce(k, columns[k], IF k = "type" THEN t ELSE p) ELSE p]
  OBVIOUS
<1>5. written' = [by |-> "assistant", type |-> t, priority |-> p, odd |-> odd, known |-> known,
                  hidden |-> hidden, value |-> Validate(values, columns, known)]
  BY <1>2, <1>3, <1>4
<1>6. /\ written'.by = "assistant" /\ written'["type"] = t /\ written'["priority"] = p
      /\ written'.odd = odd /\ written'.known = known /\ written'.hidden = hidden
      /\ written'.value = Validate(values, columns, known)
  BY <1>5
<1>7. /\ DOMAIN columns = {"type", "priority"}
      /\ \A k \in {"type", "priority"} \ hidden : columns[k] = valueBoard[k]
  BY <1>3 DEF Merge
<1>8. DOMAIN values = {"type", "priority"} \cup (IF odd THEN {"status-9"} ELSE {})
  BY <1>4
<1>9. ASSUME known
      PROVE  \A k \in {"type", "priority"} : values[k] = Coerce(k, columns[k], written'[k])
  BY <1>4, <1>6, <1>7, <1>9
<1>10. ASSUME known, odd PROVE Validate(values, columns, known) = <<>>
  <2>1. "status-9" \in DOMAIN values /\ "status-9" \notin DOMAIN columns
    BY <1>7, <1>8, <1>10
  <2> QED
    BY <1>10, <2>1 DEF Validate
<1>11. ASSUME known, NEW k \in {"type", "priority"} \ hidden, Refused(columns[k], values[k])
       PROVE  Validate(values, columns, known) = <<>>
  <2>1. k \in DOMAIN values
    BY <1>8
  <2> QED
    BY <1>11, <2>1 DEF Validate
<1>12. ASSUME known, Validate(values, columns, known) # <<>>, ~odd
       PROVE  Validate(values, columns, known) = values /\ DOMAIN values = {"type", "priority"}
  BY <1>8, <1>12 DEF Validate
<1>13. AllOrNothing'
  <2>1. ASSUME known PROVE
          LET seen == {"type", "priority"} \ hidden IN
          IF \/ odd
             \/ \E k \in seen : /\ valueBoard[k] # <<>> /\ written'[k] \notin AsOptions(valueBoard[k])
                                /\ Canonical(k, written'[k], NoValue) = NoValue
          THEN written'.value = <<>>
          ELSE written'.value # <<>> =>
                 /\ DOMAIN written'.value = {"type", "priority"}
                 /\ \A k \in seen : valueBoard[k] # <<>> => written'.value[k] \in AsOptions(valueBoard[k])
    <3>1. ASSUME NEW k \in {"type", "priority"} \ hidden, valueBoard[k] # <<>>,
                 written'[k] \notin AsOptions(valueBoard[k]), Canonical(k, written'[k], NoValue) = NoValue
          PROVE  written'.value = <<>>
      <4>1. Refused(columns[k], values[k])
        BY <1>7, <1>9, <2>1, <3>1, UnknownStays
      <4> QED
        BY <1>6, <1>11, <2>1, <4>1
    <3>2. ASSUME NEW k \in {"type", "priority"} \ hidden, written'.value # <<>>, ~odd, valueBoard[k] # <<>>
          PROVE  written'.value[k] \in AsOptions(valueBoard[k])
      <4>1. ~Refused(columns[k], values[k]) /\ written'.value = values
        BY <1>6, <1>11, <1>12, <2>1, <3>2
      <4> QED
        BY <1>7, <3>2, <4>1 DEF Refused
    <3>3. odd => written'.value = <<>>
      BY <1>6, <1>10, <2>1
    <3>4. ~odd /\ written'.value # <<>> => DOMAIN written'.value = {"type", "priority"}
      BY <1>6, <1>12, <2>1
    <3> QED
      BY <3>1, <3>2, <3>3, <3>4
  <2> QED
    BY <1>6, <2>1 DEF AllOrNothing
<1> QED
  BY <1>6, <1>13 DEF ValueInv, ValuesAreSound, WordIsTaken, ReposAccountedFor

LEMMA ValueKept == ASSUME ValueInv, ValueNext PROVE ValueInv'
BY HandlerIsRight, AssistantIsRight, TagsAreRight DEF ValueNext

-----------------------------------------------------------------------------
(* The writes of a task: whose column is whose.                            *)

EngineerKey == FirstKey(Called("assignee"))
QaKey == FirstKey(Called("qa"))

LEMMA FirstKeyIs ==
  ASSUME taskRegime \in TaskRegimes, NEW them \in SUBSET DOMAIN Columns
  PROVE  /\ them = {} => FirstKey(them) = ""
         /\ them # {} => /\ FirstKey(them) \in ColumnKeys /\ FirstKey(them) # ""
                         /\ \E i \in them : FirstKey(them) = Columns[i].key
<1>1. DOMAIN Columns \in SUBSET Nat /\ \A i \in DOMAIN Columns : Columns[i].key # ""
  BY TaskAssumption DEF Columns
<1>2. CASE them # {}
  <2>1. PICK i \in them : FirstKey(them) = Columns[i].key
    BY <1>1, <1>2, FirstOf DEF FirstKey, Foremost
  <2> QED
    BY <1>1, <1>2, <2>1 DEF ColumnKeys
<1> QED
  BY <1>2 DEF FirstKey

LEMMA ColumnFacts ==
  ASSUME taskRegime \in TaskRegimes
  PROVE  /\ "" \notin ColumnKeys
         /\ Called("assignee") # {} =>
              EngineerKey \in ColumnKeys /\ EngineerKey # "" /\ InferEngineer = EngineerKey
         /\ Called("qa") # {} =>
              QaKey \in ColumnKeys /\ QaKey # "" /\ InferQa = QaKey /\ QaKey # InferEngineer
         /\ Called("assignee") = {} => EngineerKey = ""
         /\ InferEngineer \in ColumnKeys \cup {""} /\ InferQa \in ColumnKeys \cup {""}
<1>1. /\ \A i \in DOMAIN Columns : Columns[i].key # ""
      /\ \A i, j \in DOMAIN Columns : Columns[i].key = Columns[j].key => i = j
  BY TaskAssumption DEF Columns
<1>2. "" \notin ColumnKeys
  BY <1>1 DEF ColumnKeys
<1>3. \A label : Called(label) \in SUBSET DOMAIN Columns
  BY DEF Called
<1>4. \A key : NotKeyed(key) \in SUBSET DOMAIN Columns
  BY DEF NotKeyed
<1>5. /\ Called("assignee") # {} => EngineerKey \in ColumnKeys /\ EngineerKey # ""
      /\ Called("assignee") = {} => EngineerKey = ""
  BY <1>3, FirstKeyIs DEF EngineerKey
<1>6. Called("assignee") # {} => InferEngineer = EngineerKey
  BY <1>5 DEF InferEngineer, OrElse, EngineerKey
<1>7. Called("qa") # {} => QaKey \in ColumnKeys /\ QaKey # ""
  BY <1>3, FirstKeyIs DEF QaKey
<1>8. Called("qa") # {} => InferQa = QaKey
  BY <1>7 DEF InferQa, OrElse, QaKey
<1>9. ASSUME Called("qa") # {} PROVE QaKey # InferEngineer
  <2>1. PICK i \in Called("qa") : QaKey = Columns[i].key
    BY <1>3, <1>9, FirstKeyIs DEF QaKey
  <2>2. CASE Called("assignee") # {}
    <3>1. PICK j \in Called("assignee") : EngineerKey = Columns[j].key
      BY <1>3, <2>2, FirstKeyIs DEF EngineerKey
    <3>2. i # j /\ i \in DOMAIN Columns /\ j \in DOMAIN Columns
      BY <2>1, <3>1 DEF Called
    <3> QED
      BY <1>1, <1>6, <2>1, <2>2, <3>1, <3>2
  <2>3. CASE Called("assignee") = {}
    <3>1. InferEngineer = FirstKey(NotKeyed(QaKey))
      BY <1>5, <2>3 DEF InferEngineer, OrElse, EngineerKey, QaKey
    <3>2. CASE NotKeyed(QaKey) = {}
      BY <1>4, <1>7, <1>9, <3>1, <3>2, FirstKeyIs
    <3>3. CASE NotKeyed(QaKey) # {}
      <4>1. PICK j \in NotKeyed(QaKey) : FirstKey(NotKeyed(QaKey)) = Columns[j].key
        BY <1>4, <3>3, FirstKeyIs
      <4> QED
        BY <3>1, <4>1 DEF NotKeyed
    <3> QED
      BY <3>2, <3>3
  <2> QED
    BY <2>2, <2>3
<1>10. \A them \in SUBSET DOMAIN Columns : FirstKey(them) \in ColumnKeys \cup {""}
  BY FirstKeyIs
<1>11. InferEngineer \in ColumnKeys \cup {""}
  BY <1>3, <1>4, <1>10 DEF InferEngineer, OrElse
<1>12. InferQa \in ColumnKeys \cup {""}
  BY <1>3, <1>4, <1>10 DEF InferQa, OrElse
<1> QED
  BY <1>2, <1>5, <1>6, <1>7, <1>8, <1>9, <1>11, <1>12

(* The keys that a call settles on, where the board was known.                 *)
LEMMA CreateKeysAre ==
  ASSUME taskRegime \in TaskRegimes, NEW late \in BOOLEAN
  PROVE  /\ Called("assignee") # {} => CreateKeys(TRUE, late).engineer = EngineerKey
         /\ Called("qa") # {} => CreateKeys(TRUE, late).qa = QaKey
<1>1. ASSUME Called("assignee") # {} PROVE CreateKeys(TRUE, late).engineer = EngineerKey
  <2>1. CreateEngineer(TRUE) = EngineerKey /\ EngineerKey # ""
    BY <1>1, ColumnFacts DEF CreateEngineer, OrElse
  <2>2. MissingEngineer(CreateEngineer(TRUE), MissingQa(CreateQa(TRUE))) = EngineerKey
    BY <2>1 DEF MissingEngineer, OrElse
  <2>3. CreateKeys(TRUE, late).engineer = MissingEngineer(CreateEngineer(TRUE), MissingQa(CreateQa(TRUE)))
    BY DEF CreateKeys
  <2> QED
    BY <2>2, <2>3
<1>2. ASSUME Called("qa") # {} PROVE CreateKeys(TRUE, late).qa = QaKey
  <2>1. CreateQa(TRUE) = QaKey /\ QaKey # ""
    BY <1>2, ColumnFacts DEF CreateQa, OrElse
  <2>2. MissingQa(CreateQa(TRUE)) = QaKey
    BY <2>1 DEF MissingQa, OrElse
  <2>3. CreateKeys(TRUE, late).qa = MissingQa(CreateQa(TRUE))
    BY DEF CreateKeys
  <2> QED
    BY <2>2, <2>3
<1> QED
  BY <1>1, <1>2

LEMMA UpdateKeysAre ==
  ASSUME taskRegime \in TaskRegimes, Named, ConfiguredRight, NEW late \in BOOLEAN
  PROVE  UpdateKeys(TRUE, late).engineer = EngineerKey /\ UpdateKeys(TRUE, late).qa = QaKey
<1>1. /\ EngineerKey \in ColumnKeys /\ EngineerKey # "" /\ QaKey \in ColumnKeys /\ QaKey # ""
      /\ InferEngineer = EngineerKey /\ InferQa = QaKey
  BY ColumnFacts DEF Named
<1>2. Scrub(taskRegime.config.qa, TRUE) \in {"", QaKey} /\ Scrub(taskRegime.config.engineer, TRUE) \in {"", EngineerKey}
  BY <1>1 DEF ConfiguredRight, Scrub
<1>3. MissingQa(Scrub(taskRegime.config.qa, TRUE)) = QaKey
  BY <1>1, <1>2 DEF MissingQa, OrElse, QaKey
<1>4. Called("assignee") \cap NotKeyed(QaKey) = Called("assignee")
  <2>1. /\ \A i, j \in DOMAIN Columns : Columns[i].key = Columns[j].key => i = j
    BY TaskAssumption DEF Columns
  <2>2. PICK i \in Called("qa") : QaKey = Columns[i].key
    <3>1. Called("qa") \in SUBSET DOMAIN Columns
      BY DEF Called
    <3> QED
      BY <3>1, FirstKeyIs DEF QaKey, Named
  <2> QED
    BY <2>1, <2>2 DEF Called, NotKeyed
<1>5. MissingEngineer(Scrub(taskRegime.config.engineer, TRUE), QaKey) = EngineerKey
  BY <1>1, <1>2, <1>4 DEF MissingEngineer, OrElse, EngineerKey
<1> QED
  BY <1>3, <1>5 DEF UpdateKeys

(* What is written, of the requests that there are.                            *)
TaskRequest ==
  [kind : {"create", "subtask", "update"}, engineer : Anyone, given : Anyone, qa : Anyone,
   auto : BOOLEAN, status : TaskStatuses, clear : BOOLEAN, diff : BOOLEAN]
FieldsFit(f) == f = [k \in DOMAIN f |-> f[k]] /\ \A k \in DOMAIN f : f[k] \in Anyone
Whole(f) == \A k \in DOMAIN f : f[k] # Nobody

LEMMA NoFieldsFit == FieldsFit(NoFields) /\ Whole(NoFields) /\ DOMAIN NoFields = {}
BY DEF NoFields, FieldsFit, Whole

Fills(g, f, key, person) ==
  /\ FieldsFit(g) /\ DOMAIN g = DOMAIN f \cup {key} /\ g[key] = person
  /\ \A k \in DOMAIN f \ {key} : g[k] = f[k]
  /\ Whole(f) /\ person # Nobody => Whole(g)
LEMMA FillFits ==
  ASSUME NEW f, NEW key, NEW person, NEW g, FieldsFit(f), person \in Anyone, g = FilledWith(f, key, person)
  PROVE  Fills(g, f, key, person)
<1>1. g = [k \in DOMAIN f \cup {key} |-> IF k = key THEN person ELSE f[k]]
  BY DEF FilledWith
<1>2. /\ DOMAIN g = DOMAIN f \cup {key} /\ g[key] = person
      /\ \A k \in DOMAIN f \ {key} : g[k] = f[k]
  BY <1>1
<1>3. FieldsFit(g)
  <2>1. g = [k \in DOMAIN g |-> g[k]]
    BY <1>1
  <2> QED
    BY <1>2, <2>1 DEF FieldsFit
<1>4. Whole(f) /\ person # Nobody => Whole(g)
  BY <1>2 DEF Whole
<1> QED
  BY <1>2, <1>3, <1>4 DEF Fills

PutsIn(g, f, key, person) ==
  /\ FieldsFit(g) /\ DOMAIN g \in {DOMAIN f, DOMAIN f \cup {key}}
  /\ g = f \/ (g[key] = person /\ person # Nobody)
  /\ \A k \in DOMAIN f \ {key} : g[k] = f[k]
  /\ Whole(f) => Whole(g)
LEMMA PutFits ==
  ASSUME NEW f, NEW key, NEW person, NEW g, FieldsFit(f), person \in Anyone, g = Put(f, key, person)
  PROVE  PutsIn(g, f, key, person)
<1>1. CASE key = "" \/ person = Nobody
  BY <1>1 DEF Put, PutsIn
<1>2. CASE ~(key = "" \/ person = Nobody)
  <2>1. g = FilledWith(f, key, person)
    BY <1>2 DEF Put
  <2>2. Fills(g, f, key, person)
    BY <2>1, FillFits
  <2> QED
    BY <1>2, <2>2 DEF Fills, PutsIn
<1> QED
  BY <1>1, <1>2

LEMMA EligibleIs ==
  ASSUME NEW person \in Anyone
  PROVE  Eligible(person) \in Anyone /\ Eligible(person) # "tester" /\ (Eligible(person) # Nobody => Eligible(person) = person)
BY DEF Eligible, MayDevelop, Anyone, People, Nobody

FiltersOut(g, f, key) ==
  /\ FieldsFit(g) /\ DOMAIN g \in SUBSET DOMAIN f
  /\ \A k \in DOMAIN g : g[k] = f[k]
  /\ key \in DOMAIN g => g[key] # "tester"
  /\ Whole(f) => Whole(g)
LEMMA FilterFits ==
  ASSUME NEW f, NEW key, NEW g, FieldsFit(f), g = FilterColumn(f, key)
  PROVE  FiltersOut(g, f, key)
<1>1. CASE key \in DOMAIN f /\ ~MayDevelop(f[key])
  <2>1. g = [k \in DOMAIN f \ {key} |-> f[k]]
    BY <1>1 DEF FilterColumn, Without
  <2>3. DOMAIN g = DOMAIN f \ {key} /\ \A k \in DOMAIN g : g[k] = f[k]
    BY <2>1
  <2>4. g = [k \in DOMAIN g |-> g[k]]
    BY <2>1
  <2>5. FieldsFit(g)
    BY <2>3, <2>4 DEF FieldsFit
  <2> QED
    BY <2>3, <2>5 DEF Whole, FiltersOut
<1>2. CASE ~(key \in DOMAIN f /\ ~MayDevelop(f[key]))
  BY <1>2 DEF FilterColumn, MayDevelop, FiltersOut
<1> QED
  BY <1>1, <1>2

CreatesRight(f, r, keys) ==
  /\ FieldsFit(f) /\ Whole(f)
  /\ keys.engineer \in DOMAIN f => f[keys.engineer] # "tester"
  /\ Named /\ keys.engineer = EngineerKey /\ keys.qa = QaKey /\ QaKey \in DOMAIN f /\ f[QaKey] = "dev" =>
       r.qa = "dev"
LEMMA CreateFieldsFit ==
  ASSUME NEW r, NEW keys, NEW f, r \in TaskRequest, taskRegime \in TaskRegimes, pickable \in {"tester", Nobody},
         f = CreateFields(r, keys)
  PROVE  CreatesRight(f, r, keys)
<1>1. /\ Eligible(r.engineer) \in Anyone /\ r.qa \in Anyone /\ r.given \in Anyone
      /\ pickable \in Anyone /\ pickable # "dev" /\ Nobody \in Anyone /\ Nobody # "dev"
  BY EligibleIs DEF TaskRequest, Anyone, People, Nobody
<1>2. PICK tester : tester = IF r.qa # Nobody THEN r.qa ELSE IF r.auto THEN pickable ELSE Nobody
  OBVIOUS
<1>3. tester \in Anyone /\ (tester = "dev" => r.qa = "dev")
  BY <1>1, <1>2
<1>4. PICK engineer, key1, key2, e : engineer = Eligible(r.engineer) /\ key1 = keys.engineer /\ key2 = keys.qa /\ e = EngineerKey
  OBVIOUS
<1>5. PICK empty, first : empty = NoFields /\ first = Put(empty, key1, engineer)
  OBVIOUS
<1>6. FieldsFit(empty) /\ Whole(empty) /\ DOMAIN empty = {} /\ engineer \in Anyone
  BY <1>1, <1>4, <1>5, NoFieldsFit
<1>7. FieldsFit(first) /\ Whole(first) /\ DOMAIN first \in SUBSET {key1}
  <2>1. PutsIn(first, empty, key1, engineer)
    BY <1>5, <1>6, PutFits
  <2> QED
    BY <1>5, <1>6, <2>1 DEF PutsIn
<1>8. PICK named : named = Put(first, key2, tester)
  OBVIOUS
<1>9. FieldsFit(named) /\ Whole(named) /\ (named = first \/ named[key2] = tester)
  <2>1. PutsIn(named, first, key2, tester)
    BY <1>3, <1>7, <1>8, PutFits
  <2> QED
    BY <1>3, <1>7, <1>8, <2>1 DEF PutsIn
<1>10. PICK person, given : person = r.given /\ given = IF person = Nobody THEN named ELSE FilledWith(named, e, person)
  OBVIOUS
<1>11. FieldsFit(given) /\ Whole(given) /\ \A k \in DOMAIN given \ {e} : k \in DOMAIN named /\ given[k] = named[k]
  <2>1. CASE person = Nobody
    BY <1>9, <1>10, <2>1
  <2>2. CASE person # Nobody
    <3>1. given = FilledWith(named, e, person) /\ person \in Anyone
      BY <1>1, <1>10, <2>2
    <3>2. Fills(given, named, e, person)
      BY <1>9, <3>1, FillFits
    <3> QED
      BY <1>9, <2>2, <3>2 DEF Fills
  <2> QED
    BY <2>1, <2>2
<1>12. f = FilterColumn(given, key1)
  BY <1>2, <1>4, <1>5, <1>8, <1>10 DEF CreateFields, EngineerKey
<1>13. ASSUME Named, key1 = e, key2 = QaKey, QaKey \in DOMAIN given PROVE given[QaKey] = tester
  <2>1. QaKey # e
    BY <1>4, <1>13, ColumnFacts DEF Named
  <2>2. QaKey \in DOMAIN named /\ given[QaKey] = named[QaKey]
    BY <1>11, <1>13, <2>1
  <2>3. named # first
    BY <1>7, <1>13, <2>1, <2>2
  <2> QED
    BY <1>9, <1>13, <2>2, <2>3
<1>14. /\ FieldsFit(f) /\ DOMAIN f \in SUBSET DOMAIN given
       /\ \A k \in DOMAIN f : f[k] = given[k]
       /\ key1 \in DOMAIN f => f[key1] # "tester"
       /\ Whole(f)
  <2>1. FiltersOut(f, given, key1)
    BY <1>11, <1>12, FilterFits
  <2> QED
    BY <1>11, <2>1 DEF FiltersOut
<1>15. Named /\ key1 = e /\ key2 = QaKey /\ QaKey \in DOMAIN f /\ f[QaKey] = "dev" => r.qa = "dev"
  BY <1>3, <1>13, <1>14
<1> QED
  BY <1>4, <1>14, <1>15 DEF CreatesRight

SubtasksRight(f, r, keys) ==
  /\ FieldsFit(f)
  /\ Named /\ keys.engineer = EngineerKey /\ keys.qa = QaKey =>
       /\ EngineerKey \in DOMAIN f => f[EngineerKey] = r.engineer
       /\ QaKey \in DOMAIN f /\ f[QaKey] = "dev" => r.qa = "dev"
LEMMA SubtaskFieldsFit ==
  ASSUME NEW r, NEW keys, NEW f, r \in TaskRequest, taskRegime \in TaskRegimes, pickable \in {"tester", Nobody},
         f = SubtaskFields(r, keys)
  PROVE  SubtasksRight(f, r, keys)
<1>1. /\ r.engineer \in Anyone /\ r.qa \in Anyone
      /\ pickable \in Anyone /\ pickable # "dev" /\ Nobody \in Anyone /\ Nobody # "dev"
  BY DEF TaskRequest, Anyone, People, Nobody
<1>2. PICK tester : tester = IF r.qa # Nobody THEN r.qa ELSE IF r.auto THEN pickable ELSE Nobody
  OBVIOUS
<1>3. tester \in Anyone /\ (tester = "dev" => r.qa = "dev")
  BY <1>1, <1>2
<1>4. PICK engineer, key1, key2 : engineer = r.engineer /\ key1 = keys.engineer /\ key2 = keys.qa
  OBVIOUS
<1>5. PICK empty, first : empty = NoFields /\ first = Put(empty, key1, engineer)
  OBVIOUS
<1>6. FieldsFit(empty) /\ DOMAIN empty = {} /\ engineer \in Anyone
  BY <1>1, <1>4, <1>5, NoFieldsFit
<1>7. FieldsFit(first) /\ DOMAIN first \in SUBSET {key1} /\ (key1 \in DOMAIN first => first[key1] = engineer)
  <2>1. PutsIn(first, empty, key1, engineer)
    BY <1>5, <1>6, PutFits
  <2> QED
    BY <1>5, <1>6, <2>1 DEF PutsIn
<1>8. f = Put(first, key2, tester)
  BY <1>2, <1>4, <1>5 DEF SubtaskFields
<1>9. /\ FieldsFit(f) /\ DOMAIN f \in {DOMAIN first, DOMAIN first \cup {key2}}
      /\ f = first \/ f[key2] = tester
      /\ \A k \in DOMAIN first \ {key2} : f[k] = first[k]
  <2>1. PutsIn(f, first, key2, tester)
    BY <1>3, <1>7, <1>8, PutFits
  <2> QED
    BY <2>1 DEF PutsIn
<1>10. ASSUME Named, key1 = EngineerKey, key2 = QaKey
       PROVE  /\ EngineerKey \in DOMAIN f => f[EngineerKey] = engineer
              /\ QaKey \in DOMAIN f /\ f[QaKey] = "dev" => r.qa = "dev"
  <2>1. QaKey # EngineerKey
    BY <1>10, ColumnFacts DEF Named
  <2> QED
    BY <1>3, <1>7, <1>9, <1>10, <2>1
<1> QED
  BY <1>4, <1>9, <1>10 DEF SubtasksRight

UpdatesRight(f, keys) ==
  /\ FieldsFit(f)
  /\ Named /\ keys.engineer = EngineerKey /\ keys.qa = QaKey /\ EngineerKey \in DOMAIN f => f[EngineerKey] # "tester"
LEMMA UpdateFieldsFit ==
  ASSUME NEW r, NEW keys, NEW f, r \in TaskRequest, taskRegime \in TaskRegimes, pickable \in {"tester", Nobody},
         f = UpdateFields(r, keys)
  PROVE  UpdatesRight(f, keys)
<1>1. /\ Eligible(r.engineer) \in Anyone /\ Eligible(r.engineer) # "tester" /\ r.qa \in Anyone
      /\ pickable \in Anyone /\ Nobody \in Anyone /\ Nobody # "tester"
  BY EligibleIs DEF TaskRequest, Anyone, People, Nobody
<1>2. PICK tester, nobody : tester = (IF r.auto /\ r.qa = Nobody THEN pickable ELSE r.qa) /\ nobody = Nobody
  OBVIOUS
<1>3. PICK engineer, key1, key2 : engineer = Eligible(r.engineer) /\ key1 = keys.engineer /\ key2 = keys.qa
  OBVIOUS
<1>4. PICK empty, qa : empty = NoFields /\ qa = Put(empty, key2, tester)
  OBVIOUS
<1>5. FieldsFit(empty) /\ DOMAIN empty = {} /\ tester \in Anyone
  BY <1>1, <1>2, <1>4, NoFieldsFit
<1>6. FieldsFit(qa) /\ DOMAIN qa \in SUBSET {key2}
  <2>1. PutsIn(qa, empty, key2, tester)
    BY <1>4, <1>5, PutFits
  <2> QED
    BY <1>4, <1>5, <2>1 DEF PutsIn
<1>7. f = IF r.clear THEN IF key1 = "" THEN qa ELSE FilledWith(qa, key1, nobody) ELSE Put(qa, key1, engineer)
  BY <1>2, <1>3, <1>4 DEF UpdateFields
<1>8. FieldsFit(f) /\ (key1 \in DOMAIN f \ {key2} => f[key1] # "tester")
  <2>1. CASE r.clear /\ key1 = ""
    BY <1>6, <1>7, <2>1
  <2>2. CASE r.clear /\ key1 # ""
    <3>1. f = FilledWith(qa, key1, nobody) /\ nobody \in Anyone
      BY <1>1, <1>2, <1>7, <2>2
    <3>2. Fills(f, qa, key1, nobody)
      BY <1>6, <3>1, FillFits
    <3> QED
      BY <1>1, <1>2, <3>2 DEF Fills
  <2>3. CASE ~r.clear
    <3>1. f = Put(qa, key1, engineer) /\ engineer \in Anyone /\ engineer # "tester"
      BY <1>1, <1>3, <1>7, <2>3
    <3>2. PutsIn(f, qa, key1, engineer)
      BY <1>6, <3>1, PutFits
    <3> QED
      BY <1>6, <3>1, <3>2 DEF PutsIn
  <2> QED
    BY <2>1, <2>2, <2>3
<1>9. Named => QaKey # EngineerKey
  BY ColumnFacts DEF Named
<1> QED
  BY <1>3, <1>8, <1>9 DEF UpdatesRight

(* What a call means to write, from its beginning.                             *)
CallFields ==
  {"at", "request", "known", "keys", "fields", "status", "note", "present", "id", "faults", "missed",
   "told", "walk", "seen"}
TaskCards == [exists : BOOLEAN, status : TaskStatuses, col : [ColumnKeys -> Anyone]]
Judged(c) ==
  c.known /\ Named /\ (c.request.kind = "create" \/ (c.request.kind = "update" /\ ConfiguredRight))

CreateMeans(c) ==
  /\ CreatesRight(c.fields, c.request, c.keys)
  /\ c.present <=> c.keys.engineer \in DOMAIN c.fields
  /\ c.known /\ Called("assignee") # {} => c.keys.engineer = EngineerKey
  /\ c.request.status = "" =>
       /\ taskRegime.statuses => c.note /\ c.status = IF c.present THEN "assigned" ELSE "needs"
       /\ ~taskRegime.statuses => c.status = ""
Wanted(r, keys, picked) ==
  LET qa == Put(NoFields, keys.qa, IF r.auto /\ r.qa = Nobody THEN picked ELSE r.qa)
  IN IF r.clear THEN IF keys.engineer = "" THEN qa ELSE FilledWith(qa, keys.engineer, Nobody)
     ELSE Put(qa, keys.engineer, Eligible(r.engineer))
UpdateMeans(c) ==
  LET wanted == Wanted(c.request, c.keys, pickable) IN
  /\ c.status \in {"", c.request.status}
  /\ DOMAIN c.fields \in SUBSET DOMAIN wanted /\ \A k \in DOMAIN c.fields : c.fields[k] = wanted[k]
CallMeans(c) ==
  /\ DOMAIN c = CallFields /\ c.request \in TaskRequest /\ FieldsFit(c.fields) /\ c.status \in TaskStatuses
  /\ c.known \in BOOLEAN /\ c.note \in BOOLEAN /\ c.present \in BOOLEAN /\ c.id \in BOOLEAN /\ c.missed \in BOOLEAN
  /\ c.known /\ Named /\ c.request.kind # "update" => c.keys.engineer = EngineerKey /\ c.keys.qa = QaKey
  /\ c.request.kind = "create" => CreateMeans(c)
  /\ c.request.kind = "subtask" => SubtasksRight(c.fields, c.request, c.keys)
  /\ c.request.kind = "update" => UpdateMeans(c)
  /\ Judged(c) /\ EngineerKey \in DOMAIN c.fields => c.fields[EngineerKey] # "tester"
  /\ c.at \in IF c.request.kind = "update" THEN {"diff", "patch", "bump", "raise", "done"}
              ELSE {"create", "again", "verify", "back", "done"}

(* And what has become of the cards.                                           *)
AsFound(other) ==
  \A k \in ColumnKeys : other.col[k] \in {Nobody, "dev"} /\ (k # InferEngineer => other.col[k] = Nobody)
TellsOwner(c, own) ==
  c.at = "done" /\ c.request.kind = "create" /\ own.exists /\ c.known /\ c.request.status = ""
    /\ c.told \notin {"unverified", "error"} /\ Called("assignee") # {} =>
      /\ own.status = "assigned" => own.col[EngineerKey] # Nobody \/ ~c.id \/ c.walk \in {"refused", "no_label"}
      /\ own.status = "needs" => own.col[EngineerKey] = Nobody
MadeCard(c, own) ==
  /\ \A k \in ColumnKeys : own.col[k] = Nobody \/ (k \in DOMAIN c.fields /\ own.col[k] = c.fields[k])
  /\ c.at # "done" => own.status \in {"", c.status}
  /\ c.at = "back" /\ c.request.kind = "create" /\ c.known /\ Called("assignee") # {} => own.col[EngineerKey] = Nobody
  /\ TellsOwner(c, own)
ChangedCard(c, other) ==
  LET wanted == Wanted(c.request, c.keys, pickable) IN
  /\ c.seen.status # "progress"
  /\ c.at \in {"diff", "patch"} =>
       /\ other.status \in {"needs", "progress"}
       /\ \A k \in (DOMAIN wanted \cap ColumnKeys) \ DOMAIN c.fields : other.col[k] = wanted[k]
  /\ c.at \in {"bump", "raise"} => c.request.status = ""
  /\ c.at \in {"bump", "raise", "done"} =>
       /\ c.faults = 0 => \A k \in DOMAIN wanted \cap ColumnKeys : other.col[k] = wanted[k]
       /\ other.status = "assigned" => c.request.status \in {"", "assigned"}
CardsFit(c, own, other, t) ==
  /\ Judged(c) => own.col[EngineerKey] # "tester" /\ other.col[EngineerKey] # "tester"
  /\ c.at = "create" => ~own.exists
  /\ c.at \in {"create", "again"} => ~c.missed
  /\ c.request.kind # "update" /\ ~t => (~c.missed => AsFound(other)) /\ (own.exists => MadeCard(c, own))
  /\ c.request.kind = "update" /\ ~t => ChangedCard(c, other)
AtFirst(own, other) ==
  ~own.exists /\ (\A k \in ColumnKeys : own.col[k] = Nobody) /\ AsFound(other) /\ other.status \in {"needs", "progress"}
TaskHolds(c, own, other, t) ==
  /\ own \in TaskCards /\ other \in TaskCards /\ t \in BOOLEAN
  /\ IF c.at = "rest" THEN AtFirst(own, other)
     ELSE CallMeans(c) /\ CardsFit(c, own, other, t)
TaskInv ==
  /\ taskRegime \in TaskRegimes /\ pickable \in {"tester", Nobody} /\ DOMAIN card = Cards
  /\ card = [own |-> card.own, other |-> card.other]
  /\ TaskHolds(call, card.own, card.other, touched)

LEMMA TaskRegimeRests ==
  ASSUME UNCHANGED <<taskRegime, pickable>>
  PROVE  /\ ColumnKeys' = ColumnKeys /\ EngineerKey' = EngineerKey /\ QaKey' = QaKey
         /\ InferEngineer' = InferEngineer /\ (Called("assignee") = {})' = (Called("assignee") = {})
         /\ Named' = Named /\ ConfiguredRight' = ConfiguredRight
<1>1. Columns' = Columns
  BY DEF Columns
<1>2. ColumnKeys' = ColumnKeys
  BY <1>1 DEF ColumnKeys
<1>3. Called("assignee")' = Called("assignee") /\ Called("qa")' = Called("qa")
  BY <1>1 DEF Called
<1>4. EngineerKey' = EngineerKey /\ QaKey' = QaKey
  BY <1>1, <1>3 DEF EngineerKey, QaKey, FirstKey
<1>5. InferEngineer' = InferEngineer
  BY <1>1, <1>3 DEF InferEngineer, OrElse, FirstKey, NotKeyed
<1>6. InferQa' = InferQa
  BY <1>1, <1>3, <1>5 DEF InferQa, OrElse, FirstKey, NotKeyed
<1>7. ConfiguredRight' = ConfiguredRight
  BY <1>5, <1>6 DEF ConfiguredRight
<1> QED
  BY <1>2, <1>3, <1>4, <1>5, <1>7 DEF Named

LEMMA TaskGoesOn ==
  ASSUME TaskInv, UNCHANGED <<taskRegime, pickable>>, NEW c, NEW own, NEW other, NEW t,
         call' = c, card' = [own |-> own, other |-> other], touched' = t, TaskHolds(c, own, other, t)
  PROVE  TaskInv'
<1>1. /\ ColumnKeys' = ColumnKeys /\ EngineerKey' = EngineerKey /\ QaKey' = QaKey
      /\ InferEngineer' = InferEngineer /\ (Called("assignee") = {})' = (Called("assignee") = {})
      /\ Named' = Named /\ ConfiguredRight' = ConfiguredRight
  BY TaskRegimeRests
<1>2. own \in TaskCards' /\ other \in TaskCards' /\ t \in BOOLEAN
  BY <1>1 DEF TaskHolds, TaskCards
<1>3. ASSUME c.at = "rest" PROVE AtFirst(own, other)'
  BY <1>1, <1>3 DEF TaskHolds, AtFirst, AsFound
<1>4. ASSUME c.at # "rest" PROVE CallMeans(c)'
  BY <1>1, <1>4 DEF TaskHolds, CallMeans, CreateMeans, UpdateMeans, Judged, CreatesRight, SubtasksRight
<1>5. ASSUME c.at # "rest" PROVE CardsFit(c, own, other, t)'
  BY <1>1, <1>5 DEF TaskHolds, CardsFit, Judged, AsFound, MadeCard, TellsOwner, ChangedCard
<1>6. card'.own = own /\ card'.other = other /\ DOMAIN card' = Cards
  BY DEF Cards
<1>7. TaskHolds(c, own, other, t)'
  BY <1>2, <1>3, <1>4, <1>5 DEF TaskHolds
<1>8. TaskHolds(call, card.own, card.other, touched)'
  BY <1>6, <1>7
<1> QED
  BY <1>6, <1>8 DEF TaskInv

LEMMA TaskStarts == ASSUME TaskInit PROVE TaskInv
<1>1. PICK status \in {"needs", "progress"} :
        \E owner \in {Nobody, "dev"} :
          card = [own |-> [Blank EXCEPT !.exists = FALSE],
                  other |-> [Blank EXCEPT !.status = status, !.col = [k \in ColumnKeys |->
                               IF k = InferEngineer THEN owner ELSE Nobody]]]
  BY DEF TaskInit
<1>2. PICK owner \in {Nobody, "dev"} :
        card = [own |-> [Blank EXCEPT !.exists = FALSE],
                other |-> [Blank EXCEPT !.status = status, !.col = [k \in ColumnKeys |->
                             IF k = InferEngineer THEN owner ELSE Nobody]]]
  BY <1>1
<1>3. PICK bare : bare = [k \in ColumnKeys |-> Nobody]
  OBVIOUS
<1>4. PICK held : held = [k \in ColumnKeys |-> IF k = InferEngineer THEN owner ELSE Nobody]
  OBVIOUS
<1>5. PICK own, other : /\ own = [exists |-> FALSE, status |-> "", col |-> bare]
                        /\ other = [exists |-> TRUE, status |-> status, col |-> held]
  OBVIOUS
<1>6. card = [own |-> own, other |-> other]
  BY <1>2, <1>3, <1>4, <1>5 DEF Blank
<1>7. bare \in [ColumnKeys -> Anyone] /\ held \in [ColumnKeys -> Anyone] /\ owner \in {Nobody, "dev"}
  BY <1>3, <1>4 DEF Anyone, People
<1>8. own \in TaskCards /\ other \in TaskCards
  BY <1>5, <1>7 DEF TaskCards, TaskStatuses
<1>9. AtFirst(own, other)
  BY <1>3, <1>4, <1>5 DEF AtFirst, AsFound
<1>10. call.at = "rest" /\ touched = FALSE
  BY DEF TaskInit, TaskResting
<1>11. TaskHolds(call, own, other, touched)
  BY <1>8, <1>9, <1>10 DEF TaskHolds
<1>12. card.own = own /\ card.other = other /\ DOMAIN card = Cards
  BY <1>6 DEF Cards
<1> QED
  BY <1>6, <1>11, <1>12 DEF TaskInit, TaskInv

LEMMA TaskRests == ASSUME TaskInv, UNCHANGED taskVars PROVE TaskInv'
<1>1. PICK c, own, other, t : c = call /\ own = card.own /\ other = card.other /\ t = touched
  OBVIOUS
<1>2. /\ call' = c /\ card' = [own |-> own, other |-> other] /\ touched' = t /\ TaskHolds(c, own, other, t)
      /\ UNCHANGED <<taskRegime, pickable>>
  BY <1>1 DEF TaskInv, taskVars
<1> QED
  BY <1>2, TaskGoesOn

LEMMA TaskSays == ASSUME TaskInv PROVE TasksAreTrue
<1>1. PICK own, other : own = card.own /\ other = card.other
  OBVIOUS
<1>2. taskRegime \in TaskRegimes /\ TaskHolds(call, own, other, touched) /\ card["own"] = own /\ card["other"] = other
  BY <1>1 DEF TaskInv
<1>3. /\ own \in TaskCards /\ other \in TaskCards /\ touched \in BOOLEAN
      /\ call.at = "rest" => AtFirst(own, other)
      /\ call.at # "rest" => CallMeans(call) /\ CardsFit(call, own, other, touched)
  BY <1>2 DEF TaskHolds
<1>4. /\ \A c : Called("assignee") # {} => Owner(c) = card[c].col[EngineerKey]
      /\ \A c : Called("qa") # {} => Tester(c) = card[c].col[QaKey]
      /\ \A c : Called("assignee") = {} => Owner(c) = Nobody
      /\ \A c : Called("qa") = {} => Tester(c) = Nobody
  BY DEF Owner, Tester, EngineerKey, QaKey
<1>5. /\ Called("assignee") # {} => EngineerKey \in ColumnKeys /\ InferEngineer = EngineerKey
      /\ Called("qa") # {} => QaKey \in ColumnKeys /\ QaKey # InferEngineer
  BY <1>2, ColumnFacts
<1>6. OwnerAndStatusAgree
  BY <1>2, <1>3, <1>4 DEF OwnerAndStatusAgree, Unwalked, Ended, CardsFit, MadeCard, TellsOwner
<1>7. ColumnsAreRight
  <2>1. ASSUME call.known, Named, call.request.kind # "update", ~touched, own.exists
        PROVE  /\ call.request.engineer # "tester" /\ call.request.given # "tester" => own.col[EngineerKey] # "tester"
               /\ own.col[QaKey] = "dev" => call.request.qa = "dev"
    <3>1. call.at # "rest"
      BY <1>3, <2>1 DEF AtFirst
    <3>2. MadeCard(call, own) /\ CallMeans(call)
      BY <1>3, <2>1, <3>1 DEF CardsFit
    <3>3. PICK f, keys, r : f = call.fields /\ keys = call.keys /\ r = call.request
      OBVIOUS
    <3>4. keys.engineer = EngineerKey /\ keys.qa = QaKey /\ r \in TaskRequest /\ r.kind \in {"create", "subtask"}
      BY <2>1, <3>2, <3>3 DEF CallMeans, TaskRequest
    <3>5. /\ own.col[EngineerKey] = Nobody \/ (EngineerKey \in DOMAIN f /\ own.col[EngineerKey] = f[EngineerKey])
          /\ own.col[QaKey] = Nobody \/ (QaKey \in DOMAIN f /\ own.col[QaKey] = f[QaKey])
      BY <1>5, <2>1, <3>2, <3>3 DEF MadeCard, Named
    <3>6. Nobody # "dev" /\ Nobody # "tester"
      BY DEF Nobody
    <3>7. CASE r.kind = "create"
      <4>1. CreatesRight(f, r, keys)
        BY <3>2, <3>3, <3>7 DEF CallMeans, CreateMeans
      <4> QED
        BY <2>1, <3>3, <3>4, <3>5, <3>6, <4>1 DEF CreatesRight
    <3>8. CASE r.kind = "subtask"
      <4>1. SubtasksRight(f, r, keys)
        BY <3>2, <3>3, <3>8 DEF CallMeans
      <4> QED
        BY <2>1, <3>3, <3>4, <3>5, <3>6, <4>1 DEF SubtasksRight
    <3> QED
      BY <3>4, <3>7, <3>8
  <2> QED
    BY <1>1, <1>2, <1>4, <2>1 DEF ColumnsAreRight, Named
<1>8. IneligibleNeverOwns
  <2>1. ASSUME Named, call.at = "rest" PROVE own.col[EngineerKey] # "tester" /\ other.col[EngineerKey] # "tester"
    BY <1>3, <1>5, <2>1 DEF AtFirst, AsFound, Named, Nobody
  <2>2. ASSUME Judged(call), call.at # "rest" PROVE own.col[EngineerKey] # "tester" /\ other.col[EngineerKey] # "tester"
    BY <1>3, <2>2 DEF CardsFit
  <2> QED
    BY <1>2, <1>4, <2>1, <2>2 DEF IneligibleNeverOwns, Judged, Named
<1>9. OtherCardsUntouched
  <2>1. ASSUME call.at # "rest", call.request.kind # "update", ~touched, ~call.missed
        PROVE  AsFound(other)
    BY <1>3, <2>1 DEF CardsFit
  <2>2. ASSUME AsFound(other) PROVE Owner("other") # "tester" /\ Tester("other") = Nobody
    BY <1>2, <1>4, <1>5, <2>2 DEF AsFound, Nobody
  <2> QED
    BY <2>1, <2>2 DEF OtherCardsUntouched
<1>10. ChangeIsMade
  <2>1. ASSUME call.at = "done", call.request.kind = "update", ~touched, call.faults = 0
        PROVE  /\ \A k \in DOMAIN call.fields \cap ColumnKeys : other.col[k] = call.fields[k]
               /\ \A k \in DOMAIN UpdateFields(call.request, call.keys) \cap ColumnKeys :
                    other.col[k] = UpdateFields(call.request, call.keys)[k]
               /\ other.status = "assigned" => call.seen.status # "progress" /\ call.request.status \in {"", "assigned"}
    <3>1. PICK wanted : wanted = Wanted(call.request, call.keys, pickable)
      OBVIOUS
    <3>2. UpdateFields(call.request, call.keys) = wanted
      BY <3>1 DEF UpdateFields, Wanted
    <3>3. DOMAIN call.fields \in SUBSET DOMAIN wanted /\ \A k \in DOMAIN call.fields : call.fields[k] = wanted[k]
      BY <1>3, <2>1, <3>1 DEF CallMeans, UpdateMeans
    <3>4. /\ \A k \in DOMAIN wanted \cap ColumnKeys : other.col[k] = wanted[k]
          /\ call.seen.status # "progress"
          /\ other.status = "assigned" => call.request.status \in {"", "assigned"}
      BY <1>3, <2>1, <3>1 DEF CardsFit, ChangedCard
    <3> QED
      BY <3>2, <3>3, <3>4
  <2> QED
    BY <1>1, <2>1 DEF ChangeIsMade, Ended
<1> QED
  BY <1>6, <1>7, <1>8, <1>9, <1>10 DEF TasksAreTrue

LEMMA FollowIs ==
  ASSUME NEW r, NEW present, NEW f, r \in TaskRequest, present \in BOOLEAN, taskRegime \in TaskRegimes,
         f = Follow(r, present)
  PROVE  /\ f.status \in TaskStatuses /\ f.note \in BOOLEAN
         /\ r.status = "" =>
              /\ taskRegime.statuses => f.note /\ f.status = IF present THEN "assigned" ELSE "needs"
              /\ ~taskRegime.statuses => f.status = ""
BY TaskAssumption DEF Follow, TaskRequest, TaskStatuses

LEMMA BeginTaskKeeps == ASSUME TaskInv, BeginTask PROVE TaskInv'
<1>1. PICK r \in Requests, known \in BOOLEAN, late \in BOOLEAN :
        call' = Prepare(r, known, late) /\ (r.kind = "update" \/ ~r.diff)
  BY DEF BeginTask, TaskGoes
<1>2. r \in TaskRequest /\ taskRegime \in TaskRegimes /\ pickable \in {"tester", Nobody}
  BY TaskAssumption DEF TaskRequest, TaskInv
<1>3. PICK keys : keys = IF r.kind = "update" THEN UpdateKeys(known, late) ELSE CreateKeys(known, late)
  OBVIOUS
<1>4. PICK fields : fields = CASE r.kind = "create" -> CreateFields(r, keys)
                  [] r.kind = "subtask" -> SubtaskFields(r, keys)
                  [] OTHER -> UpdateFields(r, keys)
  OBVIOUS
<1>5. PICK present : present = IF r.kind = "create" THEN keys.engineer \in DOMAIN fields
                               ELSE r.engineer # Nobody /\ keys.engineer # ""
  OBVIOUS
<1>6. present \in BOOLEAN
  <2>1. CASE r.kind = "create"
    BY <1>5, <2>1
  <2>2. CASE r.kind # "create"
    BY <1>5, <2>2
  <2> QED
    BY <2>1, <2>2
<1>7. PICK follow : follow = IF r.kind = "update" THEN [status |-> r.status, note |-> FALSE] ELSE Follow(r, present)
  OBVIOUS
<1>8. PICK at : at = IF r.kind # "update" THEN "create" ELSE IF r.diff THEN "diff" ELSE "patch"
  OBVIOUS
<1>9. PICK c : c = Prepare(r, known, late)
  OBVIOUS
<1>10. c = [TaskResting EXCEPT !.at = at,
        !.request = r, !.known = known, !.keys = keys, !.fields = fields,
        !.status = follow.status, !.note = follow.note, !.present = present]
  BY <1>3, <1>4, <1>5, <1>7, <1>8, <1>9 DEF Prepare, AssigneePresent
<1>11. /\ DOMAIN c = CallFields /\ c.at = at /\ c.request = r /\ c.known = known /\ c.keys = keys /\ c.fields = fields
       /\ c.status = follow.status /\ c.note = follow.note /\ c.present = present
       /\ c.id = FALSE /\ c.faults = 0 /\ c.missed = FALSE /\ c.seen.status = ""
  BY <1>10 DEF TaskResting, CallFields, Blank
<1>12. PICK own, other : own = card.own /\ other = card.other
  OBVIOUS
<1>13. own \in TaskCards /\ other \in TaskCards /\ AtFirst(own, other) /\ card = [own |-> own, other |-> other]
  BY <1>12 DEF TaskInv, TaskHolds, BeginTask
<1>14. /\ Called("assignee") # {} => EngineerKey \in ColumnKeys /\ InferEngineer = EngineerKey
       /\ Called("qa") # {} => QaKey \in ColumnKeys /\ QaKey # InferEngineer
  BY <1>2, ColumnFacts
<1>15. /\ at \in IF r.kind = "update" THEN {"diff", "patch"} ELSE {"create"}
       /\ follow.status \in TaskStatuses /\ follow.note \in BOOLEAN
  <2>1. CASE r.kind = "update"
    BY <1>2, <1>7, <1>8, <2>1 DEF TaskRequest
  <2>2. CASE r.kind # "update"
    <3>1. PICK f : f = Follow(r, present)
      OBVIOUS
    <3>2. f.status \in TaskStatuses /\ f.note \in BOOLEAN
      BY <1>2, <1>6, <3>1, FollowIs
    <3>3. follow = f /\ at = "create"
      BY <1>1, <1>7, <1>8, <2>2, <3>1
    <3> QED
      BY <2>2, <3>2, <3>3
  <2> QED
    BY <2>1, <2>2
<1>16. CardsFit(c, own, other, FALSE)
  <2>1. Judged(c) => own.col[EngineerKey] # "tester" /\ other.col[EngineerKey] # "tester"
    BY <1>13, <1>14 DEF Judged, Named, AtFirst, AsFound, Nobody
  <2>2. ~own.exists /\ AsFound(other)
    BY <1>13 DEF AtFirst
  <2>3. ASSUME r.kind = "update" PROVE ChangedCard(c, other)
    <3>1. fields = Wanted(r, keys, pickable)
      BY <1>4, <2>3 DEF UpdateFields, Wanted
    <3> QED
      BY <1>11, <1>13, <1>15, <2>3, <3>1 DEF ChangedCard, AtFirst
  <2> QED
    BY <1>11, <2>1, <2>2, <2>3 DEF CardsFit
<1>17. ASSUME known, r.kind # "update"
       PROVE  /\ Called("assignee") # {} => keys.engineer = EngineerKey
              /\ Called("qa") # {} => keys.qa = QaKey
  <2>1. keys = CreateKeys(TRUE, late)
    BY <1>3, <1>17
  <2> QED
    BY <1>2, <2>1, CreateKeysAre
<1>18. ASSUME known, r.kind = "update", Named, ConfiguredRight
       PROVE  keys.engineer = EngineerKey /\ keys.qa = QaKey
  <2>1. keys = UpdateKeys(TRUE, late)
    BY <1>3, <1>18
  <2> QED
    BY <1>2, <1>18, <2>1, UpdateKeysAre
<1>19. CallMeans(c)
  <2>1. CASE r.kind = "create"
    <3>1. CreatesRight(fields, r, keys)
      BY <1>2, <1>4, <2>1, CreateFieldsFit
    <3>2. /\ r.status = "" =>
              /\ taskRegime.statuses => follow.note /\ follow.status = IF present THEN "assigned" ELSE "needs"
              /\ ~taskRegime.statuses => follow.status = ""
      BY <1>2, <1>6, <1>7, <2>1, FollowIs
    <3>3. CreateMeans(c)
      BY <1>5, <1>11, <1>17, <2>1, <3>1, <3>2 DEF CreateMeans
    <3>4. Judged(c) /\ EngineerKey \in DOMAIN fields => fields[EngineerKey] # "tester"
      BY <1>11, <1>17, <2>1, <3>1 DEF Judged, CreatesRight, Named
    <3> QED
      BY <1>2, <1>6, <1>11, <1>15, <1>17, <2>1, <3>1, <3>3, <3>4 DEF CallMeans, CreatesRight, Named
  <2>2. CASE r.kind = "subtask"
    <3>1. SubtasksRight(fields, r, keys)
      BY <1>2, <1>4, <2>2, SubtaskFieldsFit
    <3> QED
      BY <1>2, <1>6, <1>11, <1>15, <1>17, <2>2, <3>1 DEF CallMeans, SubtasksRight, Named, Judged
  <2>3. CASE r.kind = "update"
    <3>1. UpdatesRight(fields, keys)
      BY <1>2, <1>4, <2>3, UpdateFieldsFit
    <3>2. fields = Wanted(r, keys, pickable)
      BY <1>4, <2>3 DEF UpdateFields, Wanted
    <3>3. follow.status = r.status
      BY <1>7, <2>3
    <3>4. UpdateMeans(c)
      BY <1>11, <3>2, <3>3 DEF UpdateMeans
    <3>5. Judged(c) /\ EngineerKey \in DOMAIN fields => fields[EngineerKey] # "tester"
      BY <1>11, <1>18, <2>3, <3>1 DEF Judged, UpdatesRight
    <3> QED
      BY <1>2, <1>6, <1>11, <1>15, <2>3, <3>1, <3>4, <3>5 DEF CallMeans, UpdatesRight
  <2> QED
    BY <1>2, <2>1, <2>2, <2>3 DEF TaskRequest
<1>20. TaskHolds(c, own, other, FALSE)
  BY <1>11, <1>13, <1>15, <1>16, <1>19 DEF TaskHolds
<1>21. call' = c /\ card' = [own |-> own, other |-> other] /\ touched' = FALSE /\ UNCHANGED <<taskRegime, pickable>>
  BY <1>1, <1>9, <1>13 DEF BeginTask
<1> QED
  BY <1>20, <1>21, TaskGoesOn

(* A call that only gets on still means the same. *)
LEMMA StillMeant ==
  ASSUME NEW c, NEW d, CallMeans(c), DOMAIN d = CallFields, d.id \in BOOLEAN, d.missed \in BOOLEAN,
         d.request = c.request, d.known = c.known, d.keys = c.keys, d.fields = c.fields, d.status = c.status,
         d.note = c.note, d.present = c.present,
         d.at \in IF c.request.kind = "update" THEN {"diff", "patch", "bump", "raise", "done"}
                  ELSE {"create", "again", "verify", "back", "done"}
  PROVE  CallMeans(d)
BY DEF CallMeans, CreateMeans, UpdateMeans, Judged

LEMMA TaskNow ==
  ASSUME TaskInv, call.at # "rest", NEW own, NEW other, own = card.own, other = card.other
  PROVE  /\ card = [own |-> own, other |-> other] /\ own \in TaskCards /\ other \in TaskCards /\ touched \in BOOLEAN
         /\ CallMeans(call) /\ CardsFit(call, own, other, touched) /\ taskRegime \in TaskRegimes
         /\ DOMAIN call = CallFields /\ FieldsFit(call.fields) /\ call.status \in TaskStatuses
         /\ call.id \in BOOLEAN /\ call.missed \in BOOLEAN
BY DEF TaskInv, TaskHolds, CallMeans

(* What lands of a write is what the call wrote, and the rest is as before. *)
Lands(n, o, which) ==
  /\ n \in TaskCards /\ n.exists = o.exists
  /\ n.status = o.status \/ (n.status = call.status /\ n.status # "")
  /\ \A k \in ColumnKeys \cap which \cap DOMAIN call.fields : n.col[k] = call.fields[k]
  /\ \A k \in ColumnKeys \ (which \cap DOMAIN call.fields) : n.col[k] = o.col[k]
LEMMA LandingIs ==
  ASSUME NEW n, NEW o, NEW which, o \in TaskCards, FieldsFit(call.fields), call.status \in TaskStatuses,
         n = Landing(o, which)
  PROVE  Lands(n, o, which)
<1>1. PICK f, s : f = call.fields /\ s = call.status
  OBVIOUS
<1>2. PICK col : col = [k \in ColumnKeys |-> IF k \in which \cap DOMAIN f THEN f[k] ELSE o.col[k]]
  OBVIOUS
<1>3. PICK status : status = IF "status" \in which /\ s # "" THEN s ELSE o.status
  OBVIOUS
<1>4. n = [o EXCEPT !.col = col, !.status = status]
  BY <1>1, <1>2, <1>3 DEF Landing
<1>5. col \in [ColumnKeys -> Anyone]
  BY <1>1, <1>2 DEF TaskCards, FieldsFit
<1>6. status \in TaskStatuses /\ (status = o.status \/ (status = s /\ status # ""))
  BY <1>1, <1>3 DEF TaskCards
<1>7. n \in TaskCards /\ n.exists = o.exists /\ n.col = col /\ n.status = status
  BY <1>4, <1>5, <1>6 DEF TaskCards
<1> QED
  BY <1>1, <1>2, <1>6, <1>7 DEF Lands

(* The developer's column, once a write has landed there or not. *)
LEMMA LandsNoTester ==
  ASSUME NEW n, NEW o, NEW which, CallMeans(call), taskRegime \in TaskRegimes, Lands(n, o, which),
         Judged(call), o.col[EngineerKey] # "tester"
  PROVE  n.col[EngineerKey] # "tester"
<1>1. EngineerKey \in ColumnKeys
  BY ColumnFacts DEF Judged, Named
<1>2. PICK key, f : key = EngineerKey /\ f = call.fields
  OBVIOUS
<1>3. key \in DOMAIN f => f[key] # "tester"
  BY <1>2 DEF CallMeans
<1>4. (key \in which \cap DOMAIN f => n.col[key] = f[key]) /\ (key \notin which \cap DOMAIN f => n.col[key] = o.col[key])
  BY <1>1, <1>2 DEF Lands
<1> QED
  BY <1>2, <1>3, <1>4

LEMMA CreateCardKeeps == ASSUME TaskInv, CreateCard PROVE TaskInv'
<1>1. PICK own, other, t : own = card.own /\ other = card.other /\ t = touched
  OBVIOUS
<1>2. /\ card = [own |-> own, other |-> other] /\ own \in TaskCards /\ other \in TaskCards /\ t \in BOOLEAN
      /\ CallMeans(call) /\ CardsFit(call, own, other, t) /\ taskRegime \in TaskRegimes
      /\ DOMAIN call = CallFields /\ FieldsFit(call.fields) /\ call.status \in TaskStatuses
      /\ call.id \in BOOLEAN /\ call.missed \in BOOLEAN
  BY <1>1, TaskNow DEF CreateCard
<1>3. /\ call.at = "create" /\ call.request.kind # "update" /\ ~own.exists /\ ~call.missed
      /\ ~t /\ ~call.missed => AsFound(other)
      /\ Judged(call) => own.col[EngineerKey] # "tester" /\ other.col[EngineerKey] # "tester"
  BY <1>2 DEF CreateCard, CallMeans, CardsFit
<1>4. UNCHANGED <<taskRegime, pickable>> /\ touched' = t
  BY <1>1 DEF CreateCard
<1>5. PICK d : d = [call EXCEPT !.at = "done", !.told = "error"]
  OBVIOUS
<1>7. /\ d.at = "done" /\ d.request = call.request /\ d.known = call.known /\ d.keys = call.keys /\ d.fields = call.fields
      /\ d.status = call.status /\ d.note = call.note /\ d.present = call.present /\ d.id = call.id
      /\ d.missed = call.missed /\ d.told = "error" /\ DOMAIN d = CallFields /\ d = CallFails(call)
  BY <1>2, <1>5 DEF CallFields, CallFails
<1>8. CallMeans(d)
  BY <1>2, <1>3, <1>7, StillMeant
<1>9. CASE TaskGoes(CallFails(call)) /\ UNCHANGED card
  <2>1. CardsFit(d, own, other, t)
    BY <1>3, <1>7 DEF CardsFit, Judged
  <2>2. TaskHolds(d, own, other, t)
    BY <1>2, <1>7, <1>8, <2>1 DEF TaskHolds
  <2>3. call' = d /\ card' = [own |-> own, other |-> other]
    BY <1>2, <1>7, <1>9 DEF TaskGoes
  <2> QED
    BY <1>4, <2>2, <2>3, TaskGoesOn
<1>10. ASSUME NEW which \in SUBSET Parts, TaskGoes(CallFails(call)),
              card' = [card EXCEPT !.own = Landing([Blank EXCEPT !.exists = TRUE], which)]
       PROVE  TaskInv'
  <2>1. PICK blank, made : blank = [Blank EXCEPT !.exists = TRUE] /\ made = Landing(blank, which)
    OBVIOUS
  <2>2. /\ blank \in TaskCards /\ blank.status = "" /\ \A k \in ColumnKeys : blank.col[k] = Nobody
    BY <2>1 DEF Blank, TaskCards, TaskStatuses, Anyone
  <2>3. Lands(made, blank, which)
    BY <1>2, <2>1, <2>2, LandingIs
  <2>4. Judged(call) => made.col[EngineerKey] # "tester"
    <3>1. Judged(call) => EngineerKey \in ColumnKeys
      BY <1>2, ColumnFacts DEF Judged, Named
    <3> QED
      BY <1>2, <2>2, <2>3, <3>1, LandsNoTester DEF Nobody
  <2>5. MadeCard(d, made)
    BY <1>7, <2>2, <2>3 DEF MadeCard, TellsOwner, Lands
  <2>6. CardsFit(d, made, other, t)
    BY <1>3, <1>7, <2>4, <2>5 DEF CardsFit, Judged
  <2>7. made \in TaskCards
    BY <2>3 DEF Lands
  <2>8. TaskHolds(d, made, other, t)
    BY <1>2, <1>7, <1>8, <2>6, <2>7 DEF TaskHolds
  <2>9. call' = d /\ card' = [own |-> made, other |-> other]
    BY <1>2, <1>7, <1>10, <2>1 DEF TaskGoes
  <2> QED
    BY <1>4, <2>8, <2>9, TaskGoesOn
<1>6. ASSUME NEW which \in SUBSET Parts, NEW ok \in BOOLEAN, NEW id \in BOOLEAN,
             card' = [card EXCEPT !.own = Landing([Blank EXCEPT !.exists = TRUE], which)],
             TaskGoes([call EXCEPT !.id = id, !.faults = IF Faultless(which, ok) THEN 0 ELSE 1,
                     !.at = IF call.request.kind = "subtask" THEN "done"
                            ELSE IF ok \/ Parts = {} THEN "verify" ELSE "again"])
      PROVE  TaskInv'
  <2>1. PICK blank, made : blank = [Blank EXCEPT !.exists = TRUE] /\ made = Landing(blank, which)
    OBVIOUS
  <2>2. /\ blank \in TaskCards /\ blank.status = "" /\ \A k \in ColumnKeys : blank.col[k] = Nobody
    BY <2>1 DEF Blank, TaskCards, TaskStatuses, Anyone
  <2>3. Lands(made, blank, which)
    BY <1>2, <2>1, <2>2, LandingIs
  <2>4. PICK at, faults : /\ at = IF call.request.kind = "subtask" THEN "done" ELSE IF ok \/ Parts = {} THEN "verify" ELSE "again"
                          /\ faults = IF Faultless(which, ok) THEN 0 ELSE 1
    OBVIOUS
  <2>5. PICK e : e = [call EXCEPT !.id = id, !.faults = faults, !.at = at]
    OBVIOUS
  <2>6. /\ e.at = at /\ e.request = call.request /\ e.known = call.known /\ e.keys = call.keys /\ e.fields = call.fields
        /\ e.status = call.status /\ e.note = call.note /\ e.present = call.present /\ e.id = id
        /\ e.missed = call.missed /\ DOMAIN e = CallFields
    BY <1>2, <2>5 DEF CallFields
  <2>7. at \in {"done", "verify", "again"} /\ (at = "done" => call.request.kind = "subtask")
    BY <2>4
  <2>8. CallMeans(e)
    BY <1>2, <1>3, <2>6, <2>7, StillMeant
  <2>9. Judged(call) => made.col[EngineerKey] # "tester"
    <3>1. Judged(call) => EngineerKey \in ColumnKeys
      BY <1>2, ColumnFacts DEF Judged, Named
    <3> QED
      BY <1>2, <2>2, <2>3, <3>1, LandsNoTester DEF Nobody
  <2>10. MadeCard(e, made)
    BY <2>2, <2>3, <2>6, <2>7 DEF MadeCard, TellsOwner, Lands
  <2>11. CardsFit(e, made, other, t)
    BY <1>3, <2>6, <2>7, <2>9, <2>10 DEF CardsFit, Judged
  <2>12. made \in TaskCards
    BY <2>3 DEF Lands
  <2>13. TaskHolds(e, made, other, t)
    BY <1>2, <2>6, <2>7, <2>8, <2>11, <2>12 DEF TaskHolds
  <2>14. call' = e /\ card' = [own |-> made, other |-> other]
    BY <1>2, <1>6, <2>1, <2>4, <2>5 DEF TaskGoes
  <2> QED
    BY <1>4, <2>13, <2>14, TaskGoesOn
<1> QED
  BY <1>6, <1>9, <1>10 DEF CreateCard

LEMMA PatchAgainKeeps == ASSUME TaskInv, PatchAgain PROVE TaskInv'
<1>1. PICK own, other, t : own = card.own /\ other = card.other /\ t = touched
  OBVIOUS
<1>2. /\ card = [own |-> own, other |-> other] /\ own \in TaskCards /\ other \in TaskCards /\ t \in BOOLEAN
      /\ CallMeans(call) /\ CardsFit(call, own, other, t) /\ taskRegime \in TaskRegimes
      /\ DOMAIN call = CallFields /\ FieldsFit(call.fields) /\ call.status \in TaskStatuses
      /\ call.id \in BOOLEAN /\ call.missed \in BOOLEAN
  BY <1>1, TaskNow DEF PatchAgain
<1>3. /\ call.at = "again" /\ call.request.kind # "update"
      /\ ~t => (~call.missed => AsFound(other)) /\ (own.exists => MadeCard(call, own))
      /\ Judged(call) => own.col[EngineerKey] # "tester" /\ other.col[EngineerKey] # "tester"
  BY <1>2 DEF PatchAgain, CallMeans, CardsFit
<1>4. UNCHANGED <<taskRegime, pickable>> /\ touched' = t
  BY <1>1 DEF PatchAgain
<1>5. ASSUME NEW which \in SUBSET Parts, NEW ok \in BOOLEAN, NEW listed \in BOOLEAN, call.id => listed,
             card' = [card EXCEPT ![IF call.id THEN "own" ELSE ListedAs(listed)] =
                        Landing(card[IF call.id THEN "own" ELSE ListedAs(listed)], which)],
             TaskGoes([call EXCEPT !.at = "verify", !.missed = ~listed])
      PROVE  TaskInv'
  <2>6. PICK d : d = [call EXCEPT !.at = "verify", !.missed = ~listed]
    OBVIOUS
  <2>7. /\ d.at = "verify" /\ d.request = call.request /\ d.known = call.known /\ d.keys = call.keys /\ d.fields = call.fields
        /\ d.status = call.status /\ d.note = call.note /\ d.present = call.present /\ d.id = call.id
        /\ d.missed = ~listed /\ DOMAIN d = CallFields
    BY <1>2, <2>6 DEF CallFields
  <2>8. CallMeans(d)
    BY <1>2, <1>3, <2>7, StillMeant
  <2>9. call' = d
    BY <1>5, <2>6 DEF TaskGoes
  <2>10. CASE listed
    <3>1. PICK new : new = Landing(own, which)
      OBVIOUS
    <3>2. card' = [own |-> new, other |-> other]
      BY <1>1, <1>2, <1>5, <2>10, <3>1 DEF ListedAs
    <3>3. Lands(new, own, which) /\ new \in TaskCards /\ new.exists = own.exists
      <4>1. Lands(new, own, which)
        BY <1>2, <3>1, LandingIs
      <4> QED
        BY <4>1 DEF Lands
    <3>4. Judged(call) => new.col[EngineerKey] # "tester"
      BY <1>2, <1>3, <3>3, LandsNoTester
    <3>5. ASSUME MadeCard(call, own) PROVE MadeCard(d, new)
      <4>1. \A k \in ColumnKeys : new.col[k] = Nobody \/ (k \in DOMAIN call.fields /\ new.col[k] = call.fields[k])
        BY <3>3, <3>5 DEF MadeCard, Lands
      <4>2. new.status \in {"", call.status}
        BY <1>3, <3>3, <3>5 DEF MadeCard, Lands
      <4> QED
        BY <2>7, <4>1, <4>2 DEF MadeCard, TellsOwner
    <3>6. ~t /\ ~d.missed => AsFound(other)
      <4>1. ~call.missed
        BY <1>2, <1>3 DEF CardsFit
      <4> QED
        BY <1>3, <4>1
    <3>7. CardsFit(d, new, other, t)
      BY <1>3, <2>7, <3>3, <3>4, <3>5, <3>6 DEF CardsFit, Judged
    <3>8. TaskHolds(d, new, other, t)
      BY <1>2, <2>7, <2>8, <3>3, <3>7 DEF TaskHolds
    <3> QED
      BY <1>4, <2>9, <3>2, <3>8, TaskGoesOn
  <2>11. CASE ~listed
    <3>1. PICK new : new = Landing(other, which)
      OBVIOUS
    <3>2. card' = [own |-> own, other |-> new]
      BY <1>1, <1>2, <1>5, <2>11, <3>1 DEF ListedAs
    <3>3. Lands(new, other, which) /\ new \in TaskCards
      <4>1. Lands(new, other, which)
        BY <1>2, <3>1, LandingIs
      <4> QED
        BY <4>1 DEF Lands
    <3>4. Judged(call) => new.col[EngineerKey] # "tester"
      BY <1>2, <1>3, <3>3, LandsNoTester
    <3>5. ASSUME MadeCard(call, own) PROVE MadeCard(d, own)
      BY <1>3, <2>7, <3>5 DEF MadeCard, TellsOwner
    <3>6. CardsFit(d, own, new, t)
      BY <1>3, <2>7, <2>11, <3>4, <3>5 DEF CardsFit, Judged
    <3>7. TaskHolds(d, own, new, t)
      BY <1>2, <2>7, <2>8, <3>3, <3>6 DEF TaskHolds
    <3> QED
      BY <1>4, <2>9, <3>2, <3>7, TaskGoesOn
  <2> QED
    BY <2>10, <2>11
<1>6. ASSUME NEW d, CallMeans(d), d.request = call.request, d.known = call.known, d.fields = call.fields, d.status = call.status,
             d.missed = call.missed, d.at = "verify" \/ (d.at = "done" /\ d.told = "error"), TaskGoes(d), UNCHANGED card
      PROVE  TaskInv'
  <2>1. MadeCard(call, own) => MadeCard(d, own)
    BY <1>3, <1>6 DEF MadeCard, TellsOwner
  <2>2. ~t => (~d.missed => AsFound(other)) /\ (own.exists => MadeCard(d, own))
    BY <1>3, <1>6, <2>1
  <2>3. CardsFit(d, own, other, t)
    BY <1>3, <1>6, <2>2 DEF CardsFit, Judged
  <2>4. TaskHolds(d, own, other, t)
    BY <1>2, <1>6, <2>3 DEF TaskHolds
  <2>5. call' = d /\ card' = [own |-> own, other |-> other]
    BY <1>2, <1>6 DEF TaskGoes
  <2> QED
    BY <1>4, <2>4, <2>5, TaskGoesOn
<1>7. CASE TaskGoes([call EXCEPT !.at = "verify"]) /\ UNCHANGED card
  <2>1. PICK d : d = [call EXCEPT !.at = "verify"]
    OBVIOUS
  <2>2. /\ d.at = "verify" /\ d.request = call.request /\ d.known = call.known /\ d.keys = call.keys /\ d.fields = call.fields
        /\ d.status = call.status /\ d.note = call.note /\ d.present = call.present /\ d.id = call.id
        /\ d.missed = call.missed /\ DOMAIN d = CallFields
    BY <1>2, <2>1 DEF CallFields
  <2>3. CallMeans(d)
    BY <1>2, <1>3, <2>2, StillMeant
  <2> QED
    BY <1>6, <1>7, <2>1, <2>2, <2>3
<1>8. CASE TaskGoes(CallFails(call)) /\ UNCHANGED card
  <2>1. PICK d : d = [call EXCEPT !.at = "done", !.told = "error"]
    OBVIOUS
  <2>2. /\ d.at = "done" /\ d.request = call.request /\ d.known = call.known /\ d.keys = call.keys /\ d.fields = call.fields
        /\ d.status = call.status /\ d.note = call.note /\ d.present = call.present /\ d.id = call.id
        /\ d.missed = call.missed /\ d.told = "error" /\ DOMAIN d = CallFields /\ d = CallFails(call)
    BY <1>2, <2>1 DEF CallFields, CallFails
  <2>3. CallMeans(d)
    BY <1>2, <1>3, <2>2, StillMeant
  <2> QED
    BY <1>6, <1>8, <2>2, <2>3
<1> QED
  BY <1>5, <1>7, <1>8 DEF PatchAgain

LEMMA VerifyKeeps == ASSUME TaskInv, Verify PROVE TaskInv'
<1>1. PICK own, other, t : own = card.own /\ other = card.other /\ t = touched
  OBVIOUS
<1>2. /\ card = [own |-> own, other |-> other] /\ own \in TaskCards /\ other \in TaskCards /\ t \in BOOLEAN
      /\ CallMeans(call) /\ CardsFit(call, own, other, t) /\ taskRegime \in TaskRegimes
      /\ DOMAIN call = CallFields /\ FieldsFit(call.fields) /\ call.status \in TaskStatuses
      /\ call.id \in BOOLEAN /\ call.missed \in BOOLEAN
  BY <1>1, TaskNow DEF Verify
<1>3. /\ call.at = "verify" /\ call.request.kind # "update"
      /\ ~t => (~call.missed => AsFound(other)) /\ (own.exists => MadeCard(call, own))
      /\ Judged(call) => own.col[EngineerKey] # "tester" /\ other.col[EngineerKey] # "tester"
      /\ call.present \in BOOLEAN /\ call.note \in BOOLEAN
  BY <1>2 DEF Verify, CallMeans, CardsFit
<1>4. UNCHANGED <<taskRegime, pickable>> /\ touched' = t /\ card' = [own |-> own, other |-> other]
  BY <1>1, <1>2 DEF Verify
<1>5. PICK key : key = call.keys.engineer
  OBVIOUS
<1>6. PICK owner : owner = IF key \in ColumnKeys THEN own.col[key] ELSE Nobody
  OBVIOUS
<1>7. \/ ~(call.present /\ call.note /\ call.id) /\ TaskGoes(Done(call))
      \/ /\ call.present /\ call.note /\ call.id /\ owner = Nobody
         /\ TaskGoes([call EXCEPT !.at = "back"])
      \/ call.present /\ call.note /\ call.id /\ owner # Nobody /\ TaskGoes(Done(call))
      \/ TaskGoes([Done(call) EXCEPT !.told = "unverified"])
  <2>1. CASE ~(call.present /\ call.note /\ call.id)
    BY <2>1 DEF Verify
  <2>2. CASE call.present /\ call.note /\ call.id
    <3>1. PICK read \in BOOLEAN : TaskGoes(IF FoundEmpty(read, owner) THEN [call EXCEPT !.at = "back"]
                                          ELSE IF read THEN Done(call) ELSE [Done(call) EXCEPT !.told = "unverified"])
      BY <1>1, <1>5, <1>6, <2>2 DEF Verify
    <3>2. CASE FoundEmpty(read, owner)
      BY <2>2, <3>1, <3>2 DEF FoundEmpty
    <3>3. CASE ~FoundEmpty(read, owner) /\ read
      BY <2>2, <3>1, <3>3 DEF FoundEmpty
    <3>4. CASE ~read
      BY <3>1, <3>4 DEF FoundEmpty
    <3> QED
      BY <3>2, <3>3, <3>4
  <2> QED
    BY <2>1, <2>2
<1>8. ASSUME call.request.kind = "create", own.exists, call.known, call.request.status = "", Called("assignee") # {},
             MadeCard(call, own)
      PROVE  /\ key = EngineerKey /\ key \in ColumnKeys /\ own.status \in {"", call.status}
             /\ ~call.present => own.col[key] = Nobody
             /\ taskRegime.statuses => call.note /\ call.status = IF call.present THEN "assigned" ELSE "needs"
             /\ ~taskRegime.statuses => call.status = ""
  <2>1. CreateMeans(call)
    BY <1>2, <1>8 DEF CallMeans
  <2>2. EngineerKey \in ColumnKeys
    BY <1>2, <1>8, ColumnFacts
  <2>3. key = EngineerKey /\ (call.present <=> key \in DOMAIN call.fields)
    BY <1>5, <1>8, <2>1 DEF CreateMeans
  <2>4. /\ taskRegime.statuses => call.note /\ call.status = IF call.present THEN "assigned" ELSE "needs"
        /\ ~taskRegime.statuses => call.status = ""
    BY <1>8, <2>1 DEF CreateMeans
  <2>5. own.status \in {"", call.status} /\ (own.col[key] = Nobody \/ key \in DOMAIN call.fields)
    BY <1>3, <1>8, <2>2, <2>3 DEF MadeCard
  <2> QED
    BY <2>2, <2>3, <2>4, <2>5
<1>9. ASSUME NEW told, TaskGoes([Done(call) EXCEPT !.told = told]),
             \/ told = "unverified" \/ ~(call.present /\ call.note /\ call.id) \/ owner # Nobody
      PROVE  TaskInv'
  <2>1. PICK d : d = [call EXCEPT !.at = "done", !.told = told]
    OBVIOUS
  <2>2. /\ d.at = "done" /\ d.request = call.request /\ d.known = call.known /\ d.keys = call.keys /\ d.fields = call.fields
        /\ d.status = call.status /\ d.note = call.note /\ d.present = call.present /\ d.id = call.id
        /\ d.missed = call.missed /\ d.told = told /\ d.walk = call.walk /\ DOMAIN d = CallFields
    BY <1>2, <2>1 DEF CallFields
  <2>3. call' = d
    BY <1>2, <1>9, <2>1 DEF TaskGoes, Done, CallFields
  <2>4. CallMeans(d)
    BY <1>2, <1>3, <2>2, StillMeant
  <2>5. ASSUME MadeCard(call, own), own.exists PROVE TellsOwner(d, own)
    <3>1. ASSUME call.request.kind = "create", call.known, call.request.status = "", Called("assignee") # {}, told # "unverified"
          PROVE  /\ own.status = "assigned" => own.col[EngineerKey] # Nobody \/ ~call.id
                 /\ own.status = "needs" => own.col[EngineerKey] = Nobody
      <4>1. /\ key = EngineerKey /\ key \in ColumnKeys /\ own.status \in {"", call.status}
            /\ ~call.present => own.col[key] = Nobody
            /\ taskRegime.statuses => call.note /\ call.status = IF call.present THEN "assigned" ELSE "needs"
            /\ ~taskRegime.statuses => call.status = ""
        BY <1>8, <2>5, <3>1
      <4>2. taskRegime.statuses \in BOOLEAN
        BY <1>2, TaskAssumption
      <4>3. CASE ~taskRegime.statuses
        BY <4>1, <4>3
      <4>4. CASE taskRegime.statuses /\ ~call.present
        BY <4>1, <4>4
      <4>5. CASE taskRegime.statuses /\ call.present /\ ~call.id
        BY <4>1, <4>5
      <4>6. CASE taskRegime.statuses /\ call.present /\ call.id
        <5>1. owner # Nobody /\ call.status = "assigned"
          BY <1>9, <3>1, <4>1, <4>6
        <5>2. owner = own.col[EngineerKey]
          BY <1>6, <4>1
        <5> QED
          BY <4>1, <5>1, <5>2
      <4> QED
        BY <1>2, <1>3, <4>2, <4>3, <4>4, <4>5, <4>6
    <3> QED
      BY <2>2, <3>1 DEF TellsOwner
  <2>6. ASSUME MadeCard(call, own), own.exists PROVE MadeCard(d, own)
    BY <2>2, <2>5, <2>6 DEF MadeCard
  <2>7. ~t /\ ~d.missed => AsFound(other)
    BY <1>2, <1>3, <1>9, <2>2
  <2>8. CardsFit(d, own, other, t)
    BY <1>3, <2>2, <2>6, <2>7 DEF CardsFit, Judged
  <2>9. TaskHolds(d, own, other, t)
    BY <1>2, <2>2, <2>4, <2>8 DEF TaskHolds
  <2> QED
    BY <1>4, <2>3, <2>9, TaskGoesOn
<1>10. ASSUME owner = Nobody, TaskGoes([call EXCEPT !.at = "back"]) PROVE TaskInv'
  <2>1. PICK d : d = [call EXCEPT !.at = "back"]
    OBVIOUS
  <2>2. /\ d.at = "back" /\ d.request = call.request /\ d.known = call.known /\ d.keys = call.keys /\ d.fields = call.fields
        /\ d.status = call.status /\ d.note = call.note /\ d.present = call.present /\ d.id = call.id
        /\ d.missed = call.missed /\ DOMAIN d = CallFields
    BY <1>2, <2>1 DEF CallFields
  <2>3. CallMeans(d)
    BY <1>2, <1>3, <2>2, StillMeant
  <2>4. ASSUME call.request.kind = "create", call.known, Called("assignee") # {} PROVE own.col[EngineerKey] = Nobody
    <3>1. EngineerKey \in ColumnKeys
      BY <1>2, <2>4, ColumnFacts
    <3>2. key = EngineerKey
      BY <1>2, <1>5, <2>4 DEF CallMeans, CreateMeans
    <3> QED
      BY <1>6, <1>10, <3>1, <3>2
  <2>5. ASSUME MadeCard(call, own) PROVE MadeCard(d, own)
    BY <1>3, <2>2, <2>4, <2>5 DEF MadeCard, TellsOwner
  <2>6. CardsFit(d, own, other, t)
    BY <1>3, <2>2, <2>5 DEF CardsFit, Judged
  <2>7. TaskHolds(d, own, other, t)
    BY <1>2, <2>2, <2>3, <2>6 DEF TaskHolds
  <2>8. call' = d
    BY <1>10, <2>1 DEF TaskGoes
  <2> QED
    BY <1>4, <2>7, <2>8, TaskGoesOn
<1>11. CASE TaskGoes(Done(call)) /\ (~(call.present /\ call.note /\ call.id) \/ owner # Nobody)
  <2>1. PICK told : told = call.told
    OBVIOUS
  <2>2. Done(call) = [Done(call) EXCEPT !.told = told]
    BY <1>2, <2>1 DEF Done, CallFields
  <2> QED
    BY <1>9, <1>11, <2>2
<1> QED
  BY <1>7, <1>9, <1>10, <1>11

LEMMA WalkBackKeeps == ASSUME TaskInv, WalkBack PROVE TaskInv'
<1>1. PICK own, other, t : own = card.own /\ other = card.other /\ t = touched
  OBVIOUS
<1>2. /\ card = [own |-> own, other |-> other] /\ own \in TaskCards /\ other \in TaskCards /\ t \in BOOLEAN
      /\ CallMeans(call) /\ CardsFit(call, own, other, t) /\ taskRegime \in TaskRegimes
      /\ DOMAIN call = CallFields /\ FieldsFit(call.fields) /\ call.status \in TaskStatuses
      /\ call.id \in BOOLEAN /\ call.missed \in BOOLEAN
  BY <1>1, TaskNow DEF WalkBack
<1>3. /\ call.at = "back" /\ call.request.kind # "update"
      /\ ~t => (~call.missed => AsFound(other)) /\ (own.exists => MadeCard(call, own))
      /\ Judged(call) => own.col[EngineerKey] # "tester" /\ other.col[EngineerKey] # "tester"
  BY <1>2 DEF WalkBack, CallMeans, CardsFit
<1>4. UNCHANGED <<taskRegime, pickable>> /\ touched' = t
  BY <1>1 DEF WalkBack
<1>5. ASSUME NEW how, NEW told, NEW new, new \in TaskCards, new.col = own.col, new.exists = own.exists,
             TaskGoes(WalkedBack(call, how, told)), card' = [own |-> new, other |-> other],
             \/ new.status = "needs"
             \/ new.status = own.status /\ (how \in {"refused", "no_label"} \/ told = "unverified")
      PROVE  TaskInv'
  <2>1. PICK d : d = [call EXCEPT !.at = "done", !.walk = how, !.told = told]
    OBVIOUS
  <2>2. /\ d.at = "done" /\ d.request = call.request /\ d.known = call.known /\ d.keys = call.keys /\ d.fields = call.fields
        /\ d.status = call.status /\ d.note = call.note /\ d.present = call.present /\ d.id = call.id
        /\ d.missed = call.missed /\ d.walk = how /\ d.told = told /\ DOMAIN d = CallFields
    BY <1>2, <2>1 DEF CallFields
  <2>3. CallMeans(d)
    BY <1>2, <1>3, <2>2, StillMeant
  <2>4. ASSUME MadeCard(call, own) PROVE TellsOwner(d, new)
    <3>1. call.request.kind = "create" /\ call.known /\ Called("assignee") # {} => own.col[EngineerKey] = Nobody
      BY <1>3, <2>4 DEF MadeCard
    <3> QED
      BY <1>5, <2>2, <3>1 DEF TellsOwner
  <2>5. ASSUME MadeCard(call, own) PROVE MadeCard(d, new)
    BY <1>5, <2>2, <2>4, <2>5 DEF MadeCard
  <2>6. CardsFit(d, new, other, t)
    BY <1>3, <1>5, <2>2, <2>5 DEF CardsFit, Judged
  <2>7. TaskHolds(d, new, other, t)
    BY <1>2, <1>5, <2>2, <2>3, <2>6 DEF TaskHolds
  <2>8. call' = d
    BY <1>5, <2>1 DEF TaskGoes, WalkedBack
  <2> QED
    BY <1>4, <1>5, <2>7, <2>8, TaskGoesOn
<1>6. CASE card' = [card EXCEPT !.own.status = "needs"] /\ TaskGoes(WalkedBack(call, "written", "set_back"))
  <2>1. PICK new : new = [own EXCEPT !.status = "needs"]
    OBVIOUS
  <2>2. new \in TaskCards /\ new.status = "needs" /\ new.col = own.col /\ new.exists = own.exists
    BY <1>2, <2>1 DEF TaskCards, TaskStatuses
  <2>3. card' = [own |-> new, other |-> other]
    BY <1>2, <1>6, <2>1
  <2> QED
    BY <1>5, <1>6, <2>2, <2>3
<1>7. CASE UNCHANGED card /\ ( \/ TaskGoes(WalkedBack(call, "refused", "set_back"))
                              \/ TaskGoes(WalkedBack(call, "raised", "unverified"))
                              \/ TaskGoes(WalkedBack(call, "no_label", "")))
  <2>1. card' = [own |-> own, other |-> other]
    BY <1>2, <1>7
  <2>2. CASE TaskGoes(WalkedBack(call, "refused", "set_back"))
    BY <1>2, <1>5, <2>1, <2>2
  <2>3. CASE TaskGoes(WalkedBack(call, "raised", "unverified"))
    BY <1>2, <1>5, <2>1, <2>3
  <2>4. PICK nothing : nothing = ""
    OBVIOUS
  <2>5. CASE TaskGoes(WalkedBack(call, "no_label", nothing))
    BY <1>2, <1>5, <2>1, <2>5
  <2> QED
    BY <1>7, <2>2, <2>3, <2>4, <2>5
<1> QED
  BY <1>6, <1>7 DEF WalkBack

LEMMA PatchCardKeeps == ASSUME TaskInv, PatchCard PROVE TaskInv'
<1>1. PICK own, other, t : own = card.own /\ other = card.other /\ t = touched
  OBVIOUS
<1>2. /\ card = [own |-> own, other |-> other] /\ own \in TaskCards /\ other \in TaskCards /\ t \in BOOLEAN
      /\ CallMeans(call) /\ CardsFit(call, own, other, t) /\ taskRegime \in TaskRegimes
      /\ DOMAIN call = CallFields /\ FieldsFit(call.fields) /\ call.status \in TaskStatuses
      /\ call.id \in BOOLEAN /\ call.missed \in BOOLEAN
  BY <1>1, TaskNow DEF PatchCard
<1>3. /\ call.at = "patch" /\ call.request.kind = "update" /\ UpdateMeans(call)
      /\ ~t => ChangedCard(call, other)
      /\ Judged(call) => own.col[EngineerKey] # "tester" /\ other.col[EngineerKey] # "tester"
  BY <1>2 DEF PatchCard, CallMeans, CardsFit
<1>4. UNCHANGED <<taskRegime, pickable>> /\ touched' = t
  BY <1>1 DEF PatchCard
<1>5. PICK which \in SUBSET Parts, ok \in BOOLEAN :
        /\ card' = [card EXCEPT !.other = Landing(card.other, which)]
        /\ TaskGoes([call EXCEPT !.faults = IF Faultless(which, ok) THEN 0 ELSE 1,
                  !.at = IF /\ call.request.status = "" /\ taskRegime.statuses
                            /\ Eligible(call.request.engineer) # Nobody
                              \/ (call.request.engineer # Nobody /\ call.keys.engineer = "")
                         THEN "bump" ELSE "done"])
  BY DEF PatchCard
<1>6. PICK at :
           at = IF /\ call.request.status = "" /\ taskRegime.statuses
                   /\ Eligible(call.request.engineer) # Nobody
                     \/ (call.request.engineer # Nobody /\ call.keys.engineer = "")
                THEN "bump" ELSE "done"
  OBVIOUS
<1>19. PICK faults : faults = IF Faultless(which, ok) THEN 0 ELSE 1
  OBVIOUS
<1>20. faults = 0 => Faultless(which, ok)
  BY <1>19
<1>7. at \in {"bump", "done"} /\ (at = "bump" => call.request.status = "")
  BY <1>6
<1>8. PICK d : d = [call EXCEPT !.faults = faults, !.at = at]
  OBVIOUS
<1>9. /\ d.at = at /\ d.request = call.request /\ d.known = call.known /\ d.keys = call.keys /\ d.fields = call.fields
      /\ d.status = call.status /\ d.note = call.note /\ d.present = call.present /\ d.id = call.id
      /\ d.missed = call.missed /\ d.faults = faults /\ d.seen = call.seen /\ DOMAIN d = CallFields
  BY <1>2, <1>8 DEF CallFields
<1>10. CallMeans(d)
  BY <1>2, <1>3, <1>7, <1>9, StillMeant
<1>11. PICK new : new = Landing(other, which)
  OBVIOUS
<1>12. call' = d /\ card' = [own |-> own, other |-> new]
  BY <1>1, <1>2, <1>5, <1>6, <1>8, <1>11, <1>19 DEF TaskGoes
<1>13. Lands(new, other, which)
  BY <1>2, <1>11, LandingIs
<1>14. new \in TaskCards
  BY <1>13 DEF Lands
<1>15. Judged(call) => new.col[EngineerKey] # "tester"
  BY <1>2, <1>3, <1>13, LandsNoTester
<1>16. ASSUME ~t PROVE ChangedCard(d, new)
  <2>1. PICK wanted, f : wanted = Wanted(call.request, call.keys, pickable) /\ f = call.fields
    OBVIOUS
  <2>2. /\ call.status \in {"", call.request.status}
        /\ DOMAIN f \in SUBSET DOMAIN wanted /\ \A k \in DOMAIN f : f[k] = wanted[k]
    BY <1>3, <2>1 DEF UpdateMeans
  <2>3. /\ call.seen.status # "progress" /\ other.status \in {"needs", "progress"}
        /\ \A k \in (DOMAIN wanted \cap ColumnKeys) \ DOMAIN f : other.col[k] = wanted[k]
    BY <1>3, <1>16, <2>1 DEF ChangedCard
  <2>4. new.status = "assigned" => call.request.status \in {"", "assigned"}
    BY <1>13, <2>2, <2>3 DEF Lands
  <2>5. ASSUME faults = 0, NEW k \in DOMAIN wanted \cap ColumnKeys PROVE new.col[k] = wanted[k]
    <3>1. which = Parts
      BY <1>20, <2>5 DEF Faultless
    <3>2. CASE k \in DOMAIN f
      <4>1. k \in which
        BY <2>1, <2>5, <3>1, <3>2 DEF Parts
      <4>2. new.col[k] = f[k]
        BY <1>13, <2>1, <2>5, <3>2, <4>1 DEF Lands
      <4> QED
        BY <2>2, <3>2, <4>2
    <3>3. CASE k \notin DOMAIN f
      <4>1. new.col[k] = other.col[k]
        BY <1>13, <2>1, <2>5, <3>3 DEF Lands
      <4> QED
        BY <2>3, <2>5, <3>3, <4>1
    <3> QED
      BY <3>2, <3>3
  <2> QED
    BY <1>7, <1>9, <2>1, <2>3, <2>4, <2>5 DEF ChangedCard
<1>17. CardsFit(d, own, new, t)
  BY <1>3, <1>7, <1>9, <1>15, <1>16 DEF CardsFit, Judged
<1>18. TaskHolds(d, own, new, t)
  BY <1>2, <1>7, <1>9, <1>10, <1>14, <1>17 DEF TaskHolds
<1> QED
  BY <1>4, <1>12, <1>18, TaskGoesOn

LEMMA ReadDiffKeeps == ASSUME TaskInv, ReadDiff PROVE TaskInv'
<1>1. PICK own, other, t : own = card.own /\ other = card.other /\ t = touched
  OBVIOUS
<1>2. /\ card = [own |-> own, other |-> other] /\ own \in TaskCards /\ other \in TaskCards /\ t \in BOOLEAN
      /\ CallMeans(call) /\ CardsFit(call, own, other, t) /\ taskRegime \in TaskRegimes
      /\ DOMAIN call = CallFields /\ FieldsFit(call.fields) /\ call.status \in TaskStatuses
      /\ call.id \in BOOLEAN /\ call.missed \in BOOLEAN
  BY <1>1, TaskNow DEF ReadDiff
<1>3. /\ call.at = "diff" /\ call.request.kind = "update" /\ UpdateMeans(call)
      /\ ~t => ChangedCard(call, other)
      /\ Judged(call) => own.col[EngineerKey] # "tester" /\ other.col[EngineerKey] # "tester"
  BY <1>2 DEF ReadDiff, CallMeans, CardsFit
<1>4. UNCHANGED <<taskRegime, pickable>> /\ touched' = t /\ card' = [own |-> own, other |-> other]
  BY <1>1, <1>2 DEF ReadDiff
<1>5. PICK f, s : f = call.fields /\ s = call.status
  OBVIOUS
<1>6. PICK wanted : wanted = Wanted(call.request, call.keys, pickable)
  OBVIOUS
<1>7. /\ s \in {"", call.request.status} /\ s \in TaskStatuses /\ FieldsFit(f)
      /\ DOMAIN f \in SUBSET DOMAIN wanted /\ \A k \in DOMAIN f : f[k] = wanted[k]
  BY <1>2, <1>3, <1>5, <1>6 DEF UpdateMeans
<1>8. ASSUME NEW left, left \in SUBSET DOMAIN f, NEW status, status \in {"", s},
             TaskGoes([call EXCEPT !.at = "patch", !.fields = [k \in left |-> f[k]], !.status = status]),
             ~t => \A k \in (DOMAIN f \cap ColumnKeys) \ left : other.col[k] = f[k]
      PROVE  TaskInv'
  <2>1. PICK g : g = [k \in left |-> f[k]]
    OBVIOUS
  <2>2. DOMAIN g = left /\ (\A k \in left : g[k] = f[k]) /\ FieldsFit(g)
    BY <1>7, <1>8, <2>1 DEF FieldsFit
  <2>3. PICK d : d = [call EXCEPT !.at = "patch", !.fields = g, !.status = status]
    OBVIOUS
  <2>4. /\ d.at = "patch" /\ d.request = call.request /\ d.known = call.known /\ d.keys = call.keys /\ d.fields = g
        /\ d.status = status /\ d.note = call.note /\ d.present = call.present /\ d.id = call.id
        /\ d.missed = call.missed /\ d.faults = call.faults /\ d.seen = call.seen /\ DOMAIN d = CallFields
    BY <1>2, <2>3 DEF CallFields
  <2>5. call' = d
    BY <1>8, <2>1, <2>3 DEF TaskGoes
  <2>6. UpdateMeans(d)
    BY <1>6, <1>7, <1>8, <2>2, <2>4 DEF UpdateMeans
  <2>7. Judged(d) /\ EngineerKey \in DOMAIN g => g[EngineerKey] # "tester"
    <3>1. Judged(call) /\ EngineerKey \in DOMAIN f => f[EngineerKey] # "tester"
      BY <1>2, <1>5 DEF CallMeans
    <3>2. Judged(d) <=> Judged(call)
      BY <2>4 DEF Judged
    <3>3. PICK key : key = EngineerKey
      OBVIOUS
    <3> QED
      BY <1>8, <2>2, <3>1, <3>2, <3>3
  <2>8. CallMeans(d)
    <3>1. status \in TaskStatuses
      BY <1>7, <1>8 DEF TaskStatuses
    <3> QED
      BY <1>2, <1>3, <2>2, <2>4, <2>6, <2>7, <3>1 DEF CallMeans
  <2>9. ASSUME ~t PROVE ChangedCard(d, other)
    <3>1. /\ call.seen.status # "progress" /\ other.status \in {"needs", "progress"}
          /\ \A k \in (DOMAIN wanted \cap ColumnKeys) \ DOMAIN f : other.col[k] = wanted[k]
      BY <1>3, <1>5, <1>6, <2>9 DEF ChangedCard
    <3>2. \A k \in (DOMAIN wanted \cap ColumnKeys) \ left : other.col[k] = wanted[k]
      BY <1>7, <1>8, <2>9, <3>1
    <3> QED
      BY <1>6, <2>2, <2>4, <3>1, <3>2 DEF ChangedCard
  <2>10. CardsFit(d, own, other, t)
    BY <1>3, <2>4, <2>9 DEF CardsFit, Judged
  <2>11. TaskHolds(d, own, other, t)
    BY <1>2, <2>4, <2>8, <2>10 DEF TaskHolds
  <2> QED
    BY <1>4, <2>5, <2>11, TaskGoesOn
<1>9. ASSUME NEW left, left = {k \in DOMAIN call.fields : ~SameValue(card.other, k, call.fields[k])},
             TaskGoes([call EXCEPT !.at = "patch", !.fields = [k \in left |-> call.fields[k]],
                   !.status = IF call.status = card.other.status THEN "" ELSE call.status])
      PROVE  TaskInv'
  <2>1. PICK status : status = IF s = other.status THEN "" ELSE s
    OBVIOUS
  <2>2. TaskGoes([call EXCEPT !.at = "patch", !.fields = [k \in left |-> f[k]], !.status = status])
    BY <1>1, <1>5, <1>9, <2>1
  <2>3. left \in SUBSET DOMAIN f /\ \A k \in (DOMAIN f \cap ColumnKeys) \ left : other.col[k] = f[k]
    BY <1>1, <1>5, <1>9 DEF SameValue
  <2>4. status \in {"", s}
    BY <2>1
  <2> QED
    BY <1>8, <2>2, <2>3, <2>4
<1>10. ASSUME TaskGoes([call EXCEPT !.at = "patch"]) PROVE TaskInv'
  <2>1. PICK left : left = DOMAIN f
    OBVIOUS
  <2>2. f = [k \in left |-> f[k]]
    BY <1>7, <2>1 DEF FieldsFit
  <2>3. [call EXCEPT !.at = "patch"] = [call EXCEPT !.at = "patch", !.fields = f, !.status = s]
    BY <1>2, <1>5 DEF CallFields
  <2>4. TaskGoes([call EXCEPT !.at = "patch", !.fields = [k \in left |-> f[k]], !.status = s])
    BY <1>10, <2>2, <2>3 DEF TaskGoes
  <2>5. left \in SUBSET DOMAIN f /\ s \in {"", s} /\ \A k \in (DOMAIN f \cap ColumnKeys) \ left : other.col[k] = f[k]
    BY <2>1
  <2> QED
    BY <1>8, <2>4, <2>5
<1> QED
  BY <1>9, <1>10 DEF ReadDiff

LEMMA ReadForBumpKeeps == ASSUME TaskInv, ReadForBump PROVE TaskInv'
<1>1. PICK own, other, t : own = card.own /\ other = card.other /\ t = touched
  OBVIOUS
<1>2. /\ card = [own |-> own, other |-> other] /\ own \in TaskCards /\ other \in TaskCards /\ t \in BOOLEAN
      /\ CallMeans(call) /\ CardsFit(call, own, other, t) /\ taskRegime \in TaskRegimes
      /\ DOMAIN call = CallFields /\ FieldsFit(call.fields) /\ call.status \in TaskStatuses
      /\ call.id \in BOOLEAN /\ call.missed \in BOOLEAN
  BY <1>1, TaskNow DEF ReadForBump
<1>3. /\ call.at = "bump" /\ call.request.kind = "update"
      /\ ~t => ChangedCard(call, other)
      /\ Judged(call) => own.col[EngineerKey] # "tester" /\ other.col[EngineerKey] # "tester"
  BY <1>2 DEF ReadForBump, CallMeans, CardsFit
<1>4. UNCHANGED <<taskRegime, pickable>> /\ touched' = t /\ card' = [own |-> own, other |-> other]
  BY <1>1, <1>2 DEF ReadForBump
<1>5. ASSUME NEW at \in {"raise", "done"}, NEW seen, seen.status # "progress" \/ seen = call.seen,
             TaskGoes([call EXCEPT !.at = at, !.seen = seen])
      PROVE  TaskInv'
  <2>1. PICK d : d = [call EXCEPT !.at = at, !.seen = seen]
    OBVIOUS
  <2>2. /\ d.at = at /\ d.request = call.request /\ d.known = call.known /\ d.keys = call.keys /\ d.fields = call.fields
        /\ d.status = call.status /\ d.note = call.note /\ d.present = call.present /\ d.id = call.id
        /\ d.missed = call.missed /\ d.faults = call.faults /\ d.seen = seen /\ DOMAIN d = CallFields
    BY <1>2, <2>1 DEF CallFields
  <2>3. CallMeans(d)
    BY <1>2, <1>3, <1>5, <2>2, StillMeant
  <2>4. ASSUME ~t PROVE ChangedCard(d, other)
    BY <1>3, <1>5, <2>2, <2>4 DEF ChangedCard
  <2>5. CardsFit(d, own, other, t)
    BY <1>3, <1>5, <2>2, <2>4 DEF CardsFit, Judged
  <2>6. TaskHolds(d, own, other, t)
    BY <1>2, <1>5, <2>2, <2>3, <2>5 DEF TaskHolds
  <2>7. call' = d
    BY <1>5, <2>1 DEF TaskGoes
  <2> QED
    BY <1>4, <2>6, <2>7, TaskGoesOn
<1>6. CASE TaskGoes(Done(call))
  <2>1. PICK seen : seen = call.seen
    OBVIOUS
  <2>2. Done(call) = [call EXCEPT !.at = "done", !.seen = seen]
    BY <1>2, <2>1 DEF Done, CallFields
  <2> QED
    BY <1>5, <1>6, <2>1, <2>2
<1>7. CASE Bumps(card.other.status) /\ TaskGoes([call EXCEPT !.at = "raise", !.seen = card.other])
  <2>1. other.status # "progress"
    BY <1>1, <1>7 DEF Bumps
  <2> QED
    BY <1>1, <1>5, <1>7, <2>1
<1>8. TaskGoes(Done(call)) \/ (Bumps(card.other.status) /\ TaskGoes([call EXCEPT !.at = "raise", !.seen = card.other]))
  <2>1. CASE Bumps(card.other.status)
    BY <2>1 DEF ReadForBump
  <2>2. CASE ~Bumps(card.other.status)
    BY <2>2 DEF ReadForBump
  <2> QED
    BY <2>1, <2>2
<1> QED
  BY <1>6, <1>7, <1>8

LEMMA RaiseKeeps == ASSUME TaskInv, Raise PROVE TaskInv'
<1>1. PICK own, other, t : own = card.own /\ other = card.other /\ t = touched
  OBVIOUS
<1>2. /\ card = [own |-> own, other |-> other] /\ own \in TaskCards /\ other \in TaskCards /\ t \in BOOLEAN
      /\ CallMeans(call) /\ CardsFit(call, own, other, t) /\ taskRegime \in TaskRegimes
      /\ DOMAIN call = CallFields /\ FieldsFit(call.fields) /\ call.status \in TaskStatuses
      /\ call.id \in BOOLEAN /\ call.missed \in BOOLEAN
  BY <1>1, TaskNow DEF Raise
<1>3. /\ call.at = "raise" /\ call.request.kind = "update"
      /\ ~t => ChangedCard(call, other)
      /\ Judged(call) => own.col[EngineerKey] # "tester" /\ other.col[EngineerKey] # "tester"
  BY <1>2 DEF Raise, CallMeans, CardsFit
<1>4. UNCHANGED <<taskRegime, pickable>> /\ touched' = t /\ TaskGoes(Done(call))
  BY <1>1 DEF Raise
<1>5. PICK d : d = [call EXCEPT !.at = "done"]
  OBVIOUS
<1>6. /\ d.at = "done" /\ d.request = call.request /\ d.known = call.known /\ d.keys = call.keys /\ d.fields = call.fields
      /\ d.status = call.status /\ d.note = call.note /\ d.present = call.present /\ d.id = call.id
      /\ d.missed = call.missed /\ d.faults = call.faults /\ d.seen = call.seen /\ DOMAIN d = CallFields
  BY <1>2, <1>5 DEF CallFields
<1>7. CallMeans(d)
  BY <1>2, <1>3, <1>6, StillMeant
<1>8. call' = d
  BY <1>4, <1>5 DEF TaskGoes, Done
<1>9. ASSUME NEW new, new \in TaskCards, new.col = other.col, new.status = other.status \/ new.status = "assigned",
             card' = [own |-> own, other |-> new]
      PROVE  TaskInv'
  <2>1. ASSUME ~t PROVE ChangedCard(d, new)
    BY <1>3, <1>6, <1>9, <2>1 DEF ChangedCard
  <2>2. CardsFit(d, own, new, t)
    BY <1>3, <1>6, <1>9, <2>1 DEF CardsFit, Judged
  <2>3. TaskHolds(d, own, new, t)
    BY <1>2, <1>6, <1>7, <1>9, <2>2 DEF TaskHolds
  <2> QED
    BY <1>4, <1>8, <1>9, <2>3, TaskGoesOn
<1>10. CASE card' = [card EXCEPT !.other.status = "assigned"]
  <2>1. PICK new : new = [other EXCEPT !.status = "assigned"]
    OBVIOUS
  <2>2. new \in TaskCards /\ new.col = other.col /\ new.status = "assigned"
    BY <1>2, <2>1 DEF TaskCards, TaskStatuses
  <2>3. card' = [own |-> own, other |-> new]
    BY <1>2, <1>10, <2>1
  <2> QED
    BY <1>9, <2>2, <2>3
<1>11. CASE UNCHANGED card
  <2>1. card' = [own |-> own, other |-> other]
    BY <1>2, <1>11
  <2> QED
    BY <1>2, <1>9, <2>1
<1> QED
  BY <1>10, <1>11 DEF Raise

LEMMA PersonMovesKeeps == ASSUME TaskInv, PersonMoves PROVE TaskInv'
<1>1. PICK own, other : own = card.own /\ other = card.other
  OBVIOUS
<1>2. /\ card = [own |-> own, other |-> other] /\ own \in TaskCards /\ other \in TaskCards
      /\ CallMeans(call) /\ CardsFit(call, own, other, touched)
  BY <1>1, TaskNow DEF PersonMoves
<1>3. /\ call.at # "rest" /\ (call.at = "create" => ~own.exists) /\ (call.at \in {"create", "again"} => ~call.missed)
      /\ Judged(call) => own.col[EngineerKey] # "tester" /\ other.col[EngineerKey] # "tester"
  BY <1>2 DEF PersonMoves, CardsFit
<1>4. UNCHANGED <<taskRegime, pickable, call>> /\ touched' = TRUE
  BY DEF PersonMoves
<1>5. PICK c \in Cards : \/ card' = [card EXCEPT ![c].status = "progress"]
                         \/ card' = [card EXCEPT ![c].col[InferEngineer] = "dev"]
  BY DEF PersonMoves
<1>6. PICK old : old = card[c]
  OBVIOUS
<1>7. old \in TaskCards /\ (c = "own" => old = own) /\ (c = "other" => old = other)
  BY <1>1, <1>2, <1>6 DEF Cards
<1>8. PICK new : /\ new \in {[old EXCEPT !.status = "progress"], [old EXCEPT !.col[InferEngineer] = "dev"]}
                 /\ card' = [card EXCEPT ![c] = new]
  BY <1>5, <1>6
<1>9. new \in TaskCards /\ new.exists = old.exists
  <2>1. CASE new = [old EXCEPT !.status = "progress"]
    BY <1>7, <2>1 DEF TaskCards, TaskStatuses
  <2>2. CASE new = [old EXCEPT !.col[InferEngineer] = "dev"]
    <3>1. PICK col, key : key = InferEngineer /\ col = [old.col EXCEPT ![key] = "dev"]
      OBVIOUS
    <3>2. col \in [ColumnKeys -> Anyone]
      BY <1>7, <3>1 DEF TaskCards, Anyone, People
    <3>3. new = [old EXCEPT !.col = col]
      BY <1>7, <2>2, <3>1 DEF TaskCards
    <3> QED
      BY <1>7, <3>2, <3>3 DEF TaskCards
  <2> QED
    BY <1>8, <2>1, <2>2
<1>10. \A k : k \in ColumnKeys => new.col[k] = old.col[k] \/ new.col[k] = "dev"
  BY <1>7, <1>8 DEF TaskCards
<1>11. Judged(call) => EngineerKey \in ColumnKeys
  BY ColumnFacts DEF TaskInv, Judged, Named
<1>12. Judged(call) /\ old.col[EngineerKey] # "tester" => new.col[EngineerKey] # "tester"
  BY <1>10, <1>11
<1>13. CASE c = "own"
  <2>1. CardsFit(call, new, other, TRUE)
    BY <1>3, <1>7, <1>9, <1>12, <1>13 DEF CardsFit
  <2>2. TaskHolds(call, new, other, TRUE)
    BY <1>2, <1>3, <1>9, <2>1 DEF TaskHolds
  <2>3. card' = [own |-> new, other |-> other]
    BY <1>2, <1>8, <1>13
  <2>4. PICK d : d = call
    OBVIOUS
  <2>5. call' = d /\ TaskHolds(d, new, other, TRUE)
    BY <1>4, <2>2, <2>4
  <2> QED
    BY <1>4, <2>3, <2>5, TaskGoesOn
<1>14. CASE c = "other"
  <2>1. CardsFit(call, own, new, TRUE)
    BY <1>3, <1>7, <1>9, <1>12, <1>14 DEF CardsFit
  <2>2. TaskHolds(call, own, new, TRUE)
    BY <1>2, <1>3, <1>9, <2>1 DEF TaskHolds
  <2>3. card' = [own |-> own, other |-> new]
    BY <1>2, <1>8, <1>14
  <2>4. PICK d : d = call
    OBVIOUS
  <2>5. call' = d /\ TaskHolds(d, own, new, TRUE)
    BY <1>4, <2>2, <2>4
  <2> QED
    BY <1>4, <2>3, <2>5, TaskGoesOn
<1> QED
  BY <1>13, <1>14 DEF Cards

(* Every step of the calls keeps it. *)
LEMMA TaskKept == ASSUME TaskInv, TaskNext PROVE TaskInv'
BY BeginTaskKeeps, CreateCardKeeps, PatchAgainKeeps, VerifyKeeps, WalkBackKeeps, ReadDiffKeeps, PatchCardKeeps,
   ReadForBumpKeeps, RaiseKeeps, PersonMovesKeeps DEF TaskNext

-----------------------------------------------------------------------------
(* Setting fields, by any callers, on a Plaky that takes any of the shapes.    *)

PatchSteps == {"idle", "schema", "text", "bulk", "pick", "try", "end"}
PatchRecord ==
  [at : PatchSteps, now : SUBSET Fields, rest : SUBSET Fields, todo : SUBSET Fields, schema : BOOLEAN,
   field : Fields \cup {"none"}, cand : Nat, order : Seq(Nat), pos : Nat, conflicts : 0 .. ConflictTries,
   only405 : BOOLEAN, trusted : SUBSET Fields, ok : SUBSET Fields, failed : SUBSET (Fields \X BOOLEAN),
   pressed : SUBSET Fields, hollow : SUBSET Fields, fine : BOOLEAN]
CellRecord == [Fields -> {"old", "asked"}]
Reported(p, cell) == \A f \in p.ok : cell[f] = "asked" \/ f \in p.hollow
GivenUp(p) ==
  \A f \in Fields, schema \in BOOLEAN : <<f, schema>> \in p.failed => Takes(f, schema) = {} \/ f \in p.pressed
TextTurn(p) == p.at = "text" => p.pos \in 1 .. TextBodies /\ (p.only405 => \A i \in fieldRegime.text : i >= p.pos)
(* Every body that Plaky takes is still to be tried, unless something was in the way of one. *)
Untried(p, t) == p.cand < t[1] \/ (p.cand = t[1] /\ \E i \in p.pos .. Len(p.order) : p.order[i] = t[2])
TryTurn(p) ==
  p.at = "try" =>
    /\ p.field \in Fields /\ p.cand \in DOMAIN Candidates(Form(p.field, p.schema)) /\ p.pos \in 1 .. Len(p.order)
    /\ p.field \in p.pressed \/ \A t \in Takes(p.field, p.schema) : Untried(p, t)
PatchHolds(p, cell) ==
  /\ p \in PatchRecord /\ cell \in CellRecord
  /\ Reported(p, cell) /\ GivenUp(p) /\ TextTurn(p) /\ TryTurn(p)
(* What the process remembers. *)
HintHolds(h) ==
  \A ladder \in {"dict", "scalar"} : h[ladder] # 0 =>
    \E f \in Fields, schema \in BOOLEAN : \E t \in Takes(f, schema) :
      t[2] = h[ladder] /\ Candidates(Form(f, schema))[t[1]] = ladder
MindHolds(h, none) ==
  /\ h \in [{"dict", "scalar"} -> 0 .. 5] /\ HintHolds(h)
  /\ none \in BOOLEAN /\ (none => fieldRegime.text = {})
FieldInv ==
  /\ fieldRegime \in FieldRegimes /\ MindHolds(hint, noText)
  /\ patch \in [fieldRegime.callers -> PatchRecord] /\ cells \in [fieldRegime.callers -> CellRecord]
  /\ \A c \in fieldRegime.callers : PatchHolds(patch[c], cells[c])

LEMMA RepeatIs == ASSUME NEW x \in {"dict", "scalar"}, NEW n \in Nat PROVE Repeat(x, n) \in Seq({"dict", "scalar"})
BY DEF Repeat
LEMMA CandidatesAre ==
  ASSUME NEW form, form \in Forms
  PROVE  Candidates(form) \in Seq({"dict", "scalar"}) /\ Len(Candidates(form)) \in Nat /\ Len(Candidates(form)) >= 1
<1>1. PICK S : S = {"dict", "scalar"}
  OBVIOUS
<1>2. /\ Repeat("dict", 3) \in Seq(S) /\ Repeat("dict", 4) \in Seq(S) /\ Repeat("dict", 5) \in Seq(S)
      /\ Repeat("dict", 7) \in Seq(S) /\ Repeat("scalar", 2) \in Seq(S)
  BY <1>1, RepeatIs
<1>3. <<"scalar">> \in Seq(S) /\ Len(<<"scalar">>) = 1
  BY <1>1
<1>4. ASSUME NEW s \in Seq(S), NEW t \in Seq(S) PROVE s \o t \in Seq(S) /\ Len(s \o t) = Len(s) + Len(t)
  BY ConcatProperties
<1>5. Len(Repeat("scalar", 2)) = 2
  BY DEF Repeat
<1>6. CASE form = "plain"
  BY <1>1, <1>3, <1>6 DEF Candidates
<1>7. CASE form = "number"
  <2>1. Candidates(form) = Repeat("dict", 3) \o <<"scalar">>
    BY <1>7 DEF Candidates
  <2> QED
    BY <1>1, <1>2, <1>3, <1>4, <2>1
<1>8. CASE form = "long"
  <2>1. Candidates(form) = Repeat("dict", 4) \o <<"scalar">>
    BY <1>8 DEF Candidates
  <2> QED
    BY <1>1, <1>2, <1>3, <1>4, <2>1
<1>9. CASE form = "repo"
  <2>1. Candidates(form) = Repeat("scalar", 2) \o Repeat("dict", 5)
    BY <1>9 DEF Candidates
  <2>2. PICK s, u : s = Repeat("scalar", 2) /\ u = Repeat("dict", 5)
    OBVIOUS
  <2>3. s \in Seq(S) /\ Len(s) = 2 /\ u \in Seq(S) /\ Len(u) \in Nat
    BY <1>2, <1>5, <2>2
  <2>4. s \o u \in Seq(S) /\ Len(s \o u) = Len(s) + Len(u)
    BY <1>4, <2>3
  <2> QED
    BY <1>1, <2>1, <2>2, <2>3, <2>4
<1>10. CASE form = "ids"
  <2>1. Candidates(form) = Repeat("scalar", 2) \o Repeat("dict", 7) \o <<"scalar">>
    BY <1>10 DEF Candidates
  <2>2. PICK s : s = Repeat("scalar", 2) \o Repeat("dict", 7)
    OBVIOUS
  <2>3. s \in Seq(S)
    BY <1>2, <1>4, <2>2
  <2>4. Candidates(form) = s \o <<"scalar">>
    BY <2>1, <2>2
  <2> QED
    BY <1>1, <1>3, <1>4, <2>3, <2>4
<1>11. CASE form = "repos"
  <2>1. Candidates(form) = Repeat("scalar", 2) \o Repeat("dict", 5) \o <<"scalar">> \o Repeat("dict", 5)
    BY <1>11 DEF Candidates
  <2>2. PICK s : s = Repeat("scalar", 2) \o Repeat("dict", 5)
    OBVIOUS
  <2>3. s \in Seq(S)
    BY <1>2, <1>4, <2>2
  <2>4. PICK u : u = s \o <<"scalar">>
    OBVIOUS
  <2>5. u \in Seq(S) /\ Len(u) = Len(s) + 1
    BY <1>3, <1>4, <2>3, <2>4
  <2>6. Candidates(form) = u \o Repeat("dict", 5)
    BY <2>1, <2>2, <2>4
  <2> QED
    BY <1>1, <1>2, <1>4, <2>3, <2>5, <2>6
<1> QED
  BY <1>6, <1>7, <1>8, <1>9, <1>10, <1>11 DEF Forms

(* The bodies of a ladder are tried once each, whatever is remembered. *)
LEMMA BodiesAre ==
  ASSUME NEW ladder \in {"dict", "scalar"}, hint[ladder] \in 0 .. BodyCount(ladder), NEW o, o = Bodies(ladder)
  PROVE  /\ o \in Seq(Nat) /\ Len(o) = BodyCount(ladder) /\ Len(o) \in Nat /\ Len(o) >= 1
         /\ \A b \in 1 .. BodyCount(ladder) : \E i \in 1 .. Len(o) : o[i] = b
<1>1. PICK n, h : n = BodyCount(ladder) /\ h = hint[ladder]
  OBVIOUS
<1>2. n \in Nat /\ n >= 1 /\ h \in 0 .. n
  BY <1>1 DEF BodyCount
<1>3. o = [i \in 1 .. n |-> IF h = 0 THEN i ELSE IF i = 1 THEN h ELSE IF i <= h THEN i - 1 ELSE i]
  BY <1>1 DEF Bodies
<1>4. o \in [1 .. n -> Nat]
  BY <1>2, <1>3
<1>5. o \in Seq(Nat) /\ Len(o) = n
  BY <1>2, <1>4
<1>6. ASSUME NEW b \in 1 .. n PROVE \E i \in 1 .. n : o[i] = b
  <2>1. CASE h = 0 \/ b > h
    <3>1. o[b] = b
      BY <1>2, <1>3, <2>1
    <3> QED
      BY <3>1
  <2>2. CASE h # 0 /\ b = h
    <3>1. 1 \in 1 .. n /\ o[1] = b
      BY <1>2, <1>3, <2>2
    <3> QED
      BY <3>1
  <2>3. CASE h # 0 /\ b < h
    <3>1. b + 1 \in 1 .. n /\ o[b + 1] = b
      BY <1>2, <1>3, <2>3
    <3> QED
      BY <3>1
  <2> QED
    BY <1>2, <2>1, <2>2, <2>3
<1> QED
  BY <1>1, <1>2, <1>5, <1>6

LEMMA FieldFacts ==
  ASSUME fieldRegime \in FieldRegimes, NEW f \in Fields, NEW schema \in BOOLEAN
  PROVE  /\ Form(f, schema) \in Forms
         /\ \A t \in Takes(f, schema) : Tries(Form(f, schema), t)
BY FieldAssumption DEF Fields, Form, Takes, KindOf, Forms

LEMMA HintFits ==
  ASSUME FieldInv, NEW ladder \in {"dict", "scalar"} PROVE hint[ladder] \in 0 .. BodyCount(ladder)
<1>1. hint[ladder] \in Nat
  BY DEF FieldInv, MindHolds
<1>2. CASE hint[ladder] = 0
  BY <1>2 DEF BodyCount
<1>3. CASE hint[ladder] # 0
  <2>1. PICK f \in Fields, schema \in BOOLEAN : \E t \in Takes(f, schema) :
          t[2] = hint[ladder] /\ Candidates(Form(f, schema))[t[1]] = ladder
    BY <1>3 DEF FieldInv, MindHolds, HintHolds
  <2>2. PICK t \in Takes(f, schema) : t[2] = hint[ladder] /\ Candidates(Form(f, schema))[t[1]] = ladder
    BY <2>1
  <2>3. Tries(Form(f, schema), t)
    BY FieldFacts DEF FieldInv
  <2> QED
    BY <2>2, <2>3 DEF Tries, BodyCount
<1> QED
  BY <1>2, <1>3

LEMMA FieldGoesOn ==
  ASSUME FieldInv, UNCHANGED fieldRegime, NEW c \in fieldRegime.callers, NEW p, NEW cell, PatchHolds(p, cell),
         patch' = [patch EXCEPT ![c] = p], cells' = [cells EXCEPT ![c] = cell], MindHolds(hint', noText')
  PROVE  FieldInv'
<1>1. /\ Fields' = Fields /\ PatchRecord' = PatchRecord /\ CellRecord' = CellRecord
  BY DEF Fields, PatchRecord, CellRecord
<1>2. ASSUME NEW d, NEW e, PatchHolds(d, e) PROVE PatchHolds(d, e)'
  BY <1>1, <1>2 DEF PatchHolds, Reported, GivenUp, TextTurn, TryTurn, Untried, Takes, Form, KindOf
<1>3. MindHolds(hint, noText)'
  BY <1>1 DEF MindHolds, HintHolds, Takes, Form, KindOf
<1>4. p \in PatchRecord /\ cell \in CellRecord
  BY DEF PatchHolds
<1>5. patch' \in [fieldRegime.callers -> PatchRecord] /\ cells' \in [fieldRegime.callers -> CellRecord]
  BY <1>4 DEF FieldInv
<1>6. ASSUME NEW b \in fieldRegime.callers PROVE PatchHolds(patch[b], cells[b])'
  <2>1. CASE b = c
    <3>1. patch'[b] = p /\ cells'[b] = cell
      BY <2>1 DEF FieldInv
    <3> QED
      BY <1>2, <3>1
  <2>2. CASE b # c
    <3>1. patch'[b] = patch[b] /\ cells'[b] = cells[b] /\ PatchHolds(patch[b], cells[b])
      BY <2>2 DEF FieldInv
    <3>2. PICK d, e : d = patch[b] /\ e = cells[b]
      OBVIOUS
    <3>3. PatchHolds(d, e)'
      BY <1>2, <3>1, <3>2
    <3> QED
      BY <3>1, <3>2, <3>3
  <2> QED
    BY <2>1, <2>2
<1> QED
  BY <1>1, <1>3, <1>5, <1>6 DEF FieldInv

LEMMA FieldStarts == ASSUME FieldInit PROVE FieldInv
<1>1. PICK p : p = Idle
  OBVIOUS
<1>2. PICK cell : cell = [f \in Fields |-> "old"]
  OBVIOUS
<1>3. p \in PatchRecord /\ p.at = "idle" /\ p.ok = {} /\ p.failed = {}
  BY <1>1 DEF Idle, PatchRecord, PatchSteps, ConflictTries
<1>4. cell \in CellRecord
  BY <1>2 DEF CellRecord
<1>5. PatchHolds(p, cell)
  BY <1>3, <1>4 DEF PatchHolds, Reported, GivenUp, TextTurn, TryTurn
<1>6. MindHolds(hint, noText)
  <2>1. hint \in [{"dict", "scalar"} -> 0 .. 5] /\ HintHolds(hint)
    BY DEF FieldInit, HintHolds
  <2>2. noText \in BOOLEAN /\ ~noText
    BY DEF FieldInit
  <2> QED
    BY <2>1, <2>2 DEF MindHolds
<1>7. patch = [c \in fieldRegime.callers |-> p] /\ cells = [c \in fieldRegime.callers |-> cell]
  BY <1>1, <1>2 DEF FieldInit
<1> QED
  BY <1>3, <1>4, <1>5, <1>6, <1>7 DEF FieldInit, FieldInv

LEMMA FieldRests == ASSUME FieldInv, UNCHANGED fieldVars PROVE FieldInv'
BY DEF fieldVars, FieldInv, Fields, PatchRecord, CellRecord, PatchHolds, Reported, GivenUp, TextTurn, TryTurn, Untried,
   Takes, Form, KindOf, MindHolds, HintHolds

LEMMA FieldSays == ASSUME FieldInv PROVE FieldsAreTrue
<1>1. /\ hint \in [{"dict", "scalar"} -> 0 .. 5] /\ noText \in BOOLEAN /\ HintHolds(hint)
      /\ noText => fieldRegime.text = {}
  BY DEF FieldInv, MindHolds
<1>2. ASSUME NEW c \in fieldRegime.callers
      PROVE  /\ patch[c].ok \subseteq Fields /\ patch[c].failed \subseteq Fields \X BOOLEAN
             /\ patch[c].conflicts \in 0 .. ConflictTries
             /\ \A f \in patch[c].ok : cells[c][f] = "asked" \/ f \in patch[c].hollow
             /\ \A f \in Fields, schema \in BOOLEAN :
                  <<f, schema>> \in patch[c].failed => Takes(f, schema) = {} \/ f \in patch[c].pressed
  <2>1. patch[c] \in PatchRecord /\ Reported(patch[c], cells[c]) /\ GivenUp(patch[c])
    BY DEF FieldInv, PatchHolds
  <2> QED
    BY <2>1 DEF PatchRecord, Reported, GivenUp
<1>3. FieldTypeOK /\ ReportedIsHeld
  BY <1>1, <1>2 DEF FieldTypeOK, ReportedIsHeld
<1>4. LocksAreWaitedOut
  BY <1>2 DEF LocksAreWaitedOut
<1>5. LearnsTheTruth
  BY <1>1 DEF LearnsTheTruth, HintHolds
<1> QED
  BY <1>3, <1>4, <1>5 DEF FieldsAreTrue

LEMMA PatchNow ==
  ASSUME FieldInv, NEW c \in fieldRegime.callers, NEW p, p = patch[c]
  PROVE  /\ PatchHolds(p, cells[c]) /\ p \in PatchRecord /\ cells[c] \in CellRecord
         /\ fieldRegime \in FieldRegimes /\ MindHolds(hint, noText) /\ DOMAIN cells = fieldRegime.callers
BY DEF FieldInv, PatchHolds

(* A cell that holds what was asked goes on holding it. *)
Grows(old, new) == new \in CellRecord /\ \A f \in Fields : old[f] = "asked" => new[f] = "asked"
LEMMA CellsHold ==
  ASSUME FieldInv, NEW c \in fieldRegime.callers, NEW fs, Holds(c, fs)
  PROVE  \E new : /\ cells' = [cells EXCEPT ![c] = new] /\ Grows(cells[c], new)
                  /\ \A f \in Fields : f \in fs => new[f] = "asked"
<1>1. PICK old : old = cells[c]
  OBVIOUS
<1>2. old \in CellRecord
  BY <1>1 DEF FieldInv
<1>3. PICK new : new = [f \in Fields |-> IF f \in fs THEN "asked" ELSE old[f]]
  OBVIOUS
<1>4. cells' = [cells EXCEPT ![c] = new]
  BY <1>1, <1>3 DEF Holds
<1>5. Grows(old, new) /\ \A f \in Fields : f \in fs => new[f] = "asked"
  BY <1>2, <1>3 DEF Grows, CellRecord
<1> QED
  BY <1>1, <1>4, <1>5
LEMMA CellsRest ==
  ASSUME FieldInv, NEW c \in fieldRegime.callers, UNCHANGED cells
  PROVE  \E new : cells' = [cells EXCEPT ![c] = new] /\ Grows(cells[c], new)
<1>1. cells' = [cells EXCEPT ![c] = cells[c]] /\ cells[c] \in CellRecord
  BY DEF FieldInv
<1>2. Grows(cells[c], cells[c])
  BY <1>1 DEF Grows
<1> QED
  BY <1>1, <1>2
LEMMA CellsMay ==
  ASSUME FieldInv, NEW c \in fieldRegime.callers, NEW fs, Maybe(c, fs) \/ UNCHANGED cells
  PROVE  \E new : cells' = [cells EXCEPT ![c] = new] /\ Grows(cells[c], new)
<1>1. CASE Holds(c, fs)
  BY <1>1, CellsHold
<1>2. CASE UNCHANGED cells
  BY <1>2, CellsRest
<1> QED
  BY <1>1, <1>2 DEF Maybe

(* A call that only gets on to a step where nothing is in hand. *)
LEMMA PatchSteady ==
  ASSUME NEW p, NEW d, NEW cell, NEW new, PatchHolds(p, cell), Grows(cell, new), d \in PatchRecord,
         d.ok = p.ok, d.failed = p.failed, p.pressed \subseteq d.pressed, p.hollow \subseteq d.hollow,
         d.at \notin {"text", "try"}
  PROVE  PatchHolds(d, new)
<1>1. p \in PatchRecord /\ new \in CellRecord
  BY DEF PatchHolds, Grows
<1>2. Reported(d, new)
  BY <1>1 DEF PatchHolds, Reported, Grows, PatchRecord
<1>3. GivenUp(d) /\ TextTurn(d) /\ TryTurn(d)
  BY DEF PatchHolds, GivenUp, TextTurn, TryTurn
<1> QED
  BY <1>1, <1>2, <1>3 DEF PatchHolds

LEMMA BeginKeeps == ASSUME FieldInv, NEW c \in fieldRegime.callers, Begin(c) PROVE FieldInv'
<1>1. PICK fs \in fieldRegime.asks :
       LET persons == {f \in fs : KindOf(f) = "person"} IN
       \/ Puts(c, IF persons \in {{}, fs}
                  THEN [Idle EXCEPT !.at = "schema", !.now = fs]
                  ELSE [Idle EXCEPT !.at = "schema", !.now = fs \ persons, !.rest = persons])
       \/ /\ \A f \in fs : KindOf(f) = "text"
          /\ Puts(c, [Idle EXCEPT !.at = IF noText THEN "schema" ELSE "text", !.now = fs, !.pos = 1])
  BY DEF Begin
<1>2. fs \in SUBSET Fields /\ fieldRegime.text \subseteq 1 .. TextBodies
  BY FieldAssumption DEF FieldInv, Fields
<1>3. PICK persons : persons = {f \in fs : KindOf(f) = "person"}
  OBVIOUS
<1>4. PICK d : /\ Puts(c, d)
               /\ d \in {[Idle EXCEPT !.at = "schema", !.now = fs],
                         [Idle EXCEPT !.at = "schema", !.now = fs \ persons, !.rest = persons],
                         [Idle EXCEPT !.at = "schema", !.now = fs, !.pos = 1],
                         [Idle EXCEPT !.at = "text", !.now = fs, !.pos = 1]}
  <2>1. noText \in BOOLEAN
    BY DEF FieldInv, MindHolds
  <2> QED
    BY <1>1, <1>3, <2>1
<1>11. PICK idle : idle = Idle
  OBVIOUS
<1>5. idle \in PatchRecord /\ persons \in SUBSET Fields /\ idle.ok = {} /\ idle.failed = {}
  BY <1>2, <1>3, <1>11 DEF Idle, PatchRecord, PatchSteps, ConflictTries
<1>6. /\ d \in PatchRecord /\ d.ok = {} /\ d.failed = {} /\ d.at \in {"schema", "text"}
      /\ d.at = "text" => d.pos = 1
  <2>1. CASE d = [idle EXCEPT !.at = "schema", !.now = fs]
    BY <1>2, <1>5, <2>1 DEF PatchRecord, PatchSteps
  <2>2. CASE d = [idle EXCEPT !.at = "schema", !.now = fs \ persons, !.rest = persons]
    BY <1>2, <1>5, <2>2 DEF PatchRecord, PatchSteps
  <2>3. CASE d = [idle EXCEPT !.at = "schema", !.now = fs, !.pos = 1]
    BY <1>2, <1>5, <2>3 DEF PatchRecord, PatchSteps
  <2>4. CASE d = [idle EXCEPT !.at = "text", !.now = fs, !.pos = 1]
    BY <1>2, <1>5, <2>4 DEF PatchRecord, PatchSteps
  <2> QED
    BY <1>4, <1>11, <2>1, <2>2, <2>3, <2>4
<1>7. PICK new : new = [f \in Fields |-> "old"]
  OBVIOUS
<1>8. new \in CellRecord
  BY <1>7 DEF CellRecord
<1>9. PatchHolds(d, new)
  BY <1>2, <1>6, <1>8 DEF PatchHolds, Reported, GivenUp, TextTurn, TryTurn, TextBodies
<1>10. /\ patch' = [patch EXCEPT ![c] = d] /\ cells' = [cells EXCEPT ![c] = new]
       /\ UNCHANGED fieldRegime /\ MindHolds(hint', noText')
  BY <1>4, <1>7 DEF Begin, Puts, Shared, FieldInv
<1> QED
  BY <1>9, <1>10, FieldGoesOn

LEMMA SetTextKeeps == ASSUME FieldInv, NEW c \in fieldRegime.callers, SetText(c) PROVE FieldInv'
<1>1. PICK p, cell : p = patch[c] /\ cell = cells[c]
  OBVIOUS
<1>2. /\ PatchHolds(p, cell) /\ p \in PatchRecord /\ cell \in CellRecord /\ fieldRegime \in FieldRegimes
      /\ MindHolds(hint, noText)
  BY <1>1, PatchNow
<1>3. p.at = "text" /\ UNCHANGED <<fieldRegime, hint>>
  BY <1>1 DEF SetText
<1>4. p.pos \in 1 .. TextBodies /\ (p.only405 => \A i \in fieldRegime.text : i >= p.pos)
  BY <1>2, <1>3 DEF PatchHolds, TextTurn
<1>5. fieldRegime.text \subseteq 1 .. TextBodies
  BY <1>2, FieldAssumption
<1>6. CASE /\ Holds(c, p.now) /\ Puts(c, [p EXCEPT !.at = "end", !.ok = p.now]) /\ UNCHANGED noText
  <2>1. PICK new : /\ cells' = [cells EXCEPT ![c] = new] /\ Grows(cell, new)
                   /\ \A f \in Fields : f \in p.now => new[f] = "asked"
    BY <1>1, <1>6, CellsHold
  <2>2. PICK d : d = [p EXCEPT !.at = "end", !.ok = p.now]
    OBVIOUS
  <2>3. d \in PatchRecord /\ d.at = "end" /\ d.ok = p.now /\ d.failed = p.failed /\ d.pressed = p.pressed
    BY <1>2, <2>2 DEF PatchRecord, PatchSteps
  <2>4. Reported(d, new)
    BY <1>2, <2>1, <2>3 DEF Reported, PatchRecord
  <2>5. PatchHolds(d, new)
    BY <1>2, <2>1, <2>3, <2>4 DEF PatchHolds, GivenUp, TextTurn, TryTurn, Grows
  <2>6. patch' = [patch EXCEPT ![c] = d] /\ MindHolds(hint', noText')
    BY <1>2, <1>3, <1>6, <2>2 DEF Puts
  <2> QED
    BY <1>3, <2>1, <2>5, <2>6, FieldGoesOn
<1>7. ASSUME NEW code, code = "405" => ~TextTakes(p.pos), noText' = (noText \/ ForgetsText(p, code)),
             Puts(c, [p EXCEPT !.only405 = p.only405 /\ code = "405",
                               !.at = IF p.pos = TextBodies THEN "schema" ELSE "text",
                               !.pos = p.pos + 1]),
             NEW new, cells' = [cells EXCEPT ![c] = new], Grows(cell, new)
      PROVE  FieldInv'
  <2>1. PICK only \in BOOLEAN : only = (p.only405 /\ code = "405")
    OBVIOUS
  <2>2. PICK at : at = IF p.pos = TextBodies THEN "schema" ELSE "text"
    OBVIOUS
  <2>3. PICK d : d = [p EXCEPT !.only405 = only, !.at = at, !.pos = p.pos + 1]
    OBVIOUS
  <2>4. p.pos + 1 \in Nat /\ at \in {"schema", "text"} /\ (at = "text" => p.pos + 1 \in 1 .. TextBodies)
    BY <1>4, <2>2 DEF TextBodies
  <2>5. /\ d \in PatchRecord /\ d.at = at /\ d.ok = p.ok /\ d.failed = p.failed /\ d.pressed = p.pressed
        /\ d.hollow = p.hollow /\ d.only405 = only /\ d.pos = p.pos + 1
    BY <1>2, <2>3, <2>4 DEF PatchRecord, PatchSteps
  <2>6. ASSUME p.only405, code = "405" PROVE \A i \in fieldRegime.text : i >= p.pos + 1
    <3>1. p.pos \notin fieldRegime.text
      BY <1>7, <2>6 DEF TextTakes
    <3> QED
      BY <1>4, <1>5, <2>6, <3>1
  <2>7. TextTurn(d)
    BY <2>1, <2>4, <2>5, <2>6 DEF TextTurn
  <2>8. Reported(d, new)
    BY <1>2, <1>7, <2>5 DEF PatchHolds, Reported, Grows, PatchRecord
  <2>9. PatchHolds(d, new)
    BY <1>2, <1>7, <2>4, <2>5, <2>7, <2>8 DEF PatchHolds, GivenUp, TryTurn, Grows
  <2>10. MindHolds(hint', noText')
    <3>1. ForgetsText(p, code) => fieldRegime.text = {}
      <4>1. ASSUME p.pos = TextBodies, p.only405, code = "405" PROVE fieldRegime.text = {}
        BY <1>5, <2>6, <4>1 DEF TextBodies
      <4> QED
        BY <4>1 DEF ForgetsText
    <3>2. ForgetsText(p, code) \in BOOLEAN
      BY DEF ForgetsText
    <3>3. noText \in BOOLEAN /\ (noText => fieldRegime.text = {})
      BY <1>2 DEF MindHolds
    <3>4. noText' \in BOOLEAN /\ (noText' => fieldRegime.text = {})
      BY <1>7, <3>1, <3>2, <3>3
    <3> QED
      BY <1>2, <1>3, <3>4 DEF MindHolds
  <2>11. patch' = [patch EXCEPT ![c] = d]
    BY <1>7, <2>1, <2>2, <2>3 DEF Puts
  <2> QED
    BY <1>3, <1>7, <2>9, <2>10, <2>11, FieldGoesOn
<1>8. ASSUME NEW code, ~TextTakes(p.pos), noText' = (noText \/ ForgetsText(p, code)), UNCHANGED cells,
             Puts(c, [p EXCEPT !.only405 = p.only405 /\ code = "405",
                               !.at = IF p.pos = TextBodies THEN "schema" ELSE "text",
                               !.pos = p.pos + 1])
      PROVE  FieldInv'
  <2>1. PICK new : cells' = [cells EXCEPT ![c] = new] /\ Grows(cell, new)
    BY <1>1, <1>8, CellsRest
  <2> QED
    BY <1>7, <1>8, <2>1
<1>9. ASSUME NEW code, code = "broken", noText' = (noText \/ ForgetsText(p, code)),
             Maybe(c, p.now) \/ UNCHANGED cells,
             Puts(c, [p EXCEPT !.only405 = p.only405 /\ code = "405",
                               !.at = IF p.pos = TextBodies THEN "schema" ELSE "text",
                               !.pos = p.pos + 1])
      PROVE  FieldInv'
  <2>1. PICK new : cells' = [cells EXCEPT ![c] = new] /\ Grows(cell, new)
    BY <1>1, <1>9, CellsMay
  <2>2. code # "405"
    BY <1>9
  <2> QED
    BY <1>7, <1>9, <2>1, <2>2
<1>10. \/ Holds(c, p.now) /\ Puts(c, [p EXCEPT !.at = "end", !.ok = p.now]) /\ UNCHANGED noText
       \/ \E code \in fieldRegime.textRefusals :
            /\ ~TextTakes(p.pos) /\ noText' = (noText \/ ForgetsText(p, code)) /\ UNCHANGED cells
            /\ Puts(c, [p EXCEPT !.only405 = p.only405 /\ code = "405",
                               !.at = IF p.pos = TextBodies THEN "schema" ELSE "text",
                               !.pos = p.pos + 1])
       \/ \E code \in {"broken"} :
            /\ noText' = (noText \/ ForgetsText(p, code)) /\ (Maybe(c, p.now) \/ UNCHANGED cells)
            /\ Puts(c, [p EXCEPT !.only405 = p.only405 /\ code = "405",
                               !.at = IF p.pos = TextBodies THEN "schema" ELSE "text",
                               !.pos = p.pos + 1])
  BY <1>1 DEF SetText
<1> QED
  BY <1>6, <1>8, <1>9, <1>10

LEMMA PassEndsIs ==
  ASSUME NEW p, p \in PatchRecord, NEW d, d = PassEnds(p)
  PROVE  /\ d \in PatchRecord /\ d.at \in {"schema", "end"} /\ d.ok = p.ok /\ d.failed = p.failed
         /\ d.pressed = p.pressed /\ d.hollow = p.hollow
<1>1. CASE p.rest = {}
  BY <1>1 DEF PassEnds, PatchRecord, PatchSteps
<1>2. CASE p.rest # {}
  BY <1>2 DEF PassEnds, PatchRecord, PatchSteps
<1> QED
  BY <1>1, <1>2

LEMMA LoadSchemaKeeps == ASSUME FieldInv, NEW c \in fieldRegime.callers, LoadSchema(c) PROVE FieldInv'
<1>1. PICK p, cell : p = patch[c] /\ cell = cells[c]
  OBVIOUS
<1>2. PatchHolds(p, cell) /\ p \in PatchRecord /\ MindHolds(hint, noText)
  BY <1>1, PatchNow
<1>3. UNCHANGED <<fieldRegime, hint, noText, cells>>
  BY DEF LoadSchema, Shared
<1>4. PICK new : cells' = [cells EXCEPT ![c] = new] /\ Grows(cell, new)
  BY <1>1, <1>3, CellsRest
<1>5. ASSUME NEW d, d \in PatchRecord, d.ok = p.ok, d.failed = p.failed, d.pressed = p.pressed, d.hollow = p.hollow,
             d.at \notin {"text", "try"}, Puts(c, d)
      PROVE  FieldInv'
  <2>1. PatchHolds(d, new)
    BY <1>2, <1>4, <1>5, PatchSteady
  <2>2. patch' = [patch EXCEPT ![c] = d] /\ MindHolds(hint', noText')
    BY <1>2, <1>3, <1>5 DEF Puts
  <2> QED
    BY <1>3, <1>4, <2>1, <2>2, FieldGoesOn
<1>6. ASSUME NEW known \in BOOLEAN,
             Puts(c, [p EXCEPT !.schema = known, !.todo = p.now, !.pos = 1, !.trusted = {},
                            !.at = IF Coerced(p.now, known) = {} THEN "pick" ELSE "bulk"])
      PROVE  FieldInv'
  <2>1. PICK at : at = IF Coerced(p.now, known) = {} THEN "pick" ELSE "bulk"
    OBVIOUS
  <2>2. at \in {"pick", "bulk"}
    BY <2>1
  <2>3. PICK d : d = [p EXCEPT !.schema = known, !.todo = p.now, !.pos = 1, !.trusted = {}, !.at = at]
    OBVIOUS
  <2>4. /\ d \in PatchRecord /\ d.ok = p.ok /\ d.failed = p.failed /\ d.pressed = p.pressed /\ d.hollow = p.hollow
        /\ d.at \notin {"text", "try"}
    BY <1>2, <2>2, <2>3 DEF PatchRecord, PatchSteps
  <2> QED
    BY <1>5, <1>6, <2>1, <2>3, <2>4
<1>7. ASSUME Puts(c, PassEnds([p EXCEPT !.fine = FALSE])) PROVE FieldInv'
  <2>1. PICK q : q = [p EXCEPT !.fine = FALSE]
    OBVIOUS
  <2>2. q \in PatchRecord /\ q.ok = p.ok /\ q.failed = p.failed /\ q.pressed = p.pressed /\ q.hollow = p.hollow
    BY <1>2, <2>1 DEF PatchRecord
  <2>3. PICK d : d = PassEnds(q)
    OBVIOUS
  <2>4. /\ d \in PatchRecord /\ d.ok = p.ok /\ d.failed = p.failed /\ d.pressed = p.pressed /\ d.hollow = p.hollow
        /\ d.at \in {"schema", "end"}
    BY <2>2, <2>3, PassEndsIs
  <2> QED
    BY <1>5, <1>7, <2>1, <2>3, <2>4
<1> QED
  BY <1>1, <1>6, <1>7 DEF LoadSchema

LEMMA BulkKeeps == ASSUME FieldInv, NEW c \in fieldRegime.callers, Bulk(c) PROVE FieldInv'
<1>1. PICK p, cell : p = patch[c] /\ cell = cells[c]
  OBVIOUS
<1>2. PatchHolds(p, cell) /\ p \in PatchRecord /\ MindHolds(hint, noText)
  BY <1>1, PatchNow
<1>3. UNCHANGED <<fieldRegime, hint, noText>>
  BY DEF Bulk, Shared
<1>4. PICK coerced : coerced = Coerced(p.now, p.schema)
  OBVIOUS
<1>5. coerced \in SUBSET Fields
  BY <1>2, <1>4 DEF Coerced, PatchRecord
<1>6. PICK set : set = {f \in coerced : KindOf(f) = "person"}
  OBVIOUS
<1>7. PICK at : at = IF p.pos = BulkBodies THEN "pick" ELSE "bulk"
  OBVIOUS
<1>8. PICK next : next = [p EXCEPT !.pos = p.pos + 1, !.at = at]
  OBVIOUS
<1>9. /\ next \in PatchRecord /\ next.ok = p.ok /\ next.failed = p.failed /\ next.pressed = p.pressed
      /\ next.hollow = p.hollow /\ next.at \notin {"text", "try"}
  <2>1. at \in {"pick", "bulk"} /\ p.pos + 1 \in Nat
    BY <1>2, <1>7 DEF PatchRecord
  <2> QED
    BY <1>2, <1>8, <2>1 DEF PatchRecord, PatchSteps
<1>10. ASSUME Puts(c, next), Maybe(c, set) \/ UNCHANGED cells PROVE FieldInv'
  <2>1. PICK new : cells' = [cells EXCEPT ![c] = new] /\ Grows(cell, new)
    BY <1>1, <1>10, CellsMay
  <2>2. PatchHolds(next, new)
    BY <1>2, <1>9, <2>1, PatchSteady
  <2>3. patch' = [patch EXCEPT ![c] = next] /\ MindHolds(hint', noText')
    BY <1>2, <1>3, <1>10 DEF Puts
  <2> QED
    BY <1>3, <2>1, <2>2, <2>3, FieldGoesOn
<1>11. ASSUME Holds(c, set),
              Puts(c, [p EXCEPT !.at = "pick", !.ok = p.ok \cup Trusts(p),
                             !.todo = p.todo \ Trusts(p), !.hollow = p.hollow \cup (coerced \ set)])
       PROVE  FieldInv'
  <2>1. PICK new : /\ cells' = [cells EXCEPT ![c] = new] /\ Grows(cell, new)
                   /\ \A f \in Fields : f \in set => new[f] = "asked"
    BY <1>1, <1>11, CellsHold
  <2>2. PICK trusted : trusted = Trusts(p)
    OBVIOUS
  <2>3. trusted \in SUBSET coerced
    BY <1>4, <2>2 DEF Trusts
  <2>4. PICK d : d = [p EXCEPT !.at = "pick", !.ok = p.ok \cup trusted, !.todo = p.todo \ trusted,
                              !.hollow = p.hollow \cup (coerced \ set)]
    OBVIOUS
  <2>5. /\ d \in PatchRecord /\ d.at = "pick" /\ d.ok = p.ok \cup trusted /\ d.failed = p.failed
        /\ d.pressed = p.pressed /\ d.hollow = p.hollow \cup (coerced \ set)
    BY <1>2, <1>5, <2>3, <2>4 DEF PatchRecord, PatchSteps
  <2>6. Reported(d, new)
    BY <1>2, <1>5, <2>1, <2>3, <2>5 DEF PatchHolds, Reported, Grows, PatchRecord
  <2>7. PatchHolds(d, new)
    BY <1>2, <2>1, <2>5, <2>6 DEF PatchHolds, GivenUp, TextTurn, TryTurn, Grows
  <2>8. patch' = [patch EXCEPT ![c] = d] /\ MindHolds(hint', noText')
    BY <1>2, <1>3, <1>11, <2>2, <2>4 DEF Puts
  <2> QED
    BY <1>3, <2>1, <2>7, <2>8, FieldGoesOn
<1> QED
  BY <1>1, <1>4, <1>6, <1>7, <1>8, <1>10, <1>11 DEF Bulk

LEMMA PickKeeps == ASSUME FieldInv, NEW c \in fieldRegime.callers, Pick(c) PROVE FieldInv'
<1>1. PICK p, cell : p = patch[c] /\ cell = cells[c]
  OBVIOUS
<1>2. PatchHolds(p, cell) /\ p \in PatchRecord /\ MindHolds(hint, noText) /\ fieldRegime \in FieldRegimes
  BY <1>1, PatchNow
<1>3. UNCHANGED <<fieldRegime, hint, noText, cells>>
  BY DEF Pick, Shared
<1>4. PICK new : cells' = [cells EXCEPT ![c] = new] /\ Grows(cell, new)
  BY <1>1, <1>3, CellsRest
<1>5. ASSUME NEW d, PatchHolds(d, new), Puts(c, d) PROVE FieldInv'
  <2>1. patch' = [patch EXCEPT ![c] = d] /\ MindHolds(hint', noText')
    BY <1>2, <1>3, <1>5 DEF Puts
  <2> QED
    BY <1>3, <1>4, <1>5, <2>1, FieldGoesOn
<1>6. ASSUME NEW f \in p.todo,
             Puts(c, [p EXCEPT !.at = "try", !.field = f, !.cand = 1, !.pos = 1, !.conflicts = 0,
                            !.todo = p.todo \ {f}, !.order = Bodies(Candidates(Form(f, p.schema))[1])])
      PROVE  FieldInv'
  <2>1. PICK cs : cs = Candidates(Form(f, p.schema))
    OBVIOUS
  <2>2. f \in Fields /\ p.schema \in BOOLEAN /\ p.todo \in SUBSET Fields
    BY <1>2 DEF PatchRecord
  <2>3. Form(f, p.schema) \in Forms /\ \A t \in Takes(f, p.schema) : Tries(Form(f, p.schema), t)
    BY <1>2, <2>2, FieldFacts
  <2>4. cs \in Seq({"dict", "scalar"}) /\ Len(cs) \in Nat /\ Len(cs) >= 1
    BY <2>1, <2>3, CandidatesAre
  <2>5. cs[1] \in {"dict", "scalar"} /\ 1 \in DOMAIN cs /\ DOMAIN cs = 1 .. Len(cs)
    BY <2>4
  <2>6. PICK ladder, o : ladder = cs[1] /\ o = Bodies(ladder)
    OBVIOUS
  <2>7. hint[ladder] \in 0 .. BodyCount(ladder) /\ ladder \in {"dict", "scalar"}
    BY <2>5, <2>6, HintFits
  <2>8. /\ o \in Seq(Nat) /\ Len(o) = BodyCount(ladder) /\ Len(o) \in Nat /\ Len(o) >= 1
        /\ \A b \in 1 .. BodyCount(ladder) : \E i \in 1 .. Len(o) : o[i] = b
    BY <2>6, <2>7, BodiesAre
  <2>9. PICK d : d = [p EXCEPT !.at = "try", !.field = f, !.cand = 1, !.pos = 1, !.conflicts = 0,
                              !.todo = p.todo \ {f}, !.order = o]
    OBVIOUS
  <2>10. /\ d \in PatchRecord /\ d.at = "try" /\ d.field = f /\ d.cand = 1 /\ d.pos = 1 /\ d.order = o
         /\ d.schema = p.schema /\ d.ok = p.ok /\ d.failed = p.failed /\ d.pressed = p.pressed /\ d.hollow = p.hollow
    <3>1. PICK todo : todo = p.todo \ {f} /\ todo \in SUBSET Fields
      BY <2>2
    <3>2. f \in Fields \cup {"none"} /\ 0 \in 0 .. ConflictTries /\ "try" \in PatchSteps /\ 1 \in Nat
      BY <2>2 DEF ConflictTries, PatchSteps
    <3>3. PICK q : q = [p EXCEPT !.at = "try", !.field = f, !.cand = 1, !.pos = 1]
      OBVIOUS
    <3>4. /\ q \in PatchRecord /\ q.at = "try" /\ q.field = f /\ q.cand = 1 /\ q.pos = 1
          /\ q.schema = p.schema /\ q.ok = p.ok /\ q.failed = p.failed /\ q.pressed = p.pressed /\ q.hollow = p.hollow
      BY <1>2, <3>2, <3>3 DEF PatchRecord
    <3>5. d = [q EXCEPT !.conflicts = 0, !.todo = todo, !.order = o]
      BY <1>2, <2>9, <3>1, <3>3 DEF PatchRecord
    <3> QED
      BY <2>8, <3>1, <3>2, <3>4, <3>5 DEF PatchRecord
  <2>11. ASSUME NEW t \in Takes(f, p.schema) PROVE Untried(d, t)
    <3>1. t[1] \in 1 .. Len(cs) /\ t[2] \in 1 .. BodyCount(cs[t[1]])
      BY <2>1, <2>3, <2>5 DEF Tries
    <3>2. CASE t[1] = 1
      <4>1. t[2] \in 1 .. BodyCount(ladder)
        BY <2>6, <3>1, <3>2
      <4>2. PICK i \in 1 .. Len(o) : o[i] = t[2]
        BY <2>8, <4>1
      <4> QED
        BY <2>10, <3>2, <4>2 DEF Untried
    <3>3. CASE t[1] # 1
      BY <2>4, <2>10, <3>1, <3>3 DEF Untried
    <3> QED
      BY <3>2, <3>3
  <2>12. TryTurn(d)
    BY <2>1, <2>2, <2>5, <2>8, <2>10, <2>11 DEF TryTurn
  <2>13. Reported(d, new)
    BY <1>2, <1>4, <2>10 DEF PatchHolds, Reported, Grows, PatchRecord
  <2>14. PatchHolds(d, new)
    BY <1>2, <1>4, <2>10, <2>12, <2>13 DEF PatchHolds, GivenUp, TextTurn, Grows
  <2> QED
    BY <1>5, <1>6, <2>1, <2>6, <2>9, <2>14
<1>7. ASSUME Puts(c, PassEnds(p)) PROVE FieldInv'
  <2>1. PICK d : d = PassEnds(p)
    OBVIOUS
  <2>2. /\ d \in PatchRecord /\ d.ok = p.ok /\ d.failed = p.failed /\ d.pressed = p.pressed /\ d.hollow = p.hollow
        /\ d.at \in {"schema", "end"}
    BY <1>2, <2>1, PassEndsIs
  <2>3. PatchHolds(d, new)
    BY <1>2, <1>4, <2>2, PatchSteady
  <2> QED
    BY <1>5, <1>7, <2>1, <2>3
<1> QED
  BY <1>1, <1>6, <1>7 DEF Pick

(* Where a call goes on after a body that was not taken. *)
GoesOnTo(p, d) ==
  /\ d \in PatchRecord /\ d.ok = p.ok /\ d.pressed = p.pressed /\ d.hollow = p.hollow
  /\ \/ /\ p.pos < Len(p.order) /\ d.at = "try" /\ d.field = p.field /\ d.schema = p.schema /\ d.failed = p.failed
        /\ d.cand = p.cand /\ d.pos = p.pos + 1 /\ d.order = p.order
     \/ /\ p.pos = Len(p.order) /\ d.at = "try" /\ d.field = p.field /\ d.schema = p.schema /\ d.failed = p.failed
        /\ d.cand = p.cand + 1 /\ d.cand \in DOMAIN Candidates(Form(p.field, p.schema)) /\ d.pos = 1
        /\ Len(d.order) \in Nat /\ Len(d.order) >= 1
        /\ \A b \in 1 .. BodyCount(Candidates(Form(p.field, p.schema))[d.cand]) :
             \E i \in 1 .. Len(d.order) : d.order[i] = b
     \/ /\ p.pos = Len(p.order) /\ d.at = "pick" /\ d.failed = p.failed \cup {<<p.field, p.schema>>}
        /\ p.cand = Len(Candidates(Form(p.field, p.schema)))
LEMMA OnwardsIs ==
  ASSUME FieldInv, NEW p, p \in PatchRecord, p.at = "try", TryTurn(p), NEW d, d = Onwards(p)
  PROVE  GoesOnTo(p, d)
<1>1. /\ p.field \in Fields /\ p.schema \in BOOLEAN /\ p.cand \in DOMAIN Candidates(Form(p.field, p.schema))
      /\ p.pos \in 1 .. Len(p.order) /\ p.order \in Seq(Nat) /\ p.pos \in Nat /\ p.cand \in Nat
  BY DEF TryTurn, PatchRecord
<1>2. PICK cs : cs = Candidates(Form(p.field, p.schema))
  OBVIOUS
<1>3. Form(p.field, p.schema) \in Forms
  BY <1>1, FieldFacts DEF FieldInv
<1>4. cs \in Seq({"dict", "scalar"}) /\ Len(cs) \in Nat /\ DOMAIN cs = 1 .. Len(cs) /\ Len(p.order) \in Nat
  BY <1>1, <1>2, <1>3, CandidatesAre
<1>5. 0 \in 0 .. ConflictTries /\ "try" \in PatchSteps /\ "pick" \in PatchSteps
  BY DEF ConflictTries, PatchSteps
<1>6. CASE p.pos < Len(p.order)
  <2>1. d = [p EXCEPT !.pos = p.pos + 1, !.conflicts = 0]
    BY <1>6 DEF Onwards
  <2>2. p.pos + 1 \in Nat
    BY <1>1
  <2>3. /\ d \in PatchRecord /\ d.ok = p.ok /\ d.pressed = p.pressed /\ d.hollow = p.hollow
        /\ d.at = "try" /\ d.field = p.field /\ d.schema = p.schema /\ d.failed = p.failed
        /\ d.cand = p.cand /\ d.pos = p.pos + 1 /\ d.order = p.order
    BY <1>5, <2>1, <2>2 DEF PatchRecord
  <2> QED
    BY <1>6, <2>3 DEF GoesOnTo
<1>7. CASE p.pos = Len(p.order) /\ p.cand < Len(cs)
  <2>1. PICK o, next : next = p.cand + 1 /\ o = Bodies(cs[next])
    OBVIOUS
  <2>2. next \in DOMAIN cs /\ next \in Nat
    BY <1>1, <1>2, <1>4, <1>7, <2>1
  <2>3. PICK ladder : ladder = cs[next]
    OBVIOUS
  <2>4. ladder \in {"dict", "scalar"} /\ o = Bodies(ladder)
    BY <1>4, <2>1, <2>2, <2>3
  <2>5. hint[ladder] \in 0 .. BodyCount(ladder)
    BY <2>4, HintFits
  <2>6. /\ o \in Seq(Nat) /\ Len(o) \in Nat /\ Len(o) >= 1
        /\ \A b \in 1 .. BodyCount(ladder) : \E i \in 1 .. Len(o) : o[i] = b
    BY <2>4, <2>5, BodiesAre
  <2>7. d = [p EXCEPT !.cand = next, !.pos = 1, !.conflicts = 0, !.order = o]
    BY <1>2, <1>7, <2>1 DEF Onwards
  <2>9. PICK q : q = [p EXCEPT !.cand = next, !.pos = 1]
    OBVIOUS
  <2>10. /\ q \in PatchRecord /\ q.ok = p.ok /\ q.pressed = p.pressed /\ q.hollow = p.hollow
         /\ q.at = p.at /\ q.field = p.field /\ q.schema = p.schema /\ q.failed = p.failed
         /\ q.cand = next /\ q.pos = 1
    BY <2>2, <2>9 DEF PatchRecord
  <2>11. d = [q EXCEPT !.conflicts = 0, !.order = o]
    BY <2>7, <2>9 DEF PatchRecord
  <2>8. /\ d \in PatchRecord /\ d.ok = p.ok /\ d.pressed = p.pressed /\ d.hollow = p.hollow
        /\ d.at = "try" /\ d.field = p.field /\ d.schema = p.schema /\ d.failed = p.failed
        /\ d.cand = next /\ d.pos = 1 /\ d.order = o
    BY <1>5, <2>6, <2>10, <2>11 DEF PatchRecord
  <2> QED
    BY <1>2, <1>7, <2>1, <2>2, <2>3, <2>6, <2>8 DEF GoesOnTo
<1>8. CASE p.pos = Len(p.order) /\ p.cand = Len(cs)
  <2>1. d = [p EXCEPT !.at = "pick", !.failed = p.failed \cup {<<p.field, p.schema>>}]
    BY <1>1, <1>2, <1>4, <1>8 DEF Onwards
  <2>2. p.failed \cup {<<p.field, p.schema>>} \in SUBSET (Fields \X BOOLEAN)
    BY <1>1 DEF PatchRecord
  <2>3. /\ d \in PatchRecord /\ d.ok = p.ok /\ d.pressed = p.pressed /\ d.hollow = p.hollow
        /\ d.at = "pick" /\ d.failed = p.failed \cup {<<p.field, p.schema>>}
    BY <1>5, <2>1, <2>2 DEF PatchRecord
  <2> QED
    BY <1>2, <1>8, <2>3 DEF GoesOnTo
<1> QED
  BY <1>1, <1>2, <1>4, <1>6, <1>7, <1>8

(* A field is given up when every body has been tried, or something was in the way. *)
LEMMA OnwardsHolds ==
  ASSUME FieldInv, NEW p, NEW cell, NEW new, NEW d, NEW q, NEW over,
         p.at = "try", PatchHolds(p, cell), Grows(cell, new), d = Onwards(p),
         over \in SUBSET Fields, p.pressed \subseteq over, q = [d EXCEPT !.pressed = over],
         p.field \in over \/ <<p.cand, p.order[p.pos]>> \notin Takes(p.field, p.schema)
  PROVE  PatchHolds(q, new)
<1>1. p \in PatchRecord /\ TryTurn(p) /\ Reported(p, cell) /\ GivenUp(p) /\ new \in CellRecord
  BY DEF PatchHolds, Grows
<1>2. GoesOnTo(p, d)
  BY <1>1, OnwardsIs
<1>3. /\ q \in PatchRecord /\ q.ok = p.ok /\ q.pressed = over /\ q.hollow = p.hollow /\ q.at = d.at /\ q.field = d.field
      /\ q.schema = d.schema /\ q.failed = d.failed /\ q.cand = d.cand /\ q.pos = d.pos /\ q.order = d.order
  BY <1>2 DEF GoesOnTo, PatchRecord
<1>4. PICK f, s, cs, o : f = p.field /\ s = p.schema /\ cs = Candidates(Form(f, s)) /\ o = p.order
  OBVIOUS
<1>5. /\ f \in Fields /\ s \in BOOLEAN /\ p.cand \in DOMAIN cs /\ p.pos \in 1 .. Len(o) /\ Len(o) \in Nat
      /\ f \in p.pressed \/ \A t \in Takes(f, s) : Untried(p, t)
      /\ p.cand \in Nat /\ p.pos \in Nat
  BY <1>1, <1>4 DEF TryTurn, PatchRecord
<1>6. Form(f, s) \in Forms /\ \A t \in Takes(f, s) : Tries(Form(f, s), t)
  BY <1>5, FieldFacts DEF FieldInv
<1>7. Len(cs) \in Nat /\ DOMAIN cs = 1 .. Len(cs)
  BY <1>4, <1>6, CandidatesAre
<1>8. ASSUME f \notin over, NEW t \in Takes(f, s)
      PROVE  /\ t[1] \in 1 .. Len(cs) /\ t[2] \in 1 .. BodyCount(cs[t[1]])
             /\ p.cand < t[1] \/ (p.cand = t[1] /\ \E i \in (p.pos + 1) .. Len(o) : o[i] = t[2])
  <2>1. t \in Nat \X Nat /\ t[1] \in 1 .. Len(cs) /\ t[2] \in 1 .. BodyCount(cs[t[1]])
    BY <1>4, <1>6, <1>7 DEF Tries
  <2>2. Untried(p, t)
    BY <1>5, <1>8
  <2>3. CASE p.cand = t[1]
    <3>1. PICK i \in p.pos .. Len(o) : o[i] = t[2]
      BY <1>4, <1>5, <2>2, <2>3 DEF Untried
    <3>2. t = <<t[1], t[2]>>
      BY <2>1
    <3>3. i # p.pos
      BY <1>4, <1>8, <2>3, <3>1, <3>2
    <3>4. i \in (p.pos + 1) .. Len(o)
      BY <1>5, <3>1, <3>3
    <3> QED
      BY <2>1, <2>3, <3>1, <3>4
  <2>4. CASE p.cand # t[1]
    BY <2>1, <2>2, <2>4 DEF Untried
  <2> QED
    BY <2>3, <2>4
<1>9. GivenUp(q)
  <2>1. ASSUME NEW g \in Fields, NEW b \in BOOLEAN, <<g, b>> \in q.failed PROVE Takes(g, b) = {} \/ g \in over
    <3>1. CASE <<g, b>> \in p.failed
      BY <1>1, <2>1, <3>1 DEF GivenUp
    <3>2. CASE <<g, b>> \notin p.failed
      <4>1. /\ g = f /\ b = s /\ p.pos = Len(o) /\ p.cand = Len(cs)
        BY <1>2, <1>3, <1>4, <2>1, <3>2 DEF GoesOnTo
      <4>2. ASSUME f \notin over, NEW t \in Takes(f, s) PROVE FALSE
        BY <1>5, <1>7, <1>8, <4>1, <4>2
      <4> QED
        BY <4>1, <4>2
    <3> QED
      BY <3>1, <3>2
  <2> QED
    BY <1>3, <2>1 DEF GivenUp
<1>10. TryTurn(q)
  <2>1. CASE d.at # "try"
    BY <1>3, <2>1 DEF TryTurn
  <2>2. CASE d.at = "try"
    <3>1. /\ d.field = f /\ d.schema = s /\ d.cand \in DOMAIN cs /\ d.pos \in 1 .. Len(d.order)
      BY <1>2, <1>4, <1>5, <2>2 DEF GoesOnTo
    <3>2. ASSUME f \notin over, NEW t \in Takes(f, s) PROVE Untried(d, t)
      <4>1. /\ t[1] \in 1 .. Len(cs) /\ t[2] \in 1 .. BodyCount(cs[t[1]])
            /\ p.cand < t[1] \/ (p.cand = t[1] /\ \E i \in (p.pos + 1) .. Len(o) : o[i] = t[2])
        BY <1>8, <3>2
      <4>2. CASE p.pos < Len(p.order)
        <5>1. d.cand = p.cand /\ d.pos = p.pos + 1 /\ d.order = o
          BY <1>2, <1>4, <1>5, <4>2 DEF GoesOnTo
        <5> QED
          BY <4>1, <5>1 DEF Untried
      <4>3. CASE p.pos = Len(p.order)
        <5>1. /\ d.cand = p.cand + 1 /\ d.pos = 1 /\ Len(d.order) \in Nat
              /\ \A b \in 1 .. BodyCount(cs[d.cand]) : \E i \in 1 .. Len(d.order) : d.order[i] = b
          BY <1>2, <1>4, <1>5, <2>2, <4>3 DEF GoesOnTo
        <5>2. p.cand < t[1]
          BY <1>4, <1>5, <4>1, <4>3
        <5>3. CASE t[1] = d.cand
          <6>1. PICK i \in 1 .. Len(d.order) : d.order[i] = t[2]
            BY <4>1, <5>1, <5>3
          <6> QED
            BY <5>1, <5>3, <6>1 DEF Untried
        <5>4. CASE t[1] # d.cand
          BY <1>5, <1>7, <4>1, <5>1, <5>2, <5>4 DEF Untried
        <5> QED
          BY <5>3, <5>4
      <4> QED
        BY <1>4, <1>5, <4>2, <4>3
    <3>3. \A t : Untried(q, t) <=> Untried(d, t)
      BY <1>3 DEF Untried
    <3> QED
      BY <1>3, <1>4, <1>5, <3>1, <3>2, <3>3 DEF TryTurn
  <2> QED
    BY <2>1, <2>2
<1>11. Reported(q, new)
  BY <1>1, <1>3 DEF Reported, Grows, PatchRecord
<1>12. TextTurn(q)
  BY <1>2, <1>3 DEF TextTurn, GoesOnTo
<1> QED
  BY <1>1, <1>3, <1>9, <1>10, <1>11, <1>12 DEF PatchHolds

(* What is remembered has set a field. *)
LEMMA RememberedHolds ==
  ASSUME FieldInv, NEW p, p \in PatchRecord, p.at = "try", TryTurn(p), Remembers(p), UNCHANGED noText,
         \/ <<p.cand, p.order[p.pos]>> \in Takes(p.field, p.schema)
         \/ Ladder(p) = "dict" /\ p.order[p.pos] = Bare
  PROVE  MindHolds(hint', noText')
<1>1. MindHolds(hint, noText)
  BY DEF FieldInv
<1>2. CASE UNCHANGED hint
  BY <1>1, <1>2
<1>3. CASE ~(Ladder(p) = "dict" /\ p.order[p.pos] = Bare)
  <2>1. PICK ladder, body : ladder = Ladder(p) /\ body = p.order[p.pos]
    OBVIOUS
  <2>2. hint' = [hint EXCEPT ![ladder] = body]
    BY <1>3, <2>1 DEF Remembers, Learns
  <2>3. PICK f, s, t : f = p.field /\ s = p.schema /\ t = <<p.cand, body>>
    OBVIOUS
  <2>4. f \in Fields /\ s \in BOOLEAN /\ t \in Takes(f, s) /\ t[1] = p.cand /\ t[2] = body
    BY <1>3, <2>1, <2>3 DEF TryTurn, PatchRecord
  <2>5. Form(f, s) \in Forms /\ Tries(Form(f, s), t)
    BY <2>4, FieldFacts DEF FieldInv
  <2>6. ladder = Candidates(Form(f, s))[t[1]]
    BY <2>1, <2>3, <2>4 DEF Ladder
  <2>7. Candidates(Form(f, s)) \in Seq({"dict", "scalar"}) /\ t[1] \in DOMAIN Candidates(Form(f, s))
    BY <2>5, CandidatesAre DEF Tries
  <2>8. ladder \in {"dict", "scalar"}
    BY <2>6, <2>7
  <2>9. body \in 1 .. BodyCount(ladder)
    BY <2>4, <2>5, <2>6 DEF Tries
  <2>10. body \in 0 .. 5
    BY <2>8, <2>9 DEF BodyCount
  <2>11. hint' \in [{"dict", "scalar"} -> 0 .. 5]
    BY <1>1, <2>2, <2>8, <2>10 DEF MindHolds
  <2>12. HintHolds(hint')
    <3>1. ASSUME NEW l \in {"dict", "scalar"}, hint'[l] # 0
          PROVE  \E g \in Fields, schema \in BOOLEAN : \E u \in Takes(g, schema) :
                   u[2] = hint'[l] /\ Candidates(Form(g, schema))[u[1]] = l
      <4>1. CASE l = ladder
        <5>1. hint'[l] = body
          BY <1>1, <2>2, <2>8, <4>1 DEF MindHolds
        <5> QED
          BY <2>4, <2>6, <4>1, <5>1
      <4>2. CASE l # ladder
        <5>1. hint'[l] = hint[l]
          BY <1>1, <2>2, <4>2 DEF MindHolds
        <5> QED
          BY <1>1, <3>1, <5>1 DEF MindHolds, HintHolds
      <4> QED
        BY <4>1, <4>2
    <3> QED
      BY <3>1 DEF HintHolds
  <2> QED
    BY <1>1, <2>11, <2>12 DEF MindHolds
<1> QED
  BY <1>2, <1>3 DEF Remembers

LEMMA TryBodyKeeps == ASSUME FieldInv, NEW c \in fieldRegime.callers, TryBody(c) PROVE FieldInv'
<1>1. PICK p, cell : p = patch[c] /\ cell = cells[c]
  OBVIOUS
<1>2. PatchHolds(p, cell) /\ p \in PatchRecord /\ MindHolds(hint, noText)
  BY <1>1, PatchNow
<1>3. p.at = "try" /\ UNCHANGED <<fieldRegime, noText>>
  BY <1>1 DEF TryBody
<1>4. TryTurn(p) /\ Reported(p, cell) /\ GivenUp(p) /\ p.field \in Fields
  BY <1>2, <1>3 DEF PatchHolds, TryTurn
<1>5. PICK over : over = p.pressed \cup {p.field}
  OBVIOUS
<1>6. over \in SUBSET Fields /\ p.pressed \subseteq over /\ p.field \in over /\ p.pressed \in SUBSET Fields
  BY <1>2, <1>4, <1>5 DEF PatchRecord
<1>7. PICK d : d = Onwards(p)
  OBVIOUS
<1>8. d \in PatchRecord /\ d.pressed = p.pressed
  BY <1>2, <1>3, <1>4, <1>7, OnwardsIs DEF GoesOnTo
<1>9. ASSUME NEW q, NEW new, PatchHolds(q, new), Puts(c, q), cells' = [cells EXCEPT ![c] = new], MindHolds(hint', noText')
      PROVE  FieldInv'
  BY <1>3, <1>9, FieldGoesOn DEF Puts
<1>10. ASSUME NEW new, NEW vain, vain \in SUBSET {p.field}, Grows(cell, new),
              cells' = [cells EXCEPT ![c] = new], new[p.field] = "asked" \/ p.field \in vain,
              Puts(c, [p EXCEPT !.at = "pick", !.ok = p.ok \cup {p.field}, !.hollow = p.hollow \cup vain]),
              Remembers(p), \/ <<p.cand, p.order[p.pos]>> \in Takes(p.field, p.schema)
                            \/ Ladder(p) = "dict" /\ p.order[p.pos] = Bare
       PROVE  FieldInv'
  <2>1. PICK ok, hollow : ok = p.ok \cup {p.field} /\ hollow = p.hollow \cup vain
    OBVIOUS
  <2>8. p.ok \in SUBSET Fields /\ p.hollow \in SUBSET Fields
    BY <1>2 DEF PatchRecord
  <2>9. vain \in SUBSET Fields
    BY <1>4, <1>10
  <2>2. ok \in SUBSET Fields /\ hollow \in SUBSET Fields /\ "pick" \in PatchSteps
    BY <1>4, <2>1, <2>8, <2>9 DEF PatchSteps
  <2>3. PICK q : q = [p EXCEPT !.at = "pick", !.ok = ok, !.hollow = hollow]
    OBVIOUS
  <2>4. /\ q \in PatchRecord /\ q.at = "pick" /\ q.ok = ok /\ q.hollow = hollow /\ q.failed = p.failed
        /\ q.pressed = p.pressed
    BY <1>2, <2>2, <2>3 DEF PatchRecord
  <2>5. Reported(q, new)
    BY <1>2, <1>4, <1>10, <2>1, <2>4 DEF Reported, Grows, PatchRecord
  <2>6. PatchHolds(q, new)
    BY <1>4, <1>10, <2>4, <2>5 DEF PatchHolds, GivenUp, TextTurn, TryTurn, Grows
  <2>7. MindHolds(hint', noText')
    BY <1>2, <1>3, <1>4, <1>10, RememberedHolds
  <2> QED
    BY <1>9, <1>10, <2>1, <2>3, <2>6, <2>7
<1>11. CASE /\ <<p.cand, p.order[p.pos]>> \in Takes(p.field, p.schema)
            /\ Holds(c, {p.field}) /\ Puts(c, [p EXCEPT !.at = "pick", !.ok = p.ok \cup {p.field}]) /\ Remembers(p)
  <2>1. PICK new : /\ cells' = [cells EXCEPT ![c] = new] /\ Grows(cell, new)
                   /\ \A f \in Fields : f \in {p.field} => new[f] = "asked"
    BY <1>1, <1>11, CellsHold
  <2>2. new[p.field] = "asked"
    BY <1>4, <2>1
  <2>3. PICK vain : vain = {}
    OBVIOUS
  <2>8. vain \in SUBSET {p.field}
    BY <2>3
  <2>4. p.hollow \cup vain = p.hollow
    BY <2>3
  <2>5. [p EXCEPT !.at = "pick", !.ok = p.ok \cup {p.field}]
          = [p EXCEPT !.at = "pick", !.ok = p.ok \cup {p.field}, !.hollow = p.hollow \cup vain]
    BY <1>2, <2>4 DEF PatchRecord
  <2>6. Puts(c, [p EXCEPT !.at = "pick", !.ok = p.ok \cup {p.field}, !.hollow = p.hollow \cup vain])
    BY <1>11, <2>5 DEF Puts
  <2>7. Remembers(p) /\ <<p.cand, p.order[p.pos]>> \in Takes(p.field, p.schema)
    BY <1>11
  <2> QED
    BY <1>10, <2>1, <2>2, <2>6, <2>7, <2>8
<1>12. CASE /\ Ladder(p) = "dict" /\ p.order[p.pos] = Bare /\ UNCHANGED cells /\ Remembers(p)
            /\ Puts(c, [p EXCEPT !.at = "pick", !.ok = p.ok \cup {p.field}, !.hollow = p.hollow \cup {p.field}])
  <2>1. PICK new : cells' = [cells EXCEPT ![c] = new] /\ Grows(cell, new)
    BY <1>1, <1>12, CellsRest
  <2>2. PICK vain : vain = {p.field} /\ vain \in SUBSET {p.field}
    OBVIOUS
  <2>3. p.field \in vain /\ Puts(c, [p EXCEPT !.at = "pick", !.ok = p.ok \cup {p.field}, !.hollow = p.hollow \cup vain])
    BY <1>12, <2>2
  <2> QED
    BY <1>10, <1>12, <2>1, <2>2, <2>3
<1>13. CASE <<p.cand, p.order[p.pos]>> \notin Takes(p.field, p.schema) /\ Puts(c, d) /\ UNCHANGED <<cells, hint>>
  <2>1. PICK new : cells' = [cells EXCEPT ![c] = new] /\ Grows(cell, new)
    BY <1>1, <1>13, CellsRest
  <2>2. PICK same, q : same = p.pressed /\ q = [d EXCEPT !.pressed = same]
    OBVIOUS
  <2>3. q = d
    BY <1>8, <2>2 DEF PatchRecord
  <2>4. PatchHolds(q, new)
    BY <1>2, <1>3, <1>6, <1>7, <1>13, <2>1, <2>2, OnwardsHolds
  <2> QED
    BY <1>2, <1>3, <1>9, <1>13, <2>1, <2>3, <2>4
<1>14. CASE Puts(c, [d EXCEPT !.pressed = over]) /\ UNCHANGED hint /\ (Maybe(c, {p.field}) \/ UNCHANGED cells)
  <2>1. PICK new : cells' = [cells EXCEPT ![c] = new] /\ Grows(cell, new)
    BY <1>1, <1>14, CellsMay
  <2>2. PICK q : q = [d EXCEPT !.pressed = over]
    OBVIOUS
  <2>3. PatchHolds(q, new)
    BY <1>2, <1>3, <1>6, <1>7, <2>1, <2>2, OnwardsHolds
  <2> QED
    BY <1>2, <1>3, <1>9, <1>14, <2>1, <2>2, <2>3
<1>15. CASE /\ p.conflicts < ConflictTries /\ Puts(c, [p EXCEPT !.conflicts = p.conflicts + 1])
            /\ UNCHANGED <<cells, hint>>
  <2>1. PICK new : cells' = [cells EXCEPT ![c] = new] /\ Grows(cell, new)
    BY <1>1, <1>15, CellsRest
  <2>2. PICK q : q = [p EXCEPT !.conflicts = p.conflicts + 1]
    OBVIOUS
  <2>3. p.conflicts + 1 \in 0 .. ConflictTries
    BY <1>2, <1>15 DEF PatchRecord, ConflictTries
  <2>4. /\ q \in PatchRecord /\ q.at = "try" /\ q.ok = p.ok /\ q.hollow = p.hollow /\ q.failed = p.failed
        /\ q.pressed = p.pressed /\ q.field = p.field /\ q.schema = p.schema /\ q.cand = p.cand /\ q.pos = p.pos
        /\ q.order = p.order
    BY <1>2, <1>3, <2>2, <2>3 DEF PatchRecord
  <2>5. Reported(q, new)
    BY <1>2, <1>4, <2>1, <2>4 DEF Reported, Grows, PatchRecord
  <2>6. TryTurn(q)
    BY <1>3, <1>4, <2>4 DEF TryTurn, Untried
  <2>7. PatchHolds(q, new)
    BY <1>4, <2>1, <2>4, <2>5, <2>6 DEF PatchHolds, GivenUp, TextTurn, Grows
  <2> QED
    BY <1>2, <1>3, <1>9, <1>15, <2>1, <2>2, <2>7
<1>16. CASE Puts(c, Conflicted(p)) /\ UNCHANGED <<cells, hint>>
  <2>1. CASE p.conflicts < ConflictTries
    BY <1>15, <1>16, <2>1 DEF Conflicted
  <2>2. CASE ~(p.conflicts < ConflictTries)
    <3>1. Conflicted(p) = [d EXCEPT !.pressed = over]
      BY <1>5, <1>7, <1>8, <2>2 DEF Conflicted
    <3> QED
      BY <1>14, <1>16, <3>1
  <2> QED
    BY <2>1, <2>2
<1>17. CASE /\ Puts(c, [Onwards(p) EXCEPT !.pressed = Onwards(p).pressed \cup {p.field}]) /\ UNCHANGED hint
            /\ Maybe(c, {p.field}) \/ UNCHANGED cells
  BY <1>5, <1>7, <1>8, <1>14, <1>17
<1> QED
  BY <1>1, <1>7, <1>11, <1>12, <1>13, <1>16, <1>17 DEF TryBody

LEMMA SilenceKeeps == ASSUME FieldInv, NEW c \in fieldRegime.callers, Silence(c) PROVE FieldInv'
<1>1. PICK p, cell : p = patch[c] /\ cell = cells[c]
  OBVIOUS
<1>2. PatchHolds(p, cell) /\ p \in PatchRecord /\ MindHolds(hint, noText)
  BY <1>1, PatchNow
<1>3. PICK fs : fs = IF p.at = "try" THEN {p.field} ELSE p.now
  OBVIOUS
<1>4. /\ UNCHANGED <<fieldRegime, hint, noText>> /\ Maybe(c, fs)
      /\ Puts(c, [p EXCEPT !.at = "end", !.fine = FALSE, !.todo = {}])
  BY <1>1, <1>3 DEF Silence, Shared
<1>5. PICK new : cells' = [cells EXCEPT ![c] = new] /\ Grows(cell, new)
  BY <1>1, <1>4, CellsMay
<1>6. PICK d : d = [p EXCEPT !.at = "end", !.fine = FALSE, !.todo = {}]
  OBVIOUS
<1>7. /\ d \in PatchRecord /\ d.ok = p.ok /\ d.failed = p.failed /\ d.pressed = p.pressed /\ d.hollow = p.hollow
      /\ d.at = "end"
  BY <1>2, <1>6 DEF PatchRecord, PatchSteps
<1>8. PatchHolds(d, new)
  BY <1>2, <1>5, <1>7, PatchSteady
<1>9. patch' = [patch EXCEPT ![c] = d] /\ MindHolds(hint', noText')
  BY <1>2, <1>4, <1>6 DEF Puts
<1> QED
  BY <1>4, <1>5, <1>8, <1>9, FieldGoesOn

(* Every step of the calls keeps it. *)
LEMMA FieldKept == ASSUME FieldInv, FieldNext PROVE FieldInv'
BY BeginKeeps, SetTextKeeps, LoadSchemaKeeps, BulkKeeps, PickKeeps, TryBodyKeeps, SilenceKeeps DEF FieldNext

-----------------------------------------------------------------------------
(* One call that writes, on any Plaky, with any misfortunes on the way.        *)

ItemRecord ==
  [by : {"us", "them"}, parent : BOOLEAN, text : {"asked", "default", "theirs"}, comments : 0 .. 3]
WriteSteps ==
  {"post_item", "find", "repair", "describe", "post_subtask", "load_parent", "post_public",
   "comment", "search", "old_path", "delete", "end"}
OpRecord ==
  [call : Calls, at : WriteSteps,
   attempt : 0 .. Retries, shape : 1 .. SubtaskShapes, item : Nat, path : Boards, tried : SUBSET Boards,
   bearer : BOOLEAN, blind : BOOLEAN, result : {"none", "ok", "failed", "raised"}]
(* Items are numbered without a gap, and only the first can be gone. *)
Numbered(rows, n) ==
  rows \in [0 .. n - 1 -> ItemRecord] \/ (n >= 2 /\ rows \in [1 .. n - 1 -> ItemRecord])
RowsHold(rows) == \E n \in Nat : Numbered(rows, n)
LeftHolds(reg, left) == left \in [Misfortunes -> Nat] /\ \A c \in Misfortunes : left[c] <= reg.budget[c]
Made(rows) == {i \in DOMAIN rows : rows[i].by = "us"}
Lost(reg, left) == \E c \in {"broken", "lost"} : left[c] < reg.budget[c]
Excused(reg, left, o) == o.blind /\ (left.added < reg.budget.added \/ reg.page <= reg.others)
Untouched(row) == row.text = "theirs" /\ row.comments = 0
(* What a call that makes an item has made, and told. *)
Makes(reg, left, rows, o) ==
  /\ \A i, j \in Made(rows) : i = j
  /\ o.at \in {"post_item", "post_subtask", "load_parent", "post_public"} => Made(rows) = {}
  /\ o.result = "ok" => Made(rows) # {}
  /\ o.result = "failed" /\ Made(rows) # {} => Lost(reg, left)
  /\ \A i \in DOMAIN rows : rows[i].by = "them" => Untouched(rows[i]) \/ Excused(reg, left, o)
Creates(reg, left, rows, o) ==
  o.call = "create" =>
    /\ o.at \in {"post_item", "find", "repair", "describe", "end"} /\ Makes(reg, left, rows, o)
    /\ o.at # "end" => \A i \in DOMAIN rows : rows[i].comments = 0
    /\ o.at \in {"find", "repair", "describe"} => o.result = "ok"
    /\ o.at \in {"post_item", "find"} => \A i \in DOMAIN rows : rows[i].by = "them" => Untouched(rows[i])
    /\ o.at = "post_item" /\ left["added"] = reg.budget["added"] => DOMAIN rows = 0 .. reg.others - 1
    /\ o.at = "find" /\ left["added"] = reg.budget["added"] =>
         DOMAIN rows = 0 .. reg.others /\ rows[reg.others].by = "us"
    /\ o.at = "find" => o.blind
    /\ o.at \in {"repair", "describe"} =>
         o.item \in DOMAIN rows /\ (rows[o.item].by = "us" \/ Excused(reg, left, o))
Branches(reg, left, rows, o) ==
  o.call = "subtask" =>
    /\ o.at \in {"post_subtask", "load_parent", "post_public", "end"} /\ Makes(reg, left, rows, o)
    /\ \A i \in Made(rows) : rows[i].parent
(* How often the call has commented. *)
Comments(reg, left, rows, o) ==
  o.call = "comment" =>
    /\ o.at \in {"comment", "search", "old_path", "end"} /\ Target \in DOMAIN rows /\ Made(rows) = {}
    /\ o.at = "comment" => o.path \notin o.tried
    /\ o.at \in {"comment", "search"} => rows[Target].comments <= (IF reg.home \in o.tried THEN 1 ELSE 0)
    /\ o.at = "old_path" => rows[Target].comments <= 1
    /\ o.at # "end" => rows[Target].comments = 0 \/ Lost(reg, left)
    /\ o.result = "ok" => rows[Target].comments > 0
    /\ o.at = "end" => Lost(reg, left) \/ rows[Target].comments = (IF o.result = "ok" THEN 1 ELSE 0)
Deletes(reg, left, rows, o) ==
  o.call = "delete" =>
    /\ o.at \in {"delete", "end"} /\ Made(rows) = {}
    /\ IF o.at = "end" /\ o.result = "ok" THEN Target \notin DOMAIN rows
       ELSE Target \in DOMAIN rows \/ Lost(reg, left)
Writes(reg, left, rows, o) ==
  /\ LeftHolds(reg, left) /\ RowsHold(rows) /\ o \in OpRecord
  /\ Creates(reg, left, rows, o) /\ Branches(reg, left, rows, o)
  /\ Comments(reg, left, rows, o) /\ Deletes(reg, left, rows, o)
WriteInv == writeRegime \in WriteRegimes /\ Writes(writeRegime, writeLeft, items, op)

LEMMA WriteFacts ==
  ASSUME WriteInv
  PROVE  /\ writeRegime.budget \in [Misfortunes -> Nat] /\ writeRegime.others \in Nat \ {0} /\ writeRegime.page \in Nat
         /\ writeRegime.asked \in Boards /\ writeRegime.home \in Boards
         /\ writeRegime.legacy \in BOOLEAN /\ writeRegime.refusals \cap (Misfortunes \cup {"2xx"}) = {}
BY WriteAssumption DEF WriteInv

(* What is left after a misfortune. *)
Wears(reg, left, new) ==
  LeftHolds(reg, new) /\ new["added"] = left["added"] /\ (Lost(reg, left) => Lost(reg, new))
LEMMA WearsSame == ASSUME NEW reg, NEW left, LeftHolds(reg, left) PROVE Wears(reg, left, left)
BY DEF Wears

(* What an answer says of what was done. *)
Answered(reg, left, takes, refusals, done, code) ==
  /\ done \in BOOLEAN /\ (done => takes) /\ (code = "2xx" => done) /\ (done => code \in {"2xx", "broken", "lost"})
  /\ code \in {"broken", "lost"} => Lost(reg, left)
  /\ code \in {"2xx", "busy", "broken", "lost"} \/ code \in refusals
Answer(reg, left, takes, refusals, r, new) ==
  /\ LeftHolds(reg, left) /\ reg.budget \in [Misfortunes -> Nat] /\ takes \in BOOLEAN
  /\ refusals \cap (Misfortunes \cup {"2xx"}) = {}
  /\ r \in Reactions(takes, refusals) /\ (r.code \in DOMAIN left => left[r.code] > 0)
  /\ new = [c \in DOMAIN left |-> left[c] - (IF c = r.code THEN 1 ELSE 0)]
LEMMA AnswerIs ==
  ASSUME NEW reg, NEW left, NEW takes, NEW refusals, NEW r, NEW new, Answer(reg, left, takes, refusals, r, new)
  PROVE  Wears(reg, left, new) /\ Answered(reg, new, takes, refusals, r.done, r.code)
<1> USE DEF Answer
<1>1. left \in [Misfortunes -> Nat] /\ DOMAIN left = Misfortunes
  BY DEF LeftHolds
<1>2. PICK code, done : code = r.code /\ done = r.done
  OBVIOUS
<1>3. /\ code \in {"2xx", "busy", "broken", "lost"} \/ code \in refusals
      /\ done \in BOOLEAN /\ (done => takes) /\ (code = "2xx" => done) /\ (done => code \in {"2xx", "broken", "lost"})
  <2>1. CASE takes
    <3>1. \/ r = [done |-> TRUE, code |-> "2xx"]
          \/ r = [done |-> FALSE, code |-> "busy"]
          \/ r \in [done : BOOLEAN, code : {"broken", "lost"}]
      BY <2>1 DEF Reactions
    <3>2. \/ done = TRUE /\ code = "2xx"
          \/ done = FALSE /\ code = "busy"
          \/ done \in BOOLEAN /\ code \in {"broken", "lost"}
      BY <1>2, <3>1
    <3> QED
      BY <2>1, <3>2
  <2>2. CASE ~takes
    BY <1>2, <2>2 DEF Reactions
  <2> QED
    BY <2>1, <2>2
<1>4. code # "added"
  BY <1>3 DEF Misfortunes
<1>5. \A c \in Misfortunes : new[c] = left[c] - (IF c = code THEN 1 ELSE 0) /\ left[c] \in Nat
  BY <1>1, <1>2
<1>6. \A c \in Misfortunes : (c = code => left[c] > 0) /\ left[c] <= reg.budget[c] /\ reg.budget[c] \in Nat
  BY <1>1, <1>2 DEF LeftHolds
<1>7. \A c \in Misfortunes : new[c] \in Nat /\ new[c] <= reg.budget[c] /\ new[c] <= left[c]
                             /\ (c = code => new[c] < reg.budget[c])
  BY <1>5, <1>6
<1>8. new \in [Misfortunes -> Nat]
  BY <1>1, <1>7
<1>9. "added" \in Misfortunes /\ "broken" \in Misfortunes /\ "lost" \in Misfortunes
  BY DEF Misfortunes
<1>10. new["added"] = left["added"]
  BY <1>4, <1>5, <1>9
<1>11. ASSUME Lost(reg, left) PROVE Lost(reg, new)
  <2>1. PICK c \in {"broken", "lost"} : left[c] < reg.budget[c]
    BY <1>11 DEF Lost
  <2>2. c \in Misfortunes
    BY <1>9, <2>1
  <2>3. new[c] < reg.budget[c]
    BY <1>5, <1>6, <1>7, <2>1, <2>2
  <2> QED
    BY <2>1, <2>3 DEF Lost
<1>12. code \in {"broken", "lost"} => Lost(reg, new)
  BY <1>7, <1>9 DEF Lost
<1> QED
  BY <1>2, <1>3, <1>7, <1>8, <1>10, <1>11, <1>12 DEF Wears, Answered, LeftHolds

(* How the call itself goes on. *)
CallBecomes(o, d, step, result) ==
  /\ d \in OpRecord /\ d.at = step /\ d.result = result /\ d.call = o.call
  /\ d.item = o.item /\ d.path = o.path /\ d.tried = o.tried /\ d.blind = o.blind
LEMMA Counts ==
  /\ 0 \in 0 .. Retries /\ 1 \in 1 .. SubtaskShapes /\ ItemShapes < SubtaskShapes
  /\ \A n \in 0 .. Retries : n < Retries => n + 1 \in 0 .. Retries
  /\ \A n \in 1 .. SubtaskShapes : n < SubtaskShapes => n + 1 \in 1 .. SubtaskShapes
BY DEF Retries, ItemShapes, SubtaskShapes

LEMMA OpRetries ==
  ASSUME op \in OpRecord, op.attempt < Retries, NEW d, d = [op EXCEPT !.attempt = @ + 1]
  PROVE  CallBecomes(op, d, op.at, op.result)
<1>1. op.attempt + 1 \in 0 .. Retries
  BY Counts DEF OpRecord
<1> QED
  BY <1>1 DEF OpRecord, CallBecomes

LEMMA OpReshapes ==
  ASSUME op \in OpRecord, op.shape < SubtaskShapes, NEW d, d = [[op EXCEPT !.shape = @ + 1] EXCEPT !.attempt = 0]
  PROVE  CallBecomes(op, d, op.at, op.result)
<1>1. op.shape + 1 \in 1 .. SubtaskShapes /\ 0 \in 0 .. Retries
  BY Counts DEF OpRecord
<1> QED
  BY <1>1 DEF OpRecord, CallBecomes

LEMMA OpEnds ==
  ASSUME op \in OpRecord, NEW result \in {"ok", "failed", "raised"}, NEW d,
         d = [Ends(result) EXCEPT !.attempt = 0] \/ d = Ends(result)
  PROVE  CallBecomes(op, d, "end", result)
<1>1. PICK q : q = Ends(result)
  OBVIOUS
<1>2. q \in OpRecord /\ CallBecomes(op, q, "end", result)
  BY <1>1 DEF OpRecord, WriteSteps, CallBecomes, Ends
<1>3. 0 \in 0 .. Retries
  BY Counts
<1>4. CASE d = [q EXCEPT !.attempt = 0]
  BY <1>2, <1>3, <1>4 DEF OpRecord, CallBecomes
<1> QED
  BY <1>1, <1>2, <1>4

LEMMA OpGoes ==
  ASSUME op \in OpRecord, NEW step \in {"end", "load_parent", "post_public", "old_path"}, NEW d,
         d = [Goes(step) EXCEPT !.attempt = 0] \/ d = Goes(step)
  PROVE  CallBecomes(op, d, step, op.result)
<1>1. PICK q : q = Goes(step)
  OBVIOUS
<1>2. q \in OpRecord /\ CallBecomes(op, q, step, op.result)
  BY <1>1 DEF OpRecord, WriteSteps, CallBecomes, Goes
<1>3. 0 \in 0 .. Retries
  BY Counts
<1>4. CASE d = [q EXCEPT !.attempt = 0]
  BY <1>2, <1>3, <1>4 DEF OpRecord, CallBecomes
<1> QED
  BY <1>1, <1>2, <1>4

(* The items, before and after. *)
LEMMA NewIdIs == ASSUME NEW n \in Nat, Numbered(items, n) PROVE NewId = n
<1>1. PICK ids : ids = DOMAIN items
  OBVIOUS
<1>2. ids = 0 .. n - 1 \/ (n >= 2 /\ ids = 1 .. n - 1)
  BY <1>1 DEF Numbered
<1>3. PICK S : S = {0} \cup {i + 1 : i \in ids}
  OBVIOUS
<1>4. n \in S
  <2>1. CASE n = 0
    BY <1>3, <2>1
  <2>2. CASE n # 0
    <3>1. n - 1 \in ids /\ n = (n - 1) + 1
      BY <1>2, <2>2
    <3> QED
      BY <1>3, <3>1
  <2> QED
    BY <2>1, <2>2
<1>5. \A y \in S : y \in Nat /\ n >= y
  BY <1>2, <1>3
<1>6. \A x \in S : (\A y \in S : x >= y) => x = n
  BY <1>4, <1>5
<1>7. NewId = Max(S)
  BY <1>1, <1>3 DEF NewId
<1> QED
  BY <1>4, <1>5, <1>6, <1>7 DEF Max

(* A row more, and the others as they were. *)
Adds(rows, new, id, row) ==
  /\ RowsHold(new) /\ id \notin DOMAIN rows /\ DOMAIN new = DOMAIN rows \cup {id} /\ id \in Nat
  /\ new[id] = row /\ (\A i \in DOMAIN rows : new[i] = rows[i])
  /\ \A m \in Nat : DOMAIN rows = 0 .. m - 1 => id = m
LEMMA WithAdds ==
  ASSUME RowsHold(items), NEW row, row \in ItemRecord, NEW new, new = With(NewId, row)
  PROVE  Adds(items, new, NewId, row)
<1>1. PICK n \in Nat : Numbered(items, n)
  BY DEF RowsHold
<1>2. NewId = n
  BY <1>1, NewIdIs
<1>3. PICK ids : ids = DOMAIN items
  OBVIOUS
<1>4. ids = 0 .. n - 1 \/ (n >= 2 /\ ids = 1 .. n - 1)
  BY <1>1, <1>3 DEF Numbered
<1>5. \A i \in ids : items[i] \in ItemRecord
  BY <1>1, <1>3 DEF Numbered
<1>6. new = [i \in ids \cup {n} |-> IF i = n THEN row ELSE items[i]]
  BY <1>2, <1>3 DEF With
<1>7. n \notin ids /\ n + 1 \in Nat
  BY <1>4
<1>8. /\ DOMAIN new = ids \cup {n} /\ new[n] = row /\ (\A i \in ids : new[i] = items[i])
      /\ \A i \in ids \cup {n} : new[i] \in ItemRecord
  BY <1>5, <1>6, <1>7
<1>9. \/ ids \cup {n} = 0 .. (n + 1) - 1
      \/ n + 1 >= 2 /\ ids \cup {n} = 1 .. (n + 1) - 1
  <2>1. CASE ids = 0 .. n - 1
    BY <2>1
  <2>2. CASE n >= 2 /\ ids = 1 .. n - 1
    BY <2>2
  <2> QED
    BY <1>4, <2>1, <2>2
<1>10. PICK D : D = ids \cup {n}
  OBVIOUS
<1>11. new \in [D -> ItemRecord]
  BY <1>6, <1>8, <1>10
<1>12. Numbered(new, n + 1)
  BY <1>9, <1>10, <1>11 DEF Numbered
<1>13. RowsHold(new)
  BY <1>7, <1>12 DEF RowsHold
<1>14. ASSUME NEW m \in Nat, ids = 0 .. m - 1 PROVE n = m
  <2>1. CASE n < m
    <3>1. n \in 0 .. m - 1
      BY <2>1
    <3> QED
      BY <1>7, <1>14, <3>1
  <2>2. CASE n > m
    <3>1. n - 1 \in ids /\ n - 1 \notin 0 .. m - 1
      BY <1>4, <2>2
    <3> QED
      BY <1>14, <3>1
  <2> QED
    BY <2>1, <2>2
<1> QED
  BY <1>2, <1>3, <1>7, <1>8, <1>13, <1>14 DEF Adds

(* One row is changed. *)
Changes(rows, new, id, row) ==
  /\ RowsHold(new) /\ DOMAIN new = DOMAIN rows /\ new[id] = row
  /\ \A i \in DOMAIN rows : i # id => new[i] = rows[i]
LEMMA ExceptChanges ==
  ASSUME NEW rows, RowsHold(rows), NEW id, id \in DOMAIN rows, NEW row, row \in ItemRecord,
         NEW new, new = [rows EXCEPT ![id] = row]
  PROVE  Changes(rows, new, id, row)
<1>1. PICK n \in Nat : Numbered(rows, n)
  BY DEF RowsHold
<1>2. Numbered(new, n)
  BY <1>1 DEF Numbered
<1>3. DOMAIN new = DOMAIN rows /\ new[id] = row /\ \A i \in DOMAIN rows : i # id => new[i] = rows[i]
  BY <1>1 DEF Numbered
<1> QED
  BY <1>2, <1>3 DEF Changes, RowsHold

LEMMA RowIs == ASSUME NEW rows, RowsHold(rows), NEW i, i \in DOMAIN rows PROVE rows[i] \in ItemRecord
BY DEF RowsHold, Numbered

LEMMA CommentedChanges ==
  ASSUME RowsHold(items), NEW id, id \in DOMAIN items, items[id].comments < 3, NEW new, new = Commented(id)
  PROVE  \E row : /\ Changes(items, new, id, row) /\ row.comments = items[id].comments + 1
                  /\ row.by = items[id].by /\ row.text = items[id].text /\ row.parent = items[id].parent
<1>1. PICK old : old = items[id]
  OBVIOUS
<1>2. old \in ItemRecord
  BY <1>1, RowIs
<1>3. old.comments \in 0 .. 3 /\ old.comments < 3
  BY <1>1, <1>2 DEF ItemRecord
<1>4. PICK k : k = old.comments + 1
  OBVIOUS
<1>5. k \in 0 .. 3
  BY <1>3, <1>4
<1>6. PICK row : row = [old EXCEPT !.comments = k]
  OBVIOUS
<1>7. /\ row \in ItemRecord /\ row.comments = k
      /\ row.by = old.by /\ row.text = old.text /\ row.parent = old.parent
  BY <1>2, <1>5, <1>6 DEF ItemRecord
<1>8. new = [items EXCEPT ![id] = row]
  BY <1>1, <1>2, <1>4, <1>6 DEF Commented, RowsHold, Numbered
<1>9. Changes(items, new, id, row)
  BY <1>7, <1>8, ExceptChanges
<1> QED
  BY <1>1, <1>4, <1>7, <1>9

LEMMA DeleteRows ==
  ASSUME RowsHold(items), Target \in DOMAIN items, NEW new, new = [i \in DOMAIN items \ {Target} |-> items[i]]
  PROVE  RowsHold(new) /\ Target \notin DOMAIN new /\ Made(new) \subseteq Made(items)
<1>1. PICK n \in Nat : Numbered(items, n)
  BY DEF RowsHold
<1>2. items \in [0 .. n - 1 -> ItemRecord] /\ n >= 1 /\ DOMAIN items = 0 .. n - 1
  BY <1>1 DEF Numbered, Target
<1>3. PICK D : D = DOMAIN items \ {Target}
  OBVIOUS
<1>4. D = 1 .. n - 1
  BY <1>2, <1>3 DEF Target
<1>5. new \in [D -> ItemRecord] /\ Target \notin D /\ Made(new) \subseteq Made(items)
  BY <1>2, <1>3 DEF Made
<1>6. CASE n >= 2
  BY <1>4, <1>5, <1>6 DEF RowsHold, Numbered
<1>7. CASE n = 1
  <2>1. D = 0 .. 0 - 1
    BY <1>4, <1>7
  <2>2. Numbered(new, 0)
    BY <1>5, <2>1 DEF Numbered
  <2> QED
    BY <1>5, <2>2 DEF RowsHold
<1>8. n >= 2 \/ n = 1
  BY <1>2
<1> QED
  BY <1>6, <1>7, <1>8

(* A call of one kind. *)
LEMMA OfCreate ==
  ASSUME NEW reg, NEW left, NEW rows, NEW o, LeftHolds(reg, left), RowsHold(rows), o \in OpRecord,
         o.call = "create", Creates(reg, left, rows, o)
  PROVE  Writes(reg, left, rows, o)
BY DEF Writes, Branches, Comments, Deletes

LEMMA OfSubtask ==
  ASSUME NEW reg, NEW left, NEW rows, NEW o, LeftHolds(reg, left), RowsHold(rows), o \in OpRecord,
         o.call = "subtask", Branches(reg, left, rows, o)
  PROVE  Writes(reg, left, rows, o)
BY DEF Writes, Creates, Comments, Deletes

LEMMA OfComment ==
  ASSUME NEW reg, NEW left, NEW rows, NEW o, LeftHolds(reg, left), RowsHold(rows), o \in OpRecord,
         o.call = "comment", Comments(reg, left, rows, o)
  PROVE  Writes(reg, left, rows, o)
BY DEF Writes, Creates, Branches, Deletes

LEMMA OfDelete ==
  ASSUME NEW reg, NEW left, NEW rows, NEW o, LeftHolds(reg, left), RowsHold(rows), o \in OpRecord,
         o.call = "delete", Deletes(reg, left, rows, o)
  PROVE  Writes(reg, left, rows, o)
BY DEF Writes, Creates, Branches, Comments

LEMMA CallOf ==
  ASSUME NEW reg, NEW left, NEW rows, NEW o, Writes(reg, left, rows, o)
  PROVE  /\ o.at \in {"post_item", "find", "repair", "describe"} => o.call = "create"
         /\ o.at \in {"post_subtask", "load_parent", "post_public"} => o.call = "subtask"
         /\ o.at \in {"comment", "search", "old_path"} => o.call = "comment"
         /\ o.at = "delete" => o.call = "delete"
<1>1. o.call \in {"create", "subtask", "comment", "delete"}
  BY DEF Writes, OpRecord, Calls
<1>2. o.call = "create" => o.at \in {"post_item", "find", "repair", "describe", "end"}
  BY DEF Writes, Creates
<1>3. o.call = "subtask" => o.at \in {"post_subtask", "load_parent", "post_public", "end"}
  BY DEF Writes, Branches
<1>4. o.call = "comment" => o.at \in {"comment", "search", "old_path", "end"}
  BY DEF Writes, Comments
<1>5. o.call = "delete" => o.at \in {"delete", "end"}
  BY DEF Writes, Deletes
<1> QED
  BY <1>1, <1>2, <1>3, <1>4, <1>5

(* Nothing is done, and the call stands where it stood. *)
LEMMA SteadyMakes ==
  ASSUME NEW reg, NEW left, NEW rows, NEW o, Makes(reg, left, rows, o), NEW new, Wears(reg, left, new),
         NEW d, d.at = o.at, d.result = o.result, d.blind = o.blind
  PROVE  Makes(reg, new, rows, d)
<1>1. (Lost(reg, left) => Lost(reg, new)) /\ new["added"] = left["added"]
  BY DEF Wears
<1>2. Excused(reg, left, o) => Excused(reg, new, d)
  BY <1>1 DEF Excused
<1> QED
  BY <1>1, <1>2 DEF Makes

LEMMA Steady ==
  ASSUME NEW reg, NEW left, NEW rows, NEW o, Writes(reg, left, rows, o), NEW new, Wears(reg, left, new),
         NEW d, CallBecomes(o, d, o.at, o.result)
  PROVE  Writes(reg, new, rows, d)
<1>1. /\ d \in OpRecord /\ d.at = o.at /\ d.result = o.result /\ d.call = o.call
      /\ d.item = o.item /\ d.path = o.path /\ d.tried = o.tried /\ d.blind = o.blind
  BY DEF CallBecomes
<1>2. (Lost(reg, left) => Lost(reg, new)) /\ new["added"] = left["added"] /\ LeftHolds(reg, new)
  BY DEF Wears
<1>3. Excused(reg, left, o) => Excused(reg, new, d)
  BY <1>1, <1>2 DEF Excused
<1>4. RowsHold(rows) /\ o \in OpRecord /\ o.call \in {"create", "subtask", "comment", "delete"}
  BY DEF Writes, OpRecord, Calls
<1>5. Makes(reg, left, rows, o) => Makes(reg, new, rows, d)
  BY <1>1, SteadyMakes
<1>6. CASE o.call = "create"
  <2>1. Creates(reg, left, rows, o)
    BY DEF Writes
  <2>2. Creates(reg, new, rows, d)
    BY <1>1, <1>2, <1>3, <1>5, <1>6, <2>1 DEF Creates
  <2> QED
    BY <1>1, <1>2, <1>4, <1>6, <2>2, OfCreate
<1>7. CASE o.call = "subtask"
  <2>1. Branches(reg, left, rows, o)
    BY DEF Writes
  <2>2. Branches(reg, new, rows, d)
    BY <1>1, <1>5, <1>7, <2>1 DEF Branches
  <2> QED
    BY <1>1, <1>2, <1>4, <1>7, <2>2, OfSubtask
<1>8. CASE o.call = "comment"
  <2>1. Comments(reg, left, rows, o)
    BY DEF Writes
  <2>2. Comments(reg, new, rows, d)
    BY <1>1, <1>2, <1>8, <2>1 DEF Comments
  <2> QED
    BY <1>1, <1>2, <1>4, <1>8, <2>2, OfComment
<1>9. CASE o.call = "delete"
  <2>1. Deletes(reg, left, rows, o)
    BY DEF Writes
  <2>2. Deletes(reg, new, rows, d)
    BY <1>1, <1>2, <1>9, <2>1 DEF Deletes
  <2> QED
    BY <1>1, <1>2, <1>4, <1>9, <2>2, OfDelete
<1> QED
  BY <1>4, <1>6, <1>7, <1>8, <1>9

(* The call ends with nothing made. *)
LEMMA MadeNothing ==
  ASSUME NEW reg, NEW left, NEW rows, NEW o, Writes(reg, left, rows, o), NEW new, Wears(reg, left, new),
         o.at \in {"post_item", "post_subtask", "load_parent", "post_public"},
         NEW d, NEW result \in {"failed", "raised"}, CallBecomes(o, d, "end", result)
  PROVE  Writes(reg, new, rows, d)
<1>1. /\ d \in OpRecord /\ d.at = "end" /\ d.result \in {"failed", "raised"} /\ d.call = o.call /\ d.blind = o.blind
  BY DEF CallBecomes
<1>2. new["added"] = left["added"] /\ LeftHolds(reg, new) /\ RowsHold(rows)
  BY DEF Wears, Writes
<1>3. Excused(reg, left, o) => Excused(reg, new, d)
  BY <1>1, <1>2 DEF Excused
<1>4. ASSUME Makes(reg, left, rows, o) PROVE Makes(reg, new, rows, d)
  <2>1. Made(rows) = {}
    BY <1>4 DEF Makes
  <2> QED
    BY <1>1, <1>3, <1>4, <2>1 DEF Makes
<1>5. CASE o.at = "post_item"
  <2>1. o.call = "create" /\ Creates(reg, left, rows, o)
    BY <1>5, CallOf DEF Writes
  <2>2. Creates(reg, new, rows, d)
    BY <1>1, <1>4, <1>5, <2>1 DEF Creates
  <2> QED
    BY <1>1, <1>2, <2>1, <2>2, OfCreate
<1>6. CASE o.at # "post_item"
  <2>1. o.call = "subtask" /\ Branches(reg, left, rows, o)
    BY <1>6, CallOf DEF Writes
  <2>2. Branches(reg, new, rows, d)
    BY <1>1, <1>4, <1>6, <2>1 DEF Branches
  <2> QED
    BY <1>1, <1>2, <2>1, <2>2, OfSubtask
<1> QED
  BY <1>5, <1>6

(* Something is made. *)
MakesOne(reg, left, rows, o, worn, new, id, row, d) ==
  /\ Makes(reg, left, rows, o) /\ Made(rows) = {} /\ Adds(rows, new, id, row) /\ row.by = "us"
  /\ Excused(reg, left, o) => Excused(reg, worn, d)
  /\ d.at \notin {"post_item", "post_subtask", "load_parent", "post_public"}
  /\ d.result = "failed" => Lost(reg, worn)
LEMMA MadeIs ==
  ASSUME NEW reg, NEW left, NEW rows, NEW o, NEW worn, NEW new, NEW id, NEW row, NEW d,
         MakesOne(reg, left, rows, o, worn, new, id, row, d)
  PROVE  Makes(reg, worn, new, d) /\ Made(new) = {id}
<1> USE DEF MakesOne
<1>1. id \notin DOMAIN rows /\ DOMAIN new = DOMAIN rows \cup {id} /\ new[id] = row /\ \A i \in DOMAIN rows : new[i] = rows[i]
  BY DEF Adds
<1>2. Made(new) = {id}
  BY <1>1 DEF Made
<1>5. ASSUME NEW i \in DOMAIN new, new[i].by = "them" PROVE Untouched(new[i]) \/ Excused(reg, worn, d)
  <2>1. i \in DOMAIN rows /\ new[i] = rows[i]
    BY <1>1, <1>5
  <2> QED
    BY <1>5, <2>1 DEF Makes
<1> QED
  BY <1>2, <1>5 DEF Makes

LEMMA MadeOne ==
  ASSUME NEW reg, NEW left, NEW rows, NEW o, Writes(reg, left, rows, o), NEW worn, Wears(reg, left, worn),
         o.at \in {"post_item", "post_subtask", "post_public"},
         NEW new, NEW id, NEW row, Adds(rows, new, id, row), row.by = "us", o.call = "subtask" => row.parent,
         NEW d, NEW result \in {"ok", "failed", "raised"}, CallBecomes(o, d, "end", result),
         result = "ok" \/ Lost(reg, worn)
  PROVE  Writes(reg, worn, new, d)
<1>1. /\ d \in OpRecord /\ d.at = "end" /\ d.result = result /\ d.call = o.call /\ d.blind = o.blind
  BY DEF CallBecomes
<1>2. LeftHolds(reg, worn) /\ RowsHold(new) /\ RowsHold(rows)
  BY DEF Wears, Writes, Adds
<1>3. ASSUME Makes(reg, left, rows, o) PROVE Makes(reg, worn, new, d) /\ Made(new) = {id}
  <2>1. Made(rows) = {}
    BY <1>3 DEF Makes
  <2>2. /\ d.at \notin {"post_item", "post_subtask", "load_parent", "post_public"}
        /\ (d.result = "failed" => Lost(reg, worn)) /\ (Excused(reg, left, o) => Excused(reg, worn, d))
    BY <1>1 DEF Wears, Excused
  <2>3. MakesOne(reg, left, rows, o, worn, new, id, row, d)
    BY <1>3, <2>1, <2>2 DEF MakesOne
  <2> QED
    BY <2>3, MadeIs
<1>4. CASE o.at = "post_item"
  <2>1. o.call = "create" /\ Creates(reg, left, rows, o)
    BY <1>4, CallOf DEF Writes
  <2>2. Creates(reg, worn, new, d)
    BY <1>1, <1>3, <1>4, <2>1 DEF Creates
  <2> QED
    BY <1>1, <1>2, <2>1, <2>2, OfCreate
<1>5. CASE o.at # "post_item"
  <2>1. o.call = "subtask" /\ Branches(reg, left, rows, o)
    BY <1>5, CallOf DEF Writes
  <2>2. new[id].parent
    BY <2>1 DEF Adds
  <2>3. Branches(reg, worn, new, d)
    BY <1>1, <1>3, <1>5, <2>1, <2>2 DEF Branches
  <2> QED
    BY <1>1, <1>2, <2>1, <2>3, OfSubtask
<1> QED
  BY <1>4, <1>5

LEMMA UpTo == ASSUME NEW k \in Nat PROVE (0 .. k - 1) \cup {k} = 0 .. k
OBVIOUS

LEMMA MadeAndGoesOn ==
  ASSUME NEW reg, NEW left, NEW rows, NEW o, Writes(reg, left, rows, o), NEW worn, Wears(reg, left, worn),
         o.at = "post_item", reg.others \in Nat,
         NEW new, NEW id, NEW row, Adds(rows, new, id, row), row.by = "us", row.comments = 0,
         NEW d, d \in OpRecord, d.call = o.call, d.result = "ok",
         \/ d.at \in {"repair", "end"} /\ d.item = id /\ d.blind = o.blind
         \/ d.at = "find" /\ d.blind
  PROVE  Writes(reg, worn, new, d)
<1>1. o.call = "create" /\ Creates(reg, left, rows, o) /\ Makes(reg, left, rows, o) /\ Made(rows) = {}
  BY CallOf DEF Writes, Creates, Makes
<1>2. LeftHolds(reg, worn) /\ RowsHold(new) /\ worn["added"] = left["added"]
  BY DEF Wears, Adds
<1>3. Makes(reg, worn, new, d) /\ Made(new) = {id}
  <2>1. /\ d.at \notin {"post_item", "post_subtask", "load_parent", "post_public"}
        /\ (d.result = "failed" => Lost(reg, worn)) /\ (Excused(reg, left, o) => Excused(reg, worn, d))
    BY DEF Wears, Excused
  <2>2. MakesOne(reg, left, rows, o, worn, new, id, row, d)
    BY <1>1, <2>1 DEF MakesOne
  <2> QED
    BY <2>2, MadeIs
<1>4. /\ DOMAIN new = DOMAIN rows \cup {id} /\ new[id] = row /\ (\A i \in DOMAIN rows : new[i] = rows[i])
      /\ \A m \in Nat : DOMAIN rows = 0 .. m - 1 => id = m
  BY DEF Adds
<1>5. \A i \in DOMAIN new : new[i].comments = 0 /\ (new[i].by = "them" => Untouched(new[i]))
  <2>1. ASSUME NEW i \in DOMAIN rows PROVE rows[i].comments = 0 /\ (rows[i].by = "them" => Untouched(rows[i]))
    BY <1>1 DEF Creates
  <2> QED
    BY <1>4, <2>1
<1>6. ASSUME worn["added"] = reg.budget["added"] PROVE DOMAIN new = 0 .. reg.others /\ new[reg.others].by = "us"
  <2>1. DOMAIN rows = 0 .. reg.others - 1
    BY <1>1, <1>2, <1>6 DEF Creates
  <2>2. PICK k : k = reg.others
    OBVIOUS
  <2>3. k \in Nat /\ DOMAIN rows = 0 .. k - 1 /\ id = k
    BY <1>4, <2>1, <2>2
  <2>4. (0 .. k - 1) \cup {k} = 0 .. k
    BY <2>3, UpTo
  <2> QED
    BY <1>4, <2>2, <2>3, <2>4
<1>7. d.call = "create" /\ (d.at # "find" => d.item \in DOMAIN new /\ new[d.item].by = "us")
  BY <1>1, <1>4
<1>8. Creates(reg, worn, new, d)
  BY <1>3, <1>5, <1>6, <1>7 DEF Creates
<1> QED
  BY <1>2, <1>7, <1>8, OfCreate

WriteGoes == writeRegime' = writeRegime
LEMMA WriteGoesOn ==
  ASSUME WriteInv, WriteGoes, NEW worn, NEW new, NEW d, Writes(writeRegime, worn, new, d),
         writeLeft' = worn, items' = new, op' = d
  PROVE  WriteInv'
BY DEF WriteInv, WriteGoes

(* -------------------------------------------------------- the calls' steps *)
LEMMA PostItemKeeps == ASSUME WriteInv, PostItem, WriteGoes PROVE WriteInv'
<1>1. PICK reg : reg = writeRegime
  OBVIOUS
<1>2. Writes(reg, writeLeft, items, op) /\ op.at = "post_item" /\ op \in OpRecord /\ LeftHolds(reg, writeLeft) /\ RowsHold(items)
  BY <1>1 DEF WriteInv, Writes, PostItem
<1>3. /\ reg.budget \in [Misfortunes -> Nat] /\ reg.others \in Nat
      /\ reg.refusals \cap (Misfortunes \cup {"2xx"}) = {}
  BY <1>1, WriteFacts
<1>4. PICK said \in [id : BOOLEAN, name : {"asked", "default"}] :
        Exchange("POST", op.shape \in writeRegime.shapes, writeRegime.refusals,
                 With(NewId, Row("us", FALSE, said.name)),
                 LAMBDA code : IF code = "2xx" THEN Created(said)
                               ELSE IF TriesOn(code) THEN [op EXCEPT !.shape = @ + 1]
                               ELSE Fails(code))
  BY DEF PostItem
<1>5. PICK after, row : row = Row("us", FALSE, said.name) /\ after = With(NewId, row)
  OBVIOUS
<1>6. PICK takes : takes = (op.shape \in writeRegime.shapes)
  OBVIOUS
<1>7. PICK r \in Reactions(takes, reg.refusals) :
        /\ r.code \in DOMAIN writeLeft => writeLeft[r.code] > 0
        /\ writeLeft' = [c \in DOMAIN writeLeft |-> writeLeft[c] - (IF c = r.code THEN 1 ELSE 0)]
        /\ items' = IF r.done THEN after ELSE items
        /\ op' = IF Again("POST", op.attempt, r.code) THEN [op EXCEPT !.attempt = @ + 1]
                 ELSE [(IF r.code = "2xx" THEN Created(said)
                        ELSE IF TriesOn(r.code) THEN [op EXCEPT !.shape = @ + 1]
                        ELSE Fails(r.code)) EXCEPT !.attempt = 0]
  BY <1>1, <1>4, <1>5, <1>6 DEF Exchange
<1>8. PICK code, done : code = r.code /\ done = r.done
  OBVIOUS
<1>9. PICK worn : worn = writeLeft'
  OBVIOUS
<1>10. Wears(reg, writeLeft, worn) /\ Answered(reg, worn, takes, reg.refusals, done, code)
  <2>1. Answer(reg, writeLeft, takes, reg.refusals, r, worn)
    BY <1>2, <1>3, <1>6, <1>7, <1>9 DEF Answer
  <2> QED
    BY <1>8, <2>1, AnswerIs
<1>11. PICK d : d = op'
  OBVIOUS
<1>12. PICK new : new = items'
  OBVIOUS
<1>13. ASSUME Writes(reg, worn, new, d) PROVE WriteInv'
  BY <1>1, <1>9, <1>11, <1>12, <1>13, WriteGoesOn
<1>14. row \in ItemRecord /\ row.by = "us" /\ row.comments = 0
  BY <1>5 DEF ItemRecord, Row
<1>15. done \in BOOLEAN /\ (code = "2xx" => done) /\ (done => code \in {"2xx", "broken", "lost"})
  BY <1>10 DEF Answered
<1>16. op.call = "create"
  BY <1>2, CallOf
<1>17. CASE done = FALSE
  <2>1. new = items /\ code # "2xx"
    BY <1>7, <1>8, <1>12, <1>15, <1>17
  <2>2. CASE Again("POST", op.attempt, code)
    <3>1. op.attempt < Retries /\ d = [op EXCEPT !.attempt = @ + 1]
      BY <1>7, <1>8, <1>11, <2>2 DEF Again
    <3>2. CallBecomes(op, d, op.at, op.result)
      BY <1>2, <3>1, OpRetries
    <3>3. Writes(reg, worn, items, d)
      BY <1>2, <1>10, <3>2, Steady
    <3> QED
      BY <1>13, <2>1, <3>3
  <2>3. CASE ~Again("POST", op.attempt, code) /\ TriesOn(code)
    <3>1. op.shape < ItemShapes /\ d = [[op EXCEPT !.shape = @ + 1] EXCEPT !.attempt = 0]
      BY <1>7, <1>8, <1>11, <2>1, <2>3 DEF TriesOn
    <3>2. op.shape < SubtaskShapes
      BY <1>2, <3>1 DEF OpRecord, ItemShapes, SubtaskShapes
    <3>3. CallBecomes(op, d, op.at, op.result)
      BY <1>2, <3>1, <3>2, OpReshapes
    <3>4. Writes(reg, worn, items, d)
      BY <1>2, <1>10, <3>3, Steady
    <3> QED
      BY <1>13, <2>1, <3>4
  <2>4. CASE ~Again("POST", op.attempt, code) /\ ~TriesOn(code)
    <3>1. PICK result : result = IF code = "lost" THEN "raised" ELSE "failed"
      OBVIOUS
    <3>2. result \in {"failed", "raised"} /\ d = [Ends(result) EXCEPT !.attempt = 0]
      BY <1>7, <1>8, <1>11, <2>1, <2>4, <3>1 DEF Fails
    <3>3. CallBecomes(op, d, "end", result)
      BY <1>2, <3>2, OpEnds
    <3>4. Writes(reg, worn, items, d)
      BY <1>2, <1>10, <3>2, <3>3, MadeNothing
    <3> QED
      BY <1>13, <2>1, <3>4
  <2> QED
    BY <2>2, <2>3, <2>4
<1>18. CASE done = TRUE
  <2>1. PICK id : id = NewId
    OBVIOUS
  <2>2. new = With(NewId, row)
    BY <1>5, <1>7, <1>8, <1>12, <1>18
  <2>3. Adds(items, new, id, row)
    BY <1>2, <1>14, <2>1, <2>2, WithAdds
  <2>4. ~Again("POST", op.attempt, code)
    BY <1>15, <1>18 DEF Again
  <2>5. CASE code = "2xx"
    <3>1. d = [Created(said) EXCEPT !.attempt = 0]
      BY <1>7, <1>8, <1>11, <2>4, <2>5
    <3>2. id \in Nat
      BY <2>3 DEF Adds
    <3>3. /\ d \in OpRecord /\ d.call = op.call /\ d.result = "ok"
          /\ \/ d.at \in {"repair", "end"} /\ d.item = id /\ d.blind = op.blind
             \/ d.at = "find" /\ d.blind
      <4>1. PICK q : q = Created(said)
        OBVIOUS
      <4>2. /\ q \in OpRecord /\ q.call = op.call /\ q.result = "ok"
            /\ \/ q.at \in {"repair", "end"} /\ q.item = id /\ q.blind = op.blind
               \/ q.at = "find" /\ q.blind = TRUE
        <5>1. CASE said.id
          <6>1. PICK step : step = IF said.name = "asked" /\ ~writeRegime.described THEN "end" ELSE "repair"
            OBVIOUS
          <6>2. q = [op EXCEPT !.at = step, !.item = id, !.result = "ok"] /\ step \in {"end", "repair"}
            BY <2>1, <4>1, <5>1, <6>1 DEF Created
          <6> QED
            BY <1>2, <3>2, <6>2 DEF OpRecord, WriteSteps
        <5>2. CASE ~said.id
          <6>1. q = [op EXCEPT !.at = "find", !.result = "ok", !.blind = TRUE]
            BY <4>1, <5>2 DEF Created
          <6> QED
            BY <1>2, <6>1 DEF OpRecord, WriteSteps
        <5> QED
          BY <5>1, <5>2
      <4>3. d = [q EXCEPT !.attempt = 0]
        BY <3>1, <4>1
      <4> QED
        BY <4>2, <4>3, Counts DEF OpRecord
    <3>4. Writes(reg, worn, new, d)
      BY <1>2, <1>3, <1>10, <1>14, <2>3, <3>3, MadeAndGoesOn
    <3> QED
      BY <1>13, <3>4
  <2>6. CASE code \in {"broken", "lost"}
    <3>1. Lost(reg, worn)
      BY <1>10, <2>6 DEF Answered
    <3>2. PICK result : result = IF code = "lost" THEN "raised" ELSE "failed"
      OBVIOUS
    <3>3. result \in {"ok", "failed", "raised"} /\ d = [Ends(result) EXCEPT !.attempt = 0]
      BY <1>7, <1>8, <1>11, <2>4, <2>6, <3>2 DEF Fails, TriesOn
    <3>4. CallBecomes(op, d, "end", result)
      BY <1>2, <3>3, OpEnds
    <3>5. op.call = "subtask" => row.parent
      BY <1>16
    <3>6. Writes(reg, worn, new, d)
      BY <1>2, <1>10, <1>14, <2>3, <3>1, <3>3, <3>4, <3>5, MadeOne
    <3> QED
      BY <1>13, <3>6
  <2> QED
    BY <1>15, <1>18, <2>5, <2>6
<1> QED
  BY <1>15, <1>17, <1>18

LEMMA NewestIs ==
  ASSUME WriteInv, FirstPage # {}
  PROVE  Newest(FirstPage) \in FirstPage /\ \A j \in FirstPage : j <= Newest(FirstPage)
<1>1. PICK n \in Nat : Numbered(items, n)
  BY DEF WriteInv, Writes, RowsHold
<1>2. PICK ids, page, first : ids = DOMAIN items /\ page = writeRegime.page /\ first = FirstPage
  OBVIOUS
<1>3. page \in Nat
  BY <1>2, WriteFacts
<1>4. ids = 0 .. n - 1 \/ (n >= 2 /\ ids = 1 .. n - 1)
  BY <1>1, <1>2 DEF Numbered
<1>5. first = {i \in ids : i < page}
  BY <1>2 DEF FirstPage
<1>6. PICK m : m = (IF n <= page THEN n ELSE page) - 1
  OBVIOUS
<1>7. PICK k \in first : TRUE
  BY <1>2
<1>8. m \in first /\ \A j \in first : j <= m
  BY <1>3, <1>4, <1>5, <1>6, <1>7
<1> QED
  BY <1>2, <1>8 DEF Newest

LEMMA FindItemKeeps == ASSUME WriteInv, FindItem, WriteGoes PROVE WriteInv'
<1>1. PICK reg, left : reg = writeRegime /\ left = writeLeft
  OBVIOUS
<1>2. Writes(reg, left, items, op) /\ op.at = "find" /\ op \in OpRecord /\ LeftHolds(reg, left) /\ RowsHold(items)
  BY <1>1 DEF WriteInv, Writes, FindItem
<1>3. reg.others \in Nat /\ reg.page \in Nat /\ reg.budget \in [Misfortunes -> Nat]
  BY <1>1, WriteFacts
<1>4. op.call = "create" /\ Creates(reg, left, items, op)
  BY <1>2, CallOf DEF Writes
<1>5. PICK d : d = op'
  OBVIOUS
<1>6. ASSUME d \in OpRecord, d.call = op.call, d.result = "ok", d.blind = TRUE,
             d.at = "end" \/ (d.at = "repair" /\ d.item \in DOMAIN items
                               /\ (items[d.item].by = "us" \/ Excused(reg, left, d)))
      PROVE  WriteInv'
  <2>1. Makes(reg, left, items, op) /\ op.result = "ok" /\ op.blind
    BY <1>2, <1>4 DEF Creates
  <2>2. Excused(reg, left, op) => Excused(reg, left, d)
    BY <1>6, <2>1 DEF Excused
  <2>3. Makes(reg, left, items, d)
    BY <1>6, <2>1, <2>2 DEF Makes
  <2>4. Creates(reg, left, items, d)
    BY <1>2, <1>4, <1>6, <2>3 DEF Creates
  <2>5. Writes(reg, left, items, d)
    BY <1>2, <1>4, <1>6, <2>4, OfCreate
  <2>6. writeLeft' = left /\ items' = items
    BY <1>1 DEF FindItem
  <2> QED
    BY <1>1, <1>5, <2>5, <2>6, WriteGoesOn
<1>7. op.blind = TRUE /\ op.result = "ok"
  BY <1>2, <1>4 DEF Creates, OpRecord
<1>8. CASE FirstPage # {} /\ d = [op EXCEPT !.at = "repair", !.item = Newest(FirstPage)]
  <2>1. PICK i : i = Newest(FirstPage)
    OBVIOUS
  <2>2. i \in FirstPage /\ \A j \in FirstPage : j <= i
    BY <1>8, <2>1, NewestIs
  <2>3. i \in DOMAIN items
    BY <2>2 DEF FirstPage
  <2>4. \A j \in DOMAIN items : j \in Nat
    <3>1. PICK n \in Nat : Numbered(items, n)
      BY <1>2 DEF RowsHold
    <3> QED
      BY <3>1 DEF Numbered
  <2>5. /\ d \in OpRecord /\ d.at = "repair" /\ d.item = i /\ d.call = op.call /\ d.result = op.result
        /\ d.blind = op.blind
    BY <1>2, <1>8, <2>1, <2>3, <2>4 DEF OpRecord, WriteSteps
  <2>6. ASSUME left["added"] = reg.budget["added"], reg.page > reg.others PROVE items[i].by = "us"
    <3>1. DOMAIN items = 0 .. reg.others /\ items[reg.others].by = "us"
      BY <1>2, <1>4, <2>6 DEF Creates
    <3>2. PICK k : k = reg.others
      OBVIOUS
    <3>3. k \in Nat /\ i \in 0 .. k /\ k \in 0 .. k
      BY <1>3, <2>3, <3>1, <3>2
    <3>4. k \in FirstPage
      BY <1>1, <2>6, <3>1, <3>2, <3>3 DEF FirstPage
    <3>5. i = k
      BY <2>2, <3>3, <3>4
    <3> QED
      BY <3>1, <3>2, <3>5
  <2>7. items[i].by = "us" \/ Excused(reg, left, d)
    <3>1. left["added"] \in Nat /\ reg.budget["added"] \in Nat /\ left["added"] <= reg.budget["added"]
      BY <1>2, <1>3 DEF LeftHolds, Misfortunes
    <3>2. CASE left["added"] = reg.budget["added"] /\ reg.page > reg.others
      BY <2>6, <3>2
    <3>3. CASE left["added"] < reg.budget["added"] \/ reg.page <= reg.others
      BY <1>7, <2>5, <3>3 DEF Excused
    <3> QED
      BY <1>3, <3>1, <3>2, <3>3
  <2> QED
    BY <1>6, <1>7, <2>3, <2>5, <2>7
<1>9. CASE d = Goes("end")
  <2>1. CallBecomes(op, d, "end", op.result)
    BY <1>2, <1>9, OpGoes
  <2> QED
    BY <1>6, <1>7, <2>1 DEF CallBecomes
<1> QED
  BY <1>5, <1>8, <1>9 DEF FindItem

LEMMA RepairTextKeeps == ASSUME WriteInv, RepairText, WriteGoes PROVE WriteInv'
<1>1. PICK reg, left : reg = writeRegime /\ left = writeLeft
  OBVIOUS
<1>2. Writes(reg, left, items, op) /\ op.at = "repair" /\ op \in OpRecord /\ LeftHolds(reg, left) /\ RowsHold(items)
  BY <1>1 DEF WriteInv, Writes, RepairText
<1>3. op.call = "create" /\ Creates(reg, left, items, op) /\ op.result = "ok"
  BY <1>2, CallOf DEF Writes, Creates
<1>4. PICK id : id = op.item
  OBVIOUS
<1>5. id \in DOMAIN items /\ (items[id].by = "us" \/ Excused(reg, left, op)) /\ Makes(reg, left, items, op)
  BY <1>2, <1>3, <1>4 DEF Creates
<1>6. PICK d : d = op'
  OBVIOUS
<1>7. PICK step : step = IF writeRegime.described THEN "describe" ELSE "end"
  OBVIOUS
<1>8. d = [op EXCEPT !.at = step] /\ step \in {"describe", "end"}
  BY <1>6, <1>7 DEF RepairText, Goes
<1>9. /\ d \in OpRecord /\ d.at = step /\ d.call = op.call /\ d.result = op.result /\ d.item = id
      /\ d.blind = op.blind
  BY <1>2, <1>4, <1>8 DEF OpRecord, WriteSteps
<1>10. PICK new : new = items'
  OBVIOUS
<1>11. /\ RowsHold(new) /\ DOMAIN new = DOMAIN items
       /\ \A i \in DOMAIN items : /\ new[i].by = items[i].by /\ new[i].comments = items[i].comments
                                  /\ i # id => new[i] = items[i]
  <2>1. CASE items' = items
    BY <1>2, <1>10, <2>1
  <2>2. CASE items' = [items EXCEPT ![op.item].text = "asked"]
    <3>1. PICK old : old = items[id]
      OBVIOUS
    <3>2. old \in ItemRecord
      BY <1>2, <1>5, <3>1, RowIs
    <3>3. PICK row : row = [old EXCEPT !.text = "asked"]
      OBVIOUS
    <3>4. row \in ItemRecord /\ row.by = old.by /\ row.comments = old.comments
      BY <3>2, <3>3 DEF ItemRecord
    <3>5. new = [items EXCEPT ![id] = row]
      BY <1>2, <1>4, <1>10, <2>2, <3>1, <3>3 DEF RowsHold, Numbered
    <3>6. Changes(items, new, id, row)
      BY <1>2, <1>5, <3>4, <3>5, ExceptChanges
    <3> QED
      BY <3>1, <3>4, <3>6 DEF Changes
  <2> QED
    BY <2>1, <2>2 DEF RepairText
<1>12. Made(new) = Made(items)
  BY <1>11 DEF Made
<1>13. Excused(reg, left, op) => Excused(reg, left, d)
  BY <1>9 DEF Excused
<1>14. Makes(reg, left, new, d)
  <2>1. ASSUME NEW i \in DOMAIN new, new[i].by = "them" PROVE Untouched(new[i]) \/ Excused(reg, left, d)
    <3>1. CASE i = id
      BY <1>5, <1>11, <1>13, <2>1, <3>1
    <3>2. CASE i # id
      BY <1>5, <1>11, <1>13, <2>1, <3>2 DEF Makes
    <3> QED
      BY <3>1, <3>2
  <2> QED
    BY <1>3, <1>5, <1>8, <1>9, <1>12, <2>1 DEF Makes
<1>15. \A i \in DOMAIN new : new[i].comments = 0
  BY <1>2, <1>3, <1>11 DEF Creates
<1>16. Creates(reg, left, new, d)
  BY <1>3, <1>5, <1>8, <1>9, <1>11, <1>13, <1>14, <1>15 DEF Creates
<1>17. Writes(reg, left, new, d)
  BY <1>2, <1>3, <1>9, <1>11, <1>16, OfCreate
<1>18. writeLeft' = left
  BY <1>1 DEF RepairText
<1> QED
  BY <1>1, <1>6, <1>10, <1>17, <1>18, WriteGoesOn

LEMMA DescribeItemKeeps == ASSUME WriteInv, DescribeItem, WriteGoes PROVE WriteInv'
<1>1. PICK reg : reg = writeRegime
  OBVIOUS
<1>2. Writes(reg, writeLeft, items, op) /\ op.at = "describe" /\ op \in OpRecord /\ LeftHolds(reg, writeLeft) /\ RowsHold(items)
  BY <1>1 DEF WriteInv, Writes, DescribeItem
<1>3. reg.budget \in [Misfortunes -> Nat]
  BY <1>1, WriteFacts
<1>4. PICK after : after = Commented(op.item)
  OBVIOUS
<1>5. PICK r \in Reactions(TRUE, {}) :
        /\ r.code \in DOMAIN writeLeft => writeLeft[r.code] > 0
        /\ writeLeft' = [c \in DOMAIN writeLeft |-> writeLeft[c] - (IF c = r.code THEN 1 ELSE 0)]
        /\ items' = IF r.done THEN after ELSE items
        /\ op' = IF Again("POST", op.attempt, r.code) THEN [op EXCEPT !.attempt = @ + 1]
                 ELSE [(IF r.code = "lost" THEN Ends("raised") ELSE Goes("end")) EXCEPT !.attempt = 0]
  BY <1>4 DEF DescribeItem, Exchange
<1>6. PICK code, done : code = r.code /\ done = r.done
  OBVIOUS
<1>7. PICK worn : worn = writeLeft'
  OBVIOUS
<1>8. Wears(reg, writeLeft, worn) /\ Answered(reg, worn, TRUE, {}, done, code)
  <2>1. Answer(reg, writeLeft, TRUE, {}, r, worn)
    BY <1>2, <1>3, <1>5, <1>7 DEF Answer
  <2> QED
    BY <1>6, <2>1, AnswerIs
<1>9. PICK d : d = op'
  OBVIOUS
<1>10. PICK new : new = items'
  OBVIOUS
<1>11. ASSUME Writes(reg, worn, new, d) PROVE WriteInv'
  BY <1>1, <1>7, <1>9, <1>10, <1>11, WriteGoesOn
<1>12. done \in BOOLEAN /\ (done => code \in {"2xx", "broken", "lost"})
  BY <1>8 DEF Answered
<1>13. op.call = "create" /\ Creates(reg, writeLeft, items, op) /\ op.result = "ok"
  BY <1>2, CallOf DEF Writes, Creates
<1>14. CASE Again("POST", op.attempt, code)
  <2>1. op.attempt < Retries /\ d = [op EXCEPT !.attempt = @ + 1] /\ done = FALSE
    BY <1>5, <1>6, <1>9, <1>12, <1>14 DEF Again
  <2>2. CallBecomes(op, d, op.at, op.result)
    BY <1>2, <2>1, OpRetries
  <2>3. new = items
    BY <1>5, <1>6, <1>10, <2>1
  <2>4. Writes(reg, worn, items, d)
    BY <1>2, <1>8, <2>2, Steady
  <2> QED
    BY <1>11, <2>3, <2>4
<1>15. CASE ~Again("POST", op.attempt, code)
  <2>1. CallBecomes(op, d, "end", "ok") \/ CallBecomes(op, d, "end", "raised")
    <3>1. CASE code = "lost"
      BY <1>2, <1>5, <1>6, <1>9, <1>15, <3>1, OpEnds
    <3>2. CASE code # "lost"
      <4>1. d = [Goes("end") EXCEPT !.attempt = 0]
        BY <1>5, <1>6, <1>9, <1>15, <3>2
      <4> QED
        BY <1>2, <1>13, <4>1, OpGoes
    <3> QED
      BY <3>1, <3>2
  <2>2. d \in OpRecord /\ d.at = "end" /\ d.result \in {"ok", "raised"} /\ d.call = op.call /\ d.blind = op.blind
    BY <2>1 DEF CallBecomes
  <2>3. PICK id : id = op.item
    OBVIOUS
  <2>4. /\ id \in DOMAIN items /\ (items[id].by = "us" \/ Excused(reg, writeLeft, op)) /\ items[id].comments = 0
        /\ Makes(reg, writeLeft, items, op)
    BY <1>2, <1>13, <2>3 DEF Creates
  <2>5. /\ RowsHold(new) /\ DOMAIN new = DOMAIN items
        /\ \A i \in DOMAIN items : new[i].by = items[i].by /\ (i # id => new[i] = items[i])
    <3>1. CASE done = FALSE
      BY <1>2, <1>5, <1>6, <1>10, <3>1
    <3>2. CASE done = TRUE
      <4>1. new = Commented(id) /\ items[id].comments < 3
        BY <1>4, <1>5, <1>6, <1>10, <2>3, <2>4, <3>2
      <4>2. PICK row : /\ Changes(items, new, id, row) /\ row.comments = items[id].comments + 1
                       /\ row.by = items[id].by /\ row.text = items[id].text /\ row.parent = items[id].parent
        BY <1>2, <2>4, <4>1, CommentedChanges
      <4> QED
        BY <4>2 DEF Changes
    <3> QED
      BY <1>12, <3>1, <3>2
  <2>6. Made(new) = Made(items)
    BY <2>5 DEF Made
  <2>7. Excused(reg, writeLeft, op) => Excused(reg, worn, d)
    BY <1>8, <2>2 DEF Excused, Wears
  <2>8. Makes(reg, worn, new, d)
    <3>1. ASSUME NEW i \in DOMAIN new, new[i].by = "them" PROVE Untouched(new[i]) \/ Excused(reg, worn, d)
      <4>1. CASE i = id
        BY <2>4, <2>5, <2>7, <3>1, <4>1
      <4>2. CASE i # id
        BY <2>4, <2>5, <2>7, <3>1, <4>2 DEF Makes
      <4> QED
        BY <4>1, <4>2
    <3> QED
      BY <1>13, <2>2, <2>4, <2>6, <3>1 DEF Makes
  <2>9. Creates(reg, worn, new, d)
    BY <2>2, <2>8 DEF Creates
  <2>10. Writes(reg, worn, new, d)
    BY <1>8, <1>13, <2>2, <2>5, <2>9, OfCreate DEF Wears
  <2> QED
    BY <1>11, <2>10
<1> QED
  BY <1>14, <1>15

(* A subtask that is asked for: what is made is ours, and a subtask. *)
LEMMA BranchDone ==
  ASSUME WriteInv, op.at \in {"post_subtask", "post_public"}, NEW worn, Wears(writeRegime, writeLeft, worn),
         NEW d, NEW result \in {"ok", "failed", "raised"}, CallBecomes(op, d, "end", result),
         result = "ok" \/ Lost(writeRegime, worn),
         writeLeft' = worn, items' = With(NewId, Row("us", TRUE, "asked")), op' = d, WriteGoes
  PROVE  WriteInv'
<1>1. PICK reg : reg = writeRegime
  OBVIOUS
<1>2. Writes(reg, writeLeft, items, op) /\ RowsHold(items)
  BY <1>1 DEF WriteInv, Writes
<1>3. PICK row : row = Row("us", TRUE, "asked")
  OBVIOUS
<1>4. row \in ItemRecord /\ row.by = "us" /\ row.parent
  BY <1>3 DEF ItemRecord, Row
<1>5. PICK new, id : id = NewId /\ new = items'
  OBVIOUS
<1>6. Adds(items, new, id, row)
  BY <1>2, <1>3, <1>4, <1>5, WithAdds
<1>7. Writes(reg, worn, new, d)
  BY <1>1, <1>2, <1>4, <1>6, MadeOne
<1> QED
  BY <1>1, <1>5, <1>7, WriteGoesOn

LEMMA BranchVain ==
  ASSUME WriteInv, op.at \in {"post_item", "post_subtask", "load_parent", "post_public"},
         NEW worn, Wears(writeRegime, writeLeft, worn),
         NEW d, \/ CallBecomes(op, d, op.at, op.result)
                \/ CallBecomes(op, d, "end", "failed") \/ CallBecomes(op, d, "end", "raised"),
         writeLeft' = worn, items' = items, op' = d, WriteGoes
  PROVE  WriteInv'
<1>1. PICK reg : reg = writeRegime
  OBVIOUS
<1>2. Writes(reg, writeLeft, items, op)
  BY <1>1 DEF WriteInv
<1>3. Writes(reg, worn, items, d)
  <2>1. CASE CallBecomes(op, d, op.at, op.result)
    BY <1>1, <1>2, <2>1, Steady
  <2>2. CASE CallBecomes(op, d, "end", "failed")
    BY <1>1, <1>2, <2>2, MadeNothing
  <2>3. CASE CallBecomes(op, d, "end", "raised")
    BY <1>1, <1>2, <2>3, MadeNothing
  <2> QED
    BY <2>1, <2>2, <2>3
<1> QED
  BY <1>1, <1>3, WriteGoesOn

LEMMA BranchGoesOn ==
  ASSUME WriteInv, op.at \in {"post_subtask", "load_parent"},
         NEW worn, Wears(writeRegime, writeLeft, worn),
         NEW d, CallBecomes(op, d, "load_parent", op.result) \/ CallBecomes(op, d, "post_public", op.result),
         writeLeft' = worn, items' = items, op' = d, WriteGoes
  PROVE  WriteInv'
<1>1. PICK reg : reg = writeRegime
  OBVIOUS
<1>2. Writes(reg, writeLeft, items, op) /\ RowsHold(items)
  BY <1>1 DEF WriteInv, Writes
<1>3. op.call = "subtask" /\ Branches(reg, writeLeft, items, op)
  BY <1>2, CallOf DEF Writes
<1>4. d \in OpRecord /\ d.at \in {"load_parent", "post_public"} /\ d.result = op.result /\ d.call = op.call /\ d.blind = op.blind
  BY DEF CallBecomes
<1>5. LeftHolds(reg, worn) /\ worn["added"] = writeLeft["added"] /\ (Lost(reg, writeLeft) => Lost(reg, worn))
  BY <1>1 DEF Wears
<1>6. Excused(reg, writeLeft, op) => Excused(reg, worn, d)
  BY <1>4, <1>5 DEF Excused
<1>7. Makes(reg, worn, items, d)
  BY <1>3, <1>4, <1>5, <1>6 DEF Makes, Branches
<1>8. Branches(reg, worn, items, d)
  BY <1>3, <1>4, <1>7 DEF Branches
<1>9. Writes(reg, worn, items, d)
  BY <1>2, <1>3, <1>4, <1>5, <1>8, OfSubtask
<1> QED
  BY <1>1, <1>9, WriteGoesOn

LEMMA PostSubtaskKeeps == ASSUME WriteInv, PostSubtask, WriteGoes PROVE WriteInv'
<1>1. PICK reg : reg = writeRegime
  OBVIOUS
<1>2. Writes(reg, writeLeft, items, op) /\ op.at = "post_subtask" /\ op \in OpRecord /\ LeftHolds(reg, writeLeft)
  BY <1>1 DEF WriteInv, Writes, PostSubtask
<1>3. reg.budget \in [Misfortunes -> Nat] /\ {"400", "401", "404"} \cap (Misfortunes \cup {"2xx"}) = {}
  BY <1>1, WriteFacts DEF Misfortunes
<1>4. PICK after : after = With(NewId, Row("us", TRUE, "asked"))
  OBVIOUS
<1>5. writeRegime.legacy \in BOOLEAN
  BY WriteFacts
<1>6. PICK r \in Reactions(writeRegime.legacy, {"400", "401", "404"}) :
        /\ r.code \in DOMAIN writeLeft => writeLeft[r.code] > 0
        /\ writeLeft' = [c \in DOMAIN writeLeft |-> writeLeft[c] - (IF c = r.code THEN 1 ELSE 0)]
        /\ items' = IF r.done THEN after ELSE items
        /\ op' = IF Again("POST", op.attempt, r.code) THEN [op EXCEPT !.attempt = @ + 1]
                 ELSE [(CASE r.code = "2xx"                  -> Ends("ok")
                          [] r.code = "401" /\ ~op.bearer    -> [op EXCEPT !.bearer = TRUE]
                          [] r.code \in {"404", "405"} \/ (r.code = "401" /\ op.bearer) -> Goes("load_parent")
                          [] OTHER                         -> Fails(r.code)) EXCEPT !.attempt = 0]
  BY <1>4 DEF PostSubtask, Exchange
<1>7. PICK code, done : code = r.code /\ done = r.done
  OBVIOUS
<1>8. PICK worn : worn = writeLeft'
  OBVIOUS
<1>9. PICK d : d = op'
  OBVIOUS
<1>10. /\ Wears(reg, writeLeft, worn)
       /\ Answered(reg, worn, writeRegime.legacy, {"400", "401", "404"}, done, code)
  <2>1. Answer(reg, writeLeft, writeRegime.legacy, {"400", "401", "404"}, r, worn)
    BY <1>2, <1>3, <1>5, <1>6, <1>8 DEF Answer
  <2> QED
    BY <1>7, <2>1, AnswerIs
<1>11. done \in BOOLEAN /\ (code = "2xx" => done) /\ (done => code \in {"2xx", "broken", "lost"})
       /\ (code \in {"broken", "lost"} => Lost(reg, worn))
  BY <1>10 DEF Answered
<1>12. PICK result : result = IF code = "2xx" THEN "ok" ELSE IF code = "lost" THEN "raised" ELSE "failed"
  OBVIOUS
<1>13. result \in {"ok", "failed", "raised"} /\ (done => result = "ok" \/ Lost(reg, worn)) /\ (~done => result # "ok")
  BY <1>11, <1>12
<1>14. CASE Again("POST", op.attempt, code)
  <2>1. op.attempt < Retries /\ d = [op EXCEPT !.attempt = @ + 1] /\ done = FALSE
    BY <1>6, <1>7, <1>9, <1>11, <1>14 DEF Again
  <2>2. CallBecomes(op, d, op.at, op.result)
    BY <1>2, <2>1, OpRetries
  <2>3. items' = items
    BY <1>6, <1>7, <2>1
  <2> QED
    BY <1>1, <1>2, <1>8, <1>9, <1>10, <2>2, <2>3, BranchVain
<1>15. CASE ~Again("POST", op.attempt, code) /\ d = [Ends(result) EXCEPT !.attempt = 0]
  <2>1. CallBecomes(op, d, "end", result)
    BY <1>2, <1>13, <1>15, OpEnds
  <2>2. CASE done = TRUE
    <3>1. items' = With(NewId, Row("us", TRUE, "asked"))
      BY <1>4, <1>6, <1>7, <2>2
    <3>2. result = "ok" \/ Lost(reg, worn)
      BY <1>13, <2>2
    <3> QED
      BY <1>1, <1>2, <1>8, <1>9, <1>10, <1>13, <2>1, <3>1, <3>2, BranchDone
  <2>3. CASE done = FALSE
    <3>1. items' = items
      BY <1>6, <1>7, <2>3
    <3>2. CallBecomes(op, d, "end", "failed") \/ CallBecomes(op, d, "end", "raised")
      BY <1>13, <2>1, <2>3
    <3> QED
      BY <1>1, <1>2, <1>8, <1>9, <1>10, <3>1, <3>2, BranchVain
  <2> QED
    BY <1>11, <2>2, <2>3
<1>16. CASE /\ ~Again("POST", op.attempt, code) /\ code = "401" /\ ~op.bearer
            /\ d = [[op EXCEPT !.bearer = TRUE] EXCEPT !.attempt = 0]
  <2>1. items' = items
    BY <1>6, <1>7, <1>11, <1>16
  <2>2. CallBecomes(op, d, op.at, op.result)
    BY <1>2, <1>16, Counts DEF OpRecord, CallBecomes
  <2> QED
    BY <1>1, <1>2, <1>8, <1>9, <1>10, <2>1, <2>2, BranchVain
<1>17. CASE /\ ~Again("POST", op.attempt, code) /\ code \in {"401", "404", "405"}
            /\ d = [Goes("load_parent") EXCEPT !.attempt = 0]
  <2>1. items' = items
    BY <1>6, <1>7, <1>11, <1>17
  <2>2. CallBecomes(op, d, "load_parent", op.result)
    BY <1>2, <1>17, OpGoes
  <2> QED
    BY <1>1, <1>2, <1>8, <1>9, <1>10, <2>1, <2>2, BranchGoesOn
<1>18. ASSUME ~Again("POST", op.attempt, code)
       PROVE  \/ d = [Ends(result) EXCEPT !.attempt = 0]
              \/ code = "401" /\ ~op.bearer /\ d = [[op EXCEPT !.bearer = TRUE] EXCEPT !.attempt = 0]
              \/ code \in {"401", "404", "405"} /\ d = [Goes("load_parent") EXCEPT !.attempt = 0]
  <2>1. d = [(CASE code = "2xx"                  -> Ends("ok")
                [] code = "401" /\ ~op.bearer    -> [op EXCEPT !.bearer = TRUE]
                [] code \in {"404", "405"} \/ (code = "401" /\ op.bearer) -> Goes("load_parent")
                [] OTHER                         -> Fails(code)) EXCEPT !.attempt = 0]
    BY <1>6, <1>7, <1>9, <1>18
  <2>2. CASE code = "2xx"
    BY <1>12, <2>1, <2>2
  <2>3. CASE code = "401" /\ ~op.bearer
    BY <2>1, <2>3
  <2>4. CASE code \in {"401", "404", "405"} /\ ~(code = "401" /\ ~op.bearer)
    BY <2>1, <2>4
  <2>5. CASE code \notin {"2xx", "401", "404", "405"}
    BY <1>12, <2>1, <2>5 DEF Fails
  <2> QED
    BY <2>2, <2>3, <2>4, <2>5
<1> QED
  BY <1>14, <1>15, <1>16, <1>17, <1>18

LEMMA LoadParentKeeps == ASSUME WriteInv, LoadParent, WriteGoes PROVE WriteInv'
<1>1. op \in OpRecord /\ LeftHolds(writeRegime, writeLeft) /\ op.at = "load_parent"
  BY DEF WriteInv, Writes, LoadParent
<1>2. PICK d, worn : d = op' /\ worn = writeLeft
  OBVIOUS
<1>3. Wears(writeRegime, writeLeft, worn) /\ writeLeft' = worn /\ items' = items
  BY <1>1, <1>2, WearsSame DEF LoadParent
<1>4. CASE d = Goes("post_public")
  <2>1. CallBecomes(op, d, "post_public", op.result)
    BY <1>1, <1>4, OpGoes
  <2> QED
    BY <1>1, <1>2, <1>3, <2>1, BranchGoesOn
<1>5. CASE d = Ends("failed")
  <2>1. CallBecomes(op, d, "end", "failed")
    BY <1>1, <1>5, OpEnds
  <2> QED
    BY <1>1, <1>2, <1>3, <2>1, BranchVain
<1> QED
  BY <1>2, <1>4, <1>5 DEF LoadParent

LEMMA PostSubtaskPublicKeeps == ASSUME WriteInv, PostSubtaskPublic, WriteGoes PROVE WriteInv'
<1>1. PICK reg : reg = writeRegime
  OBVIOUS
<1>2. Writes(reg, writeLeft, items, op) /\ op.at = "post_public" /\ op \in OpRecord /\ LeftHolds(reg, writeLeft)
  BY <1>1 DEF WriteInv, Writes, PostSubtaskPublic
<1>3. reg.budget \in [Misfortunes -> Nat] /\ reg.refusals \cap (Misfortunes \cup {"2xx"}) = {}
  BY <1>1, WriteFacts
<1>4. PICK after : after = With(NewId, Row("us", TRUE, "asked"))
  OBVIOUS
<1>5. PICK takes : takes = (op.shape \in writeRegime.shapes)
  OBVIOUS
<1>6. PICK r \in Reactions(takes, reg.refusals) :
        /\ r.code \in DOMAIN writeLeft => writeLeft[r.code] > 0
        /\ writeLeft' = [c \in DOMAIN writeLeft |-> writeLeft[c] - (IF c = r.code THEN 1 ELSE 0)]
        /\ items' = IF r.done THEN after ELSE items
        /\ op' = IF Again("POST", op.attempt, r.code) THEN [op EXCEPT !.attempt = @ + 1]
                 ELSE [(IF r.code = "2xx" THEN Ends("ok")
                        ELSE IF TriesSubtaskOn(r.code) THEN [op EXCEPT !.shape = @ + 1]
                        ELSE Fails(r.code)) EXCEPT !.attempt = 0]
  BY <1>1, <1>4, <1>5 DEF PostSubtaskPublic, Exchange
<1>7. PICK code, done : code = r.code /\ done = r.done
  OBVIOUS
<1>8. PICK worn : worn = writeLeft'
  OBVIOUS
<1>9. PICK d : d = op'
  OBVIOUS
<1>10. Wears(reg, writeLeft, worn) /\ Answered(reg, worn, takes, reg.refusals, done, code)
  <2>1. Answer(reg, writeLeft, takes, reg.refusals, r, worn)
    BY <1>2, <1>3, <1>5, <1>6, <1>8 DEF Answer
  <2> QED
    BY <1>7, <2>1, AnswerIs
<1>11. done \in BOOLEAN /\ (code = "2xx" => done) /\ (done => code \in {"2xx", "broken", "lost"})
       /\ (code \in {"broken", "lost"} => Lost(reg, worn))
  BY <1>10 DEF Answered
<1>12. PICK result : result = IF code = "2xx" THEN "ok" ELSE IF code = "lost" THEN "raised" ELSE "failed"
  OBVIOUS
<1>13. result \in {"ok", "failed", "raised"} /\ (done => result = "ok" \/ Lost(reg, worn)) /\ (~done => result # "ok")
  BY <1>11, <1>12
<1>14. CASE Again("POST", op.attempt, code)
  <2>1. op.attempt < Retries /\ d = [op EXCEPT !.attempt = @ + 1] /\ done = FALSE
    BY <1>6, <1>7, <1>9, <1>11, <1>14 DEF Again
  <2>2. CallBecomes(op, d, op.at, op.result)
    BY <1>2, <2>1, OpRetries
  <2>3. items' = items
    BY <1>6, <1>7, <2>1
  <2> QED
    BY <1>1, <1>2, <1>8, <1>9, <1>10, <2>2, <2>3, BranchVain
<1>15. CASE ~Again("POST", op.attempt, code) /\ d = [Ends(result) EXCEPT !.attempt = 0]
  <2>1. CallBecomes(op, d, "end", result)
    BY <1>2, <1>13, <1>15, OpEnds
  <2>2. CASE done = TRUE
    <3>1. items' = With(NewId, Row("us", TRUE, "asked"))
      BY <1>4, <1>6, <1>7, <2>2
    <3>2. result = "ok" \/ Lost(reg, worn)
      BY <1>13, <2>2
    <3> QED
      BY <1>1, <1>2, <1>8, <1>9, <1>10, <1>13, <2>1, <3>1, <3>2, BranchDone
  <2>3. CASE done = FALSE
    <3>1. items' = items
      BY <1>6, <1>7, <2>3
    <3>2. CallBecomes(op, d, "end", "failed") \/ CallBecomes(op, d, "end", "raised")
      BY <1>13, <2>1, <2>3
    <3> QED
      BY <1>1, <1>2, <1>8, <1>9, <1>10, <3>1, <3>2, BranchVain
  <2> QED
    BY <1>11, <2>2, <2>3
<1>16. CASE ~Again("POST", op.attempt, code) /\ code # "2xx" /\ TriesSubtaskOn(code)
  <2>1. op.shape < SubtaskShapes /\ d = [[op EXCEPT !.shape = @ + 1] EXCEPT !.attempt = 0] /\ done = FALSE
    BY <1>6, <1>7, <1>9, <1>11, <1>16 DEF TriesSubtaskOn
  <2>2. CallBecomes(op, d, op.at, op.result)
    BY <1>2, <2>1, OpReshapes
  <2>3. items' = items
    BY <1>6, <1>7, <2>1
  <2> QED
    BY <1>1, <1>2, <1>8, <1>9, <1>10, <2>2, <2>3, BranchVain
<1>17. ASSUME ~Again("POST", op.attempt, code), ~(code # "2xx" /\ TriesSubtaskOn(code))
       PROVE  d = [Ends(result) EXCEPT !.attempt = 0]
  <2>1. d = [(IF code = "2xx" THEN Ends("ok")
              ELSE IF TriesSubtaskOn(code) THEN [op EXCEPT !.shape = @ + 1]
              ELSE Fails(code)) EXCEPT !.attempt = 0]
    BY <1>6, <1>7, <1>9, <1>17
  <2>2. CASE code = "2xx"
    BY <1>12, <2>1, <2>2
  <2>3. CASE code # "2xx"
    BY <1>12, <1>17, <2>1, <2>3 DEF Fails
  <2> QED
    BY <2>2, <2>3
<1> QED
  BY <1>14, <1>15, <1>16, <1>17

(* ------------------------------------------------------------- comments *)
(* The commented item: as it was, or with a comment more. *)
Hears(rows, new, more) ==
  /\ RowsHold(new) /\ Target \in DOMAIN new
  /\ new[Target].comments = rows[Target].comments + more /\ Made(new) = Made(rows)
LEMMA HearsOne ==
  ASSUME RowsHold(items), Target \in DOMAIN items, items[Target].comments <= 1, NEW new, new = Commented(Target)
  PROVE  Hears(items, new, 1)
<1>1. PICK id : id = Target
  OBVIOUS
<1>2. items[id] \in ItemRecord
  BY <1>1, RowIs
<1>3. items[id].comments < 3
  BY <1>1, <1>2 DEF ItemRecord
<1>4. PICK row : /\ Changes(items, new, id, row) /\ row.comments = items[id].comments + 1
                 /\ row.by = items[id].by /\ row.text = items[id].text /\ row.parent = items[id].parent
  BY <1>1, <1>3, CommentedChanges
<1>5. Made(new) = Made(items)
  BY <1>4 DEF Changes, Made
<1> QED
  BY <1>1, <1>4, <1>5 DEF Changes, Hears

LEMMA HearsNone ==
  ASSUME RowsHold(items), Target \in DOMAIN items
  PROVE  Hears(items, items, 0)
<1>1. items[Target].comments \in 0 .. 3
  BY RowIs DEF ItemRecord
<1>2. \A k \in 0 .. 3 : k = k + 0
  OBVIOUS
<1> QED
  BY <1>1, <1>2 DEF Hears

LEMMA CommentTold ==
  ASSUME WriteInv, NEW worn, Wears(writeRegime, writeLeft, worn), op.at \in {"comment", "old_path"},
         NEW new, NEW more \in 0 .. 1, Hears(items, new, more),
         NEW d, NEW result \in {"ok", "failed", "raised"}, CallBecomes(op, d, "end", result),
         IF result = "ok" THEN more = 1 ELSE more = 0 \/ Lost(writeRegime, worn),
         writeLeft' = worn, items' = new, op' = d, WriteGoes
  PROVE  WriteInv'
<1>1. PICK reg : reg = writeRegime
  OBVIOUS
<1>2. Writes(reg, writeLeft, items, op) /\ RowsHold(items)
  BY <1>1 DEF WriteInv, Writes
<1>3. op.call = "comment" /\ Comments(reg, writeLeft, items, op)
  BY <1>2, CallOf DEF Writes
<1>4. d \in OpRecord /\ d.at = "end" /\ d.result = result /\ d.call = op.call
  BY DEF CallBecomes
<1>5. LeftHolds(reg, worn) /\ (Lost(reg, writeLeft) => Lost(reg, worn))
  BY <1>1 DEF Wears
<1>6. Target \in DOMAIN items /\ (items[Target].comments = 0 \/ Lost(reg, writeLeft))
  BY <1>3 DEF Comments
<1>7. items[Target].comments \in 0 .. 3
  BY <1>2, <1>6, RowIs DEF ItemRecord
<1>8. PICK k, h : k = items[Target].comments /\ h = new[Target].comments
  OBVIOUS
<1>9. k \in 0 .. 3 /\ h = k + more /\ (k = 0 \/ Lost(reg, worn)) /\ RowsHold(new) /\ Target \in DOMAIN new
  BY <1>5, <1>6, <1>7, <1>8 DEF Hears
<1>10. (result = "ok" => h > 0) /\ (Lost(reg, worn) \/ h = (IF result = "ok" THEN 1 ELSE 0))
  <2>1. CASE result = "ok"
    BY <1>9, <2>1
  <2>2. CASE result # "ok"
    BY <1>1, <1>9, <2>2
  <2> QED
    BY <2>1, <2>2
<1>13. Made(new) = {}
  BY <1>3 DEF Comments, Hears
<1>11. Comments(reg, worn, new, d)
  BY <1>4, <1>8, <1>9, <1>10, <1>13 DEF Comments
<1>12. Writes(reg, worn, new, d)
  BY <1>3, <1>4, <1>5, <1>9, <1>11, OfComment
<1> QED
  BY <1>1, <1>12, WriteGoesOn

LEMMA CommentTriesOn ==
  ASSUME WriteInv, NEW worn, Wears(writeRegime, writeLeft, worn), op.at = "comment",
         NEW new, NEW more \in 0 .. 1, Hears(items, new, more),
         more = 0 \/ (op.path = writeRegime.home /\ Lost(writeRegime, worn)),
         NEW d, d = NextPath \/ d = [NextPath EXCEPT !.attempt = 0],
         writeLeft' = worn, items' = new, op' = d, WriteGoes
  PROVE  WriteInv'
<1>1. PICK reg : reg = writeRegime
  OBVIOUS
<1>2. Writes(reg, writeLeft, items, op) /\ RowsHold(items) /\ op \in OpRecord
  BY <1>1 DEF WriteInv, Writes
<1>3. op.call = "comment" /\ Comments(reg, writeLeft, items, op)
  BY <1>2, CallOf DEF Writes
<1>4. PICK tried : tried = op.tried \cup {op.path}
  OBVIOUS
<1>5. PICK step : step = IF Tracking \in tried THEN "search" ELSE "comment"
  OBVIOUS
<1>6. tried \in SUBSET Boards /\ step \in {"search", "comment"} /\ Tracking \in Boards
  BY <1>2, <1>4, <1>5 DEF OpRecord, Boards
<1>7. PICK q : q = NextPath
  OBVIOUS
<1>8. q = [op EXCEPT !.tried = tried, !.at = step, !.path = Tracking]
  BY <1>4, <1>5, <1>7 DEF NextPath
<1>9. /\ q \in OpRecord /\ q.at = step /\ q.tried = tried /\ q.path = Tracking /\ q.call = op.call
      /\ q.result = op.result
  BY <1>2, <1>6, <1>8 DEF OpRecord, WriteSteps
<1>10. /\ d \in OpRecord /\ d.at = step /\ d.tried = tried /\ d.path = Tracking /\ d.call = op.call
       /\ d.result = op.result
  <2>1. CASE d = q
    BY <1>9, <2>1
  <2>2. CASE d = [q EXCEPT !.attempt = 0]
    BY <1>9, <2>2, Counts DEF OpRecord
  <2> QED
    BY <1>7, <2>1, <2>2
<1>11. LeftHolds(reg, worn) /\ (Lost(reg, writeLeft) => Lost(reg, worn))
  BY <1>1 DEF Wears
<1>12. /\ Target \in DOMAIN items /\ (items[Target].comments = 0 \/ Lost(reg, writeLeft)) /\ op.path \notin op.tried
       /\ items[Target].comments <= (IF reg.home \in op.tried THEN 1 ELSE 0)
       /\ (op.result = "ok" => items[Target].comments > 0)
  BY <1>3 DEF Comments
<1>13. items[Target].comments \in 0 .. 3
  BY <1>2, <1>12, RowIs DEF ItemRecord
<1>14. PICK k, h : k = items[Target].comments /\ h = new[Target].comments
  OBVIOUS
<1>15. k \in 0 .. 3 /\ h = k + more /\ (k = 0 \/ Lost(reg, worn)) /\ RowsHold(new) /\ Target \in DOMAIN new
  BY <1>11, <1>12, <1>13, <1>14 DEF Hears
<1>16. (h = 0 \/ Lost(reg, worn)) /\ (op.result = "ok" => h > 0)
  <2>1. CASE more = 0
    BY <1>12, <1>14, <1>15, <2>1
  <2>2. CASE more = 1
    BY <1>1, <1>15, <2>2
  <2> QED
    BY <2>1, <2>2
<1>17. h <= (IF reg.home \in tried THEN 1 ELSE 0)
  <2>1. CASE reg.home \in op.tried
    <3>1. more = 0 /\ reg.home \in tried
      BY <1>1, <1>4, <1>12, <2>1
    <3> QED
      BY <1>12, <1>14, <1>15, <2>1, <3>1
  <2>2. CASE reg.home \notin op.tried
    <3>1. k = 0
      BY <1>12, <1>14, <1>15, <2>2
    <3>2. CASE more = 0
      BY <1>15, <3>1, <3>2
    <3>3. CASE more = 1
      <4>1. reg.home \in tried
        BY <1>1, <1>4, <3>3
      <4> QED
        BY <1>15, <3>1, <3>3, <4>1
    <3> QED
      BY <3>2, <3>3
  <2> QED
    BY <2>1, <2>2
<1>18. step = "comment" => Tracking \notin tried
  BY <1>5
<1>21. Made(new) = {}
  BY <1>3 DEF Comments, Hears
<1>19. Comments(reg, worn, new, d)
  BY <1>21, <1>3, <1>6, <1>10, <1>14, <1>15, <1>16, <1>17, <1>18 DEF Comments
<1>20. Writes(reg, worn, new, d)
  BY <1>3, <1>10, <1>11, <1>15, <1>19, OfComment
<1> QED
  BY <1>1, <1>20, WriteGoesOn

LEMMA CommentRetries ==
  ASSUME WriteInv, NEW worn, Wears(writeRegime, writeLeft, worn), NEW d, CallBecomes(op, d, op.at, op.result),
         writeLeft' = worn, items' = items, op' = d, WriteGoes
  PROVE  WriteInv'
<1>1. PICK reg : reg = writeRegime
  OBVIOUS
<1>2. Writes(reg, writeLeft, items, op)
  BY <1>1 DEF WriteInv
<1>3. Writes(reg, worn, items, d)
  BY <1>1, <1>2, Steady
<1> QED
  BY <1>1, <1>3, WriteGoesOn

LEMMA CommentThereKeeps == ASSUME WriteInv, CommentThere, WriteGoes PROVE WriteInv'
<1>1. PICK reg : reg = writeRegime
  OBVIOUS
<1>2. /\ Writes(reg, writeLeft, items, op) /\ op.at = "comment" /\ op \in OpRecord /\ LeftHolds(reg, writeLeft)
      /\ RowsHold(items)
  BY <1>1 DEF WriteInv, Writes, CommentThere
<1>3. reg.budget \in [Misfortunes -> Nat] /\ {"404"} \cap (Misfortunes \cup {"2xx"}) = {}
  BY <1>1, WriteFacts DEF Misfortunes
<1>4. PICK after : after = Commented(Target)
  OBVIOUS
<1>5. PICK takes : takes = (op.path = writeRegime.home)
  OBVIOUS
<1>6. PICK r \in Reactions(takes, {"404"}) :
        /\ r.code \in DOMAIN writeLeft => writeLeft[r.code] > 0
        /\ writeLeft' = [c \in DOMAIN writeLeft |-> writeLeft[c] - (IF c = r.code THEN 1 ELSE 0)]
        /\ items' = IF r.done THEN after ELSE items
        /\ op' = IF Again("POST", op.attempt, r.code) THEN [op EXCEPT !.attempt = @ + 1]
                 ELSE [(CASE r.code = "2xx"  -> Ends("ok")
                          [] r.code = "lost" -> Ends("raised")
                          [] OTHER           -> NextPath) EXCEPT !.attempt = 0]
  BY <1>4, <1>5 DEF CommentThere, Exchange
<1>7. PICK code, done : code = r.code /\ done = r.done
  OBVIOUS
<1>8. PICK worn : worn = writeLeft'
  OBVIOUS
<1>9. PICK d : d = op'
  OBVIOUS
<1>10. Wears(reg, writeLeft, worn) /\ Answered(reg, worn, takes, {"404"}, done, code)
  <2>1. Answer(reg, writeLeft, takes, {"404"}, r, worn)
    BY <1>2, <1>3, <1>5, <1>6, <1>8 DEF Answer
  <2> QED
    BY <1>7, <2>1, AnswerIs
<1>11. done \in BOOLEAN /\ (done => takes) /\ (code = "2xx" => done) /\ (done => code \in {"2xx", "broken", "lost"})
       /\ (code \in {"broken", "lost"} => Lost(reg, worn))
  BY <1>10 DEF Answered
<1>12. Target \in DOMAIN items /\ items[Target].comments <= 1
  <2>1. Target \in DOMAIN items /\ items[Target].comments <= (IF reg.home \in op.tried THEN 1 ELSE 0)
    BY <1>2, CallOf DEF Writes, Comments
  <2>2. items[Target].comments \in 0 .. 3
    BY <1>2, <2>1, RowIs DEF ItemRecord
  <2> QED
    BY <2>1, <2>2
<1>13. PICK new : new = items'
  OBVIOUS
<1>14. PICK more : more = IF done THEN 1 ELSE 0
  OBVIOUS
<1>15. more \in 0 .. 1 /\ Hears(items, new, more)
  <2>1. CASE done = TRUE
    BY <1>2, <1>4, <1>6, <1>7, <1>12, <1>13, <1>14, <2>1, HearsOne
  <2>2. CASE done = FALSE
    BY <1>2, <1>6, <1>7, <1>12, <1>13, <1>14, <2>2, HearsNone
  <2> QED
    BY <1>11, <2>1, <2>2
<1>16. CASE Again("POST", op.attempt, code)
  <2>1. op.attempt < Retries /\ d = [op EXCEPT !.attempt = @ + 1] /\ done = FALSE
    BY <1>6, <1>7, <1>9, <1>11, <1>16 DEF Again
  <2>2. CallBecomes(op, d, op.at, op.result)
    BY <1>2, <2>1, OpRetries
  <2>3. items' = items
    BY <1>6, <1>7, <2>1
  <2> QED
    BY <1>1, <1>8, <1>9, <1>10, <2>2, <2>3, CommentRetries
<1>17. CASE ~Again("POST", op.attempt, code) /\ code \in {"2xx", "lost"}
  <2>1. PICK result : result = IF code = "2xx" THEN "ok" ELSE "raised"
    OBVIOUS
  <2>2. result \in {"ok", "failed", "raised"} /\ d = [Ends(result) EXCEPT !.attempt = 0]
    <3>1. CASE code = "2xx"
      BY <1>6, <1>7, <1>9, <1>17, <2>1, <3>1
    <3>2. CASE code = "lost"
      BY <1>6, <1>7, <1>9, <1>17, <2>1, <3>2
    <3> QED
      BY <1>17, <3>1, <3>2
  <2>3. CallBecomes(op, d, "end", result)
    BY <1>2, <2>2, OpEnds
  <2>4. IF result = "ok" THEN more = 1 ELSE more = 0 \/ Lost(writeRegime, worn)
    BY <1>1, <1>11, <1>14, <1>17, <2>1
  <2> QED
    BY <1>1, <1>2, <1>8, <1>9, <1>10, <1>13, <1>15, <2>2, <2>3, <2>4, CommentTold
<1>18. CASE ~Again("POST", op.attempt, code) /\ code \notin {"2xx", "lost"}
  <2>1. d = [NextPath EXCEPT !.attempt = 0]
    BY <1>6, <1>7, <1>9, <1>18
  <2>2. more = 0 \/ (op.path = writeRegime.home /\ Lost(writeRegime, worn))
    BY <1>1, <1>5, <1>11, <1>14, <1>18
  <2> QED
    BY <1>1, <1>2, <1>8, <1>9, <1>10, <1>13, <1>15, <2>1, <2>2, CommentTriesOn
<1> QED
  BY <1>16, <1>17, <1>18

LEMMA SearchBoardsKeeps == ASSUME WriteInv, SearchBoards, WriteGoes PROVE WriteInv'
<1>1. PICK reg, left : reg = writeRegime /\ left = writeLeft
  OBVIOUS
<1>2. Writes(reg, left, items, op) /\ op.at = "search" /\ op \in OpRecord /\ LeftHolds(reg, left) /\ RowsHold(items)
  BY <1>1 DEF WriteInv, Writes, SearchBoards
<1>3. op.call = "comment" /\ Comments(reg, left, items, op)
  BY <1>2, CallOf DEF Writes
<1>4. reg.home \in Boards
  BY <1>1, WriteFacts
<1>5. PICK d : d = op'
  OBVIOUS
<1>6. PICK k : k = items[Target].comments
  OBVIOUS
<1>7. Target \in DOMAIN items /\ k <= (IF reg.home \in op.tried THEN 1 ELSE 0)
  BY <1>2, <1>3, <1>6 DEF Comments
<1>8. k \in 0 .. 3 /\ k <= 1
  <2>1. k \in 0 .. 3
    BY <1>2, <1>6, <1>7, RowIs DEF ItemRecord
  <2> QED
    BY <1>7, <2>1
<1>9. CASE reg.home \notin op.tried /\ d = [op EXCEPT !.at = "comment", !.path = reg.home]
  <2>1. /\ d \in OpRecord /\ d.at = "comment" /\ d.path = reg.home /\ d.tried = op.tried /\ d.call = op.call
        /\ d.result = op.result
    BY <1>2, <1>4, <1>9 DEF OpRecord, WriteSteps
  <2>2. Comments(reg, left, items, d)
    BY <1>2, <1>3, <1>9, <2>1 DEF Comments
  <2>3. Writes(reg, left, items, d)
    BY <1>2, <1>3, <2>1, <2>2, OfComment
  <2> QED
    BY <1>1, <1>5, <2>3, WriteGoesOn DEF SearchBoards
<1>10. CASE d = Goes("old_path")
  <2>1. d \in OpRecord /\ d.at = "old_path" /\ d.call = op.call /\ d.result = op.result
    BY <1>2, <1>10, OpGoes DEF CallBecomes
  <2>2. Comments(reg, left, items, d)
    BY <1>2, <1>3, <1>6, <1>8, <2>1 DEF Comments
  <2>3. Writes(reg, left, items, d)
    BY <1>2, <1>3, <2>1, <2>2, OfComment
  <2> QED
    BY <1>1, <1>5, <2>3, WriteGoesOn DEF SearchBoards
<1> QED
  BY <1>1, <1>5, <1>9, <1>10 DEF SearchBoards

LEMMA CommentOldPathKeeps == ASSUME WriteInv, CommentOldPath, WriteGoes PROVE WriteInv'
<1>1. PICK reg : reg = writeRegime
  OBVIOUS
<1>2. /\ Writes(reg, writeLeft, items, op) /\ op.at = "old_path" /\ op \in OpRecord /\ LeftHolds(reg, writeLeft)
      /\ RowsHold(items)
  BY <1>1 DEF WriteInv, Writes, CommentOldPath
<1>3. reg.budget \in [Misfortunes -> Nat] /\ {"404"} \cap (Misfortunes \cup {"2xx"}) = {}
  BY <1>1, WriteFacts DEF Misfortunes
<1>4. PICK after : after = Commented(Target)
  OBVIOUS
<1>5. writeRegime.legacy \in BOOLEAN
  BY WriteFacts
<1>6. PICK r \in Reactions(writeRegime.legacy, {"404"}) :
        /\ r.code \in DOMAIN writeLeft => writeLeft[r.code] > 0
        /\ writeLeft' = [c \in DOMAIN writeLeft |-> writeLeft[c] - (IF c = r.code THEN 1 ELSE 0)]
        /\ items' = IF r.done THEN after ELSE items
        /\ op' = IF Again("POST", op.attempt, r.code) THEN [op EXCEPT !.attempt = @ + 1]
                 ELSE [(IF r.code = "2xx" THEN Ends("ok") ELSE Fails(r.code)) EXCEPT !.attempt = 0]
  BY <1>4 DEF CommentOldPath, Exchange
<1>7. PICK code, done : code = r.code /\ done = r.done
  OBVIOUS
<1>8. PICK worn : worn = writeLeft'
  OBVIOUS
<1>9. PICK d : d = op'
  OBVIOUS
<1>10. Wears(reg, writeLeft, worn) /\ Answered(reg, worn, writeRegime.legacy, {"404"}, done, code)
  <2>1. Answer(reg, writeLeft, writeRegime.legacy, {"404"}, r, worn)
    BY <1>2, <1>3, <1>5, <1>6, <1>8 DEF Answer
  <2> QED
    BY <1>7, <2>1, AnswerIs
<1>11. done \in BOOLEAN /\ (code = "2xx" => done) /\ (done => code \in {"2xx", "broken", "lost"})
       /\ (code \in {"broken", "lost"} => Lost(reg, worn))
  BY <1>10 DEF Answered
<1>12. Target \in DOMAIN items /\ items[Target].comments <= 1
  BY <1>2, CallOf DEF Writes, Comments
<1>13. PICK new : new = items'
  OBVIOUS
<1>14. PICK more : more = IF done THEN 1 ELSE 0
  OBVIOUS
<1>15. more \in 0 .. 1 /\ Hears(items, new, more)
  <2>1. CASE done = TRUE
    BY <1>2, <1>4, <1>6, <1>7, <1>12, <1>13, <1>14, <2>1, HearsOne
  <2>2. CASE done = FALSE
    BY <1>2, <1>6, <1>7, <1>12, <1>13, <1>14, <2>2, HearsNone
  <2> QED
    BY <1>11, <2>1, <2>2
<1>16. CASE Again("POST", op.attempt, code)
  <2>1. op.attempt < Retries /\ d = [op EXCEPT !.attempt = @ + 1] /\ done = FALSE
    BY <1>6, <1>7, <1>9, <1>11, <1>16 DEF Again
  <2>2. CallBecomes(op, d, op.at, op.result)
    BY <1>2, <2>1, OpRetries
  <2>3. items' = items
    BY <1>6, <1>7, <2>1
  <2> QED
    BY <1>1, <1>8, <1>9, <1>10, <2>2, <2>3, CommentRetries
<1>17. CASE ~Again("POST", op.attempt, code)
  <2>1. PICK result : result = IF code = "2xx" THEN "ok" ELSE IF code = "lost" THEN "raised" ELSE "failed"
    OBVIOUS
  <2>2. result \in {"ok", "failed", "raised"} /\ d = [Ends(result) EXCEPT !.attempt = 0]
    <3>1. CASE code = "2xx"
      BY <1>6, <1>7, <1>9, <1>17, <2>1, <3>1
    <3>2. CASE code # "2xx"
      BY <1>6, <1>7, <1>9, <1>17, <2>1, <3>2 DEF Fails
    <3> QED
      BY <3>1, <3>2
  <2>3. CallBecomes(op, d, "end", result)
    BY <1>2, <2>2, OpEnds
  <2>4. IF result = "ok" THEN more = 1 ELSE more = 0 \/ Lost(writeRegime, worn)
    BY <1>1, <1>11, <1>14, <1>17, <2>1
  <2> QED
    BY <1>1, <1>2, <1>8, <1>9, <1>10, <1>13, <1>15, <2>2, <2>3, <2>4, CommentTold
<1> QED
  BY <1>16, <1>17

(* ------------------------------------------------------------- deletion *)
LEMMA DeleteItemKeeps == ASSUME WriteInv, DeleteItem, WriteGoes PROVE WriteInv'
<1>1. PICK reg : reg = writeRegime
  OBVIOUS
<1>2. /\ Writes(reg, writeLeft, items, op) /\ op.at = "delete" /\ op \in OpRecord /\ LeftHolds(reg, writeLeft)
      /\ RowsHold(items)
  BY <1>1 DEF WriteInv, Writes, DeleteItem
<1>3. reg.budget \in [Misfortunes -> Nat] /\ {"404"} \cap (Misfortunes \cup {"2xx"}) = {}
  BY <1>1, WriteFacts DEF Misfortunes
<1>4. PICK after : after = [i \in DOMAIN items \ {Target} |-> items[i]]
  OBVIOUS
<1>5. PICK takes : takes = (Target \in DOMAIN items)
  OBVIOUS
<1>6. PICK r \in Reactions(takes, {"404"}) :
        /\ r.code \in DOMAIN writeLeft => writeLeft[r.code] > 0
        /\ writeLeft' = [c \in DOMAIN writeLeft |-> writeLeft[c] - (IF c = r.code THEN 1 ELSE 0)]
        /\ items' = IF r.done THEN after ELSE items
        /\ op' = IF Again("DELETE", op.attempt, r.code) THEN [op EXCEPT !.attempt = @ + 1]
                 ELSE [(IF r.code = "2xx" THEN Ends("ok") ELSE Fails(r.code)) EXCEPT !.attempt = 0]
  BY <1>4, <1>5 DEF DeleteItem, Exchange
<1>7. PICK code, done : code = r.code /\ done = r.done
  OBVIOUS
<1>8. PICK worn : worn = writeLeft'
  OBVIOUS
<1>9. PICK d : d = op'
  OBVIOUS
<1>10. Wears(reg, writeLeft, worn) /\ Answered(reg, worn, takes, {"404"}, done, code)
  <2>1. Answer(reg, writeLeft, takes, {"404"}, r, worn)
    BY <1>2, <1>3, <1>5, <1>6, <1>8 DEF Answer
  <2> QED
    BY <1>7, <2>1, AnswerIs
<1>11. /\ done \in BOOLEAN /\ (done => takes) /\ (code = "2xx" => done) /\ (done => code \in {"2xx", "broken", "lost"})
       /\ (code \in {"broken", "lost"} => Lost(reg, worn))
  BY <1>10 DEF Answered
<1>12. PICK new : new = items'
  OBVIOUS
<1>13. op.call = "delete" /\ Deletes(reg, writeLeft, items, op)
  BY <1>2, CallOf DEF Writes
<1>14. RowsHold(new) /\ Made(new) \subseteq Made(items) /\ IF done THEN Target \notin DOMAIN new ELSE new = items
  <2>1. CASE done = TRUE
    BY <1>2, <1>4, <1>5, <1>6, <1>7, <1>11, <1>12, <2>1, DeleteRows
  <2>2. CASE done = FALSE
    BY <1>2, <1>6, <1>7, <1>12, <2>2
  <2> QED
    BY <1>11, <2>1, <2>2
<1>15. LeftHolds(reg, worn) /\ (Lost(reg, writeLeft) => Lost(reg, worn))
  BY <1>10 DEF Wears
<1>16. ASSUME d \in OpRecord, d.call = op.call, d.at = "delete" \/ (d.at = "end" /\ (d.result = "ok" <=> code = "2xx")),
              d.at = "delete" => code # "2xx"
       PROVE  WriteInv'
  <2>1. code = "2xx" => Target \notin DOMAIN new
    BY <1>11, <1>14
  <2>2. code # "2xx" => Target \in DOMAIN new \/ Lost(reg, worn)
    BY <1>2, <1>11, <1>13, <1>14, <1>15 DEF Deletes
  <2>5. Made(new) = {}
    BY <1>13, <1>14 DEF Deletes
  <2>3. Deletes(reg, worn, new, d)
    BY <1>16, <2>1, <2>2, <2>5 DEF Deletes
  <2>4. Writes(reg, worn, new, d)
    BY <1>13, <1>14, <1>15, <1>16, <2>3, OfDelete
  <2> QED
    BY <1>1, <1>8, <1>9, <1>12, <2>4, WriteGoesOn
<1>17. CASE Again("DELETE", op.attempt, code)
  <2>1. op.attempt < Retries /\ d = [op EXCEPT !.attempt = @ + 1] /\ code # "2xx"
    BY <1>6, <1>7, <1>9, <1>17 DEF Again
  <2>2. CallBecomes(op, d, op.at, op.result)
    BY <1>2, <2>1, OpRetries
  <2> QED
    BY <1>2, <1>16, <2>1, <2>2 DEF CallBecomes
<1>18. CASE ~Again("DELETE", op.attempt, code)
  <2>1. PICK result : result = IF code = "2xx" THEN "ok" ELSE IF code = "lost" THEN "raised" ELSE "failed"
    OBVIOUS
  <2>2. result \in {"ok", "failed", "raised"} /\ d = [Ends(result) EXCEPT !.attempt = 0]
    <3>1. CASE code = "2xx"
      BY <1>6, <1>7, <1>9, <1>18, <2>1, <3>1
    <3>2. CASE code # "2xx"
      BY <1>6, <1>7, <1>9, <1>18, <2>1, <3>2 DEF Fails
    <3> QED
      BY <3>1, <3>2
  <2>3. CallBecomes(op, d, "end", result)
    BY <1>2, <2>2, OpEnds
  <2>4. result = "ok" <=> code = "2xx"
    BY <2>1
  <2> QED
    BY <1>16, <2>3, <2>4 DEF CallBecomes
<1> QED
  BY <1>17, <1>18

(* -------------------------------------------------- no space, and others *)
LEMMA NoSpaceKeeps == ASSUME WriteInv, NoSpace, WriteGoes PROVE WriteInv'
<1>1. PICK reg, left : reg = writeRegime /\ left = writeLeft
  OBVIOUS
<1>2. Writes(reg, left, items, op) /\ op \in OpRecord /\ LeftHolds(reg, left) /\ RowsHold(items)
  BY <1>1 DEF WriteInv, Writes
<1>3. PICK d, worn : d = op' /\ worn = writeLeft
  OBVIOUS
<1>4. Wears(writeRegime, writeLeft, worn) /\ writeLeft' = worn /\ items' = items
  BY <1>1, <1>2, <1>3, WearsSame DEF NoSpace
<1>5. CASE op.at \in {"post_item", "delete", "post_public"} /\ d = Ends("failed")
  <2>1. CallBecomes(op, d, "end", "failed")
    BY <1>2, <1>5, OpEnds
  <2>2. CASE op.at \in {"post_item", "post_public"}
    BY <1>3, <1>4, <2>1, <2>2, BranchVain
  <2>3. CASE op.at = "delete"
    <3>1. op.call = "delete" /\ Deletes(reg, left, items, op)
      BY <1>2, <2>3, CallOf DEF Writes
    <3>2. d \in OpRecord /\ d.at = "end" /\ d.result = "failed" /\ d.call = op.call
      BY <2>1 DEF CallBecomes
    <3>3. Deletes(reg, left, items, d)
      BY <2>3, <3>1, <3>2 DEF Deletes
    <3>4. Writes(reg, left, items, d)
      BY <1>2, <3>1, <3>2, <3>3, OfDelete
    <3> QED
      BY <1>1, <1>3, <1>4, <3>4, WriteGoesOn
  <2> QED
    BY <1>5, <2>2, <2>3
<1>6. CASE op.at = "comment" /\ d = NextPath
  <2>1. Target \in DOMAIN items
    BY <1>2, <1>6, CallOf DEF Writes, Comments
  <2>2. PICK none, new : none = 0 /\ new = items
    OBVIOUS
  <2>3. Hears(items, new, none) /\ none \in 0 .. 1
    BY <1>2, <2>1, <2>2, HearsNone
  <2> QED
    BY <1>3, <1>4, <1>6, <2>2, <2>3, CommentTriesOn
<1> QED
  BY <1>3, <1>5, <1>6 DEF NoSpace

LEMMA SomebodyAddsKeeps == ASSUME WriteInv, SomebodyAdds PROVE WriteInv'
<1>1. PICK reg, left : reg = writeRegime /\ left = writeLeft
  OBVIOUS
<1>2. /\ Writes(reg, left, items, op) /\ op \in OpRecord /\ LeftHolds(reg, left) /\ RowsHold(items)
      /\ op.at # "end" /\ left["added"] > 0 /\ WriteGoes
  BY <1>1 DEF WriteInv, Writes, SomebodyAdds, WriteGoes
<1>3. PICK worn : worn = writeLeft'
  OBVIOUS
<1>4. reg.budget \in [Misfortunes -> Nat]
  BY <1>1, WriteFacts
<1>5. worn = [left EXCEPT !["added"] = left["added"] - 1]
  BY <1>1, <1>3 DEF SomebodyAdds
<1>6. /\ LeftHolds(reg, worn) /\ worn["added"] < reg.budget["added"] /\ worn["broken"] = left["broken"]
      /\ worn["lost"] = left["lost"]
  <2>1. left \in [Misfortunes -> Nat] /\ {"added", "broken", "lost"} \subseteq Misfortunes
    BY <1>2 DEF LeftHolds, Misfortunes
  <2>2. PICK n, b : n = left["added"] /\ b = reg.budget["added"]
    OBVIOUS
  <2>3. n \in Nat /\ b \in Nat /\ n > 0 /\ n <= b
    BY <1>2, <1>4, <2>1, <2>2 DEF LeftHolds
  <2>4. n - 1 \in Nat /\ n - 1 < b /\ n - 1 <= b
    BY <2>3
  <2>5. worn \in [Misfortunes -> Nat] /\ worn["added"] = n - 1 /\ \A c \in Misfortunes : c # "added" => worn[c] = left[c]
    BY <1>5, <2>1, <2>2, <2>4
  <2> QED
    BY <1>2, <2>1, <2>2, <2>4, <2>5 DEF LeftHolds
<1>7. Lost(reg, worn) <=> Lost(reg, left)
  BY <1>6 DEF Lost
<1>8. Excused(reg, left, op) => Excused(reg, worn, op)
  BY <1>6 DEF Excused
<1>9. PICK new, row, id : new = items' /\ row = Row("them", FALSE, "theirs") /\ id = NewId
  OBVIOUS
<1>10. row \in ItemRecord /\ row.by = "them" /\ Untouched(row) /\ row.comments = 0
  BY <1>9 DEF ItemRecord, Row, Untouched
<1>11. Adds(items, new, id, row)
  BY <1>2, <1>9, <1>10, WithAdds DEF SomebodyAdds
<1>12. /\ RowsHold(new) /\ id \notin DOMAIN items /\ DOMAIN new = DOMAIN items \cup {id} /\ new[id] = row
       /\ \A i \in DOMAIN items : new[i] = items[i]
  BY <1>11 DEF Adds
<1>13. Made(new) = Made(items)
  BY <1>10, <1>12 DEF Made
<1>14. ASSUME Makes(reg, left, items, op) PROVE Makes(reg, worn, new, op)
  <2>1. ASSUME NEW i \in DOMAIN new, new[i].by = "them" PROVE Untouched(new[i]) \/ Excused(reg, worn, op)
    BY <1>8, <1>10, <1>12, <1>14, <2>1 DEF Makes
  <2> QED
    BY <1>7, <1>13, <1>14, <2>1 DEF Makes
<1>15. op.call \in {"create", "subtask", "comment", "delete"}
  BY <1>2 DEF OpRecord, Calls
<1>16. CASE op.call = "create"
  <2>1. Creates(reg, left, items, op)
    BY <1>2 DEF Writes
  <2>2. \A i \in DOMAIN new : new[i].comments = 0
    BY <1>2, <1>10, <1>12, <1>16, <2>1 DEF Creates
  <2>3. op.at \in {"post_item", "find"} => \A i \in DOMAIN new : new[i].by = "them" => Untouched(new[i])
    BY <1>10, <1>12, <1>16, <2>1 DEF Creates
  <2>4. op.at \in {"repair", "describe"} =>
          op.item \in DOMAIN new /\ (new[op.item].by = "us" \/ Excused(reg, worn, op))
    BY <1>8, <1>12, <1>16, <2>1 DEF Creates
  <2>5. worn["added"] # reg.budget["added"]
    <3>1. worn["added"] \in Nat /\ reg.budget["added"] \in Nat
      BY <1>4, <1>6 DEF LeftHolds, Misfortunes
    <3> QED
      BY <1>6, <3>1
  <2>6. Creates(reg, worn, new, op)
    BY <1>14, <1>16, <2>1, <2>2, <2>3, <2>4, <2>5 DEF Creates
  <2>7. Writes(reg, worn, new, op)
    BY <1>2, <1>6, <1>12, <1>16, <2>6, OfCreate
  <2> QED
    BY <1>1, <1>2, <1>3, <1>9, <2>7, WriteGoesOn DEF SomebodyAdds
<1>17. CASE op.call = "subtask"
  <2>1. Branches(reg, left, items, op)
    BY <1>2 DEF Writes
  <2>2. \A i \in Made(new) : new[i].parent
    BY <1>12, <1>13, <1>17, <2>1 DEF Branches, Made
  <2>3. Branches(reg, worn, new, op)
    BY <1>14, <1>17, <2>1, <2>2 DEF Branches
  <2>4. Writes(reg, worn, new, op)
    BY <1>2, <1>6, <1>12, <1>17, <2>3, OfSubtask
  <2> QED
    BY <1>1, <1>2, <1>3, <1>9, <2>4, WriteGoesOn DEF SomebodyAdds
<1>18. CASE op.call = "comment"
  <2>1. Comments(reg, left, items, op)
    BY <1>2 DEF Writes
  <2>2. Target \in DOMAIN items /\ new[Target] = items[Target] /\ Target \in DOMAIN new
    BY <1>12, <1>18, <2>1 DEF Comments
  <2>3. Comments(reg, worn, new, op)
    BY <1>2, <1>7, <1>13, <1>18, <2>1, <2>2 DEF Comments
  <2>4. Writes(reg, worn, new, op)
    BY <1>2, <1>6, <1>12, <1>18, <2>3, OfComment
  <2> QED
    BY <1>1, <1>2, <1>3, <1>9, <2>4, WriteGoesOn DEF SomebodyAdds
<1>19. CASE op.call = "delete"
  <2>1. Deletes(reg, left, items, op)
    BY <1>2 DEF Writes
  <2>2. Deletes(reg, worn, new, op)
    BY <1>2, <1>7, <1>12, <1>13, <1>19, <2>1 DEF Deletes
  <2>3. Writes(reg, worn, new, op)
    BY <1>2, <1>6, <1>12, <1>19, <2>2, OfDelete
  <2> QED
    BY <1>1, <1>2, <1>3, <1>9, <2>3, WriteGoesOn DEF SomebodyAdds
<1> QED
  BY <1>15, <1>16, <1>17, <1>18, <1>19

(* ---------------------------------------------------------- all the steps *)
LEMMA WriteStarts == ASSUME WriteInit PROVE WriteInv
<1>1. PICK reg : reg = writeRegime
  OBVIOUS
<1>2. /\ reg \in WriteRegimes /\ writeLeft = reg.budget
      /\ items = [i \in 0 .. (reg.others - 1) |-> Row("them", FALSE, "theirs")]
  BY <1>1 DEF WriteInit
<1>3. PICK c \in reg.calls : op = [call |-> c, at |-> FirstStep(c), attempt |-> 0, shape |-> 1, item |-> 0,
                                   path |-> reg.asked, tried |-> {}, bearer |-> FALSE, blind |-> FALSE,
                                   result |-> "none"]
  BY <1>1 DEF WriteInit
<1>4. /\ reg.budget \in [Misfortunes -> Nat] /\ reg.others \in Nat \ {0}
      /\ reg.asked \in Boards /\ reg.calls \subseteq Calls
  BY <1>2, WriteAssumption
<1>5. c \in Calls /\ c \in {"create", "subtask", "comment", "delete"}
  BY <1>3, <1>4 DEF Calls
<1>6. LeftHolds(reg, writeLeft)
  <2>1. \A x \in Misfortunes : reg.budget[x] \in Nat
    BY <1>4
  <2>2. \A x \in Misfortunes : reg.budget[x] <= reg.budget[x]
    BY <2>1
  <2> QED
    BY <1>2, <1>4, <2>2 DEF LeftHolds
<1>7. PICK row : row = Row("them", FALSE, "theirs")
  OBVIOUS
<1>8. row \in ItemRecord /\ row.by = "them" /\ Untouched(row) /\ row.comments = 0
  BY <1>7 DEF ItemRecord, Row, Untouched
<1>9. DOMAIN items = 0 .. reg.others - 1 /\ \A i \in DOMAIN items : items[i] = row
  BY <1>2, <1>7
<1>10. RowsHold(items)
  <2>1. items \in [0 .. reg.others - 1 -> ItemRecord]
    BY <1>2, <1>7, <1>8
  <2> QED
    BY <1>4, <2>1 DEF RowsHold, Numbered
<1>11. Target \in DOMAIN items /\ items[Target].comments = 0
  <2>1. Target \in 0 .. reg.others - 1
    BY <1>4 DEF Target
  <2> QED
    BY <1>8, <1>9, <2>1
<1>12. FirstStep(c) \in WriteSteps /\ 0 \in Nat /\ {} \in SUBSET Boards
  BY <1>5 DEF FirstStep, WriteSteps
<1>13. /\ op \in OpRecord /\ op.call = c /\ op.at = FirstStep(c) /\ op.result = "none" /\ op.tried = {}
  BY <1>3, <1>4, <1>5, <1>12, Counts DEF OpRecord
<1>14. Made(items) = {}
  BY <1>8, <1>9 DEF Made
<1>15. Makes(reg, writeLeft, items, op)
  BY <1>8, <1>9, <1>13, <1>14 DEF Makes
<1>16. CASE c = "create"
  <2>1. op.at = "post_item"
    BY <1>13, <1>16 DEF FirstStep
  <2>2. Creates(reg, writeLeft, items, op)
    BY <1>8, <1>9, <1>15, <2>1 DEF Creates
  <2> QED
    BY <1>1, <1>2, <1>6, <1>10, <1>13, <1>16, <2>2, OfCreate DEF WriteInv
<1>17. CASE c = "subtask"
  <2>1. op.at = "post_subtask"
    BY <1>13, <1>17 DEF FirstStep
  <2>2. Branches(reg, writeLeft, items, op)
    BY <1>14, <1>15, <2>1 DEF Branches
  <2> QED
    BY <1>1, <1>2, <1>6, <1>10, <1>13, <1>17, <2>2, OfSubtask DEF WriteInv
<1>18. CASE c = "comment"
  <2>1. op.at = "comment"
    BY <1>13, <1>18 DEF FirstStep
  <2>2. Comments(reg, writeLeft, items, op)
    BY <1>11, <1>13, <1>14, <2>1 DEF Comments
  <2> QED
    BY <1>1, <1>2, <1>6, <1>10, <1>13, <1>18, <2>2, OfComment DEF WriteInv
<1>19. CASE c = "delete"
  <2>1. op.at = "delete"
    BY <1>13, <1>19 DEF FirstStep
  <2>2. Deletes(reg, writeLeft, items, op)
    BY <1>11, <1>14, <2>1 DEF Deletes
  <2> QED
    BY <1>1, <1>2, <1>6, <1>10, <1>13, <1>19, <2>2, OfDelete DEF WriteInv
<1> QED
  BY <1>5, <1>16, <1>17, <1>18, <1>19

LEMMA WriteRests == ASSUME WriteInv, UNCHANGED writeVars PROVE WriteInv'
BY DEF WriteInv, writeVars

LEMMA WriteKept == ASSUME WriteInv, WriteNext PROVE WriteInv'
<1>1. CASE SomebodyAdds
  BY <1>1, SomebodyAddsKeeps
<1>2. CASE WriteStep /\ UNCHANGED writeRegime
  <2>1. WriteGoes
    BY <1>2 DEF WriteGoes
  <2> QED
    BY <1>2, <2>1, NoSpaceKeeps, PostItemKeeps, FindItemKeeps, RepairTextKeeps, DescribeItemKeeps,
       PostSubtaskKeeps, LoadParentKeeps, PostSubtaskPublicKeeps, CommentThereKeeps, SearchBoardsKeeps,
       CommentOldPathKeeps, DeleteItemKeeps DEF WriteStep
<1> QED
  BY <1>1, <1>2 DEF WriteNext

LEMMA WriteSays == ASSUME WriteInv PROVE WritesAreTrue
<1>1. PICK reg, left : reg = writeRegime /\ left = writeLeft
  OBVIOUS
<1>2. Writes(reg, left, items, op) /\ op \in OpRecord /\ LeftHolds(reg, left) /\ RowsHold(items)
  BY <1>1 DEF WriteInv, Writes
<1>3. Creates(reg, left, items, op) /\ Branches(reg, left, items, op)
  BY <1>2 DEF Writes
<1>4. Comments(reg, left, items, op) /\ Deletes(reg, left, items, op)
  BY <1>2 DEF Writes
<1>5. Ours = Made(items) /\ (Unheard <=> Lost(reg, left))
  BY <1>1 DEF Ours, Made, Unheard, Lost
<1>6. op.call \in {"create", "subtask"} => Makes(reg, left, items, op)
  BY <1>3 DEF Creates, Branches
<1>7. WriteTypeOK
  <2>1. \A i \in DOMAIN items : items[i] \in ItemRecord
    BY <1>2, RowIs
  <2>2. \A row \in ItemRecord :
          row \in [by : {"us", "them"}, parent : BOOLEAN, comments : 0..3, text : {"asked", "default", "theirs"}]
    BY DEF ItemRecord
  <2> QED
    BY <1>2, <2>1, <2>2 DEF WriteTypeOK, OpRecord
<1>8. OneItemPerCall
  <2>1. CASE Made(items) = {}
    <3>1. Cardinality(Made(items)) = 0
      BY <2>1, FS_EmptySet
    <3> QED
      BY <1>5, <3>1 DEF OneItemPerCall
  <2>2. CASE Made(items) # {}
    <3>1. op.call \in {"create", "subtask"}
      BY <1>2, <1>4, <2>2 DEF OpRecord, Calls, Comments, Deletes
    <3>2. \A i, j \in Made(items) : i = j
      BY <1>6, <3>1 DEF Makes
    <3>3. PICK i : Made(items) = {i}
      BY <2>2, <3>2
    <3>4. Cardinality(Made(items)) = 1
      BY <3>3, FS_Singleton
    <3> QED
      BY <1>5, <3>4 DEF OneItemPerCall
  <2> QED
    BY <2>1, <2>2
<1>9. SaysWhatItDid
  <2>1. ASSUME op.at = "end" PROVE
          /\ op.call \in {"create", "subtask"} =>
               /\ op.result = "ok" => Ours # {}
               /\ op.result = "failed" /\ ~Unheard => Ours = {}
          /\ op.call = "subtask" => \A i \in Ours : items[i].parent
    BY <1>3, <1>5, <1>6 DEF Makes, Branches
  <2>2. ASSUME op.at = "end" PROVE
          op.call = "comment" =>
            /\ op.result = "ok" => items[Target].comments > 0
            /\ ~Unheard => items[Target].comments = IF op.result = "ok" THEN 1 ELSE 0
    BY <1>4, <1>5, <2>2 DEF Comments
  <2>3. ASSUME op.at = "end" PROVE
          op.call = "delete" =>
            /\ op.result = "ok" => Target \notin DOMAIN items
            /\ op.result # "ok" /\ ~Unheard => Target \in DOMAIN items
    BY <1>4, <1>5, <2>3 DEF Deletes
  <2> QED
    BY <2>1, <2>2, <2>3 DEF SaysWhatItDid
<1>10. TouchesItsOwn
  BY <1>1, <1>6 DEF TouchesItsOwn, Makes, Untouched, Excused
<1> QED
  BY <1>7, <1>8, <1>9, <1>10 DEF WritesAreTrue

-----------------------------------------------------------------------------
(* All of them, one at work at a time.                                         *)
BoardsInv ==
  /\ WriteInv /\ FieldInv /\ ReadInv /\ SchemaInv /\ ValueInv /\ CatalogInv /\ TaskInv
  /\ statusBoard \in Seq(ColumnLabels)

LEMMA BoardsKept == BoardsSpec => []BoardsInv
<1>1. BoardsInit => BoardsInv
  <2>1. ASSUME StatusInit PROVE statusBoard \in Seq(ColumnLabels)
    BY <2>1, StatusAssumption DEF StatusInit
  <2> QED
    BY <2>1, WriteStarts, FieldStarts, ReadStarts, SchemaStarts, ValueStarts, CatalogStarts, TaskStarts DEF BoardsInit, BoardsInv
<1>2. BoardsInv /\ [BoardsNext]_<<atWork, writeVars, fieldVars, readVars, statusVars, schemaVars,
                                valueVars, catalogVars, taskVars>> => BoardsInv'
  <2>1. ASSUME [BoardsNext]_<<atWork, writeVars, fieldVars, readVars, statusVars, schemaVars,
                                valueVars, catalogVars, taskVars>>
        PROVE  /\ WriteNext \/ UNCHANGED writeVars
               /\ FieldNext \/ UNCHANGED fieldVars
               /\ ReadNext \/ UNCHANGED readVars
               /\ SchemaNext \/ UNCHANGED schemaVars
               /\ ValueNext \/ UNCHANGED valueVars
               /\ CatalogNext \/ UNCHANGED catalogVars
               /\ TaskNext \/ UNCHANGED taskVars
               /\ StatusNext \/ UNCHANGED statusVars
    BY <2>1 DEF BoardsNext
  <2>2. ASSUME StatusNext \/ UNCHANGED statusVars PROVE UNCHANGED statusBoard
    BY <2>2 DEF StatusNext, PeopleMove, WriteIntent, statusVars
  <2> QED
    BY <2>1, <2>2, WriteKept, WriteRests, FieldKept, FieldRests, ReadKept, ReadRests, SchemaKept, SchemaRests, ValueKept, ValueRests, CatalogKept, CatalogRests,
       TaskKept, TaskRests DEF BoardsInv
<1> QED
  BY <1>1, <1>2, PTL DEF BoardsSpec

(* One call of the client makes one item at most, whatever is refused, sent    *)
(* again, broken or lost on the way, touches no item of others unless Plaky    *)
(* kept the new one's id back, and tells of what it did; a field that is       *)
(* reported as set holds what was asked, one that Plaky takes is not given up, *)
(* and what the process remembers of shapes is true; and reads are whole.      *)
THEOREM ClientStaysTrue == BoardsSpec => []ClientIsTrue
<1>1. BoardsInv => ClientIsTrue
  BY WriteSays, FieldSays, ReadSays DEF BoardsInv, ClientIsTrue
<1> QED
  BY <1>1, BoardsKept, PTL

(* An answer from a cache, of a board's place or of its schema, is no older    *)
(* than the code's comments allow: a place that the last walks came to is as   *)
(* young as the stamp of the whole cache, and a schema is read again after two *)
(* whiles at the latest, however processes and Redis hand it on.               *)
THEOREM CachesStayYoung == BoardsSpec => CachesWearOff
<1>1. BoardsInv /\ [BoardsNext]_<<atWork, writeVars, fieldVars, readVars, statusVars, schemaVars,
                                valueVars, catalogVars, taskVars>> =>
        [\A c \in readRegime.finders :
           finder[c].at \in {"look", "wait"} /\ finder'[c].at = "done" =>
             finder'[c].answer.read + TTL >= now \/ finder[c].board \in stale]_readVars
  BY PlacesWear DEF BoardsNext, BoardsInv
<1>2. BoardsInv /\ [BoardsNext]_<<atWork, writeVars, fieldVars, readVars, statusVars, schemaVars,
                                valueVars, catalogVars, taskVars>> =>
        [\A c \in Readers :
           reader[c].at # "told" /\ reader'[c].at = "told" /\ reader'[c].how = "kept" =>
             hour - reader'[c].reading.kept <= 2 * SchemaTTL - 2]_schemaVars
  BY SchemaWears DEF BoardsNext, BoardsInv
<1> QED
  BY <1>1, <1>2, BoardsKept, PTL DEF BoardsSpec, CachesWearOff, PlacesWearOff, SchemaWearsOff

(* An owner's coming and going moves no card out of a column that stands for   *)
(* work that has begun, on a board with any columns in any order; and a        *)
(* repository that has a board in repos.yml keeps one, whoever edits the file, *)
(* discovers boards or classifies, in whatever order processes do it.          *)
THEOREM PlacesStayKept == BoardsSpec => PlacesAreKept
<1>1. BoardsInv /\ [BoardsNext]_<<atWork, writeVars, fieldVars, readVars, statusVars, schemaVars,
                                valueVars, catalogVars, taskVars>> =>
        [\A repo \in Repos : repos[repo].ids # "none" => repos'[repo].ids # "none"]_catalogVars
  BY CatalogKept DEF BoardsNext, BoardsInv
<1>2. [BoardsNext]_<<atWork, writeVars, fieldVars, readVars, statusVars, schemaVars,
                                valueVars, catalogVars, taskVars>> =>
        [moved' \in Ownership =>
           LET read == CurrentIntent(statusBoard, column) IN
           read # None => read \in Ownership \/ column' = column]_statusVars
  BY OwnershipKeeps DEF BoardsNext
<1> QED
  BY <1>1, <1>2, BoardsKept, PTL DEF BoardsSpec, PlacesAreKept, EntriesHold, OwnershipKeepsColumn

(* A column is read as what it stands for and never as further than it means,  *)
(* on boards with any columns; a word is set as the value that means it, on    *)
(* boards with any values; and whoever is told a schema is told one that the   *)
(* board had, and one that was read as whole.                                  *)
THEOREM BoardsStayRead == BoardsSpec => []BoardsAreRead
<1>1. BoardsInv => BoardsAreRead
  <2>1. ASSUME BoardsInv PROVE StatusIsRead /\ ValuesAreSound /\ SchemaIsTrue
    BY <2>1, StatusSays, SchemaSays DEF BoardsInv, ValueInv
  <2> QED
    BY <2>1 DEF BoardsAreRead
<1> QED
  BY <1>1, BoardsKept, PTL

(* A task goes where its repository belongs, whoever found the place out; and  *)
(* a card that is made or changed says of its owner what its column says, the  *)
(* tester never owns it nor the developer tests it, no other card is written   *)
(* on, and a change that went well is there: whatever columns the board has,   *)
(* whatever lands of each write, and wherever the configuration is from.       *)
THEOREM TasksStaySound == BoardsSpec => []TasksAreSound
<1>1. BoardsInv => TasksAreSound
  BY CatalogSays, TaskSays DEF BoardsInv, TasksAreSound
<1> QED
  BY <1>1, BoardsKept, PTL
=============================================================================
