------------------------------ MODULE ReadCache ------------------------------
(***************************************************************************)
(* The cache of GitHub reads in one process                                *)
(* (boardman/github/read_cache.py) and the change events that purge it     *)
(* (boardman/github/change_signal.py).                                     *)
(*                                                                         *)
(* Coroutines of one event loop call `cached`; what they do between two    *)
(* awaits is one step.  They await an asyncio.Lock per key and the fetch.  *)
(* A released lock is free while the waiter it woke has not run yet.       *)
(* Every push is told to the process some time later; an entry's time runs *)
(* out at any moment.  The time to live is positive.                       *)
(***************************************************************************)
EXTENDS Naturals, Sequences, SequencesExt, FiniteSetsExt

CONSTANTS
  Callers,         \* coroutines
  CacheKeys,
  Repos,
  RepoOf,          \* _key_repo, for keys of any spelling
  CacheRegimes,    \* the circumstances to consider, see CacheRegime
  NoEntry, NoKey

CacheBudget == [calls : Nat, pushes : Nat, failures : Nat, expiries : Nat]
CacheRegime == [callers : SUBSET Callers, keys : SUBSET CacheKeys, budget : CacheBudget]

ASSUME CacheAssumption ==
  /\ RepoOf \in [CacheKeys -> Repos]
  /\ CacheRegimes \subseteq CacheRegime
  /\ NoKey \notin CacheKeys

VARIABLES
  cacheRegime,  \* the circumstances, fixed
  version,      \* per repository, GitHub's state of it
  untold,       \* per repository, the pushes this process has not been told of
  entry,        \* _entries
  epoch,        \* _epochs
  lock,         \* _locks: the number of each key's lock, 0 for none
  locksMade,    \* per key, how many locks were made
  caller,       \* per coroutine: where it is in `cached`
  queue,        \* those waiting for a lock, in order
  cutOff,       \* history: locks dropped while a waiter of theirs was woken
  cacheSpare    \* what is left of the bounds

cacheVars == <<cacheRegime, version, untold, entry, epoch, lock, locksMade, caller, queue,
               cutOff, cacheSpare>>

Idler == [pc |-> "idle", key |-> NoKey, lock |-> 0, since |-> 0, value |-> 0]

CacheTypeOK ==
  /\ cacheRegime \in CacheRegimes
  /\ version \in [Repos -> Nat] /\ untold \in [Repos -> Nat]
  /\ entry \in [CacheKeys -> [value : Nat, fresh : BOOLEAN] \cup {NoEntry}]
  /\ epoch \in [Repos -> Nat]
  /\ lock \in [CacheKeys -> Nat] /\ locksMade \in [CacheKeys -> Nat]
  /\ caller \in [Callers -> [pc : {"idle", "waiting", "woken", "fetching", "answered"},
                             key : CacheKeys \cup {NoKey}, lock : Nat, since : Nat, value : Nat]]
  /\ queue \in Seq(Callers)
  /\ ToSet(queue) = {c \in Callers : caller[c].pc \in {"waiting", "woken"}}
  /\ cutOff \in [CacheKeys -> Nat]
  /\ cacheSpare \in CacheBudget

CacheInit ==
  /\ cacheRegime \in CacheRegimes
  /\ version = [r \in Repos |-> 0] /\ untold = [r \in Repos |-> 0]
  /\ entry = [k \in CacheKeys |-> NoEntry]
  /\ epoch = [r \in Repos |-> 0]
  /\ lock = [k \in CacheKeys |-> 0] /\ locksMade = [k \in CacheKeys |-> 0]
  /\ caller = [c \in Callers |-> Idler]
  /\ queue = <<>>
  /\ cutOff = [k \in CacheKeys |-> 0]
  /\ cacheSpare = cacheRegime.budget

Draw(what) == cacheSpare[what] > 0 /\ cacheSpare' = [cacheSpare EXCEPT ![what] = @ - 1]

-----------------------------------------------------------------------------
(* asyncio.Lock.  A lock is a key and a number; it is held from the moment *)
(* a coroutine gets it, and goes to those that wait in their order.        *)

AtWork(c)     == caller[c].pc \in {"fetching", "answered"}
Uses(c, k, n) == caller[c].key = k /\ caller[c].lock = n

Held(k, n)           == \E c \in Callers : AtWork(c) /\ Uses(c, k, n)
Woken(k, n)          == \E c \in Callers : caller[c].pc = "woken" /\ Uses(c, k, n)

(* d is the first in line for the lock of c. *)
FirstInLine(line, c, d) ==
  \E i \in DOMAIN line :
    /\ line[i] = d /\ Uses(d, caller[c].key, caller[c].lock)
    /\ \A j \in 1 .. i - 1 : ~Uses(line[j], caller[c].key, caller[c].lock)

(* Mutation: a caller that found its answer under the lock wakes nobody. *)
LeaveQuietly(c, line) ==
  caller' = [d \in Callers |->
               IF d = c THEN Idler
               ELSE IF AtWork(c) /\ FirstInLine(line, c, d)
               THEN [caller[d] EXCEPT !.pc = "woken"] ELSE caller[d]]

(* c leaves `cached`, and its lock wakes the first of those in line. *)
Leave(c, line) ==
  caller' = [d \in Callers |->
               IF d = c THEN Idler
               ELSE IF FirstInLine(line, c, d)
               THEN [caller[d] EXCEPT !.pc = "woken"] ELSE caller[d]]

-----------------------------------------------------------------------------
(* cached *)

Hit(k) == entry[k] # NoEntry /\ entry[k].fresh

(* A fetch begins: the repository's epoch is noted first. *)
Fetching(k, n) ==
  [pc |-> "fetching", key |-> k, lock |-> n, since |-> epoch[RepoOf[k]], value |-> 0]

InLine(k, n) == [pc |-> "waiting", key |-> k, lock |-> n, since |-> 0, value |-> 0]

CallHits(c, k) ==
  /\ caller[c].pc = "idle" /\ Hit(k)
  /\ UNCHANGED cacheVars

(* _locks.setdefault, and the lock at once if it is free and nobody is in line. *)
CallMisses(c, k) ==
  LET n == IF lock[k] = 0 THEN locksMade[k] + 1 ELSE lock[k]
      free == ~Held(k, n) /\ \A d \in ToSet(queue) : ~Uses(d, k, n)
  IN
  /\ caller[c].pc = "idle" /\ ~Hit(k)
  /\ Draw("calls")
  /\ lock' = [lock EXCEPT ![k] = n]
  /\ locksMade' = [locksMade EXCEPT ![k] = IF lock[k] = 0 THEN n ELSE @]
  /\ \/ free /\ caller' = [caller EXCEPT ![c] = Fetching(k, n)] /\ UNCHANGED queue
     \/ /\ ~free
        /\ caller' = [caller EXCEPT ![c] = InLine(k, n)]
        /\ queue' = Append(queue, c)
  /\ UNCHANGED <<cacheRegime, version, untold, entry, epoch, cutOff>>

(* Mutation: a waiter that fetches stays in line. *)
ResumesInLine(c) ==
  LET k == caller[c].key IN
  /\ caller[c].pc = "woken"
  /\ \/ Hit(k) /\ Leave(c, queue)
     \/ ~Hit(k) /\ caller' = [caller EXCEPT ![c] = Fetching(k, caller[c].lock)]
  /\ UNCHANGED <<cacheRegime, version, untold, entry, epoch, lock, locksMade, queue, cutOff,
                 cacheSpare>>

(* The woken waiter runs: the entry may have been filled meanwhile. *)
Resumes(c) ==
  LET k == caller[c].key IN
  /\ caller[c].pc = "woken"
  /\ \E i \in DOMAIN queue : queue[i] = c /\ queue' = RemoveAt(queue, i)
  /\ \/ Hit(k) /\ Leave(c, queue')
     \/ ~Hit(k) /\ caller' = [caller EXCEPT ![c] = Fetching(k, caller[c].lock)]
  /\ UNCHANGED <<cacheRegime, version, untold, entry, epoch, lock, locksMade, cutOff, cacheSpare>>

Brings(s, v) ==
  [pc |-> "answered", key |-> s.key, lock |-> s.lock, since |-> s.since, value |-> v]

(* GitHub answers with what it has now; the answer is on its way. *)
Answers(c) ==
  /\ caller[c].pc = "fetching"
  /\ caller' = [caller EXCEPT ![c] = Brings(caller[c], version[RepoOf[caller[c].key]])]
  /\ UNCHANGED <<cacheRegime, version, untold, entry, epoch, lock, locksMade, queue, cutOff,
                 cacheSpare>>

(* Mutation: the answer is stored whatever happened meanwhile. *)
StoresAlways(c) ==
  LET k == caller[c].key IN
  /\ caller[c].pc = "answered"
  /\ entry' = [entry EXCEPT ![k] = [value |-> caller[c].value, fresh |-> TRUE]]
  /\ Leave(c, queue)
  /\ UNCHANGED <<cacheRegime, version, untold, epoch, lock, locksMade, queue, cutOff, cacheSpare>>

(* The fetch returns: its value is stored unless the repository was purged *)
(* since it began.                                                         *)
Stores(c) ==
  LET k == caller[c].key IN
  /\ caller[c].pc = "answered"
  /\ entry' = IF epoch[RepoOf[k]] = caller[c].since
              THEN [entry EXCEPT ![k] = [value |-> caller[c].value, fresh |-> TRUE]]
              ELSE entry
  /\ Leave(c, queue)
  /\ UNCHANGED <<cacheRegime, version, untold, epoch, lock, locksMade, queue, cutOff, cacheSpare>>

(* The fetch raises or returns an error, which is not stored. *)
Fails(c) ==
  /\ caller[c].pc = "fetching"
  /\ Draw("failures")
  /\ Leave(c, queue)
  /\ UNCHANGED <<cacheRegime, version, untold, entry, epoch, lock, locksMade, queue, cutOff>>

-----------------------------------------------------------------------------
(* invalidate_repo *)

Of(r) == {k \in CacheKeys : RepoOf[k] = r}

(* Mutation: locks are dropped with the entries, held or not. *)
DropsEveryLock(k) == lock[k] # 0

(* The lock nobody holds is dropped, though a waiter may be on its way to it. *)
DropsLock(k) == lock[k] # 0 /\ ~Held(k, lock[k])

InvalidateRepo(r) ==
  /\ untold[r] > 0
  /\ untold' = [untold EXCEPT ![r] = @ - 1]
  /\ epoch' = [epoch EXCEPT ![r] = @ + 1]
  /\ entry' = [k \in CacheKeys |-> IF k \in Of(r) THEN NoEntry ELSE entry[k]]
  /\ lock' = [k \in CacheKeys |-> IF k \in Of(r) /\ DropsLock(k) THEN 0 ELSE lock[k]]
  /\ cutOff' = [k \in CacheKeys |->
                  IF lock'[k] # lock[k] /\ Woken(k, lock[k]) THEN cutOff[k] + 1 ELSE cutOff[k]]
  /\ UNCHANGED <<cacheRegime, version, locksMade, caller, queue, cacheSpare>>

Push(r) ==
  /\ Draw("pushes")
  /\ version' = [version EXCEPT ![r] = @ + 1]
  /\ untold' = [untold EXCEPT ![r] = @ + 1]
  /\ UNCHANGED <<cacheRegime, entry, epoch, lock, locksMade, caller, queue, cutOff>>

(* The time to live of an entry runs out. *)
Expires(k) ==
  /\ Hit(k) /\ Draw("expiries")
  /\ entry' = [entry EXCEPT ![k].fresh = FALSE]
  /\ UNCHANGED <<cacheRegime, version, untold, epoch, lock, locksMade, caller, queue, cutOff>>

-----------------------------------------------------------------------------
GoesOn(c) == Resumes(c) \/ Answers(c) \/ Stores(c) \/ Fails(c)

CacheNext ==
  \/ \E c \in cacheRegime.callers :
       \/ \E k \in cacheRegime.keys : CallHits(c, k) \/ CallMisses(c, k)
       \/ GoesOn(c)
  \/ \E r \in {RepoOf[k] : k \in cacheRegime.keys} : Push(r) \/ InvalidateRepo(r)
  \/ \E k \in cacheRegime.keys : Expires(k)

CacheSpec == CacheInit /\ [][CacheNext]_cacheVars

(* The event loop runs what is ready, and every fetch ends: the HTTP client *)
(* has a timeout.                                                           *)
CacheFairness == \A c \in Callers : WF_cacheVars(GoesOn(c))

-----------------------------------------------------------------------------
(***************************************************************************)
(* Once a process has been told of every push, what its cache holds of a   *)
(* repository is what GitHub has, whatever was being fetched when it was   *)
(* told ("the invalidation would have achieved nothing", at _epochs).      *)
(***************************************************************************)
HoldsWhatGitHubHas ==
  \A k \in CacheKeys :
    entry[k] # NoEntry /\ untold[RepoOf[k]] = 0 => entry[k].value = version[RepoOf[k]]

(***************************************************************************)
(* "One fetch per key": callers of one key do not fetch side by side.  The *)
(* only exception is a purge that drops a lock which has been released but *)
(* not yet reached by the waiter it woke; each can add one fetch.          *)
(***************************************************************************)
OneFetchPerKey ==
  \A k \in CacheKeys :
    Cardinality({c \in Callers : AtWork(c) /\ caller[c].key = k}) <= 1 + cutOff[k]

(***************************************************************************)
(* Nobody waits for ever: also a caller in line for a lock that a purge    *)
(* has dropped gets its turn.                                              *)
(***************************************************************************)
CallersReturn == \A c \in Callers : caller[c].pc = "waiting" ~> caller[c].pc = "idle"
=============================================================================
