------------------------------ MODULE RateLimit ------------------------------
(* The limit on requests to the assistant (ratelimit/leaky_bucket.py) as one   *)
(* client meets it: a bucket that fills by one with each request that is let   *)
(* in and leaks as time passes, in a process's memory or in a table that       *)
(* several processes share.                                                    *)
EXTENDS Naturals, FiniteSets, Sequences

CONSTANTS LimitRegimes    (* where the bucket is, what it holds, what may happen *)

VARIABLES limitRegime, limitLeft,
          instant,      (* true time                                             *)
          setBack,      (* by how much the wall clock is behind it               *)
          bucket,       (* {} or {[water, ts]}                                   *)
          taking,       (* what a process has read and not written back: {}, or  *)
                        (* {[read, at]}                                          *)
          granted,        (* history: every answer, [at, allowed]                  *)
          blurred       (* history: two processes crossed, the clock was set     *)
                        (* back, or memory was lost                              *)
limitVars == <<limitRegime, limitLeft, instant, setBack, bucket, taking, granted, blurred>>

Capacity == limitRegime.capacity
Leak == limitRegime.leak
(* A request fills the bucket by one, which is so many of what leaks at a time. *)
One == limitRegime.one
Processes == limitRegime.processes
SpendsLimit(what) == limitLeft[what] > 0 /\ limitLeft' = [limitLeft EXCEPT ![what] = @ - 1]

LimitInit ==
  /\ limitRegime \in LimitRegimes /\ limitLeft = limitRegime.budget
  /\ instant = limitRegime.start /\ setBack = 0 /\ bucket = {}
  /\ taking = [p \in Processes |-> {}] /\ granted = <<>> /\ blurred = FALSE

(* What is in the bucket at a time; a clock behind the last one leaks nothing. *)
(* Mutation: what was in the bucket at first stays in it. *)
NeverDrained(read, now) == IF read = {} THEN 0 ELSE (CHOOSE b \in read : TRUE).water
Drained(read, now) ==
  IF read = {} THEN 0
  ELSE LET b == CHOOSE b \in read : TRUE
           leaked == IF now > b.ts THEN (now - b.ts) * Leak ELSE 0
       IN IF leaked > b.water THEN 0 ELSE b.water - leaked
(* Mutation: it is full when there is no room for two. *)
RoomForTwo(read, now) == Drained(read, now) + 2 * One <= Capacity
Allows(read, now) == Drained(read, now) + One <= Capacity
(* The level and its time are written back, of a refusal as well.              *)
(* Mutation: a refusal writes the level and leaves the time. *)
LevelWithoutTime(read, now) ==
  {[water |-> Drained(read, now) + (IF Allows(read, now) THEN One ELSE 0),
    ts |-> IF Allows(read, now) \/ read = {} THEN now ELSE (CHOOSE b \in read : TRUE).ts]}
After(read, now) ==
  {[water |-> Drained(read, now) + (IF Allows(read, now) THEN One ELSE 0), ts |-> now]}

Responds(allowed, at) == granted' = Append(granted, [at |-> at, allowed |-> allowed])
Wall == instant - setBack

(* MemoryLeakyBucket.try_acquire: monotonic time, nothing awaited in between.  *)
TakesInMemory ==
  /\ limitRegime.kind = "memory" /\ SpendsLimit("calls")
  /\ bucket' = After(bucket, instant) /\ Responds(Allows(bucket, instant), instant)
  /\ UNCHANGED <<limitRegime, instant, setBack, taking, blurred>>

(* SqliteLeakyBucket.try_acquire: a process does one at a time, but a          *)
(* transaction that has only read keeps nobody out of the table.               *)
ReadsBucket(p) ==
  /\ limitRegime.kind = "table" /\ taking[p] = {} /\ SpendsLimit("calls")
  /\ taking' = [taking EXCEPT ![p] = {[read |-> bucket, at |-> Wall]}]
  /\ UNCHANGED <<limitRegime, instant, setBack, bucket, granted, blurred>>
(* Two that found no row both insert it, and the second fails.                 *)
WritesBucket(p) ==
  \E t \in taking[p] :
    /\ taking' = [taking EXCEPT ![p] = {}]
    /\ IF t.read = {} /\ bucket # {}
       THEN UNCHANGED <<bucket, granted, blurred>>
       ELSE /\ bucket' = After(t.read, t.at) /\ Responds(Allows(t.read, t.at), t.at)
            /\ blurred' = (blurred \/ bucket # t.read)
    /\ UNCHANGED <<limitRegime, limitLeft, instant, setBack>>

TimePasses ==
  /\ instant < limitRegime.until /\ instant' = instant + 1
  /\ UNCHANGED <<limitRegime, limitLeft, setBack, bucket, taking, granted, blurred>>
ClockIsSetBack ==
  /\ SpendsLimit("setBacks") /\ setBack' = setBack + 1 /\ blurred' = TRUE
  /\ UNCHANGED <<limitRegime, instant, bucket, taking, granted>>
(* A bucket in memory goes with its process, one in the table stays.           *)
LimitRestarts ==
  /\ SpendsLimit("restarts")
  /\ taking' = [p \in Processes |-> {}]
  /\ IF limitRegime.kind = "memory" THEN bucket' = {} /\ blurred' = TRUE
     ELSE UNCHANGED <<bucket, blurred>>
  /\ UNCHANGED <<limitRegime, instant, setBack, granted>>

LimitNext ==
  \/ TakesInMemory \/ TimePasses \/ ClockIsSetBack \/ LimitRestarts
  \/ \E p \in Processes : ReadsBucket(p) \/ WritesBucket(p)

(* --------------------------------------------------------------- correctness *)
LetIn(i, j) == Cardinality({k \in i..j : granted[k].allowed})
Overfull(i, j) == LetIn(i, j) * One > Capacity + Leak * (granted[j].at - granted[i].at)
(* In no stretch of time are more requests let in than the bucket holds and    *)
(* leaks meanwhile, whatever was refused in between, and a request is refused  *)
(* only where one more would have been too many: refused requests cost         *)
(* nothing.  Not so when two processes wrote over each other's level, when the *)
(* clock was set back, or when a process forgot.                               *)
LimitIsKept ==
  ~blurred =>
    \A j \in DOMAIN granted :
      IF granted[j].allowed THEN \A i \in 1..j : granted[i].allowed => ~Overfull(i, j)
      ELSE \E i \in 1..(j - 1) :
             /\ granted[i].allowed
             /\ (LetIn(i, j) + 1) * One > Capacity + Leak * (granted[j].at - granted[i].at)
=============================================================================
