------------------------------- MODULE PlakyReads -------------------------------
(* The Plaky client's reads: in which space a board lies, which the whole      *)
(* process caches and one walk over all spaces finds out, page by page; and    *)
(* which tasks of a board answer to a status.                                  *)
EXTENDS Naturals, FiniteSets

CONSTANTS ReadRegimes     (* callers, boards, spaces, and what may happen *)
ASSUME ReadAssumption == \A r \in ReadRegimes : "nobody" \notin r.finders

VARIABLES readRegime, readLeft,
          now,            (* the clock, in steps of which TTL outlive a cached place *)
          places,         (* Plaky: the space of every board                         *)
          spaceCache,     (* _SPACE_CACHE: what was read of each board, and when     *)
          stamped,        (* _SPACE_CACHE_AT                                         *)
          stale,          (* boards that a walk since their reading did not come to  *)
          lock,           (* _SPACE_CACHE_LOCKS: who walks                            *)
          finder,         (* the callers of resolve_space_for_board                  *)
          listing         (* the last answer of get_tasks                            *)
readVars == <<readRegime, readLeft, now, places, spaceCache, stamped, stale, lock, finder, listing>>

TTL == 1
Unknown == [space |-> "none", read |-> 0]
Resting == [at |-> "rest", board |-> "none", own |-> <<>>, todo |-> {}, whole |-> TRUE,
            saw |-> FALSE, answer |-> Unknown]
NoListing == [status |-> "none", board |-> {}, rows |-> {}, known |-> FALSE]

ReadBoards == readRegime.boards
Spaces == readRegime.spaces

ReadInit ==
  /\ readRegime \in ReadRegimes
  /\ readLeft = readRegime.budget
  /\ now = 0 /\ stamped = 0 /\ stale = {} /\ lock = "nobody"
  /\ places \in readRegime.start
  /\ spaceCache = [b \in ReadBoards |-> Unknown]
  /\ finder = [c \in readRegime.finders |-> Resting]
  /\ listing = NoListing

SpendsRead(what) == readLeft[what] > 0 /\ readLeft' = [readLeft EXCEPT ![what] = @ - 1]
Sets(c, f) == finder' = [finder EXCEPT ![c] = f]
Cache == <<spaceCache, stamped, stale>>
World == <<now, places>>

(* ---------------------------------------------------------- the space cache *)
(* Mutation: a place, once cached, is good for ever. *)
CachedForEver(b) == spaceCache[b]
(* A cache older than its time to live is not looked at; its time is that of   *)
(* the last walk, for all of it.                                               *)
Cached(b) == IF now - stamped > TTL THEN Unknown ELSE spaceCache[b]

(* Every call has a client of its own, which knows nothing yet.                *)
Ask(c) ==
  /\ finder[c].at \in {"rest", "done"} /\ SpendsRead("calls")
  /\ \E b \in ReadBoards :
       Sets(c, [Resting EXCEPT !.at = "look", !.board = b, !.own = [x \in ReadBoards |-> Unknown]])
  /\ UNCHANGED <<readRegime, World, Cache, lock, listing>>

Answers(f, place) == [f EXCEPT !.at = "done", !.answer = place]
Look(c) ==
  LET f == finder[c] IN
  /\ f.at = "look"
  /\ Sets(c, IF Cached(f.board) # Unknown THEN Answers(f, Cached(f.board))
             ELSE [f EXCEPT !.at = "wait"])
  /\ UNCHANGED <<readRegime, readLeft, World, Cache, lock, listing>>

Walkers == {c \in readRegime.finders : finder[c].at \in {"spaces", "walk"}}

(* Mutation: whoever gets the lock walks. *)
WalksAtOnce(f) == [f EXCEPT !.at = "spaces", !.saw = Cached(f.board) # Unknown]
(* Another caller may have walked in the meantime.                             *)
Enters(f) ==
  IF Cached(f.board) # Unknown THEN Answers(f, Cached(f.board)) ELSE [f EXCEPT !.at = "spaces"]

Enter(c) ==
  /\ finder[c].at = "wait" /\ lock = "nobody"
  /\ LET f == Enters(finder[c]) IN
       Sets(c, f) /\ lock' = IF f.at = "spaces" THEN c ELSE lock
  /\ UNCHANGED <<readRegime, readLeft, World, Cache, listing>>

(* Mutation: an error leaves the lock behind. *)
KeepsLock == UNCHANGED lock
LetsGo == lock' = "nobody"

(* list_boards: the spaces, and each one's boards.  A page that cannot be read *)
(* ends its list, and nobody is told.                                          *)
WalkSpaces(c) ==
  LET f == finder[c] IN
  /\ f.at = "spaces"
  /\ \/ Sets(c, [f EXCEPT !.at = "walk", !.todo = Spaces]) /\ UNCHANGED readLeft
     \/ \E ss \in SUBSET Spaces \ {Spaces} :
          /\ SpendsRead("pages")
          /\ Sets(c, [f EXCEPT !.at = "walk", !.todo = ss, !.whole = FALSE])
  /\ UNCHANGED <<readRegime, World, Cache, lock, listing>>

WalkSpace(c) ==
  LET f == finder[c]
      Reads(s, bs) == [f EXCEPT !.todo = @ \ {s},
                         !.own = [b \in ReadBoards |-> IF b \in bs THEN [space |-> s, read |-> now]
                                                    ELSE @[b]]]
  IN
  /\ f.at = "walk"
  /\ \E s \in f.todo :
       LET there == {b \in ReadBoards : places[b] = s} IN
       \/ Sets(c, Reads(s, there)) /\ UNCHANGED readLeft
       \/ \E bs \in SUBSET there :
            /\ SpendsRead("pages")
            /\ Sets(c, [Reads(s, bs) EXCEPT !.whole = FALSE])
  /\ UNCHANGED <<readRegime, World, Cache, lock, listing>>

Found(f) == {b \in ReadBoards : f.own[b] # Unknown}

(* What was found joins the cache, whose time it renews; the lock is let go.   *)
Walked(c) ==
  LET f == finder[c] IN
  /\ f.at = "walk" /\ f.todo = {}
  /\ Sets(c, Answers(f, [f.own[f.board] EXCEPT !.read = now])) /\ LetsGo
  /\ IF Found(f) = {} THEN UNCHANGED Cache
     ELSE /\ spaceCache' = [b \in ReadBoards |-> IF b \in Found(f) THEN [f.own[b] EXCEPT !.read = now] ELSE spaceCache[b]]
          /\ stamped' = now
          /\ stale' = (stale \ Found(f)) \cup {b \in ReadBoards \ Found(f) : spaceCache[b] # Unknown}
  /\ UNCHANGED <<readRegime, readLeft, World, listing>>

(* A read that is never answered, three times, raises: the walk is over.       *)
WalkRaises(c) ==
  /\ finder[c].at \in {"spaces", "walk"} /\ SpendsRead("lost")
  /\ Sets(c, Answers(finder[c], Unknown)) /\ LetsGo
  /\ UNCHANGED <<readRegime, World, Cache, listing>>

(* ------------------------------------------------------------------ get_tasks *)
(* What a status can be: a label that is open, one that is done, a number of a *)
(* label, when the board's labels could not be read, or nothing.               *)
Labels == {"open", "done", "number", "blank"}
Resolved(label, known) == IF label = "number" /\ known THEN "open" ELSE label

Matches(label, status) ==
  CASE status = "open" -> label \in {"open", "number"}
    [] status = "all"  -> TRUE
    [] OTHER           -> label = status

(* Mutation: what does not match is left out, whatever remains. *)
FiltersStrictly(rows, status, known) == {r \in rows : Matches(Resolved(r[2], known), status)}
(* "A filter that matches nothing must never be reported as an empty board".   *)
Filters(rows, status, known) ==
  LET kept == FiltersStrictly(rows, status, known) IN
  IF kept = {} THEN rows ELSE kept

(* The first pages of the board, as many as could be read, and those rows of   *)
(* them whose status is asked for.                                             *)
GetTasks ==
  /\ SpendsRead("listings")
  /\ \E n \in 0..3 : \E labels \in [1..n -> Labels] :
     \E status \in {"open", "all", "done", "odd"}, known \in BOOLEAN :
       LET read == {<<i, labels[i]>> : i \in 1..n} IN
       listing' = [status |-> status, board |-> read, known |-> known,
                   rows |-> Filters(read, status, known)]
  /\ UNCHANGED <<readRegime, World, Cache, lock, finder>>

(* ------------------------------------------------------------------- the world *)
BoardMoves ==
  /\ SpendsRead("moves")
  /\ \E b \in ReadBoards, s \in Spaces : places' = [places EXCEPT ![b] = s]
  /\ UNCHANGED <<readRegime, now, Cache, lock, finder, listing>>

TimePasses ==
  /\ now < readRegime.maxNow /\ now' = now + 1
  /\ UNCHANGED <<readRegime, readLeft, places, Cache, lock, finder, listing>>

FinderStep(c) ==
  Look(c) \/ Enter(c) \/ WalkSpaces(c) \/ WalkSpace(c) \/ Walked(c)
ReadNext ==
  \/ \E c \in readRegime.finders : Ask(c) \/ FinderStep(c) \/ WalkRaises(c)
  \/ GetTasks \/ BoardMoves \/ TimePasses
(* --------------------------------------------------------------- correctness *)
ReadTypeOK ==
  /\ \A b \in ReadBoards : spaceCache[b].space \in Spaces \cup {"none"} /\ spaceCache[b].read <= now
  /\ stamped <= now /\ \A c \in readRegime.finders : finder[c].board \in ReadBoards \cup {"none"}

(* "A short TTL is safe" (client.py:408): an answer from the cache is no older *)
(* than that, except for a board that the last walks did not come to, whose    *)
(* old place their stamp brings back.                                          *)
PlacesWearOff ==
  [][\A c \in readRegime.finders :
       finder[c].at \in {"look", "wait"} /\ finder'[c].at = "done" =>
         finder'[c].answer.read + TTL >= now \/ finder[c].board \in stale]_readVars

(* "The lock keeps concurrent tool calls to a single refresh": one walk at a   *)
(* time, none for a board that the cache already knows, and none left unended.  *)
OneRefresh ==
  /\ Walkers = {lock} \ {"nobody"}
  /\ \A c \in readRegime.finders : ~finder[c].saw

(* A board that has tasks is never listed as one that has none, and a status   *)
(* that some task has shows those that have it and no other.                   *)
NeverShownEmpty ==
  /\ listing.rows = {} => listing.board = {}
  /\ (\E r \in listing.rows : Matches(Resolved(r[2], listing.known), listing.status)) =>
       \A r \in listing.board : r \in listing.rows <=>
         Matches(Resolved(r[2], listing.known), listing.status)

ReadsAreTrue == ReadTypeOK /\ OneRefresh /\ NeverShownEmpty
=============================================================================
