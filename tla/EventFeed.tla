------------------------------ MODULE EventFeed ------------------------------
(* The poller's reading of a repository's events feed (github_poller.py,       *)
(* _poll_repo): reviews and comments reach the handlers by way of it.  GitHub  *)
(* shows one page, the newest first, and an event may appear late; the process *)
(* remembers by identity what it has seen.                                     *)
EXTENDS Naturals, FiniteSets, Sequences, SequencesExt, Ranks

CONSTANTS EventRegimes    (* the page, the window, the bound on what is remembered *)

ASSUME EventAssumption == \A r \in EventRegimes : r.past \in Nat /\ r.page \in Nat

VARIABLES eventRegime, eventLeft,
          hour,         (* advances with every event, and without; an event's    *)
                        (* identity is the hour at which it happened             *)
          happened,     (* GitHub: events that the feed does not show yet        *)
          feed,         (* GitHub: events that it does                           *)
          etag,         (* _etags: {} or {what the feed was when it was read}    *)
          seen,         (* _seen_ids: {} before the first page, then {the set}   *)
          queue,        (* the events of this poll that are still to dispatch    *)
          handled,      (* what was dispatched in this process's life, in order  *)
          first,        (* how many of them came before this poll                *)
          page,         (* what the last answer showed                           *)
          history       (* what the first page of this life left to the past     *)
eventVars == <<eventRegime, eventLeft, hour, happened, feed, etag, seen, queue, handled,
               first, page, history>>

EventInit ==
  /\ eventRegime \in EventRegimes /\ eventLeft = eventRegime.budget
  /\ hour = eventRegime.past /\ happened = {} /\ feed = 1..eventRegime.past
  /\ etag = {} /\ seen = {} /\ queue = <<>>
  /\ handled = <<>> /\ first = 0 /\ page = {} /\ history = {}

SpendsEvent(what) == eventLeft[what] > 0 /\ eventLeft' = [eventLeft EXCEPT ![what] = @ - 1]
Polling == <<etag, seen, queue, handled, first, page, history>>

(* ------------------------------------------------------------------- GitHub *)
Happens ==
  /\ SpendsEvent("events") /\ hour' = hour + 1
  /\ \/ feed' = feed \cup {hour + 1} /\ UNCHANGED happened
     \/ happened' = happened \cup {hour + 1} /\ UNCHANGED feed
  /\ UNCHANGED <<eventRegime, Polling>>
Appears ==
  /\ \E e \in happened : happened' = happened \ {e} /\ feed' = feed \cup {e}
  /\ UNCHANGED <<eventRegime, eventLeft, hour, Polling>>
HourPasses ==
  /\ SpendsEvent("hours") /\ hour' = hour + 1
  /\ UNCHANGED <<eventRegime, happened, feed, Polling>>

(* ---------------------------------------------------------------- _poll_repo *)
(* Events of other types fill the page and are not dispatched.                 *)
Tracked(e) == e \notin eventRegime.others
FeedPage == {e \in feed : Cardinality({d \in feed : d > e}) < eventRegime.page}

(* The first page of a life is history, but for the window of catching up.     *)
WithinWindow(events) ==
  {e \in events : eventRegime.catchup > 0 /\ e + eventRegime.catchup >= hour}
(* Mutation: the newest time seen stands for all that was seen. *)
NewerThanSeen(events) ==
  IF seen = {} THEN WithinWindow(events)
  ELSE {e \in events : \A known \in seen : \A d \in known : e > d}
Fresh(events) ==
  IF seen = {} THEN WithinWindow(events)
  ELSE {e \in events : \A known \in seen : e \notin known}
(* What is seen is noted before any of it is dispatched; past the bound only   *)
(* the page is kept.                                                           *)
(* Mutation: past the bound only what was new is kept. *)
KeepsTheNew(events) ==
  LET all == events \cup UNION seen
  IN IF seen # {} /\ Cardinality(all) > eventRegime.bound THEN {Fresh(events)} ELSE {all}
NowSeen(events) ==
  LET all == events \cup UNION seen
  IN IF seen # {} /\ Cardinality(all) > eventRegime.bound THEN {events} ELSE {all}
(* Mutation: in the order of the page. *)
AsListed(events) == Descending({e \in events : Tracked(e)})
OldestFirst(events) == Ascending({e \in events : Tracked(e)})

PollEvents ==
  /\ queue = <<>> /\ SpendsEvent("polls") /\ feed \notin etag     (* else: 304 *)
  /\ etag' = {feed} /\ page' = FeedPage
  /\ IF FeedPage = {} THEN UNCHANGED <<seen, queue, history>>
     ELSE /\ seen' = NowSeen(FeedPage) /\ queue' = OldestFirst(Fresh(FeedPage))
          /\ history' = IF seen = {} THEN FeedPage \ WithinWindow(FeedPage) ELSE history
  /\ first' = Len(handled)
  /\ UNCHANGED <<eventRegime, hour, happened, feed, handled>>
(* A handler that fails does not keep the next event from its own.             *)
DispatchEvent ==
  /\ queue # <<>> /\ queue' = Tail(queue) /\ handled' = Append(handled, Head(queue))
  /\ UNCHANGED <<eventRegime, eventLeft, hour, happened, feed, etag, seen, first, page, history>>
StartsAnew ==
  /\ SpendsEvent("restarts")
  /\ etag' = {} /\ seen' = {} /\ queue' = <<>>
  /\ handled' = <<>> /\ first' = 0 /\ page' = {} /\ history' = {}
  /\ UNCHANGED <<eventRegime, hour, happened, feed>>

EventNext == Happens \/ Appears \/ HourPasses \/ PollEvents \/ DispatchEvent \/ StartsAnew

(* --------------------------------------------------------------- correctness *)
(* No event is dispatched twice in a process's life, whatever order they       *)
(* appear in and whatever of the memory is let go of, as long as the feed      *)
(* never shows an event again that it stopped showing.                         *)
HandledOnce == \A i, j \in DOMAIN handled : handled[i] = handled[j] => i = j

(* "Oldest first (by event time) so Plaky sees actions in order": within a     *)
(* poll, that is; an event that appeared late follows newer ones.              *)
HandledInOrder ==
  \A i, j \in DOMAIN handled : first < i /\ i < j => handled[i] < handled[j]

(* Once a poll is through, every tracked event of its page was dispatched in   *)
(* this life or was history when the life began, also one that appeared after  *)
(* newer ones had been seen; and history is only what was older than the       *)
(* window of catching up.                                                      *)
NothingSlips ==
  queue = <<>> => \A e \in page : Tracked(e) => e \in Range(handled) \cup history

EventsArrive == HandledOnce /\ HandledInOrder /\ NothingSlips
=============================================================================
