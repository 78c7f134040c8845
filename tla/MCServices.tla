----------------------------- MODULE MCServices -----------------------------
(* Model-checking instances of the small services, one at work at a time. *)
EXTENDS ReviewNudges, ReadCache

NoNudges == [acts |-> 0, assigns |-> 0, endings |-> 0, reopens |-> 0, lost |-> 0,
             unread |-> 0, refused |-> 0, unheard |-> 0, crashes |-> 0]

CONSTANTS pr1, pr2, author, q1, q2, c1, c2, c3, key1, key2, repo1

(* The whole schedule on one pull request. *)
LongWait ==
  [pulls |-> {pr1}, people |-> {q1}, maxDay |-> 17, inOrder |-> TRUE,
   budget |-> [NoNudges EXCEPT !.assigns = 1, !.refused = 1]]

(* Reviewers change and act; the pull request ends and nobody is told. *)
Lively ==
  [pulls |-> {pr1}, people |-> {q1, q2}, maxDay |-> 4, inOrder |-> TRUE,
   budget |-> [NoNudges EXCEPT !.acts = 1, !.assigns = 2, !.lost = 1]]

(* Two rows in one sweep, whose commit may fail. *)
Crowded ==
  [pulls |-> {pr1, pr2}, people |-> {q1}, maxDay |-> 4, inOrder |-> TRUE,
   budget |-> [NoNudges EXCEPT !.assigns = 2, !.endings = 1, !.unread = 1, !.unheard = 1,
                               !.crashes = 1]]

(* Somebody joins in, and events are handled in order ... *)
Joined ==
  [pulls |-> {pr1}, people |-> {author, q1, q2}, maxDay |-> 4, inOrder |-> TRUE,
   budget |-> [NoNudges EXCEPT !.acts = 3, !.assigns = 1]]

(* ... or in any order, an end among them and a reopening. *)
Shuffled ==
  [pulls |-> {pr1}, people |-> {author, q1}, maxDay |-> 3, inOrder |-> FALSE,
   budget |-> [NoNudges EXCEPT !.acts = 2, !.assigns = 2, !.endings = 1, !.reopens = 1]]

NudgesRest ==
  [pulls |-> {}, people |-> {}, maxDay |-> 0, inOrder |-> TRUE, budget |-> NoNudges]

MCRepoOf == [k \in CacheKeys |-> repo1]

(* Three coroutines want the same key, while pushes come in. *)
OneKey ==
  [callers |-> {c1, c2, c3}, keys |-> {key1},
   budget |-> [calls |-> 4, pushes |-> 2, failures |-> 1, expiries |-> 1]]

(* Two keys of one repository. *)
TwoKeys ==
  [callers |-> {c1, c2, c3}, keys |-> {key1, key2},
   budget |-> [calls |-> 4, pushes |-> 1, failures |-> 0, expiries |-> 0]]

CacheRests ==
  [callers |-> {}, keys |-> {},
   budget |-> [calls |-> 0, pushes |-> 0, failures |-> 0, expiries |-> 0]]

ServiceNudges == {LongWait, Lively, Crowded, Joined, Shuffled, NudgesRest}
ServiceCaches == {OneKey, TwoKeys, CacheRests}

(* The services share no state: one is at work, and the other rests. *)
ServicesInit ==
  /\ NudgeInit /\ CacheInit
  /\ nudgeRegime = NudgesRest <=> cacheRegime # CacheRests

ServicesNext ==
  \/ NudgeNext /\ UNCHANGED cacheVars
  \/ CacheNext /\ UNCHANGED nudgeVars

(* Each service's variables keep their types, nobody is nudged about a pull    *)
(* request that has ended, or again for nothing, and no key is fetched twice   *)
(* at a time.                                                                  *)
ServicesAreSound ==
  NudgeTypeOK /\ CacheTypeOK /\ EndSilences /\ NoIdleRepeats /\ OneFetchPerKey

ServicesSpec ==
  /\ ServicesInit /\ [][ServicesNext]_<<nudgeVars, cacheVars>>
  /\ NudgeFairness /\ CacheFairness
=============================================================================
