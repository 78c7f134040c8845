----------------------------- MODULE TeamConfig -----------------------------
(* The team's configuration: a file that people edit and that a task creation  *)
(* completes, its parse and the roster built from it, which each process keeps,*)
(* and the roster's rebuilding beside the event loop.                          *)
EXTENDS Naturals, FiniteSets

CONSTANTS TeamRegimes   (* how many processes, and what happens                  *)

VARIABLES teamRegime, teamLeft,
          minute,       (* the clock                                             *)
          yml,          (* team_assignments.yml: its stamp, the edits in it, and  *)
                        (* whether the field keys are filled in                  *)
          parse,        (* what _raw keeps in each process                       *)
          roster,       (* _team_cfg_cache of each process                       *)
          rebuild,      (* the rebuilding thread of each process                 *)
          filling,      (* sync_team_assignment_field_keys_from_board            *)
          lately,       (* _last_field_sync_by_board                             *)
          answer,       (* what load_team_assignments last said                  *)
          unsure,       (* the file changed under a parse that no roster speaks of *)
          everBuilt     (* the process has built a roster since it was dropped   *)
teamVars == <<teamRegime, teamLeft, minute, yml, parse, roster, rebuild, filling,
              lately, answer, unsure, everBuilt>>

RosterTTL == 2
TeamProcs == 1..teamRegime.procs
NoParse == [has |-> FALSE, edits |-> {}, filled |-> FALSE]
ParseOf(file) == [has |-> TRUE, edits |-> file.edits, filled |-> file.filled]
NoRoster == [has |-> FALSE, at |-> 0, stamp |-> 0, of |-> NoParse]
RosterOf(of, stamp) == [has |-> TRUE, at |-> minute, stamp |-> stamp, of |-> of]
Idle == [at |-> "idle", stamp |-> 0, of |-> NoParse]
Says(of, exact) == [of |-> of, exact |-> exact, due |-> yml.edits]

ASSUME TeamAssumption ==
  \A g \in TeamRegimes : g.budget \in [loads : Nat, failures : Nat, fills : Nat, edits : Nat]

TeamInit ==
  /\ teamRegime \in TeamRegimes /\ teamLeft = teamRegime.budget
  /\ minute = 0 /\ yml = [stamp |-> 1, edits |-> {}, filled |-> FALSE]
  /\ parse = [p \in TeamProcs |-> NoParse] /\ roster = [p \in TeamProcs |-> NoRoster]
  /\ rebuild = [p \in TeamProcs |-> Idle]
  /\ filling = [p \in TeamProcs |-> FALSE] /\ lately = [p \in TeamProcs |-> FALSE]
  /\ answer = [p \in TeamProcs |-> Says(NoParse, FALSE)]
  /\ unsure = [p \in TeamProcs |-> FALSE] /\ everBuilt = [p \in TeamProcs |-> FALSE]

SpendsTeam(what) == teamLeft[what] > 0 /\ teamLeft' = [teamLeft EXCEPT ![what] = @ - 1]
Now(f, p, v) == [f EXCEPT ![p] = v]
(* _raw: the parse that is kept, or else the file as it is.                    *)
RawOf(p, kept) == IF kept.has THEN kept ELSE ParseOf(yml)

(* The file changes while a thread parses it, or while a parse is kept without *)
(* a roster whose stamp would tell.                                            *)
Doubts(parses, rosters) ==
  [q \in TeamProcs |-> \/ unsure[q] \/ rebuild[q].at = "parsed"
                       \/ parses[q].has /\ ~rosters[q].has]

(* ------------------------------------------------------ load_team_assignments *)
(* Mutation: the parse is kept when the file has changed. *)
ParseStays(p) == parse[p]
ParseAfterEdit(p) == NoParse

Load(p) ==
  LET snap == roster[p]
      edited == snap.has /\ snap.stamp # yml.stamp
      fresh == snap.has /\ ~edited /\ minute - snap.at < RosterTTL
      raw == RawOf(p, IF edited THEN ParseAfterEdit(p) ELSE parse[p])
  IN
  /\ SpendsTeam("loads")
  /\ \/ /\ fresh /\ answer' = Now(answer, p, Says(snap.of, ~unsure[p]))
        /\ UNCHANGED <<parse, roster, rebuild, everBuilt>>
     \/ /\ ~fresh /\ snap.has /\ ~edited
        /\ rebuild' = IF rebuild[p].at = "idle" THEN Now(rebuild, p, [Idle EXCEPT !.at = "begun", !.stamp = yml.stamp])
                      ELSE rebuild
        /\ answer' = Now(answer, p, Says(snap.of, ~unsure[p]))
        /\ UNCHANGED <<parse, roster, everBuilt>>
     \/ /\ ~snap.has \/ edited
        /\ parse' = Now(parse, p, raw) /\ roster' = Now(roster, p, RosterOf(raw, yml.stamp))
        /\ answer' = Now(answer, p, Says(raw, edited \/ ~unsure[p]))
        /\ everBuilt' = Now(everBuilt, p, TRUE) /\ UNCHANGED rebuild
  /\ unsure' = IF edited THEN Now(unsure, p, FALSE) ELSE unsure
  /\ UNCHANGED <<teamRegime, minute, yml, filling, lately>>

(* ------------------------------------------------------ _refresh_in_background *)
ThreadParses(p) ==
  /\ rebuild[p].at = "begun"
  /\ rebuild' = Now(rebuild, p, [rebuild[p] EXCEPT !.at = "parsed", !.of = RawOf(p, parse[p])])
  /\ UNCHANGED <<teamRegime, teamLeft, minute, yml, parse, roster, filling, lately, answer, unsure, everBuilt>>

(* Mutation: a rebuilding that fails leaves no roster. *)
FailureClears(p) == NoRoster
AfterFailure(p) == roster[p]
(* Mutation: the rebuilt roster is taken for one of the file as it is now. *)
StampNow(p) == yml.stamp
StampThen(p) == rebuild[p].stamp

(* The parse is kept unless there is one by now.                               *)
ThreadEnds(p) ==
  /\ rebuild[p].at = "parsed" /\ rebuild' = Now(rebuild, p, Idle)
  /\ parse' = IF parse[p].has THEN parse ELSE Now(parse, p, rebuild[p].of)
  /\ \/ /\ roster' = Now(roster, p, RosterOf(rebuild[p].of, StampThen(p)))
        /\ everBuilt' = Now(everBuilt, p, TRUE) /\ UNCHANGED teamLeft
     \/ SpendsTeam("failures") /\ roster' = Now(roster, p, AfterFailure(p)) /\ UNCHANGED everBuilt
  /\ UNCHANGED <<teamRegime, minute, yml, filling, lately, answer, unsure>>

(* ---------------------------------- sync_team_assignment_field_keys_from_board *)
(* The board is read first, unless it was a moment ago.                        *)
BeginFilling(p) ==
  /\ ~filling[p] /\ ~lately[p] /\ SpendsTeam("fills") /\ filling' = Now(filling, p, TRUE)
  /\ UNCHANGED <<teamRegime, minute, yml, parse, roster, rebuild, lately, answer, unsure, everBuilt>>

(* Mutation: keys that are there are filled in again. *)
FillsAnyway(raw) == TRUE
KeysBlank(raw) == ~raw.filled
(* Then the parse that this process keeps is completed and written out, and    *)
(* everything is dropped.                                                      *)
FillIn(p) ==
  LET raw == RawOf(p, parse[p]) IN
  /\ filling[p] /\ filling' = Now(filling, p, FALSE)
  /\ lately' = Now(lately, p, TRUE)
  /\ IF KeysBlank(raw)
     THEN /\ yml' = [stamp |-> yml.stamp + 1, edits |-> raw.edits, filled |-> TRUE]
          /\ parse' = Now(parse, p, NoParse) /\ roster' = Now(roster, p, NoRoster)
          /\ everBuilt' = Now(everBuilt, p, FALSE)
          /\ unsure' = Doubts(parse', roster')
     ELSE /\ parse' = Now(parse, p, raw) /\ UNCHANGED <<yml, roster, everBuilt, unsure>>
  /\ UNCHANGED <<teamRegime, teamLeft, minute, rebuild, answer>>

(* ------------------------------------------------------------------ the world *)
Edit ==
  /\ SpendsTeam("edits")
  /\ yml' = [yml EXCEPT !.stamp = @ + 1, !.edits = @ \cup {teamLeft.edits}]
  /\ unsure' = Doubts(parse, roster)
  /\ UNCHANGED <<teamRegime, minute, parse, roster, rebuild, filling, lately, answer, everBuilt>>
MinutePasses ==
  /\ minute < teamRegime.maxMinute /\ minute' = minute + 1
  /\ lately' = [p \in TeamProcs |-> FALSE]
  /\ UNCHANGED <<teamRegime, teamLeft, yml, parse, roster, rebuild, filling, answer, unsure, everBuilt>>

TeamNext ==
  \/ \E p \in TeamProcs : Load(p) \/ ThreadParses(p) \/ ThreadEnds(p) \/ BeginFilling(p) \/ FillIn(p)
  \/ Edit \/ MinutePasses

(* --------------------------------------------------------------- correctness *)
(* "An edited file is never served from cache": a caller who asks after an edit *)
(* is told of it, however old the roster and whatever the thread did meanwhile, *)
(* unless the thread was reading the file at the moment of the edit, or it was  *)
(* kept with no roster built from it yet.                                      *)
EditsAreServed == \A p \in TeamProcs : answer[p].exact => answer[p].due \subseteq answer[p].of.edits

(* "A failed refresh keeps the previous answer; it never clears it."           *)
RosterIsKept == \A p \in TeamProcs : everBuilt[p] => roster[p].has

(* A roster is never taken for one of a file it was not read from.             *)
StampIsTrue ==
  \A p \in TeamProcs : roster[p].has /\ roster[p].stamp = yml.stamp /\ ~unsure[p] =>
    roster[p].of.edits = yml.edits

TeamConfigIsTrue == EditsAreServed /\ RosterIsKept /\ StampIsTrue

=============================================================================
