------------------------------ MODULE QaRoster ------------------------------
(* Who may review, and how hard a repository each may take: the roster that    *)
(* _build_team_assignments puts together from the file, from GitHub's teams,   *)
(* from mined commits and from GitHunt, and what it keeps of each of them.     *)
EXTENDS Integers, FiniteSets, FiniteSetsExt

CONSTANTS RosterRegimes   (* the file, what the sources say, and what happens    *)

VARIABLES rosterRegime, rosterLeft,
          hour,         (* the clock, in steps of which TeamTTL make 300 seconds  *)
          github,       (* the support team, the leads' team, the qa-tier-N teams *)
          mined,        (* the rows of qa_capability_profiles                    *)
          teamKept,     (* _support_roster_cache: ONE team's listing             *)
          tiersKept,    (* _qa_tier_teams_cache                                  *)
          minedKept,    (* _capability_cache                                     *)
          huntKept,     (* the GitHunt cache, which is never asked again         *)
          built,        (* the members and the excluded, as last built           *)
          everTier,     (* every tier a tier team or a mined row was read to give *)
          changedAt     (* when each team on GitHub last changed                 *)
rosterVars == <<rosterRegime, rosterLeft, hour, github, mined, teamKept, tiersKept,
                minedKept, huntKept, built, everTier, changedAt>>

TeamTTL == 2
Staff == rosterRegime.staff
(* Tiers are counted in tenths: 15 is settings.qa_tier_cold_start_default.     *)
ColdStart == 15
Unknown == 0
Unasked == -1

(* A team's name says 1, 2 or 3 (_TIER_PATTERNS), and GitHunt's score is brought *)
(* between 1 and 3, or there is none (qa_tier_from_profile).                   *)
ASSUME RosterAssumption ==
  \A g \in RosterRegimes :
    /\ g.github \in [support : SUBSET g.staff, leads : SUBSET g.staff,
                     tiers : [DOMAIN g.github.tiers -> SUBSET g.staff]]
    /\ DOMAIN g.github.tiers \subseteq 10..30 /\ g.static \subseteq g.staff
    /\ g.override \in [g.staff -> Nat] /\ g.hunt \in [g.staff -> {Unknown} \cup 10..30]

(* _parse_qa_tier: a tier outside 1..3 is nobody's opinion.                    *)
ParsedTier(said) == IF said \in 10..30 THEN said ELSE ColdStart

RosterInit ==
  /\ rosterRegime \in RosterRegimes /\ rosterLeft = rosterRegime.budget /\ hour = 0
  /\ github = rosterRegime.github /\ mined = [p \in Staff |-> Unknown]
  /\ teamKept = [at |-> -TeamTTL, of |-> "", ok |-> FALSE, members |-> {}]
  /\ tiersKept = [has |-> FALSE, at |-> -TeamTTL, of |-> [p \in Staff |-> Unknown]]
  /\ minedKept = [p \in Staff |-> Unknown] /\ huntKept = [p \in Staff |-> Unasked]
  /\ built = [at |-> -1, tier |-> <<>>, excluded |-> {}, sound |-> [leads |-> FALSE, raised |-> FALSE, whole |-> FALSE]]
  /\ everTier = [p \in Staff |-> {}] /\ changedAt = [leads |-> -TeamTTL, tiers |-> -TeamTTL]

SpendsRoster(what) == rosterLeft[what] > 0 /\ rosterLeft' = [rosterLeft EXCEPT ![what] = @ - 1]

(* ---------------------------------------------- get_cached_support_team_roster *)
(* Mutation: a listing is served whichever team it lists. *)
AnyTeam(kept, team) == hour - kept.at < TeamTTL
ServesTeam(kept, team) == kept.of = team /\ hour - kept.at < TeamTTL
(* A failed listing is kept like any other, and evicts the other team's.       *)
Listing(kept, team, ok) ==
  IF ServesTeam(kept, team) THEN kept
  ELSE [at |-> hour, of |-> team, ok |-> ok, members |-> IF ok THEN github[team] ELSE {}]

(* ------------------------------------------------ _qa_tier_from_org_teams *)
(* The highest tier among the teams whose pages were read.                     *)
MaxTier(seen) ==
  [p \in Staff |-> LET of == {t \in seen : p \in github.tiers[t]} IN IF of = {} THEN Unknown ELSE Max(of)]
(* "raises" is a transport error: the last scan stands, however old. An HTTP   *)
(* refusal ends the paging without one, and the part that was read is kept.    *)
(* Mutation: a scan that raised is taken to have found nobody. *)
ForgetsScan(kept) == [kept EXCEPT !.of = [p \in Staff |-> Unknown]]
AfterRaise(kept) == kept
Scanned(kept, how, seen) ==
  CASE kept.has /\ hour - kept.at < TeamTTL -> kept
    [] OTHER -> IF how = "raises" THEN AfterRaise(kept)
                ELSE [has |-> TRUE, at |-> hour, of |-> MaxTier(seen)]

(* ------------------------------------------------ _members_from_github_roster *)
(* Someone whose id is neither in the file nor matched by name is left out;    *)
(* the names are matched only when Plaky lists its people.                     *)
Rostered(listing, users) ==
  IF ~listing.ok THEN {}
  ELSE listing.members \cap (rosterRegime.linked \cup (IF users THEN rosterRegime.named ELSE {}))

(* Mutation: the static list is for a file that asks for no live roster. *)
StaticIfAsked(fromTeam) == IF rosterRegime.live THEN fromTeam ELSE rosterRegime.static
MembersOf(fromTeam) ==
  IF fromTeam # {} THEN fromTeam ELSE rosterRegime.static
(* The list in the file is authoritative, unless it is only the fallback.      *)
AsksTeam == rosterRegime.live /\ (rosterRegime.static = {} \/ rosterRegime.fallbackOnly)
Members(fromTeam) == IF AsksTeam THEN MembersOf(fromTeam) ELSE rosterRegime.static

(* --------------------------------- the evidence of _build_team_assignments *)
(* Mutation: a tier typed for the person stands against the live team. *)
OverrideFirst(p, scan, mine, hunt) ==
  IF rosterRegime.override[p] # Unknown THEN ParsedTier(rosterRegime.override[p])
  ELSE IF scan[p] # Unknown THEN scan[p] ELSE ColdStart
TierOf(p, scan, mine, hunt) ==
  IF scan[p] # Unknown THEN scan[p]
  ELSE IF rosterRegime.override[p] # Unknown THEN ParsedTier(rosterRegime.override[p])
  ELSE IF mine[p] # Unknown THEN mine[p]
  ELSE IF hunt[p] > 0 THEN hunt[p] ELSE ColdStart

(* fetch_and_cache_profile_sync, for those with nothing better: an answer that *)
(* is no profile is kept as "nothing" for good, a transport error is not.      *)
AsksHunt(p, members, scan) ==
  /\ rosterRegime.hunts /\ p \in members /\ scan[p] = Unknown
  /\ rosterRegime.override[p] = Unknown /\ minedKept[p] = Unknown /\ huntKept[p] = Unasked
Hunted(members, scan, how) ==
  [p \in Staff |->
     IF ~AsksHunt(p, members, scan) \/ how = "raises" THEN huntKept[p]
     ELSE IF how = "refused" THEN Unknown ELSE rosterRegime.hunt[p]]

(* qa_excluded of the file and whoever the leads' team lists now; a listing    *)
(* that failed excludes nobody.                                                *)
Excluded(listing) == rosterRegime.excluded \cup (IF listing.ok THEN listing.members ELSE {})

Wrong(fine) == IF fine THEN 0 ELSE 1
BuildFrom(supportOk, leadsOk, users, scan, seen, huntHow) ==
  LET support == IF AsksTeam THEN Listing(teamKept, "support", supportOk) ELSE teamKept
      leads == Listing(support, "leads", leadsOk)
      scanned == Scanned(tiersKept, scan, IF scan = "ok" THEN DOMAIN github.tiers ELSE seen)
      members == Members(Rostered(support, users))
      hunted == Hunted(members, scanned.of, huntHow)
      failing == Wrong(supportOk) + Wrong(leadsOk) + Wrong(users) + Wrong(scan = "ok")
                 + Wrong(huntHow = "ok")
  IN
  /\ rosterLeft.builds > 0 /\ failing <= rosterLeft.failures
  /\ rosterLeft' = [rosterLeft EXCEPT !.builds = @ - 1, !.failures = @ - failing]
  /\ teamKept' = leads /\ tiersKept' = scanned /\ huntKept' = hunted
  /\ built' = [at |-> hour,
               tier |-> [p \in members |-> TierOf(p, scanned.of, minedKept, hunted)],
               excluded |-> Excluded(leads),
               sound |-> [leads |-> leads.ok, raised |-> scan = "raises",
                          whole |-> IF scanned.at = tiersKept.at THEN built.sound.whole ELSE scan = "ok"]]
  /\ everTier' = [p \in Staff |-> everTier[p] \cup {scanned.of[p]}]
  /\ UNCHANGED <<rosterRegime, hour, github, mined, minedKept, changedAt>>
Build ==
  \E supportOk, leadsOk, users \in BOOLEAN, scan \in {"ok", "raises", "short"},
     seen \in SUBSET DOMAIN github.tiers, huntHow \in {"ok", "refused", "raises"} :
    /\ scan # "short" => seen = {}
    /\ BuildFrom(supportOk, leadsOk, users, scan, seen, huntHow)

(* -------------------------------------------------------- qa_capability_store *)
(* upsert_profile, when a mining run has measured someone.                     *)
UpsertProfile ==
  \E p \in Staff, tier \in {10, 23, 40} :
    /\ SpendsRoster("mines") /\ mined' = [mined EXCEPT ![p] = tier]
    /\ UNCHANGED <<rosterRegime, hour, github, teamKept, tiersKept, minedKept, huntKept, built, everTier, changedAt>>

(* Mutation: a row outside 1..3 is served as it is. *)
AnyRow(row) == row
ValidRow(row) == IF row \in 10..30 THEN row ELSE Unknown
(* refresh_capability_cache; one that fails keeps what the cache held.         *)
RefreshCapability ==
  \E ok \in BOOLEAN :
    /\ rosterLeft.refreshes > 0 /\ (ok \/ rosterLeft.failures > 0)
    /\ rosterLeft' = [rosterLeft EXCEPT !.refreshes = @ - 1, !.failures = IF ok THEN @ ELSE @ - 1]
    /\ minedKept' = IF ok THEN [p \in Staff |-> ValidRow(mined[p])] ELSE minedKept
    /\ everTier' = [p \in Staff |-> everTier[p] \cup {minedKept'[p]}]
    /\ UNCHANGED <<rosterRegime, hour, github, mined, teamKept, tiersKept, huntKept, built, changedAt>>

(* ------------------------------------------------------------------ the world *)
TeamsChange ==
  /\ SpendsRoster("changes")
  /\ \E p \in Staff :
       \/ /\ github' = [github EXCEPT !.leads = SymDiff(@, {p})]
          /\ changedAt' = [changedAt EXCEPT !.leads = hour]
       \/ /\ \E t \in DOMAIN github.tiers : github' = [github EXCEPT !.tiers[t] = SymDiff(@, {p})]
          /\ changedAt' = [changedAt EXCEPT !.tiers = hour]
       \/ github' = [github EXCEPT !.support = SymDiff(@, {p})] /\ UNCHANGED changedAt
  /\ UNCHANGED <<rosterRegime, hour, mined, teamKept, tiersKept, minedKept, huntKept, built, everTier>>

HourPasses ==
  /\ hour < rosterRegime.maxHour /\ hour' = hour + 1
  /\ UNCHANGED <<rosterRegime, rosterLeft, github, mined, teamKept, tiersKept, minedKept,
                 huntKept, built, everTier, changedAt>>

RosterNext == Build \/ UpsertProfile \/ RefreshCapability \/ TeamsChange \/ HourPasses
RosterSpec == RosterInit /\ [][RosterNext]_rosterVars

(* ---------------------------------------------------------------- properties *)
IsBuilt == built.at >= 0
(* "QA assignment never goes dark": with a static list in the file, every build *)
(* has members, whichever source fails.                                        *)
NeverDark == IsBuilt /\ rosterRegime.static # {} => DOMAIN built.tier # {}
(* A tier comes from a source that gave it to that person: a team or a mined   *)
(* row that was read, the file's word on the person, GitHunt, or the default.  *)
(* The file's word on the person yields to nothing but a tier team.            *)
TiersAreEvidenced ==
  \A p \in DOMAIN built.tier :
    /\ built.tier[p] \in 10..30
    /\ built.tier[p] \in everTier[p] \cup {ColdStart, ParsedTier(rosterRegime.override[p]), rosterRegime.hunt[p]}
    /\ rosterRegime.override[p] # Unknown =>
         built.tier[p] \in {ParsedTier(rosterRegime.override[p])} \cup DOMAIN github.tiers
(* A TTL after GitHub last changed a team, a build whose listings worked knows *)
(* it: the leads are excluded and the tier teams have their say. A scan that   *)
(* raises takes nobody's tier away: what the last whole scan found stands.     *)
TeamsAreFollowed ==
  IsBuilt =>
    /\ built.sound.leads /\ built.at >= changedAt.leads + TeamTTL => github.leads \subseteq built.excluded
    /\ /\ built.sound.whole
       /\ \/ ~built.sound.raised /\ built.at >= changedAt.tiers + TeamTTL
          \/ tiersKept.at > changedAt.tiers
       => \A p \in DOMAIN built.tier :
            LET says == MaxTier(DOMAIN github.tiers)[p] IN says # Unknown => built.tier[p] = says
RosterIsTrue == NeverDark /\ TiersAreEvidenced /\ TeamsAreFollowed
=============================================================================
