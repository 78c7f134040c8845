------------------------------- MODULE Catalog -------------------------------
(* Where the tasks of a repository go: an entry of repos.yml, or else the group *)
(* of Plaky that is named like the repository, found in a catalogue of all      *)
(* boards and groups which the processes share in a file, or else the default.  *)
EXTENDS Naturals, FiniteSets

CONSTANTS CatalogRegimes,  (* processes, settings and budgets                    *)
          Layouts          (* what Plaky may hold: the groups of each board      *)

VARIABLES catalogRegime, catalogLeft,
          day,             (* the clock                                          *)
          layout,          (* Plaky: the group names of each board               *)
          file,            (* plaky-catalog.json                                 *)
          repos,           (* repos.yml: the entry of each repository            *)
          parsed,          (* what each process has parsed of it                 *)
          router           (* the call of get_routing_async in each process      *)
catalogVars == <<catalogRegime, catalogLeft, day, layout, file, repos, parsed, router>>

CatalogTTL == 2
Repos == {"core", "core-ui"}
(* Group names in the order they sort, and what is_categorical_board makes of  *)
(* them: "backlog" is a bucket of a sprint board, "big plans" has a space.     *)
NameOrder == <<"backlog", "big plans", "core", "core-ui", "diva">>
GroupNames == {NameOrder[i] : i \in DOMAIN NameOrder}
ASSUME LayoutAssumption == \A l \in Layouts : DOMAIN l \subseteq Nat /\ \A b \in DOMAIN l : l[b] \subseteq GroupNames
Prefixed == {"core", "core-ui"}
RepoLike == Prefixed \cup {"diva"}
NamePlace(name) == CHOOSE i \in DOMAIN NameOrder : NameOrder[i] = name
PartOf(part, whole) == part = "core" /\ whole = "core-ui"

(* ---------------------------------------------------------------- repos.yml *)
(* An entry places a repository or only classifies it; either is meaningful.   *)
NoEntry == [ids |-> "none", tier |-> 0]
Meaningful(entry) == entry.ids # "none" \/ entry.tier > 0

(* ------------------------------------------------------ the catalogue itself *)
NoFile == [whole |-> FALSE, at |-> 0, boards |-> [b \in {} |-> {}]]
Listing(boards) == [whole |-> TRUE, at |-> day, boards |-> boards]

(* is_categorical_board: one group per repository.                             *)
Categorical(groups) ==
  LET like == groups \cap RepoLike
      named == groups \cap Prefixed
  IN like # {} /\ (named # {} \/ Cardinality(like) > 1)
Scoped(boards) ==
  IF ~catalogRegime.categorical THEN boards
  ELSE [b \in {c \in DOMAIN boards : Categorical(boards[c])} |-> boards[b]]

(* ---------------------------------------------------------------- placement *)
(* rank_plaky_rows, for a slug of one word.                                    *)
Match(repo, name) ==
  IF name = repo THEN 1000
  ELSE IF PartOf(repo, name) THEN 700 ELSE IF PartOf(name, repo) THEN 550 ELSE 0
MinScore == 400
GroupsToTry(boards, repo) ==
  {p \in (DOMAIN boards) \X GroupNames : p[2] \in boards[p[1]] /\ Match(repo, p[2]) >= MinScore}
(* Mutation: the first match will do. *)
FirstBetter(repo, p, q) == p[1] < q[1] \/ (p[1] = q[1] /\ NamePlace(p[2]) < NamePlace(q[2]))
(* The highest score, the first board among equals, then the first name.       *)
Better(repo, p, q) ==
  \/ Match(repo, p[2]) > Match(repo, q[2])
  \/ Match(repo, p[2]) = Match(repo, q[2]) /\ FirstBetter(repo, p, q)
Nowhere == <<0, "nowhere">>
Discover(boards, repo) ==
  LET found == GroupsToTry(Scoped(boards), repo) IN
  IF found = {} THEN Nowhere
  ELSE CHOOSE p \in found : \A q \in found \ {p} : Better(repo, p, q)

(* ------------------------------------------------------------- state machine *)
Servers == DOMAIN catalogRegime.home
AtEase == [at |-> "rest", repo |-> "core", seen |-> NoFile, live |-> NoFile,
           src |-> "none", where |-> Nowhere, used |-> NoFile, asked |-> FALSE]

CatalogInit ==
  /\ catalogRegime \in CatalogRegimes /\ catalogLeft = catalogRegime.budget
  /\ day = 0 /\ layout \in Layouts /\ file = NoFile
  /\ repos = [repo \in Repos |->
       IF repo \in catalogRegime.configured THEN [ids |-> "configured", tier |-> 0] ELSE NoEntry]
  /\ parsed = [p \in Servers |-> repos]
  /\ router = [p \in Servers |-> AtEase]

SpendsCatalog(what) == catalogLeft[what] > 0 /\ catalogLeft' = [catalogLeft EXCEPT ![what] = @ - 1]
Routes(p, r) == router' = [router EXCEPT ![p] = r]
FileFresh(f) == f.whole /\ day - f.at < CatalogTTL

(* What get_routing falls back to for a repository of the organisation.        *)
Legacy(r) == [r EXCEPT !.at = "told", !.src = IF catalogRegime.default THEN "default" ELSE "none",
                       !.where = Nowhere]
Placed(r, f) ==
  IF Discover(f.boards, r.repo) = Nowhere THEN [Legacy(r) EXCEPT !.used = f]
  ELSE [r EXCEPT !.at = "told", !.src = "discovered", !.where = Discover(f.boards, r.repo), !.used = f]

(* "An explicit repos.yml entry always wins".                                  *)
Explicit(p, repo) == Meaningful(parsed[p][repo])

(* get_routing_async, as far as the file.                                      *)
AskRouting(p) ==
  /\ router[p].at \in {"rest", "told"} /\ SpendsCatalog("calls")
  /\ \E repo \in Repos :
       LET r == [AtEase EXCEPT !.repo = repo, !.seen = file] IN
       Routes(p, IF Explicit(p, repo) THEN [r EXCEPT !.at = "told", !.src = "explicit"]
                 ELSE IF ~catalogRegime.discover THEN Legacy(r)
                 ELSE IF FileFresh(file) THEN Placed(r, file)
                 ELSE [r EXCEPT !.at = "fetch"])
  /\ UNCHANGED <<catalogRegime, day, layout, file, repos, parsed>>

(* Mutation: without Plaky there is no catalogue. *)
RaisesAtOnce(r) == Legacy([r EXCEPT !.asked = TRUE])
(* A fetch that fails, or finds nothing, leaves what this call found on disk.  *)
WithoutPlaky(r) ==
  IF r.seen.whole THEN [Placed(r, r.seen) EXCEPT !.asked = TRUE] ELSE Legacy([r EXCEPT !.asked = TRUE])

(* Mutation: a catalogue without boards is kept as well. *)
KeepsEmpty(live) == TRUE
WorthKeeping(live) == DOMAIN live.boards # {}

(* fetch_live_catalog: a board whose groups cannot be listed has none.         *)
FetchCatalog(p) ==
  /\ router[p].at = "fetch"
  /\ \/ SpendsCatalog("failures") /\ Routes(p, WithoutPlaky(router[p]))
     \/ \E failed \in SUBSET DOMAIN layout :
          LET read == [b \in DOMAIN layout |-> IF b \in failed THEN {} ELSE layout[b]]
              live == Listing(Scoped(read))
          IN /\ IF failed = {} THEN UNCHANGED catalogLeft ELSE SpendsCatalog("partial")
             /\ Routes(p, IF WorthKeeping(live) THEN [router[p] EXCEPT !.at = "save", !.live = live]
                          ELSE WithoutPlaky(router[p]))
  /\ UNCHANGED <<catalogRegime, day, layout, file, repos, parsed>>

(* save_catalog_cache rewrites the file in place: it is empty, then whole.     *)
SaveCatalog(p) ==
  /\ router[p].at \in {"save", "write"}
  /\ IF router[p].at = "save"
     THEN file' = NoFile /\ Routes(p, [router[p] EXCEPT !.at = "write"])
     ELSE file' = router[p].live /\ Routes(p, Placed([router[p] EXCEPT !.live = NoFile], router[p].live))
  /\ UNCHANGED <<catalogRegime, catalogLeft, day, layout, repos, parsed>>

ServerStops(p) ==
  /\ SpendsCatalog("crashes") /\ Routes(p, AtEase)
  /\ parsed' = [parsed EXCEPT ![p] = repos]
  /\ UNCHANGED <<catalogRegime, day, layout, file, repos>>

(* update_repo_tiers, then upsert_repo, of a command: the file is read again,  *)
(* changed and written, and this process parses it anew.                       *)
(* Mutation: classifying a repository writes its entry anew. *)
TierAlone(entry, tier) == [NoEntry EXCEPT !.tier = tier]
Classified(entry, tier) == [entry EXCEPT !.tier = tier]
Reparsed(p, now) == parsed' = [parsed EXCEPT ![p] = now]
Classify(p) ==
  /\ SpendsCatalog("edits")
  /\ \E repo \in Repos, tier \in {0, 2} :
       repos' = [repos EXCEPT ![repo] = Classified(@, tier)]
  /\ Reparsed(p, repos')
  /\ UNCHANGED <<catalogRegime, day, layout, file, router>>
Register(p) ==
  /\ SpendsCatalog("edits")
  /\ \E repo \in Repos, tier \in {0, 2} :
       repos' = [repos EXCEPT ![repo] = [ids |-> "table", tier |-> tier]]
  /\ Reparsed(p, repos')
  /\ UNCHANGED <<catalogRegime, day, layout, file, router>>

LayoutChanges ==
  /\ SpendsCatalog("changes") /\ layout' \in Layouts \ {layout}
  /\ UNCHANGED <<catalogRegime, day, file, repos, parsed, router>>
DayPasses ==
  /\ day < catalogRegime.maxDay /\ day' = day + 1
  /\ UNCHANGED <<catalogRegime, catalogLeft, layout, file, repos, parsed, router>>

CatalogNext ==
  \/ \E p \in Servers :
       \/ AskRouting(p) \/ FetchCatalog(p) \/ SaveCatalog(p) \/ ServerStops(p)
       \/ Classify(p) \/ Register(p)
  \/ LayoutChanges \/ DayPasses

(* --------------------------------------------------------------- correctness *)
CatalogTold(p) == router[p].at = "told"

(* A repository that has a group named exactly like itself, on a board of      *)
(* repositories whose groups could be read, gets that group and not the one of *)
(* a repository with a longer or a shorter name.                               *)
OwnGroupWins ==
  \A p \in Servers : CatalogTold(p) /\ router[p].used.whole =>
    LET boards == router[p].used.boards
        own == {b \in DOMAIN boards : router[p].repo \in boards[b]}
    IN own # {} => /\ router[p].src = "discovered"
                   /\ router[p].where = <<CHOOSE b \in own : \A c \in own : b <= c, router[p].repo>>

(* A caller does without the catalogue only when Plaky gave it nothing and no  *)
(* whole file was there when it looked; a catalogue that has worn off is used  *)
(* only when Plaky gave nothing; and no catalogue without boards is kept.      *)
KeptUntilBetter ==
  /\ file.whole => DOMAIN file.boards # {}
  /\ \A p \in Servers : router[p].asked /\ router[p].seen.whole => router[p].used.whole

(* A repository that has a board in repos.yml keeps one there: classifying it   *)
(* writes nothing but the tier.                                                *)
EntriesHold ==
  [][\A repo \in Repos : repos[repo].ids # "none" => repos'[repo].ids # "none"]_catalogVars

PlacementIsTrue == OwnGroupWins /\ KeptUntilBetter
=============================================================================
