------------------------------ MODULE MCPrLinks ------------------------------
(* Small instances of PrLinks for TLC. *)
EXTENDS PrLinks

CONSTANTS p1, p2, i1, i2, own1, own2, card1, card2, spare

MCOwnCard   == [p \in Prs |-> IF p = p1 THEN own1 ELSE own2]
MCIssueCard == [i \in Issues |-> IF i = i1 THEN card1 ELSE card2]

Says(b, t, r) == [body |-> b, title |-> t, branch |-> r]

Silent      == Says({}, {}, {})
InBody      == Says({i1}, {}, {})
InTitle     == Says({}, {i1}, {})
InBranch    == Says({}, {}, {i1})
OtherInBody == Says({i2}, {}, {})

AllTexts == {Silent, InBody, InTitle, InBranch, OtherInBody}

Both(n)  == [p \in Prs |-> n]
First(n) == [p \in Prs |-> IF p = p1 THEN n ELSE 0]
NoBudget == [refusals |-> 0, lost |-> 0, restarts |-> 0, byHand |-> 0]

(* Two pull requests that name one issue in every way, in order. *)
Shared ==
  [inOrder |-> TRUE, sweeps |-> FALSE, texts |-> {Silent, InBody, InTitle, InBranch},
   mapped |-> Issues, matches |-> {}, maxAt |-> Both(3), budget |-> NoBudget]

(* One pull request whose body moves between no issue, one with a card and *)
(* one without, its snapshots in any order, a restart, a person.           *)
Scattered ==
  [inOrder |-> FALSE, sweeps |-> FALSE, texts |-> {Silent, InBody, OtherInBody},
   mapped |-> {i1}, matches |-> {spare}, maxAt |-> First(3),
   budget |-> [NoBudget EXCEPT !.restarts = 1, !.byHand = 1]]

(* A snapshot is lost and the sweep has to find out; Plaky refuses a write. *)
Lossy ==
  [inOrder |-> TRUE, sweeps |-> TRUE, texts |-> {Silent, InBody},
   mapped |-> Issues, matches |-> {spare}, maxAt |-> First(3),
   budget |-> [NoBudget EXCEPT !.lost = 1, !.refusals = 1]]

(* Two pull requests close one issue, and Plaky refuses a completion. *)
Refused ==
  [inOrder |-> TRUE, sweeps |-> TRUE, texts |-> {InBody},
   mapped |-> Issues, matches |-> {}, maxAt |-> Both(2),
   budget |-> [NoBudget EXCEPT !.refusals = 1]]

(* The issue gets its card only after the pull request was opened. *)
Early ==
  [inOrder |-> TRUE, sweeps |-> TRUE, texts |-> {Silent, InBody},
   mapped |-> Issues \ {i1}, matches |-> {}, maxAt |-> First(3), budget |-> NoBudget]

(* The poller starts anew. *)
Restarted ==
  [inOrder |-> TRUE, sweeps |-> FALSE, texts |-> {Silent, InBody},
   mapped |-> Issues, matches |-> {}, maxAt |-> First(3),
   budget |-> [NoBudget EXCEPT !.restarts = 1]]

(* A pull request without an issue, and Plaky refuses a completion. *)
Unlinked ==
  [inOrder |-> TRUE, sweeps |-> TRUE, texts |-> {Silent},
   mapped |-> Issues, matches |-> {}, maxAt |-> First(2),
   budget |-> [NoBudget EXCEPT !.refusals = 1]]

SafetyRegimes   == {Shared, Scattered}
LivenessRegimes == {Lossy, Refused, Early}
RestartRegimes  == {Restarted}
=============================================================================
