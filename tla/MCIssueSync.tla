---------------------------- MODULE MCIssueSync ----------------------------
(* Model-checking instances of IssueSync. *)
EXTENDS IssueSync

CONSTANTS dev, tester, stranger, h1, h2

AllLogins == {dev, tester, stranger}
People2   == {dev, tester}

Bounds(changes, lost, again, refused, blind, crashes, moves) ==
  [changes |-> changes, lost |-> lost, again |-> again, refused |-> refused,
   blind |-> blind, crashes |-> crashes, moves |-> moves]

(* Everything arrives, in order, some of it twice, and is polled as well. *)
Faithful ==
  [webhooks |-> TRUE, polls |-> TRUE, sweeps |-> FALSE, inOrder |-> TRUE,
   handlers |-> {h1}, people |-> {dev}, budget |-> Bounds(4, 0, 1, 0, 0, 0, 0)]

(* The card moves, and the sweep repeats what was handled. *)
Busy ==
  [webhooks |-> TRUE, polls |-> FALSE, sweeps |-> TRUE, inOrder |-> TRUE,
   handlers |-> {h1}, people |-> {dev}, budget |-> Bounds(4, 0, 1, 0, 0, 0, 1)]

(* Webhooks are lost, reads and writes fail, the service restarts. *)
Failing ==
  [webhooks |-> TRUE, polls |-> FALSE, sweeps |-> TRUE, inOrder |-> TRUE,
   handlers |-> {h1}, people |-> {dev}, budget |-> Bounds(3, 1, 0, 1, 1, 1, 1)]

(* A write is refused and its webhook delivered once more. *)
Retried ==
  [webhooks |-> TRUE, polls |-> FALSE, sweeps |-> FALSE, inOrder |-> TRUE,
   handlers |-> {h1}, people |-> {dev}, budget |-> Bounds(4, 0, 1, 1, 0, 0, 1)]

(* Handlers overlap, and webhooks overtake each other. *)
Racing ==
  [webhooks |-> TRUE, polls |-> FALSE, sweeps |-> TRUE, inOrder |-> FALSE,
   handlers |-> {h1, h2}, people |-> {dev}, budget |-> Bounds(3, 0, 1, 0, 0, 1, 0)]

(* A QA-only account owns the issue from the start. *)
TesterOwned ==
  [webhooks |-> TRUE, polls |-> TRUE, sweeps |-> TRUE, inOrder |-> TRUE,
   handlers |-> {h1}, people |-> {tester}, budget |-> Bounds(2, 0, 1, 0, 0, 1, 0)]

IssueRegimes == {Faithful, Busy, Failing, Retried, Racing, TesterOwned}
=============================================================================
