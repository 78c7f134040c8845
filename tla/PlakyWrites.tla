------------------------------ MODULE PlakyWrites ------------------------------
(* One call of the Plaky client that writes: a task or a subtask is created, a  *)
(* comment is added, or an item is deleted.  Each is a ladder of requests, and *)
(* each request is tried again as _request_with_rate_limit_retry decides.      *)
(* Plaky may be busy, break or fall silent, before or after it has done what   *)
(* was asked; people add items at the same time.                               *)
EXTENDS Naturals, FiniteSetsExt

CONSTANTS WriteRegimes    (* what is asked, what this Plaky accepts, and what goes wrong *)

VARIABLES writeRegime,    (* the instance at work                                 *)
          writeLeft,      (* the misfortunes still to come                        *)
          items,          (* Plaky: every item there is, numbered by age          *)
          op              (* the call: where it stands, and what it told its caller *)
writeVars == <<writeRegime, writeLeft, items, op>>

(* A refusal is none of the other answers; somebody has items on the board.     *)
Misfortunes == {"busy", "broken", "lost", "added"}
Calls == {"create", "subtask", "comment", "delete"}
Retries == 2
ItemShapes == 7
SubtaskShapes == 8
Board == "board"   Tracking == "tracking"   Elsewhere == "elsewhere"
Boards == {Board, Tracking, Elsewhere}

ASSUME WriteAssumption ==
  \A r \in WriteRegimes :
    /\ r.budget \in [Misfortunes -> Nat] /\ r.others \in Nat \ {0} /\ r.page \in Nat
    /\ r.asked \in Boards /\ r.home \in Boards /\ r.calls \subseteq Calls
    /\ r.legacy \in BOOLEAN /\ r.refusals \cap (Misfortunes \cup {"2xx"}) = {}

Ours == {i \in DOMAIN items : items[i].by = "us"}
Row(by, parent, text) == [by |-> by, parent |-> parent, text |-> text, comments |-> 0]
With(id, row) == [i \in DOMAIN items \cup {id} |-> IF i = id THEN row ELSE items[i]]
NewId == Max({0} \cup {i + 1 : i \in DOMAIN items})

FirstStep(call) ==
  CASE call = "create"  -> "post_item"
    [] call = "subtask" -> "post_subtask"
    [] call = "comment" -> "comment"
    [] call = "delete"  -> "delete"

WriteInit ==
  /\ writeRegime \in WriteRegimes
  /\ writeLeft = writeRegime.budget
  /\ items = [i \in 0..(writeRegime.others - 1) |-> Row("them", FALSE, "theirs")]
  /\ \E c \in writeRegime.calls :
       op = [call |-> c, at |-> FirstStep(c), attempt |-> 0, shape |-> 1, item |-> 0,
             path |-> writeRegime.asked, tried |-> {}, bearer |-> FALSE, blind |-> FALSE,
             result |-> "none"]

(* --------------------------------------------------------- one request *)
(* Mutation: a creation is tried again after a broken answer. *)
AgainForAll(method, attempt, code) ==
  /\ attempt < Retries
  /\ code \in {"busy", "broken", "lost"}

(* Too many requests: the request waits and is sent again.  Silence and a      *)
(* broken server: only a request that may be repeated is.                      *)
Again(method, attempt, code) ==
  /\ attempt < Retries
  /\ \/ code = "busy"
     \/ code \in {"broken", "lost"} /\ method # "POST"

(* What can come of a request: done or not, and the answer.  A request Plaky   *)
(* does not take is refused; a taken one is answered, or a misfortune happens. *)
Reactions(takes, refusals) ==
  IF takes
  THEN {[done |-> TRUE, code |-> "2xx"], [done |-> FALSE, code |-> "busy"]}
         \cup [done : BOOLEAN, code : {"broken", "lost"}]
  ELSE [done : {FALSE}, code : refusals]


(* A request is sent; at its last answer the call goes on.                     *)
Exchange(method, takes, refusals, after, Then(_)) ==
  \E r \in Reactions(takes, refusals) :
    /\ r.code \in DOMAIN writeLeft => writeLeft[r.code] > 0
    /\ writeLeft' = [c \in DOMAIN writeLeft |-> writeLeft[c] - (IF c = r.code THEN 1 ELSE 0)]
    /\ items' = IF r.done THEN after ELSE items
    /\ op' = IF Again(method, op.attempt, r.code)
             THEN [op EXCEPT !.attempt = @ + 1]
             ELSE [Then(r.code) EXCEPT !.attempt = 0]

Ends(result) == [op EXCEPT !.at = "end", !.result = result]
Goes(step) == [op EXCEPT !.at = step]
(* A request nobody answered raises in the caller of the client.               *)
Fails(code) == Ends(IF code = "lost" THEN "raised" ELSE "failed")

(* The board the caller named, the tracking board, the board that is found to  *)
(* hold the item, and the old path: each only when the one before said no.     *)
NextPath ==
  [op EXCEPT !.tried = @ \cup {op.path},
             !.at = IF Tracking \in op.tried \cup {op.path} THEN "search" ELSE "comment",
             !.path = Tracking]

(* Without the board's space nothing is sent: a comment tries its next path.   *)
NoSpace ==
  /\ op.attempt = 0 /\ op.shape = 1
  /\ \/ op.at \in {"post_item", "delete", "post_public"} /\ op' = Ends("failed")
     \/ op.at = "comment" /\ op' = NextPath
  /\ UNCHANGED <<writeRegime, writeLeft, items>>

(* ------------------------------------------------------------- create_task *)
(* Seven bodies, from the documented one to older ones; the next is tried only *)
(* when the answer says that this one was not understood.                      *)
(* Mutation: the next body is tried after any answer. *)
TriesOnAlways(code) == code # "lost" /\ op.shape < ItemShapes
TriesOn(code) == code \in {"404", "422"} /\ op.shape < ItemShapes

(* The answer says the new item's id and name, or leaves them out.             *)
Created(said) ==
  IF said.id THEN [op EXCEPT !.at = IF said.name = "asked" /\ ~writeRegime.described
                                    THEN "end" ELSE "repair",
                             !.item = NewId,
                             !.result = "ok"]
             ELSE [op EXCEPT !.at = "find", !.result = "ok", !.blind = TRUE]

PostItem ==
  /\ op.at = "post_item"
  /\ \E said \in [id : BOOLEAN, name : {"asked", "default"}] :
       Exchange("POST", op.shape \in writeRegime.shapes, writeRegime.refusals,
                With(NewId, Row("us", FALSE, said.name)),
                LAMBDA code : IF code = "2xx" THEN Created(said)
                              ELSE IF TriesOn(code) THEN [op EXCEPT !.shape = @ + 1]
                              ELSE Fails(code))

(* Without an id the newest row of the first page is taken for the new item.   *)
FirstPage == {i \in DOMAIN items : i < writeRegime.page}
(* Mutation: the oldest row is. *)
NewestFirst(rows) == CHOOSE i \in rows : \A j \in rows : i <= j
Newest(rows) == CHOOSE i \in rows : \A j \in rows : j <= i

FindItem ==
  /\ op.at = "find"
  /\ \/ FirstPage # {} /\ op' = [op EXCEPT !.at = "repair", !.item = Newest(FirstPage)]
     \/ op' = Goes("end")
  /\ UNCHANGED <<writeRegime, writeLeft, items>>

(* Title and description are set on the item, if this Plaky can set them.      *)
RepairText ==
  /\ op.at = "repair"
  /\ \/ items' = [items EXCEPT ![op.item].text = "asked"]
     \/ UNCHANGED items
  /\ op' = Goes(IF writeRegime.described THEN "describe" ELSE "end")
  /\ UNCHANGED <<writeRegime, writeLeft>>

Commented(i) == [items EXCEPT ![i].comments = @ + 1]

(* The description is also a comment; whether it came is told, and no more.    *)
DescribeItem ==
  /\ op.at = "describe"
  /\ Exchange("POST", TRUE, {}, Commented(op.item),
              LAMBDA code : IF code = "lost" THEN Ends("raised") ELSE Goes("end"))

(* ------------------------------------------------------------ create_subtask *)
(* The old path first, with the key in a header and, refused, as a bearer.     *)
PostSubtask ==
  /\ op.at = "post_subtask"
  /\ Exchange("POST", writeRegime.legacy, {"400", "401", "404"},
              With(NewId, Row("us", TRUE, "asked")),
              LAMBDA code :
                CASE code = "2xx"                  -> Ends("ok")
                  [] code = "401" /\ ~op.bearer    -> [op EXCEPT !.bearer = TRUE]
                  [] code \in {"404", "405"} \/ (code = "401" /\ op.bearer) -> Goes("load_parent")
                  [] OTHER                         -> Fails(code))

(* Then an item that names its parent, on the parent's board and group.        *)
LoadParent ==
  /\ op.at = "load_parent"
  /\ \/ op' = Goes("post_public")
     \/ op' = Ends("failed")
  /\ UNCHANGED <<writeRegime, writeLeft, items>>

(* Mutation: the next body is tried after a broken answer too. *)
TriesSubtaskOnAlways(code) == code \notin {"2xx", "lost"} /\ op.shape < SubtaskShapes
TriesSubtaskOn(code) == code \in {"400", "401", "404", "405", "422"} /\ op.shape < SubtaskShapes

PostSubtaskPublic ==
  /\ op.at = "post_public"
  /\ Exchange("POST", op.shape \in writeRegime.shapes, writeRegime.refusals,
              With(NewId, Row("us", TRUE, "asked")),
              LAMBDA code : IF code = "2xx" THEN Ends("ok")
                            ELSE IF TriesSubtaskOn(code) THEN [op EXCEPT !.shape = @ + 1]
                            ELSE Fails(code))

(* ---------------------------------------------------------------- add_comment *)
Target == 0

CommentThere ==
  /\ op.at = "comment"
  /\ Exchange("POST", op.path = writeRegime.home, {"404"}, Commented(Target),
              LAMBDA code :
                CASE code = "2xx"  -> Ends("ok")
                  [] code = "lost" -> Ends("raised")
                  [] OTHER         -> NextPath)

(* Every board not tried is asked for the item.                                *)
SearchBoards ==
  /\ op.at = "search"
  /\ \/ /\ writeRegime.home \notin op.tried
        /\ op' = [op EXCEPT !.at = "comment", !.path = writeRegime.home]
     \/ op' = Goes("old_path")
  /\ UNCHANGED <<writeRegime, writeLeft, items>>

CommentOldPath ==
  /\ op.at = "old_path"
  /\ Exchange("POST", writeRegime.legacy, {"404"}, Commented(Target),
              LAMBDA code : IF code = "2xx" THEN Ends("ok") ELSE Fails(code))

(* ---------------------------------------------------------- delete_board_item *)
DeleteItem ==
  /\ op.at = "delete"
  /\ Exchange("DELETE", Target \in DOMAIN items, {"404"},
              [i \in DOMAIN items \ {Target} |-> items[i]],
              LAMBDA code : IF code = "2xx" THEN Ends("ok") ELSE Fails(code))

(* ----------------------------------------------------------------- people *)
SomebodyAdds ==
  /\ op.at # "end" /\ writeLeft.added > 0
  /\ items' = With(NewId, Row("them", FALSE, "theirs"))
  /\ writeLeft' = [writeLeft EXCEPT !.added = @ - 1]
  /\ UNCHANGED <<writeRegime, op>>

WriteStep ==
  \/ NoSpace
  \/ PostItem \/ FindItem \/ RepairText \/ DescribeItem
  \/ PostSubtask \/ LoadParent \/ PostSubtaskPublic
  \/ CommentThere \/ SearchBoards \/ CommentOldPath
  \/ DeleteItem
WriteNext == (WriteStep /\ UNCHANGED writeRegime) \/ SomebodyAdds

(* ------------------------------------------------------------ correctness *)
WriteTypeOK ==
  /\ \A i \in DOMAIN items :
       items[i] \in [by : {"us", "them"}, parent : BOOLEAN, comments : 0..3,
                    text : {"asked", "default", "theirs"}]
  /\ op.attempt \in 0..Retries /\ op.shape \in 1..SubtaskShapes
  /\ op.result \in {"none", "ok", "failed", "raised"}

(* Plaky may have done what nobody heard of.                                   *)
Unheard == \E c \in {"broken", "lost"} : writeLeft[c] < writeRegime.budget[c]

(* "A blip can never double-create" (client.py:20): one call makes one item at *)
(* most, whatever is refused, repeated, broken or lost on the way.             *)
OneItemPerCall == Cardinality(Ours) <= 1

(* A call that ends well has done what it was asked, and one that ends badly   *)
(* has not, unless Plaky's answer was lost or was an error after the fact.     *)
SaysWhatItDid ==
  op.at = "end" =>
    /\ op.call \in {"create", "subtask"} =>
         /\ op.result = "ok" => Ours # {}
         /\ op.result = "failed" /\ ~Unheard => Ours = {}
    /\ op.call = "subtask" => \A i \in Ours : items[i].parent
    /\ op.call = "comment" =>
         /\ op.result = "ok" => items[Target].comments > 0
         /\ ~Unheard => items[Target].comments = IF op.result = "ok" THEN 1 ELSE 0
    /\ op.call = "delete" =>
         /\ op.result = "ok" => Target \notin DOMAIN items
         /\ op.result # "ok" /\ ~Unheard => Target \in DOMAIN items

(* A new item is named and described, and no other is, unless Plaky kept its   *)
(* id back and the first page does not end with it.                            *)
TouchesItsOwn ==
  op.call \in {"create", "subtask"} =>
    \A i \in DOMAIN items : items[i].by = "them" =>
      \/ items[i].text = "theirs" /\ items[i].comments = 0
      \/ op.blind /\ (\/ writeLeft.added < writeRegime.budget.added
                       \/ writeRegime.page <= writeRegime.others)

(* What the client's writes promise.                                           *)
WritesAreTrue == WriteTypeOK /\ OneItemPerCall /\ SaysWhatItDid /\ TouchesItsOwn
=============================================================================
