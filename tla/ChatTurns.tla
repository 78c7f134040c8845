------------------------------ MODULE ChatTurns ------------------------------
(* The assistant's turns on one chat: agent/service.py (run_agent_chat behind  *)
(* POST /agent/chat and its job, iter_agent_chat_sse behind /agent/chat/stream,*)
(* history, deletion, a user's own provider key), agent/repo_resolution.py,    *)
(* agent/guardrails.py, the fast path, security/byok.py.  A turn looks at the  *)
(* chat, resolves the repository and the board, commits the question, thinks   *)
(* for as long as a model needs, and adds its answer; other turns, a deletion  *)
(* and a change of key come in between.  A question is a record of what the    *)
(* code reads off it: the repository given, an owner/name written out, the     *)
(* known names in it, an unknown name introduced as one, whether it asks for a *)
(* stored fact, organises a board, confirms, and what its request allows.      *)
EXTENDS Naturals, Sequences, FiniteSets, TLC

CONSTANTS Turns, NoRepo, NoBoard, NoChat, NoUserKey, ChatRegimes

VARIABLES
  chatRegime,   \* the circumstances, budget [deletes, failures, stops, keys] included
  chatRow,      \* the row of agent_sessions, or NoChat
  lastPk,       \* the largest primary key used so far
  chatLog,      \* agent_messages: <<[pk, turn, role]>>, whosever chat they name
  chatTurn,     \* the turns, each a record of its stage and of what it holds
  chatLock,     \* the turn whose uncommitted write holds the lock, or NoTurn
  filed,        \* cards filed by tools: {[turn, board]}
  erasing,      \* what a deletion has loaded
  deadKeys,     \* keys past their time
  chatLeft      \* budget left

chatVars == <<chatRegime, chatRow, lastPk, chatLog, chatTurn, chatLock, filed,
              erasing, deadKeys, chatLeft>>

NoTurn == "no turn"
NothingLoaded == [on |-> FALSE, messages |-> {}]

ATurn == [stage |-> "idle", question |-> 0, found |-> NoChat, pk |-> 0, repo |-> NoRepo,
          source |-> "", board |-> NoBoard, mayWrite |-> FALSE, key |-> NoUserKey,
          bereft |-> FALSE, says |-> ""]

Asked(t) == chatRegime.questions[chatTurn[t].question]
----------------------------------------------------------------------------
(* Which repository is a question about?  (repo_resolution.py)               *)

KnownRepos == chatRegime.known
Longest(repos) ==
  {r \in repos : \A s \in repos : chatRegime.length[s] <= chatRegime.length[r]}

Resolution(repo, source) == [repo |-> repo, source |-> source]

(* Mutation: the chat's repository outranks the one the question names. *)
ChatFirst(q, chats) ==
  IF chats # NoRepo THEN Resolution(chats, "session")
  ELSE IF q.explicit # NoRepo THEN Resolution(q.explicit, "explicit")
  ELSE Resolution(NoRepo, "unknown")

(* A repository given wins over one written out, that over a known name (the  *)
(* longest, unless two are), that over the chat's own.  A name nobody knows   *)
(* is not replaced by the only repository configured.                         *)
Resolve(q, chats) ==
  LET best == Longest(q.mentions \cap KnownRepos) IN
  IF q.explicit # NoRepo THEN Resolution(q.explicit, "explicit")
  ELSE IF q.written \in KnownRepos \cup chatRegime.inOrg THEN Resolution(q.written, "message")
  ELSE IF best # {} THEN
    IF Cardinality(best) = 1 THEN Resolution(CHOOSE r \in best : TRUE, "message")
    ELSE Resolution(NoRepo, "ambiguous")
  ELSE IF chats # NoRepo THEN Resolution(chats, "session")
  ELSE IF q.unknown THEN Resolution(NoRepo, "unknown-mentioned")
  ELSE IF Cardinality(KnownRepos) = 1
       THEN Resolution(CHOOSE r \in KnownRepos : TRUE, "single-configured")
  ELSE Resolution(NoRepo, "unknown")

WithBoards == {r \in chatRegime.registered : chatRegime.boards[r] # NoBoard}

(* Mutation: the only board configured is guessed for an unknown name too. *)
GuessedBoard(q, about) ==
  IF q.board # NoBoard THEN q.board
  ELSE IF about.repo # NoRepo THEN chatRegime.boards[about.repo]
  ELSE IF Cardinality(WithBoards) = 1
       THEN chatRegime.boards[CHOOSE r \in WithBoards : TRUE] ELSE NoBoard

(* The board chosen by the user, else the one the repository is routed to;   *)
(* with no repository at all, the only board there is.                       *)
Placement(q, about) ==
  IF q.board # NoBoard THEN q.board
  ELSE IF about.source = "unknown-mentioned" THEN NoBoard
  ELSE IF about.repo # NoRepo THEN chatRegime.boards[about.repo]
  ELSE IF Cardinality(WithBoards) = 1
       THEN chatRegime.boards[CHOOSE r \in WithBoards : TRUE] ELSE NoBoard

(* Mutation: a bulk change needs no confirmation. *)
AsAllowed(q) == q.tools /\ q.allowWrites

(* Write tools: asked for, and confirmed when the board is to be reorganised. *)
WritesEnabled(q) == q.tools /\ q.allowWrites /\ (q.organises => q.confirms)

(* The fast path answers a fact the state holds, unless the question names a *)
(* repository other than the one it is about, or lists what is on the board. *)
MayBeQuick(q, about, board) ==
  /\ ~q.organises
  /\ \/ q.fact = "stored" /\ about # NoRepo
        /\ q.mentions \subseteq {about} /\ q.written \in {NoRepo, about}
     \/ q.fact = "on the board" /\ board # NoBoard
----------------------------------------------------------------------------
(* Turns.  The route commits after run_agent_chat or the stream has returned. *)

ChatInit ==
  /\ chatRegime \in ChatRegimes /\ chatLeft = chatRegime.budget
  /\ chatRow = NoChat /\ lastPk = 0 /\ chatLog = <<>> /\ chatLock = NoTurn
  /\ chatTurn = [t \in Turns |-> ATurn] /\ filed = {}
  /\ erasing = NothingLoaded /\ deadKeys = {}

At(t, stage) == chatTurn[t].stage = stage
Sets(t, with) == chatTurn' = [chatTurn EXCEPT ![t] = with @@ @]
SpendsChat(what) == chatLeft[what] > 0 /\ chatLeft' = [chatLeft EXCEPT ![what] = @ - 1]
Logs(t, pk, role) == chatLog' = Append(chatLog, [pk |-> pk, turn |-> t, role |-> role])

(* Only SQLite has one lock for all, and gives up waiting for it; only        *)
(* Postgres refuses a message whose chat is gone.                             *)
LockFree(t) == chatLock \in {NoTurn, t}
ChatIsThere(pk) == chatRow # NoChat /\ chatRow.pk = pk
MayAdd(t) == LockFree(t) /\ (chatRegime.sqlite \/ ChatIsThere(chatTurn[t].pk))
AddRefused(t) ==
  \/ chatRegime.sqlite /\ ~LockFree(t)
  \/ ~chatRegime.sqlite /\ LockFree(t) /\ ~ChatIsThere(chatTurn[t].pk)

(* The chat is loaded, and with it its repository and key, and the question is *)
(* resolved: other turns go on meanwhile.                                      *)
Looks(t) ==
  /\ At(t, "idle") /\ t \in chatRegime.turns
  /\ \E i \in DOMAIN chatRegime.questions :
       LET q == chatRegime.questions[i]
           about == Resolve(q, IF chatRow = NoChat THEN NoRepo ELSE chatRow.repo)
       IN Sets(t, [stage |-> "looked", question |-> i, found |-> chatRow, repo |-> about.repo,
                   source |-> about.source, board |-> Placement(q, about),
                   mayWrite |-> WritesEnabled(q),
                   key |-> IF chatRow = NoChat THEN NoUserKey ELSE chatRow.key])
  /\ UNCHANGED <<chatRegime, chatRow, lastPk, chatLog, chatLock, filed, erasing, deadKeys,
                 chatLeft>>

(* Keys of SQLite's tables are used again once the last row is deleted.        *)
NextPks == {lastPk + 1} \cup (IF chatRegime.sqlite /\ lastPk > 0 THEN {lastPk} ELSE {})

(* Mutation: a question about no repository makes the chat forget its own. *)
RepoReplaced(turn) == turn.repo
RepoAfter(turn) ==
  IF turn.repo \in {NoRepo, turn.found.repo} THEN chatRow.repo ELSE turn.repo

(* The chat is created or brought up to date, and the question committed.      *)
SavesQuestion(t) ==
  /\ At(t, "looked") /\ LockFree(t)
  /\ LET turn == chatTurn[t]
         Saves(pk) == /\ Logs(t, pk, "question")
                      /\ Sets(t, [stage |-> "asked", pk |-> pk]) IN
     IF turn.found = NoChat
     THEN /\ chatRow = NoChat
          /\ \E pk \in NextPks :
               /\ chatRow' = [pk |-> pk, repo |-> turn.repo, key |-> NoUserKey]
               /\ lastPk' = pk /\ Saves(pk)
     ELSE /\ ChatIsThere(turn.found.pk)
          /\ chatRow' = [chatRow EXCEPT !.repo = RepoAfter(turn)]
          /\ Saves(turn.found.pk) /\ UNCHANGED lastPk
  /\ UNCHANGED <<chatRegime, chatLock, filed, erasing, deadKeys, chatLeft>>

(* The chat was created or deleted meanwhile, or the lock is another turn's:    *)
(* the request fails, and nothing of it is kept.                                *)
QuestionRefused(t) ==
  /\ At(t, "looked")
  /\ \/ chatRegime.sqlite /\ ~LockFree(t)
     \/ LockFree(t) /\ chatTurn[t].found = NoChat /\ chatRow # NoChat
     \/ LockFree(t) /\ chatTurn[t].found # NoChat /\ ~ChatIsThere(chatTurn[t].found.pk)
  /\ Sets(t, [stage |-> "refused"])
  /\ UNCHANGED <<chatRegime, chatRow, lastPk, chatLog, chatLock, filed, erasing, deadKeys,
                 chatLeft>>

(* A user's key is used while it lasts, as the chat was when it was loaded.     *)
Thinks(t) ==
  /\ At(t, "asked")
  /\ Sets(t, [stage |-> "thinking",
              key |-> IF chatTurn[t].key \in deadKeys THEN NoUserKey ELSE chatTurn[t].key])
  /\ UNCHANGED <<chatRegime, chatRow, lastPk, chatLog, chatLock, filed, erasing, deadKeys,
                 chatLeft>>

(* Tools write through the turn's own session, which keeps its lock until the   *)
(* turn commits; a refused write leaves the session unusable.                   *)
SavesDefaults(t) ==
  /\ At(t, "thinking") /\ Asked(t).tools /\ ChatIsThere(chatTurn[t].pk)
  /\ LockFree(t) /\ chatLock' = t
  /\ UNCHANGED <<chatRegime, chatRow, lastPk, chatLog, chatTurn, filed, erasing, deadKeys,
                 chatLeft>>
DefaultsRefused(t) ==
  /\ At(t, "thinking") /\ Asked(t).tools /\ ChatIsThere(chatTurn[t].pk)
  /\ chatRegime.sqlite /\ ~LockFree(t) /\ Sets(t, [stage |-> "silent"])
  /\ UNCHANGED <<chatRegime, chatRow, lastPk, chatLog, chatLock, filed, erasing, deadKeys,
                 chatLeft>>
FilesACard(t) ==
  /\ At(t, "thinking") /\ chatTurn[t].mayWrite /\ chatTurn[t].board # NoBoard
  /\ filed' = filed \cup {[turn |-> t, board |-> chatTurn[t].board]}
  /\ UNCHANGED <<chatRegime, chatRow, lastPk, chatLog, chatTurn, chatLock, erasing, deadKeys,
                 chatLeft>>

(* The answer of the fast path or of a model; a plain turn answers with the     *)
(* error's text when there is none.  It is added, and the user has it, before   *)
(* the route commits.                                                           *)
AddsAnswer(t, role) ==
  /\ MayAdd(t) /\ Sets(t, [stage |-> "answered", says |-> role]) /\ chatLock' = t
AnswersFast(t) ==
  /\ At(t, "asked") /\ MayBeQuick(Asked(t), chatTurn[t].repo, chatTurn[t].board)
  /\ AddsAnswer(t, "answer")
  /\ UNCHANGED <<chatRegime, chatRow, lastPk, chatLog, filed, erasing, deadKeys, chatLeft>>
AnswersAtLast(t) ==
  /\ At(t, "thinking")
  /\ \/ AddsAnswer(t, "answer") /\ UNCHANGED chatLeft
     \/ ~chatRegime.stream /\ AddsAnswer(t, "apology") /\ SpendsChat("failures")
  /\ UNCHANGED <<chatRegime, chatRow, lastPk, chatLog, filed, erasing, deadKeys>>
Commits(t) ==
  /\ At(t, "answered") /\ Logs(t, chatTurn[t].pk, chatTurn[t].says)
  /\ Sets(t, [stage |-> "told"]) /\ chatLock' = NoTurn
  /\ UNCHANGED <<chatRegime, chatRow, lastPk, filed, erasing, deadKeys, chatLeft>>

Releases(t) == chatLock' = IF chatLock = t THEN NoTurn ELSE chatLock

(* Mutation: a failed stream leaves its question alone. *)
NoMarker(t) ==
  /\ At(t, "thinking") /\ chatRegime.stream /\ SpendsChat("failures") /\ MayAdd(t)
  /\ Sets(t, [stage |-> "marked"]) /\ Releases(t)
  /\ UNCHANGED <<chatRegime, chatRow, lastPk, chatLog, filed, erasing, deadKeys>>

(* A stream that fails says in the chat that the question is still unhandled,   *)
(* and commits that at once.                                                    *)
MarksFailure(t) ==
  /\ At(t, "thinking") /\ chatRegime.stream /\ SpendsChat("failures") /\ MayAdd(t)
  /\ Logs(t, chatTurn[t].pk, "failure") /\ Sets(t, [stage |-> "marked", says |-> "failure"])
  /\ Releases(t)
  /\ UNCHANGED <<chatRegime, chatRow, lastPk, filed, erasing, deadKeys>>

(* What the turn had to say cannot be added, a marker neither.                  *)
StaysSilent(t) ==
  /\ chatTurn[t].stage \in {"asked", "thinking"} /\ AddRefused(t)
  /\ At(t, "asked") => MayBeQuick(Asked(t), chatTurn[t].repo, chatTurn[t].board)
  /\ Sets(t, [stage |-> "silent"]) /\ Releases(t)
  /\ UNCHANGED <<chatRegime, chatRow, lastPk, chatLog, filed, erasing, deadKeys, chatLeft>>

(* The listener of a stream leaves, or the process stops: what is not committed *)
(* is lost, shown or not.                                                       *)
IsCut(t) ==
  /\ chatTurn[t].stage \in {"asked", "thinking", "answered"} /\ SpendsChat("stops")
  /\ Sets(t, [stage |-> "cut"]) /\ Releases(t)
  /\ UNCHANGED <<chatRegime, chatRow, lastPk, chatLog, filed, erasing, deadKeys>>
----------------------------------------------------------------------------
(* Deleting the chat, and the user's own key.                                *)

MessagesOf(pk) == {m \in {chatLog[i] : i \in DOMAIN chatLog} : m.pk = pk}
LoadsToDelete ==
  /\ chatRow # NoChat /\ ~erasing.on /\ SpendsChat("deletes")
  /\ erasing' = [on |-> TRUE, messages |-> MessagesOf(chatRow.pk)]
  /\ UNCHANGED <<chatRegime, chatRow, lastPk, chatLog, chatTurn, chatLock, filed, deadKeys>>

WasAboutIt(t) ==
  \/ chatTurn[t].pk = chatRow.pk
  \/ chatTurn[t].found # NoChat /\ chatTurn[t].found.pk = chatRow.pk

(* The messages loaded go, and the row; a message that came since keeps it on   *)
(* Postgres, and is left behind on SQLite.                                      *)
DeletesChat ==
  /\ erasing.on /\ chatLock = NoTurn /\ erasing' = NothingLoaded
  /\ IF chatRegime.sqlite \/ MessagesOf(chatRow.pk) \subseteq erasing.messages
     THEN /\ chatRow' = NoChat
          /\ chatLog' = SelectSeq(chatLog, LAMBDA m : m \notin erasing.messages)
          /\ chatTurn' = [t \in Turns |->
               [chatTurn[t] EXCEPT !.bereft = @ \/ WasAboutIt(t)]]
     ELSE UNCHANGED <<chatRow, chatLog, chatTurn>>
  /\ UNCHANGED <<chatRegime, lastPk, chatLock, filed, deadKeys, chatLeft>>

NewKey == chatRegime.budget.keys - chatLeft.keys + 1
SetsKey ==
  /\ chatLock = NoTurn /\ SpendsChat("keys")
  /\ IF chatRow # NoChat
     THEN chatRow' = [chatRow EXCEPT !.key = NewKey] /\ UNCHANGED lastPk
     ELSE \E pk \in NextPks :
            chatRow' = [pk |-> pk, repo |-> NoRepo, key |-> NewKey] /\ lastPk' = pk
  /\ UNCHANGED <<chatRegime, chatLog, chatTurn, chatLock, filed, erasing, deadKeys>>
ClearsKey ==
  /\ chatLock = NoTurn /\ chatRow # NoChat /\ chatRow.key # NoUserKey
  /\ chatRow' = [chatRow EXCEPT !.key = NoUserKey]
  /\ UNCHANGED <<chatRegime, lastPk, chatLog, chatTurn, chatLock, filed, erasing, deadKeys,
                 chatLeft>>
KeyExpires ==
  /\ \E k \in 1 .. (NewKey - 1) \ deadKeys : deadKeys' = deadKeys \cup {k}
  /\ UNCHANGED <<chatRegime, chatRow, lastPk, chatLog, chatTurn, chatLock, filed, erasing,
                 chatLeft>>

ChatNext ==
  \/ \E t \in Turns :
       \/ Looks(t) \/ SavesQuestion(t) \/ QuestionRefused(t) \/ Thinks(t)
       \/ SavesDefaults(t) \/ DefaultsRefused(t) \/ FilesACard(t)
       \/ AnswersFast(t) \/ AnswersAtLast(t) \/ Commits(t)
       \/ MarksFailure(t) \/ StaysSilent(t) \/ IsCut(t)
  \/ LoadsToDelete \/ DeletesChat \/ SetsKey \/ ClearsKey \/ KeyExpires
----------------------------------------------------------------------------
(* What a turn leaves in its chat while the chat is not deleted: its question, *)
(* whatever became of it, and after it the answer, the apology or the marker   *)
(* of every turn that got that far.                                            *)
IsIn(t, role) == \E m \in MessagesOf(chatTurn[t].pk) : m.turn = t /\ m.role = role
TurnsAreKept ==
  \A t \in Turns :
    chatTurn[t].pk # 0 /\ ~chatTurn[t].bereft =>
      /\ IsIn(t, "question")
      /\ chatTurn[t].stage \in {"told", "marked"} => IsIn(t, chatTurn[t].says)
      /\ chatTurn[t].stage \in {"told", "marked"} => chatTurn[t].says # ""
      /\ chatTurn[t].stage = "silent" => chatRegime.sqlite

(* An answer stands in its question's chat, below it.  Only SQLite lets it stay *)
(* behind, or get into the next chat, when its own has been deleted.            *)
AnswersFollow ==
  \A i \in DOMAIN chatLog :
    LET m == chatLog[i] IN
    /\ m.role # "question" /\ ~chatTurn[m.turn].bereft =>
         \E j \in 1 .. (i - 1) :
           chatLog[j] = [pk |-> m.pk, turn |-> m.turn, role |-> "question"]
    /\ ~ChatIsThere(m.pk) \/ chatTurn[m.turn].bereft => chatRegime.sqlite

(* A chat that knows its repository does not forget it, and has it from a       *)
(* question of its own.                                                         *)
ChatKeepsItsRepo ==
  chatRow # NoChat =>
    LET own == {t \in Turns : chatTurn[t].pk = chatRow.pk /\ ~chatTurn[t].bereft
                             /\ chatTurn[t].repo # NoRepo} IN
    IF own = {} THEN chatRow.repo = NoRepo
    ELSE chatRow.repo \in {chatTurn[t].repo : t \in own}

(* No card is filed where the question does not allow it: without the request's *)
(* permission, or for a reorganisation nobody confirmed; on another board than  *)
(* the one chosen; on another repository's than the only known one it names;    *)
(* or, of a name nobody knows in a chat that has no repository, on any.         *)
FiledWhereAllowed ==
  \A f \in filed :
    LET q == Asked(f.turn)
        given == q.explicit # NoRepo \/ q.written # NoRepo
        named == q.mentions \cap KnownRepos
    IN /\ q.allowWrites /\ q.tools /\ (q.organises => q.confirms)
       /\ q.board # NoBoard => f.board = q.board
       /\ q.board = NoBoard /\ q.explicit # NoRepo => f.board = chatRegime.boards[q.explicit]
       /\ q.board = NoBoard /\ ~given =>
            /\ \A r \in named : named = {r} => f.board = chatRegime.boards[r]
            /\ named = {} /\ q.unknown =>
                 chatTurn[f.turn].found # NoChat /\ chatTurn[f.turn].found.repo # NoRepo

ChatIsKept == TurnsAreKept /\ AnswersFollow /\ ChatKeepsItsRepo /\ FiledWhereAllowed
=============================================================================
