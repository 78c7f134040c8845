\* The people, and the assistant they talk to, one part at a time.
SPECIFICATION PeopleSpec
CONSTANTS
  TeamRegimes <- MCTeamRegimes
  RosterRegimes <- MCRosterRegimes
  PickRegimes <- MCPickRegimes
  MatchRegimes <- MCMatchRegimes
  IdentityRegimes <- MCIdentityRegimes
  proc1 = proc1  proc2 = proc2  job1 = job1  job2 = job2  turn1 = turn1  turn2 = turn2
  repoA = repoA  repoB = repoB  board1 = board1  board2 = board2
  chat1 = chat1  chat2 = chat2  task1 = task1  task2 = task2  task3 = task3
  group1 = group1  group2 = group2
  Turns = {turn1, turn2}
  NoRepo = NoRepo
  NoBoard = NoBoard
  NoChat = NoChat
  NoUserKey = NoUserKey
  Chats = {chat1, chat2}
  TaskTitles = {task1, task2, task3}
  LimitRegimes <- MCLimitRegimes
  BriefRegimes <- MCBriefRegimes
  ChatRegimes <- MCChatRegimes
  BatchRegimes <- MCBatchRegimes
INVARIANTS  AssistantIsSound
PROPERTY AssignmentsAreFair
CHECK_DEADLOCK FALSE
