CONSTANTS
  ann = ann
  bob = bob
  work = work
  team = team
  homeA = homeA
  homeB = homeB
  tag = tag
  red = red
  stranger = stranger
  everyone = everyone
  talk = talk
  chore = chore
  todo = todo
  joe = joe
  pic = pic
  voice = voice
  doc = doc
  Nil = Nil
  w1 = w1
  w2 = w2
  Servers = {w1, w2}
  Counters = {talk, todo}
  MaxCounts = 2
  MaxFlushes = 2
SPECIFICATION Spec
INVARIANTS TypeOK UnreadCounted PostsCounted RecentShown PostReachable LabelsAgree LabelsCounted FilesReachable PostFilesOwned NoticesCounted CommentersNamed AccountsCounted GuessesBounded LockedOut RestartForgets TaskFilesCounted CountsReported
