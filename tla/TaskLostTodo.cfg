CONSTANTS
  boss = boss
  ann = ann
  bob = bob
  w1 = w1
  w2 = w2
  Accounts = {boss, ann, bob}
  Assignor = boss
  NoAccount = NoAccount
  NoTask = NoTask
  NoRequest = NoRequest
  Texts <- MCTexts
  Workers = {w1, w2}
  Requests <- Additions
  Creations <- MCCreations
  MaxRequests = 2
SPECIFICATION Spec
PROPERTY AddToDoKeepsItems
