CONSTANTS
  boss = boss
  ann = ann
  bob = bob
  w1 = w1
  w2 = w2
  Accounts = {boss, ann, bob}
  Assignor = boss
  NoAccount = NoAccount
  NoTask = NoTask
  NoRequest = NoRequest
  Texts <- MCTexts
  Workers = {w1}
  Requests <- EveryOperation
  Creations <- MCCreations
  MaxRequests = 5
SPECIFICATION Spec
INVARIANTS DecidesOnCurrent AssignedHasAssignee
PROPERTY LastRejectRejects
