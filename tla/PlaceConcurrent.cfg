CONSTANTS
  boss = boss
  ann = ann
  bob = bob
  grand = grand
  sub = sub
  Accounts = {boss, ann, bob}
  Grand = grand
  Subs = {sub}
  Nil = Nil
  NoOne = NoOne
  NoRequest = NoRequest
  Workers = {w1, w2}
  Requests <- Conflicting
  Foundings <- MCFoundings
  EveryoneAdds = TRUE
  CreatorLimit = 2
  KeyholderLimit = 2
  ChildLimit = 1
  MaxRequests = 3
SPECIFICATION Spec
INVARIANT RosterCounted
PROPERTY ImplementsRoster
