CONSTANTS
  boss = boss
  ann = ann
  bob = bob
  grand = grand
  sub = sub
  Accounts = {boss, ann, bob}
  Grand = grand
  Subs = {sub}
  Nil = Nil
  NoOne = NoOne
  NoRequest = NoRequest
  Workers = {w1}
  Requests <- Leaving
  Foundings <- MCFoundings
  EveryoneAdds = TRUE
  CreatorLimit = 2
  KeyholderLimit = 1
  ChildLimit = 1
  MaxRequests = 1
SPECIFICATION Spec
INVARIANT CreatorRemains
