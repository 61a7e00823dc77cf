----------------------------- MODULE PlaceRoster -----------------------------
(***************************************************************************)
(* What the place manager promises about memberships, whatever requests    *)
(* run at once: every account has one role in every place, and roles       *)
(* change one account at a time, along                                     *)
(*                                                                         *)
(*      none <--> key_holder <--> creator                                  *)
(*                                                                         *)
(* except that a place may appear, with no member, or disappear.           *)
(* PlaceMembership implements this specification.                          *)
(***************************************************************************)
CONSTANTS Places, Accounts, Gone

VARIABLE roles   \* of every account in every place, or Gone

RoleNames == {"none", "key_holder", "creator"}

TypeOK == roles \in [Places -> [Accounts -> RoleNames] \cup {Gone}]

Init == TypeOK

Found(p) ==
  /\ roles[p] = Gone
  /\ roles' = [roles EXCEPT ![p] = [a \in Accounts |-> "none"]]

Dissolve(p) ==
  /\ roles[p] # Gone
  /\ roles' = [roles EXCEPT ![p] = Gone]

Turn(p, a, from, to) ==
  /\ roles[p] # Gone
  /\ roles[p][a] = from
  /\ roles' = [roles EXCEPT ![p] = [@ EXCEPT ![a] = to]]

Admit(p, a)  == Turn(p, a, "none", "key_holder")
Raise(p, a)  == Turn(p, a, "key_holder", "creator")
Lower(p, a)  == Turn(p, a, "creator", "key_holder")
Exclude(p, a) == Turn(p, a, "key_holder", "none")

Next ==
  \E p \in Places :
    \/ Found(p)
    \/ Dissolve(p)
    \/ \E a \in Accounts :
         Admit(p, a) \/ Raise(p, a) \/ Lower(p, a) \/ Exclude(p, a)

Spec == Init /\ [][Next]_roles
=============================================================================
