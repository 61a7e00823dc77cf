-------------------------- MODULE MC_PlaceMembership --------------------------
(***************************************************************************)
(* Instances of PlaceMembership for TLC: a grand place, one sub-place id,  *)
(* and a boss, who is a creator of what exists at the start.               *)
(***************************************************************************)
EXTENDS PlaceMembership, TLC

CONSTANTS boss, ann, bob, grand, sub

Request(op, who, place, list) ==
  [op |-> op, who |-> who, place |-> place, list |-> list, admin |-> FALSE]
ByAdmin(op, place, list) ==
  [Request(op, boss, place, list) EXCEPT !.admin = TRUE]

People(creators, keys) == [creators |-> creators, keys |-> keys]

(* The grand place alone, or with everybody in it and a sub-place.         *)
MCFoundings ==
  {(grand :> People({boss}, {}) @@ sub :> Nil),
   (grand :> People({boss, bob}, {ann}) @@ sub :> People({boss}, {ann}))}

(* One worker: every operation of clients.                                 *)
EveryOperation ==
  {Request("invite_member", boss, grand, <<ann, bob>>),
   Request("invite_member", ann, grand, <<bob>>),
   Request("add_member", boss, sub, <<ann, bob>>),
   Request("add_member", ann, sub, <<bob, bob>>),
   Request("add_member", boss, grand, <<bob>>),
   Request("promote_member", boss, sub, <<ann>>),
   Request("promote_member", boss, grand, <<ann>>),
   Request("promote_member", boss, sub, <<bob>>),
   Request("promote_member", boss, sub, <<boss>>),
   Request("demote_member", ann, sub, <<boss>>),
   Request("demote_member", boss, grand, <<boss>>),
   Request("leave", ann, grand, <<>>),
   Request("leave", boss, sub, <<>>),
   Request("leave", boss, grand, <<>>),
   Request("remove_member", boss, grand, <<ann>>),
   Request("remove_member", ann, sub, <<boss>>),
   Request("remove", boss, sub, <<>>),
   Request("remove", ann, grand, <<>>),
   Request("remove", boss, grand, <<>>),
   Request("add_place", boss, sub, <<>>),
   Request("add_place", ann, sub, <<>>)}

(* Two workers: what rosters and their counters depend on.                 *)
Conflicting ==
  {Request("add_member", boss, sub, <<ann>>),
   Request("add_member", boss, sub, <<bob>>),
   ByAdmin("promote_member", sub, <<ann>>),
   ByAdmin("demote_member", sub, <<ann>>),
   Request("leave", ann, grand, <<>>),
   ByAdmin("remove_member", sub, <<ann>>),
   Request("remove", boss, sub, <<>>),
   Request("remove", boss, grand, <<>>),
   Request("add_place", boss, sub, <<>>)}

(* What the disagreements between the code and its comments need.          *)
Leaving == {Request("leave", boss, grand, <<>>)}
Removing == {Request("leave", ann, sub, <<>>),
             Request("remove", boss, sub, <<>>)}
=============================================================================
