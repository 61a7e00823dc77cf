--------------------------- MODULE MC_TaskService ---------------------------
(***************************************************************************)
(* Instances of TaskService for TLC.  Every run names the requests its     *)
(* clients may send; any of them may come first, repeat, or be served by   *)
(* two workers at once.                                                    *)
(***************************************************************************)
EXTENDS TaskService, TLC

CONSTANTS boss, ann, bob, w1, w2

(* Lists of accounts.                                                      *)
None     == [ids |-> {}, again |-> {}]
Ids(S)   == [ids |-> S, again |-> {}]
Twice(a) == [ids |-> {a}, again |-> {a}]

(* A request with the arguments its operation ignores filled in.           *)
Request(op, who) ==
  [op |-> op, who |-> who, list |-> None, todo |-> 1, txt |-> "new",
   status |-> "Hold"]
About(op, who, list)    == [Request(op, who) EXCEPT !.list = list]
OnTodo(op, who, id)     == [Request(op, who) EXCEPT !.todo = id]
SetTo(who, status)      == [Request("set_status", who) EXCEPT !.status = status]

MCTexts == {"new", "old"}

(* Created with ann and bob as candidates and two to-dos, the item between *)
(* them not decoded, or assigned to ann and watched by bob.                *)
MCCreations ==
  {Created(NoAccount, Ids({ann, bob}), None, None, <<"old", "%", "old">>),
   Created(ann, None, Ids({bob}), None, <<>>)}

(* One worker: every operation, lists that name an account twice included. *)
EveryOperation ==
  {Request("add_comment", bob), Request("add_todo", ann),
   OnTodo("remove_todo", boss, 1), OnTodo("update_todo", boss, 1),
   About("add_watcher", boss, Ids({ann, bob})),
   About("add_watcher", ann, Twice(bob)),
   About("remove_watcher", bob, Ids({bob})),
   About("add_editor", boss, Ids({bob})),
   About("remove_editor", boss, Ids({bob})),
   About("add_candidate", boss, Ids({bob})),
   About("remove_candidate", boss, Ids({ann})),
   About("update_assignee", boss, Ids({bob})),
   About("update_assignee", ann, Ids({ann, bob})),
   About("update_assignee", boss, None),
   Request("accept", ann), Request("accept", bob),
   Request("reject", ann), Request("reject", bob), Request("resign", ann),
   SetTo(boss, "Completed"), SetTo(bob, "Hold"),
   Request("in_progress", boss), Request("remove", boss)}

(* Two workers: what the counters, the to-do ids, rejections and removal   *)
(* depend on.                                                              *)
Conflicting ==
  {Request("add_todo", boss), [Request("add_todo", boss) EXCEPT !.txt = "old"],
   OnTodo("remove_todo", boss, 1),
   OnTodo("update_todo", boss, 1),
   About("add_watcher", boss, Ids({ann, bob})),
   About("remove_watcher", bob, Ids({bob})),
   About("remove_candidate", boss, Ids({ann})),
   About("update_assignee", boss, Ids({bob})),
   About("update_assignee", boss, Ids({ann, boss})),
   Request("accept", bob), Request("reject", ann), Request("reject", bob),
   Request("resign", ann), Request("remove", boss)}

(* What the disagreements between the code and its comments need.          *)
Acceptances == {Request("accept", ann), Request("accept", bob)}
Additions == {Request("add_todo", boss),
              [Request("add_todo", ann) EXCEPT !.txt = "old"]}
Removals == {About("remove_candidate", boss, Ids({ann})),
             About("update_assignee", boss, Ids({ann, bob})),
             About("add_watcher", boss, Ids({ann}))}
=============================================================================
