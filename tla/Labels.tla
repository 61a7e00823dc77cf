-------------------------------- MODULE Labels --------------------------------
(***************************************************************************)
(* Labels of posts: api/label/functions.go over nested/manager_label.go.   *)
(*                                                                         *)
(* A label has members, who may put it on posts; each account has a list   *)
(* of its labels in accounts.labels, and the special document Public lists *)
(* the public ones.  Other accounts request labels, or membership, and an  *)
(* editor answers.  Nothing is cached; a worker's `script' is the MongoDB  *)
(* commands it still has to run, `copy' the document it has read.          *)
(***************************************************************************)
EXTENDS Integers, FiniteSets, Sequences

CONSTANTS
  Accounts, Public,     \* account ids; the id of the public labels' list
  Editors, Enabled,     \* with the authority LabelEditor; not disabled
  Titles, Nil,          \* titles in lower case; no document, label or title
  Workers, Requests,
  MaxMembers,           \* DefaultLabelMaxMembers
  MaxLabels, MaxAsked,  \* bounds: labels and label requests created
  MaxRequests           \* bound: requests served in a behaviour

VARIABLES
  label,     \* the collection labels
  listing,   \* accounts.labels
  asked,     \* labels.requests
  tagged,    \* labels on posts
  ids,       \* labels that were given an id
  script, copy, served

docs == <<label, listing, asked, tagged>>
vars == <<docs, ids, script, copy, served>>

LabelIds == 1..MaxLabels
AskedIds == 1..MaxAsked

LabelDocs == [title : Titles \cup {Nil}, public : BOOLEAN, members : SUBSET Accounts,
              nMembers : Int]
Lists == [labels : SUBSET LabelIds, qty : Int]
Statuses == {"pending", "approved", "rejected", "canceled", "failed"}
AskedDocs == [by : Accounts, label : LabelIds \cup {Nil},
              title : Titles \cup {Nil}, status : Statuses]

(* `id' is the label, or the request for one; `item' the title, the list   *)
(* of members, or the member to remove.                                    *)
RequestType ==
  [op : {"create", "add_member", "remove_member", "update", "remove",
         "create_req", "remove_req", "approve", "reject", "tag"},
   who : Accounts, id : LabelIds \cup AskedIds \cup {Nil},
   item : Titles \cup Accounts \cup SUBSET Accounts \cup {Nil}, public : BOOLEAN]

(* Requests about a request for a label; the others are about a label.     *)
OnAsked == {"remove_req", "approve", "reject"}

(* Each operation has the arguments it reads.  The title of a request for  *)
(* a label may be empty, also when a label is to be made of it.            *)
Complete(r) ==
  /\ r.op \in {"create", "update"} => r.item \in Titles
  /\ r.op = "create_req" =>
       r.id \in LabelIds \cup {Nil} /\ r.item \in Titles \cup {Nil}
  /\ r.op = "add_member" => r.item \in SUBSET Accounts
  /\ r.op = "remove_member" => r.item \in Accounts
  /\ r.op \in OnAsked => r.id \in AskedIds
  /\ r.op \in {"add_member", "remove_member", "update", "remove", "tag"} =>
       r.id \in LabelIds

LabelsAssumption ==
  /\ IsFiniteSet(Accounts) /\ IsFiniteSet(Workers)
  /\ Editors \cup Enabled \subseteq Accounts /\ Public \notin Accounts
  /\ Nil \notin LabelDocs
  /\ Requests \subseteq RequestType /\ \A r \in Requests : Complete(r)
  /\ {MaxMembers, MaxLabels, MaxAsked, MaxRequests} \subseteq Nat

Init ==
  /\ label = [l \in LabelIds |-> Nil]
  /\ listing = [a \in Accounts \cup {Public} |-> [labels |-> {}, qty |-> 0]]
  /\ asked = [i \in AskedIds |-> Nil]
  /\ tagged = {}
  /\ ids = 0
  /\ script = [w \in Workers |-> <<>>]
  /\ copy = [w \in Workers |-> Nil]
  /\ served = 0

Made == {l \in LabelIds : label[l] # Nil}

-----------------------------------------------------------------------------
(* Scripts.                                                                *)

Command(do, id, arg) == [do |-> do, id |-> id, arg |-> arg]

Ready(w, do) == script[w] # <<>> /\ Head(script[w]).do = do
Now(w) == Head(script[w])
Become(w, s) == script' = [script EXCEPT ![w] = s \o Tail(@)]
Proceed(w) == Become(w, <<>>)
Return(w) == script' = [script EXCEPT ![w] = <<>>]

(* What a handler calls once it has decided, and what it begins with: it   *)
(* reads the label, or the request for one, and decides.                   *)
Calls ==
  [do : {"lookup", "retitle"}, id : LabelIds, arg : Titles]
    \cup [do : {"insert"}, id : LabelIds,
          arg : (Titles \cup {Nil}) \X BOOLEAN \X (AskedIds \cup {Nil})]
    \cup [do : {"enlist"}, id : LabelIds, arg : SUBSET Accounts]
    \cup [do : {"delist"}, id : LabelIds, arg : Accounts]
    \cup [do : {"list", "unlist"}, id : LabelIds,
          arg : SUBSET (Accounts \cup {Public})]
    \cup [do : {"delete", "tag", "untag"}, id : LabelIds, arg : {Nil}]
    \cup [do : {"answer"}, id : AskedIds, arg : Statuses]

Decide(r) == Command("decide", r.id, r)
Opening(r) ==
  <<Command(IF r.op \in OnAsked THEN "get_asked" ELSE "get", r.id, Nil),
    Decide(r)>>

AddMembers(l, who) == <<Command("enlist", l, who)>>
Answer(i, status) == <<Command("answer", i, status)>>

-----------------------------------------------------------------------------
(* Requests.                                                               *)

Arrives(w, r, calls) ==
  /\ script[w] = <<>> /\ served < MaxRequests
  /\ served' = served + 1
  /\ script' = [script EXCEPT ![w] = calls]

NewLabel == ids + 1
HasRoom == ids + Cardinality({w \in Workers : script[w] # <<>>}) < MaxLabels

(* create: the title is looked up before the insert, which answers no      *)
(* request.                                                                *)
CreateLabel(w, r) ==
  /\ r.op = "create" /\ r.who \in Editors /\ HasRoom
  /\ Arrives(w, r, <<Command("lookup", NewLabel, r.item),
                     Command("insert", NewLabel, <<r.item, r.public, Nil>>)>>)
  /\ ids' = NewLabel
  /\ UNCHANGED <<docs, copy>>

(* Handlers that read the label, or the request for one, at first.         *)
Receive(w, r) ==
  /\ r.op \notin {"create", "create_req"}
  /\ r.op = "approve" => HasRoom
  /\ Arrives(w, r, Opening(r))
  /\ UNCHANGED <<docs, ids, copy>>

(* create_req, of accounts that are not editors; the label exists, if the  *)
(* request names one.                                                      *)
AskForLabel(w, r) ==
  /\ r.op = "create_req" /\ r.who \notin Editors
  /\ r.id # Nil => r.id \in Made
  /\ Arrives(w, r, <<>>)
  /\ \E i \in AskedIds :
       /\ asked[i] = Nil /\ \A j \in 1..(i - 1) : asked[j] # Nil
       /\ asked' = [asked EXCEPT ![i] = [by |-> r.who, label |-> r.id,
                                         title |-> r.item, status |-> "pending"]]
  /\ UNCHANGED <<label, listing, tagged, ids, copy>>

GetLabel(w) ==
  /\ Ready(w, "get") \/ Ready(w, "get_asked")
  /\ LET found == IF Now(w).do = "get" THEN label[Now(w).id]
                  ELSE asked[Now(w).id]
     IN IF found = Nil THEN Return(w) /\ UNCHANGED copy
        ELSE Proceed(w) /\ copy' = [copy EXCEPT ![w] = found]
  /\ UNCHANGED <<docs, ids, served>>

Handle(w, op, ok, calls) ==
  /\ Ready(w, "decide") /\ Now(w).arg.op = op
  /\ Become(w, IF ok THEN calls ELSE <<>>)
  /\ UNCHANGED <<docs, copy, served>>

Asked(w) == Now(w).arg
IsEditor(w) == Asked(w).who \in Editors

(* The limit counts the list before disabled accounts are left out.        *)
AddMember(w) ==
  /\ Handle(w, "add_member",
         /\ IsEditor(w)
         /\ copy[w].nMembers + Cardinality(Asked(w).item) <= MaxMembers,
         AddMembers(Now(w).id, Asked(w).item \cap Enabled))
  /\ UNCHANGED ids

RemoveMember(w) ==
  /\ Handle(w, "remove_member", IsEditor(w),
         <<Command("delist", Now(w).id, Asked(w).item)>>)
  /\ UNCHANGED ids

UpdateLabel(w) ==
  /\ Handle(w, "update", IsEditor(w),
         <<Command("retitle", Now(w).id, Asked(w).item)>>)
  /\ UNCHANGED ids

RemoveLabel(w) ==
  /\ Handle(w, "remove", IsEditor(w), <<Command("delete", Now(w).id, Nil)>>)
  /\ UNCHANGED ids

(* remove_req, also of a request that was answered.                        *)
CancelRequest(w) ==
  /\ Handle(w, "remove_req", copy[w].by = Asked(w).who,
         Answer(Now(w).id, "canceled"))
  /\ UNCHANGED ids

RejectRequest(w) ==
  /\ Handle(w, "reject", IsEditor(w), Answer(Now(w).id, "rejected"))
  /\ UNCHANGED ids

(* update_req with approve: a new title for the label, a new member of it, *)
(* or a new label, which may fail.  It does not ask whether the request is *)
(* pending.                                                                *)
ApproveRequest(w) ==
  LET i == Now(w).id  c == copy[w]
      creates == IsEditor(w) /\ c.label = Nil
  IN /\ Handle(w, "approve", IsEditor(w),
          IF creates
            THEN <<Command("insert", NewLabel, <<c.title, FALSE, i>>)>>
                   \o Answer(i, "approved") \o AddMembers(NewLabel, {c.by})
          ELSE IF c.label \notin Made THEN Answer(i, "failed")
          ELSE (IF c.title # Nil
                  THEN <<Command("retitle", c.label, c.title)>>
                  ELSE AddMembers(c.label, {c.by}))
               \o Answer(i, "approved"))
     /\ ids' = IF creates THEN NewLabel ELSE ids

(* post/add_label, as far as labels go.                                    *)
TagPost(w) ==
  /\ Handle(w, "tag", copy[w].public \/ Asked(w).who \in copy[w].members,
         <<Command("tag", Now(w).id, Nil)>>)
  /\ UNCHANGED ids

-----------------------------------------------------------------------------
(* The commands.                                                           *)

TitleUsed(title, S) == \E l \in S : label[l].title = title

TitleExists(w) ==
  /\ Ready(w, "lookup")
  /\ IF TitleUsed(Now(w).arg, Made) THEN Return(w) ELSE Proceed(w)
  /\ UNCHANGED <<docs, ids, copy, served>>

(* CreatePrivate and CreatePublic: a title is in a unique index, the empty *)
(* one included.  With a title that is used nothing is made: the handler   *)
(* ends, and the request for the label, if it answers one, has failed.     *)
InsertLabel(w) ==
  /\ Ready(w, "insert")
  /\ LET l == Now(w).id  title == Now(w).arg[1]  public == Now(w).arg[2]
         i == Now(w).arg[3]
     IN IF TitleUsed(title, Made)
          THEN /\ script' = [script EXCEPT ![w] =
                    IF i = Nil THEN <<>> ELSE Answer(i, "failed")]
               /\ UNCHANGED label
          ELSE /\ label' = [label EXCEPT ![l] =
                    [title |-> title, public |-> public, members |-> {},
                     nMembers |-> 0]]
               /\ Become(w, IF public THEN <<Command("list", l, {Public})>>
                            ELSE <<>>)
  /\ UNCHANGED <<listing, asked, tagged, ids, copy, served>>

(* Mutant: the list is counted though some of it are members already.      *)
EnlistAny(w) ==
  /\ Ready(w, "enlist")
  /\ LET l == Now(w).id  who == Now(w).arg
     IN IF l \in Made
          THEN /\ label' = [label EXCEPT ![l].members = @ \cup who,
                                         ![l].nMembers = @ + Cardinality(who)]
               /\ Become(w, <<Command("list", l, who)>>)
          ELSE Proceed(w) /\ UNCHANGED label
  /\ UNCHANGED <<listing, asked, tagged, ids, copy, served>>

(* AddMembers: the label, unless one of the list is a member; then the     *)
(* accounts, one after the other.                                          *)
Enlist(w) ==
  /\ Ready(w, "enlist")
  /\ LET l == Now(w).id  who == Now(w).arg
     IN IF l \in Made /\ label[l].members \cap who = {}
          THEN /\ label' = [label EXCEPT ![l].members = @ \cup who,
                                         ![l].nMembers = @ + Cardinality(who)]
               /\ Become(w, <<Command("list", l, who)>>)
          ELSE Proceed(w) /\ UNCHANGED label
  /\ UNCHANGED <<listing, asked, tagged, ids, copy, served>>

(* One upsert after the other, each of which fails on an account that      *)
(* lists the label already.                                                *)
List(w) ==
  /\ Ready(w, "list")
  /\ LET l == Now(w).id  who == Now(w).arg
     IN IF who = {} THEN Proceed(w) /\ UNCHANGED listing
        ELSE \E a \in who :
               /\ listing' = [listing EXCEPT ![a] =
                    IF l \in @.labels THEN @
                    ELSE [labels |-> @.labels \cup {l}, qty |-> @.qty + 1]]
               /\ Become(w, IF who = {a} THEN <<>>
                            ELSE <<Command("list", l, who \ {a})>>)
  /\ UNCHANGED <<label, asked, tagged, ids, copy, served>>

(* The lists of S without the label.                                       *)
Without(S, l) ==
  [a \in DOMAIN listing |->
     IF a \in S /\ l \in listing[a].labels
       THEN [labels |-> listing[a].labels \ {l}, qty |-> listing[a].qty - 1]
       ELSE listing[a]]

Delist(w) ==
  /\ Ready(w, "delist")
  /\ LET l == Now(w).id  a == Now(w).arg
     IN IF l \in Made /\ a \in label[l].members
          THEN /\ label' = [label EXCEPT ![l].members = @ \ {a},
                                         ![l].nMembers = @ - 1]
               /\ Become(w, <<Command("unlist", l, {a})>>)
          ELSE Return(w) /\ UNCHANGED label
  /\ UNCHANGED <<listing, asked, tagged, ids, copy, served>>

Unlist(w) ==
  /\ Ready(w, "unlist")
  /\ listing' = Without(Now(w).arg, Now(w).id)
  /\ Proceed(w)
  /\ UNCHANGED <<label, asked, tagged, ids, copy, served>>

(* Mutant: Remove leaves the accounts' lists.                              *)
DeleteOnly(w) ==
  /\ Ready(w, "delete")
  /\ IF Now(w).id \in Made
       THEN /\ label' = [label EXCEPT ![Now(w).id] = Nil]
            /\ Become(w, <<Command("untag", Now(w).id, Nil)>>)
       ELSE Return(w) /\ UNCHANGED label
  /\ UNCHANGED <<listing, asked, tagged, ids, copy, served>>

(* Remove: the label, then the posts that have it, then everyone's list.   *)
Delete(w) ==
  /\ Ready(w, "delete")
  /\ LET l == Now(w).id
     IN IF l \in Made
          THEN /\ label' = [label EXCEPT ![l] = Nil]
               /\ Become(w, <<Command("untag", l, Nil),
                              Command("unlist", l, DOMAIN listing)>>)
          ELSE Return(w) /\ UNCHANGED label
  /\ UNCHANGED <<listing, asked, tagged, ids, copy, served>>

(* Update, which fails if another label has the title: no handler asks.    *)
Retitle(w) ==
  /\ Ready(w, "retitle")
  /\ LET l == Now(w).id  title == Now(w).arg
     IN label' = IF l \in Made /\ ~TitleUsed(title, Made \ {l})
                   THEN [label EXCEPT ![l].title = title] ELSE label
  /\ Proceed(w)
  /\ UNCHANGED <<listing, asked, tagged, ids, copy, served>>

AnswerRequest(w) ==
  /\ Ready(w, "answer")
  /\ LET i == Now(w).id
     IN asked' = IF asked[i] # Nil THEN [asked EXCEPT ![i].status = Now(w).arg]
                 ELSE asked
  /\ Proceed(w)
  /\ UNCHANGED <<label, listing, tagged, ids, copy, served>>

TagOrUntag(w) ==
  /\ Ready(w, "tag") \/ Ready(w, "untag")
  /\ tagged' = IF Now(w).do = "tag" THEN tagged \cup {Now(w).id}
               ELSE tagged \ {Now(w).id}
  /\ Proceed(w)
  /\ UNCHANGED <<label, listing, asked, ids, copy, served>>

Serve(w) == \E r \in Requests :
              CreateLabel(w, r) \/ Receive(w, r) \/ AskForLabel(w, r)

Next ==
  \E w \in Workers :
    \/ Serve(w) \/ GetLabel(w) \/ AddMember(w) \/ RemoveMember(w)
    \/ UpdateLabel(w) \/ RemoveLabel(w) \/ CancelRequest(w)
    \/ RejectRequest(w) \/ ApproveRequest(w) \/ TagPost(w)
    \/ TitleExists(w) \/ InsertLabel(w) \/ Enlist(w) \/ List(w) \/ Delist(w)
    \/ Unlist(w) \/ Delete(w) \/ Retitle(w) \/ AnswerRequest(w)
    \/ TagOrUntag(w)

(* Every request of the bound is served, or no more fits the bounds.       *)
Quiet == \A w \in Workers : script[w] = <<>>
Stop == Quiet /\ UNCHANGED vars

Spec == Init /\ [][Next \/ Stop]_vars

-----------------------------------------------------------------------------
(* Properties.                                                             *)

Receives == {r \in Requests : r.op \notin {"create", "create_req"}}

(* What a handler decides about was found.                                 *)
Found(r) == IF r.op \in OnAsked THEN AskedDocs ELSE LabelDocs

(* Documents, and what a worker has before it: a handler's opening, its    *)
(* decision, or the rest of its calls.                                     *)
TypeOK ==
  /\ label \in [LabelIds -> LabelDocs \cup {Nil}]
  /\ listing \in [Accounts \cup {Public} -> Lists]
  /\ asked \in [AskedIds -> AskedDocs \cup {Nil}]
  /\ tagged \subseteq LabelIds
  /\ ids \in 0..MaxLabels /\ served \in 0..MaxRequests
  /\ DOMAIN script = Workers /\ DOMAIN copy = Workers
  /\ \A w \in Workers :
       \/ script[w] \in Seq(Calls)
       \/ \E r \in Receives :
            \/ script[w] = Opening(r)
            \/ script[w] = <<Decide(r)>> /\ copy[w] \in Found(r)

(* With one request at a time, whatever was created, approved, answered    *)
(* again or removed, every account lists exactly the labels it is a member *)
(* of, the public list exactly the public ones, and no post has a label    *)
(* that does not exist.                                                    *)
LabelsAgree ==
  Quiet =>
    /\ \A a \in Accounts :
         listing[a].labels = {l \in Made : a \in label[l].members}
    /\ listing[Public].labels = {l \in Made : label[l].public}
    /\ tagged \subseteq Made

(* However handlers interleave, a label counts its members and a list its  *)
(* labels.                                                                 *)
LabelsCounted ==
  /\ \A l \in Made : label[l].nMembers = Cardinality(label[l].members)
  /\ \A a \in DOMAIN listing :
       listing[a].qty = Cardinality(listing[a].labels)
=============================================================================
