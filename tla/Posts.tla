-------------------------------- MODULE Posts --------------------------------
(***************************************************************************)
(* Posts and comments: the handlers of api/post/functions.go, those of     *)
(* api/place/functions.go about the posts of a place, and mail that        *)
(* arrives over LMTP, all of them over nested/manager_post.go.             *)
(*                                                                         *)
(* A post is in places.  Each member of a place but the sender gets a read *)
(* mark, removed when the post is read, and every account has a counter of *)
(* unread posts per place, in a collection of its own; a place counts its  *)
(* posts.  Nothing ties counters to what they count but the order of the   *)
(* commands below: a worker's `script' is the commands it still has to     *)
(* run, each one MongoDB or Redis command, and workers interleave.         *)
(***************************************************************************)
EXTENDS Integers, FiniteSets, Sequences, SequencesExt

CONSTANTS
  Accounts,      \* account ids
  Places,        \* places that exist: locked, not removed meanwhile
  Home,          \* each account's personal place
  Creators,      \* the creators of each place, who do not change
  Keyholders,    \* the key holders of each place at first
  Open,          \* places with receptive "external": anyone may write
  Admins,        \* accounts with administrator's authority
  Stranger,      \* a sender of mail without an account
  Delivered,     \* posts delivered before: their senders and places
  Labels,        \* labels that exist
  LabelUsers,    \* who may use each: its members, or all if it is public
  Nil,           \* no document, no cached copy, no counter, no request
  Workers,       \* goroutines serving requests
  Requests,      \* the requests clients and mail servers send
  MaxTargets, MaxLabels,     \* DefaultPostMaxTargets, DefaultPostMaxLabels
  Recents,       \* comments kept in the post, 3 in the code
  MaxPosts, MaxComments,     \* bounds: posts and comments created
  MaxRequests    \* bound: requests served in a behaviour

VARIABLES
  post,          \* the collections posts and posts.spams
  comment,       \* posts.comments
  mark,          \* posts.reads with read: false, as <<account, place, post>>
  unread,        \* posts.reads.counters
  reader,        \* posts.reads.accounts: <<account, post>>
  watcher,       \* posts.watchers
  pinned,        \* accounts.posts: <<account, post>>
  keyholder,     \* the key holders in the places' documents
  nPosts,        \* counters.posts of the places
  labelled,      \* the counters of posts of the labels
  cache,         \* "post:gob:<id>" in Redis
  script,        \* the commands each worker has before it
  copy,          \* the post each worker read last
  served         \* requests received so far

reads == <<mark, unread, reader>>
people == <<watcher, pinned, keyholder>>
docs == <<post, comment>>
counts == <<nPosts, labelled>>
vars == <<docs, reads, people, counts, cache, script, copy, served>>

-----------------------------------------------------------------------------

PostIds == 1..MaxPosts
CommentIds == 1..MaxComments

(* `removed' is _removed, `in' the collection the post is in.              *)
PostDocs == [sender : Accounts \cup {Stranger}, places : SUBSET Places,
             removed : BOOLEAN, in : {"posts", "spams", "none"}, comments : Int,
             recent : SUBSET CommentIds, labels : SUBSET Labels,
             nLabels : Int]
CommentDocs == [post : PostIds, sender : Accounts,
                removed : BOOLEAN, hidden : BOOLEAN]

Ops == {"add", "mail", "read", "mark_as_read", "edit", "attach_place", "move",
        "remove", "retract", "not_spam", "add_comment", "remove_comment",
        "add_label", "remove_label", "set_notification", "bookmarks",
        "mark_all_read", "remove_all_posts", "join", "leave"}

(* `at' is the places of the request: targets, or the one it is about; of  *)
(* a move, the old one, and `to' the new one.  `item' is a label or a      *)
(* comment.  `on' is the state of set_notification and bookmarks, the      *)
(* answer of the clock in remove_comment (within the retract time), and    *)
(* whether a mail is spam.                                                 *)
RequestType == [op : Ops, who : Accounts \cup {Stranger}, post : PostIds,
                at : SUBSET Places, to : Places,
                item : Labels \cup CommentIds \cup {Nil}, on : BOOLEAN]

PlacesAssumption ==
  /\ Home \in [Accounts -> Places]
  /\ {Creators, Keyholders} \subseteq [Places -> SUBSET Accounts]
  /\ \A p \in Places : Creators[p] # {} /\ Creators[p] \cap Keyholders[p] = {}
  /\ Open \subseteq Places /\ Stranger \notin Accounts
  /\ Admins \subseteq Accounts
  /\ LabelUsers \in [Labels -> SUBSET Accounts]

DeliveredAssumption ==
  \E n \in 0..MaxPosts :
    Delivered \in [1..n -> [sender : Accounts, place : Places]]

RequestsAssumption ==
  /\ Requests \subseteq RequestType /\ Nil \notin Requests
  /\ {MaxTargets, MaxLabels, Recents, MaxPosts, MaxComments, MaxRequests}
       \subseteq Nat

Members(p) == Creators[p] \cup keyholder[p]

Old == DOMAIN Delivered

(* The documents once every member has joined and AddPost has delivered    *)
(* each of the Delivered posts to one place.                               *)
Init ==
  LET started(p) == Creators[p] \cup Keyholders[p]
      notified == {m \in Accounts \X Places \X Old :
                     /\ m[2] = Delivered[m[3]].place
                     /\ m[1] \in started(m[2]) \ {Delivered[m[3]].sender}}
  IN /\ post = [i \in PostIds |->
                  IF i \notin Old THEN Nil
                  ELSE [sender |-> Delivered[i].sender,
                        places |-> {Delivered[i].place}, removed |-> FALSE,
                        in |-> "posts", comments |-> 0, recent |-> {},
                        labels |-> {}, nLabels |-> 0]]
     /\ comment = [c \in CommentIds |-> Nil]
     /\ mark = notified
     /\ unread = [u \in Accounts \X Places |->
                    IF u[1] \in started(u[2])
                      THEN Cardinality({m \in notified :
                                          m[1] = u[1] /\ m[2] = u[2]})
                      ELSE Nil]
     /\ reader = {}
     /\ watcher = [i \in PostIds |->
                     {a \in Accounts : i \in Old /\ a = Delivered[i].sender
                                         /\ a \in started(Delivered[i].place)}]
     /\ pinned = {}
     /\ keyholder = Keyholders
     /\ nPosts = [p \in Places |->
                    Cardinality({i \in Old : Delivered[i].place = p})]
     /\ labelled = [l \in Labels |-> 0]
     /\ cache = [i \in PostIds |-> Nil]
     /\ script = [w \in Workers |-> <<>>]
     /\ copy = [w \in Workers |-> Nil]
     /\ served = 0

Made == {i \in PostIds : post[i] # Nil}
Written == {c \in CommentIds : comment[c] # Nil}

(* Ids grow with the time of their creation.                               *)
NextId(ids) == Cardinality(ids) + 1

-----------------------------------------------------------------------------
(* Rights, as the handlers check them on a copy c of the post.             *)

(* Post.HasAccess and Place.HasReadAccess: a member of one of the places.  *)
HasAccess(a, c) == \E p \in c.places : a \in Members(p)

(* Place.HasWriteAccess and GetAccess: members, as the places' policy lets *)
(* everyone add posts; GetAccess also gives creators RM and C.             *)
MayWrite(a, p) == a \in Members(p) \/ p \in Open

-----------------------------------------------------------------------------
(* Commands: what to do, with which post, in which place or the like, and  *)
(* the account it is done for, or the amount it changes a counter by.      *)

Command(do, i, arg, by) == [do |-> do, post |-> i, arg |-> arg, by |-> by]

Get(i) == Command("get", i, Nil, Nil)
Del(i) == Command("del", i, Nil, Nil)

Ready(w, do) == script[w] # <<>> /\ Head(script[w]).do = do

Now(w) == Head(script[w])
Become(w, s) == script' = [script EXCEPT ![w] = s \o Tail(@)]
Proceed(w) == Become(w, <<>>)
Return(w) == script' = [script EXCEPT ![w] = <<>>]

(* PostManager.MarkAsRead reads the post again; Post.MarkAsRead, of the    *)
(* two handlers that read a post, has it.                                  *)
MarkAsRead(i, a) == <<Command("read", i, Nil, a)>>

(* Mutant: Remove leaves the counters of those who had not read the post.  *)
TakeUntallied(i, p) ==
  <<Get(i), Command("take", i, p, Nil), Command("count", i, {p}, -1),
    Command("unmark", i, p, Nil), Del(i)>>

(* Remove: its deferred DEL comes also after an early return.              *)
TakeFrom(i, p) ==
  <<Get(i), Command("take", i, p, Nil), Command("count", i, {p}, -1),
    Command("tally", i, p, Nil), Command("unmark", i, p, Nil), Del(i)>>

(* Mutant: the new place of a moved post is not counted.                   *)
MoveUncounted(i, old, new) ==
  <<Command("enter", i, new, Nil), Command("exit", i, old, Nil),
    Command("count", i, {old}, -1),
    Command("tally", i, old, Nil), Command("unmark", i, old, Nil), Del(i)>>

(* Mutant: the old place first, as Move's comment warns.                   *)
MoveExitsFirst(i, old, new) ==
  <<Command("exit", i, old, Nil), Command("enter", i, new, Nil),
    Command("count", i, {new}, 1), Command("count", i, {old}, -1),
    Command("tally", i, old, Nil), Command("unmark", i, old, Nil), Del(i)>>

Move(i, old, new) ==
  <<Command("enter", i, new, Nil), Command("exit", i, old, Nil),
    Command("count", i, {new}, 1), Command("count", i, {old}, -1),
    Command("tally", i, old, Nil), Command("unmark", i, old, Nil), Del(i)>>

AttachPlace(i, p) ==
  <<Command("enter", i, p, Nil), Command("count", i, {p}, 1),
    Command("watch", i, p, Nil), Del(i)>>

-----------------------------------------------------------------------------
(* Requests.                                                               *)

Arrives(w, r) ==
  /\ script[w] = <<>>
  /\ served < MaxRequests
  /\ served' = served + 1

Starts(w, r, calls) ==
  /\ Arrives(w, r)
  /\ script' = [script EXCEPT ![w] = calls]

(* A handler with a post: the arguments are read, then it decides.         *)
Receive(w, r) ==
  /\ r.op \in {"read", "mark_as_read", "edit", "attach_place", "move",
               "remove", "retract", "add_comment", "remove_comment",
               "add_label", "remove_label", "set_notification", "bookmarks"}
  /\ r.op = "add_comment" =>
       Cardinality(Written) + Cardinality({v \in Workers : script[v] # <<>>})
         < MaxComments
  /\ Starts(w, r, <<Get(r.post), Command("decide", r.post, r, r.who)>>)
  /\ UNCHANGED <<docs, reads, people, counts, cache, copy>>

(* createPost: targets without write access are left out, and who can read *)
(* none of the targets gets the post in his personal place too.  Mail      *)
(* (lmtp/store.go) is delivered to the places it names.  AddPost inserts   *)
(* the post, as spam if it scored so, and nothing else follows for spam.   *)
Targets(r) ==
  LET writable == {p \in r.at : MayWrite(r.who, p)}
      reading == \E p \in r.at : r.who \in Members(p)
  IN IF r.op = "mail" THEN r.at
     ELSE IF writable = {} THEN {}
     ELSE writable \cup (IF reading THEN {} ELSE {Home[r.who]})

NewPost(r) ==
  [sender |-> r.who, places |-> Targets(r), removed |-> FALSE,
   in |-> IF r.op = "mail" /\ r.on THEN "spams" ELSE "posts",
   comments |-> 0, recent |-> {}, labels |-> {}, nLabels |-> 0]

(* postProcess, then createPost's labels.                                  *)
Deliver(i, r) ==
  <<Command("count", i, Targets(r), 1), Command("announce", i, Targets(r), Nil)>>
    \o (IF r.op = "add" /\ r.item \in Labels /\ r.who \in LabelUsers[r.item]
          THEN <<Command("label", i, r.item, 1), Command("mention", i, r.item, 1),
                 Del(i)>>
          ELSE <<>>)

AddPost(w, r) ==
  LET i == NextId(Made)
      accepted == Targets(r) # {} /\ Cardinality(Targets(r)) <= MaxTargets
  IN /\ r.op \in {"add", "mail"}
     /\ i \in PostIds
     /\ Starts(w, r, IF accepted /\ NewPost(r).in = "posts"
                       THEN Deliver(i, r) ELSE <<>>)
     /\ post' = IF accepted THEN [post EXCEPT ![i] = NewPost(r)] ELSE post
     /\ UNCHANGED <<comment, reads, people, counts, cache, copy>>

(* notSpam: the post is removed from the spam, then inserted among the     *)
(* posts; postProcess is not called.                                       *)
NotSpam(w, r) ==
  /\ r.op = "not_spam"
  /\ post[r.post] # Nil /\ post[r.post].in = "spams"
  /\ HasAccess(r.who, post[r.post])
  /\ Starts(w, r, <<Command("insert", r.post, Nil, Nil)>>)
  /\ post' = [post EXCEPT ![r.post].in = "none"]
  /\ UNCHANGED <<comment, reads, people, counts, cache, copy>>

(* place/mark_all_read, which asks for no right.                           *)
MarkAllRead(w, r) ==
  /\ r.op = "mark_all_read"
  /\ \E p \in r.at :
       Starts(w, r, <<Command("unmark_all", 1, p, r.who),
                      Command("zero", 1, p, r.who)>>)
  /\ UNCHANGED <<docs, reads, people, counts, cache, copy>>

(* place/remove_all_posts: RemoveByPlaceID, which leaves the read marks    *)
(* and the cached posts.                                                   *)
RemoveAllPosts(w, r) ==
  /\ r.op = "remove_all_posts"
  /\ \E p \in r.at :
       /\ r.who \in Creators[p]
       /\ Starts(w, r, <<Command("empty", 1, p, Nil),
                         Command("uncount", 1, p, Nil),
                         Command("negate", 1, p, Nil)>>)
  /\ UNCHANGED <<docs, reads, people, counts, cache, copy>>

(* What AddKeyHolder and RemoveKeyHolder do to marks and counters.         *)
Join(w, r) ==
  /\ r.op = "join"
  /\ \E p \in r.at :
       /\ r.who \notin Members(p)
       /\ Starts(w, r, <<Command("weigh", 1, p, r.who)>>)
       /\ keyholder' = [keyholder EXCEPT ![p] = @ \cup {r.who}]
  /\ UNCHANGED <<docs, reads, watcher, pinned, counts, cache, copy>>

Leave(w, r) ==
  /\ r.op = "leave"
  /\ \E p \in r.at :
       /\ r.who \in keyholder[p]
       /\ Starts(w, r, <<Command("unmark_all", 1, p, r.who),
                         Command("forget", 1, p, r.who)>>)
       /\ keyholder' = [keyholder EXCEPT ![p] = @ \ {r.who}]
  /\ UNCHANGED <<docs, reads, watcher, pinned, counts, cache, copy>>

-----------------------------------------------------------------------------
(* Handlers that have read the post: what they call, or nothing.           *)

Handle(w, op, ok, calls) ==
  /\ Ready(w, "decide") /\ Now(w).arg.op = op
  /\ Become(w, IF ok THEN calls ELSE <<>>)
  /\ UNCHANGED <<docs, reads, people, counts, cache, copy, served>>

Asked(w) == Now(w).arg
One(S) == CHOOSE x \in S : TRUE
Accessible(w) == HasAccess(Asked(w).who, copy[w])

(* post/get with mark_as_read, and post/mark_as_read.  The sender has no   *)
(* mark to remove.                                                         *)
MarkPostAsRead(w) ==
  Handle(w, "mark_as_read",
         Accessible(w) /\ Asked(w).who # copy[w].sender,
         MarkAsRead(Asked(w).post, Asked(w).who))

(* post/get, and every other handler that only reads posts.                *)
GetPost(w) == Handle(w, "read", FALSE, <<>>)

(* post/edit, by the sender: texts are left out, the DEL is not.           *)
EditPost(w) ==
  Handle(w, "edit", Asked(w).who = copy[w].sender, <<Del(Asked(w).post)>>)

AttachPlaces(w) ==
  Handle(w, "attach_place",
         /\ Cardinality(copy[w].places) + Cardinality(Asked(w).at) <= MaxTargets
         /\ Accessible(w) /\ copy[w].sender = Asked(w).who,
         <<Command("attach", Asked(w).post, Asked(w).at, Asked(w).who)>>)

MovePost(w) ==
  LET old == One(Asked(w).at)  new == Asked(w).to
  IN Handle(w, "move",
            /\ old \in copy[w].places /\ new \notin copy[w].places
            /\ Asked(w).who \in Creators[old] \cap Creators[new],
            Move(Asked(w).post, old, new))

RemovePost(w) ==
  LET p == One(Asked(w).at)
  IN Handle(w, "remove", Asked(w).who \in Creators[p] \cup Admins,
            TakeFrom(Asked(w).post, p))

(* The sender removes it from every place, one after the other.            *)
RetractPost(w) ==
  Handle(w, "retract", Asked(w).who = copy[w].sender,
         <<Command("retract", Asked(w).post, copy[w].places, Nil)>>)

AddComment(w) ==
  Handle(w, "add_comment", Accessible(w),
         <<Command("comment", Asked(w).post, Nil, Asked(w).who)>>)

(* Within the retract time the sender removes a comment, removed or not;   *)
(* otherwise a creator of one of the post's places hides it.               *)
RemoveComment(w) ==
  LET c == Asked(w).item  mine == comment[c].sender = Asked(w).who
  IN Handle(w, "remove_comment",
            /\ c \in Written
            /\ \/ mine /\ Asked(w).on
               \/ \E p \in copy[w].places : Asked(w).who \in Creators[p],
            IF mine /\ Asked(w).on
              THEN <<Command("erase", comment[c].post, c, Nil),
                     Get(comment[c].post), Command("recall", comment[c].post, c, Nil),
                     Del(comment[c].post)>>
              ELSE <<Command("hide", comment[c].post, c, Nil)>>)

AddLabel(w) ==
  LET l == Asked(w).item
  IN Handle(w, "add_label",
            /\ Asked(w).who \in LabelUsers[l] /\ Accessible(w)
            /\ copy[w].nLabels < MaxLabels,
            <<Command("label", Asked(w).post, l, 1),
              Command("mention", Asked(w).post, l, 1), Del(Asked(w).post)>>)

RemoveLabel(w) ==
  LET l == Asked(w).item
  IN Handle(w, "remove_label",
            Asked(w).who \in LabelUsers[l] /\ Accessible(w),
            <<Command("label", Asked(w).post, l, -1),
              Command("mention", Asked(w).post, l, -1), Del(Asked(w).post)>>)

SetNotification(w) ==
  Handle(w, "set_notification", Accessible(w),
         <<Command(IF Asked(w).on THEN "watch" ELSE "unwatch",
                   Asked(w).post, Nil, Asked(w).who)>>)

(* post/add_to_bookmarks asks for access, post/remove_from_bookmarks not.  *)
Bookmark(w) ==
  Handle(w, "bookmarks", Asked(w).on => Accessible(w),
         <<Command(IF Asked(w).on THEN "pin" ELSE "unpin",
                   Asked(w).post, Nil, Asked(w).who)>>)

-----------------------------------------------------------------------------
(* The commands.                                                           *)

InPosts(i) == post[i] # Nil /\ post[i].in = "posts"

(* readFromCache, in one step; TaskService has the races of a fill with a  *)
(* removal.  Without a post the handler, or Remove, returns.               *)
ReadPost(w) ==
  /\ Ready(w, "get")
  /\ LET i == Now(w).post
         found == IF cache[i] # Nil THEN cache[i]
                  ELSE IF InPosts(i) THEN post[i] ELSE Nil
     IN /\ copy' = [copy EXCEPT ![w] = found]
        /\ cache' = [cache EXCEPT ![i] = found]
        /\ IF found = Nil THEN Return(w) ELSE Proceed(w)
  /\ UNCHANGED <<docs, reads, people, counts, served>>

(* removeCache.                                                            *)
DropPost(w) ==
  /\ Ready(w, "del")
  /\ cache' = [cache EXCEPT ![Now(w).post] = Nil]
  /\ Proceed(w)
  /\ UNCHANGED <<docs, reads, people, counts, copy, served>>

InsertPost(w) ==
  /\ Ready(w, "insert")
  /\ post' = [post EXCEPT ![Now(w).post].in = "posts"]
  /\ Proceed(w)
  /\ UNCHANGED <<comment, reads, people, counts, cache, copy, served>>

(* IncrementCounter of posts: an Update of one of the places it names.     *)
CountPosts(w) ==
  /\ Ready(w, "count")
  /\ \E p \in Now(w).arg : nPosts' = [nPosts EXCEPT ![p] = @ + Now(w).by]
  /\ Proceed(w)
  /\ UNCHANGED <<docs, reads, people, labelled, cache, copy, served>>

(* One place of postProcess: the sender watches the post, the other members*)
(* get a mark, then their counters are raised.                             *)
Announce(w) ==
  /\ Ready(w, "announce")
  /\ \E p \in Now(w).arg :
       LET i == Now(w).post  sender == post[i].sender
           rest == Now(w).arg \ {p}
       IN /\ watcher' = IF sender \in Members(p)
                          THEN [watcher EXCEPT ![i] = @ \cup {sender}]
                          ELSE watcher
          /\ mark' = mark \cup {<<a, p, i>> : a \in Members(p) \ {sender}}
          /\ Become(w, <<Command("raise", i, p, sender)>> \o
                       (IF rest = {} THEN <<>>
                        ELSE <<Command("announce", i, rest, Nil)>>))
  /\ UNCHANGED <<docs, unread, reader, pinned, keyholder, counts, cache, copy,
                 served>>

(* The accounts that have a counter of unread posts in a place.            *)
Counting(p) == {a \in Accounts : unread[a, p] # Nil}

RaiseUnread(w) ==
  /\ Ready(w, "raise")
  /\ LET p == Now(w).arg
     IN unread' = [u \in Accounts \X Places |->
                     IF u[2] = p /\ u[1] \in Counting(p) \ {Now(w).by}
                       THEN unread[u] + 1 ELSE unread[u]]
  /\ Proceed(w)
  /\ UNCHANGED <<docs, mark, reader, people, counts, cache, copy, served>>

(* MarkAsRead: the marks first; the counters only if there was one.        *)
ReadMarks(w) ==
  /\ Ready(w, "read")
  /\ LET i == Now(w).post  a == Now(w).by
         mine == {m \in mark : m[1] = a /\ m[3] = i}
     IN /\ mark' = mark \ mine
        /\ Become(w, <<Command("reader", i, Nil, a)>> \o
                     (IF mine = {} THEN <<>>
                      ELSE <<Command("lower", i, copy[w].places, a)>>))
  /\ UNCHANGED <<docs, unread, reader, people, counts, cache, copy, served>>

AddReader(w) ==
  /\ Ready(w, "reader")
  /\ reader' = reader \cup {<<Now(w).by, Now(w).post>>}
  /\ Proceed(w)
  /\ UNCHANGED <<docs, mark, unread, people, counts, cache, copy, served>>

(* The accounts' counters in the places, those above 0, lowered by one.    *)
Lowered(S, ps) ==
  [u \in Accounts \X Places |->
     IF u[1] \in S \cap Counting(u[2]) /\ u[2] \in ps /\ unread[u] > 0
       THEN unread[u] - 1 ELSE unread[u]]

LowerUnread(w) ==
  /\ Ready(w, "lower")
  /\ unread' = Lowered({Now(w).by}, Now(w).arg)
  /\ Proceed(w)
  /\ UNCHANGED <<docs, mark, reader, people, counts, cache, copy, served>>

(* Move and Remove: those with a mark of the post in the place, whose      *)
(* counters are then lowered one by one.                                   *)
TallyMarks(w) ==
  /\ Ready(w, "tally")
  /\ LET i == Now(w).post  p == Now(w).arg
         owners == {a \in Accounts : <<a, p, i>> \in mark}
     IN Become(w, SetToSeq({Command("lower", i, {p}, a) : a \in owners}))
  /\ UNCHANGED <<docs, reads, people, counts, cache, copy, served>>

UnmarkPost(w) ==
  /\ Ready(w, "unmark")
  /\ mark' = {m \in mark : ~(m[2] = Now(w).arg /\ m[3] = Now(w).post)}
  /\ Proceed(w)
  /\ UNCHANGED <<docs, unread, reader, people, counts, cache, copy, served>>

(* MarkAsReadByPlace; RemoveKeyHolder marks them read, which no query      *)
(* but those of the post asks for again.                                   *)
UnmarkAll(w) ==
  /\ Ready(w, "unmark_all")
  /\ mark' = {m \in mark : ~(m[1] = Now(w).by /\ m[2] = Now(w).arg)}
  /\ Proceed(w)
  /\ UNCHANGED <<docs, unread, reader, people, counts, cache, copy, served>>

ZeroUnread(w) ==
  /\ Ready(w, "zero")
  /\ LET a == Now(w).by  p == Now(w).arg
     IN unread' = IF a \in Counting(p) /\ unread[a, p] > 0
                    THEN [unread EXCEPT ![<<a, p>>] = 0] ELSE unread
  /\ Proceed(w)
  /\ UNCHANGED <<docs, mark, reader, people, counts, cache, copy, served>>

ForgetUnread(w) ==
  /\ Ready(w, "forget")
  /\ unread' = [unread EXCEPT ![<<Now(w).by, Now(w).arg>>] = Nil]
  /\ Proceed(w)
  /\ UNCHANGED <<docs, mark, reader, people, counts, cache, copy, served>>

MarksOf(a, p) == {m \in mark : m[1] = a /\ m[2] = p}

(* AddKeyHolder counts the marks, then upserts the counter.                *)
WeighMarks(w) ==
  /\ Ready(w, "weigh")
  /\ LET a == Now(w).by  p == Now(w).arg
     IN Become(w, <<Command("set", 1, <<a, p>>, Cardinality(MarksOf(a, p)))>>)
  /\ UNCHANGED <<docs, reads, people, counts, cache, copy, served>>

SetUnread(w) ==
  /\ Ready(w, "set")
  /\ unread' = [unread EXCEPT ![Now(w).arg] = Now(w).by]
  /\ Proceed(w)
  /\ UNCHANGED <<docs, mark, reader, people, counts, cache, copy, served>>

-----------------------------------------------------------------------------

ChangePost(w, i, doc) ==
  /\ post' = [post EXCEPT ![i] = doc]
  /\ UNCHANGED <<comment, reads, people, counts, cache, copy, served>>

(* Move and AttachPlace: $addToSet of the place, _removed: false.          *)
EnterPlace(w) ==
  /\ Ready(w, "enter")
  /\ LET i == Now(w).post
     IN ChangePost(w, i, [post[i] EXCEPT !.places = @ \cup {Now(w).arg},
                                         !.removed = FALSE])
  /\ Proceed(w)

ExitPlace(w) ==
  /\ Ready(w, "exit")
  /\ LET i == Now(w).post
     IN ChangePost(w, i, [post[i] EXCEPT !.places = @ \ {Now(w).arg}])
  /\ Proceed(w)

(* Remove: the post leaves the place, and is removed if the copy says that *)
(* it was the last.  Otherwise it fails, and retract stops.                *)
TakePost(w) ==
  /\ Ready(w, "take")
  /\ LET i == Now(w).post  p == Now(w).arg
     IN IF p \in copy[w].places
          THEN /\ ChangePost(w, i, [post[i] EXCEPT !.places = @ \ {p},
                               !.removed = @ \/ Cardinality(copy[w].places) = 1])
               /\ Proceed(w)
          ELSE /\ ChangePost(w, i, post[i])
               /\ script' = [script EXCEPT ![w] = <<Del(i)>>]

RetractNext(w) ==
  /\ Ready(w, "retract")
  /\ LET i == Now(w).post  ps == Now(w).arg
     IN IF ps = {} THEN Proceed(w)
        ELSE \E p \in ps :
               Become(w, TakeFrom(i, p) \o
                         <<Command("retract", i, ps \ {p}, Nil)>>)
  /\ UNCHANGED <<docs, reads, people, counts, cache, copy, served>>

(* attachPlace's loop over the places asked for.                           *)
AttachNext(w) ==
  /\ Ready(w, "attach")
  /\ LET i == Now(w).post  ps == Now(w).arg  a == Now(w).by
     IN IF ps = {} THEN Proceed(w)
        ELSE \E p \in ps :
               Become(w, (IF p \notin copy[w].places /\ MayWrite(a, p)
                            THEN AttachPlace(i, p) ELSE <<>>) \o
                         <<Command("attach", i, ps \ {p}, a)>>)
  /\ UNCHANGED <<docs, reads, people, counts, cache, copy, served>>

(* RemoveByPlaceID: every post of the place, then the place's counter, and *)
(* every counter of unread posts above 0, set to -1.                       *)
EmptyPlace(w) ==
  /\ Ready(w, "empty")
  /\ post' = [i \in PostIds |->
                IF InPosts(i)
                  THEN [post[i] EXCEPT !.places = @ \ {Now(w).arg}]
                  ELSE post[i]]
  /\ Proceed(w)
  /\ UNCHANGED <<comment, reads, people, counts, cache, copy, served>>

UncountPlace(w) ==
  /\ Ready(w, "uncount")
  /\ nPosts' = [nPosts EXCEPT ![Now(w).arg] = 0]
  /\ Proceed(w)
  /\ UNCHANGED <<docs, reads, people, labelled, cache, copy, served>>

NegateUnread(w) ==
  /\ Ready(w, "negate")
  /\ LET p == Now(w).arg
     IN unread' = [u \in Accounts \X Places |->
                     IF u[2] = p /\ u[1] \in Counting(p) /\ unread[u] > 0
                       THEN -1 ELSE unread[u]]
  /\ Proceed(w)
  /\ UNCHANGED <<docs, mark, reader, people, counts, cache, copy, served>>

(* Watchers: an account, or the sender if the attached place is his.       *)
WatchPost(w) ==
  /\ Ready(w, "watch")
  /\ LET i == Now(w).post  sender == post[i].sender
         who == IF Now(w).arg = Nil THEN {Now(w).by}
                ELSE IF sender \in Members(Now(w).arg) THEN {sender} ELSE {}
     IN watcher' = [watcher EXCEPT ![i] = @ \cup who]
  /\ Proceed(w)
  /\ UNCHANGED <<docs, reads, pinned, keyholder, counts, cache, copy, served>>

UnwatchPost(w) ==
  /\ Ready(w, "unwatch")
  /\ watcher' = [watcher EXCEPT ![Now(w).post] = @ \ {Now(w).by}]
  /\ Proceed(w)
  /\ UNCHANGED <<docs, reads, pinned, keyholder, counts, cache, copy, served>>

PinPost(w) ==
  /\ Ready(w, "pin") \/ Ready(w, "unpin")
  /\ LET x == {<<Now(w).by, Now(w).post>>}
     IN pinned' = IF Now(w).do = "pin" THEN pinned \cup x ELSE pinned \ x
  /\ Proceed(w)
  /\ UNCHANGED <<docs, reads, watcher, keyholder, counts, cache, copy, served>>

LabelPost(w) ==
  /\ Ready(w, "label")
  /\ LET i == Now(w).post  l == Now(w).arg
     IN ChangePost(w, i, [post[i] EXCEPT
          !.labels = IF Now(w).by > 0 THEN @ \cup {l} ELSE @ \ {l},
          !.nLabels = @ + Now(w).by])
  /\ Proceed(w)

(* LabelManager.IncrementCounter of the label's posts.                     *)
CountLabel(w) ==
  /\ Ready(w, "mention")
  /\ labelled' = [labelled EXCEPT ![Now(w).arg] = @ + Now(w).by]
  /\ Proceed(w)
  /\ UNCHANGED <<docs, reads, people, nPosts, cache, copy, served>>

-----------------------------------------------------------------------------
(* Comments.                                                               *)

Latest(S) == {c \in S : Cardinality({d \in S : d > c}) < Recents}

(* AddComment: the comment, the post, then a read of the post for its      *)
(* watchers, and the read marks of whoever did not send the post.          *)
InsertComment(w) ==
  /\ Ready(w, "comment")
  /\ LET i == Now(w).post  a == Now(w).by  c == NextId(Written)
     IN /\ comment' = [comment EXCEPT ![c] = [post |-> i, sender |-> a,
                                       removed |-> FALSE, hidden |-> FALSE]]
        /\ Become(w, <<Command("push", i, c, Nil), Get(i),
                       Command("watch", i, Nil, a), Del(i)>> \o
                     (IF copy[w].sender = a THEN <<>>
                      ELSE <<Get(i)>> \o MarkAsRead(i, a)))
  /\ UNCHANGED <<post, reads, people, counts, cache, copy, served>>

PushComment(w) ==
  /\ Ready(w, "push")
  /\ LET i == Now(w).post
     IN ChangePost(w, i, [post[i] EXCEPT !.comments = @ + 1,
                          !.recent = Latest(@ \cup {Now(w).arg})])
  /\ Proceed(w)

EraseComment(w) ==
  /\ Ready(w, "erase")
  /\ comment' = [comment EXCEPT ![Now(w).arg].removed = TRUE]
  /\ Proceed(w)
  /\ UNCHANGED <<post, reads, people, counts, cache, copy, served>>

(* HideComment: only once, and the cached post stays.                      *)
HideComment(w) ==
  /\ Ready(w, "hide")
  /\ LET i == Now(w).post  c == Now(w).arg
     IN IF comment[c].hidden
          THEN Return(w) /\ UNCHANGED comment
          ELSE /\ comment' = [comment EXCEPT ![c].hidden = TRUE]
               /\ Become(w, <<Command("recall", i, c, Nil)>>)
  /\ UNCHANGED <<post, reads, people, counts, cache, copy, served>>

(* Mutant: the find leaves out _removed: false.                            *)
RecallAll(w) ==
  /\ Ready(w, "recall")
  /\ LET i == Now(w).post
         found == Latest({c \in Written : comment[c].post = i})
     IN Become(w, <<Command("recent", i, found, Nil)>>)
  /\ UNCHANGED <<docs, reads, people, counts, cache, copy, served>>

(* The latest comments not removed; a hidden comment has lost its text.    *)
RecallComments(w) ==
  /\ Ready(w, "recall")
  /\ LET i == Now(w).post
         found == Latest({c \in Written : comment[c].post = i
                                          /\ ~comment[c].removed})
     IN Become(w, <<Command("recent", i, found, Nil)>>)
  /\ UNCHANGED <<docs, reads, people, counts, cache, copy, served>>

SetRecent(w) ==
  /\ Ready(w, "recent")
  /\ LET i == Now(w).post
     IN ChangePost(w, i, [post[i] EXCEPT !.comments = @ - 1,
                                         !.recent = Now(w).arg])
  /\ Proceed(w)

-----------------------------------------------------------------------------

(* Every request of the bound is served, or no more posts fit the bounds:  *)
(* the model stops, not the server.                                        *)
Quiet == \A w \in Workers : script[w] = <<>>
Stop == Quiet /\ UNCHANGED vars

Serve(w) ==
  \E r \in Requests :
    \/ Receive(w, r) \/ AddPost(w, r) \/ NotSpam(w, r) \/ MarkAllRead(w, r)
    \/ RemoveAllPosts(w, r) \/ Join(w, r) \/ Leave(w, r)

Decide(w) ==
  \/ MarkPostAsRead(w) \/ GetPost(w) \/ EditPost(w) \/ AttachPlaces(w)
  \/ MovePost(w) \/ RemovePost(w) \/ RetractPost(w) \/ AddComment(w)
  \/ RemoveComment(w) \/ AddLabel(w) \/ RemoveLabel(w) \/ SetNotification(w)
  \/ Bookmark(w)

Run(w) ==
  \/ ReadPost(w) \/ DropPost(w) \/ InsertPost(w) \/ CountPosts(w)
  \/ Announce(w) \/ RaiseUnread(w) \/ ReadMarks(w) \/ AddReader(w)
  \/ LowerUnread(w) \/ TallyMarks(w) \/ UnmarkPost(w) \/ UnmarkAll(w)
  \/ ZeroUnread(w) \/ ForgetUnread(w) \/ WeighMarks(w) \/ SetUnread(w)
  \/ EnterPlace(w) \/ ExitPlace(w) \/ TakePost(w) \/ RetractNext(w)
  \/ AttachNext(w) \/ EmptyPlace(w) \/ UncountPlace(w) \/ NegateUnread(w)
  \/ WatchPost(w) \/ UnwatchPost(w) \/ PinPost(w) \/ LabelPost(w)
  \/ CountLabel(w) \/ InsertComment(w) \/ PushComment(w) \/ EraseComment(w)
  \/ HideComment(w) \/ RecallComments(w) \/ SetRecent(w)

Next == \E w \in Workers : Serve(w) \/ Decide(w) \/ Run(w)

Spec == Init /\ [][Next \/ Stop]_vars

-----------------------------------------------------------------------------
(* Properties.                                                             *)

TypeOK ==
  /\ post \in [PostIds -> PostDocs \cup {Nil}]
  /\ comment \in [CommentIds -> CommentDocs \cup {Nil}]
  /\ mark \subseteq Accounts \X Places \X PostIds
  /\ unread \in [Accounts \X Places -> Int \cup {Nil}]
  /\ reader \cup pinned \subseteq Accounts \X PostIds
  /\ watcher \in [PostIds -> SUBSET Accounts]
  /\ keyholder \in [Places -> SUBSET Accounts]
  /\ nPosts \in [Places -> Int] /\ labelled \in [Labels -> Int]
  /\ {cache[i] : i \in PostIds} \cup {copy[w] : w \in Workers}
       \subseteq PostDocs \cup {Nil}

(* Requests after which the code's counters are known to be too low: posts *)
(* in several places, mail taken out of the spam, and remove_all_posts.    *)
Plain == \A r \in Requests : r.op \notin {"attach_place", "not_spam",
                                          "remove_all_posts"}
                             /\ (r.op = "add" => Cardinality(Targets(r)) <= 1)

(* The number of unread posts an account is shown for a place is never more*)
(* than those it has not read, through deliveries, reads, moves, removals, *)
(* and members who come and go; and it is exactly that number as long as   *)
(* posts are in one place each and no place is emptied at once.            *)
UnreadCounted ==
  Quiet => \A p \in Places : \A a \in Counting(p) :
             /\ unread[a, p] <= Cardinality(MarksOf(a, p))
             /\ Plain => unread[a, p] = Cardinality(MarksOf(a, p))

(* A place never counts more posts than it has, and counts exactly those   *)
(* under the same conditions.                                              *)
PostsCounted ==
  Quiet => \A p \in Places :
             LET here == {i \in PostIds : InPosts(i) /\ p \in post[i].places}
             IN /\ nPosts[p] <= Cardinality(here)
                /\ Plain => nPosts[p] = Cardinality(here)

(* The comments shown with a post are the latest of those not removed.     *)
RecentShown ==
  Quiet => \A i \in Made :
             post[i].recent = Latest({c \in Written :
                                comment[c].post = i /\ ~comment[c].removed})

(* A post is marked removed only in no place at all, and, but for          *)
(* remove_all_posts, a post in no place is marked removed, at every        *)
(* command: a server that stops half way through a move, a retraction or   *)
(* a removal leaves no post that nobody can find.                          *)
PostReachable ==
  \A i \in Made :
    /\ post[i].removed => post[i].places = {}
    /\ (\A r \in Requests : r.op # "remove_all_posts")
         => (post[i].places = {} => post[i].removed)
=============================================================================
