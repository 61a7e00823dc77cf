------------------------------ MODULE MC_Content ------------------------------
(***************************************************************************)
(* Instances for TLC of posts, labels, files, notifications, accounts,     *)
(* sockets and reports.  The components share no state: `part' says which  *)
(* of them a behaviour is about, and the state of the others is absent.    *)
(* One run explores them all.  The scripts and copies of the workers have  *)
(* the same names in every component and so are declared once.  Components *)
(* are instantiated with their theorems, which ContentProofs carries over. *)
(***************************************************************************)
EXTENDS Integers, FiniteSets, Sequences, TLC

CONSTANTS
  ann, bob, work, team, homeA, homeB, tag, red, stranger, everyone, talk,
  chore, todo, joe, pic, voice, doc, Nil, w1, w2, Servers, Counters,
  MaxCounts, MaxFlushes

VARIABLES
  part, script, copy, served, post, comment, mark, unread, reader, watcher,
  pinned, keyholder, nPosts, labelled, cache, label, listing, asked, tagged,
  ids, file, owned, attached, voiced, seen, tokens, fetched, crashes, notice,
  counters, watching, readers, owed, account, cached, keys, totals, owner,
  home, verification, guesses, token, fields, accounts, holder, device,
  socket, restarts, overtaken, counter, report, step, values, left, flushes,
  counted, lost, apart

Accounts == {ann, bob}

-----------------------------------------------------------------------------
(* Posts: a place of two, ann's and bob's, another of ann, their personal  *)
(* places, and a post of ann that waits for bob, who is an administrator.  *)

Ask(op, who, at, item, on) ==
  [op |-> op, who |-> who, post |-> 1, at |-> at, to |-> team, item |-> item,
   on |-> on]

(* One worker: posts in one place each, that is, all that keeps the        *)
(* counters exact.                                                         *)
OnePlace ==
  {Ask("add", bob, {work}, Nil, FALSE),
   Ask("mail", stranger, {work}, Nil, FALSE),
   Ask("mark_as_read", bob, {}, Nil, FALSE),
   Ask("move", ann, {work}, Nil, FALSE),
   Ask("remove", ann, {work}, Nil, FALSE),
   Ask("remove", ann, {team}, Nil, FALSE),
   Ask("retract", ann, {}, Nil, FALSE),
   Ask("add_comment", bob, {}, Nil, FALSE),
   Ask("remove_comment", bob, {}, 1, FALSE),
   Ask("leave", bob, {work}, Nil, FALSE),
   Ask("join", bob, {team}, Nil, FALSE),
   Ask("join", bob, {work}, Nil, FALSE),
   Ask("mark_all_read", bob, {work}, Nil, FALSE)}

(* One worker: every operation.                                            *)
Everything ==
  {Ask("add", ann, {work, team}, tag, FALSE),
   Ask("mail", stranger, {work}, Nil, TRUE),
   [Ask("not_spam", ann, {}, Nil, FALSE) EXCEPT !.post = 2],
   Ask("read", bob, {}, Nil, FALSE),
   Ask("mark_as_read", bob, {}, Nil, FALSE),
   Ask("edit", ann, {}, Nil, FALSE),
   Ask("attach_place", ann, {team}, Nil, FALSE),
   Ask("move", ann, {work}, Nil, FALSE),
   Ask("remove", ann, {work}, Nil, FALSE),
   Ask("remove", bob, {work}, Nil, FALSE),
   Ask("retract", ann, {}, Nil, FALSE),
   Ask("add_comment", bob, {}, Nil, FALSE),
   Ask("add_comment", ann, {}, Nil, FALSE),
   Ask("remove_comment", bob, {}, 1, TRUE),
   Ask("remove_comment", ann, {}, 1, FALSE),
   Ask("add_label", ann, {}, tag, FALSE),
   Ask("remove_label", ann, {}, tag, FALSE),
   Ask("set_notification", bob, {}, Nil, TRUE),
   Ask("set_notification", bob, {}, Nil, FALSE),
   Ask("bookmarks", bob, {}, Nil, TRUE),
   Ask("bookmarks", bob, {}, Nil, FALSE),
   Ask("remove_all_posts", ann, {work}, Nil, FALSE)}

(* Two workers: readers and writers of one post.                           *)
Racing ==
  {Ask("mark_as_read", bob, {}, Nil, FALSE),
   Ask("add_comment", bob, {}, Nil, FALSE),
   Ask("add_comment", ann, {}, Nil, FALSE),
   Ask("edit", ann, {}, Nil, FALSE),
   Ask("add_label", ann, {}, tag, FALSE),
   Ask("set_notification", bob, {}, Nil, FALSE)}

Homes == ann :> homeA @@ bob :> homeB
Founders == work :> {ann} @@ team :> {ann} @@ homeA :> {ann} @@ homeB :> {bob}
Members == work :> {bob} @@ team :> {} @@ homeA :> {} @@ homeB :> {}
Letter == <<[sender |-> ann, place |-> work]>>

Places == {work, team, homeA, homeB}
PostLabels == {tag}
TagUsers == tag :> {ann}

AllPosts == INSTANCE Posts WITH
  Home <- Homes, Creators <- Founders, Keyholders <- Members, Open <- {},
  Admins <- {bob}, Stranger <- stranger, Delivered <- Letter,
  Labels <- PostLabels, LabelUsers <- TagUsers, MaxTargets <- 2,
  MaxLabels <- 2, Recents <- 2, MaxPosts <- 2, MaxComments <- 3,
  Workers <- {w1}, Requests <- Everything, MaxRequests <- 3

PlainPosts == INSTANCE Posts WITH
  Home <- Homes, Creators <- Founders, Keyholders <- Members, Open <- {},
  Admins <- {bob}, Stranger <- stranger, Delivered <- Letter,
  Labels <- PostLabels, LabelUsers <- TagUsers, MaxTargets <- 2,
  MaxLabels <- 2, Recents <- 2, MaxPosts <- 2, MaxComments <- 3,
  Workers <- {w1}, Requests <- OnePlace, MaxRequests <- 4

RacingPosts == INSTANCE Posts WITH
  Home <- Homes, Creators <- Founders, Keyholders <- Members, Open <- {},
  Admins <- {bob}, Stranger <- stranger, Delivered <- Letter,
  Labels <- PostLabels, LabelUsers <- TagUsers, MaxTargets <- 2,
  MaxLabels <- 2, Recents <- 2, MaxPosts <- 2, MaxComments <- 3,
  Workers <- {w1, w2}, Requests <- Racing, MaxRequests <- 3

-----------------------------------------------------------------------------
(* Labels: ann is an editor, bob asks, also for a title that may be used.  *)

About(op, who, id, item, public) ==
  [op |-> op, who |-> who, id |-> id, item |-> item, public |-> public]

OnLabels ==
  {About("create", ann, Nil, red, TRUE), About("create", ann, Nil, tag, FALSE),
   About("create_req", bob, Nil, red, FALSE),
   About("create_req", bob, 1, tag, FALSE),
   About("create_req", bob, 1, Nil, FALSE),
   About("approve", ann, 1, Nil, FALSE), About("reject", ann, 1, Nil, FALSE),
   About("remove_req", bob, 1, Nil, FALSE),
   About("add_member", ann, 1, {ann, bob}, FALSE),
   About("remove_member", ann, 1, bob, FALSE),
   About("update", ann, 1, tag, FALSE),
   About("tag", bob, 1, Nil, FALSE), About("remove", ann, 1, Nil, FALSE)}

Membership ==
  {About("create", ann, Nil, red, FALSE),
   About("add_member", ann, 1, {ann, bob}, FALSE),
   About("add_member", ann, 1, {bob}, FALSE),
   About("remove_member", ann, 1, bob, FALSE),
   About("remove", ann, 1, Nil, FALSE)}

AllLabels == INSTANCE LabelsProofs WITH
  Public <- everyone, Editors <- {ann}, Enabled <- Accounts,
  Titles <- {red, tag}, MaxMembers <- 2, MaxLabels <- 2, MaxAsked <- 1,
  Workers <- {w1}, Requests <- OnLabels, MaxRequests <- 5

RacingLabels == INSTANCE LabelsProofs WITH
  Public <- everyone, Editors <- {ann}, Enabled <- Accounts,
  Titles <- {red, tag}, MaxMembers <- 2, MaxLabels <- 2, MaxAsked <- 1,
  Workers <- {w1, w2}, Requests <- Membership, MaxRequests <- 4

-----------------------------------------------------------------------------
(* Files: a picture, a voice and a document, a post of both accounts' and *)
(* a task of ann's.                                                        *)

FileReaders == talk :> {ann, bob} @@ chore :> {ann}

On(op, who, at, files) == [op |-> op, who |-> who, at |-> at, files |-> files]

OnFiles ==
  {On("upload", ann, Nil, {pic, voice, doc}), On("upload", ann, Nil, {doc}),
   On("get", bob, Nil, {doc}),
   On("add_post", ann, talk, {pic, doc}), On("add_comment", bob, talk, {voice}),
   On("remove_comment", bob, 1, {}), On("create_task", ann, chore, {doc}),
   On("add_attachment", ann, chore, {voice, doc}),
   On("remove_attachment", ann, chore, {doc}),
   On("get_token", bob, talk, {doc}), On("get_token", bob, talk, {voice}),
   On("download", bob, Nil, {doc}), On("public", bob, Nil, {pic}),
   On("doctor", ann, Nil, {})}

Attaching ==
  {On("upload", ann, Nil, {voice, doc}), On("create_task", ann, chore, {}),
   On("add_post", ann, talk, {voice, doc}),
   On("add_comment", bob, talk, {voice}),
   On("add_attachment", ann, chore, {voice, doc}),
   On("add_attachment", ann, chore, {doc}),
   On("remove_attachment", ann, chore, {doc}),
   On("remove_attachment", ann, chore, {voice, doc})}

AllFiles == INSTANCE FilesProofs WITH
  FileIds <- {pic, voice, doc}, Pictures <- {pic}, Voices <- {voice},
  Tasks <- {chore}, Readers <- FileReaders, Posts <- {talk}, Workers <- {w1},
  Requests <- OnFiles, MaxComments <- 2, MaxRequests <- 5, MaxCrashes <- 0

RacingFiles == INSTANCE FilesProofs WITH
  FileIds <- {pic, voice, doc}, Pictures <- {pic}, Voices <- {voice},
  Tasks <- {chore}, Readers <- FileReaders, Posts <- {talk},
  Workers <- {w1, w2}, Requests <- Attaching, MaxComments <- 1,
  MaxRequests <- 4, MaxCrashes <- 1

-----------------------------------------------------------------------------
(* Notifications: a post and a task that ann and bob follow, and a place of *)
(* theirs.                                                                 *)

Event(op, who, item, to, n) ==
  [op |-> op, who |-> who, item |-> item, to |-> to, n |-> n]

OnNotices ==
  {Event("comment", ann, talk, {}, 0), Event("comment", bob, talk, {ann}, 0),
   Event("task_comment", ann, chore, {}, 0),
   Event("task_comment", bob, chore, {ann}, 0),
   Event("settings", ann, team, {}, 0), Event("assigned", ann, chore, {}, 0),
   Event("assigned", ann, todo, {}, 0), Event("decided", bob, chore, {}, 0),
   Event("state", ann, todo, {}, 0), Event("added", ann, chore, Accounts, 0),
   Event("joined", ann, team, {bob}, 0), Event("read_all", bob, Nil, {}, 0),
   Event("read", ann, Nil, {}, 1), Event("read_post", bob, talk, {}, 0),
   Event("remove", bob, Nil, {}, 1), Event("reset", ann, Nil, {}, 0),
   Event("leave", ann, talk, {}, 0)}

Commenting ==
  {Event("comment", ann, talk, {}, 0), Event("comment", bob, talk, {ann}, 0),
   Event("comment", joe, talk, {}, 0), Event("read_post", bob, talk, {}, 0),
   Event("remove", ann, Nil, {}, 1)}

AllNotices == INSTANCE NotificationsProofs WITH
  Posts <- {talk}, Watchers <- talk :> {ann, bob}, Tasks <- {chore, todo},
  Assignor <- chore :> ann @@ todo :> ann,
  Assignee <- chore :> bob @@ todo :> ann,
  TaskReaders <- chore :> {ann, bob} @@ todo :> {ann}, Places <- {team},
  Creators <- team :> {ann, bob}, MaxNotices <- 4, Workers <- {w1},
  Requests <- OnNotices, MaxRequests <- 3

RacingNotices == INSTANCE NotificationsProofs WITH
  Posts <- {talk}, Watchers <- talk :> {ann, bob}, Tasks <- {chore, todo},
  Assignor <- chore :> ann @@ todo :> ann,
  Assignee <- chore :> bob @@ todo :> ann,
  TaskReaders <- chore :> {ann, bob} @@ todo :> {ann}, Places <- {team},
  Creators <- team :> {ann, bob}, MaxNotices <- 4,
  Accounts <- {ann, bob, joe}, Workers <- {w1, w2}, Requests <- Commenting,
  MaxRequests <- 3

-----------------------------------------------------------------------------
(* Accounts: ann has one, bob's is disabled, joe is to have one.  Each has  *)
(* a phone of its own, bob's being the magic number.                       *)

To(op, who, vid, right, phone, new) ==
  [op |-> op, who |-> who, vid |-> vid, right |-> right, phone |-> phone,
   email |-> Nil, pass |-> red, new |-> new, key |-> Nil]

Wrong(op, who) == [To(op, who, 0, TRUE, Nil, tag) EXCEPT !.pass = tag]
WithKey(op, key) == [To(op, ann, 0, TRUE, Nil, red) EXCEPT !.key = key]
WithEmail(r) == [r EXCEPT !.email = everyone]

OnAccounts ==
  {To("get_verification", Nil, 0, TRUE, homeB, red),
   To("get_verification", ann, 0, TRUE, Nil, red),
   To("verify_code", Nil, 1, TRUE, Nil, red),
   To("send_text", Nil, 1, TRUE, Nil, red),
   To("recover_pass", Nil, 1, TRUE, Nil, tag),
   To("recover_username", Nil, 1, TRUE, Nil, red),
   To("register", joe, 1, TRUE, homeB, red),
   To("change_phone", ann, 1, TRUE, homeB, red),
   WithEmail(To("create", joe, 0, TRUE, homeB, red)),
   To("create", joe, 0, TRUE, work, red),
   WithEmail(To("update", ann, 0, TRUE, Nil, red)),
   To("by_token", joe, 0, TRUE, Nil, tag),
   To("enable", bob, 0, TRUE, Nil, red), To("disable", ann, 0, TRUE, Nil, red),
   To("set_pass", ann, 0, TRUE, Nil, tag),
   To("edit", ann, 0, TRUE, homeB, red),
   To("restrict", ann, 0, TRUE, Nil, red),
   To("permit", ann, 0, TRUE, Nil, red),
   To("set_password", ann, 0, TRUE, Nil, tag), Wrong("login", ann),
   To("login", ann, 0, TRUE, Nil, red),
   WithKey("save_key", talk), WithKey("save_key", todo),
   WithKey("remove_key", talk)}

Registering ==
  {To("create", joe, 0, TRUE, homeB, red), Wrong("login", ann),
   Wrong("set_password", ann), To("disable", ann, 0, TRUE, Nil, red),
   To("enable", ann, 0, TRUE, Nil, red), WithKey("save_key", talk),
   WithKey("remove_key", talk)}

Guessing ==
  {To("get_verification", Nil, 0, TRUE, homeB, red),
   To("verify_code", Nil, 1, FALSE, Nil, red),
   To("verify_code", Nil, 1, TRUE, Nil, red),
   To("send_text", Nil, 1, TRUE, Nil, red)}

PhoneOf == ann :> homeA @@ bob :> work

AllAccounts == INSTANCE AccountsProofs WITH
  Ids <- {ann, bob, joe}, Enabled <- {ann}, Disabled <- {bob},
  Phone <- PhoneOf, Phones <- {homeA, homeB, work}, Emails <- {everyone},
  Secrets <- {red, tag}, KeyNames <- {talk, todo}, First <- red,
  MagicNumber <- work, MaxUsers <- 2, MaxAttempts <- 3, MaxTexts <- 0,
  MaxVerifications <- 1, MaxKeys <- 1, MaxLogins <- 1, Workers <- {w1},
  Requests <- OnAccounts, MaxRequests <- 4

RacingAccounts == INSTANCE AccountsProofs WITH
  Ids <- {ann, bob, joe}, Enabled <- {ann}, Disabled <- {bob},
  Phone <- PhoneOf, Phones <- {homeA, homeB, work}, Emails <- {everyone},
  Secrets <- {red, tag}, KeyNames <- {talk, todo}, First <- red,
  MagicNumber <- work, MaxUsers <- 2, MaxAttempts <- 3, MaxTexts <- 0,
  MaxVerifications <- 1, MaxKeys <- 1, MaxLogins <- 0, Workers <- {w1, w2},
  Requests <- Registering, MaxRequests <- 3

Guesses == INSTANCE AccountsProofs WITH
  Ids <- {ann, bob, joe}, Enabled <- {ann}, Disabled <- {bob},
  Phone <- PhoneOf, Phones <- {homeA, homeB, work}, Emails <- {everyone},
  Secrets <- {red, tag}, KeyNames <- {talk, todo}, First <- red,
  MagicNumber <- work, MaxUsers <- 2, MaxAttempts <- 3, MaxTexts <- 0,
  MaxVerifications <- 1, MaxKeys <- 1, MaxLogins <- 1, Workers <- {w1, w2},
  Requests <- Guessing, MaxRequests <- 5

-----------------------------------------------------------------------------
(* Sockets: two gateways, three sockets, two devices; every request with a  *)
(* worker each, and connections of one gateway with two.  The id of talk   *)
(* begins with the id of team.                                             *)

By(op, who, at, on) == [op |-> op, who |-> who, at |-> at, on |-> on]

OnSockets ==
  {By("connect", Nil, s, Nil) : s \in {homeA, homeB, work}}
    \cup {By("disconnect", Nil, s, Nil) : s \in {homeA, homeB, work}}
    \cup {By("login", ann, homeA, Nil), By("login", ann, homeB, pic),
          By("login", bob, homeB, voice), By("login", ann, work, pic),
          By("close", Nil, Nil, pic), By("sync", ann, Nil, Nil),
          By("sync", bob, Nil, Nil), By("notify", ann, Nil, Nil)}

Connecting ==
  {By("connect", Nil, s, Nil) : s \in {homeA, homeB}}
    \cup {By("disconnect", Nil, s, Nil) : s \in {homeA, homeB}}
    \cup {By("login", ann, homeA, Nil), By("login", ann, homeB, pic),
          By("login", bob, homeB, Nil), By("sync", ann, Nil, Nil)}

GatewayOf == w1 :> team @@ w2 :> talk
OneGateway == w1 :> team @@ w2 :> team
Beginning == team :> {team, talk} @@ talk :> {talk}
SocketAt == homeA :> team @@ homeB :> team @@ work :> talk

AllSockets == INSTANCE Sockets WITH
  Bundles <- {team, talk}, Devices <- {pic, voice}, Begun <- Beginning,
  Sockets <- {homeA, homeB, work}, At <- SocketAt, Workers <- {w1, w2},
  Gateway <- GatewayOf, Requests <- OnSockets, MaxRestarts <- 1,
  MaxRequests <- 6

RacingSockets == INSTANCE Sockets WITH
  Bundles <- {team, talk}, Devices <- {pic, voice}, Begun <- Beginning,
  Sockets <- {homeA, homeB, work}, At <- SocketAt, Workers <- {w1, w2},
  Gateway <- OneGateway, Requests <- Connecting, MaxRestarts <- 1,
  MaxRequests <- 6

-----------------------------------------------------------------------------
(* Reports: the configuration names the counters and bounds the flushes.   *)

Reporting == INSTANCE Reports

ASSUME ContentAssumption ==
  /\ AllPosts!PlacesAssumption
  /\ AllPosts!DeliveredAssumption
  /\ AllPosts!RequestsAssumption
  /\ PlainPosts!PlacesAssumption
  /\ PlainPosts!DeliveredAssumption
  /\ PlainPosts!RequestsAssumption
  /\ RacingPosts!PlacesAssumption
  /\ RacingPosts!DeliveredAssumption
  /\ RacingPosts!RequestsAssumption
  /\ AllLabels!LabelsAssumption
  /\ RacingLabels!LabelsAssumption
  /\ AllFiles!FilesAssumption
  /\ RacingFiles!FilesAssumption
  /\ AllNotices!NotificationsAssumption
  /\ RacingNotices!NotificationsAssumption
  /\ AllAccounts!AccountsAssumption
  /\ RacingAccounts!AccountsAssumption
  /\ Guesses!AccountsAssumption
  /\ AllSockets!SocketsAssumption
  /\ RacingSockets!SocketsAssumption

-----------------------------------------------------------------------------
PostsVars ==
  <<post, comment, mark, unread, reader, watcher, pinned, keyholder, nPosts,
  labelled, cache>>
PostsAbsent ==
  /\ post = Nil
  /\ comment = Nil
  /\ mark = Nil
  /\ unread = Nil
  /\ reader = Nil
  /\ watcher = Nil
  /\ pinned = Nil
  /\ keyholder = Nil
  /\ nPosts = Nil
  /\ labelled = Nil
  /\ cache = Nil

LabelsVars ==
  <<label, listing, asked, tagged, ids>>
LabelsAbsent ==
  /\ label = Nil
  /\ listing = Nil
  /\ asked = Nil
  /\ tagged = Nil
  /\ ids = Nil

FilesVars ==
  <<file, owned, attached, voiced, seen, tokens, fetched, crashes>>
FilesAbsent ==
  /\ file = Nil
  /\ owned = Nil
  /\ attached = Nil
  /\ voiced = Nil
  /\ seen = Nil
  /\ tokens = Nil
  /\ fetched = Nil
  /\ crashes = Nil

NotificationsVars ==
  <<notice, counters, watching, readers, owed>>
NotificationsAbsent ==
  /\ notice = Nil
  /\ counters = Nil
  /\ watching = Nil
  /\ readers = Nil
  /\ owed = Nil

AccountsVars ==
  <<account, cached, keys, totals, owner, home, verification, guesses,
  token>>
AccountsAbsent ==
  /\ account = Nil
  /\ cached = Nil
  /\ keys = Nil
  /\ totals = Nil
  /\ owner = Nil
  /\ home = Nil
  /\ verification = Nil
  /\ guesses = Nil
  /\ token = Nil

SocketsVars ==
  <<fields, accounts, holder, device, socket, restarts, overtaken>>
SocketsAbsent ==
  /\ fields = Nil
  /\ accounts = Nil
  /\ holder = Nil
  /\ device = Nil
  /\ socket = Nil
  /\ restarts = Nil
  /\ overtaken = Nil

ReportsVars ==
  <<counter, report, step, values, left, flushes, counted, lost, apart>>
ReportsAbsent ==
  /\ counter = Nil
  /\ report = Nil
  /\ step = Nil
  /\ values = Nil
  /\ left = Nil
  /\ flushes = Nil
  /\ counted = Nil
  /\ lost = Nil
  /\ apart = Nil

Parts ==
  {"posts", "plain", "racing", "labels", "members", "files", "attaching",
  "notices", "commenting", "accounts", "registering", "guessing", "sockets",
  "connecting", "reports"}

InitPosts ==
  /\ LabelsAbsent
  /\ FilesAbsent
  /\ NotificationsAbsent
  /\ AccountsAbsent
  /\ SocketsAbsent
  /\ ReportsAbsent
  /\ \/ part = "posts" /\ AllPosts!Init
     \/ part = "plain" /\ PlainPosts!Init
     \/ part = "racing" /\ RacingPosts!Init

InitLabels ==
  /\ PostsAbsent
  /\ FilesAbsent
  /\ NotificationsAbsent
  /\ AccountsAbsent
  /\ SocketsAbsent
  /\ ReportsAbsent
  /\ \/ part = "labels" /\ AllLabels!Init
     \/ part = "members" /\ RacingLabels!Init

InitFiles ==
  /\ PostsAbsent
  /\ LabelsAbsent
  /\ NotificationsAbsent
  /\ AccountsAbsent
  /\ SocketsAbsent
  /\ ReportsAbsent
  /\ copy = Nil
  /\ \/ part = "files" /\ AllFiles!Init
     \/ part = "attaching" /\ RacingFiles!Init

InitNotifications ==
  /\ PostsAbsent
  /\ LabelsAbsent
  /\ FilesAbsent
  /\ AccountsAbsent
  /\ SocketsAbsent
  /\ ReportsAbsent
  /\ copy = Nil
  /\ \/ part = "notices" /\ AllNotices!Init
     \/ part = "commenting" /\ RacingNotices!Init

InitAccounts ==
  /\ PostsAbsent
  /\ LabelsAbsent
  /\ FilesAbsent
  /\ NotificationsAbsent
  /\ SocketsAbsent
  /\ ReportsAbsent
  /\ \/ part = "accounts" /\ AllAccounts!Init
     \/ part = "registering" /\ RacingAccounts!Init
     \/ part = "guessing" /\ Guesses!Init

InitSockets ==
  /\ PostsAbsent
  /\ LabelsAbsent
  /\ FilesAbsent
  /\ NotificationsAbsent
  /\ AccountsAbsent
  /\ ReportsAbsent
  /\ \/ part = "sockets" /\ AllSockets!Init
     \/ part = "connecting" /\ RacingSockets!Init

InitReports ==
  /\ PostsAbsent
  /\ LabelsAbsent
  /\ FilesAbsent
  /\ NotificationsAbsent
  /\ AccountsAbsent
  /\ SocketsAbsent
  /\ script = Nil
  /\ copy = Nil
  /\ served = Nil
  /\ part = "reports" /\ Reporting!Init

NextPosts ==
  /\ \/ part = "posts" /\ (AllPosts!Next \/ AllPosts!Stop)
     \/ part = "plain" /\ (PlainPosts!Next \/ PlainPosts!Stop)
     \/ part = "racing" /\ (RacingPosts!Next \/ RacingPosts!Stop)
  /\ UNCHANGED
       <<part, LabelsVars, FilesVars, NotificationsVars, AccountsVars,
       SocketsVars, ReportsVars>>

NextLabels ==
  /\ \/ part = "labels" /\ (AllLabels!Next \/ AllLabels!Stop)
     \/ part = "members" /\ (RacingLabels!Next \/ RacingLabels!Stop)
  /\ UNCHANGED
       <<part, PostsVars, FilesVars, NotificationsVars, AccountsVars,
       SocketsVars, ReportsVars>>

NextFiles ==
  /\ \/ part = "files" /\ (AllFiles!Next \/ AllFiles!Stop)
     \/ part = "attaching" /\ (RacingFiles!Next \/ RacingFiles!Stop)
  /\ UNCHANGED
       <<part, copy, PostsVars, LabelsVars, NotificationsVars, AccountsVars,
       SocketsVars, ReportsVars>>

NextNotifications ==
  /\ \/ part = "notices" /\ (AllNotices!Next \/ AllNotices!Stop)
     \/ part = "commenting" /\ (RacingNotices!Next \/ RacingNotices!Stop)
  /\ UNCHANGED
       <<part, copy, PostsVars, LabelsVars, FilesVars, AccountsVars,
       SocketsVars, ReportsVars>>

NextAccounts ==
  /\ \/ part = "accounts" /\ (AllAccounts!Next \/ AllAccounts!Stop)
     \/ part = "registering" /\ (RacingAccounts!Next \/ RacingAccounts!Stop)
     \/ part = "guessing" /\ (Guesses!Next \/ Guesses!Stop)
  /\ UNCHANGED
       <<part, PostsVars, LabelsVars, FilesVars, NotificationsVars,
       SocketsVars, ReportsVars>>

NextSockets ==
  /\ \/ part = "sockets" /\ (AllSockets!Next \/ AllSockets!Stop)
     \/ part = "connecting" /\ (RacingSockets!Next \/ RacingSockets!Stop)
  /\ UNCHANGED
       <<part, PostsVars, LabelsVars, FilesVars, NotificationsVars,
       AccountsVars, ReportsVars>>

NextReports ==
  /\ part = "reports" /\ (Reporting!Next \/ Reporting!Stop)
  /\ UNCHANGED
       <<part, script, copy, served, PostsVars, LabelsVars, FilesVars,
       NotificationsVars, AccountsVars, SocketsVars>>

Init ==
  \/ InitPosts
  \/ InitLabels
  \/ InitFiles
  \/ InitNotifications
  \/ InitAccounts
  \/ InitSockets
  \/ InitReports

Next ==
  \/ NextPosts
  \/ NextLabels
  \/ NextFiles
  \/ NextNotifications
  \/ NextAccounts
  \/ NextSockets
  \/ NextReports

vars ==
  <<part, script, copy, served, PostsVars, LabelsVars, FilesVars,
  NotificationsVars, AccountsVars, SocketsVars, ReportsVars>>

Spec == Init /\ [][Next]_vars

-----------------------------------------------------------------------------
(* The properties of the components, for the part that runs.               *)

(* Every part keeps its documents, scripts and copies well formed.         *)
TypeOK ==
  /\ part \in Parts
  /\ part = "posts" => AllPosts!TypeOK
  /\ part = "plain" => PlainPosts!TypeOK
  /\ part = "racing" => RacingPosts!TypeOK
  /\ part = "labels" => AllLabels!TypeOK
  /\ part = "members" => RacingLabels!TypeOK
  /\ part = "files" => AllFiles!TypeOK
  /\ part = "attaching" => RacingFiles!TypeOK
  /\ part = "notices" => AllNotices!TypeOK
  /\ part = "commenting" => RacingNotices!TypeOK
  /\ part = "accounts" => AllAccounts!TypeOK
  /\ part = "registering" => RacingAccounts!TypeOK
  /\ part = "guessing" => Guesses!TypeOK
  /\ part = "sockets" => AllSockets!TypeOK
  /\ part = "connecting" => RacingSockets!TypeOK
  /\ part = "reports" => Reporting!TypeOK

(* Counters of unread posts never exceed the marks they count.             *)
UnreadCounted ==
  /\ part = "posts" => AllPosts!UnreadCounted
  /\ part = "plain" => PlainPosts!UnreadCounted
  /\ part = "racing" => RacingPosts!UnreadCounted

(* Places do not count posts they do not have.                             *)
PostsCounted ==
  /\ part = "posts" => AllPosts!PostsCounted
  /\ part = "plain" => PlainPosts!PostsCounted
  /\ part = "racing" => RacingPosts!PostsCounted

(* The comments shown with a post are the latest not removed.              *)
RecentShown ==
  /\ part = "posts" => AllPosts!RecentShown
  /\ part = "racing" => RacingPosts!RecentShown

(* A post in no place is marked removed, and no other.                     *)
PostReachable ==
  /\ part = "posts" => AllPosts!PostReachable
  /\ part = "plain" => PlainPosts!PostReachable

(* Accounts list the labels they are members of.                           *)
LabelsAgree == part = "labels" => AllLabels!LabelsAgree

(* Labels count their members and lists their labels.                      *)
LabelsCounted ==
  /\ part = "labels" => AllLabels!LabelsCounted
  /\ part = "members" => RacingLabels!LabelsCounted

(* Attachments can be downloaded by who reads what they are attached to.    *)
FilesReachable == part = "files" => AllFiles!FilesReachable

(* A post owns its attachments whatever else happens.                      *)
PostFilesOwned ==
  /\ part = "files" => AllFiles!PostFilesOwned
  /\ part = "attaching" => RacingFiles!PostFilesOwned

(* Accounts are counted their notifications.                               *)
NoticesCounted ==
  /\ part = "notices" => AllNotices!NoticesCounted
  /\ part = "commenting" => RacingNotices!NoticesCounted

(* Watchers find everyone who commented.                                   *)
CommentersNamed ==
  /\ part = "notices" => AllNotices!CommentersNamed
  /\ part = "commenting" => RacingNotices!CommentersNamed

(* Accounts and keys are counted.                                          *)
AccountsCounted ==
  /\ part = "accounts" => AllAccounts!AccountsCounted
  /\ part = "registering" => RacingAccounts!AccountsCounted

(* A code is guessed a bounded number of times.                            *)
GuessesBounded ==
  /\ part = "accounts" => AllAccounts!GuessesBounded
  /\ part = "guessing" => Guesses!GuessesBounded

(* Too many wrong passwords disable an account.                            *)
LockedOut ==
  /\ part = "accounts" => AllAccounts!LockedOut
  /\ part = "registering" => RacingAccounts!LockedOut

(* A gateway that restarts forgets its sockets.                            *)
RestartForgets ==
  /\ part = "sockets" => AllSockets!RestartForgets
  /\ part = "connecting" => RacingSockets!RestartForgets

(* Tasks count their attachments.                                          *)
TaskFilesCounted ==
  /\ part = "files" => AllFiles!TaskFilesCounted
  /\ part = "attaching" => RacingFiles!TaskFilesCounted

(* What is counted is reported, and once.                                  *)
CountsReported == part = "reports" => Reporting!CountsReported

=============================================================================
