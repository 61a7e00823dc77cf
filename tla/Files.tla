-------------------------------- MODULE Files --------------------------------
(***************************************************************************)
(* Files and what they are attached to: nested/manager_file.go, the        *)
(* attachments of posts, comments and tasks in manager_post.go and         *)
(* manager_task.go, pkg/rpc/api/file, the downloads of                     *)
(* pkg/rpc/file/handlers_file.go, and the doctor's routines about files.   *)
(*                                                                         *)
(* A file's document counts its references, posts.files and tasks.files    *)
(* say who refers to it, and a download is allowed by who refers to it.    *)
(* Nothing ties these to the lists of attachments in the documents of      *)
(* posts, comments and tasks.  How a file gets into the store is           *)
(* FileUpload's; who may read a post or a task does not change here.       *)
(***************************************************************************)
EXTENDS Integers, FiniteSets, Sequences, SequencesExt

CONSTANTS
  FileIds, Pictures, Voices,  \* files; those uploaded as pictures; as voices
  Posts, Tasks,               \* ids of posts and tasks yet to be made
  Accounts, Readers,          \* who may read a post or a task: a function
  Nil,
  Workers, Requests,
  MaxComments,                \* bound: comments with a voice
  MaxRequests,                \* bound: requests served in a behaviour
  MaxCrashes                  \* bound: handlers that die half-way

VARIABLES
  file,       \* files: status and ref_count
  owned,      \* posts.files and tasks.files: unique pairs of file and owner
  attached,   \* the attachments in posts and tasks, with their counter
  voiced,     \* posts.comments that have an attachment
  seen,       \* the status in a file's cached copy
  tokens,     \* the download tokens given
  fetched,    \* files served to someone
  crashes,
  script, served

docs == <<file, owned, attached, voiced>>
vars == <<docs, seen, tokens, fetched, crashes, script, served>>

Owners == Posts \cup Tasks
CommentIds == 1..MaxComments
Statuses == {"tmp", "pub", "attached"}

FileDocs == [status : Statuses, refs : Int]
AttachedDocs == [files : SUBSET FileIds, n : Int]
VoiceDocs == [post : Posts, file : FileIds, removed : BOOLEAN]

RequestType ==
  [op : {"upload", "get", "add_post", "add_comment", "remove_comment",
         "create_task", "add_attachment", "remove_attachment", "get_token",
         "download", "public", "doctor"},
   who : Accounts, at : Owners \cup CommentIds \cup {Nil},
   files : SUBSET FileIds]

(* What a request is about.                                                *)
Complete(r) ==
  /\ r.op \in {"add_post", "add_comment"} => r.at \in Posts
  /\ r.op \in {"create_task", "add_attachment", "remove_attachment"} =>
       r.at \in Tasks
  /\ r.op = "remove_comment" => r.at \in CommentIds
  /\ r.op = "get_token" => r.at \in Owners

FilesAssumption ==
  /\ Pictures \cup Voices \subseteq FileIds
  /\ IsFiniteSet(FileIds) /\ IsFiniteSet(Owners)
  /\ Posts \cap Tasks = {} /\ Readers \in [Owners -> SUBSET Accounts]
  /\ Nil \notin FileDocs \cup AttachedDocs \cup VoiceDocs
  /\ Requests \subseteq RequestType /\ \A r \in Requests : Complete(r)
  /\ {MaxComments, MaxRequests, MaxCrashes} \subseteq Nat

Init ==
  /\ file = [f \in FileIds |-> Nil]
  /\ owned = {}
  /\ attached = [o \in Owners |-> Nil]
  /\ voiced = [c \in CommentIds |-> Nil]
  /\ seen = [f \in FileIds |-> Nil]
  /\ tokens = {} /\ fetched = {}
  /\ crashes = 0
  /\ script = [w \in Workers |-> <<>>]
  /\ served = 0

Exists(f) == file[f] # Nil

(* The id of a post or a task is a new one, and so is a file's.            *)
New(o) ==
  /\ attached[o] = Nil /\ \A link \in owned : link[2] # o
  /\ \A w \in Workers :
       \A i \in DOMAIN script[w] : script[w][i].owner # o

(* readFromCache, which leaves a copy; nothing ever removes one.           *)
Cached(f) == IF seen[f] # Nil THEN seen[f]
             ELSE IF Exists(f) THEN file[f].status ELSE Nil
Look(f) == seen' = [seen EXCEPT ![f] = Cached(f)]

-----------------------------------------------------------------------------
(* Scripts: the commands a handler still has to run.                       *)

Command(do, f, o) == [do |-> do, file |-> f, owner |-> o]

(* What a handler may have before it.                                      *)
Commands ==
  [do : {"refer", "unrefer", "own", "disown", "attach", "look"},
   file : FileIds, owner : Owners]
    \cup [do : {"insert"}, file : SUBSET FileIds, owner : Posts]
    \cup [do : {"extend", "reduce"}, file : SUBSET FileIds, owner : Tasks]
    \cup [do : {"sync", "fix"}, file : {{}}, owner : {Nil}]

Ready(w, do) == script[w] # <<>> /\ Head(script[w]).do = do
Now(w) == Head(script[w])
Become(w, s) == script' = [script EXCEPT ![w] = s \o Tail(@)]
Proceed(w) == Become(w, <<>>)
Return(w) == script' = [script EXCEPT ![w] = <<>>]

(* The script of one of the files after the other.                         *)
ForEach(fs, Calls(_)) == FlattenSeq([i \in 1..Cardinality(fs) |->
                                       Calls(SetToSeq(fs)[i])])

Own(f, o) == <<Command("refer", f, o), Command("own", f, o)>>
Attach(f, o) == Own(f, o) \o <<Command("attach", f, o)>>
Disown(f, o) == <<Command("unrefer", f, o), Command("disown", f, o)>>

Arrives(w, r) ==
  /\ script[w] = <<>> /\ served < MaxRequests
  /\ served' = served + 1

-----------------------------------------------------------------------------
(* Handlers.                                                               *)

(* UploadUser, UploadSystem and UploadApp, once uploadFile has stored the  *)
(* file: pictures of profiles and places are public.                       *)
Upload(w, r) ==
  /\ r.op = "upload" /\ Arrives(w, r)
  /\ file' = [f \in FileIds |->
                IF f \in r.files /\ ~Exists(f)
                     /\ \A link \in owned : link[1] # f
                  THEN [status |-> IF f \in Pictures THEN "pub" ELSE "tmp",
                        refs |-> 0]
                  ELSE file[f]]
  /\ UNCHANGED <<owned, attached, voiced, seen, tokens, fetched, crashes,
                 script>>

(* file/get, file/get_by_token and set_picture read the cached document.   *)
GetFile(w, r) ==
  /\ r.op = "get" /\ Arrives(w, r)
  /\ \E f \in r.files : Look(f)
  /\ UNCHANGED <<docs, tokens, fetched, crashes, script>>

Known(r) == {f \in r.files : Exists(f)}

(* Mutant: the post is inserted before its files are attached.             *)
AddPostFirst(w, r) ==
  /\ r.op = "add_post" /\ New(r.at) /\ Arrives(w, r)
  /\ script' = [script EXCEPT ![w] =
       <<Command("insert", Known(r), r.at)>>
         \o ForEach(Known(r), LAMBDA f : Attach(f, r.at))]
  /\ UNCHANGED <<docs, seen, tokens, fetched, crashes>>

(* AddPost takes the files that exist; each is attached and its cached     *)
(* document read for its size, then the post is inserted.                  *)
AddPost(w, r) ==
  /\ r.op = "add_post" /\ New(r.at) /\ Arrives(w, r)
  /\ script' = [script EXCEPT ![w] =
       ForEach(Known(r), LAMBDA f : Attach(f, r.at)
                                      \o <<Command("look", f, r.at)>>)
         \o <<Command("insert", Known(r), r.at)>>]
  /\ UNCHANGED <<docs, seen, tokens, fetched, crashes>>

(* Leaving the missing files out, the loop of the handler may run past the *)
(* end of the list it shortens, before anything is done.                   *)
Overrun(w, r) ==
  /\ r.op = "add_post" /\ Known(r) \notin {{}, r.files} /\ Arrives(w, r)
  /\ UNCHANGED <<docs, seen, tokens, fetched, crashes, script>>

(* AddComment inserts the comment, then attaches its voice.                *)
AddComment(w, r) ==
  /\ r.op = "add_comment" /\ attached[r.at] # Nil
  /\ r.who \in Readers[r.at] /\ Arrives(w, r)
  /\ \E f \in r.files \cap Voices :
       /\ Look(f)
       /\ IF Cached(f) = Nil THEN UNCHANGED <<voiced, script>>
          ELSE \E c \in CommentIds :
                 /\ voiced[c] = Nil
                 /\ \A d \in 1..(c - 1) : voiced[d] # Nil
                 /\ voiced' = [voiced EXCEPT ![c] =
                      [post |-> r.at, file |-> f, removed |-> FALSE]]
                 /\ script' = [script EXCEPT ![w] = Attach(f, r.at)]
  /\ UNCHANGED <<file, owned, attached, tokens, fetched, crashes>>

(* RemoveComment, also of a comment removed before.                        *)
RemoveComment(w, r) ==
  /\ r.op = "remove_comment" /\ voiced[r.at] # Nil /\ Arrives(w, r)
  /\ voiced' = [voiced EXCEPT ![r.at].removed = TRUE]
  /\ script' = [script EXCEPT ![w] =
                  Disown(voiced[r.at].file, voiced[r.at].post)]
  /\ UNCHANGED <<file, owned, attached, seen, tokens, fetched, crashes>>

(* CreateTask takes any ids, and leaves the status of the files.           *)
CreateTask(w, r) ==
  /\ r.op = "create_task" /\ New(r.at) /\ Arrives(w, r)
  /\ attached' = [attached EXCEPT ![r.at] =
                    [files |-> r.files, n |-> Cardinality(r.files)]]
  /\ script' = [script EXCEPT ![w] =
                  ForEach(r.files, LAMBDA f : Own(f, r.at))]
  /\ UNCHANGED <<file, owned, voiced, seen, tokens, fetched, crashes>>

(* add_attachment, of the files that exist, and remove_attachment.         *)
EditTask(w, r) ==
  /\ r.op \in {"add_attachment", "remove_attachment"}
  /\ attached[r.at] # Nil /\ r.who \in Readers[r.at]
  /\ r.op = "add_attachment" => Known(r) # {}
  /\ Arrives(w, r)
  /\ script' = [script EXCEPT ![w] =
       IF r.op = "add_attachment" THEN <<Command("extend", Known(r), r.at)>>
       ELSE <<Command("reduce", r.files, r.at)>>]
  /\ UNCHANGED <<docs, seen, tokens, fetched, crashes>>

(* get_download_token: of a public file, or of one that the named post or  *)
(* task, which the account may read, refers to.                            *)
GetToken(w, r) ==
  /\ r.op = "get_token" /\ Arrives(w, r)
  /\ \E f \in r.files :
       /\ Look(f)
       /\ LET given == \/ Cached(f) = "pub"
                       \/ /\ Cached(f) # Nil
                          /\ attached[r.at] # Nil /\ r.who \in Readers[r.at]
                          /\ <<f, r.at>> \in owned
          IN tokens' = IF given THEN tokens \cup {<<f, r.who>>} ELSE tokens
  /\ UNCHANGED <<docs, fetched, crashes, script>>

(* ServePrivateFiles by a token, which lasts a day, or ServePublicFiles,   *)
(* and Download.                                                           *)
Serve(w, r) ==
  /\ r.op \in {"download", "public"} /\ Arrives(w, r)
  /\ \E f \in r.files :
       /\ Look(f)
       /\ LET shown == /\ Exists(f)
                       /\ IF r.op = "public" THEN Cached(f) = "pub"
                          ELSE <<f, r.who>> \in tokens
          IN fetched' = IF shown THEN fetched \cup {f} ELSE fetched
  /\ UNCHANGED <<docs, tokens, crashes, script>>

(* The doctor: SyncFileRefCounters and FixReferredTmpFiles, which it runs  *)
(* in any order.                                                           *)
Examine(w, r) ==
  /\ r.op = "doctor" /\ Arrives(w, r)
  /\ \E s \in {<<"sync", "fix">>, <<"fix", "sync">>} :
       script' = [script EXCEPT ![w] =
                    [i \in 1..2 |-> Command(s[i], {}, Nil)]]
  /\ UNCHANGED <<docs, seen, tokens, fetched, crashes>>

-----------------------------------------------------------------------------
(* The commands.                                                           *)

Same == UNCHANGED <<tokens, fetched, crashes, served>>

(* AddPostAsOwner, AddTaskAsOwner, RemovePostAsOwner, RemoveTaskAsOwner    *)
Refer(w) ==
  /\ Ready(w, "refer") \/ Ready(w, "unrefer")
  /\ file' = [file EXCEPT ![Now(w).file] =
       IF @ = Nil THEN @
       ELSE [status |-> @.status,
             refs |-> @.refs + IF Now(w).do = "refer" THEN 1 ELSE -1]]
  /\ Proceed(w) /\ Same /\ UNCHANGED <<owned, attached, voiced, seen>>

Owner(w) ==
  /\ Ready(w, "own") \/ Ready(w, "disown")
  /\ LET link == <<Now(w).file, Now(w).owner>>
     IN owned' = IF Now(w).do = "own" THEN owned \cup {link}
                 ELSE owned \ {link}
  /\ Proceed(w) /\ Same /\ UNCHANGED <<file, attached, voiced, seen>>

(* SetStatus with attached, which leaves public files public.              *)
SetStatus(w) ==
  /\ Ready(w, "attach")
  /\ file' = [file EXCEPT ![Now(w).file] =
       IF @ = Nil THEN @
       ELSE IF @.status = "pub" THEN @ ELSE [@ EXCEPT !.status = "attached"]]
  /\ Proceed(w) /\ Same /\ UNCHANGED <<owned, attached, voiced, seen>>

LookAtSize(w) ==
  /\ Ready(w, "look")
  /\ Look(Now(w).file)
  /\ Proceed(w) /\ Same /\ UNCHANGED docs

InsertPost(w) ==
  /\ Ready(w, "insert")
  /\ attached' = [attached EXCEPT ![Now(w).owner] =
       [files |-> Now(w).file, n |-> Cardinality(Now(w).file)]]
  /\ Proceed(w) /\ Same /\ UNCHANGED <<file, owned, voiced, seen>>

(* Mutant: the update does not ask whether some of the files are attached. *)
ExtendAny(w) ==
  /\ Ready(w, "extend")
  /\ LET t == Now(w).owner  fs == Now(w).file
     IN /\ attached' = [attached EXCEPT ![t] =
             [files |-> @.files \cup fs, n |-> @.n + Cardinality(fs)]]
        /\ Become(w, ForEach(fs, LAMBDA f : Attach(f, t)))
  /\ Same /\ UNCHANGED <<file, owned, voiced, seen>>

(* AddAttachments: all of the files, or none when one is attached.         *)
Extend(w) ==
  /\ Ready(w, "extend")
  /\ LET t == Now(w).owner  fs == Now(w).file
     IN IF attached[t].files \cap fs # {} THEN Return(w) /\ UNCHANGED attached
        ELSE /\ attached' = [attached EXCEPT ![t] =
                  [files |-> @.files \cup fs, n |-> @.n + Cardinality(fs)]]
             /\ Become(w, ForEach(fs, LAMBDA f : Attach(f, t)))
  /\ Same /\ UNCHANGED <<file, owned, voiced, seen>>

(* RemoveAttachments: all of the files, or none when one is not attached.  *)
Reduce(w) ==
  /\ Ready(w, "reduce")
  /\ LET t == Now(w).owner  fs == Now(w).file
     IN IF ~(fs \subseteq attached[t].files)
          THEN Return(w) /\ UNCHANGED attached
        ELSE /\ attached' = [attached EXCEPT ![t] =
                  [files |-> @.files \ fs, n |-> @.n - Cardinality(fs)]]
             /\ Become(w, ForEach(fs, LAMBDA f : Disown(f, t)))
  /\ Same /\ UNCHANGED <<file, owned, voiced, seen>>

Holders(f) == {o \in Owners : attached[o] # Nil /\ f \in attached[o].files}
Links == {link \in FileIds \X Owners : link[2] \in Holders(link[1])}

(* Mutant: the owners are rebuilt, from posts and tasks only.              *)
SyncNoComments(w) ==
  /\ Ready(w, "sync")
  /\ file' = [f \in FileIds |-> IF ~Exists(f) THEN Nil ELSE
                [file[f] EXCEPT !.refs = Cardinality(Holders(f))]]
  /\ owned' = Links
  /\ Proceed(w) /\ Same /\ UNCHANGED <<attached, voiced, seen>>

(* SyncFileRefCounters recounts the references of posts and tasks (those   *)
(* of comments it looks for in another collection) and adds the owners,    *)
(* also those of removed comments.                                         *)
SyncFileRefCounters(w) ==
  /\ Ready(w, "sync")
  /\ file' = [f \in FileIds |-> IF ~Exists(f) THEN Nil ELSE
                [file[f] EXCEPT !.refs = Cardinality(Holders(f))]]
  /\ owned' = owned \cup Links
                   \cup {<<voiced[c].file, voiced[c].post>> :
                           c \in {d \in CommentIds : voiced[d] # Nil}}
  /\ Proceed(w) /\ Same /\ UNCHANGED <<attached, voiced, seen>>

FixReferredTmpFiles(w) ==
  /\ Ready(w, "fix")
  /\ file' = [f \in FileIds |->
       IF Exists(f) /\ file[f].refs > 0 /\ file[f].status = "tmp"
         THEN [file[f] EXCEPT !.status = "attached"] ELSE file[f]]
  /\ Proceed(w) /\ Same /\ UNCHANGED <<owned, attached, voiced, seen>>

(* The server stops in the middle of a handler.                            *)
Crash(w) ==
  /\ script[w] # <<>> /\ crashes < MaxCrashes
  /\ crashes' = crashes + 1
  /\ Return(w)
  /\ UNCHANGED <<docs, seen, tokens, fetched, served>>

Receive(w, r) ==
  \/ Upload(w, r) \/ GetFile(w, r) \/ AddPost(w, r) \/ Overrun(w, r)
  \/ AddComment(w, r) \/ RemoveComment(w, r) \/ CreateTask(w, r)
  \/ EditTask(w, r) \/ GetToken(w, r) \/ Serve(w, r) \/ Examine(w, r)

Next ==
  \E w \in Workers :
    \/ \E r \in Requests : Receive(w, r)
    \/ Refer(w) \/ Owner(w) \/ SetStatus(w) \/ LookAtSize(w) \/ InsertPost(w)
    \/ Extend(w) \/ Reduce(w) \/ SyncFileRefCounters(w)
    \/ FixReferredTmpFiles(w) \/ Crash(w)

Quiet == \A w \in Workers : script[w] = <<>>
Stop == Quiet /\ UNCHANGED vars

Spec == Init /\ [][Next \/ Stop]_vars

-----------------------------------------------------------------------------
(* Properties.                                                             *)

TypeOK ==
  /\ file \in [FileIds -> FileDocs \cup {Nil}]
  /\ owned \subseteq FileIds \X Owners
  /\ attached \in [Owners -> AttachedDocs \cup {Nil}]
  /\ voiced \in [CommentIds -> VoiceDocs \cup {Nil}]
  /\ seen \in [FileIds -> Statuses \cup {Nil}]
  /\ tokens \subseteq FileIds \X Accounts /\ fetched \subseteq FileIds
  /\ script \in [Workers -> Seq(Commands)]

(* Comments with the file on the post.                                     *)
Voicing(f, p) ==
  {c \in CommentIds : voiced[c] # Nil /\ voiced[c].post = p
                        /\ voiced[c].file = f}

(* A post owns a file once however often it is attached to it and to its   *)
(* comments, and loses it with the first of these comments.                *)
Twice(f, p) ==
  Cardinality(Voicing(f, p)) + (IF p \in Holders(f) THEN 1 ELSE 0) > 1

(* Whatever is shown with a file, a post, a comment or a task, is its      *)
(* owner, so that who reads it can download it: with one handler at a      *)
(* time, the doctor included, and none that dies.                          *)
FilesReachable ==
  Quiet /\ crashes = 0 =>
    \A f \in FileIds, o \in Owners :
      /\ o \in Holders(f) \/ \E c \in Voicing(f, o) : ~voiced[c].removed
      /\ ~Twice(f, o)
      => <<f, o>> \in owned

(* A post that can be read owns its attachments whatever else is going on  *)
(* and wherever the handler that made it died.                             *)
PostFilesOwned ==
  \A p \in Posts, f \in FileIds :
    p \in Holders(f) /\ ~Twice(f, p) => <<f, p>> \in owned

(* However additions and removals interleave, the attachments of a task    *)
(* are counted.                                                            *)
TaskFilesCounted ==
  \A t \in Tasks :
    attached[t] # Nil => attached[t].n = Cardinality(attached[t].files)
=============================================================================
