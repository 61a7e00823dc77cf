# Nested server: specification, model checking and proofs

This directory is a TLA+ development of the Nested server (`src/nested`, the
managers over MongoDB and Redis, and `src/pkg`, the API services, the pusher, the
mail gateway and the tools around them). It says what the server's shared state
is, which handlers change it in which steps, and what holds however those steps
interleave.

## The system

A client's request arrives over HTTP or a websocket; each request runs in a
goroutine of its own. `Worker.Execute` verifies the session, then a service
(`pkg/rpc/api/<name>/functions.go`) reads its arguments, checks access and calls
managers (`nested/manager_*.go`). Everything that lasts is in MongoDB; single
commands on one document are atomic, and nothing else is: no handler uses a
transaction, a lock or a version number. Most documents have a copy in Redis under
`<kind>:gob:<id>` which lives for an hour. Reads take the copy, or find the
document and store it; writers update the document and, deferred to the end of the
function, delete the copy. Several servers may run over the same MongoDB and
Redis. A panic in a handler is not recovered by the code.

So the difficult behaviour is nearly all of four kinds: decisions on a copy that is
no longer the document; functions of several commands that others, or a crash, come
between; counters kept beside the sets they count; background loops
(overdue tasks, hooks, reports) over state that requests change.

### Inventory

| Component | State | Operations | What makes it correct |
|---|---|---|---|
| Tasks (`manager_task.go`, `api/task`) | task document: status, assignee, candidates, watchers, editors, members, to-dos, counters; cached copy | create, respond (accept, reject, resign), update_assignee, add/remove of people, to-dos, labels, attachments, comments, set_status, set_state, update, remove | counters count their sets; add_todo gives no id twice; only those entitled reject; an assigned task has an assignee; a removed task is forgotten |
| Due dates (`manager_time_bucket.go`, `background_jobs.go`) | due date in the task, one bucket of tasks per minute | Task.Update, JobOverdueTasks every minute | buckets follow due dates; a due task becomes overdue, also after a crash |
| Places (`manager_place.go`, `api/place`) | place document: creators, key holders, children, counters, limits; access_places in accounts | create four kinds, add/invite/promote/demote/remove members, leave, remove, pin, default places, blacklist | nobody is creator and key holder at once; counters count; limits hold; accounts and places agree |
| Posts (`manager_post.go`, `api/post`, `api/place`, LMTP) | posts, spam posts, comments, read marks, unread counters per account and place, readers, watchers, pins | add, mail, attach, move, remove, retract, mark as read (post, place), edit, comment, hide, labels, join, leave | unread counters count read marks and places their posts; a post nobody can find is marked removed |
| Sessions (`manager_session.go`, `api/session`) | session document and copy | register, recall, close one, another, all, all others; every request verifies one | a closed session does not verify, at the latest when its copy lapses |
| Accounts, verifications, login tokens (`manager_account.go`, `manager_verification.go`, `manager_token.go`, `api/account`, `api/auth`, `api/admin`, `api/client`) | account document and copy, keys, phones, totals of the system; verification with attempts and texts; tokens with expiry | code sent, verified, used; register, recover, passwords, enable and disable, phones, keys | totals and keys are counted; a code is guessed a bounded number of times; too many wrong passwords lock |
| Labels (`manager_label.go`, `api/label`) | labels with members, lists of accounts, requests, labels on posts | create, request, approve, reject, cancel, add and remove members, change, remove, put on a post | lists and members agree and are counted |
| Files (`manager_file.go`, `api/file`, `pkg/rpc/file`) | file documents with references, owners per post and task, attachments with counters, download tokens; an upload's goroutines and pipes | upload; attach, detach, release, download; the doctor's routines | an upload is answered whatever fails; what is shown with a file owns it, so that readers can download it |
| Hooks (`manager_hook.go`, `api/hook`) | hooks, event channel of 1000, room for 10 posters | add, remove, events from posts, comments, members | every event reaches the hooks there were when it was sent; full channels delay, until ten addresses never answer |
| Sockets and devices (`pkg/session`, `pkg/pusher`) | in Redis a hash per account, a set per gateway, a key per socket; device documents | connect, log in, recall, log out, disconnect, push, restart of a gateway | a restart finds the accounts whose sockets it must forget |
| Notifications (`manager_notification.go`, `api/notification`, `pkg/pusher`) | notifications, counters per account, watchers of a post | every kind of event; mark, mark all, remove | an account is counted for each notification; a commenter is in an unread one |
| Reports (`manager_report.go`) | counters in Redis, sums in MongoDB | count, flush, by a job in every server | what is counted is reported, and once, unless flushes overlap or break off |
| Activities, search, contacts, groups, system, licence | their own documents | see PROJECT.json | |
| LMTP, mailer, file transfer, converters, commands | none of their own | I/O | outside these models |

PROJECT.json lists every component with its status, and under `hazards` each place
in the code where an order of steps, a stale copy, a crash or a limit matters.

## Modules

| Module | Models | Refers to |
|---|---|---|
| `TaskService` | the handlers of one task over document and cache | `manager_task.go`, `api/task/functions.go` |
| `MC_TaskService` | instances for TLC: accounts, requests, created tasks | |
| `TaskServiceProofs` | theorems about `TaskService` | |
| `TaskOverdue` | due dates, time buckets and the overdue job | `manager_task.go` (Update), `manager_time_bucket.go`, `background_jobs.go` |
| `PlaceMembership` | members of a grand place and its sub-places, creating and removing sub-places; instantiates `PlaceRoster` | `manager_place.go`, `manager_account.go` (cache), `api/place/functions.go`, `api/admin/functions.go` |
| `PlaceRoster` | what the place manager promises about roles, in one variable | abstract: nothing of the code |
| `MC_PlaceMembership` | instances for TLC: accounts, the two starting rosters, requests | |
| `PlaceInvariants` | the inductive invariants of `PlaceMembership` | |
| `PlaceProofs` | theorems about `PlaceMembership` | |
| `Posts` | posts and comments, read marks, unread counters, the posts of a place, mail | `manager_post.go`, `api/post`, `api/place`, `pkg/mail/lmtp` |
| `Labels` | labels, lists and requests | `manager_label.go`, `api/label` |
| `Files` | references and owners of files, attachments, downloads | `manager_file.go`, `manager_post.go`, `manager_task.go`, `api/file`, `doctor_checkups.go` |
| `Notifications` | who is notified of what, and the counters | `manager_notification.go`, `pkg/pusher`, `api/notification` |
| `Accounts` | accounts, verifications, login tokens, totals, keys | `manager_account.go`, `manager_verification.go`, `manager_token.go`, `api/auth`, `api/account`, `api/admin`, `api/client` |
| `Sockets` | the registry of sockets, and devices | `pkg/session`, `pkg/pusher`, `cmd/cli-api` |
| `Reports` | counters and the servers' jobs that flush them | `manager_report.go`, `background_jobs.go` |
| `LabelsProofs`, `FilesProofs`, `NotificationsProofs`, `AccountsProofs` | theorems about these four modules | |
| `MC_Content` | instances for TLC of the seven above, side by side; of the four, their proof modules are instantiated | |
| `ContentProofs` | the theorems of the four carried to `MC_Content`, and one about `Reports` | |
| `FileUpload` | one upload, goroutine by goroutine | `pkg/rpc/file` |
| `Hooks` | hooks, their channels and goroutines | `manager_hook.go`, `api/hook` |
| `Sessions` | sessions and their copies | `manager_session.go`, `api/session`, `worker.go` |
| `MC_Services` | instances for TLC of these three and `TaskOverdue`, side by side | |
| `ServicesProofs` | theorems about these four, and about `MC_Services` | |

### TaskService

One task. `doc` is the MongoDB document, `cache` the Redis value, and each worker
has the request it serves, the `*Task` it read (`copy`) and a place in the code
(`pc`). The steps are the commands: GET (`Receive`, `Reread`), find (`Find`), SETEX
(`Fill`), one atomic update per operation (`Accept`, `AddToDo`, ...) and the deferred
DEL (`Drop`). Two handlers read a second time: `update_assignee`, which recomputes
the members afterwards without clearing the cache, and `remove`.

Conditions are where the code has them: `Allowed` is what the handler checks on its
copy, the second argument of `Update` is the query MongoDB evaluates on the document.
What follows an update's success or failure (activities, notifications, answers)
changes nothing the properties speak of and is left out; so are attachments,
labels and related tasks. Lists of accounts in requests are records of the ids they
name and those they name twice, since the code counts the list and adds the set.
Accounts exist; priorities, texts and dates do not matter here.

`Created` is what create stores. The handler numbers the items of the request before it
skips those that do not decode, and `CreateTask` sets `todo_nid` by how many are left, so
an item that is added later may get the id of a created one. `added` tells the two apart:
`TodoIdsUnique` is about the ids that `add_todo` gives and those that create gives, each
by themselves, and `UpdateTodo` changes the text of the first item of an id, as the
positional operator does.

`Expire` is the time to live of the copy. `Quiet` is a stutter when the bounded
number of requests is served, so that TLC's deadlock check stays on.

### TaskOverdue

Tasks with a due date, `bucket[m]` for the minutes, one handler that edits tasks
(set the due date, close a task), and the job with its local variables: the buckets
it listed, the copies it read, the task whose copy it must still delete. Steps are
single MongoDB or Redis commands. A crash loses the handler and the job and keeps the
databases. Minutes pass only between edits: an edit takes less than a minute.
No cached copy expires, as the minutes of a behaviour are fewer than the sixty of
its life.

### PlaceMembership and PlaceRoster

`db` holds the documents of one grand place, its locked sub-places and the accounts;
`cache` their copies in Redis. The manager's functions are several commands each and
call one another, so a worker has a `script`: the commands it still has to run, in
order, the deferred DELs last. `Receive` starts a script with the reads every handler
begins with; a decision (`Invite`, `PromoteMember`, `Leave`, ...) replaces the command
at hand by the calls the handler makes; `Join`, `Raise`, `Grant`, `Delete` and the
like are one MongoDB update each, whose second argument in `Update` is the query. Two
loops are commands that put themselves back: `admit`, over the members to add, and
`tour`, over the sub-places to leave. `Get` is a read through the cache in up to
three steps (`Lookup`, `Find`, `Fill`), so a find may be stored after another worker's
DEL. Dereferencing a place that is gone panics: the deferred DELs run and the worker
halts (`Panic`), which TLC's deadlock check must know (`Quiet`).

`c` in a guard is the handler's copy, never the document. Requests of
`api/admin` are the same handlers without the checks of rights, the two differences
of `Valid`, and without counting those a list has added.

`Founded` gives the documents after the places have been created and their members
have joined, one after the other. Left out: personal and unlocked places (other
access rules over the same manager functions), default places given at registration,
bookmarks and notification settings, and the posts of a place. Two reads of one
document in a row are merged into one. The copies of places and accounts do not
expire within a behaviour. The model's `remove` follows the branch for a place with a
parent or the grand place itself; the parent of every sub-place is the grand place.

`PlaceRoster` says that each account has one role in each place and that roles change
one account at a time along none, key holder, creator, in either direction.
`PlaceMembership` maps `roles` to `Roles`, computed from the documents
(`ImplementsRoster == Roster!Spec`). A handler that removes a creator therefore
demotes him first, as `RemoveCreator` does, also when another handler is half way.

### Scripts

The modules below share a form. A worker's `script` is what its handler still has to
do, one element for each MongoDB or Redis command (or decision on what was read), in
the order of the code; `copy` is what it has read. `Receive` (or `Serve`) takes a
request and says what the handler will do, the action named after a function of the
code runs one command of it, and a decision may replace the rest of the script by the
calls it makes. Workers interleave between commands. `Quiet` says that nothing is
under way; `Stop` stutters then, so that deadlock is checked.

### Posts

The handlers of posts and comments, those of the posts of a place, and mail. `Counting`
and the two counters are compared with the marks and the documents they count. Texts,
queries and related posts are left out; so are crashes. `readFromCache` is one step:
`TaskService` has the races of filling a copy. Places exist; members come and go by
`join` and `leave`, with what those do to read marks only. `Plain` names the requests
after which the code's counters are too low: `IncrementCounter` over several places
changes one of them, `NotSpam` counts nothing, `remove_all_posts` sets counters to -1.
`UnreadCounted` and `PostsCounted` are exact without these and bounds with them.

### Labels

Members, lists of accounts and requests. Titles have a unique index: making a label, or
changing its title, fails when the title is in use (`TitleUsed`), and an approved request
that makes no label has failed (`InsertLabel`). A request may be answered again, since
`UpdateRequestStatus` does not ask whether it is pending. Member lists of requests are
sets, so a list that names an account twice, which the code counts twice, is outside.
Approving never fails for the length of a title. `LabelsCounted` holds of racing handlers; `LabelsAgree`
of one at a time.

### Files and FileUpload

`Files` says who owns which file (`posts.files`, `tasks.files`), who refers to it, and
what may be downloaded; readers of posts and tasks do not change. `Crash` lets a handler
die between two commands. `Twice` excludes a file attached to a post and to its comments,
which the post owns once. The loop of create that leaves out files there are not runs past
the end of the list it shortens when such a file has been moved forward from its end;
`Overrun` is that panic, before anything is done. No missing file gets to `AddPost`.

`FileUpload` is one upload: the handler, the converter, the saver, a processor for each
thumbnail, the collector, and pipes without buffers. Any of them may fail at any point,
and the client may go. A kind's processors, and whether they are waited for, are those of
`createProcesses`. Assumed: a converter that succeeds has read its input to the end.
`earlyResponse` is false in all callers, so an upload is never answered early.

### Sessions

Documents and copies; the four ways to close a session; verification of every request.
`Lapse` is the copy's time to live, `Cleanup` the doctor's removal of old documents.
The right secret is a Boolean of the request. A session is read several times by one
request; where it has gone since the last time, the code uses a nil pointer: `Panic` ends
the request or the server with all its requests.

### Notifications

Who is notified of what, which notification another is added to, and marking. The
pusher's goroutine is a worker beside those of requests. `owed` remembers whom a comment
was announced to and who has not read since; only `CommentersNamed` reads it.
Two comments at once may each insert a notification; both are counted.

### Accounts

Verifications by phone, recovery, registration, what administrators do, logins with a
password, phones and keys. Codes and passwords are right or wrong. `guesses` counts the
comparisons of a code, whatever the document says. `MagicNumber` is the phone that any
number of accounts may have. An account an administrator makes has a login token if the
password is generated or a message is to be sent, which `CreateAccount` leaves open. Left out: verification by e-mail, which
has the same commands; connections, pictures and profile fields.

### Sockets

The three Redis keys of a socket, written one after the other by several gateways, and
devices. A gateway serves each connection by itself, so that several of its workers may
enter and remove sockets of one account at once. `Others` and `HgetAll` find the fields of
a bundle by their beginning: `Begun` says which ids begin with which. `Restart` is a gateway that dies with its sockets and starts again, whose start
removes what its set of accounts leads to. Pushes to sockets always fail, since nothing
fills `wsConns` (see Findings); what remains of a push is the removal it leads to.

`RestartForgets` does not hold of every account: one that enters a socket after a removal
has found no other, and before that takes the account from the set of the bundle, is
lost to the set, and so is one whose gateway ends between its field and the set.
`overtaken` remembers these two and nothing else; the property says that there is no
third.

### Hooks

Channels and goroutines; `Limit` and `Room` are the two capacities. An address may
answer, an error included, or never (`stuck`): the default client has no timeout, and the
goroutine keeps its place in `chLimit`. When as many are stuck as there are places, no hook
is called any more and requests wait once the channel is full; `HooksCalled` says that
nothing less stops them. Events are those of places, the
only ones that are sent. `awaited` and `called` record who was to be called and was.

### Reports

Counting beside the jobs of several servers, which all read, report and reset the same
counters. Every read and every upsert may fail, which the job ignores; a server may crash,
or lose its connection while it resets (`Break`). What is counted between a server's
reading of a counter and its reset, or is in a command that fails, may be lost (`lost`):
`CountsReported` says that nothing else is. Flushes that overlap, or one that breaks off,
report twice; `apart` is true as long as neither has happened, and then nothing is reported
twice. The counters by account and place, hashes that are flushed in the same way, are not
told apart.

### MC_Content and MC_Services

The instances of components that share no variable are explored in one run each. `part`
says which instance a behaviour is about; the variables of the others keep one absent
value and the next-state relation is that of the instance. Each component has one
part with every kind of request, usually served one at a time, and one with two
workers and the requests that conflict.

## Runs

| Run | Bounds | Shows |
|---|---|---|
| `task_sequential` | 1 worker, 23 requests covering every operation, any 5 of them, 2 created tasks | with one request at a time the cached copy never misleads (`DecidesOnCurrent`), status and assignee agree (`AssignedHasAssignee`), and exactly the last reject rejects (`LastRejectRejects`) |
| `task_concurrent` | 2 workers, 14 requests, any 3 of them, 2 created tasks | `TodoIdsUnique`, `CandidatesCounted`, `WatchersCounted`, `RejectionEntitled`, and `RemovedForgotten` under fairness |
| `task_accept_twice`, `task_lost_todo`, `task_hidden_watcher` | 2 requests | violated: see Findings |
| `place_sequential` | 1 worker, 21 requests covering every operation, any 5 of them, 2 starting rosters | one request at a time: handlers decide on places as they are (`DecidesOnCurrent`), limits hold after lists of members (`LimitsKept`), accounts list their places and no others (`AccessAgrees`), sub-place members are members of the grand place (`SubMembersInGrand`), children are counted (`ChildrenCounted`) |
| `place_concurrent` | 2 workers, 9 conflicting requests, any 3 of them | `RosterCounted`, and `PlaceRoster` is implemented, over any old copies |
| `place_last_creator`, `place_stale_account` | 1 and 2 requests | violated: see Findings |
| `content` | see below | counters beside what they count (`UnreadCounted`, `PostsCounted`, `LabelsCounted`, `NoticesCounted`, `AccountsCounted`, `TaskFilesCounted`, `CountsReported`); documents that must agree (`PostReachable`, `RecentShown`, `LabelsAgree`, `FilesReachable`, `PostFilesOwned`, `CommentersNamed`, `RestartForgets`); limits (`GuessesBounded`, `LockedOut`) |
| `services` | see below | what must happen: `UploadAnswered`, `HooksCalled`, `DueServed`, `ClosedEnds`; and `ThumbsListed`, `BucketsFollowDue`, `ExpiredInvalid` |
| `upload_thumbs` | one FILE, 2 thumbnails | violated: see Findings |

Tasks. Three accounts (the assignor and two others), two texts and two to-dos suffice:
no update compares more than two accounts or items. Two workers and three requests
give a reader that holds an old copy across two complete writes; five requests with
one worker are enough to create, remove, reassign, reject and reopen.

Places. Three accounts are the least with a creator, a key holder and a
stranger, one sub-place id and limits of one or two, so that each limit is met. Five
requests suffice to fill the grand place, create the sub-place, move members in it and
remove both. With two workers only two handlers can be half way at once; three
requests let a whole third one come between. With concurrent requests the other
properties do not hold (a limit is checked on a copy), which is why they are
properties of one worker; PROJECT.json lists those hazards.

`content`. Two accounts, and a third where someone is to be a stranger; per component:

* posts: `posts`, all 20 operations, any 3; `plain`, posts in one place, any 4;
  `racing`, 2 workers, any 3 conflicting ones. Two posts, three comments, two recent ones
  shown: a comment is pushed out and can come back.
* labels: `labels`, all, any 5 of one worker; `members`, 2 workers, any 4. Two labels,
  one request, two members at most.
* files: `files`, all, any 5 of one worker; `attaching`, 2 workers, any 4, one crash.
  A picture, a voice and a document, one post, one task.
* notifications: `notices`, every kind, any 3; `commenting`, 2 workers, any 3 of comments
  and readers, four notifications.
* accounts: `accounts`, every operation, any 4; `registering` and `guessing`, 2 workers,
  any 3 and any 5; 3 attempts and 1 wrong password, so that each limit is crossed.
* `sockets`: 2 gateways of a worker each, 3 sockets, 2 devices, 6 requests, one restart;
  `connecting`: two workers of one gateway, so that entering and removing interleave, 2
  sockets, 6 requests, one restart. The id of one gateway begins with the other's.
* `reports`: 2 servers, 2 counters counted twice each, 2 flushes, which may overlap.

`services`:

* `upload`: an IMAGE and a VOICE, whose processors are waited for, and an OTHER, which has
  none; two thumbnails, one portion.
* `hooks`: 2 places, 2 requests, channels for one event each, 2 hooks and 2 events.
  `waiting`: a place, one hook, 3 events and room for two goroutines, one or both of which
  may wait for ever.
* `due` and `crashing`: 2 tasks over 2 minutes with 2 edits, over 3 minutes with an edit
  and a crash. Two tasks in a bucket are what a job that stops half way needs to lose
  one.
* `sessions`, `reconnecting`: 2 sessions of an account; any 5 requests of one worker, any
  3 of two.

Mutants in the modules (`AddToDoByLength`, `DropForgotten`, ...) are small mistakes of
the code's kind; each property fails on the one PROJECT.json pairs it with.

Fairness. Goroutines are scheduled: weak fairness of each worker's next step, of an
upload's and of the hooks' goroutines, which go on but where they wait for an answer, of the handler and of the job of due dates, which
its loop starts again every minute (`time.After`). Redis expires keys: weak
fairness of `Expire`, and of `Lapse` within `Step` of `Sessions`. The clock advances:
weak fairness of `Tick`. An upload's client sends or goes, and its tools end (their
input does). Nothing else is assumed of clients.

## Findings

* Two candidates can accept the same task (`AcceptsUnassigned`): the handler checks
  its copy, `Accept` updates by id.
* Two items added to a to-do list at once leave one (`AddToDoKeepsItems`): `AddToDo`
  writes back the whole list of the copy.
* A watcher who was also a candidate no longer finds the task
  (`WatchersAreMembers`): `RemoveCandidates` pulls the account from `members`.

* The last creator leaves a sub-place together with the grand place
  (`CreatorRemains`): `leavePlace` removes him without the check its comment states.
* After a place is removed, cached accounts still list it (`RemovedPlaceUnlisted`):
  `removeMultiFromCache` deletes `account:json:<id>`, accounts are cached under
  `account:gob:<id>`.

* An upload of the kinds FILE, PICTURE, VIDEO and AUDIO stops the server if a processor
  ends before it is counted (`ThumbsAwaited`): `createProcesses` calls `wgMetaData.Add`
  for VOICE, IMAGE and GIF only.

Six more, seen while modelling, are in PROJECT.json without a run of their own. The models
have what the code does: `RemoveByPlaceID` keeps the comments of posts it takes the
last place from; no event of an assigned task is ever sent to a hook; a push to a socket
always fails and unregisters it; a verification allows one guess less than the constant;
a session's copy can be stored after it was expired; the doctor looks for a comment's files
among the comments.

Two crashes lose overdue marks, and `DueServed` leaves them out by name: one between
the status and the cache of an edit, one after the job met a closed task and removed
the bucket of the others.

## Proofs

The theorems are checked by TLAPS for every value of the constants: any accounts, workers
and requests and any bounds. What they assume of the constants is each module's
assumption: ids of different kinds differ, requests are of their type, and, where things
are counted, there are finitely many of them.

`TaskServiceProofs`:

* `TypeCorrect`: `Spec => []TypeOK`. One lemma per kind of step; every command's new
  document is a task because every request and copy has its type.
* `TodoIdsStayUnique`: `CreationsNumbered /\ Spec => []TodoIdsUnique`. The invariant
  is not inductive, because old lists come back. `TodoInv` adds what an old copy can
  be: its added items are numbered below its own next id, and that is at most the
  document's. `TodoInv` is preserved because `AddToDo` writes ids at most the copy's
  next id and raises the document's. `CreationsNumbered` says of the items of a new task
  only that their numbers differ: they may be past `todo_nid`.
* `CandidatesStayCounted`, `WatchersStayCounted`, under `PlainRequests /\
  CreationsCounted`. The two hypotheses exclude what does break the counters: lists that
  name an account twice, and `add_candidate`, which raises the watchers' counter.
* `RejectionsEntitled`: the action property, of any number of workers. It needs no
  fact about copies: the queries of `Reject` and `Resign` repeat the handlers' checks.
* With `OneWorker`: `DecisionsCurrent`, `AssignedKeepsAssignee` (given `CreationsAssigned`)
  and `LastRejectDecides`. The invariant `Current` says that what a handler read is the
  document, up to the members, until it has written, and the cached copy is too unless a
  DEL of it is still to come. `AcceptsUnassignedAlone` and `AddToDoKeepsItemsAlone` say
  that two of the findings take two workers.

`PlaceProofs`:

* `TypeCorrect`: `Spec => []TypeOK`. Every handler's calls are scripts of commands
  with arguments of the right kind; `StepTyped` reduces each action to what it writes
  and what it has left to run.
* `RostersStayCounted`: `Spec => []RosterCounted`. `RosterCounted` is inductive with
  `TypeOK` alone, without any fact about copies: the queries of the updates repeat
  what their `$inc` relies on. `StepChanges` states it: a step changes at most one
  place, by moving one account, inserting or deleting it.
* `RostersImplement`: `Spec => ImplementsRoster`, from `StepChanges`.
* `PlacesDecideOnCurrent`: `OneWorker /\ Spec => []DecidesOnCurrent`. The invariant
  `Solo` is about the script: what a command writes, a later one deletes from the cache
  before it is read or anything is decided (`Shaped`, `Drops`); a cached copy therefore
  agrees with its document or its DEL is ahead; what a command judges was read by the
  command before it. An account's copy agrees when it lists all the account has access
  to, since `RemoveAllMembers` leaves it. A panicked worker has its DELs left (`Stopped`).

Also `PlaceProofs`, all with `OneWorker` and `Solo`: since what is judged is current, each
step is first restated without copies, on the documents, the request and the script
(`Steps`, `NextAdvances`). What a script has still to do then makes up for what the
documents lack, and each invariant is stated with that difference:

* `AccountsListPlaces`: `[]AccessAgrees`. `Agreeing`: where an account's list and a roster
  differ, the `grant`, the `revoke` or the deletion of the place is still to come.
  `Sound` and `Ordered` say when that is so: a `grant` left without its `join` is of a
  member, a `revoke` left without its `expel` of none, `evict` comes before `delete`.
* `ChildrenStayCounted`: `[]ChildrenCounted`. `ChildrenDue`: the counter and a pending
  `count` make up the sub-places there are to stay and a pending `uncount`.
* `SubMembersStayInGrand`: `[]SubMembersInGrand`, under two more hypotheses. `FoundedInside`
  is the property of the sub-places at the start. `FoundedByMembers` excludes an admin
  request that creates a sub-place for an account outside the grand place, which the
  requests of the runs do not make either. `Housing` says that whoever is to leave the
  grand place has no sub-place left but those the script makes him leave first, and that
  whoever is to join a sub-place is in the grand place.
* `PlacesStayWithinLimits`: `[]LimitsKept`. `Limited`: the rosters as they will be once the
  script has run (`ComingKeys`, `ComingCreators`) are within the limits, with the room the
  loop over a list has left. For a moment a roster may be over: who leaves is lowered
  before he is expelled, a founder joins before he is raised (`Paired`). `AddedByClients`
  excludes what does break the limits: the handlers of `api/admin` do not count whom they
  add and demote into a full place. `FoundedWithin` is the property at the start, and
  `CreatorLimit > 0` lets a place have its founder.

`FilesProofs`: `TypeCorrect`, `TasksCounted` and `PostsOwn` from one invariant, `FilesInv`.
The scripts of handlers are long here: `ScriptsFit` says of each command what the rest of
the script presumes of the database (a post to be inserted owns its files, or their
attachment comes first), `HeldKept` what a reader may rely on, `AllCounted` the counters.
`ShownReachable` is `FilesReachable`, for one worker (`OneWorker`): another may remove an
attachment between the writing of a task and of its file. `ReachInv` adds that, before a
crash, what is shown once is owned or the script still has to own it (`OwnsAll`), that no
command takes away what is shown once, that an edit of a task's attachments begins with
nothing else to do, and that a post about to be inserted is a new one (`Careful`).

`LabelsProofs`: `TypeCorrect`, and `CountsKept` from `TypeOK`: every update's query repeats
what its `$inc` supposes.
`LabelsStayAgreed` is `LabelsAgree` for one worker (`OneWorker`): a second one may
remove a member between another's reading of the label and its writing. The invariant,
`AgreeInv`, is about the rest of the handler's script (`Phase`): nothing in it touches a
label or a list and all agree (`Idles`), or it still has to list or to unlist the label it
wrote for exactly those accounts for which lists and labels differ (`Finishes`, `Creates`,
`Deletes`). `LabelsAssumption` says besides that accounts and workers are finite, that a
request has the fields its handler reads and that `Nil` is not a label's document.

`NotificationsProofs`: `TypeCorrect`; `CountersKept` from `Tally`, an equation that holds at
any time: an account's counter and the notifications handlers have yet to count for it
make up its notifications; `CommentersTold` from `EachOwed`: a comment that was announced
is in a notification or is the command at hand.

`AccountsProofs`: `GuessesStayBounded` from `GuessInv`: the comparisons of a code are fewer
than its attempts, which are counted first.

`ContentProofs`: every behaviour of `MC_Content` is about one part for ever, so it is a
behaviour of one instance or leaves that component's variables alone; the theorems of the
instances hold of all of it. `EveryCountReported` is about `Reports`, for any servers,
failures and overlapping flushes. The invariant says where what was counted is
(`Found`): in the reports and the counter, or lost; for a server that has read the counter,
also in the reports and in what it has read; once it has written that, in the reports. As
long as `apart`, one server is at work at most, what it has read and is still to write is
in the counter too, and the reports have no more than was counted (`Single`, `Once`).

`ServicesProofs` proves lemmas about instances of `TaskOverdue`, `FileUpload`, `Hooks` and
`Sessions` with constants of any value, states the results for each (`DueFollowed`,
`UploadsList`, `HooksCarryOnce`, `ClosedStaysInvalid`) and applies them to the instances
that `MC_Services` checks (`ServicesTyped`, `UploadsListThumbs`, `BucketsFollow`,
`ClosedSessionsInvalid`):

* Due dates, `DueInv`. `DueListed`: a task is in the bucket of a minute to come exactly if
  it is listed for it (`ListedFor`): for its due date, but for the moment the edit
  has taken it out of the old bucket and not put it into the new one. `DueCurrent`: a
  cached copy has the due date of the task unless the edit that changed it has still to
  delete the copy, since `Update` takes the bucket to leave from the copy. `JobBehind`: the
  job only touches buckets of minutes that are past.
* Uploads, `UploadListing`. The collector is past waiting only when no processor is at work
  and none will find anything more (`Busy`), and what it lists is all that was found, once
  the file has a document.
* Hooks, `HookOnce`. An event is in the request that sends it, in the channel, with the
  hooker or with one goroutine, and never in two of these; `limit`, the tokens of
  `chLimit`, is the number of goroutines. So a token is given back once.
* Sessions. `LoginTypes` says what the rest of a script may be, `LoginRoom` that the
  ids left suffice for the handlers that will create a session. `ClosedOver`: a closed
  session's document is expired or gone, and its copy too, or the script at hand is about
  to replace the copy. One worker is needed: a second one may store a copy it read before.

### Model-checked only

* Liveness (`RemovedForgotten`, `UploadAnswered`, `HooksCalled`, `DueServed`, `ClosedEnds`),
  which the prover cannot show.
* `AccountsCounted` and `LockedOut`, which hold of the checked requests and not of any
  requests of several workers; the properties of `Posts`, which hold of plain requests.
* `RestartForgets`, and the `TypeOK` of `MC_Content`, which
  has parts without theorems (`Posts`, `Accounts`, `Sockets`).

## Not modelled

* Queries, search, reports by hour and day, and the activity logs, which no decision
  reads.
* Attachments and labels of tasks as `TaskService` would have them (`Files` has the
  attachments), related tasks, and what `TaskService` says above.
* Unlocked and personal places, blocked addresses, settings and default places.
* Verification by e-mail, app tokens, contacts, groups, and the licence job.
* Dispatch of requests to services, the mapping of answers, start-up and command lines.
* The protocols: LMTP, SMTP, HTTP, FCM, the parsing of mail and the converters.

PROJECT.json says for each component what is left out.

## Plan

Done: tasks, due dates, members of places, posts, labels, files and uploads, sessions,
notifications, accounts, sockets, hooks, reports. Next, in this order:

1. Proofs: that `PostReachable` is preserved by every command of plain requests; `RestartForgets`.
2. An abstract cache (reads return the document or something it was within the last
   hour) that `TaskService` and `Sessions` implement.
3. Posts with places whose documents are `PlaceMembership`'s; crashes in `Posts`.
4. Unlocked and personal places, default places at registration.
