------------------------------- MODULE Sockets -------------------------------
(***************************************************************************)
(* Sockets and devices: pkg/session, the first half of                     *)
(* pkg/pusher/pusher.go, and their uses in pkg/rpc/api/session, account    *)
(* and cmd/cli-api/app.go.                                                 *)
(*                                                                         *)
(* Gateways share a Redis, where each enters the web sockets it holds      *)
(* under its bundle id, in three keys and as many commands: fields of a    *)
(* hash of an account, a set of the accounts of a bundle, and the account  *)
(* of a socket.  A gateway that starts removes what the one before left.   *)
(* A gateway serves its connections side by side, and so may enter and     *)
(* remove sockets of an account at once.  Devices are MongoDB documents.   *)
(***************************************************************************)
EXTENDS Integers, FiniteSets, Sequences, SequencesExt

CONSTANTS
  Accounts, Nil, Bundles, Devices, Workers,
  Gateway,      \* the bundle a worker serves: a function
  Begun,        \* bundles whose id begins with the id of a bundle: a function
  Sockets,      \* ids of sockets, never used again
  At,           \* the bundle that holds a socket: a function
  Requests,
  MaxRestarts,  \* bound: gateways that restart
  MaxRequests   \* bound: requests served in a behaviour

VARIABLES
  fields,    \* ws:account:*: the sockets, and their devices, of an account
  accounts,  \* ws:bundle:*: the accounts that have sockets at a bundle
  holder,    \* bundle-ws:*: the account of a socket
  device,    \* accounts.devices
  socket,    \* sockets: to come, open, closed, or lost in a restart
  restarts,
  overtaken, \* accounts whose entering a removal or the end of a gateway
             \* may have undone, and the bundle
  script,    \* what a worker still has to do
  copy,      \* what it has read
  served

redis == <<fields, accounts, holder>>
vars == <<redis, device, socket, restarts, overtaken, script, copy, served>>

Field == Sockets \X (Devices \cup {Nil})
DeviceDocs == [uid : Accounts, badge : Nat, connected : BOOLEAN]

(* `who' logs in, or recalls a session, by socket `at' on a device, or is  *)
(* told something.                                                         *)
RequestType ==
  [op : {"connect", "disconnect", "login", "close", "sync", "notify"},
   who : Accounts \cup {Nil}, at : Sockets \cup {Nil},
   on : Devices \cup {Nil}]

SocketsAssumption ==
  /\ Gateway \in [Workers -> Bundles] /\ At \in [Sockets -> Bundles]
  /\ Begun \in [Bundles -> SUBSET Bundles] /\ \A b \in Bundles : b \in Begun[b]
  /\ Requests \subseteq RequestType
  /\ {MaxRestarts, MaxRequests} \subseteq Nat

Init ==
  /\ fields = [a \in Accounts |-> {}]
  /\ accounts = [b \in Bundles |-> {}]
  /\ holder = [s \in Sockets |-> Nil]
  /\ device = [d \in Devices |-> Nil]
  /\ socket = [s \in Sockets |-> "new"] /\ restarts = 0 /\ overtaken = {}
  /\ script = [w \in Workers |-> <<>>]
  /\ copy = [w \in Workers |-> Nil]
  /\ served = 0

-----------------------------------------------------------------------------
(* Scripts.                                                                *)

Command(do, who, at, on) == [do |-> do, who |-> who, at |-> at, on |-> on]

Ready(w, do) == script[w] # <<>> /\ Head(script[w]).do = do
Now(w) == Head(script[w])
Become(w, s) == script' = [script EXCEPT ![w] = s \o Tail(@)]
Proceed(w) == Become(w, <<>>)

ForEach(xs, Calls(_)) ==
  FlattenSeq([i \in 1..Cardinality(xs) |-> Calls(SetToSeq(xs)[i])])

Register(a, s, d) ==
  <<Command("hset", a, s, d), Command("sadd", a, s, d),
    Command("set", a, s, d)>>
RegisterWebsocket(a, s, d) ==
  Register(a, s, d) \o <<Command("connected", a, s, d)>>
RegisterDevice(a, d) == <<Command("device", a, Nil, d)>>
RemoveSocket(s) == <<Command("holder", Nil, s, Nil)>>
UnregisterWebsocket(s) ==
  RemoveSocket(s) \o <<Command("disconnected", Nil, Nil, Nil)>>

(* login and recall enter the device, if there is one, and the socket they *)
(* came by; close removes the device.                                      *)
Serve(r) ==
  CASE r.op = "login"      -> (IF r.on = Nil THEN <<>>
                               ELSE RegisterDevice(r.who, r.on))
                                \o RegisterWebsocket(r.who, r.at, r.on)
    [] r.op = "disconnect" -> UnregisterWebsocket(r.at)
    [] r.op = "close"      -> <<Command("remove", Nil, Nil, r.on)>>
    [] r.op = "sync"       -> <<Command("push", r.who, Nil, Nil)>>
    [] r.op = "notify"     -> <<Command("badge", r.who, Nil, Nil)>>
    [] OTHER               -> <<>>

(* A gateway that starts removes what was left before it listens.          *)
Starting(b) ==
  \E w \in Workers : Gateway[w] = b /\ script[w] # <<>>
                       /\ Now(w).do \in {"members", "account", "field"}

(* One goroutine for each connection: workers of a gateway serve requests  *)
(* of its sockets at the same time, the end of one included.               *)
Receive(w, r) ==
  /\ script[w] = <<>> /\ served < MaxRequests /\ ~Starting(Gateway[w])
  /\ r.at # Nil => At[r.at] = Gateway[w]
  /\ r.op = "connect" => socket[r.at] = "new"
  /\ r.op \in {"login", "disconnect"} => socket[r.at] = "open"
  /\ socket' = CASE r.op = "connect"    -> [socket EXCEPT ![r.at] = "open"]
                 [] r.op = "disconnect" -> [socket EXCEPT ![r.at] = "closed"]
                 [] OTHER               -> socket
  /\ served' = served + 1
  /\ script' = [script EXCEPT ![w] = Serve(r)]
  /\ copy' = [copy EXCEPT ![w] = Nil]
  /\ UNCHANGED <<redis, device, restarts, overtaken>>

-----------------------------------------------------------------------------
(* The registry of sockets.                                                *)

(* A worker that removed another socket has found no more of the account   *)
(* and is about to take it from the set of the bundle.                     *)
Overtakes(v, a, b) ==
  Ready(v, "srem") /\ Now(v).who = a /\ At[Now(v).at] = b

Hset(w) ==
  /\ Ready(w, "hset")
  /\ LET a == Now(w).who
         s == Now(w).at
     IN /\ fields' = [fields EXCEPT ![a] = {f \in @ : f[1] # s}
                                             \cup {<<s, Now(w).on>>}]
        /\ overtaken' = IF \E v \in Workers : Overtakes(v, a, At[s])
                          THEN overtaken \cup {<<a, At[s]>>} ELSE overtaken
  /\ Proceed(w)
  /\ UNCHANGED <<accounts, holder, device, socket, restarts, copy, served>>

Sadd(w) ==
  /\ Ready(w, "sadd")
  /\ accounts' = [accounts EXCEPT ![At[Now(w).at]] = @ \cup {Now(w).who}]
  /\ Proceed(w)
  /\ UNCHANGED <<fields, holder, device, socket,
                 restarts, overtaken, copy, served>>

SetHolder(w) ==
  /\ Ready(w, "set")
  /\ holder' = [holder EXCEPT ![Now(w).at] = Now(w).who]
  /\ Proceed(w)
  /\ UNCHANGED <<fields, accounts, device, socket,
                 restarts, overtaken, copy, served>>

(* Remove asks whose the socket is, of its own bundle: of a socket that is *)
(* held elsewhere it knows nothing.                                        *)
GetHolder(w) ==
  /\ Ready(w, "holder")
  /\ LET s == Now(w).at
         a == IF At[s] = Gateway[w] THEN holder[s] ELSE Nil
     IN /\ copy' = [copy EXCEPT ![w] = Nil]
        /\ Become(w, IF a = Nil THEN <<>>
                     ELSE <<Command("hget", a, s, Nil)>>)
  /\ UNCHANGED <<redis, device, socket, restarts, overtaken, served>>

(* The device of the field; the field and the key go; are there others?    *)
Hget(w) ==
  /\ Ready(w, "hget")
  /\ LET a == Now(w).who
         s == Now(w).at
     IN /\ copy' = [copy EXCEPT ![w] =
             IF \E f \in fields[a] : f[1] = s
               THEN (CHOOSE f \in fields[a] : f[1] = s)[2] ELSE Nil]
        /\ Become(w, <<Command("hdel", a, s, Nil),
                       Command("others", a, s, Nil)>>)
  /\ UNCHANGED <<redis, device, socket, restarts, overtaken, served>>

Hdel(w) ==
  /\ Ready(w, "hdel")
  /\ LET s == Now(w).at
     IN /\ fields' = [fields EXCEPT ![Now(w).who] = {f \in @ : f[1] # s}]
        /\ holder' = [holder EXCEPT ![s] = Nil]
  /\ Proceed(w)
  /\ UNCHANGED <<accounts, device, socket, restarts, overtaken, copy, served>>

(* Mutant: other sockets of the account are not looked for.                *)
NoOthers(w) ==
  /\ Ready(w, "others")
  /\ Become(w, <<Command("srem", Now(w).who, Now(w).at, Nil)>>)
  /\ UNCHANGED <<redis, device, socket, restarts, overtaken, copy, served>>

(* Fields are told by how they begin, with the id of the bundle.           *)
Others(w) ==
  /\ Ready(w, "others")
  /\ LET a == Now(w).who
         s == Now(w).at
     IN Become(w, IF \E f \in fields[a] : At[f[1]] \in Begun[At[s]] THEN <<>>
                  ELSE <<Command("srem", a, s, Nil)>>)
  /\ UNCHANGED <<redis, device, socket, restarts, overtaken, copy, served>>

Srem(w) ==
  /\ Ready(w, "srem")
  /\ accounts' = [accounts EXCEPT ![At[Now(w).at]] = @ \ {Now(w).who}]
  /\ Proceed(w)
  /\ UNCHANGED <<fields, holder, device, socket,
                 restarts, overtaken, copy, served>>

(* internalPush.  No code ever puts a connection where pushCB looks for    *)
(* it, so each socket of the account is taken for a lost one.              *)
InternalPush(w) ==
  /\ Ready(w, "push")
  /\ Become(w, ForEach({f[1] : f \in fields[Now(w).who]}, RemoveSocket))
  /\ UNCHANGED <<redis, device, socket, restarts, overtaken, copy, served>>

-----------------------------------------------------------------------------
(* Devices.                                                                *)

(* Update, or Register if there is none; registering fails for systems     *)
(* that get no pushes.                                                     *)
EnterDevice(w) ==
  /\ Ready(w, "device")
  /\ LET d == Now(w).on
         a == Now(w).who
     IN device' = [device EXCEPT ![d] =
          IF @ # Nil THEN [@ EXCEPT !.uid = a]
          ELSE [uid |-> a, badge |-> 0, connected |-> FALSE]]
  /\ Proceed(w)
  /\ UNCHANGED <<redis, socket, restarts, overtaken, copy, served>>

(* SetAsConnected resets the badges of all the account's devices.          *)
SetAsConnected(w) ==
  /\ Ready(w, "connected")
  /\ LET a == Now(w).who
         reset(d) == IF device[d] # Nil /\ device[d].uid = a
                       THEN [device[d] EXCEPT !.badge = 0] ELSE device[d]
     IN device' = [d \in Devices |->
          IF d = Now(w).on /\ device[d] # Nil
            THEN [reset(d) EXCEPT !.connected = TRUE] ELSE reset(d)]
  /\ Proceed(w)
  /\ UNCHANGED <<redis, socket, restarts, overtaken, copy, served>>

(* Of the device that Remove found.                                        *)
SetAsDisconnected(w) ==
  /\ Ready(w, "disconnected")
  /\ device' = [d \in Devices |->
       IF d = copy[w] /\ device[d] # Nil
         THEN [device[d] EXCEPT !.connected = FALSE] ELSE device[d]]
  /\ Proceed(w)
  /\ UNCHANGED <<redis, socket, restarts, overtaken, copy, served>>

RemoveDevice(w) ==
  /\ Ready(w, "remove")
  /\ device' = [device EXCEPT ![Now(w).on] = Nil]
  /\ Proceed(w)
  /\ UNCHANGED <<redis, socket, restarts, overtaken, copy, served>>

(* externalPush raises the badges, then sends to the devices that it       *)
(* finds; those that cannot be sent to are removed.                        *)
IncrementBadge(w) ==
  /\ Ready(w, "badge")
  /\ LET mine == {d \in Devices :
                    device[d] # Nil /\ device[d].uid = Now(w).who}
     IN /\ device' = [d \in Devices |->
             IF d \in mine THEN [device[d] EXCEPT !.badge = @ + 1]
             ELSE device[d]]
        /\ Become(w, ForEach(mine,
                       LAMBDA d : <<Command("send", Nil, Nil, d)>>))
  /\ UNCHANGED <<redis, socket, restarts, overtaken, copy, served>>

SendFCM(w) ==
  /\ Ready(w, "send")
  /\ \/ Proceed(w)
     \/ Become(w, <<Command("remove", Nil, Nil, Now(w).on)>>)
  /\ UNCHANGED <<redis, device, socket, restarts, overtaken, copy, served>>

-----------------------------------------------------------------------------
(* Gateways.                                                               *)

Idle(b) == \A w \in Workers : Gateway[w] = b => script[w] = <<>>

(* What a worker of the gateway has set a field for, and not yet entered   *)
(* in the set of its bundle.                                               *)
Entering(b) ==
  {Now(v).who : v \in {u \in Workers : Gateway[u] = b /\ Ready(u, "sadd")}}

(* A gateway ends, whatever it is doing, with its sockets, and starts.     *)
Restart(w) ==
  LET b == Gateway[w]
  IN /\ restarts < MaxRestarts
     /\ socket' = [s \in Sockets |->
          IF At[s] = b /\ socket[s] # "new" THEN "lost" ELSE socket[s]]
     /\ restarts' = restarts + 1
     /\ overtaken' = overtaken \cup (Entering(b) \X {b})
     /\ script' = [v \in Workers |->
          IF v = w THEN <<Command("members", Nil, Nil, Nil)>>
          ELSE IF Gateway[v] = b THEN <<>> ELSE script[v]]
     /\ UNCHANGED <<redis, device, copy, served>>

(* RemoveByBundleID: the accounts, the fields of each that begin with the  *)
(* id of the bundle, each field; the set and the accounts of the sockets   *)
(* stay.                                                                   *)
Smembers(w) ==
  /\ Ready(w, "members")
  /\ Become(w, ForEach(accounts[Gateway[w]],
                 LAMBDA a : <<Command("account", a, Nil, Nil)>>))
  /\ UNCHANGED <<redis, device, socket, restarts, overtaken, copy, served>>

HgetAll(w) ==
  /\ Ready(w, "account")
  /\ LET a == Now(w).who
         own == {f[1] : f \in
                   {g \in fields[a] : At[g[1]] \in Begun[Gateway[w]]}}
     IN Become(w, ForEach(own, LAMBDA s : <<Command("field", a, s, Nil)>>))
  /\ UNCHANGED <<redis, device, socket, restarts, overtaken, copy, served>>

RemoveField(w) ==
  /\ Ready(w, "field")
  /\ fields' = [fields EXCEPT ![Now(w).who] = {f \in @ : f[1] # Now(w).at}]
  /\ Proceed(w)
  /\ UNCHANGED <<accounts, holder, device, socket,
                 restarts, overtaken, copy, served>>

Next ==
  \E w \in Workers :
    \/ \E r \in Requests : Receive(w, r)
    \/ Hset(w) \/ Sadd(w) \/ SetHolder(w)
    \/ GetHolder(w) \/ Hget(w) \/ Hdel(w) \/ Others(w) \/ Srem(w)
    \/ InternalPush(w) \/ EnterDevice(w) \/ SetAsConnected(w)
    \/ SetAsDisconnected(w) \/ RemoveDevice(w) \/ IncrementBadge(w)
    \/ SendFCM(w) \/ Restart(w) \/ Smembers(w) \/ HgetAll(w)
    \/ RemoveField(w)

Stop == /\ \A b \in Bundles : Idle(b)
        /\ UNCHANGED vars

Spec == Init /\ [][Next \/ Stop]_vars

-----------------------------------------------------------------------------
(* Properties.                                                             *)

TypeOK ==
  /\ fields \in [Accounts -> SUBSET Field]
  /\ accounts \in [Bundles -> SUBSET Accounts]
  /\ holder \in [Sockets -> Accounts \cup {Nil}]
  /\ device \in [Devices -> DeviceDocs \cup {Nil}]
  /\ socket \in [Sockets -> {"new", "open", "closed", "lost"}]
  /\ overtaken \subseteq Accounts \X Bundles

(* Once a gateway has restarted, no account has a field of a socket that   *)
(* it held before: the set of accounts it is found by never lost one that  *)
(* still had a socket there, however its connections, disconnections and   *)
(* the pushes of all gateways interleaved and whenever it stopped, but for *)
(* two: an account that entered a socket after a removal had found no more *)
(* of it and before that left the set, and one that was being entered when *)
(* the gateway stopped.                                                    *)
RestartForgets ==
  \A b \in Bundles : Idle(b) =>
    \A a \in Accounts : <<a, b>> \notin overtaken =>
      \A f \in fields[a] : At[f[1]] = b => socket[f[1]] # "lost"
=============================================================================
