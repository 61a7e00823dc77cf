--------------------------- MODULE PlaceInvariants ---------------------------
(***************************************************************************)
(* What PlaceProofs says of PlaceMembership: what a step may change, what  *)
(* a script has still to do, the order its commands come in, and the parts *)
(* of the inductive invariants.                                            *)
(***************************************************************************)
EXTENDS PlaceMembership

Scripts == Seq(Commands)

(* One account moves between roles, with the counters.                     *)
Moved(c, d, a) ==
  \/ /\ a \notin c.creators \cup c.keys
     /\ d.creators = c.creators /\ d.nCreators = c.nCreators
     /\ d.keys = c.keys \cup {a} /\ d.nKeys = c.nKeys + 1
  \/ /\ a \in c.keys \ c.creators
     /\ d.creators = c.creators /\ d.nCreators = c.nCreators
     /\ d.keys = c.keys \ {a} /\ d.nKeys = c.nKeys - 1
  \/ /\ a \in c.keys \ c.creators
     /\ d.creators = c.creators \cup {a} /\ d.nCreators = c.nCreators + 1
     /\ d.keys = c.keys \ {a} /\ d.nKeys = c.nKeys - 1
  \/ /\ a \in c.creators \ c.keys
     /\ d.creators = c.creators \ {a} /\ d.nCreators = c.nCreators - 1
     /\ d.keys = c.keys \cup {a} /\ d.nKeys = c.nKeys + 1

SameRoster(c, d) ==
  \/ c = d
  \/ /\ c # Nil /\ d # Nil
     /\ d.creators = c.creators /\ d.nCreators = c.nCreators
     /\ d.keys = c.keys /\ d.nKeys = c.nKeys

Changed(c, d) ==
  \/ SameRoster(c, d)
  \/ c = Nil /\ d = NewPlace
  \/ c # Nil /\ d = Nil
  \/ c # Nil /\ d # Nil /\ \E a \in Accounts : Moved(c, d, a)

(* At most one place changes, by one of these.                             *)
OnePlaceChanges ==
  \E p \in Places :
    /\ Changed(db[p], db'[p])
    /\ \A q \in Places : q # p => db'[q] = db[q]

Counted(c) ==
  /\ c.creators \cap c.keys = {}
  /\ c.nCreators = Cardinality(c.creators)
  /\ c.nKeys = Cardinality(c.keys)

RolesOf(c) == IF c = Nil THEN Nil ELSE [a \in Accounts |-> RoleIn(c, a)]

OneWorker == \A v, w \in Workers : v = w

(* A worker that panicked runs its deferred DELs and serves no more.       *)
Deferred(d) ==
  \/ d = <<>>
  \/ \E k \in Keys : d = <<Del(k)>>
  \/ \E j, k \in Keys : d = <<Del(j), Del(k)>>

Stopped(s) ==
  \/ s = <<Halt>>
  \/ \E k \in Keys : s = <<Del(k), Halt>>
  \/ \E j, k \in Keys : s = <<Del(j), Del(k), Halt>>

(* The commands that decide what comes next, and those of them, with       *)
(* Evict, that look at a document read just before.                        *)
Deciding == {"serve", "enlist", "admit", "dismiss", "tour", "visit",
             "dissolve", "insert"}
Judging == {"enlist", "dismiss", "visit", "dissolve", "insert", "evict"}

Judged(c) ==
  IF c.do \in {"enlist", "insert"} THEN Grand
  ELSE IF c.do = "dismiss" THEN c.who ELSE c.on

(* The documents whose copies a command makes stale.                       *)
Dirtied(c) ==
  IF c.do \in {"join", "raise", "lower", "expel", "delete"} THEN {c.on}
  ELSE IF c.do \in {"count", "uncount"} THEN {Grand}
  ELSE IF c.do = "grant" THEN {c.who} ELSE {}

(* From i on the copy of k is deleted before k is read or anything is      *)
(* decided.                                                                *)
Drops(s, k, i) ==
  \E j \in i..Len(s) :
    /\ s[j] = Del(k)
    /\ \A m \in i..j : s[m] # Get(k) /\ s[m].do \notin Deciding

(* What a request's script is made of.                                     *)
Reading == {"get", "use", "del", "serve"}
AddingSteps == {"enlist", "admit", "join", "grant"}
LeavingSteps == {"dismiss", "tour", "visit", "lower", "expel", "revoke"}

Running(op) ==
  IF op \in {"add_member", "invite_member"} THEN AddingSteps
  ELSE IF op = "promote_member" THEN {"raise"}
  ELSE IF op = "demote_member" THEN {"lower"}
  ELSE IF op \in {"leave", "remove_member"} THEN LeavingSteps
  ELSE IF op = "remove" THEN {"dissolve", "uncount", "evict", "delete"}
  ELSE {"insert", "count", "join", "grant", "raise"}

(* The opening of a request: two reads and the handler.                    *)
Opens(s, r) ==
  LET serve == Command("serve", r.place, r.who)
  IN  \/ s = <<Get(r.who), Get(Subject(r)), serve>>
      \/ s = <<Get(Subject(r)), serve>>
      \/ s = <<serve>>

(* In a script what was written is dropped before it is read again, what   *)
(* is judged was read just before, a counter is changed first, who is      *)
(* expelled loses access and who joins gets it.                            *)
ShapedAt(s, i) ==
  /\ \A k \in Dirtied(s[i]) : Drops(s, k, i + 1)
  /\ s[i].do \in Judging /\ i > 1 => s[i - 1] = Get(Judged(s[i]))
  /\ s[i].do = "dismiss" => i \in {1, 2} /\ s[i].on = Grand
  /\ s[i].do \in {"count", "uncount"} => i = 1 /\ s[i].on = Grand
  /\ s[i].do = "expel" =>
       \E j \in (i + 1)..Len(s) :
         s[j] = Command("revoke", s[i].on, s[i].who)
  /\ s[i].do = "join" =>
       \E j \in (i + 1)..Len(s) :
         s[j] = Command("grant", s[i].on, s[i].who)

Shaped(s) == \A i \in 1..Len(s) : ShapedAt(s, i)

InCourse(s, r) ==
  \A i \in 1..Len(s) :
    /\ s[i].do \in Reading \cup Running(r.op)
    /\ s[i].do = "serve" => Opens(s, r)

(* A copy of a place that is the place's document; a copy of an account    *)
(* that lists every place the account has access to.                       *)
Agrees(d, k, c) ==
  IF k \in Places THEN c = d[k]
  ELSE c # Nil /\ d[k].access \subseteq c.access

(* The inductive invariant: cached copies agree until a DEL of them that   *)
(* is on its way, and so does what a worker is about to judge.             *)
SoloAt(w) ==
  LET s == script[w]
  IN  /\ Shaped(s)
      /\ InCourse(s, req[w])
      /\ \A k \in Keys :
           cache[k] = Nil \/ Agrees(db, k, cache[k]) \/ Drops(s, k, 1)
      /\ phase[w] = "fill" => copy[w][Head(s).on] = db[Head(s).on]
      /\ s # <<>> /\ Head(s).do \in Judging =>
           Agrees(db, Judged(Head(s)), copy[w][Judged(Head(s))])
      /\ \A i \in 1..Len(s) :
           s[i].do = "dismiss" => copy[w][Grand] = db[Grand]
      /\ At(w, "serve") => copy[w][Subject(req[w])] = db[Subject(req[w])]
      /\ s # <<>> /\ s[Len(s)].do = "serve" /\ Len(s) < 3 =>
           Agrees(db, req[w].who, copy[w][req[w].who])

Solo == \A w \in Workers : Stopped(script[w]) \/ SoloAt(w)

Makes(s, dos) ==
  s \in Scripts /\ Shaped(s) /\ \A i \in 1..Len(s) : s[i].do \in dos

Ranked(d, p) == IF d[p] = Nil THEN {} ELSE d[p].creators
Held(d, p)   == IF d[p] = Nil THEN {} ELSE d[p].keys
Belong(d, p) == Ranked(d, p) \cup Held(d, p)

(* Only the roster of p may differ.                                        *)
Reroled(d, e, p, creators, keys) ==
  /\ \A k \in Keys : k # p => e[k] = d[k]
  /\ d[p] = Nil <=> e[p] = Nil
  /\ d[p] # Nil => /\ e[p].creators = creators /\ e[p].keys = keys
                   /\ e[p].nChildren = d[p].nChildren

(* Only the children of the grand place are counted anew.                  *)
Recounted(d, e, n) ==
  /\ \A k \in Keys : k # Grand => e[k] = d[k]
  /\ d[Grand] = Nil <=> e[Grand] = Nil
  /\ d[Grand] # Nil => /\ e[Grand].creators = d[Grand].creators
                       /\ e[Grand].keys = d[Grand].keys
                       /\ e[Grand].nChildren = d[Grand].nChildren + n

(* What the update c makes of the documents d.                             *)
Does(c, d, e) ==
  LET p == c.on
      a == c.who
  IN  \/ /\ c.do = "join"
         /\ Reroled(d, e, p, Ranked(d, p),
                             Held(d, p) \cup ({a} \ Ranked(d, p)))
      \/ /\ c.do = "raise"
         /\ Reroled(d, e, p, Ranked(d, p) \cup ({a} \cap Held(d, p)),
                             Held(d, p) \ {a})
      \/ /\ c.do = "lower"
         /\ Reroled(d, e, p, Ranked(d, p) \ {a},
                             Held(d, p) \cup ({a} \cap Ranked(d, p)))
      \/ /\ c.do = "expel"
         /\ Reroled(d, e, p, Ranked(d, p), Held(d, p) \ {a})
      \/ /\ c.do = "grant"
         /\ \A k \in Keys : k # a => e[k] = d[k]
         /\ e[a].access = d[a].access \cup {p}
      \/ /\ c.do = "revoke"
         /\ \A k \in Keys : k # a => e[k] = d[k]
         /\ e[a].access = d[a].access \ {p}
      \/ c.do = "count" /\ p = Grand /\ Recounted(d, e, 1)
      \/ c.do = "uncount" /\ p = Grand /\ Recounted(d, e, -1)
      \/ /\ c.do = "evict"
         /\ \A q \in Places : e[q] = d[q]
         /\ \A b \in Accounts :
              e[b].access = IF b \in Belong(d, p) THEN d[b].access \ {p}
                                                  ELSE d[b].access
      \/ /\ c.do = "delete"
         /\ \A k \in Keys : k # p => e[k] = d[k]
         /\ e[p] = Nil

(* The scripts of Remove and CreateLockedPlace.                            *)
Removal(p) ==
  (IF p = Grand THEN <<>> ELSE <<Command("uncount", Grand, NoOne)>>)
    \o <<Get(p), Command("evict", p, NoOne), Command("delete", p, NoOne)>>
    \o RemoveDefers(p)

Founding(p, a) ==
  <<Command("count", Grand, NoOne), Del(Grand)>>
    \o AddKeyHolder(p, a) \o Promote(p, a) \o <<Del(a)>>

(* What the handler of r answers with, given the documents d.              *)
Serves(d, r, calls) ==
  LET p == r.place
      a == r.who
      b == Head(r.list)
      c == d[Subject(r)]
  IN  /\ c # Nil /\ Valid(r, c) /\ Entitled(r, c)
      /\ \/ /\ r.op = "invite_member"
            /\ calls = AddMembers(Joining(r, c), a)
         \/ /\ r.op = "add_member"
            /\ calls = <<Get(Grand), Command("enlist", Joining(r, c), a)>>
         \/ r.op = "promote_member" /\ calls = Promote(p, b)
         \/ r.op = "demote_member" /\ calls = Demote(p, b)
         \/ /\ r.op = "leave"
            /\ \E S \in SUBSET Subs :
                 /\ p = Grand => d[a].access \cap Subs \subseteq S
                 /\ calls = Tour(S, a) \o RemoveByRole(p, a, c)
         \/ /\ r.op = "remove_member" /\ p = Grand
            /\ calls = <<Get(b), Command("dismiss", Grand, b)>>
         \/ /\ r.op = "remove_member" /\ p # Grand
            /\ calls = RemoveByRole(p, b, c)
         \/ /\ r.op = "remove"
            /\ calls = <<Get(p), Command("dissolve", p, NoOne)>>
         \/ /\ r.op = "add_place"
            /\ calls = <<Get(Grand), Command("insert", p, a)>>

(* What the command c of r decides to do next, given the documents d.      *)
Decides(d, r, c, calls) ==
  LET on == c.on
      a  == c.who
  IN  \/ c.do = "serve" /\ calls \in {<<>>, <<Get(Grand), Use(Grand)>>}
      \/ c.do = "serve" /\ Serves(d, r, calls)
      \/ /\ c.do = "enlist" /\ d[Grand] # Nil
         /\ calls = AddMembers([on EXCEPT !.eligible =
                                            @ \cap Members(d[Grand])], a)
      \/ /\ c.do = "admit"
         /\ ~(Head(on.list) \in on.eligible /\ on.room > 0)
         /\ calls = AddMembers([on EXCEPT !.list = Tail(@)], a)
      \/ /\ c.do = "admit"
         /\ Head(on.list) \in on.eligible /\ on.room > 0
         /\ calls = (AddKeyHolder(on.place, Head(on.list))
                       \o <<Del(Head(on.list))>>)
                      \o AddMembers([on EXCEPT !.list = Tail(@), !.room =
                                       @ - (IF r.admin THEN 0 ELSE 1)], a)
      \/ /\ c.do = "dismiss"
         /\ \E S \in SUBSET Subs :
              /\ d[a].access \cap Subs \subseteq S
              /\ calls = Tour(S, a) \o RemoveByRole(Grand, a, d[Grand])
      \/ /\ c.do = "tour"
         /\ \E q \in on : calls = <<Get(q), Command("visit", q, a)>>
                                    \o Tour(on \ {q}, a)
      \/ /\ c.do = "visit"
         /\ \/ d[on] = Nil /\ calls = <<>>
            \/ d[on] # Nil /\ calls = RemoveByRole(on, a, d[on])
            \/ /\ d[on] # Nil /\ a \notin d[on].creators
               /\ calls = RemoveKeyHolder(on, a)
      \/ c.do = "dissolve" /\ calls = <<Del(on)>>
      \/ /\ c.do = "dissolve" /\ d[on] # Nil /\ d[on].nChildren <= 0
         /\ calls = Removal(on)
      \/ c.do = "insert" /\ calls = <<Del(Grand)>>

(* A step from the documents d and script s to e and t, on behalf of r.    *)
Steps(d, r, s, e, t) ==
  \/ e = d /\ t = s
  \/ /\ s # <<>>
     /\ \/ Head(s).do \in {"get", "use", "del"} /\ e = d /\ t = Tail(s)
        \/ Does(Head(s), d, e) /\ t = Tail(s)
        \/ \E calls :
             Decides(d, r, Head(s), calls) /\ e = d /\ t = calls \o Tail(s)
        \/ /\ Head(s).do = "insert" /\ d[Grand] # Nil
           /\ d[Head(s).on] = Nil /\ e = [d EXCEPT ![Head(s).on] = NewPlace]
           /\ t = Founding(Head(s).on, Head(s).who) \o Tail(s)

(* The documents a lone worker has, and what is known of its script.       *)
Stores(d) ==
  /\ IsStore(d)
  /\ \A a \in Accounts : d[a] # Nil
  /\ \A p \in Places : Ranked(d, p) \cap Held(d, p) = {}

Has(s, c) == \E i \in 1..Len(s) : s[i] = c

Bare(s, e, C) ==
  \E i \in 1..Len(s) : s[i] = e /\ \A j \in 1..(i - 1) : s[j] \notin C

Followed(s, e, c) ==
  \A i \in 1..Len(s) : s[i] = e => \E j \in (i + 1)..Len(s) : s[j] = c

(* The commands that update, and which documents.                          *)
Updating == {"join", "raise", "lower", "expel", "grant", "revoke", "count",
             "uncount", "evict", "delete"}

(* A request's script and the documents.                                   *)
Course(d, r, s) ==
  /\ r \in Requests /\ s \in Scripts /\ Stores(d)
  /\ Shaped(s) /\ InCourse(s, r)

(* These are followed by nothing.                                          *)
Final == {"serve", "enlist", "admit", "dissolve", "insert"}

Finals(s) == \A i \in 1..Len(s) : s[i].do \in Final => i = Len(s)

Ordered(s) ==
  /\ Finals(s)
  /\ \A p : Followed(s, Command("evict", p, NoOne),
                        Command("delete", p, NoOne))

Only(s, dos) == s \in Scripts /\ \A i \in 1..Len(s) : s[i].do \in dos

(* The manager's functions, the tour and the loop.                         *)
Removing == {"get", "lower", "expel", "revoke", "del"}

(* What a request calls, and who is at the head of its list.               *)
Called == {"get", "use", "del", "enlist", "admit", "raise", "lower", "expel",
           "revoke", "tour", "visit", "dismiss", "dissolve", "insert"}

(* A step, by what the command at hand is.                                 *)
StepCase(d, r, s, e, t) ==
  \/ e = d /\ t = s
  \/ /\ s # <<>> /\ t = Tail(s)
     /\ \/ Head(s).do \in {"get", "use", "del"} /\ e = d
        \/ Does(Head(s), d, e)
  \/ /\ s # <<>> /\ e = d
     /\ \E calls \in Scripts :
          /\ Decides(d, r, Head(s), calls)
          /\ Head(s).do \in {"dismiss", "tour", "visit"}
          /\ t = calls \o Tail(s)
  \/ /\ s # <<>> /\ Tail(s) = <<>> /\ e = d
     /\ Decides(d, r, Head(s), t)
     /\ Head(s).do \in Final
  \/ /\ s # <<>> /\ Tail(s) = <<>> /\ Head(s).do = "insert"
     /\ Head(s).on \in Places /\ Head(s).who \in Accounts
     /\ d[Grand] # Nil /\ d[Head(s).on] = Nil
     /\ e = [d EXCEPT ![Head(s).on] = NewPlace]
     /\ t = Founding(Head(s).on, Head(s).who)

(* The sub-places that are there to stay, and a counter still to change.   *)
Kept(d, s) ==
  {p \in Subs : d[p] # Nil /\ ~Has(s, Command("delete", p, NoOne))}

Pending(s, do) == IF s # <<>> /\ Head(s).do = do THEN 1 ELSE 0

ChildrenDue(d, s) ==
  d[Grand] # Nil =>
    d[Grand].nChildren + Pending(s, "count")
      = Cardinality(Kept(d, s)) + Pending(s, "uncount")

(* Who is granted a place belongs to it or joins it first, who is expelled *)
(* is no creator or is lowered first, whose place is revoked does not      *)
(* belong to it or is expelled first, and a place that is deleted is       *)
(* listed by nobody or its members are evicted first.                      *)
Sound(d, s) ==
  /\ \A p \in Places, a \in Accounts :
       /\ \A do \in {"join", "grant", "dismiss"} :
            Has(s, Command(do, p, a)) => d[p] # Nil
       /\ Bare(s, Command("grant", p, a), {Command("join", p, a)}) =>
            a \in Belong(d, p)
       /\ Bare(s, Command("expel", p, a), {Command("lower", p, a)}) =>
            a \notin Ranked(d, p)
       /\ Bare(s, Command("revoke", p, a), {Command("expel", p, a)}) =>
            a \notin Belong(d, p)
       /\ Bare(s, Command("delete", p, NoOne), {Command("evict", p, NoOne)}) =>
            p \notin d[a].access
  /\ \A l \in Loops, a \in Accounts :
       Has(s, Command("enlist", l, a)) \/ Has(s, Command("admit", l, a)) =>
         d[l.place] # Nil

(* What lists and rosters differ by is still to be done.                   *)
Agreeing(d, s) ==
  \A p \in Places, a \in Accounts :
    /\ a \in Belong(d, p) /\ p \notin d[a].access =>
         \/ Has(s, Command("grant", p, a))
         \/ Has(s, Command("delete", p, NoOne))
    /\ p \in d[a].access /\ a \notin Belong(d, p) =>
         Has(s, Command("revoke", p, a))

InStep(d, s) ==
  /\ Ordered(s)
  /\ Sound(d, s)
  /\ Agreeing(d, s)
  /\ ChildrenDue(d, s)

(* Without workers the documents stay as they were founded.                *)
Alone ==
  /\ \A w \in Workers : Stopped(script[w]) \/ InStep(db, script[w])
  /\ Workers = {} => InStep(db, <<>>)

(* A step of a lone worker: a request is received, nothing changes that    *)
(* the documents or the script show, or the script goes on.                *)
Advances(d, r, s, e, t) ==
  \/ e = d /\ s = <<>> /\ Only(t, {"get", "serve"}) /\ Finals(t)
  \/ e = d /\ t = s
  \/ Course(d, r, s) /\ Course(e, r, t) /\ Steps(d, r, s, e, t)

(* What takes a from the sub-place q, now or when it is decided.           *)
Departing(q, a) ==
  {Command("expel", q, a), Command("visit", q, a)}
    \cup {Command("tour", S, a) : S \in {T \in SUBSET Subs : q \in T}}

Inside(d) ==
  \A p \in Subs : /\ d[p] # Nil => d[Grand] # Nil
                  /\ Belong(d, p) \subseteq Belong(d, Grand)

(* Who is about to join or to found a sub-place is a member of the grand   *)
(* place, who is expelled from that has left the sub-places or leaves them *)
(* first, and it is deleted only when it has none.                         *)
Housing(d, s) ==
  /\ \A p \in Subs, a \in Accounts :
       /\ \A do \in {"join", "insert"} :
            Has(s, Command(do, p, a)) => a \in Belong(d, Grand)
       /\ Bare(s, Command("expel", Grand, a), Departing(p, a)) =>
            a \notin Belong(d, p)
  /\ \A l \in Loops, a \in Accounts :
       l.place \in Subs /\ Has(s, Command("admit", l, a)) =>
         l.eligible \subseteq Belong(d, Grand)
  /\ \A a \in Accounts : ~Has(s, Command("visit", Grand, a))
  /\ Has(s, Command("delete", Grand, NoOne)) => \A p \in Subs : d[p] = Nil

(* New places are founded by members.                                      *)
FoundedByMembers == \A r \in Requests : r.op = "add_place" => ~r.admin

(* The sub-places there are at the start have their members from the grand *)
(* place.                                                                  *)
FoundedInside ==
  \A f \in Foundings : \A p \in Subs :
    f[p] # Nil => Members(f[p]) \subseteq Members(f[Grand])

Housed ==
  /\ \A w \in Workers :
       Stopped(script[w]) \/ (Inside(db) /\ Housing(db, script[w]))
  /\ Workers = {} => Inside(db)

(* Who a script has still to join, raise, lower or expel.                  *)
Doing(s, do, p) == {a \in Accounts : Has(s, Command(do, p, a))}

(* The rosters once the script has run.  Who leaves is lowered before he   *)
(* is expelled, who founds a place joins before he is raised: for a moment *)
(* there may be a key holder more.                                         *)
ComingKeys(d, s, p) ==
  (Held(d, p) \cup Doing(s, "join", p) \cup Doing(s, "lower", p))
    \ (Doing(s, "expel", p) \cup Doing(s, "raise", p))

ComingCreators(d, s, p) ==
  (Ranked(d, p) \cup Doing(s, "raise", p)) \ Doing(s, "lower", p)

(* They are within the limits, with the room a loop has left.              *)
Limited(d, s) ==
  /\ \A p \in Places :
       /\ Cardinality(ComingKeys(d, s, p)) <= KeyholderLimit
       /\ Cardinality(ComingCreators(d, s, p)) <= CreatorLimit
  /\ \A l \in Loops, a \in Accounts, do \in {"enlist", "admit"} :
       Has(s, Command(do, l, a)) =>
         \/ l.room <= 0
         \/ Cardinality(ComingKeys(d, s, l.place)) + l.room
              <= KeyholderLimit

(* In a script that expels, who is lowered is expelled after it; in one    *)
(* that raises, who joins is raised after it.                              *)
Expelling == {"dismiss", "tour", "visit", "expel"}

Paired(s) ==
  /\ \/ \A p, a : Followed(s, Command("lower", p, a), Command("expel", p, a))
     \/ \A do \in Expelling : \A on, who : ~Has(s, Command(do, on, who))
  /\ \/ \A p, a : Followed(s, Command("join", p, a), Command("raise", p, a))
     \/ \A on, who : ~Has(s, Command("raise", on, who))

(* A script that changes no roster has the rosters there are.              *)
Changing == {"join", "lower", "expel", "raise"}

Leaving == Removing \cup {"tour", "visit"}

Leaves(s) ==
  /\ Only(s, Leaving)
  /\ \A p, a : Followed(s, Command("lower", p, a), Command("expel", p, a))

Within(d) ==
  \A p \in Places : /\ Cardinality(Held(d, p)) <= KeyholderLimit
                    /\ Cardinality(Ranked(d, p)) <= CreatorLimit

Tallied(d) ==
  \A p \in Places :
    d[p] # Nil => /\ d[p].nKeys = Cardinality(d[p].keys)
                  /\ d[p].nCreators = Cardinality(d[p].creators)

(* Requests that add or demote members come from clients: the handlers of  *)
(* api/admin do not count whom they add, and do not ask for room.          *)
AddedByClients ==
  \A r \in Requests :
    r.op \in {"add_member", "invite_member", "demote_member"} => ~r.admin

HasRoom(d, l) ==
  \/ l.room <= 0
  \/ Cardinality(Held(d, l.place)) + l.room <= KeyholderLimit

(* The places there are at the start are within the limits.                *)
FoundedWithin ==
  \A f \in Foundings : \A p \in Places :
    f[p] # Nil => /\ Cardinality(f[p].creators) <= CreatorLimit
                  /\ Cardinality(f[p].keys) <= KeyholderLimit

Fitting ==
  /\ \A w \in Workers :
       Stopped(script[w]) \/ (Limited(db, script[w]) /\ Paired(script[w]))
  /\ Workers = {} => Within(db)

=============================================================================
