------------------------ MODULE SnapshotSchedulesProofs ------------------------
(***************************************************************************)
(* Theorems about SnapshotSchedules, for any resources that users write,   *)
(* any series of edits and any number of crashes and failed calls.         *)
(***************************************************************************)
EXTENDS SnapshotSchedules, TLAPS

(* The operations that the event being handled still has to execute.       *)
Members(s) == {s[i] : i \in DOMAIN s}
Pending == Members(todo)
Comes(verb, on) == Op(verb, on) \in Pending

(* Each event begins with the version of the resource that the one before  *)
(* it ended with, and the last one ends with the present version.          *)
Linked(events) ==
    /\ \A i \in DOMAIN events : events[i].old # None \/ events[i].new # None
    /\ \A i \in DOMAIN events : i + 1 \in DOMAIN events => events[i].new = events[i + 1].old
    /\ events # <<>> => events[Len(events)].new = spec
Version == IF queue = <<>> THEN spec ELSE Head(queue).old
ChainInv ==
    /\ Linked(queue)
    /\ event # None => event.new = Version

(* An operation is one that the event asks for: it finds in the resource   *)
(* what it reads there.                                                    *)
Justified(o) ==
    /\ o = Op("add", "cluster") => event.new # None /\ ~known
    /\ o = Op("update", "cluster") => event.new # None /\ known
    /\ o = Op("delete", "cluster") => event.new = None
    /\ \A j \in Jobs :
         /\ o = Op("add", j) => event.new # None /\ Wants(event.new, j)
         /\ o = Op("update", j) =>
              /\ event.new # None /\ known
              /\ event.new.snap # None
              /\ j = "cleanup" => event.new.snap.policy # None
         /\ o = Op("delete", j) /\ event.new # None => ~Wants(event.new, j)

TaskInv ==
    event # None =>
        /\ \A o \in Pending : Justified(o)
        /\ \A o \in Members(Tail(todo)) : o.on # "cluster"
        /\ event.new = None /\ known => Comes("delete", "cluster")

(* A job, if it is there, is what version c of the resource asks for.      *)
Fits(c, j) ==
    jobs[j] # None =>
        /\ c # None /\ Wants(c, j)
        /\ jobs[j].schedule = CronJob(c.snap, j).schedule
        /\ jobs[j].command = CronJob(c.snap, j).command

(* Version c has been dealt with: the jobs of a known cluster are those it *)
(* asks for, a cluster that is not known has none.                         *)
Done(c) ==
    /\ known => c # None
    /\ \A j \in Jobs \ lost :
         /\ Fits(c, j)
         /\ known /\ Wants(c, j) => jobs[j] # None
         /\ ~known => jobs[j] = None

(* A restarted operator, which has the resource reported as new.           *)
Restarted ==
    /\ queue # <<>> /\ Head(queue).old = None /\ ~known
    /\ \A j \in Jobs \ lost : Fits(Head(queue).new, j)

(* While version c is handled, what is not yet so has its operation.       *)
HandledAs(c, j) ==
    /\ ~Comes("delete", j) =>
         IF Comes("update", j) THEN jobs[j] # None => Wants(c, j) ELSE Fits(c, j)
    /\ ~known /\ ~Comes("add", "cluster") /\ ~Comes("delete", j) => jobs[j] = None
    /\ c # None /\ (known \/ Comes("add", "cluster")) /\ Wants(c, j) =>
         jobs[j] # None \/ Comes("add", j)
Handled(j) == HandledAs(event.new, j)

(* A cluster that was refused stays without jobs.                          *)
RefusedAs(c) == c # None /\ ~known /\ ~Comes("add", "cluster") => ~Valid(c)
Refused == RefusedAs(event.new)

JobInv ==
    /\ ~running => \A j \in Jobs \ lost : Fits(spec, j)
    /\ running /\ event = None => Done(Version) \/ Restarted
    /\ event # None => Refused /\ \A j \in Jobs \ lost : Handled(j)

Inv == TypeOK /\ ChainInv /\ TaskInv /\ JobInv

-----------------------------------------------------------------------------
(* Sequences of operations. *)
Verbs == {"add", "update", "delete"}
Ops == [verb : Verbs, on : Jobs \cup {"cluster"}]
Events == [old : Resources, new : Resources]

LEMMA OpType ==
    ASSUME NEW verb \in Verbs, NEW on \in Jobs \cup {"cluster"}
    PROVE  Op(verb, on) \in Ops /\ Op(verb, on).verb = verb /\ Op(verb, on).on = on
  BY DEF Op, Ops

LEMMA SameOp ==
    ASSUME NEW verb, NEW on, NEW verb2, NEW on2, Op(verb, on) = Op(verb2, on2)
    PROVE  verb = verb2 /\ on = on2
<1>1. Op(verb, on).verb = verb /\ Op(verb, on).on = on /\ Op(verb2, on2).verb = verb2 /\ Op(verb2, on2).on = on2
  BY DEF Op
<1> QED
  BY <1>1

LEMMA Concatenated ==
    ASSUME NEW S, NEW s \in Seq(S), NEW t \in Seq(S)
    PROVE  s \o t \in Seq(S) /\ Members(s \o t) = Members(s) \cup Members(t)
<1>1. s \o t \in Seq(S) /\ Len(s \o t) = Len(s) + Len(t)
  OBVIOUS
<1>2. ASSUME NEW i \in DOMAIN (s \o t)
      PROVE  (s \o t)[i] \in Members(s) \cup Members(t)
  <2>1. i \in 1..(Len(s) + Len(t))
    BY <1>1
  <2>2. CASE i <= Len(s)
    BY <2>1, <2>2 DEF Members
  <2>3. CASE i > Len(s)
    <3>1. (s \o t)[i] = t[i - Len(s)] /\ i - Len(s) \in 1..Len(t)
      BY <2>1, <2>3
    <3> QED
      BY <3>1 DEF Members
  <2> QED
    BY <2>1, <2>2, <2>3
<1>3. ASSUME NEW i \in DOMAIN s
      PROVE  s[i] \in Members(s \o t)
  <2>1. i \in DOMAIN (s \o t) /\ (s \o t)[i] = s[i]
    BY <1>1
  <2> QED
    BY <2>1 DEF Members
<1>4. ASSUME NEW i \in DOMAIN t
      PROVE  t[i] \in Members(s \o t)
  <2>1. Len(s) + i \in DOMAIN (s \o t) /\ (s \o t)[Len(s) + i] = t[i]
    BY <1>1
  <2> QED
    BY <2>1 DEF Members
<1> QED
  BY <1>1, <1>2, <1>3, <1>4 DEF Members

LEMMA FirstAndRest ==
    ASSUME NEW S, NEW s \in Seq(S), s # <<>>
    PROVE  /\ Head(s) \in S /\ Tail(s) \in Seq(S) /\ Len(Tail(s)) = Len(s) - 1
           /\ Members(s) = {Head(s)} \cup Members(Tail(s))
           /\ Len(s) = 1 <=> Tail(s) = <<>>
<1>1. Len(s) \in Nat \ {0} /\ Head(s) = s[1] /\ Tail(s) \in Seq(S) /\ Len(Tail(s)) = Len(s) - 1
  OBVIOUS
<1>2. ASSUME NEW i \in DOMAIN s
      PROVE  s[i] \in {Head(s)} \cup Members(Tail(s))
  <2>1. CASE i = 1
    BY <1>1, <2>1
  <2>2. CASE i # 1
    <3>1. i - 1 \in DOMAIN Tail(s) /\ Tail(s)[i - 1] = s[i]
      BY <1>1, <2>2
    <3> QED
      BY <3>1 DEF Members
  <2> QED
    BY <2>1, <2>2
<1>3. ASSUME NEW i \in DOMAIN Tail(s)
      PROVE  Tail(s)[i] \in Members(s)
  <2>1. i + 1 \in DOMAIN s /\ Tail(s)[i] = s[i + 1]
    BY <1>1
  <2> QED
    BY <2>1 DEF Members
<1>4. Head(s) \in Members(s)
  BY <1>1 DEF Members
<1>5. Len(s) = 1 <=> Tail(s) = <<>>
  <2>1. ASSUME NEW t \in Seq(S)
        PROVE  Len(t) = 0 <=> t = <<>>
    OBVIOUS
  <2>2. Len(Tail(s)) = 0 <=> Tail(s) = <<>>
    BY <1>1, <2>1
  <2> QED
    BY <1>1, <2>2
<1>6. Members(s) = {Head(s)} \cup Members(Tail(s))
  BY <1>2, <1>3, <1>4 DEF Members
<1> QED
  BY <1>1, <1>5, <1>6

LEMMA Singleton ==
    ASSUME NEW S, NEW x \in S, NEW s \in Seq(S)
    PROVE  /\ <<x>> \o s \in Seq(S) /\ <<x>> \o s # <<>>
           /\ Tail(<<x>> \o s) = s
           /\ Members(<<x>> \o s) = {x} \cup Members(s)
<1>1. <<x>> \o s \in Seq(S) /\ Len(<<x>> \o s) = Len(s) + 1
  OBVIOUS
<1>2. Tail(<<x>> \o s) = s /\ Head(<<x>> \o s) = x /\ <<x>> \o s # <<>>
  BY <1>1
<1> QED
  BY <1>1, <1>2, FirstAndRest

LEMMA NoMembers == Members(<<>>) = {}
  BY DEF Members

LEMMA IfMembers ==
    ASSUME NEW cond \in BOOLEAN, NEW o \in Ops
    PROVE  If(cond, o) \in Seq(Ops) /\ Members(If(cond, o)) = IF cond THEN {o} ELSE {}
<1>1. CASE cond
  <2>1. If(cond, o) = <<o>>
    BY <1>1 DEF If
  <2>2. <<o>> \in Seq(Ops) /\ DOMAIN <<o>> = {1} /\ <<o>>[1] = o
    OBVIOUS
  <2>3. Members(<<o>>) = {o}
    <3> DEFINE s == <<o>>
    <3>1. DOMAIN s = {1} /\ s[1] = o
      OBVIOUS
    <3> HIDE DEF s
    <3>2. Members(s) = {o}
      BY <3>1 DEF Members
    <3> QED
      BY <3>2 DEF s
  <2> QED
    BY <1>1, <2>1, <2>2, <2>3
<1>2. CASE ~cond
  BY <1>2, NoMembers DEF If
<1> QED
  BY <1>1, <1>2

-----------------------------------------------------------------------------
(* The operations that the Receiver chooses. *)
Targets == Jobs \cup {"cluster"}

LEMMA MembersAreOps ==
    ASSUME NEW s \in Seq(Ops), NEW o \in Members(s)
    PROVE  o \in Ops /\ o.verb \in Verbs /\ o.on \in Targets /\ o = Op(o.verb, o.on)
<1>1. o \in Ops
  BY DEF Members
<1> QED
  BY <1>1 DEF Ops, Op, Targets

LEMMA ForSchedulesMembers ==
    ASSUME NEW verb \in Verbs, NEW c
    PROVE  /\ ForSchedules(verb, c) \in Seq(Ops)
           /\ \A v \in Verbs, on \in Targets :
                Op(v, on) \in Members(ForSchedules(verb, c)) <=> v = verb /\ on \in Jobs /\ Wants(c, on)
<1>1. Wants(c, "snapshot") \in BOOLEAN /\ Wants(c, "cleanup") \in BOOLEAN
  BY DEF Wants
<1>2. Op(verb, "snapshot") \in Ops /\ Op(verb, "cleanup") \in Ops
  BY OpType DEF Jobs
<1> DEFINE s == If(Wants(c, "snapshot"), Op(verb, "snapshot"))
           t == If(Wants(c, "cleanup"), Op(verb, "cleanup"))
<1>3. /\ s \in Seq(Ops) /\ Members(s) = IF Wants(c, "snapshot") THEN {Op(verb, "snapshot")} ELSE {}
      /\ t \in Seq(Ops) /\ Members(t) = IF Wants(c, "cleanup") THEN {Op(verb, "cleanup")} ELSE {}
  BY <1>1, <1>2, IfMembers
<1> HIDE DEF s, t
<1>4. s \o t \in Seq(Ops) /\ Members(s \o t) = Members(s) \cup Members(t)
  BY <1>3, Concatenated
<1>5. ForSchedules(verb, c) = s \o t
  BY DEF ForSchedules, s, t
<1>6. ASSUME NEW v \in Verbs, NEW on \in Targets
      PROVE  Op(v, on) \in Members(s \o t) <=> v = verb /\ on \in Jobs /\ Wants(c, on)
  BY <1>3, <1>4, SameOp DEF Jobs
<1> QED
  BY <1>4, <1>5, <1>6

LEMMA ChangeSchedulesMembers ==
    ASSUME NEW old, NEW new
    PROVE  /\ ChangeSchedules(old, new) \in Seq(Ops)
           /\ \A v \in Verbs, on \in Targets :
                Op(v, on) \in Members(ChangeSchedules(old, new)) <=>
                  \/ /\ v = "delete" /\ on = "cleanup"
                     /\ Wants(old, "cleanup") /\ ~Wants(new, "cleanup")
                  \/ v = "update" /\ on = "snapshot" /\ SnapshotPropertiesUpdated(old.snap, new.snap)
                  \/ v = "update" /\ on = "cleanup" /\ SnapshotCleanupPropertiesUpdated(old.snap, new.snap)
<1> DEFINE p == Wants(old, "cleanup") /\ ~Wants(new, "cleanup")
           q == SnapshotPropertiesUpdated(old.snap, new.snap)
           r == SnapshotCleanupPropertiesUpdated(old.snap, new.snap)
           s == If(p, Op("delete", "cleanup"))
           t == If(q, Op("update", "snapshot"))
           u == If(r, Op("update", "cleanup"))
<1>1. p \in BOOLEAN /\ q \in BOOLEAN /\ r \in BOOLEAN
  BY DEF SnapshotPropertiesUpdated, SnapshotCleanupPropertiesUpdated
<1>2. /\ Op("delete", "cleanup") \in Ops /\ Op("update", "snapshot") \in Ops
      /\ Op("update", "cleanup") \in Ops
  BY OpType DEF Jobs, Verbs
<1>3. ChangeSchedules(old, new) = s \o t \o u
  BY DEF ChangeSchedules
<1> HIDE DEF p, q, r
<1>4. /\ s \in Seq(Ops) /\ Members(s) = IF p THEN {Op("delete", "cleanup")} ELSE {}
      /\ t \in Seq(Ops) /\ Members(t) = IF q THEN {Op("update", "snapshot")} ELSE {}
      /\ u \in Seq(Ops) /\ Members(u) = IF r THEN {Op("update", "cleanup")} ELSE {}
  BY <1>1, <1>2, IfMembers
<1> HIDE DEF s, t, u
<1>5. s \o t \in Seq(Ops) /\ Members(s \o t) = Members(s) \cup Members(t)
  BY <1>4, Concatenated
<1>6. s \o t \o u \in Seq(Ops) /\ Members(s \o t \o u) = Members(s) \cup Members(t) \cup Members(u)
  <2> DEFINE st == s \o t
  <2>1. st \in Seq(Ops)
    BY <1>5
  <2> HIDE DEF st
  <2>2. st \o u \in Seq(Ops) /\ Members(st \o u) = Members(st) \cup Members(u)
    BY <1>4, <2>1, Concatenated
  <2> QED
    BY <1>5, <2>2 DEF st
<1>7. ASSUME NEW v \in Verbs, NEW on \in Targets
      PROVE  Op(v, on) \in Members(s \o t \o u) <=>
                \/ v = "delete" /\ on = "cleanup" /\ p
                \/ v = "update" /\ on = "snapshot" /\ q
                \/ v = "update" /\ on = "cleanup" /\ r
  BY <1>4, <1>6, SameOp
<1> QED
  BY <1>3, <1>6, <1>7 DEF p, q, r

(* Operations begin with the one on the cluster, and no other is. *)
Begins(ops, verb, rest) ==
    /\ ops \in Seq(Ops) /\ ops # <<>>
    /\ \A o \in Members(Tail(ops)) : o.on # "cluster"
    /\ \A v \in Verbs : Op(v, "cluster") \in Members(ops) <=> v = verb
    /\ \A v \in Verbs, on \in Jobs : Op(v, on) \in Members(ops) <=> Op(v, on) \in Members(rest)

LEMMA ClusterFirst ==
    ASSUME NEW verb \in Verbs, NEW rest \in Seq(Ops),
           \A v \in Verbs : Op(v, "cluster") \notin Members(rest)
    PROVE  Begins(<<Op(verb, "cluster")>> \o rest, verb, rest)
<1> DEFINE first == Op(verb, "cluster")
           ops == <<first>> \o rest
<1>1. first \in Ops
  BY OpType
<1>2. ops \in Seq(Ops) /\ ops # <<>> /\ Tail(ops) = rest /\ Members(ops) = {first} \cup Members(rest)
  <2> HIDE DEF first
  <2> QED
    BY <1>1, Singleton
<1> HIDE DEF ops
<1>3. ASSUME NEW o \in Members(Tail(ops))
      PROVE  o.on # "cluster"
  BY <1>2, MembersAreOps
<1>4. \A v \in Verbs : Op(v, "cluster") \in Members(ops) <=> v = verb
  BY <1>2, SameOp
<1>5. \A v \in Verbs, on \in Jobs : Op(v, on) # first
  BY SameOp DEF Jobs
<1>6. Begins(ops, verb, rest)
  <2> HIDE DEF first
  <2> QED
    BY <1>2, <1>3, <1>4, <1>5 DEF Begins
<1> QED
  BY <1>6 DEF ops

LEMMA SchedulesFirst ==
    ASSUME NEW verb \in Verbs, NEW other \in Verbs, NEW c
    PROVE  Begins(<<Op(verb, "cluster")>> \o ForSchedules(other, c), verb, ForSchedules(other, c))
<1>1. \A v \in Verbs : Op(v, "cluster") \notin Members(ForSchedules(other, c))
  BY ForSchedulesMembers DEF Targets, Jobs
<1> QED
  BY <1>1, ForSchedulesMembers, ClusterFirst

-----------------------------------------------------------------------------
(* The default image changes nothing that a job is compared by. *)
LEMMA DefinitionKeeps ==
    ASSUME NEW c \in Specs, c.snap # None
    PROVE  LET s == Definition(c).snap
           IN  /\ s.schedule = c.snap.schedule /\ s.keyspaces = c.snap.keyspaces
               /\ s.timeout = c.snap.timeout /\ s.policy = c.snap.policy
<1>1. c \in [ok : BOOLEAN, snap : {c.snap}] /\ IsSnapshot(c.snap)
  BY SnapshotSchedulesAssumption DEF IsResource
<1>2. [c EXCEPT !.snap.image = DefaultImage].snap = [c.snap EXCEPT !.image = DefaultImage]
  BY <1>1
<1> DEFINE s == c.snap
           t == [s EXCEPT !.image = DefaultImage]
<1>3. t.schedule = s.schedule /\ t.keyspaces = s.keyspaces /\ t.timeout = s.timeout /\ t.policy = s.policy
  <2>1. s \in [image : {s.image}, schedule : {s.schedule}, keyspaces : {s.keyspaces},
               timeout : {s.timeout}, policy : {s.policy}]
    BY <1>1 DEF IsSnapshot
  <2> HIDE DEF s
  <2> QED
    BY <2>1
<1> QED
  BY <1>2, <1>3 DEF Definition

LEMMA SameJob ==
    ASSUME NEW c \in Specs, NEW j \in Jobs, c.snap # None
    PROVE  /\ CronJob(Definition(c).snap, j).schedule = CronJob(c.snap, j).schedule
           /\ CronJob(Definition(c).snap, j).command = CronJob(c.snap, j).command
<1> DEFINE s == Definition(c).snap
<1>1. /\ s.schedule = c.snap.schedule /\ s.keyspaces = c.snap.keyspaces
      /\ s.timeout = c.snap.timeout /\ s.policy = c.snap.policy
  BY DefinitionKeeps
<1> HIDE DEF s
<1>2. /\ CronJob(s, j).schedule = CronJob(c.snap, j).schedule
      /\ CronJob(s, j).command = CronJob(c.snap, j).command
  BY <1>1 DEF CronJob, CreateSnapshotJob, CreateSnapshotCleanupJob, CronJobOf
<1> QED
  BY <1>2 DEF s

(* A job that is made is a job, and told from none. *)
LEMMA JobMade ==
    ASSUME NEW c \in Specs, NEW j \in Jobs, c.snap # None, j = "cleanup" => c.snap.policy # None
    PROVE  CronJob(Definition(c).snap, j) \in CronJobs /\ CronJob(Definition(c).snap, j) # None
<1>1. CronJob(Definition(c).snap, j) \in CronJobs
  BY DEF CronJobs, Jobs
<1> QED
  BY <1>1, NoneAssumption

LEMMA WantsPolicy ==
    ASSUME NEW c, NEW j, Wants(c, j)
    PROVE  c.snap # None /\ (j = "cleanup" => c.snap.policy # None)
  BY DEF Wants, HasRetentionPolicyEnabled

LEMMA NoneIsNoResource == None \notin Specs /\ None \in Resources /\ Specs \subseteq Resources
  BY SnapshotSchedulesAssumption DEF Resources

LEMMA EventType ==
    ASSUME NEW old \in Resources, NEW new \in Resources
    PROVE  /\ Event(old, new) \in Events /\ Event(old, new) # None
           /\ Event(old, new).old = old /\ Event(old, new).new = new
  BY NoneAssumption DEF Event, Events

LEMMA EventParts ==
    ASSUME NEW e \in Events
    PROVE  e.old \in Resources /\ e.new \in Resources /\ e # None
<1>1. e.old \in Resources /\ e.new \in Resources /\ e = Event(e.old, e.new)
  BY DEF Events, Event
<1> QED
  BY <1>1, NoneAssumption

LEMMA InitInv == Init => Inv
<1> SUFFICES ASSUME Init
             PROVE  Inv
  OBVIOUS
<1> USE DEF Init
<1>1. TypeOK
  <2>1. budget \in [edits : 0..MaxEdits, crashes : 0..MaxCrashes, errors : 0..MaxErrors]
    BY SnapshotSchedulesAssumption
  <2>2. jobs \in [Jobs -> CronJobs \cup {None}]
    OBVIOUS
  <2>3. queue \in Seq(Events) /\ todo \in Seq(Ops)
    OBVIOUS
  <2> QED
    BY <2>1, <2>2, <2>3 DEF TypeOK, Resources, Events, Ops, Verbs
<1>2. ChainInv
  BY DEF ChainInv, Linked
<1>3. TaskInv
  BY DEF TaskInv
<1>4. JobInv
  BY DEF JobInv, Done, Fits, Version
<1> QED
  BY <1>1, <1>2, <1>3, <1>4 DEF Inv

-----------------------------------------------------------------------------
(* Steps of the users, and the end and the start of the operator. *)
Budgets == [edits : 0..MaxEdits, crashes : 0..MaxCrashes, errors : 0..MaxErrors]

LEMMA TypeParts ==
    TypeOK <=>
      /\ spec \in Resources /\ queue \in Seq(Events) /\ event \in Events \cup {None}
      /\ todo \in Seq(Ops) /\ (event = None <=> todo = <<>>)
      /\ known \in BOOLEAN /\ running \in BOOLEAN /\ panicked \in BOOLEAN
      /\ (~running => queue = <<>> /\ event = None /\ ~known)
      /\ jobs \in [Jobs -> CronJobs \cup {None}] /\ lost \subseteq Jobs /\ budget \in Budgets
  BY DEF TypeOK, Events, Ops, Verbs, Budgets

(* What no step on the operator's side disturbs. *)
LEMMA TaskKept ==
    ASSUME TaskInv, UNCHANGED <<event, todo, known>>
    PROVE  TaskInv'
  BY DEF TaskInv, Pending, Comes, Justified

LEMMA Appended ==
    ASSUME NEW S, NEW s \in Seq(S), NEW x \in S
    PROVE  /\ Append(s, x) \in Seq(S) /\ Append(s, x) # <<>>
           /\ DOMAIN Append(s, x) = 1..(Len(s) + 1) /\ Len(Append(s, x)) = Len(s) + 1
           /\ \A i \in DOMAIN s : Append(s, x)[i] = s[i]
           /\ Append(s, x)[Len(s) + 1] = x
           /\ Head(Append(s, x)) = IF s = <<>> THEN x ELSE Head(s)
  OBVIOUS

LEMMA EditStep ==
    ASSUME Inv, NEW new \in Resources, Edit(new)
    PROVE  Inv'
<1> USE DEF Edit
<1>0. /\ spec \in Resources /\ queue \in Seq(Events) /\ event \in Events \cup {None}
      /\ running \in BOOLEAN /\ (~running => queue = <<>> /\ event = None /\ ~known)
      /\ lost \subseteq Jobs /\ budget \in Budgets
  BY TypeParts DEF Inv
<1> DEFINE e == Event(spec, new)
<1>1. e \in Events /\ e.old = spec /\ e.new = new
  BY <1>0, EventType
<1> HIDE DEF e
<1>2. queue' = IF running THEN Append(queue, e) ELSE queue
  BY DEF e
<1>3. budget' \in Budgets
  BY <1>0, SnapshotSchedulesAssumption DEF Budgets
<1>4. TypeOK'
  <2>1. queue' \in Seq(Events)
    BY <1>0, <1>1, <1>2, Appended
  <2>2. lost' \subseteq Jobs
    BY <1>0
  <2> QED
    BY <1>0, <1>2, <1>3, <2>1, <2>2, TypeParts DEF Inv, TypeOK, Events, Ops, Verbs, Budgets
<1>5. Version' = IF running THEN Version ELSE new
  <2>1. CASE running
    BY <1>0, <1>1, <1>2, <2>1, Appended DEF Version
  <2>2. CASE ~running
    BY <1>0, <1>2, <2>2 DEF Version
  <2> QED
    BY <1>0, <2>1, <2>2
<1>6. ChainInv'
  <2>1. CASE running
    <3>1. queue' = Append(queue, e)
      BY <1>2, <2>1
    <3>2. /\ queue' # <<>> /\ DOMAIN queue' = 1..(Len(queue) + 1) /\ Len(queue') = Len(queue) + 1
          /\ \A i \in DOMAIN queue : queue'[i] = queue[i]
          /\ queue'[Len(queue) + 1] = e
      BY <1>0, <1>1, <3>1, Appended
    <3>3. Len(queue) \in Nat /\ DOMAIN queue = 1..Len(queue) /\ (queue # <<>> => Len(queue) # 0)
      BY <1>0
    <3>4. Linked(queue)
      BY DEF Inv, ChainInv
    <3>5. ASSUME NEW i \in DOMAIN queue'
          PROVE  queue'[i].old # None \/ queue'[i].new # None
      <4>1. CASE i \in DOMAIN queue
        BY <3>2, <3>4, <4>1 DEF Linked
      <4>2. CASE i = Len(queue) + 1
        BY <1>1, <3>2, <4>2
      <4> QED
        BY <3>2, <3>3, <4>1, <4>2
    <3>6. ASSUME NEW i \in DOMAIN queue', i + 1 \in DOMAIN queue'
          PROVE  queue'[i].new = queue'[i + 1].old
      <4>1. CASE i + 1 \in DOMAIN queue
        <5>1. i \in DOMAIN queue
          BY <3>2, <3>3, <4>1
        <5> QED
          BY <3>2, <3>4, <4>1, <5>1 DEF Linked
      <4>2. CASE i = Len(queue)
        <5>1. i \in DOMAIN queue /\ queue # <<>>
          BY <3>2, <3>3, <4>2
        <5> QED
          BY <1>1, <3>2, <3>4, <4>2, <5>1 DEF Linked
      <4> QED
        BY <3>2, <3>3, <3>6, <4>1, <4>2
    <3>7. queue'[Len(queue')].new = spec'
      BY <1>1, <3>2
    <3>8. Linked(queue)'
      BY <3>5, <3>6, <3>7 DEF Linked
    <3> QED
      BY <1>5, <2>1, <3>8 DEF ChainInv, Inv
  <2>2. CASE ~running
    BY <1>0, <1>2, <2>2 DEF ChainInv, Linked
  <2> QED
    BY <1>0, <2>1, <2>2
<1>7. TaskInv'
  BY TaskKept DEF Inv
<1>8. JobInv'
  <2>1. CASE running /\ event = None
    <3>1. Done(Version) => Done(Version)'
      BY <1>5, <2>1 DEF Done, Fits
    <3>2. Restarted => Restarted'
      BY <1>0, <1>1, <1>2, <2>1, Appended DEF Restarted, Fits
    <3> QED
      BY <2>1, <3>1, <3>2 DEF Inv, JobInv
  <2>2. CASE running /\ event # None
    BY <2>2 DEF Inv, JobInv, Refused, RefusedAs, Handled, HandledAs, Comes, Pending, Fits
  <2>3. CASE ~running
    BY <1>0, <2>3 DEF JobInv
  <2> QED
    BY <1>0, <2>1, <2>2, <2>3
<1> QED
  BY <1>4, <1>6, <1>7, <1>8 DEF Inv

(* A crash while nothing is to be done loses nothing. *)
LEMMA StopsStep ==
    ASSUME Inv, Stops, running, UNCHANGED <<spec, jobs>>, panicked' \in BOOLEAN, budget' \in Budgets,
           lost' = Jobs \/ (Settled /\ lost' = lost)
    PROVE  Inv'
<1> USE DEF Stops
<1>0. /\ spec \in Resources /\ lost \subseteq Jobs /\ jobs \in [Jobs -> CronJobs \cup {None}]
  BY TypeParts DEF Inv
<1>1. TypeOK'
  <2>1. queue' \in Seq(Events) /\ todo' \in Seq(Ops)
    OBVIOUS
  <2> QED
    BY <1>0, <2>1 DEF TypeOK, Events, Ops, Verbs, Budgets
<1>2. ChainInv' /\ TaskInv'
  BY DEF ChainInv, Linked, TaskInv
<1>3. JobInv'
  <2>1. CASE lost' = Jobs
    BY <2>1 DEF JobInv
  <2>2. CASE Settled /\ lost' = lost
    <3>1. Done(spec)
      BY <2>2 DEF Settled, Inv, JobInv, Restarted, Version
    <3>2. \A j \in Jobs \ lost' : Fits(spec, j)'
      BY <2>2, <3>1 DEF Done, Fits
    <3> QED
      BY <3>2 DEF JobInv
  <2> QED
    BY <2>1, <2>2
<1> QED
  BY <1>1, <1>2, <1>3 DEF Inv

LEMMA CrashStep ==
    ASSUME Inv, Crash \/ ReceivePanics
    PROVE  Inv'
<1>0. budget \in Budgets
  BY TypeParts DEF Inv
<1>1. CASE Crash
  <2>1. budget' \in Budgets
    BY <1>0, <1>1, SnapshotSchedulesAssumption DEF Budgets, Crash
  <2> QED
    BY <1>1, <2>1, StopsStep DEF Crash
<1>2. CASE ReceivePanics
  BY <1>0, <1>2, StopsStep DEF ReceivePanics
<1> QED
  BY <1>1, <1>2

LEMMA RestartStep ==
    ASSUME Inv, Restart
    PROVE  Inv'
<1> USE DEF Restart
<1>0. /\ spec \in Resources /\ lost \subseteq Jobs /\ queue = <<>> /\ event = None /\ ~known /\ todo = <<>>
      /\ \A j \in Jobs \ lost : Fits(spec, j)
  BY TypeParts DEF Inv, JobInv
<1> DEFINE e == Event(None, spec)
<1>1. e \in Events /\ e.old = None /\ e.new = spec
  BY <1>0, EventType, NoneIsNoResource
<1> HIDE DEF e
<1>2. queue' = IF spec = None THEN <<>> ELSE <<e>>
  BY DEF e
<1>3. /\ spec # None => queue' \in Seq(Events) /\ Len(queue') = 1 /\ queue'[1] = e
                        /\ Head(queue') = e /\ queue' # <<>> /\ DOMAIN queue' = {1}
      /\ spec = None => queue' = <<>> /\ queue' \in Seq(Events)
  BY <1>1, <1>2
<1>4. TypeOK'
  BY <1>0, <1>3, TypeParts DEF Inv, TypeOK, Events, Ops, Verbs, Budgets
<1>5. ChainInv'
  BY <1>0, <1>1, <1>3 DEF ChainInv, Linked
<1>6. TaskInv'
  BY <1>0 DEF TaskInv
<1>7. JobInv'
  <2>1. CASE spec = None
    BY <1>0, <1>3, <2>1 DEF JobInv, Done, Version, Fits
  <2>2. CASE spec # None
    BY <1>0, <1>1, <1>3, <2>2 DEF JobInv, Restarted, Fits
  <2> QED
    BY <2>1, <2>2
<1> QED
  BY <1>4, <1>5, <1>6, <1>7 DEF Inv

-----------------------------------------------------------------------------
(* Receive: the operations cover whatever the new version asks for. *)

(* The event e is taken; the cluster and the jobs fit what it starts from. *)
Taken(e) ==
    /\ e \in Events /\ (e.old # None \/ e.new # None)
    /\ event' = e /\ todo' = Operations(e)
    /\ lost' = IF EnablesRetention(e) THEN lost \cup {"cleanup"} ELSE lost
    /\ UNCHANGED <<known, jobs>>
    /\ known \in BOOLEAN /\ lost \subseteq Jobs
    /\ \/ Done(e.old)
       \/ e.old = None /\ ~known /\ \A j \in Jobs \ lost : Fits(e.new, j)

Started ==
    /\ todo' \in Seq(Ops) /\ todo' # <<>> /\ lost' \subseteq Jobs
    /\ TaskInv'
    /\ Refused' /\ \A j \in Jobs \ lost' : Handled(j)'

(* It is enough to know which operations there are. *)
LEMMA ComesFrom ==
    ASSUME NEW verb \in Verbs, NEW rest \in Seq(Ops), Begins(todo', verb, rest)
    PROVE  /\ \A v \in Verbs : Comes(v, "cluster")' <=> v = verb
           /\ \A v \in Verbs, j \in Jobs : Comes(v, j)' <=> Op(v, j) \in Members(rest)
           /\ \A o \in Pending' : /\ o.verb \in Verbs /\ o.on \in Targets /\ Comes(o.verb, o.on)'
                                  /\ o.on = "cluster" => o.verb = verb
                                  /\ o.on # "cluster" => Op(o.verb, o.on) \in Members(rest)
<1>1. \A v \in Verbs, on \in Targets : Comes(v, on)' <=> Op(v, on) \in Members(todo')
  BY DEF Comes, Pending
<1>2. ASSUME NEW o \in Members(todo')
      PROVE  o.verb \in Verbs /\ o.on \in Targets /\ o = Op(o.verb, o.on)
  BY MembersAreOps DEF Begins
<1>3. Pending' = Members(todo')
  BY DEF Pending
<1> QED
  BY <1>1, <1>2, <1>3 DEF Begins, Targets

LEMMA ReceiveAdd ==
    ASSUME NEW e, Taken(e), e.new # None, e.old = None \/ ~known
    PROVE  Started
<1> USE DEF Taken
<1> DEFINE rest == ForSchedules("add", e.new)
<1>1. todo' = OperationsForAddCluster(e.new)
  BY DEF Operations, OperationsForUpdateCluster
<1>2. rest \in Seq(Ops) /\ Begins(todo', "add", rest)
  BY <1>1, SchedulesFirst, ForSchedulesMembers DEF OperationsForAddCluster, Verbs
<1>3. \A v \in Verbs, j \in Jobs : Op(v, j) \in Members(rest) <=> v = "add" /\ Wants(e.new, j)
  BY ForSchedulesMembers DEF Targets, Verbs
<1> HIDE DEF rest
<1>4. ~known /\ (\A j \in Jobs \ lost : Fits(e.new, j)) /\ lost' = lost
  BY DEF Done, Fits, EnablesRetention
<1>5. TaskInv'
  <2>1. ASSUME NEW o \in Pending'
        PROVE  Justified(o)'
    <3>1. \A v \in Verbs : o = Op(v, "cluster") => v = "add"
      BY <1>2, ComesFrom DEF Comes, Pending, Verbs
    <3>2. \A v \in Verbs, j \in Jobs : o = Op(v, j) => Op(v, j) \in Members(rest)
      BY <1>2, ComesFrom DEF Comes, Pending, Verbs
    <3> QED
      BY <1>3, <1>4, <3>1, <3>2 DEF Justified, Verbs
  <2> QED
    BY <1>2, <2>1 DEF TaskInv, Begins
<1>6. Refused'
  BY <1>2, ComesFrom DEF Refused, RefusedAs, Verbs
<1>7. ASSUME NEW j \in Jobs \ lost'
      PROVE  Handled(j)'
  <2>1. Comes("add", "cluster")' /\ ~Comes("delete", j)' /\ ~Comes("update", j)'
        /\ (Comes("add", j)' <=> Wants(e.new, j))
    BY <1>2, <1>3, ComesFrom DEF Verbs
  <2>2. Fits(e.new, j)'
    BY <1>4 DEF Fits
  <2> QED
    BY <2>1, <2>2 DEF Handled, HandledAs
<1> QED
  BY <1>2, <1>4, <1>5, <1>6, <1>7 DEF Started, Begins

LEMMA ReceiveDelete ==
    ASSUME NEW e, Taken(e), e.new = None
    PROVE  Started
<1> USE DEF Taken
<1> DEFINE rest == ForSchedules("delete", e.old)
<1>1. todo' = OperationsForDeleteCluster(e.old)
  BY DEF Operations
<1>2. rest \in Seq(Ops) /\ Begins(todo', "delete", rest)
  BY <1>1, SchedulesFirst, ForSchedulesMembers DEF OperationsForDeleteCluster, Verbs
<1>3. \A v \in Verbs, j \in Jobs : Op(v, j) \in Members(rest) <=> v = "delete" /\ Wants(e.old, j)
  BY ForSchedulesMembers DEF Targets, Verbs
<1> HIDE DEF rest
<1>4. Done(e.old) /\ lost' = lost
  BY DEF EnablesRetention
<1>5. TaskInv'
  <2>1. ASSUME NEW o \in Pending'
        PROVE  Justified(o)'
    <3>1. \A v \in Verbs : o = Op(v, "cluster") => v = "delete"
      BY <1>2, ComesFrom DEF Comes, Pending, Verbs
    <3>2. \A v \in Verbs, j \in Jobs : o = Op(v, j) => Op(v, j) \in Members(rest)
      BY <1>2, ComesFrom DEF Comes, Pending, Verbs
    <3> QED
      BY <1>3, <1>4, <3>1, <3>2 DEF Justified, Verbs
  <2>2. Comes("delete", "cluster")'
    BY <1>2, ComesFrom DEF Verbs
  <2> QED
    BY <1>2, <2>1, <2>2 DEF TaskInv, Begins
<1>6. Refused'
  BY DEF Refused, RefusedAs
<1>7. ASSUME NEW j \in Jobs \ lost'
      PROVE  Handled(j)'
  <2>1. (Comes("delete", j)' <=> Wants(e.old, j)) /\ ~Comes("update", j)'
    BY <1>2, <1>3, ComesFrom DEF Verbs
  <2>2. ~Wants(e.old, j) => jobs'[j] = None
    BY <1>4 DEF Done, Fits
  <2> QED
    BY <2>1, <2>2 DEF Handled, HandledAs, Fits
<1> QED
  BY <1>2, <1>4, <1>5, <1>6, <1>7 DEF Started, Begins

(* What becomes of the cleanup job is decided by the two versions' retention *)
(* policies, or is given up.                                                 *)
LEMMA ReceiveChange ==
    ASSUME NEW e, Taken(e), e.old # None, e.new # None, known, BothScheduled(e.old, e.new)
    PROVE  Started
<1> USE DEF Taken
<1> DEFINE rest == ChangeSchedules(e.old, e.new)
           p == Wants(e.old, "cleanup") /\ ~Wants(e.new, "cleanup")
           q == SnapshotPropertiesUpdated(e.old.snap, e.new.snap)
           r == SnapshotCleanupPropertiesUpdated(e.old.snap, e.new.snap)
<1>1. todo' = <<Op("update", "cluster")>> \o rest
  BY DEF Operations, OperationsForUpdateCluster
<1>2. rest \in Seq(Ops) /\ Begins(todo', "update", rest)
  <2>1. \A v \in Verbs : Op(v, "cluster") \notin Members(rest)
    BY ChangeSchedulesMembers DEF Targets, Jobs
  <2> QED
    BY <1>1, <2>1, ChangeSchedulesMembers, ClusterFirst DEF Verbs
<1>3. \A v \in Verbs, j \in Jobs : Op(v, j) \in Members(rest) <=>
          \/ v = "delete" /\ j = "cleanup" /\ p
          \/ v = "update" /\ j = "snapshot" /\ q
          \/ v = "update" /\ j = "cleanup" /\ r
  BY ChangeSchedulesMembers DEF Targets
<1>4. Done(e.old) /\ e.old.snap # None /\ e.new.snap # None
  BY DEF BothScheduled
<1>5. r => e.new.snap.policy # None
  BY DEF SnapshotCleanupPropertiesUpdated
<1> HIDE DEF rest
<1>6. ASSUME NEW j \in Jobs
      PROVE  /\ Comes("delete", j)' <=> j = "cleanup" /\ p
             /\ Comes("update", j)' <=> (j = "snapshot" /\ q) \/ (j = "cleanup" /\ r)
             /\ ~Comes("add", j)' /\ ~Comes("add", "cluster")'
  BY <1>2, <1>3, ComesFrom DEF Verbs
<1>7. TaskInv'
  <2>1. ASSUME NEW o \in Pending'
        PROVE  Justified(o)'
    <3>1. \A v \in Verbs : o = Op(v, "cluster") => v = "update"
      BY <1>2, ComesFrom DEF Comes, Pending, Verbs
    <3>2. \A v \in Verbs, j \in Jobs : o = Op(v, j) => Op(v, j) \in Members(rest)
      BY <1>2, ComesFrom DEF Comes, Pending, Verbs
    <3>3. event'.new # None /\ known'
      OBVIOUS
    <3> QED
      BY <1>3, <1>4, <1>5, <3>1, <3>2, <3>3 DEF Justified, Verbs
  <2> QED
    BY <1>2, <2>1 DEF TaskInv, Begins
<1>8. Refused'
  BY DEF Refused, RefusedAs
<1>9. ASSUME NEW j \in Jobs \ lost'
      PROVE  Handled(j)'
  <2>0. j \in Jobs \ lost /\ Fits(e.old, j) /\ (Wants(e.old, j) => jobs[j] # None) /\ known'
    BY <1>4 DEF Done
  <2>1. CASE j = "snapshot"
    <3>1. Wants(e.new, j) /\ Wants(e.old, j)
      BY <1>4, <2>1 DEF Wants
    <3>2. ~q => Fits(e.new, j)
      BY <2>0, <2>1, <3>1 DEF Fits, CronJob, CreateSnapshotJob, CronJobOf, SnapshotPropertiesUpdated
    <3>3. Fits(e.new, j)' <=> Fits(e.new, j)
      BY DEF Fits
    <3> QED
      BY <1>6, <2>0, <2>1, <3>1, <3>2, <3>3 DEF Handled, HandledAs
  <2>2. CASE j = "cleanup"
    <3>1. Wants(e.new, j) => Wants(e.old, j)
      BY <1>4, <2>2 DEF EnablesRetention
    <3>2. ~p /\ ~r => Fits(e.new, j)
      <4> SUFFICES ASSUME ~p, ~r, jobs[j] # None
                   PROVE  Fits(e.new, j)
        BY DEF Fits
      <4>1. Wants(e.old, j) /\ Wants(e.new, j)
        BY <2>0, <2>2 DEF Fits
      <4>2. e.old.snap.policy # None /\ e.new.snap.policy # None
        BY <4>1, <2>2, WantsPolicy
      <4> QED
        BY <2>0, <2>2, <4>1, <4>2
        DEF Fits, CronJob, CreateSnapshotCleanupJob, CronJobOf, SnapshotCleanupPropertiesUpdated
    <3>3. ~p => (jobs[j] # None => Wants(e.new, j))
      BY <2>0, <2>2 DEF Fits
    <3>4. Fits(e.new, j)' <=> Fits(e.new, j)
      BY DEF Fits
    <3> QED
      BY <1>6, <2>0, <2>2, <3>1, <3>2, <3>3, <3>4 DEF Handled, HandledAs
  <2> QED
    BY <2>1, <2>2 DEF Jobs
<1> QED
  BY <1>2, <1>7, <1>8, <1>9 DEF Started, Begins, Jobs

LEMMA ReceiveSwitch ==
    ASSUME NEW e, Taken(e), e.old # None, e.new # None, known, ~BothScheduled(e.old, e.new)
    PROVE  Started
<1> USE DEF Taken
<1> DEFINE s == ForSchedules("delete", e.old)
           t == ForSchedules("add", e.new)
           rest == s \o t
<1>1. todo' = <<Op("update", "cluster")>> \o rest
  BY DEF Operations, OperationsForUpdateCluster
<1>2. /\ s \in Seq(Ops) /\ t \in Seq(Ops)
      /\ \A v \in Verbs, on \in Targets :
           /\ Op(v, on) \in Members(s) <=> v = "delete" /\ on \in Jobs /\ Wants(e.old, on)
           /\ Op(v, on) \in Members(t) <=> v = "add" /\ on \in Jobs /\ Wants(e.new, on)
  BY ForSchedulesMembers DEF Verbs
<1> HIDE DEF s, t
<1>3. rest \in Seq(Ops) /\ Members(rest) = Members(s) \cup Members(t)
  BY <1>2, Concatenated
<1> HIDE DEF rest
<1>4. Begins(todo', "update", rest)
  <2>1. \A v \in Verbs : Op(v, "cluster") \notin Members(rest)
    BY <1>2, <1>3 DEF Targets, Jobs
  <2> QED
    BY <1>1, <1>3, <2>1, ClusterFirst DEF Verbs
<1>5. \A v \in Verbs, j \in Jobs : Op(v, j) \in Members(rest) <=>
          (v = "delete" /\ Wants(e.old, j)) \/ (v = "add" /\ Wants(e.new, j))
  BY <1>2, <1>3 DEF Targets
<1>6. Done(e.old) /\ lost' = lost /\ (e.old.snap = None \/ e.new.snap = None)
  BY DEF BothScheduled, EnablesRetention
<1>7. \A j \in Jobs : Wants(e.old, j) => ~Wants(e.new, j)
  BY <1>6 DEF Wants
<1>8. TaskInv'
  <2>1. ASSUME NEW o \in Pending'
        PROVE  Justified(o)'
    <3>1. \A v \in Verbs : o = Op(v, "cluster") => v = "update"
      BY <1>3, <1>4, ComesFrom DEF Comes, Pending, Verbs
    <3>2. \A v \in Verbs, j \in Jobs : o = Op(v, j) => Op(v, j) \in Members(rest)
      BY <1>3, <1>4, ComesFrom DEF Comes, Pending, Verbs
    <3>3. event'.new # None /\ known' /\ event'.new = e.new
      OBVIOUS
    <3> QED
      BY <1>5, <1>7, <3>1, <3>2, <3>3 DEF Justified, Verbs
  <2> QED
    BY <1>4, <2>1 DEF TaskInv, Begins
<1>9. Refused'
  BY DEF Refused, RefusedAs
<1>10. ASSUME NEW j \in Jobs \ lost'
       PROVE  Handled(j)'
  <2>1. /\ Comes("delete", j)' <=> Wants(e.old, j)
        /\ Comes("add", j)' <=> Wants(e.new, j)
        /\ ~Comes("update", j)' /\ ~Comes("add", "cluster")'
    BY <1>3, <1>4, <1>5, ComesFrom DEF Verbs
  <2>2. ~Wants(e.old, j) => jobs'[j] = None
    BY <1>6 DEF Done, Fits
  <2> QED
    BY <2>1, <2>2 DEF Handled, HandledAs, Fits
<1> QED
  BY <1>4, <1>6, <1>8, <1>9, <1>10 DEF Started, Begins

LEMMA ReceiveStep ==
    ASSUME Inv, Receive
    PROVE  Inv'
<1> DEFINE e == Head(queue)
<1>0. /\ spec \in Resources /\ queue \in Seq(Events) /\ queue # <<>> /\ running /\ event = None
      /\ known \in BOOLEAN /\ lost \subseteq Jobs /\ jobs \in [Jobs -> CronJobs \cup {None}]
  BY TypeParts DEF Inv, Receive
<1>1. /\ event' = e /\ todo' = Operations(e) /\ queue' = Tail(queue)
      /\ lost' = IF EnablesRetention(e) THEN lost \cup {"cleanup"} ELSE lost
      /\ UNCHANGED <<spec, known, running, panicked, jobs, budget>>
  BY DEF Receive
<1>2. e = queue[1] /\ 1 \in DOMAIN queue /\ e \in Events
  BY <1>0
<1>3. Linked(queue) /\ Version = e.old
  BY <1>0 DEF Inv, ChainInv, Version
<1>4. e \in Events /\ e # None /\ e.old \in Resources /\ e.new \in Resources /\ (e.old # None \/ e.new # None)
  BY <1>2, <1>3, EventParts DEF Linked
<1> HIDE DEF e
<1>5. Taken(e)
  <2>1. Done(e.old) \/ Restarted
    BY <1>0, <1>3 DEF Inv, JobInv
  <2> QED
    BY <1>0, <1>1, <1>4, <2>1 DEF Taken, Restarted, e
<1>6. Started
  <2>1. CASE e.new = None
    BY <1>5, <2>1, ReceiveDelete
  <2>2. CASE e.new # None /\ (e.old = None \/ ~known)
    BY <1>5, <2>2, ReceiveAdd
  <2>3. CASE e.new # None /\ e.old # None /\ known
    BY <1>5, <2>3, ReceiveChange, ReceiveSwitch
  <2> QED
    BY <2>1, <2>2, <2>3
<1>7. queue' \in Seq(Events) /\ Len(queue') = Len(queue) - 1 /\ (\A i \in DOMAIN queue' : queue'[i] = queue[i + 1])
      /\ DOMAIN queue' = 1..(Len(queue) - 1) /\ DOMAIN queue = 1..Len(queue) /\ Len(queue) \in Nat \ {0}
      /\ (queue' = <<>> <=> Len(queue) = 1)
  BY <1>0, <1>1, FirstAndRest
<1>8. TypeOK'
  BY <1>0, <1>1, <1>4, <1>6, <1>7, TypeParts DEF Inv, Started, TypeOK, Events, Ops, Verbs, Budgets
<1>9. ChainInv'
  <2>1. Linked(queue)'
    <3>1. ASSUME NEW i \in DOMAIN queue'
          PROVE  queue'[i].old # None \/ queue'[i].new # None
      <4>1. i + 1 \in DOMAIN queue /\ queue'[i] = queue[i + 1]
        BY <1>7
      <4> QED
        BY <1>3, <4>1 DEF Linked
    <3>2. ASSUME NEW i \in DOMAIN queue', i + 1 \in DOMAIN queue'
          PROVE  queue'[i].new = queue'[i + 1].old
      <4>1. i + 1 \in DOMAIN queue /\ (i + 1) + 1 \in DOMAIN queue /\ queue'[i] = queue[i + 1]
            /\ queue'[i + 1] = queue[(i + 1) + 1]
        BY <1>7, <3>2
      <4> QED
        BY <1>3, <4>1 DEF Linked
    <3>3. queue' # <<>> => queue'[Len(queue')].new = spec'
      BY <1>0, <1>1, <1>3, <1>7 DEF Linked
    <3> QED
      BY <3>1, <3>2, <3>3 DEF Linked
  <2>2. e.new = Version'
    <3>1. CASE queue' = <<>>
      BY <1>0, <1>1, <1>2, <1>3, <1>7, <3>1 DEF Version, Linked
    <3>2. CASE queue' # <<>>
      <4>1. 1 + 1 \in DOMAIN queue /\ Head(queue') = queue[1 + 1]
        BY <1>7, <3>2
      <4>2. queue[1].new = queue[1 + 1].old
        BY <1>2, <1>3, <4>1 DEF Linked
      <4> QED
        BY <1>2, <3>2, <4>1, <4>2 DEF Version
    <3> QED
      BY <3>1, <3>2
  <2> QED
    BY <1>1, <2>1, <2>2 DEF ChainInv
<1>10. JobInv'
  BY <1>0, <1>1, <1>4, <1>6 DEF JobInv, Started
<1> QED
  BY <1>6, <1>8, <1>9, <1>10 DEF Inv, Started

-----------------------------------------------------------------------------
(* The operations, one by one. *)

LEMMA Executing ==
    ASSUME Inv, NEW verb \in Verbs, NEW on \in Targets, Executes(verb, on)
    PROVE  /\ event \in Events /\ event # None /\ event.new \in Resources /\ running
           /\ Justified(Op(verb, on))
           /\ todo' \in Seq(Ops)
           /\ \A v \in Verbs, t \in Targets : Comes(v, t) <=> (v = verb /\ t = on) \/ Comes(v, t)'
           /\ \A v \in Verbs : ~Comes(v, "cluster")'
           /\ todo' = <<>> => event' = None /\ \A v \in Verbs, t \in Targets : ~Comes(v, t)'
           /\ todo' # <<>> => event' = event
<1>1. /\ todo \in Seq(Ops) /\ todo # <<>> /\ Head(todo) = Op(verb, on) /\ todo' = Tail(todo)
      /\ event' = IF Len(todo) = 1 THEN None ELSE event
  BY TypeParts DEF Inv, Executes
<1>2. event \in Events /\ event # None /\ running
  BY <1>1, TypeParts DEF Inv
<1>3. event.new \in Resources
  BY <1>2, EventParts
<1>4. todo' \in Seq(Ops) /\ Pending = {Op(verb, on)} \cup Pending' /\ (Len(todo) = 1 <=> todo' = <<>>)
  BY <1>1, FirstAndRest DEF Pending
<1>5. Justified(Op(verb, on))
  BY <1>2, <1>4 DEF Inv, TaskInv
<1>6. \A v \in Verbs, t \in Targets : Comes(v, t) <=> (v = verb /\ t = on) \/ Comes(v, t)'
  BY <1>4, SameOp DEF Comes
<1>7. ASSUME NEW v \in Verbs
      PROVE  ~Comes(v, "cluster")'
  <2>1. \A o \in Pending' : o.on # "cluster"
    BY <1>1, <1>2 DEF Inv, TaskInv, Pending
  <2> QED
    BY <2>1, OpType DEF Comes, Targets
<1>8. todo' = <<>> => \A v \in Verbs, t \in Targets : ~Comes(v, t)'
  BY NoMembers DEF Comes, Pending
<1> QED
  BY <1>1, <1>2, <1>3, <1>4, <1>5, <1>6, <1>7, <1>8

(* An operation keeps the invariant if what is left to do still covers     *)
(* what is not yet so.                                                     *)
LEMMA ExecuteStep ==
    ASSUME Inv, NEW verb \in Verbs, NEW on \in Targets, Executes(verb, on),
           known' \in BOOLEAN, jobs' \in [Jobs -> CronJobs \cup {None}], lost' \subseteq Jobs,
           budget' \in Budgets,
           NEW c, c = event.new,
           known' = known \/ on = "cluster",
           known => known' \/ c = None,
           c = None => ~known' \/ on # "cluster",
           RefusedAs(c)', \A j \in Jobs \ lost' : HandledAs(c, j)'
    PROVE  Inv'
<1>1. /\ event \in Events /\ event # None /\ event.new \in Resources /\ running
      /\ todo' \in Seq(Ops)
      /\ \A v \in Verbs, t \in Targets : Comes(v, t) <=> (v = verb /\ t = on) \/ Comes(v, t)'
      /\ \A v \in Verbs : ~Comes(v, "cluster")'
      /\ todo' = <<>> => event' = None /\ \A v \in Verbs, t \in Targets : ~Comes(v, t)'
      /\ todo' # <<>> => event' = event
  BY Executing
<1>2. UNCHANGED <<spec, queue, running, panicked>>
  BY DEF Executes
<1>3. TypeOK'
  BY <1>1, <1>2, TypeParts DEF Inv, TypeOK, Events, Ops, Verbs, Budgets
<1>4. ChainInv' /\ Version' = c
  BY <1>1, <1>2 DEF Inv, ChainInv, Linked, Version
<1>5. known' => c # None
  <2>1. known /\ c = None => Comes("delete", "cluster")
    BY <1>1 DEF Inv, TaskInv
  <2>2. Comes("delete", "cluster") => verb = "delete" /\ on = "cluster"
    BY <1>1 DEF Verbs, Targets
  <2> QED
    BY <2>1, <2>2
<1>6. TaskInv'
  <2> SUFFICES ASSUME todo' # <<>>
               PROVE  TaskInv'
    BY <1>1 DEF TaskInv
  <2>1. event' = event
    BY <1>1
  <2>2. todo \in Seq(Ops) /\ todo # <<>> /\ todo' = Tail(todo)
    BY TypeParts DEF Inv, Executes
  <2>3. Members(Tail(todo')) \subseteq Members(Tail(todo)) /\ Pending' \subseteq Pending
    BY <1>1, <2>2, FirstAndRest DEF Pending
  <2>4. \A o \in Members(Tail(todo')) : o.on # "cluster"
    BY <1>1, <2>3 DEF Inv, TaskInv
  <2>5. ASSUME NEW o \in Pending'
        PROVE  Justified(o)'
    <3>1. Justified(o)
      BY <1>1, <2>3 DEF Inv, TaskInv
    <3>2. \A v \in Verbs : o # Op(v, "cluster")
      BY <1>1 DEF Comes
    <3> QED
      BY <2>1, <3>1, <3>2 DEF Justified, Verbs
  <2> QED
    BY <1>5, <2>1, <2>4, <2>5 DEF TaskInv
<1>7. JobInv'
  <2>1. CASE todo' # <<>>
    <3>1. event' = event
      BY <1>1, <2>1
    <3> QED
      BY <1>1, <1>2, <3>1 DEF JobInv, Refused, Handled
  <2>2. CASE todo' = <<>>
    <3>1. event' = None /\ running'
      BY <1>1, <1>2, <2>2
    <3>2. ASSUME NEW j \in Jobs \ lost'
          PROVE  Fits(c, j)' /\ (known' /\ Wants(c, j) => jobs'[j] # None) /\ (~known' => jobs'[j] = None)
      <4>1. \A v \in Verbs : ~Comes(v, j)' /\ ~Comes(v, "cluster")'
        BY <1>1, <2>2 DEF Targets
      <4> QED
        BY <1>5, <4>1 DEF HandledAs, Verbs
    <3>3. Done(c)'
      BY <1>5, <3>2 DEF Done
    <3> QED
      BY <1>4, <3>1, <3>3 DEF JobInv
  <2> QED
    BY <2>1, <2>2
<1> QED
  BY <1>3, <1>4, <1>6, <1>7 DEF Inv

LEMMA BeforeIt ==
    ASSUME Inv, NEW verb \in Verbs, NEW on \in Targets, Executes(verb, on), NEW c, c = event.new
    PROVE  /\ c \in Resources /\ RefusedAs(c) /\ (\A j \in Jobs \ lost : HandledAs(c, j))
           /\ known \in BOOLEAN /\ jobs \in [Jobs -> CronJobs \cup {None}] /\ lost \subseteq Jobs
           /\ budget \in Budgets
<1>1. event \in Events /\ event # None /\ event.new \in Resources
  BY Executing
<1> QED
  BY <1>1, TypeParts DEF Inv, JobInv, Refused, Handled

(* What an operation on another job leaves as it is. *)
LEMMA OthersHandled ==
    ASSUME Inv, NEW verb \in Verbs, NEW on \in Targets, Executes(verb, on), NEW c, c = event.new,
           NEW j \in Jobs, on # j, known' = known, jobs'[j] = jobs[j], HandledAs(c, j),
           Op(verb, on) # Op("add", "cluster")
    PROVE  HandledAs(c, j)'
<1>1. \A v \in Verbs : Comes(v, j) <=> Comes(v, j)'
  BY Executing DEF Targets
<1>2. Comes("add", "cluster") <=> Comes("add", "cluster")'
  BY Executing DEF Targets, Verbs
<1>3. Fits(c, j)' <=> Fits(c, j)
  BY DEF Fits
<1> QED
  BY <1>1, <1>2, <1>3 DEF HandledAs, Verbs

LEMMA AddClusterStep ==
    ASSUME Inv, AddCluster
    PROVE  Inv'
<1> USE DEF AddCluster
<1>0. "add" \in Verbs /\ "cluster" \in Targets
  BY DEF Verbs, Targets
<1> PICK c : c = event.new
  OBVIOUS
<1>1. /\ c \in Resources /\ RefusedAs(c) /\ (\A j \in Jobs \ lost : HandledAs(c, j))
      /\ jobs \in [Jobs -> CronJobs \cup {None}] /\ lost \subseteq Jobs /\ budget \in Budgets
  BY <1>0, BeforeIt
<1>2. /\ \A v \in Verbs, t \in Targets : Comes(v, t) <=> (v = "add" /\ t = "cluster") \/ Comes(v, t)'
      /\ \A v \in Verbs : ~Comes(v, "cluster")'
      /\ Justified(Op("add", "cluster"))
  BY <1>0, Executing
<1>3. c # None /\ ~known
  BY <1>2 DEF Justified
<1>4. (known' <=> Valid(c)) /\ known' \in BOOLEAN
  BY <1>3
<1>5. RefusedAs(c)'
  BY <1>4 DEF RefusedAs
<1>6. ASSUME NEW j \in Jobs \ lost'
      PROVE  HandledAs(c, j)'
  <2>1. HandledAs(c, j) /\ jobs' = jobs
    BY <1>1
  <2>2. \A v \in Verbs : Comes(v, j)' <=> Comes(v, j)
    BY <1>2 DEF Targets, Jobs
  <2>3. Comes("add", "cluster") /\ ~Comes("add", "cluster")'
    BY <1>0, <1>2
  <2>4. Fits(c, j)' <=> Fits(c, j)
    BY DEF Fits
  <2>5. CASE Valid(c)
    BY <1>4, <2>1, <2>2, <2>3, <2>4, <2>5 DEF HandledAs, Verbs
  <2>6. CASE ~Valid(c)
    <3>1. jobs[j] = None
      BY <2>6
    <3> QED
      BY <1>4, <2>1, <2>3, <2>6, <3>1 DEF HandledAs, Fits
  <2> QED
    BY <2>5, <2>6
<1>7. lost' \subseteq Jobs /\ jobs' \in [Jobs -> CronJobs \cup {None}] /\ budget' \in Budgets
  BY <1>1
<1> QED
  BY <1>0, <1>3, <1>4, <1>5, <1>6, <1>7, ExecuteStep

LEMMA ClusterSteps ==
    ASSUME Inv, UpdateKnownCluster \/ DeleteKnownCluster
    PROVE  Inv'
<1>0. "update" \in Verbs /\ "delete" \in Verbs /\ "cluster" \in Targets /\ "cluster" \notin Jobs
  BY DEF Verbs, Targets, Jobs
<1> PICK c : c = event.new
  OBVIOUS
<1>1. CASE UpdateKnownCluster
  <2> USE <1>1 DEF UpdateKnownCluster
  <2>1. /\ c \in Resources /\ RefusedAs(c) /\ (\A j \in Jobs \ lost : HandledAs(c, j)) /\ known \in BOOLEAN
        /\ jobs \in [Jobs -> CronJobs \cup {None}] /\ lost \subseteq Jobs /\ budget \in Budgets
    BY <1>0, BeforeIt
  <2>2. Justified(Op("update", "cluster"))
    BY <1>0, Executing
  <2>3. c # None /\ known
    BY <2>2 DEF Justified
  <2>4. Op("update", "cluster") # Op("add", "cluster")
    BY SameOp
  <2>5. \A j \in Jobs \ lost' : HandledAs(c, j)'
    BY <1>0, <2>1, <2>4, OthersHandled
  <2>6. RefusedAs(c)'
    BY <2>3 DEF RefusedAs
  <2> QED
    BY <1>0, <2>1, <2>3, <2>5, <2>6, ExecuteStep
<1>2. CASE DeleteKnownCluster
  <2> USE <1>2 DEF DeleteKnownCluster
  <2>1. /\ c \in Resources /\ RefusedAs(c) /\ (\A j \in Jobs \ lost : HandledAs(c, j)) /\ known \in BOOLEAN
        /\ jobs \in [Jobs -> CronJobs \cup {None}] /\ lost \subseteq Jobs /\ budget \in Budgets
    BY <1>0, BeforeIt
  <2>2. /\ Justified(Op("delete", "cluster"))
        /\ \A v \in Verbs, t \in Targets : Comes(v, t) <=> (v = "delete" /\ t = "cluster") \/ Comes(v, t)'
        /\ event # None
    BY <1>0, Executing
  <2>3. c = None
    BY <2>2 DEF Justified
  <2>4. ASSUME NEW j \in Jobs \ lost'
        PROVE  HandledAs(c, j)'
    <3>1. \A v \in Verbs : Comes(v, j)' <=> Comes(v, j)
      BY <1>0, <2>2 DEF Targets
    <3>2. ~Comes("update", j)
      BY <2>2, <2>3 DEF Inv, TaskInv, Comes, Justified
    <3>3. ~Comes("delete", j) => jobs[j] = None
      BY <2>1, <2>3, <3>2 DEF HandledAs, Fits
    <3> QED
      BY <2>3, <3>1, <3>2, <3>3 DEF HandledAs, Fits, Verbs
  <2>5. RefusedAs(c)'
    BY <2>3 DEF RefusedAs
  <2> QED
    BY <1>0, <2>1, <2>3, <2>4, <2>5, ExecuteStep
<1> QED
  BY <1>1, <1>2

LEMMA AddJobStep ==
    ASSUME Inv, NEW j \in Jobs, AddJob(j)
    PROVE  Inv'
<1>0. "add" \in Verbs /\ j \in Targets /\ j # "cluster" /\ Executes("add", j)
  BY DEF Verbs, Targets, Jobs, AddJob
<1> PICK c : c = event.new
  OBVIOUS
<1>1. /\ c \in Resources /\ RefusedAs(c) /\ (\A k \in Jobs \ lost : HandledAs(c, k)) /\ known \in BOOLEAN
      /\ jobs \in [Jobs -> CronJobs \cup {None}] /\ lost \subseteq Jobs /\ budget \in Budgets
  BY <1>0, BeforeIt
<1>2. /\ \A v \in Verbs, t \in Targets : Comes(v, t) <=> (v = "add" /\ t = j) \/ Comes(v, t)'
      /\ \A v \in Verbs : ~Comes(v, "cluster")'
      /\ Justified(Op("add", j)) /\ event # None
  BY <1>0, Executing
<1>3. c \in Specs /\ c # None /\ Wants(c, j) /\ c.snap # None
  BY <1>1, <1>2, WantsPolicy DEF Justified, Resources
<1> DEFINE new == CronJob(Definition(c).snap, j)
           refused == ~Valid(c) \/ ~Accepted(new)
<1>4. /\ jobs' = IF refused \/ jobs[j] # None THEN jobs ELSE [jobs EXCEPT ![j] = new]
      /\ lost' = IF refused /\ known THEN lost \cup {j} ELSE lost
      /\ UNCHANGED <<known, budget>>
  BY DEF AddJob
<1>5. /\ new \in CronJobs /\ new # None
      /\ new.schedule = CronJob(c.snap, j).schedule /\ new.command = CronJob(c.snap, j).command
  BY <1>3, JobMade, SameJob, WantsPolicy
<1>6. ~Valid(c) => refused
  OBVIOUS
<1> HIDE DEF new, refused
<1>7. ~Comes("delete", j) /\ ~Comes("add", "cluster")
  <2>1. Comes("delete", j) => ~Wants(c, j)
    BY <1>2, <1>3 DEF Inv, TaskInv, Comes, Justified
  <2> QED
    BY <1>0, <1>2, <1>3, <2>1 DEF Targets, Verbs
<1>8. RefusedAs(c)'
  BY <1>1, <1>4, <1>7 DEF RefusedAs
<1>9. ASSUME NEW k \in Jobs \ lost'
      PROVE  HandledAs(c, k)'
  <2>0. k \in Jobs \ lost /\ HandledAs(c, k)
    BY <1>1, <1>4
  <2>1. CASE k # j
    <3>1. jobs'[k] = jobs[k]
      BY <1>1, <1>4, <2>1
    <3>2. Op("add", j) # Op("add", "cluster")
      BY <1>0, SameOp
    <3> QED
      BY <1>0, <1>4, <2>0, <2>1, <3>1, <3>2, OthersHandled
  <2>2. CASE k = j
    <3>1. /\ Comes("update", j)' <=> Comes("update", j)
          /\ ~Comes("delete", j)' /\ ~Comes("add", "cluster")'
      BY <1>0, <1>2, <1>7 DEF Verbs
    <3>2. ~known => refused /\ jobs[j] = None
      BY <1>1, <1>3, <1>6, <1>7, <2>0, <2>2 DEF RefusedAs, HandledAs
    <3>3. known => ~refused
      BY <1>4, <2>2
    <3>4. known => jobs'[j] # None
      BY <1>1, <1>4, <1>5, <3>3
    <3>5. ~known => jobs'[j] = None
      BY <1>4, <3>2
    <3>6. jobs'[j] = jobs[j] \/ jobs'[j] = new
      BY <1>1, <1>4
    <3>7. ~Comes("update", j) => Fits(c, j)'
      <4>1. ~Comes("update", j) => Fits(c, j)
        BY <1>7, <2>0, <2>2 DEF HandledAs
      <4> QED
        BY <1>3, <1>5, <3>6, <4>1 DEF Fits
    <3> QED
      BY <1>3, <1>4, <2>2, <3>1, <3>4, <3>5, <3>7 DEF HandledAs
  <2> QED
    BY <2>1, <2>2
<1>10. lost' \subseteq Jobs /\ jobs' \in [Jobs -> CronJobs \cup {None}] /\ budget' \in Budgets /\ known' \in BOOLEAN
  BY <1>1, <1>4, <1>5
<1> QED
  BY <1>0, <1>3, <1>4, <1>8, <1>9, <1>10, ExecuteStep

LEMMA UpdateJobStep ==
    ASSUME Inv, NEW j \in Jobs, UpdateJob(j)
    PROVE  Inv'
<1>0. "update" \in Verbs /\ j \in Targets /\ j # "cluster" /\ Executes("update", j)
  BY DEF Verbs, Targets, Jobs, UpdateJob
<1> PICK c : c = event.new
  OBVIOUS
<1>1. /\ c \in Resources /\ RefusedAs(c) /\ (\A k \in Jobs \ lost : HandledAs(c, k)) /\ known \in BOOLEAN
      /\ jobs \in [Jobs -> CronJobs \cup {None}] /\ lost \subseteq Jobs /\ budget \in Budgets
  BY <1>0, BeforeIt
<1>2. /\ \A v \in Verbs, t \in Targets : Comes(v, t) <=> (v = "update" /\ t = j) \/ Comes(v, t)'
      /\ Justified(Op("update", j))
  BY <1>0, Executing
<1>3. c \in Specs /\ c # None /\ known /\ c.snap # None /\ (j = "cleanup" => c.snap.policy # None)
  BY <1>1, <1>2 DEF Justified, Resources
<1> DEFINE new == CronJob(Definition(c).snap, j)
<1>4. /\ \/ jobs[j] = None /\ jobs' = jobs /\ lost' = lost
         \/ jobs[j] # None /\ jobs' = jobs /\ lost' = lost \cup {j}
         \/ /\ jobs[j] # None /\ jobs' = [jobs EXCEPT ![j] = new]
            /\ lost' = IF Wants(c, j) THEN lost \ {j} ELSE lost
      /\ UNCHANGED <<known, budget>>
  BY DEF UpdateJob
<1>5. /\ new \in CronJobs /\ new # None
      /\ new.schedule = CronJob(c.snap, j).schedule /\ new.command = CronJob(c.snap, j).command
  BY <1>3, JobMade, SameJob
<1> HIDE DEF new
<1>6. RefusedAs(c)'
  BY <1>3, <1>4 DEF RefusedAs
<1>7. ASSUME NEW k \in Jobs \ lost'
      PROVE  HandledAs(c, k)'
  <2>1. CASE k # j
    <3>1. jobs'[k] = jobs[k] /\ HandledAs(c, k)
      BY <1>1, <1>4, <2>1
    <3>2. Op("update", j) # Op("add", "cluster")
      BY SameOp
    <3> QED
      BY <1>0, <1>4, <2>1, <3>1, <3>2, OthersHandled
  <2>2. CASE k = j
    <3>1. /\ Comes("delete", j)' <=> Comes("delete", j)
          /\ Comes("add", j)' <=> Comes("add", j)
          /\ Comes("update", j)
      BY <1>0, <1>2 DEF Verbs
    <3>2. CASE jobs[j] = None
      <4>1. jobs'[j] = None /\ lost' = lost
        BY <1>4, <3>2
      <4>2. HandledAs(c, j)
        BY <1>1, <2>2, <4>1
      <4> QED
        BY <1>3, <1>4, <2>2, <3>1, <3>2, <4>1, <4>2 DEF HandledAs, Fits
    <3>3. CASE jobs[j] # None
      <4>1. jobs'[j] = new /\ lost' = IF Wants(c, j) THEN lost \ {j} ELSE lost
        BY <1>1, <1>4, <2>2, <3>3
      <4>2. CASE Wants(c, j)
        <5>1. Fits(c, j)'
          BY <1>3, <1>5, <4>1, <4>2 DEF Fits
        <5> QED
          BY <1>3, <1>4, <1>5, <2>2, <4>1, <4>2, <5>1 DEF HandledAs
      <4>3. CASE ~Wants(c, j)
        <5>1. HandledAs(c, j)
          BY <1>1, <2>2, <4>1, <4>3
        <5>2. Comes("delete", j)
          BY <3>1, <3>3, <4>3, <5>1 DEF HandledAs
        <5> QED
          BY <2>2, <3>1, <4>3, <5>2 DEF HandledAs
      <4> QED
        BY <4>2, <4>3
    <3> QED
      BY <3>2, <3>3
  <2> QED
    BY <2>1, <2>2
<1>8. lost' \subseteq Jobs /\ jobs' \in [Jobs -> CronJobs \cup {None}] /\ budget' \in Budgets /\ known' \in BOOLEAN
  BY <1>1, <1>4, <1>5
<1> QED
  BY <1>0, <1>3, <1>4, <1>6, <1>7, <1>8, ExecuteStep

LEMMA DeleteJobStep ==
    ASSUME Inv, NEW j \in Jobs, DeleteJob(j)
    PROVE  Inv'
<1>0. "delete" \in Verbs /\ j \in Targets /\ j # "cluster" /\ Executes("delete", j)
  BY DEF Verbs, Targets, Jobs, DeleteJob
<1> PICK c : c = event.new
  OBVIOUS
<1>1. /\ c \in Resources /\ RefusedAs(c) /\ (\A k \in Jobs \ lost : HandledAs(c, k)) /\ known \in BOOLEAN
      /\ jobs \in [Jobs -> CronJobs \cup {None}] /\ lost \subseteq Jobs /\ budget \in Budgets
  BY <1>0, BeforeIt
<1>2. /\ \A v \in Verbs, t \in Targets : Comes(v, t) <=> (v = "delete" /\ t = j) \/ Comes(v, t)'
      /\ Justified(Op("delete", j))
  BY <1>0, Executing
<1>3. c # None => ~Wants(c, j)
  BY <1>2 DEF Justified
<1>4. jobs' = [jobs EXCEPT ![j] = None] /\ lost' = lost \ {j} /\ UNCHANGED <<known, budget>>
  BY DEF DeleteJob
<1>5. RefusedAs(c)'
  <2>1. Comes("add", "cluster")' <=> Comes("add", "cluster")
    BY <1>0, <1>2 DEF Targets, Verbs
  <2> QED
    BY <1>1, <1>4, <2>1 DEF RefusedAs
<1>6. ASSUME NEW k \in Jobs \ lost'
      PROVE  HandledAs(c, k)'
  <2>1. CASE k # j
    <3>1. jobs'[k] = jobs[k] /\ HandledAs(c, k)
      BY <1>1, <1>4, <2>1
    <3>2. Op("delete", j) # Op("add", "cluster")
      BY SameOp
    <3> QED
      BY <1>0, <1>4, <2>1, <3>1, <3>2, OthersHandled
  <2>2. CASE k = j
    BY <1>1, <1>3, <1>4, <2>2 DEF HandledAs, Fits
  <2> QED
    BY <2>1, <2>2
<1>7. lost' \subseteq Jobs /\ jobs' \in [Jobs -> CronJobs \cup {None}] /\ budget' \in Budgets /\ known' \in BOOLEAN
  BY <1>1, <1>4
<1> QED
  BY <1>0, <1>4, <1>5, <1>6, <1>7, ExecuteStep

LEMMA CallFailsStep ==
    ASSUME Inv, NEW j \in Jobs, CallFails(j)
    PROVE  Inv'
<1>0. j \in Targets /\ j # "cluster"
  BY DEF Targets, Jobs
<1> PICK verb \in Verbs : Executes(verb, j)
  BY DEF CallFails, Verbs
<1> PICK c : c = event.new
  OBVIOUS
<1>1. /\ c \in Resources /\ RefusedAs(c) /\ (\A k \in Jobs \ lost : HandledAs(c, k)) /\ known \in BOOLEAN
      /\ jobs \in [Jobs -> CronJobs \cup {None}] /\ lost \subseteq Jobs /\ budget \in Budgets
  BY <1>0, BeforeIt
<1>2. \A v \in Verbs, t \in Targets : Comes(v, t) <=> (v = verb /\ t = j) \/ Comes(v, t)'
  BY <1>0, Executing
<1>3. lost' = lost \cup {j} /\ UNCHANGED <<known, jobs>>
  BY DEF CallFails
<1>4. budget' \in Budgets
  BY <1>1, SnapshotSchedulesAssumption DEF CallFails, Budgets
<1>5. RefusedAs(c)'
  <2>1. Comes("add", "cluster")' <=> Comes("add", "cluster")
    BY <1>0, <1>2 DEF Targets, Verbs
  <2> QED
    BY <1>1, <1>3, <2>1 DEF RefusedAs
<1>6. ASSUME NEW k \in Jobs \ lost'
      PROVE  HandledAs(c, k)'
  <2>1. k # j /\ k \in Jobs \ lost
    BY <1>3
  <2>2. Op(verb, j) # Op("add", "cluster")
    BY <1>0, SameOp
  <2> QED
    BY <1>0, <1>1, <1>3, <2>1, <2>2, OthersHandled
<1> QED
  BY <1>0, <1>1, <1>3, <1>4, <1>5, <1>6, ExecuteStep

-----------------------------------------------------------------------------
LEMMA InvStep == Inv /\ [Next]_vars => Inv'
<1> SUFFICES ASSUME Inv, [Next]_vars
             PROVE  Inv'
  OBVIOUS
<1>1. CASE CreateCluster \/ UpdateCluster \/ DeleteCluster
  BY <1>1, EditStep, NoneIsNoResource DEF CreateCluster, UpdateCluster, DeleteCluster
<1>2. CASE Receive \/ ReceivePanics \/ Crash \/ Restart
  BY <1>2, ReceiveStep, CrashStep, RestartStep
<1>3. CASE AddCluster \/ UpdateKnownCluster \/ DeleteKnownCluster
  BY <1>3, AddClusterStep, ClusterSteps
<1>4. CASE \/ AddSnapshot \/ UpdateSnapshot \/ DeleteSnapshot
           \/ AddSnapshotCleanup \/ UpdateSnapshotCleanup \/ DeleteSnapshotCleanup
  BY <1>4, AddJobStep, UpdateJobStep, DeleteJobStep
  DEF AddSnapshot, UpdateSnapshot, DeleteSnapshot, AddSnapshotCleanup, UpdateSnapshotCleanup,
      DeleteSnapshotCleanup, Jobs
<1>5. CASE \E j \in Jobs : CallFails(j)
  BY <1>5, CallFailsStep
<1>6. CASE UNCHANGED vars
  <2>1. TypeOK' /\ ChainInv'
    BY <1>6 DEF vars, Inv, TypeOK, ChainInv, Linked, Version
  <2>2. TaskInv'
    BY <1>6, TaskKept DEF vars, Inv
  <2>3. Done(Version)' <=> Done(Version)
    BY <1>6 DEF vars, Done, Fits, Version
  <2>4. Restarted' <=> Restarted
    BY <1>6 DEF vars, Restarted, Fits
  <2>5. JobInv'
    BY <1>6, <2>3, <2>4
    DEF vars, Inv, JobInv, Refused, RefusedAs, Handled, HandledAs, Comes, Pending, Fits
  <2> QED
    BY <2>1, <2>2, <2>5 DEF Inv
<1> QED
  BY <1>1, <1>2, <1>3, <1>4, <1>5, <1>6 DEF Next

(* The events form a chain of versions, every operation left belongs to    *)
(* the event being handled, and the jobs are those of the last version     *)
(* whose operations were executed, up to what is still to come.            *)
THEOREM InvHolds == Spec => []Inv
BY InitInv, InvStep, PTL DEF Spec

(* Every variable has its type, and an operation is left only while the    *)
(* event it belongs to is being handled.                                   *)
THEOREM TypeCorrect == Spec => []TypeOK
<1>1. Inv => TypeOK
  BY DEF Inv
<1> QED
  BY <1>1, InvHolds, PTL

(* A job that no failure or crash excuses exists only if the resource asks *)
(* for it, and as the resource asks for it: the operations that the        *)
(* Receiver chooses from the difference of two versions add up, whatever   *)
(* series of edits, refusals and restarts they follow.                     *)
THEOREM JobsUpToDate == Spec => []NoStaleJob
<1>1. Inv => NoStaleJob
  <2> SUFFICES ASSUME Inv, Settled
               PROVE  NoStaleJob
    BY DEF NoStaleJob
  <2>1. Done(spec)
    BY DEF Inv, JobInv, Settled, Restarted, Version
  <2> QED
    BY <2>1 DEF NoStaleJob, Done, Fits
<1> QED
  BY <1>1, InvHolds, PTL

(* A known cluster has every job that its resource asks for, with the same *)
(* exceptions and that of a retention policy switched on later.            *)
THEOREM JobsComplete == Spec => []NoMissingJob
<1>1. Inv => NoMissingJob
  <2> SUFFICES ASSUME Inv, Settled, known
               PROVE  NoMissingJob
    BY DEF NoMissingJob
  <2>1. Done(spec)
    BY DEF Inv, JobInv, Settled, Restarted, Version
  <2> QED
    BY <2>1 DEF NoMissingJob, Done
<1> QED
  BY <1>1, InvHolds, PTL
=============================================================================
