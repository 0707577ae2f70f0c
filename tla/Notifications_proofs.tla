-------------------------- MODULE Notifications_proofs --------------------------
(* Of the devices in PushDevices, for every set of tasks, devices and ids: an    *)
(* account keeps few, and none shows a push with another kind's text. Of the     *)
(* sending in ReminderSend, for every set of processes and reminders: a reminder *)
(* goes once, and the sending keeps the promise of ReminderPromise.              *)
EXTENDS PushDevices, ReminderSend, FiniteSetTheorems, TLAPS

\* The rows are finitely many; what is at work together names known devices.
InstanceAssumption == IsFiniteSet(Ids) /\ \A m \in Mixes : m.endpoints \subseteq Endpoints

PushTask == [op : {"push"}, at : {"count", "send", "note", "record"}, id : Ids,
             endpoint : Endpoints, kind : Kinds, ttl : Nat \ {0}, until : Nat,
             outcome : {None, "delivered", "unanswered", "failed", "gone"}, n : Nat,
             failures : Nat, since : Nat \cup {None}]
SubscribeTask == [op : {"subscribe"}, at : {"lock", "write", "commit"}, user : Users,
                  endpoint : Endpoints, id : Ids \cup {None}, excess : SUBSET Ids]

Pushing == {t \in Tasks : task[t].at \in {"count", "send", "note", "record"}}
Registering == {t \in Tasks : task[t].at \in {"write", "commit"}}
Mine(user) == {i \in DOMAIN rows : rows[i].user = user}

TasksOK == task \in [Tasks -> PushTask \cup SubscribeTask \cup {Idle}]

\* One registration of an account at a time is past its lock.
OneRegistration ==
    \A s, t \in Registering : s # t => task[s].user # task[t].user

\* A device has one row; a registration that has written holds the row of its
\* device, or an id of its own for it, and no other deletes that row.
OneRow == \A i, j \in DOMAIN rows : rows[i].endpoint = rows[j].endpoint => i = j
Written ==
    \A t \in Writing :
        /\ {task[t].id} \cup task[t].excess \subseteq spent /\ task[t].id \notin task[t].excess
        /\ \/ task[t].id \in DOMAIN rows /\ rows[task[t].id].endpoint = task[t].endpoint
           \/ /\ task[t].id \notin DOMAIN rows
              /\ \A i \in DOMAIN rows : rows[i].endpoint # task[t].endpoint
        /\ \A s \in Writing \ {t} :
              /\ task[s].endpoint # task[t].endpoint
              /\ task[s].id # task[t].id /\ task[s].id \notin task[t].excess

\* What an account will have when its registration commits.
CappedAtCommit ==
    \A t \in Writing : Cardinality((Mine(task[t].user) \cup {task[t].id}) \ task[t].excess) <= MaxDevices

Shape == TypeOK /\ TasksOK /\ OneRegistration /\ OneRow /\ Written
IndCapped == Shape /\ CappedAtCommit /\ DevicesCapped

-----------------------------------------------------------------------------
(* The records of the model.                                                  *)

LEMMA RowRecords ==
    ASSUME NEW r \in Row, NEW p \in Pending, NEW f \in Nat, NEW s \in Nat \cup {None}
    PROVE  /\ r.user \in Users /\ r.endpoint \in Endpoints /\ r.pending \in Pending
           /\ [r EXCEPT !.pending = p] \in Row
           /\ [r EXCEPT !.pending = p].user = r.user
           /\ [r EXCEPT !.pending = p].endpoint = r.endpoint
           /\ [r EXCEPT !.pending = p].pending = p
           /\ [r EXCEPT !.failures = f, !.since = s] \in Row
           /\ [r EXCEPT !.failures = f, !.since = s].user = r.user
           /\ [r EXCEPT !.failures = f, !.since = s].endpoint = r.endpoint
           /\ [r EXCEPT !.failures = f, !.since = s].pending = r.pending
BY DEF Row

LEMMA FreshRecord ==
    ASSUME NEW u \in Users, NEW e \in Endpoints
    PROVE  Fresh(u, e) \in Row /\ Fresh(u, e).user = u /\ Fresh(u, e).endpoint = e
BY DEF Fresh, Row, Pending, Nothing

LEMMA PendingRecords ==
    ASSUME PushAssumption, NEW p \in Pending, NEW k \in Kinds, NEW ttl \in Nat \ {0}, now \in Nat
    PROVE  /\ PendingAfterPush(p, k, ttl) \in Pending
           /\ PendingAfterFailure(p) \in Pending
           /\ PendingAfterUnanswered(p) \in Pending
           /\ PendingAfterReceipt(p) \in Pending
           /\ Nothing \in Pending
<1>0. p.count \in Nat /\ p.until \in Nat
  BY DEF Pending, Nothing
<1>1. PendingAfterPush(p, k, ttl) \in Pending
  <2>1. CASE ~Live(p)
    BY <2>1 DEF PendingAfterPush, Pending
  <2>2. CASE Live(p)
    BY <1>0, <2>2 DEF PendingAfterPush, Pending, Live, Greater
  <2> QED
    BY <2>1, <2>2
<1>2. ASSUME p.count > 1
      PROVE  [p EXCEPT !.count = @ - 1] \in Pending
  BY <1>2 DEF Pending, Nothing
<1>3. ASSUME p.count > 0
      PROVE  [p EXCEPT !.kind = Mixed] \in Pending
  BY <1>3 DEF Pending, Nothing
<1>4. Nothing \in Pending
  BY DEF Pending
<1> QED
  BY <1>0, <1>1, <1>2, <1>3, <1>4
     DEF PendingAfterFailure, PendingAfterUnanswered, PendingAfterReceipt, Live

\* What a push keeps from one step to the next.
SamePush(r, s) == r.n = s.n /\ r.id = s.id /\ r.kind = s.kind /\ r.endpoint = s.endpoint

LEMMA TaskRecords ==
    ASSUME NEW r \in PushTask
    PROVE  /\ r.at \in {"count", "send", "note", "record"} /\ r.op = "push" /\ r # Idle
           /\ r.id \in Ids /\ r.endpoint \in Endpoints /\ r.kind \in Kinds /\ r.n \in Nat
           /\ r.ttl \in Nat \ {0} /\ r.until \in Nat /\ r.failures \in Nat /\ r.since \in Nat \cup {None}
           /\ r.outcome \in {None, "delivered", "unanswered", "failed", "gone"}
BY DEF PushTask, Idle

LEMMA TaskSends ==
    ASSUME NEW r \in PushTask, NEW w \in Nat
    PROVE  LET s == [r EXCEPT !.at = "send", !.until = w] IN
           s \in PushTask /\ s.at = "send" /\ s.until = w /\ SamePush(s, r)
BY DEF PushTask, SamePush

LEMMA TaskNotes ==
    ASSUME NEW r \in PushTask, NEW o \in {"delivered", "unanswered", "failed", "gone"}
    PROVE  LET s == [r EXCEPT !.at = "note", !.outcome = o] IN
           s \in PushTask /\ s.at = "note" /\ s.outcome = o /\ s.until = r.until /\ SamePush(s, r)
BY DEF PushTask, SamePush

LEMMA TaskIsNoted ==
    ASSUME NEW r \in PushTask
    PROVE  LET s == [r EXCEPT !.at = "record"] IN
           s \in PushTask /\ s.at = "record" /\ s.until = r.until /\ SamePush(s, r)
BY DEF PushTask, SamePush

LEMMA SubscribeRecords ==
    ASSUME NEW r \in SubscribeTask
    PROVE  /\ r.at \in {"lock", "write", "commit"} /\ r.op = "subscribe" /\ r # Idle
           /\ r.user \in Users /\ r.endpoint \in Endpoints /\ r.excess \subseteq Ids
           /\ r.id \in Ids \cup {None}
BY DEF SubscribeTask, Idle

LEMMA RegistrationWrites ==
    ASSUME NEW r \in SubscribeTask
    PROVE  LET s == [r EXCEPT !.at = "write"] IN
           s \in SubscribeTask /\ s.at = "write" /\ s.user = r.user
BY DEF SubscribeTask

LEMMA TaskAt ==
    ASSUME TasksOK, NEW t \in Tasks
    PROVE  /\ task[t].at \in {"count", "send", "note", "record"} =>
                 task[t] \in PushTask /\ task[t].op = "push" /\ Busy(t)
           /\ task[t].at \in {"lock", "write", "commit"} =>
                 task[t] \in SubscribeTask /\ task[t].op = "subscribe" /\ Busy(t)
           /\ ~Busy(t) => task[t] = Idle
           /\ task[t].at \in {"idle", "count", "send", "note", "record", "lock", "write", "commit"}
<1>1. Idle.at = "idle"
  BY DEF Idle
<1>2. CASE task[t] \in PushTask
  BY <1>2, TaskRecords DEF Busy
<1>3. CASE task[t] \in SubscribeTask
  BY <1>3, SubscribeRecords DEF Busy
<1>4. CASE task[t] = Idle
  BY <1>1, <1>4 DEF Busy
<1> QED
  BY <1>2, <1>3, <1>4 DEF TasksOK

LEMMA GoTask ==
    ASSUME TasksOK, NEW t \in Tasks, NEW r \in PushTask \cup SubscribeTask \cup {Idle}, Go(t, r)
    PROVE  /\ TasksOK' /\ task'[t] = r
           /\ \A s \in Tasks \ {t} : task'[s] = task[s]
BY DEF TasksOK, Go

-----------------------------------------------------------------------------
(* What a step must leave for the invariant to go on.                         *)

LEMMA Smaller ==
    ASSUME InstanceAssumption, NEW S \in SUBSET Ids, NEW T \in SUBSET S, Cardinality(S) <= MaxDevices
    PROVE  Cardinality(T) <= MaxDevices
<1>1. IsFiniteSet(S)
  BY FS_Subset DEF InstanceAssumption
<1>2. IsFiniteSet(T) /\ Cardinality(T) <= Cardinality(S)
  BY <1>1, FS_Subset
<1>3. Cardinality(S) \in Nat /\ Cardinality(T) \in Nat /\ MaxDevices \in Nat
  BY <1>1, <1>2, FS_CardinalityType, PushAssumption
<1> QED
  BY <1>2, <1>3

\* No registration goes on, no row is added, and none a registration has
\* written is deleted.
LEMMA RowsKept ==
    ASSUME InstanceAssumption, IndCapped, TypeOK', TasksOK', spent' = spent,
           \A t \in Tasks : task'[t].at \in {"write", "commit"} => task'[t] = task[t],
           DOMAIN rows' \subseteq DOMAIN rows,
           \A i \in DOMAIN rows' : rows'[i].user = rows[i].user /\ rows'[i].endpoint = rows[i].endpoint,
           \A t \in Writing : task[t].id \in DOMAIN rows => task[t].id \in DOMAIN rows'
    PROVE  IndCapped'
<1>1. Registering' \subseteq Registering /\ Writing' \subseteq Writing
      /\ \A t \in Registering' : task'[t] = task[t]
  BY DEF Registering, Writing
<1>2. \A t \in Writing' : task'[t] = task[t]
  BY DEF Writing
<1>3. OneRegistration'
  BY <1>1 DEF IndCapped, Shape, OneRegistration
<1>4. OneRow'
  BY DEF IndCapped, Shape, OneRow
<1>5. Written'
  BY <1>1, <1>2 DEF IndCapped, Shape, Written
<1>6. \A u : Mine(u)' \subseteq Mine(u)
  BY DEF Mine
<1>7. DevicesCapped'
  <2> SUFFICES ASSUME NEW u \in Users
               PROVE  Cardinality(Mine(u)') <= MaxDevices
    BY DEF DevicesCapped, Mine
  <2>1. Mine(u) \subseteq Ids /\ Cardinality(Mine(u)) <= MaxDevices
    BY DEF IndCapped, Shape, TypeOK, DevicesCapped, Mine
  <2> QED
    BY <1>6, <2>1, Smaller
<1>8. CappedAtCommit'
  <2> SUFFICES ASSUME NEW t \in Writing'
               PROVE  Cardinality((Mine(task[t].user)' \cup {task[t].id}) \ task[t].excess) <= MaxDevices
    BY <1>2 DEF CappedAtCommit
  <2> DEFINE S == (Mine(task[t].user) \cup {task[t].id}) \ task[t].excess
             T == (Mine(task[t].user)' \cup {task[t].id}) \ task[t].excess
  <2>1. t \in Writing /\ task[t].id \in Ids
    BY <1>1 DEF IndCapped, Shape, Written, TypeOK
  <2>2. S \subseteq Ids /\ Cardinality(S) <= MaxDevices
    BY <2>1 DEF IndCapped, Shape, CappedAtCommit, Mine, TypeOK
  <2>3. T \subseteq S
    BY <1>2, <1>6 DEF Mine
  <2> HIDE DEF S, T
  <2>4. Cardinality(T) <= MaxDevices
    BY <2>2, <2>3, Smaller
  <2> QED
    BY <2>4 DEF T
<1> QED
  BY <1>3, <1>4, <1>5, <1>7, <1>8 DEF IndCapped, Shape

-----------------------------------------------------------------------------
(* What the steps write.                                                      *)

\* No row is added or removed, and only the pending pushes of one change.
PendingOnly(id, p) ==
    /\ DOMAIN rows' = DOMAIN rows
    /\ \A i \in DOMAIN rows :
          /\ rows'[i] \in Row /\ rows'[i].user = rows[i].user /\ rows'[i].endpoint = rows[i].endpoint
          /\ i # id => rows'[i] = rows[i]
          /\ i = id => rows'[i].pending = p

LEMMA UpdatedRow ==
    ASSUME TypeOK, NEW id \in DOMAIN rows, NEW r \in Row, Update(id, r),
           r.user = rows[id].user, r.endpoint = rows[id].endpoint
    PROVE  PendingOnly(id, r.pending)
BY DEF TypeOK, Update, PendingOnly

LEMMA NotedPending ==
    ASSUME TypeOK, NEW id, NEW p, id \in DOMAIN rows => p \in Pending, NotePending(id, p)
    PROVE  PendingOnly(id, p)
<1>1. CASE id \notin DOMAIN rows
  BY <1>1 DEF NotePending, TypeOK, PendingOnly
<1>2. CASE id \in DOMAIN rows
  <2> DEFINE r == [rows[id] EXCEPT !.pending = p]
  <2>1. rows[id] \in Row
    BY <1>2 DEF TypeOK
  <2>2. r \in Row /\ r.user = rows[id].user /\ r.endpoint = rows[id].endpoint /\ r.pending = p
    BY <1>2, <2>1 DEF Row
  <2>3. Update(id, r)
    BY <1>2 DEF NotePending
  <2> HIDE DEF r
  <2> QED
    BY <1>2, <2>2, <2>3, UpdatedRow
<1> QED
  BY <1>1, <1>2

LEMMA DeletedRows ==
    ASSUME TypeOK, Written, NEW ids, Delete(ids), \A i \in ids \cap DOMAIN rows : RowFree(i)
    PROVE  /\ DOMAIN rows' = DOMAIN rows \ ids
           /\ \A i \in DOMAIN rows' : rows'[i] = rows[i] /\ rows'[i] \in Row
           /\ \A t \in Writing : task[t].id \in DOMAIN rows => task[t].id \in DOMAIN rows'
           /\ reset \subseteq reset' /\ reset' \subseteq Endpoints
           /\ \A e : e \notin reset' /\ OnTheirWay(e) =>
                 \A i \in DOMAIN rows : rows[i].endpoint = e => i \in DOMAIN rows'
<1>1. DOMAIN rows' = DOMAIN rows \ ids /\ \A i \in DOMAIN rows' : rows'[i] = rows[i] /\ rows'[i] \in Row
  BY DEF Delete, TypeOK
<1>2. \A t \in Writing : task[t].id \in DOMAIN rows => task[t].id \in DOMAIN rows'
  BY <1>1 DEF Written, RowFree
<1>3. reset \subseteq reset' /\ reset' \subseteq Endpoints
  BY DEF Delete, TypeOK, Row
<1>4. \A e : e \notin reset' /\ OnTheirWay(e) =>
         \A i \in DOMAIN rows : rows[i].endpoint = e => i \in DOMAIN rows'
  BY <1>1 DEF Delete
<1> QED
  BY <1>1, <1>2, <1>3, <1>4

\* The step of one task leaves the others where they are.
Others(t) == \A s \in Tasks \ {t} : task'[s] = task[s]

LEMMA StartPushDoes ==
    ASSUME PushAssumption, TypeOK, TasksOK, NEW t \in Tasks, StartPush(t)
    PROVE  /\ TypeOK' /\ TasksOK' /\ Others(t) /\ task[t].at = "idle"
           /\ task'[t].at = "count" /\ task'[t].n = sent /\ sent' = sent + 1
           /\ task'[t].id \in DOMAIN rows /\ task'[t].endpoint = rows[task'[t].id].endpoint
           /\ UNCHANGED <<rows, spent, service, now, mistaken, reset>>
<1>1. PICK id \in DOMAIN rows, kind \in Kinds, ttl \in TTLs :
         Go(t, [op |-> "push", at |-> "count", id |-> id, endpoint |-> rows[id].endpoint,
                kind |-> kind, ttl |-> ttl, until |-> 0, outcome |-> None, n |-> sent,
                failures |-> rows[id].failures, since |-> rows[id].since])
  BY DEF StartPush
<1> DEFINE r == [op |-> "push", at |-> "count", id |-> id, endpoint |-> rows[id].endpoint,
                 kind |-> kind, ttl |-> ttl, until |-> 0, outcome |-> None, n |-> sent,
                 failures |-> rows[id].failures, since |-> rows[id].since]
<1>2. rows[id] \in Row /\ id \in Ids /\ ttl \in Nat \ {0} /\ sent \in Nat
  BY PushAssumption DEF TypeOK
<1>3. r \in PushTask /\ r.at = "count" /\ r.n = sent /\ r.id = id /\ r.endpoint = rows[id].endpoint
  BY <1>2 DEF PushTask, Row
<1>4. Go(t, r)
  BY <1>1
<1> HIDE DEF r
<1>5. TasksOK' /\ task'[t] = r /\ Others(t)
  BY <1>3, <1>4, GoTask DEF Others
<1>6. task[t].at = "idle" /\ sent' = sent + 1 /\ UNCHANGED <<rows, spent, service, now, mistaken, reset>>
  BY DEF StartPush, MayStart, Busy
<1>7. TypeOK'
  BY <1>2, <1>6 DEF TypeOK
<1> QED
  BY <1>3, <1>5, <1>6, <1>7

LEMMA CountDoes ==
    ASSUME PushAssumption, TypeOK, TasksOK, NEW t \in Tasks, Count(t)
    PROVE  /\ TypeOK' /\ TasksOK' /\ Others(t) /\ task[t].at = "count" /\ task[t] \in PushTask
           /\ task'[t] \in PushTask /\ task'[t].at = "send" /\ SamePush(task'[t], task[t])
           /\ task'[t].until = now + task[t].ttl
           /\ PendingOnly(task[t].id, IF task[t].id \in DOMAIN rows
                 THEN PendingAfterPush(rows[task[t].id].pending, task[t].kind, task[t].ttl) ELSE Nothing)
           /\ UNCHANGED <<spent, service, now, sent, mistaken, reset>>
<1> DEFINE r == task[t]
           p == IF r.id \in DOMAIN rows
                THEN PendingAfterPush(rows[r.id].pending, r.kind, r.ttl) ELSE Nothing
           s == [r EXCEPT !.at = "send", !.until = now + r.ttl]
<1>1. r.at = "count" /\ NotePending(r.id, p) /\ Go(t, s)
      /\ UNCHANGED <<spent, service, now, sent, mistaken, reset>>
  BY DEF Count
<1>2. r \in PushTask /\ r.kind \in Kinds /\ r.ttl \in Nat \ {0} /\ now \in Nat
  BY <1>1, TaskAt, TaskRecords DEF TypeOK
<1>3. now + r.ttl \in Nat
  BY <1>2
<1>4. s \in PushTask /\ s.at = "send" /\ s.until = now + r.ttl /\ SamePush(s, r)
  BY <1>2, <1>3, TaskSends
<1>5. r.id \in DOMAIN rows => rows[r.id].pending \in Pending
  BY DEF TypeOK, Row
<1>6. r.id \in DOMAIN rows => p \in Pending
  BY <1>2, <1>5, PendingRecords
<1> HIDE DEF p, s
<1>7. PendingOnly(r.id, p)
  BY <1>1, <1>6, NotedPending
<1>8. TasksOK' /\ task'[t] = s /\ Others(t)
  BY <1>1, <1>4, GoTask DEF Others
<1>9. TypeOK'
  BY <1>1, <1>7 DEF TypeOK, PendingOnly
<1> QED
  BY <1>1, <1>2, <1>4, <1>7, <1>8, <1>9 DEF p

LEMMA SendDoes ==
    ASSUME PushAssumption, TypeOK, TasksOK, NEW t \in Tasks, Send(t)
    PROVE  /\ TypeOK' /\ TasksOK' /\ Others(t) /\ task[t].at = "send" /\ task[t] \in PushTask
           /\ task'[t] \in PushTask /\ task'[t].at = "note" /\ SamePush(task'[t], task[t])
           /\ task'[t].until = task[t].until
           /\ UNCHANGED <<rows, spent, now, sent, mistaken, reset>>
           /\ \/ /\ service' = service \cup {[n |-> task[t].n, endpoint |-> task[t].endpoint,
                                              kind |-> task[t].kind, until |-> task[t].until]}
                 /\ task'[t].outcome \in {"delivered", "unanswered"}
              \/ service' = service /\ task'[t].outcome \in {"unanswered", "failed"}
              \/ /\ service' = {p \in service : p.endpoint # task[t].endpoint}
                 /\ task'[t].outcome = "gone"
<1> DEFINE r == task[t]
           push == [n |-> r.n, endpoint |-> r.endpoint, kind |-> r.kind, until |-> r.until]
           s(o) == [r EXCEPT !.at = "note", !.outcome = o]
<1>1. r.at = "send" /\ UNCHANGED <<rows, spent, now, sent, mistaken, reset>>
  BY DEF Send
<1>2. r \in PushTask
  BY <1>1, TaskAt
<1>3. PICK o \in {"delivered", "unanswered", "failed", "gone"} :
         /\ Go(t, s(o))
         /\ \/ service' = service \cup {push} /\ o \in {"delivered", "unanswered"}
            \/ service' = service /\ o \in {"unanswered", "failed"}
            \/ service' = {p \in service : p.endpoint # r.endpoint} /\ o = "gone"
  BY DEF Send
<1>4. s(o) \in PushTask /\ s(o).at = "note" /\ s(o).outcome = o /\ s(o).until = r.until /\ SamePush(s(o), r)
  BY <1>2, TaskNotes
<1>5. push \in Push
  BY <1>2, TaskRecords DEF Push
<1> HIDE DEF s, push
<1>6. TasksOK' /\ task'[t] = s(o) /\ Others(t)
  BY <1>3, <1>4, GoTask DEF Others
<1>7. TypeOK'
  BY <1>1, <1>3, <1>5 DEF TypeOK
<1> QED
  BY <1>1, <1>2, <1>3, <1>4, <1>6, <1>7 DEF push

LEMMA NoteOutcomeDoes ==
    ASSUME PushAssumption, TypeOK, TasksOK, NEW t \in Tasks, NoteOutcome(t)
    PROVE  /\ TypeOK' /\ TasksOK' /\ Others(t) /\ task[t].at = "note" /\ task[t] \in PushTask
           /\ task'[t] \in PushTask /\ task'[t].at = "record" /\ SamePush(task'[t], task[t])
           /\ task'[t].until = task[t].until
           /\ UNCHANGED <<spent, service, now, sent, mistaken, reset>>
           /\ \/ task[t].outcome = "delivered" /\ rows' = rows
              \/ /\ task[t].outcome # "delivered"
                 /\ PendingOnly(task[t].id,
                       IF task[t].id \notin DOMAIN rows THEN Nothing
                       ELSE IF task[t].outcome = "unanswered"
                            THEN PendingAfterUnanswered(rows[task[t].id].pending)
                            ELSE PendingAfterFailure(rows[task[t].id].pending))
<1> DEFINE r == task[t]
           pending == rows[r.id].pending
           p == IF r.id \notin DOMAIN rows THEN Nothing
                ELSE IF r.outcome = "unanswered" THEN PendingAfterUnanswered(pending)
                     ELSE PendingAfterFailure(pending)
           s == [r EXCEPT !.at = "record"]
<1>1. /\ r.at = "note" /\ Go(t, s) /\ UNCHANGED <<spent, service, now, sent, mistaken, reset>>
      /\ \/ r.outcome = "delivered" /\ rows' = rows
         \/ r.outcome # "delivered" /\ NotePending(r.id, p)
  BY DEF NoteOutcome
<1>2. r \in PushTask /\ r.kind \in Kinds /\ r.ttl \in Nat \ {0} /\ now \in Nat
  BY <1>1, TaskAt, TaskRecords DEF TypeOK
<1>3. s \in PushTask /\ s.at = "record" /\ s.until = r.until /\ SamePush(s, r)
  BY <1>2, TaskIsNoted
<1>4. r.id \in DOMAIN rows => pending \in Pending
  BY DEF TypeOK, Row
<1>5. r.id \in DOMAIN rows => p \in Pending
  BY <1>2, <1>4, PendingRecords
<1> HIDE DEF p, s
<1>6. r.outcome # "delivered" => PendingOnly(r.id, p)
  BY <1>1, <1>5, NotedPending
<1>7. TasksOK' /\ task'[t] = s /\ Others(t)
  BY <1>1, <1>3, GoTask DEF Others
<1>8. TypeOK'
  BY <1>1, <1>6 DEF TypeOK, PendingOnly
<1> QED
  BY <1>1, <1>2, <1>3, <1>6, <1>7, <1>8 DEF p

LEMMA RecordDoes ==
    ASSUME PushAssumption, TypeOK, TasksOK, Written, NEW t \in Tasks, Record(t)
    PROVE  /\ TypeOK' /\ TasksOK' /\ Others(t) /\ task[t].at = "record" /\ task[t] \in PushTask
           /\ task'[t] = Idle
           /\ UNCHANGED <<spent, service, now, sent, mistaken>>
           /\ \/ /\ UNCHANGED reset
                 /\ \/ rows' = rows
                    \/ task[t].id \in DOMAIN rows /\ PendingOnly(task[t].id, rows[task[t].id].pending)
              \/ Delete({task[t].id}) /\ \A i \in {task[t].id} \cap DOMAIN rows : RowFree(i)
<1> DEFINE r == task[t]
           f == IF r.outcome # "delivered" THEN r.failures + 1 ELSE 0
           w == IF r.outcome = "delivered" THEN None ELSE IF r.since = None THEN now ELSE r.since
           row == [rows[r.id] EXCEPT !.failures = f, !.since = w]
<1>1. r.at = "record" /\ Go(t, Idle) /\ UNCHANGED <<spent, service, now, sent, mistaken>>
  BY DEF Record
<1>2. r \in PushTask /\ r.failures \in Nat /\ r.since \in Nat \cup {None} /\ now \in Nat
  BY <1>1, TaskAt, TaskRecords DEF TypeOK
<1>3. TasksOK' /\ task'[t] = Idle /\ Others(t)
  BY <1>1, GoTask DEF Others
<1>4. \/ rows' = rows /\ reset' = reset
      \/ r.id \in DOMAIN rows /\ Update(r.id, row) /\ reset' = reset
      \/ Delete({r.id}) /\ RowFree(r.id)
  BY DEF Record
<1>5. CASE rows' = rows /\ reset' = reset
  BY <1>1, <1>2, <1>3, <1>5 DEF TypeOK
<1>6. CASE r.id \in DOMAIN rows /\ Update(r.id, row) /\ reset' = reset
  <2>1. f \in Nat /\ w \in Nat \cup {None}
    BY <1>2
  <2> HIDE DEF f, w
  <2>2. rows[r.id] \in Row
    BY <1>6 DEF TypeOK
  <2>3. row \in Row /\ row.user = rows[r.id].user /\ row.endpoint = rows[r.id].endpoint
        /\ row.pending = rows[r.id].pending
    BY <2>1, <2>2, RowRecords DEF Row
  <2> HIDE DEF row
  <2>4. PendingOnly(r.id, rows[r.id].pending)
    BY <1>6, <2>3, UpdatedRow
  <2>5. TypeOK'
    BY <1>1, <1>6, <2>4 DEF TypeOK, PendingOnly
  <2> QED
    BY <1>1, <1>2, <1>3, <1>6, <2>4, <2>5
<1>7. CASE Delete({r.id}) /\ RowFree(r.id)
  <2>1. \A i \in {r.id} \cap DOMAIN rows : RowFree(i)
    BY <1>7
  <2>2. /\ DOMAIN rows' = DOMAIN rows \ {r.id} /\ reset' \subseteq Endpoints
        /\ \A i \in DOMAIN rows' : rows'[i] \in Row
    BY <1>7, <2>1, DeletedRows
  <2>3. TypeOK'
    BY <1>1, <2>2 DEF TypeOK
  <2> QED
    BY <1>1, <1>2, <1>3, <1>7, <2>1, <2>3
<1> QED
  BY <1>4, <1>5, <1>6, <1>7

LEMMA StopDoes ==
    ASSUME TypeOK, TasksOK, NEW t \in Tasks, Stop(t)
    PROVE  /\ TypeOK' /\ TasksOK' /\ Others(t) /\ task'[t] = Idle
           /\ UNCHANGED <<rows, spent, service, now, sent, mistaken, reset>>
<1>1. Go(t, Idle) /\ UNCHANGED <<rows, spent, service, now, sent, mistaken, reset>>
  BY DEF Stop
<1>2. TasksOK' /\ task'[t] = Idle /\ Others(t)
  BY <1>1, GoTask DEF Others
<1> QED
  BY <1>1, <1>2 DEF TypeOK

LEMMA ArriveDoes ==
    ASSUME PushAssumption, TypeOK, NEW push \in service, Arrive(push)
    PROVE  /\ TypeOK' /\ service' = service \ {push} /\ push \in Push
           /\ UNCHANGED <<spent, task, now, sent, reset>>
           /\ \/ rows' = rows /\ mistaken' = mistaken
              \/ \E id \in DOMAIN rows :
                    /\ rows[id].endpoint = push.endpoint
                    /\ PendingOnly(id, PendingAfterReceipt(rows[id].pending))
                    /\ \/ mistaken' = mistaken
                       \/ /\ Text(rows[id].pending) \notin {None, push.kind}
                          /\ mistaken' = mistaken \cup {push.endpoint}
<1>1. push \in Push /\ push.endpoint \in Endpoints
  BY DEF TypeOK, Push
<1>2. CASE rows' = rows /\ Shows(push, None)
  BY <1>1, <1>2 DEF Shows, TypeOK
<1>3. ASSUME NEW id \in DOMAIN rows, rows[id].endpoint = push.endpoint,
             Update(id, [rows[id] EXCEPT !.pending = PendingAfterReceipt(rows[id].pending)]),
             NEW text \in {Text(rows[id].pending), None}, Shows(push, text)
      PROVE  /\ TypeOK' /\ service' = service \ {push}
             /\ UNCHANGED <<spent, task, now, sent, reset>>
             /\ PendingOnly(id, PendingAfterReceipt(rows[id].pending))
             /\ \/ mistaken' = mistaken
                \/ /\ Text(rows[id].pending) \notin {None, push.kind}
                   /\ mistaken' = mistaken \cup {push.endpoint}
  <2> DEFINE p == PendingAfterReceipt(rows[id].pending)
             r == [rows[id] EXCEPT !.pending = p]
  <2>1. rows[id] \in Row /\ rows[id].pending \in Pending
    BY DEF TypeOK, Row
  <2>2. p \in Pending
    <3>1. push.kind \in Kinds /\ now \in Nat
      BY <1>1 DEF Push, TypeOK
    <3>2. 1 \in Nat \ {0}
      OBVIOUS
    <3> QED
      BY <2>1, <3>1, <3>2, PendingRecords
  <2> HIDE DEF p
  <2>3. r \in Row /\ r.user = rows[id].user /\ r.endpoint = rows[id].endpoint /\ r.pending = p
    BY <2>1, <2>2 DEF Row
  <2>4. Update(id, r)
    BY <1>3 DEF p
  <2> HIDE DEF r
  <2>5. PendingOnly(id, p)
    BY <2>3, <2>4, UpdatedRow
  <2>6. /\ service' = service \ {push} /\ UNCHANGED <<spent, task, now, sent, reset>>
        /\ \/ mistaken' = mistaken
           \/ /\ Text(rows[id].pending) \notin {None, push.kind}
              /\ mistaken' = mistaken \cup {push.endpoint}
    BY <1>3 DEF Shows
  <2>7. TypeOK'
    BY <1>1, <2>5, <2>6 DEF TypeOK, PendingOnly
  <2> QED
    BY <2>5, <2>6, <2>7 DEF p
<1>4. \/ rows' = rows /\ Shows(push, None)
      \/ \E id \in DOMAIN rows :
            /\ rows[id].endpoint = push.endpoint
            /\ Update(id, [rows[id] EXCEPT !.pending = PendingAfterReceipt(rows[id].pending)])
            /\ \E text \in {Text(rows[id].pending), None} : Shows(push, text)
  BY DEF Arrive
<1>5. CASE \E id \in DOMAIN rows :
            /\ rows[id].endpoint = push.endpoint
            /\ Update(id, [rows[id] EXCEPT !.pending = PendingAfterReceipt(rows[id].pending)])
            /\ \E text \in {Text(rows[id].pending), None} : Shows(push, text)
  BY <1>1, <1>3, <1>5
<1>6. CASE rows' = rows /\ Shows(push, None)
  BY <1>1, <1>2, <1>6 DEF Shows
<1> QED
  BY <1>4, <1>5, <1>6

LEMMA TickDoes ==
    ASSUME TypeOK, Tick
    PROVE  /\ TypeOK' /\ now' = now + 1 /\ service' = {p \in service : p.until > now + 1}
           /\ \A t \in Tasks : Busy(t) /\ task[t].op = "push" /\ task[t].at # "count" =>
                 task[t].until > now + 1
           /\ UNCHANGED <<rows, spent, task, sent, mistaken, reset>>
BY DEF Tick, TypeOK

LEMMA StartSubscribeDoes ==
    ASSUME TypeOK, TasksOK, NEW t \in Tasks, StartSubscribe(t)
    PROVE  /\ TypeOK' /\ TasksOK' /\ Others(t) /\ task'[t].at = "lock"
           /\ UNCHANGED <<rows, spent, service, now, sent, mistaken, reset>>
<1>1. PICK user \in Users, endpoint \in Endpoints :
         Go(t, [op |-> "subscribe", at |-> "lock", user |-> user, endpoint |-> endpoint,
                id |-> None, excess |-> {}])
  BY DEF StartSubscribe
<1> DEFINE r == [op |-> "subscribe", at |-> "lock", user |-> user, endpoint |-> endpoint,
                 id |-> None, excess |-> {}]
<1>2. r \in SubscribeTask /\ r.at = "lock"
  BY DEF SubscribeTask
<1>3. Go(t, r) /\ UNCHANGED <<rows, spent, service, now, sent, mistaken, reset>>
  BY <1>1 DEF StartSubscribe
<1> HIDE DEF r
<1>4. TasksOK' /\ task'[t] = r /\ Others(t)
  BY <1>2, <1>3, GoTask DEF Others
<1> QED
  BY <1>2, <1>3, <1>4 DEF TypeOK

LEMMA LockUserDoes ==
    ASSUME TypeOK, TasksOK, NEW t \in Tasks, LockUser(t)
    PROVE  /\ TypeOK' /\ TasksOK' /\ Others(t) /\ task[t] \in SubscribeTask /\ task[t].at = "lock"
           /\ task'[t].at = "write" /\ task'[t].user = task[t].user
           /\ \A s \in Registering : task[s].user # task[t].user
           /\ UNCHANGED <<rows, spent, service, now, sent, mistaken, reset>>
<1> DEFINE r == [task[t] EXCEPT !.at = "write"]
<1>1. Go(t, r) /\ UNCHANGED <<rows, spent, service, now, sent, mistaken, reset>>
      /\ task[t].at = "lock" /\ LockedBy(t) = {}
  BY DEF LockUser
<1>2. task[t] \in SubscribeTask
  BY <1>1, TaskAt
<1>3. r \in SubscribeTask /\ r.at = "write" /\ r.user = task[t].user
  BY <1>2, RegistrationWrites
<1> HIDE DEF r
<1>4. TasksOK' /\ task'[t] = r /\ Others(t)
  BY <1>1, <1>3, GoTask DEF Others
<1>5. \A s \in Registering : task[s].user # task[t].user
  BY <1>1, TaskAt DEF LockedBy, Registering
<1> QED
  BY <1>1, <1>2, <1>3, <1>4, <1>5 DEF TypeOK

LEMMA WriteDoes ==
    ASSUME TypeOK, TasksOK, NEW t \in Tasks, WriteSubscription(t)
    PROVE  /\ TypeOK' /\ TasksOK' /\ Others(t) /\ task[t].at = "write" /\ task'[t].at = "commit"
           /\ task'[t].user = task[t].user /\ task'[t].endpoint = task[t].endpoint
           /\ \A s \in Writing : task[s].endpoint # task[t].endpoint
           /\ task'[t].id \in Ids /\ spent' = spent \cup {task'[t].id}
           /\ \/ /\ task'[t].id \in DOMAIN rows /\ rows[task'[t].id].endpoint = task[t].endpoint
                 /\ RowFree(task'[t].id)
              \/ /\ task'[t].id \notin spent
                 /\ \A i \in DOMAIN rows : rows[i].endpoint # task[t].endpoint
           /\ task'[t].id \notin task'[t].excess /\ task'[t].excess \subseteq DOMAIN rows
           /\ \A i \in task'[t].excess : RowFree(i)
           /\ Cardinality((Mine(task[t].user) \cup {task'[t].id}) \ task'[t].excess) <= MaxDevices
           /\ UNCHANGED <<rows, service, now, sent, mistaken, reset>>
<1> DEFINE r == task[t]
           same == {i \in DOMAIN rows : rows[i].endpoint = r.endpoint}
           mine(id) == {i \in DOMAIN rows : rows[i].user = r.user} \cup {id}
<1>1. PICK id \in IF same = {} THEN Ids \ spent ELSE same :
         \E excess \in SUBSET (mine(id) \ {id}) :
            /\ Cardinality(mine(id) \ excess) <= MaxDevices
            /\ \A i \in (same \cup excess) : RowFree(i)
            /\ Go(t, [r EXCEPT !.at = "commit", !.id = id, !.excess = excess])
            /\ spent' = spent \cup {id}
  BY DEF WriteSubscription
<1>2. PICK excess \in SUBSET (mine(id) \ {id}) :
            /\ Cardinality(mine(id) \ excess) <= MaxDevices
            /\ \A i \in (same \cup excess) : RowFree(i)
            /\ Go(t, [r EXCEPT !.at = "commit", !.id = id, !.excess = excess])
            /\ spent' = spent \cup {id}
  BY <1>1
<1>3. r.at = "write" /\ (\A s \in Writing : task[s].endpoint # r.endpoint)
      /\ UNCHANGED <<rows, service, now, sent, mistaken, reset>>
  BY DEF WriteSubscription
<1>4. r \in SubscribeTask
  BY <1>3, TaskAt
<1>5. DOMAIN rows \subseteq Ids /\ id \in Ids /\ excess \in SUBSET Ids
  BY DEF TypeOK
<1> DEFINE s == [r EXCEPT !.at = "commit", !.id = id, !.excess = excess]
<1>6. /\ s \in SubscribeTask /\ s.at = "commit" /\ s.user = r.user
      /\ s.endpoint = r.endpoint /\ s.id = id /\ s.excess = excess
  BY <1>4, <1>5 DEF SubscribeTask
<1>7. TasksOK' /\ task'[t] = s /\ Others(t)
  <2>1. Go(t, s)
    BY <1>2
  <2> HIDE DEF s
  <2> QED
    BY <1>6, <2>1, GoTask DEF Others
<1> HIDE DEF s
<1>8. TypeOK'
  BY <1>2, <1>3, <1>5 DEF TypeOK
<1>9. mine(id) = Mine(r.user) \cup {id}
  BY DEF Mine
<1>10. \/ id \in DOMAIN rows /\ rows[id].endpoint = r.endpoint /\ RowFree(id)
       \/ id \notin spent /\ \A i \in DOMAIN rows : rows[i].endpoint # r.endpoint
  BY <1>2
<1>11. excess \subseteq DOMAIN rows /\ id \notin excess /\ \A i \in excess : RowFree(i)
  BY <1>2
<1> HIDE DEF mine, same
<1> QED
  BY <1>2, <1>3, <1>5, <1>6, <1>7, <1>8, <1>9, <1>10, <1>11

LEMMA CommitDoes ==
    ASSUME TypeOK, TasksOK, Written, NEW t \in Tasks, CommitSubscription(t)
    PROVE  /\ TypeOK' /\ TasksOK' /\ Others(t) /\ task[t].at = "commit" /\ task'[t] = Idle
           /\ UNCHANGED <<spent, service, now, sent, mistaken>>
           /\ task[t].id \in Ids
           /\ DOMAIN rows' = (DOMAIN rows \ task[t].excess) \cup {task[t].id}
           /\ \A i \in DOMAIN rows' \ {task[t].id} : rows'[i] = rows[i]
           /\ rows'[task[t].id].user = task[t].user /\ rows'[task[t].id].endpoint = task[t].endpoint
           /\ \/ task[t].id \in DOMAIN rows /\ rows'[task[t].id] = rows[task[t].id]
              \/ task[t].endpoint \in reset' \/ ~OnTheirWay(task[t].endpoint)
           /\ reset \subseteq reset'
           /\ \A i \in task[t].excess \cap DOMAIN rows :
                 rows[i].endpoint \in reset' \/ ~OnTheirWay(rows[i].endpoint)
<1> DEFINE r == task[t]
           kept == r.id \in DOMAIN rows /\ rows[r.id].user = r.user
           row == IF kept THEN rows[r.id] ELSE Fresh(r.user, r.endpoint)
           lost == {rows[i].endpoint : i \in r.excess} \cup IF kept THEN {} ELSE {r.endpoint}
<1>1. /\ r.at = "commit"
      /\ rows' = [i \in (DOMAIN rows \ r.excess) \cup {r.id} |-> IF i = r.id THEN row ELSE rows[i]]
      /\ reset' = reset \cup {e \in lost : OnTheirWay(e)}
      /\ Go(t, Idle)
      /\ UNCHANGED <<spent, service, now, sent, mistaken>>
  BY DEF CommitSubscription
<1>2. r \in SubscribeTask /\ r.user \in Users /\ r.endpoint \in Endpoints /\ t \in Writing
  BY <1>1, TaskAt, SubscribeRecords DEF Writing
<1>3. TasksOK' /\ task'[t] = Idle /\ Others(t)
  BY <1>1, GoTask DEF Others
<1>4. r.id \in spent /\ r.id \in Ids /\ (r.id \in DOMAIN rows => rows[r.id].endpoint = r.endpoint)
  BY <1>2 DEF Written, TypeOK
<1>5. row \in Row /\ row.user = r.user /\ row.endpoint = r.endpoint
  <2>1. CASE kept
    BY <1>4, <2>1 DEF TypeOK
  <2>2. CASE ~kept
    BY <1>2, <2>2, FreshRecord
  <2> QED
    BY <2>1, <2>2
<1>6. /\ DOMAIN rows' = (DOMAIN rows \ r.excess) \cup {r.id} /\ rows'[r.id] = row
      /\ \A i \in DOMAIN rows' \ {r.id} : rows'[i] = rows[i]
  BY <1>1
<1>7. \A e \in reset' : e \in Endpoints
  <2> SUFFICES ASSUME NEW e, OnTheirWay(e) PROVE e \in Endpoints
    BY <1>1 DEF TypeOK
  <2>1. ASSUME NEW p \in service, p.endpoint = e PROVE e \in Endpoints
    BY <2>1 DEF TypeOK, Push
  <2>2. ASSUME NEW s \in Tasks, Busy(s), task[s].op = "push", task[s].endpoint = e PROVE e \in Endpoints
    BY <2>2, TaskAt, TaskRecords DEF Busy
  <2> QED
    BY <2>1, <2>2 DEF OnTheirWay
<1>8. TypeOK'
  BY <1>1, <1>4, <1>5, <1>6, <1>7 DEF TypeOK
<1>9. \/ r.id \in DOMAIN rows /\ row = rows[r.id]
      \/ r.endpoint \in reset' \/ ~OnTheirWay(r.endpoint)
  BY <1>1
<1>10. \A i \in r.excess \cap DOMAIN rows : rows[i].endpoint \in reset' \/ ~OnTheirWay(rows[i].endpoint)
  BY <1>1
<1>11. reset \subseteq reset'
  BY <1>1
<1> HIDE DEF row, lost
<1> QED
  BY <1>1, <1>3, <1>4, <1>5, <1>6, <1>8, <1>9, <1>10, <1>11

LEMMA UnsubscribeDoes ==
    ASSUME TypeOK, TasksOK, Written, UnsubscribeAll
    PROVE  /\ TypeOK' /\ TasksOK' /\ UNCHANGED <<spent, service, task, now, sent, mistaken>>
           /\ \E ids : Delete(ids) /\ \A i \in ids \cap DOMAIN rows : RowFree(i)
<1>1. PICK ids : Delete(ids) /\ \A i \in ids \cap DOMAIN rows : RowFree(i)
  BY DEF UnsubscribeAll
<1>2. UNCHANGED <<spent, service, task, now, sent, mistaken>>
  BY DEF UnsubscribeAll
<1>3. /\ DOMAIN rows' = DOMAIN rows \ ids /\ reset' \subseteq Endpoints
      /\ \A i \in DOMAIN rows' : rows'[i] \in Row
  BY <1>1, DeletedRows
<1> QED
  BY <1>1, <1>2, <1>3 DEF TypeOK, TasksOK

-----------------------------------------------------------------------------
(* No account keeps more than MaxDevices.                                     *)

LEMMA InitCapped ==
    ASSUME InstanceAssumption, Init
    PROVE  IndCapped
<1>1. PICK ids \in SUBSET Ids :
         /\ spent = ids
         /\ \E owner \in [ids -> Users], endpoint \in [ids -> beside.endpoints] :
               /\ IsInjective(owner) /\ IsInjective(endpoint)
               /\ rows = [i \in ids |-> Fresh(owner[i], endpoint[i])]
  BY DEF Init
<1>2. PICK owner \in [ids -> Users], endpoint \in [ids -> beside.endpoints] :
         /\ IsInjective(owner) /\ IsInjective(endpoint)
         /\ rows = [i \in ids |-> Fresh(owner[i], endpoint[i])]
  BY <1>1
<1>3. beside.endpoints \subseteq Endpoints
  BY DEF Init, InstanceAssumption
<1>4. /\ DOMAIN rows = ids
      /\ \A i \in ids : /\ rows[i] \in Row /\ rows[i].user = owner[i] /\ rows[i].endpoint = endpoint[i]
  BY <1>2, <1>3, FreshRecord
<1>5. TypeOK
  BY <1>1, <1>4 DEF Init, TypeOK
<1>6. TasksOK /\ Registering = {} /\ Writing = {}
  BY DEF Init, TasksOK, Registering, Writing, Idle
<1>7. OneRow
  BY <1>2, <1>4 DEF OneRow, IsInjective
<1>8. DevicesCapped
  <2> SUFFICES ASSUME NEW u \in Users
               PROVE  Cardinality(Mine(u)) <= MaxDevices
    BY DEF DevicesCapped, Mine
  <2>1. \A i, j \in Mine(u) : i = j
    BY <1>2, <1>4 DEF Mine, IsInjective
  <2>2. Mine(u) = {} \/ \E i : Mine(u) = {i}
    BY <2>1
  <2>3. Cardinality(Mine(u)) \in {0, 1}
    BY <2>2, FS_EmptySet, FS_Singleton
  <2> QED
    BY <2>3, PushAssumption
<1> QED
  BY <1>5, <1>6, <1>7, <1>8 DEF IndCapped, Shape, OneRegistration, Written, CappedAtCommit

LEMMA TaskStepKeepsRegistrations ==
    ASSUME NEW t \in Tasks, Others(t), task'[t].at \notin {"write", "commit"}
    PROVE  \A s \in Tasks : task'[s].at \in {"write", "commit"} => task'[s] = task[s]
BY DEF Others

LEMMA PendingKeepsRows ==
    ASSUME NEW id, NEW p, PendingOnly(id, p)
    PROVE  /\ DOMAIN rows' \subseteq DOMAIN rows
           /\ \A i \in DOMAIN rows' : rows'[i].user = rows[i].user /\ rows'[i].endpoint = rows[i].endpoint
           /\ \A t \in Writing : task[t].id \in DOMAIN rows => task[t].id \in DOMAIN rows'
BY DEF PendingOnly

LEMMA PushKeepsCapped ==
    ASSUME PushAssumption, InstanceAssumption, IndCapped, NEW t \in Tasks,
           StartPush(t) \/ Count(t) \/ Send(t) \/ NoteOutcome(t) \/ Record(t) \/ Stop(t)
               \/ StartSubscribe(t)
    PROVE  IndCapped'
<1> USE DEF IndCapped, Shape
<1>1. CASE StartPush(t) \/ Send(t) \/ Stop(t) \/ StartSubscribe(t)
  <2>1. /\ TypeOK' /\ TasksOK' /\ Others(t) /\ task'[t].at \notin {"write", "commit"}
        /\ UNCHANGED <<rows, spent>>
    BY <1>1, StartPushDoes, SendDoes, StopDoes, StartSubscribeDoes DEF Idle
  <2> QED
    BY <2>1, TaskStepKeepsRegistrations, RowsKept
<1>2. CASE Count(t)
  <2>1. /\ TypeOK' /\ TasksOK' /\ Others(t) /\ task'[t].at \notin {"write", "commit"} /\ spent' = spent
        /\ \E p : PendingOnly(task[t].id, p)
    BY <1>2, CountDoes
  <2> QED
    BY <2>1, TaskStepKeepsRegistrations, PendingKeepsRows, RowsKept
<1>3. CASE NoteOutcome(t)
  <2>1. /\ TypeOK' /\ TasksOK' /\ Others(t) /\ task'[t].at \notin {"write", "commit"} /\ spent' = spent
        /\ rows' = rows \/ \E p : PendingOnly(task[t].id, p)
    BY <1>3, NoteOutcomeDoes
  <2> QED
    BY <2>1, TaskStepKeepsRegistrations, PendingKeepsRows, RowsKept
<1>4. CASE Record(t)
  <2>1. /\ TypeOK' /\ TasksOK' /\ Others(t) /\ task'[t].at \notin {"write", "commit"} /\ spent' = spent
        /\ \/ rows' = rows
           \/ \E p : PendingOnly(task[t].id, p)
           \/ Delete({task[t].id}) /\ \A i \in {task[t].id} \cap DOMAIN rows : RowFree(i)
    BY <1>4, RecordDoes DEF Idle
  <2>2. CASE rows' = rows \/ \E p : PendingOnly(task[t].id, p)
    BY <2>1, <2>2, TaskStepKeepsRegistrations, PendingKeepsRows, RowsKept
  <2>3. CASE Delete({task[t].id}) /\ \A i \in {task[t].id} \cap DOMAIN rows : RowFree(i)
    BY <2>1, <2>3, TaskStepKeepsRegistrations, DeletedRows, RowsKept
  <2> QED
    BY <2>1, <2>2, <2>3
<1> QED
  BY <1>1, <1>2, <1>3, <1>4

LEMMA BesideKeepsCapped ==
    ASSUME PushAssumption, InstanceAssumption, IndCapped,
           (\E push \in service : Arrive(push)) \/ Tick \/ UnsubscribeAll
    PROVE  IndCapped'
<1> USE DEF IndCapped, Shape
<1>1. CASE \E push \in service : Arrive(push)
  <2>1. /\ TypeOK' /\ UNCHANGED <<spent, task>>
        /\ rows' = rows \/ \E id, p : PendingOnly(id, p)
    BY <1>1, ArriveDoes
  <2>2. TasksOK'
    BY <2>1 DEF TasksOK
  <2> QED
    BY <2>1, <2>2, PendingKeepsRows, RowsKept
<1>2. CASE Tick
  <2>1. TypeOK' /\ UNCHANGED <<spent, task, rows>>
    BY <1>2, TickDoes
  <2>2. TasksOK'
    BY <2>1 DEF TasksOK
  <2> QED
    BY <2>1, <2>2, RowsKept
<1>3. CASE UnsubscribeAll
  <2>1. /\ TypeOK' /\ TasksOK' /\ UNCHANGED <<spent, task>>
        /\ \E ids : Delete(ids) /\ \A i \in ids \cap DOMAIN rows : RowFree(i)
    BY <1>3, UnsubscribeDoes
  <2> QED
    BY <2>1, DeletedRows, RowsKept
<1> QED
  BY <1>1, <1>2, <1>3

LEMMA LockKeepsCapped ==
    ASSUME InstanceAssumption, IndCapped, NEW t \in Tasks, LockUser(t)
    PROVE  IndCapped'
<1> USE DEF IndCapped, Shape
<1>1. /\ TypeOK' /\ TasksOK' /\ Others(t) /\ task[t].at = "lock" /\ task'[t].at = "write"
      /\ task'[t].user = task[t].user /\ \A s \in Registering : task[s].user # task[t].user
      /\ UNCHANGED <<rows, spent>>
  BY LockUserDoes
<1>2. Writing' = Writing /\ \A s \in Writing : task'[s] = task[s]
  BY <1>1 DEF Writing, Others
<1>3. Registering' = Registering \cup {t} /\ \A s \in Registering : task'[s] = task[s]
  BY <1>1 DEF Registering, Others
<1>4. OneRegistration'
  BY <1>1, <1>3 DEF OneRegistration
<1>5. Written'
  BY <1>1, <1>2 DEF Written
<1>6. CappedAtCommit'
  BY <1>1, <1>2 DEF CappedAtCommit, Mine
<1> QED
  BY <1>1, <1>4, <1>5, <1>6 DEF OneRow, DevicesCapped

LEMMA WriteKeepsCapped ==
    ASSUME InstanceAssumption, IndCapped, NEW t \in Tasks, WriteSubscription(t)
    PROVE  IndCapped'
<1> USE DEF IndCapped, Shape
<1> DEFINE id == task'[t].id
           excess == task'[t].excess
<1>1. /\ TypeOK' /\ TasksOK' /\ Others(t) /\ task[t].at = "write" /\ task'[t].at = "commit"
      /\ task'[t].user = task[t].user /\ task'[t].endpoint = task[t].endpoint
      /\ \A s \in Writing : task[s].endpoint # task[t].endpoint
      /\ id \in Ids /\ spent' = spent \cup {id}
      /\ \/ id \in DOMAIN rows /\ rows[id].endpoint = task[t].endpoint /\ RowFree(id)
         \/ id \notin spent /\ \A i \in DOMAIN rows : rows[i].endpoint # task[t].endpoint
      /\ id \notin excess /\ excess \subseteq DOMAIN rows /\ \A i \in excess : RowFree(i)
      /\ Cardinality((Mine(task[t].user) \cup {id}) \ excess) <= MaxDevices
      /\ UNCHANGED rows
  BY WriteDoes
<1>2. /\ Writing' = Writing \cup {t} /\ t \notin Writing
      /\ \A s \in Writing : s \in Tasks \ {t} /\ task'[s] = task[s]
  BY <1>1 DEF Writing, Others
<1>3. Registering' = Registering /\ \A s \in Registering : task'[s].user = task[s].user
  BY <1>1 DEF Registering, Others
<1>4. OneRegistration'
  BY <1>3 DEF OneRegistration
<1>5. DOMAIN rows \subseteq spent
  BY DEF TypeOK
<1> HIDE DEF id, excess
<1>6. /\ {id} \cup excess \subseteq spent'
      /\ \/ id \in DOMAIN rows /\ rows[id].endpoint = task[t].endpoint
         \/ id \notin DOMAIN rows /\ \A i \in DOMAIN rows : rows[i].endpoint # task[t].endpoint
  BY <1>1, <1>5
<1>7. ASSUME NEW s \in Writing
      PROVE  task[s].id # id /\ task[s].id \notin excess /\ id \notin task[s].excess
  <2>1. /\ {task[s].id} \cup task[s].excess \subseteq spent
        /\ task[s].id \in DOMAIN rows => rows[task[s].id].endpoint = task[s].endpoint
        /\ task[s].endpoint # task[t].endpoint
    BY <1>1 DEF Written
  <2>2. CASE id \in DOMAIN rows
    BY <1>1, <1>6, <2>1, <2>2 DEF RowFree
  <2>3. CASE id \notin DOMAIN rows
    BY <1>1, <2>1, <2>3 DEF RowFree
  <2> QED
    BY <2>2, <2>3
<1>8. Written'
  <2> SUFFICES ASSUME NEW u \in Writing'
               PROVE /\ {task'[u].id} \cup task'[u].excess \subseteq spent' /\ task'[u].id \notin task'[u].excess
                     /\ \/ task'[u].id \in DOMAIN rows /\ rows[task'[u].id].endpoint = task'[u].endpoint
                        \/ /\ task'[u].id \notin DOMAIN rows
                           /\ \A i \in DOMAIN rows : rows[i].endpoint # task'[u].endpoint
                     /\ \A s \in Writing' \ {u} :
                           /\ task'[s].endpoint # task'[u].endpoint
                           /\ task'[s].id # task'[u].id /\ task'[s].id \notin task'[u].excess
    BY <1>1 DEF Written
  <2>1. CASE u = t
    BY <1>1, <1>2, <1>6, <1>7, <2>1 DEF id, excess
  <2>2. CASE u # t
    <3>1. u \in Writing /\ task'[u] = task[u]
      BY <1>2, <2>2
    <3>2. /\ {task[u].id} \cup task[u].excess \subseteq spent' /\ task[u].id \notin task[u].excess
          /\ \/ task[u].id \in DOMAIN rows /\ rows[task[u].id].endpoint = task[u].endpoint
             \/ /\ task[u].id \notin DOMAIN rows
                /\ \A i \in DOMAIN rows : rows[i].endpoint # task[u].endpoint
      BY <1>1, <3>1 DEF Written
    <3>3. ASSUME NEW s \in Writing' \ {u}
          PROVE  /\ task'[s].endpoint # task[u].endpoint
                 /\ task'[s].id # task[u].id /\ task'[s].id \notin task[u].excess
      <4>1. CASE s = t
        BY <1>1, <1>7, <3>1, <4>1 DEF id
      <4>2. CASE s # t
        BY <1>2, <3>1, <4>2 DEF Written
      <4> QED
        BY <4>1, <4>2
    <3> QED
      BY <3>1, <3>2, <3>3
  <2> QED
    BY <2>1, <2>2
<1>9. CappedAtCommit'
  <2> SUFFICES ASSUME NEW u \in Writing'
               PROVE  Cardinality((Mine(task'[u].user) \cup {task'[u].id}) \ task'[u].excess) <= MaxDevices
    BY <1>1 DEF CappedAtCommit, Mine
  <2> QED
    BY <1>1, <1>2 DEF CappedAtCommit, id, excess
<1> QED
  BY <1>1, <1>4, <1>8, <1>9 DEF OneRow, DevicesCapped

LEMMA CommitKeepsCapped ==
    ASSUME InstanceAssumption, IndCapped, NEW t \in Tasks, CommitSubscription(t)
    PROVE  IndCapped'
<1> USE DEF IndCapped, Shape
<1> DEFINE id == task[t].id
           excess == task[t].excess
           user == task[t].user
<1>1. /\ TypeOK' /\ TasksOK' /\ Others(t) /\ task[t].at = "commit" /\ task'[t] = Idle /\ spent' = spent
      /\ id \in Ids /\ DOMAIN rows' = (DOMAIN rows \ excess) \cup {id}
      /\ \A i \in DOMAIN rows' \ {id} : rows'[i] = rows[i]
      /\ rows'[id].user = user /\ rows'[id].endpoint = task[t].endpoint
  BY CommitDoes
<1>2. t \in Writing /\ t \in Registering
  BY <1>1 DEF Writing, Registering
<1>3. Writing' = Writing \ {t} /\ \A s \in Writing' : task'[s] = task[s]
  BY <1>1 DEF Writing, Others, Idle
<1>4. Registering' = Registering \ {t} /\ \A s \in Registering' : task'[s] = task[s]
  BY <1>1 DEF Registering, Others, Idle
<1>5. /\ id \notin excess
      /\ \/ id \in DOMAIN rows /\ rows[id].endpoint = task[t].endpoint
         \/ id \notin DOMAIN rows /\ \A i \in DOMAIN rows : rows[i].endpoint # task[t].endpoint
  BY <1>2 DEF Written
<1>6. OneRegistration'
  BY <1>4 DEF OneRegistration
<1>7. OneRow'
  BY <1>1, <1>5 DEF OneRow
<1>8. Written'
  <2> SUFFICES ASSUME NEW u \in Writing'
               PROVE /\ {task[u].id} \cup task[u].excess \subseteq spent /\ task[u].id \notin task[u].excess
                     /\ \/ task[u].id \in DOMAIN rows' /\ rows'[task[u].id].endpoint = task[u].endpoint
                        \/ /\ task[u].id \notin DOMAIN rows'
                           /\ \A i \in DOMAIN rows' : rows'[i].endpoint # task[u].endpoint
                     /\ \A s \in Writing' \ {u} :
                           /\ task[s].endpoint # task[u].endpoint
                           /\ task[s].id # task[u].id /\ task[s].id \notin task[u].excess
    BY <1>1, <1>3 DEF Written
  <2>1. u \in Writing \ {t}
    BY <1>3
  <2>2. task[u].endpoint # task[t].endpoint /\ task[u].id # id /\ task[u].id \notin excess
    BY <1>2, <2>1 DEF Written
  <2>3. /\ {task[u].id} \cup task[u].excess \subseteq spent /\ task[u].id \notin task[u].excess
        /\ \A s \in Writing' \ {u} :
              /\ task[s].endpoint # task[u].endpoint
              /\ task[s].id # task[u].id /\ task[s].id \notin task[u].excess
    BY <1>3, <2>1 DEF Written
  <2> HIDE DEF id, excess, user
  <2>4. \/ task[u].id \in DOMAIN rows' /\ rows'[task[u].id].endpoint = task[u].endpoint
        \/ /\ task[u].id \notin DOMAIN rows'
           /\ \A i \in DOMAIN rows' : rows'[i].endpoint # task[u].endpoint
    BY <1>1, <2>1, <2>2 DEF Written
  <2> QED
    BY <2>3, <2>4
<1>9. /\ {i \in DOMAIN rows' : rows'[i].user = user} \subseteq (Mine(user) \cup {id}) \ excess
      /\ \A u : u # user => {i \in DOMAIN rows' : rows'[i].user = u} \subseteq Mine(u)
  <2>1. {i \in DOMAIN rows' : rows'[i].user = user} \subseteq (Mine(user) \cup {id}) \ excess
    BY <1>1, <1>5 DEF Mine
  <2>2. \A u : u # user => {i \in DOMAIN rows' : rows'[i].user = u} \subseteq Mine(u)
    BY <1>1 DEF Mine
  <2> QED
    BY <2>1, <2>2
<1>10. \A u : Mine(u) \subseteq Ids /\ (Mine(u) \cup {id}) \ excess \subseteq Ids
  BY <1>1 DEF TypeOK, Mine
<1>11. DevicesCapped'
  <2> SUFFICES ASSUME NEW u \in Users
               PROVE  Cardinality({i \in DOMAIN rows' : rows'[i].user = u}) <= MaxDevices
    BY DEF DevicesCapped
  <2>1. CASE u = user
    <3>1. Cardinality((Mine(user) \cup {id}) \ excess) <= MaxDevices
      BY <1>2 DEF CappedAtCommit
    <3> HIDE DEF id, excess, user
    <3> QED
      BY <1>9, <1>10, <2>1, <3>1, Smaller
  <2>2. CASE u # user
    <3>1. Cardinality(Mine(u)) <= MaxDevices
      BY DEF DevicesCapped, Mine
    <3> QED
      BY <1>9, <1>10, <2>2, <3>1, Smaller
  <2> QED
    BY <2>1, <2>2
<1>12. CappedAtCommit'
  <2> SUFFICES ASSUME NEW s \in Writing'
               PROVE  Cardinality(({i \in DOMAIN rows' : rows'[i].user = task[s].user}
                                   \cup {task[s].id}) \ task[s].excess) <= MaxDevices
    BY <1>3 DEF CappedAtCommit, Mine
  <2> DEFINE S == (Mine(task[s].user) \cup {task[s].id}) \ task[s].excess
             T == ({i \in DOMAIN rows' : rows'[i].user = task[s].user} \cup {task[s].id}) \ task[s].excess
  <2>1. s \in Writing \ {t} /\ s \in Registering \ {t}
    BY <1>3 DEF Writing, Registering
  <2>2. task[s].user # user
    BY <1>2, <2>1 DEF OneRegistration
  <2>3. Cardinality(S) <= MaxDevices /\ task[s].id \in Ids
    BY <2>1 DEF CappedAtCommit, Written, TypeOK
  <2>4. T \subseteq S
    BY <1>9, <2>2
  <2>5. S \subseteq Ids
    BY <1>10, <2>3
  <2> HIDE DEF S, T
  <2>6. Cardinality(T) <= MaxDevices
    BY <2>3, <2>4, <2>5, Smaller
  <2> QED
    BY <2>6 DEF T
<1> QED
  BY <1>1, <1>6, <1>7, <1>8, <1>11, <1>12

LEMMA CappedInductive ==
    InstanceAssumption /\ IndCapped /\ [Next]_vars => IndCapped'
<1> SUFFICES ASSUME InstanceAssumption, IndCapped, [Next]_vars
             PROVE  IndCapped'
  OBVIOUS
<1>1. ASSUME NEW t \in Tasks,
             StartPush(t) \/ Count(t) \/ Send(t) \/ NoteOutcome(t) \/ Record(t) \/ Stop(t)
                 \/ StartSubscribe(t)
      PROVE  IndCapped'
  BY <1>1, PushKeepsCapped, PushAssumption
<1>2. ASSUME NEW t \in Tasks, LockUser(t) \/ WriteSubscription(t) \/ CommitSubscription(t)
      PROVE  IndCapped'
  BY <1>2, LockKeepsCapped, WriteKeepsCapped, CommitKeepsCapped
<1>3. CASE (\E push \in service : Arrive(push)) \/ Tick \/ UnsubscribeAll
  BY <1>3, BesideKeepsCapped, PushAssumption
<1>4. CASE UNCHANGED vars
  <2>1. UNCHANGED <<rows, spent, service, task, now, sent, mistaken, reset>>
    BY <1>4 DEF vars
  <2>2. TypeOK' /\ TasksOK'
    BY <2>1 DEF IndCapped, Shape, TypeOK, TasksOK
  <2> QED
    BY <2>1, <2>2, RowsKept
<1> QED
  BY <1>1, <1>2, <1>3, <1>4 DEF Next

\* No account keeps more than MaxDevices devices, however many register at once:
\* a registration counts them, and chooses those beyond the limit, under the lock
\* of the account, and no other adds a row to it before its commit (subscribe).
THEOREM AccountsKeepFewDevices ==
    ASSUME InstanceAssumption
    PROVE  Spec => []DevicesCapped
<1>1. Init => IndCapped
  BY InitCapped
<1>2. IndCapped /\ [Next]_vars => IndCapped'
  BY CappedInductive
<1>3. IndCapped => DevicesCapped
  BY DEF IndCapped
<1> QED
  BY <1>1, <1>2, <1>3, PTL DEF Spec

-----------------------------------------------------------------------------
(* No device shows a push with the text of another kind.                      *)

\* The pushes counted and not settled: not sent yet, or known not to arrive.
Owed(t) ==
    \/ task[t].at = "send"
    \/ task[t].at = "note" /\ task[t].outcome \notin {"delivered", "unanswered"}
AsPush(r) == [n |-> r.n, endpoint |-> r.endpoint, kind |-> r.kind, until |-> r.until]

\* What the count of a device must cover: what it may still get, and what will
\* be taken back.
On(e) == {p \in service : p.endpoint = e}
         \cup {AsPush(task[t]) : t \in {u \in Tasks : Owed(u) /\ task[u].endpoint = e}}

\* A push is one, wherever it is.
Numbers ==
    /\ \A p \in service : p.n < sent
    /\ \A p, q \in service : p.n = q.n => p = q
    /\ \A t \in Pushing : task[t].n < sent
    /\ \A s, t \in Pushing : s # t => task[s].n # task[t].n
    /\ \A t \in Pushing : task[t].at = "count" \/ Owed(t) => \A p \in service : p.n # task[t].n

\* No push outlives its time to live, and no request takes that long.
OnTime ==
    /\ \A p \in service : p.until > now
    /\ \A t \in Pushing : task[t].at # "count" => task[t].until > now

\* The row a push was started for is never given to another device.
IdsApart ==
    \A t \in Pushing :
        /\ task[t].id \in spent
        /\ task[t].id \in DOMAIN rows => rows[task[t].id].endpoint = task[t].endpoint
        /\ \A s \in Writing : task[s].id \notin DOMAIN rows => task[t].id # task[s].id

Covers(pending, pushes) ==
    /\ IsFiniteSet(pushes) /\ Cardinality(pushes) <= pending.count
    /\ \A p \in pushes : pending.kind \in {p.kind, Mixed} /\ p.until <= pending.until

\* A device that has pushes on their way has a row, which counts them all.
Counted(e) ==
    /\ OnTheirWay(e) => \E i \in DOMAIN rows : rows[i].endpoint = e
    /\ \A t \in Pushing : task[t].endpoint = e => task[t].id \in DOMAIN rows
    /\ \A i \in DOMAIN rows : rows[i].endpoint = e => Covers(rows[i].pending, On(e))

AllCounted == \A e \in Endpoints \ reset : Counted(e)

IndKind == Numbers /\ OnTime /\ IdsApart /\ AllCounted /\ NeverAnotherKind

LEMMA Pushes ==
    ASSUME TasksOK, NEW t \in Pushing
    PROVE  /\ t \in Tasks /\ task[t] \in PushTask /\ Busy(t) /\ task[t].op = "push"
           /\ task[t].endpoint \in Endpoints /\ task[t].kind \in Kinds
           /\ task[t].n \in Nat /\ task[t].until \in Nat /\ task[t].id \in Ids
           /\ AsPush(task[t]) \in Push /\ OnTheirWay(task[t].endpoint)
<1>1. t \in Tasks /\ task[t] \in PushTask /\ Busy(t) /\ task[t].op = "push"
  BY TaskAt DEF Pushing
<1>2. /\ task[t].endpoint \in Endpoints /\ task[t].kind \in Kinds
      /\ task[t].n \in Nat /\ task[t].until \in Nat /\ task[t].id \in Ids
  BY <1>1, TaskRecords
<1> QED
  BY <1>1, <1>2 DEF AsPush, Push, OnTheirWay

LEMMA NotPushing ==
    ASSUME TasksOK, NEW t \in Tasks, t \notin Pushing
    PROVE  ~Owed(t) /\ ~(Busy(t) /\ task[t].op = "push")
<1>1. ~Owed(t)
  BY DEF Owed, Pushing
<1>2. task[t].at \in {"idle", "lock", "write", "commit"}
  BY TaskAt DEF Pushing
<1> QED
  BY <1>1, <1>2, TaskAt DEF Busy

LEMMA OwedIsPushing ==
    ASSUME NEW t \in Tasks, Owed(t)
    PROVE  t \in Pushing
BY DEF Owed, Pushing

LEMMA WhatIsOn ==
    ASSUME TypeOK, TasksOK, OnTime, NEW e, NEW p \in On(e)
    PROVE  p \in Push /\ p.endpoint = e /\ p.until > now /\ OnTheirWay(e)
<1>1. CASE p \in service /\ p.endpoint = e
  BY <1>1 DEF TypeOK, OnTime, OnTheirWay
<1>2. ASSUME NEW t \in Tasks, Owed(t), task[t].endpoint = e, p = AsPush(task[t])
      PROVE  p \in Push /\ p.endpoint = e /\ p.until > now /\ OnTheirWay(e)
  <2>1. t \in Pushing /\ task[t].at # "count"
    BY <1>2, OwedIsPushing DEF Owed
  <2>2. p \in Push /\ OnTheirWay(e) /\ task[t].until > now
    BY <1>2, <2>1, Pushes DEF OnTime
  <2> QED
    BY <1>2, <2>2 DEF AsPush
<1> QED
  BY <1>1, <1>2 DEF On

LEMMA CoversLess ==
    ASSUME NEW pending \in Pending, NEW S, NEW T \in SUBSET S, Covers(pending, S)
    PROVE  Covers(pending, T)
<1>1. IsFiniteSet(T) /\ Cardinality(T) <= Cardinality(S)
  BY FS_Subset DEF Covers
<1>2. Cardinality(S) \in Nat /\ Cardinality(T) \in Nat /\ pending.count \in Nat
  BY <1>1, FS_CardinalityType DEF Covers, Pending, Nothing
<1> QED
  BY <1>1, <1>2 DEF Covers

LEMMA CoversNone ==
    ASSUME NEW pending \in Pending
    PROVE  Covers(pending, {})
<1>1. pending.count \in Nat
  BY DEF Pending, Nothing
<1> QED
  BY <1>1, FS_EmptySet DEF Covers

\* What is on its way is alive: it is counted, and its time has not come.
LEMMA CoveredIsLive ==
    ASSUME TypeOK, TasksOK, OnTime, NEW e, NEW pending \in Pending, Covers(pending, On(e)), On(e) # {}
    PROVE  Live(pending)
<1>1. PICK p \in On(e) : TRUE
  OBVIOUS
<1>2. p \in Push /\ p.until > now
  BY WhatIsOn
<1>3. p.until \in Nat /\ pending.until \in Nat /\ pending.count \in Nat /\ now \in Nat
  BY <1>2 DEF Push, Pending, Nothing, TypeOK
<1>4. Cardinality(On(e)) \in Nat /\ Cardinality(On(e)) # 0
  BY FS_CardinalityType, FS_EmptySet DEF Covers
<1> QED
  BY <1>2, <1>3, <1>4 DEF Covers, Live

LEMMA CoversMore ==
    ASSUME PushAssumption, TypeOK, TasksOK, OnTime, NEW e, NEW pending \in Pending,
           Covers(pending, On(e)), NEW kind \in Kinds, NEW ttl \in Nat \ {0}, NEW p,
           p.kind = kind, p.until = now + ttl
    PROVE  Covers(PendingAfterPush(pending, kind, ttl), On(e) \cup {p})
<1> DEFINE S == On(e)
           q == PendingAfterPush(pending, kind, ttl)
<1>1. IsFiniteSet(S \cup {p}) /\ Cardinality(S \cup {p}) <= Cardinality(S) + 1
      /\ Cardinality(S) \in Nat /\ Cardinality(S \cup {p}) \in Nat
      /\ Cardinality(S) <= pending.count
  <2>1. IsFiniteSet(S) /\ Cardinality(S) <= pending.count
    BY DEF Covers
  <2> HIDE DEF S
  <2>2. IsFiniteSet(S \cup {p})
        /\ Cardinality(S \cup {p}) = IF p \in S THEN Cardinality(S) ELSE Cardinality(S) + 1
    BY <2>1, FS_AddElement
  <2>3. Cardinality(S) \in Nat /\ Cardinality(S \cup {p}) \in Nat
    BY <2>1, <2>2, FS_CardinalityType
  <2> QED
    BY <2>1, <2>2, <2>3
<1>2. now \in Nat /\ pending.until \in Nat /\ pending.count \in Nat
  BY DEF TypeOK, Pending, Nothing
<1>3. CASE ~Live(pending)
  <2>1. S = {}
    BY <1>3, CoveredIsLive
  <2> HIDE DEF S
  <2>2. Cardinality(S \cup {p}) = 1
    <3>1. S \cup {p} = {p}
      BY <2>1
    <3> QED
      BY <3>1, FS_Singleton
  <2>3. q.kind = kind /\ q.count = 1 /\ q.until = now + ttl
    BY <1>3 DEF PendingAfterPush
  <2> HIDE DEF q
  <2>4. Covers(q, S \cup {p})
    BY <1>1, <1>2, <2>1, <2>2, <2>3 DEF Covers
  <2> QED
    BY <2>4 DEF S, q
<1>4. CASE Live(pending)
  <2>1. /\ q.kind = (IF pending.kind = kind THEN kind ELSE Mixed) /\ q.count = pending.count + 1
        /\ q.until = Greater(pending.until, now + ttl)
    BY <1>4 DEF PendingAfterPush
  <2>2. q.until >= pending.until /\ q.until >= now + ttl /\ q.until \in Nat
    BY <1>2, <2>1 DEF Greater
  <2>3. \A x \in S : x.until \in Nat /\ x.until <= pending.until /\ pending.kind \in {x.kind, Mixed}
    BY WhatIsOn DEF Covers, Push
  <2> HIDE DEF S, q
  <2>4. \A x \in S \cup {p} : q.kind \in {x.kind, Mixed} /\ x.until <= q.until
    BY <1>2, <2>1, <2>2, <2>3
  <2>5. Cardinality(S \cup {p}) <= q.count
    BY <1>1, <1>2, <2>1
  <2>6. Covers(q, S \cup {p})
    BY <1>1, <2>4, <2>5 DEF Covers
  <2> QED
    BY <2>6 DEF S, q
<1> QED
  BY <1>3, <1>4

\* One push less and one count less: a failure known, or a receipt.
LEMMA CoversOneLess ==
    ASSUME NEW pending \in Pending, NEW S, NEW x \in S, NEW T \in SUBSET (S \ {x}), Covers(pending, S)
    PROVE  /\ Covers(PendingAfterFailure(pending), T)
           /\ Live(pending) => Covers(PendingAfterReceipt(pending), T)
<1>1. /\ IsFiniteSet(S \ {x}) /\ Cardinality(S \ {x}) = Cardinality(S) - 1
      /\ Cardinality(S) \in Nat /\ pending.count \in Nat /\ Cardinality(S) <= pending.count
  BY FS_RemoveElement, FS_CardinalityType DEF Covers, Pending, Nothing
<1>2. IsFiniteSet(T) /\ Cardinality(T) <= Cardinality(S \ {x}) /\ Cardinality(T) \in Nat
  BY <1>1, FS_Subset, FS_CardinalityType
<1>3. CASE pending.count <= 1
  <2>1. Cardinality(T) = 0
    BY <1>1, <1>2, <1>3
  <2>2. T = {}
    BY <1>2, <2>1, FS_EmptySet
  <2>3. Nothing \in Pending
    BY DEF Pending
  <2>4. PendingAfterFailure(pending) = Nothing
    BY <1>3 DEF PendingAfterFailure
  <2>5. Live(pending) => PendingAfterReceipt(pending) = Nothing
    BY <1>1, <1>3 DEF Live, PendingAfterReceipt
  <2> QED
    BY <2>2, <2>3, <2>4, <2>5, CoversNone
<1>4. CASE pending.count > 1
  <2> DEFINE q == [pending EXCEPT !.count = @ - 1]
  <2>1. q.count = pending.count - 1 /\ q.kind = pending.kind /\ q.until = pending.until
    BY DEF Pending, Nothing
  <2>2. PendingAfterFailure(pending) = q /\ (Live(pending) => PendingAfterReceipt(pending) = q)
    BY <1>1, <1>4 DEF PendingAfterFailure, PendingAfterReceipt
  <2> HIDE DEF q
  <2>3. Covers(q, T)
    BY <1>1, <1>2, <2>1 DEF Covers
  <2> QED
    BY <2>2, <2>3
<1> QED
  BY <1>1, <1>3, <1>4

LEMMA CoversUnanswered ==
    ASSUME NEW pending \in Pending, NEW S, Covers(pending, S)
    PROVE  Covers(PendingAfterUnanswered(pending), S)
<1>1. /\ IsFiniteSet(S) /\ Cardinality(S) \in Nat /\ pending.count \in Nat
      /\ Cardinality(S) <= pending.count
  BY FS_CardinalityType DEF Covers, Pending, Nothing
<1>2. CASE pending.count = 0
  <2>1. S = {}
    BY <1>1, <1>2, FS_EmptySet
  <2>2. Nothing \in Pending /\ PendingAfterUnanswered(pending) = Nothing
    BY <1>2 DEF Pending, PendingAfterUnanswered
  <2> QED
    BY <2>1, <2>2, CoversNone
<1>3. CASE pending.count # 0
  <2> DEFINE q == [pending EXCEPT !.kind = Mixed]
  <2>1. q.count = pending.count /\ q.kind = Mixed /\ q.until = pending.until
    BY DEF Pending, Nothing
  <2>2. PendingAfterUnanswered(pending) = q
    BY <1>3 DEF PendingAfterUnanswered
  <2> HIDE DEF q
  <2> QED
    BY <2>1, <2>2 DEF Covers
<1> QED
  BY <1>2, <1>3

LEMMA OnTheirWayMeans ==
    ASSUME TasksOK, NEW e
    PROVE  OnTheirWay(e) <=> \/ \E p \in service : p.endpoint = e
                             \/ \E t \in Pushing : task[t].endpoint = e
BY Pushes, NotPushing DEF OnTheirWay, Pushing

\* The same of the next state.
LEMMA OnTheirWayNext ==
    ASSUME TasksOK', NEW e, OnTheirWay(e)'
    PROVE  \/ \E p \in service' : p.endpoint = e
           \/ \E t \in Pushing' : task'[t].endpoint = e
<1> SUFFICES ASSUME NEW t \in Tasks, Busy(t)', task'[t].op = "push", task'[t].endpoint = e
             PROVE  t \in Pushing'
  BY DEF OnTheirWay
<1>1. CASE task'[t] \in PushTask
  BY <1>1, TaskRecords DEF Pushing
<1>2. CASE task'[t] \in SubscribeTask
  BY <1>2, SubscribeRecords
<1>3. CASE task'[t] = Idle
  BY <1>3 DEF Idle, Busy
<1> QED
  BY <1>1, <1>2, <1>3 DEF TasksOK

\* The tasks that push go on with the same push, or end; the push services get
\* no push but one that was owed.
PushesGoOn ==
    /\ \A u \in Pushing' :
          /\ u \in Pushing /\ SamePush(task'[u], task[u])
          /\ task'[u].at = "count" => task[u].at = "count"
          /\ task'[u].at # "count" => task[u].at # "count" /\ task'[u].until = task[u].until
          /\ Owed(u)' => Owed(u)
    /\ \A p \in service' :
          p \in service \/ \E u \in Pushing : Owed(u) /\ ~(Owed(u)') /\ p = AsPush(task[u])

LEMMA OnShrinks ==
    ASSUME TasksOK, PushesGoOn, NEW e
    PROVE  On(e)' \subseteq On(e)
<1>0. \A p \in service' : p.endpoint = e => p \in On(e)
  <2> SUFFICES ASSUME NEW u \in Pushing, Owed(u), AsPush(task[u]).endpoint = e
               PROVE  AsPush(task[u]) \in On(e)
    BY DEF On, PushesGoOn
  <2> QED
    BY DEF On, Pushing, AsPush
<1> SUFFICES ASSUME NEW t \in Tasks, Owed(t)', task'[t].endpoint = e
             PROVE  AsPush(task'[t]) \in On(e)
  BY <1>0 DEF On
<1>1. t \in Pushing'
  BY DEF Owed, Pushing
<1>2. Owed(t) /\ SamePush(task'[t], task[t]) /\ task'[t].until = task[t].until
  BY <1>1 DEF PushesGoOn, Owed
<1>3. AsPush(task'[t]) = AsPush(task[t]) /\ task[t].endpoint = e
  BY <1>2 DEF AsPush, SamePush
<1> QED
  BY <1>2, <1>3 DEF On

\* What a step must leave for the counts to go on covering what they must.
LEMMA CountsKept ==
    ASSUME Shape, IndKind, TypeOK', TasksOK', PushesGoOn,
           UNCHANGED <<sent, now>>, spent \subseteq spent', reset \subseteq reset', mistaken' \subseteq reset',
           \A u \in Writing' : u \in Writing /\ task'[u] = task[u],
           DOMAIN rows' \subseteq DOMAIN rows,
           \A i \in DOMAIN rows' : rows'[i].endpoint = rows[i].endpoint,
           \A u \in Writing : task[u].id \in DOMAIN rows => task[u].id \in DOMAIN rows',
           \A e \in Endpoints \ reset' : OnTheirWay(e) =>
              \A i \in DOMAIN rows : rows[i].endpoint = e => i \in DOMAIN rows',
           \A e \in Endpoints \ reset', i \in DOMAIN rows' :
              rows[i].endpoint = e => Covers(rows'[i].pending, On(e)')
    PROVE  IndKind'
<1> USE DEF IndKind
<1>1. Numbers'
  <2>1. \A u \in Pushing' : /\ u \in Pushing /\ task'[u].n = task[u].n
                            /\ task'[u].at = "count" \/ Owed(u)' => task[u].at = "count" \/ Owed(u)
    BY DEF PushesGoOn, SamePush
  <2>2. \A p \in service' : p \in service \/ \E u \in Pushing :
                               Owed(u) /\ ~(Owed(u)') /\ task[u].at # "count" /\ p.n = task[u].n
                               /\ p = AsPush(task[u])
    BY DEF PushesGoOn, AsPush, Owed
  <2>3. \A p \in service' : p.n < sent'
    BY <2>2 DEF Numbers
  <2>4. \A p, q \in service' : p.n = q.n => p = q
    BY <2>2 DEF Numbers
  <2>5. \A u \in Pushing' : task'[u].n < sent' /\ \A v \in Pushing' : u # v => task'[v].n # task'[u].n
    BY <2>1 DEF Numbers
  <2>6. \A u \in Pushing' : task'[u].at = "count" \/ Owed(u)' => \A p \in service' : p.n # task'[u].n
    BY <2>1, <2>2 DEF Numbers, PushesGoOn
  <2> QED
    BY <2>3, <2>4, <2>5, <2>6 DEF Numbers
<1>2. OnTime'
  BY DEF OnTime, PushesGoOn, AsPush, Owed
<1>3. IdsApart'
  BY DEF IdsApart, PushesGoOn, SamePush
<1>4. AllCounted'
  <2> SUFFICES ASSUME NEW e \in Endpoints \ reset'
               PROVE  Counted(e)'
    BY DEF AllCounted
  <2>1. Counted(e)
    BY DEF AllCounted
  <2>2. OnTheirWay(e)' => OnTheirWay(e)
    BY OnTheirWayMeans, OnTheirWayNext DEF Shape, PushesGoOn, SamePush, AsPush
  <2>3. OnTheirWay(e)' => \E i \in DOMAIN rows' : rows'[i].endpoint = e
    BY <2>1, <2>2 DEF Counted
  <2>4. ASSUME NEW t \in Pushing', task'[t].endpoint = e
        PROVE  task'[t].id \in DOMAIN rows'
    <3>1. t \in Pushing /\ task[t].endpoint = e /\ task'[t].id = task[t].id
      BY <2>4 DEF PushesGoOn, SamePush
    <3>2. OnTheirWay(e) /\ task[t].id \in DOMAIN rows /\ rows[task[t].id].endpoint = e
      BY <2>1, <3>1, Pushes DEF Shape, Counted, IdsApart
    <3> QED
      BY <3>1, <3>2
  <2>5. \A i \in DOMAIN rows' : rows'[i].endpoint = e => Covers(rows'[i].pending, On(e)')
    OBVIOUS
  <2>6. \A i \in DOMAIN rows' : rows'[i].endpoint = e => Covers(rows[i].pending, On(e))'
    BY <2>5 DEF Covers
  <2> QED
    BY <2>3, <2>4, <2>6 DEF Counted
<1>5. NeverAnotherKind'
  BY DEF NeverAnotherKind
<1> QED
  BY <1>1, <1>2, <1>3, <1>4, <1>5

\* A row that keeps its pending pushes goes on covering what is on its way.
LEMMA SamePendingCovers ==
    ASSUME Shape, IndKind, TasksOK', PushesGoOn, NEW e \in Endpoints \ reset,
           NEW i \in DOMAIN rows, rows[i].endpoint = e
    PROVE  Covers(rows[i].pending, On(e)')
<1>1. rows[i].pending \in Pending
  BY DEF Shape, TypeOK, Row
<1>2. Covers(rows[i].pending, On(e))
  BY DEF IndKind, AllCounted, Counted
<1>3. On(e)' \subseteq On(e)
  BY OnShrinks DEF Shape
<1> QED
  BY <1>1, <1>2, <1>3, CoversLess

LEMMA RowsUntouched ==
    ASSUME Shape, IndKind, TypeOK', TasksOK', PushesGoOn,
           UNCHANGED <<rows, spent, now, sent, mistaken, reset>>,
           \A u \in Writing' : u \in Writing /\ task'[u] = task[u]
    PROVE  IndKind'
<1>1. \A e \in Endpoints \ reset', i \in DOMAIN rows' :
         rows[i].endpoint = e => Covers(rows'[i].pending, On(e)')
  BY SamePendingCovers
<1>2. mistaken' \subseteq reset'
  BY DEF IndKind, NeverAnotherKind
<1> QED
  BY <1>1, <1>2, CountsKept

LEMMA QuietTasks ==
    ASSUME Shape, IndKind, NEW t \in Tasks,
           Send(t) \/ Stop(t) \/ StartSubscribe(t) \/ LockUser(t)
    PROVE  IndKind'
<1> USE DEF Shape
<1>1. CASE Send(t)
  <2>1. /\ TypeOK' /\ TasksOK' /\ Others(t) /\ task[t].at = "send" /\ task[t] \in PushTask
        /\ task'[t] \in PushTask /\ task'[t].at = "note" /\ SamePush(task'[t], task[t])
        /\ task'[t].until = task[t].until
        /\ UNCHANGED <<rows, spent, now, sent, mistaken, reset>>
        /\ \/ /\ service' = service \cup {[n |-> task[t].n, endpoint |-> task[t].endpoint,
                                           kind |-> task[t].kind, until |-> task[t].until]}
              /\ task'[t].outcome \in {"delivered", "unanswered"}
           \/ service' = service /\ task'[t].outcome \in {"unanswered", "failed"}
           \/ /\ service' = {p \in service : p.endpoint # task[t].endpoint}
              /\ task'[t].outcome = "gone"
    BY <1>1, SendDoes, PushAssumption
  <2>2. t \in Pushing /\ Owed(t) /\ Pushing' = Pushing
        /\ \A u \in Pushing' \ {t} : task'[u] = task[u]
    BY <2>1 DEF Pushing, Owed, Others
  <2>3. \A p \in service' : p \in service \/ (p = AsPush(task[t]) /\ ~(Owed(t)'))
    BY <2>1 DEF AsPush, Owed
  <2>4. \A u \in Pushing' \ {t} : SamePush(task'[u], task[u]) /\ (Owed(u)' => Owed(u))
    BY <2>2 DEF SamePush, Owed
  <2>5. PushesGoOn
    BY <2>1, <2>2, <2>3, <2>4 DEF PushesGoOn
  <2>6. \A u \in Writing' : u \in Writing /\ task'[u] = task[u]
    BY <2>1 DEF Writing, Others
  <2> QED
    BY <2>1, <2>5, <2>6, RowsUntouched
<1>2. CASE Stop(t) \/ StartSubscribe(t) \/ LockUser(t)
  <2>1. /\ TypeOK' /\ TasksOK' /\ Others(t) /\ task'[t].at \in {"idle", "lock", "write"}
        /\ UNCHANGED <<rows, spent, service, now, sent, mistaken, reset>>
    BY <1>2, StopDoes, StartSubscribeDoes, LockUserDoes DEF Idle
  <2>2. \A u \in Pushing' : u \in Pushing /\ task'[u] = task[u]
    BY <2>1 DEF Pushing, Others
  <2>3. PushesGoOn
    BY <2>1, <2>2 DEF PushesGoOn, SamePush, Owed
  <2>4. \A u \in Writing' : u \in Writing /\ task'[u] = task[u]
    BY <2>1 DEF Writing, Others
  <2> QED
    BY <2>1, <2>3, <2>4, RowsUntouched
<1> QED
  BY <1>1, <1>2

LEMMA NoteOutcomeKeepsKind ==
    ASSUME Shape, IndKind, NEW t \in Tasks, NoteOutcome(t)
    PROVE  IndKind'
<1> USE DEF Shape
<1> DEFINE id == task[t].id
           pending == rows[id].pending
           p == IF id \notin DOMAIN rows THEN Nothing
                ELSE IF task[t].outcome = "unanswered" THEN PendingAfterUnanswered(pending)
                     ELSE PendingAfterFailure(pending)
<1>1. /\ TypeOK' /\ TasksOK' /\ Others(t) /\ task[t].at = "note" /\ task[t] \in PushTask
      /\ task'[t] \in PushTask /\ task'[t].at = "record" /\ SamePush(task'[t], task[t])
      /\ task'[t].until = task[t].until
      /\ UNCHANGED <<spent, service, now, sent, mistaken, reset>>
      /\ \/ task[t].outcome = "delivered" /\ rows' = rows
         \/ task[t].outcome # "delivered" /\ PendingOnly(id, p)
  BY NoteOutcomeDoes, PushAssumption
<1>2. t \in Pushing /\ ~(Owed(t)') /\ Pushing' = Pushing
      /\ \A u \in Pushing' \ {t} : task'[u] = task[u]
  BY <1>1 DEF Pushing, Owed, Others
<1>3. PushesGoOn
  <2>1. \A u \in Pushing' \ {t} : SamePush(task'[u], task[u]) /\ (Owed(u)' => Owed(u))
    BY <1>2 DEF SamePush, Owed
  <2> QED
    BY <1>1, <1>2, <2>1 DEF PushesGoOn
<1>4. \A u \in Writing' : u \in Writing /\ task'[u] = task[u]
  BY <1>1 DEF Writing, Others
<1>5. CASE task[t].outcome = "delivered" /\ rows' = rows
  BY <1>1, <1>3, <1>4, <1>5, RowsUntouched
<1>6. CASE task[t].outcome # "delivered" /\ PendingOnly(id, p)
  <2>1. ASSUME NEW e \in Endpoints \ reset', NEW i \in DOMAIN rows', rows[i].endpoint = e
        PROVE  Covers(rows'[i].pending, On(e)')
    <3>1. i \in DOMAIN rows /\ rows[i].pending \in Pending /\ e \in Endpoints \ reset
      BY <1>1, <1>6, <2>1 DEF PendingOnly, TypeOK, Row
    <3>2. CASE i # id
      <4>1. rows'[i].pending = rows[i].pending
        BY <1>6, <3>1, <3>2 DEF PendingOnly
      <4> QED
        BY <1>1, <1>3, <2>1, <3>1, <4>1, SamePendingCovers
    <3>3. CASE i = id
      <4>1. rows'[i].pending = p /\ task[t].endpoint = e
        BY <1>2, <1>6, <2>1, <3>1, <3>3 DEF PendingOnly, IndKind, IdsApart
      <4>2. Covers(pending, On(e)) /\ On(e)' \subseteq On(e)
        BY <1>3, <2>1, <3>1, <3>3, OnShrinks DEF IndKind, AllCounted, Counted
      <4>3. CASE task[t].outcome = "unanswered"
        <5>1. Covers(PendingAfterUnanswered(pending), On(e))
          BY <3>1, <3>3, <4>2, CoversUnanswered
        <5>2. p = PendingAfterUnanswered(pending) /\ p \in Pending
          <6>1. p = PendingAfterUnanswered(pending)
            BY <3>1, <3>3, <4>3
          <6>2. rows'[i].pending \in Pending
            BY <1>1 DEF TypeOK, Row
          <6> QED
            BY <4>1, <6>1, <6>2
        <5> QED
          BY <4>1, <4>2, <5>1, <5>2, CoversLess
      <4>4. CASE task[t].outcome # "unanswered"
        <5>1. Owed(t)
          BY <1>1, <1>6, <4>4 DEF Owed
        <5>2. AsPush(task[t]) \in On(e)
          BY <4>1, <5>1 DEF On
        <5>3. AsPush(task[t]) \notin On(e)'
          <6>1. \A q \in service : q.n # task[t].n
            BY <1>2, <5>1 DEF IndKind, Numbers
          <6>2. \A u \in Pushing' \ {t} : task'[u].n # task[t].n
            BY <1>2 DEF IndKind, Numbers
          <6>3. \A u \in Tasks : Owed(u)' => u \in Pushing' \ {t}
            BY <1>2 DEF Owed, Pushing
          <6> QED
            BY <1>1, <6>1, <6>2, <6>3 DEF On, AsPush
        <5>4. p = PendingAfterFailure(pending)
          BY <3>1, <3>3, <4>4
        <5> QED
          BY <3>1, <3>3, <4>1, <4>2, <5>2, <5>3, <5>4, CoversOneLess
      <4> QED
        BY <4>3, <4>4
    <3> QED
      BY <3>2, <3>3
  <2>2. mistaken' \subseteq reset'
    BY <1>1 DEF IndKind, NeverAnotherKind
  <2>3. /\ DOMAIN rows' = DOMAIN rows
        /\ \A i \in DOMAIN rows' : rows'[i].endpoint = rows[i].endpoint
    BY <1>6 DEF PendingOnly
  <2> QED
    BY <1>1, <1>3, <1>4, <2>1, <2>2, <2>3, CountsKept
<1> QED
  BY <1>1, <1>5, <1>6

\* Rows deleted take the counts with them: the devices that had pushes on their
\* way are reset.
LEMMA DeletionKeepsKind ==
    ASSUME Shape, IndKind, TypeOK', TasksOK', PushesGoOn,
           UNCHANGED <<spent, now, sent, mistaken>>,
           \A u \in Writing' : u \in Writing /\ task'[u] = task[u],
           NEW ids, Delete(ids), \A i \in ids \cap DOMAIN rows : RowFree(i)
    PROVE  IndKind'
<1>1. /\ DOMAIN rows' = DOMAIN rows \ ids
      /\ \A i \in DOMAIN rows' : rows'[i] = rows[i]
      /\ \A t \in Writing : task[t].id \in DOMAIN rows => task[t].id \in DOMAIN rows'
      /\ reset \subseteq reset'
      /\ \A e : e \notin reset' /\ OnTheirWay(e) =>
            \A i \in DOMAIN rows : rows[i].endpoint = e => i \in DOMAIN rows'
  BY DeletedRows DEF Shape
<1>2. \A e \in Endpoints \ reset', i \in DOMAIN rows' :
         rows[i].endpoint = e => Covers(rows'[i].pending, On(e)')
  BY <1>1, SamePendingCovers
<1>3. mistaken' \subseteq reset'
  BY <1>1 DEF IndKind, NeverAnotherKind
<1> QED
  BY <1>1, <1>2, <1>3, CountsKept

LEMMA RecordKeepsKind ==
    ASSUME Shape, IndKind, NEW t \in Tasks, Record(t)
    PROVE  IndKind'
<1> USE DEF Shape
<1> DEFINE id == task[t].id
<1>1. /\ TypeOK' /\ TasksOK' /\ Others(t) /\ task[t].at = "record" /\ task[t] \in PushTask
      /\ task'[t] = Idle
      /\ UNCHANGED <<spent, service, now, sent, mistaken>>
      /\ \/ /\ UNCHANGED reset
            /\ \/ rows' = rows
               \/ id \in DOMAIN rows /\ PendingOnly(id, rows[id].pending)
         \/ Delete({id}) /\ \A i \in {id} \cap DOMAIN rows : RowFree(i)
  BY RecordDoes, PushAssumption
<1>2. \A u \in Pushing' : u \in Pushing /\ task'[u] = task[u]
  BY <1>1 DEF Pushing, Others, Idle
<1>3. PushesGoOn
  BY <1>1, <1>2 DEF PushesGoOn, SamePush, Owed
<1>4. \A u \in Writing' : u \in Writing /\ task'[u] = task[u]
  BY <1>1 DEF Writing, Others, Idle
<1>5. CASE rows' = rows /\ reset' = reset
  BY <1>1, <1>3, <1>4, <1>5, RowsUntouched
<1>6. CASE reset' = reset /\ id \in DOMAIN rows /\ PendingOnly(id, rows[id].pending)
  <2>1. /\ DOMAIN rows' = DOMAIN rows
        /\ \A i \in DOMAIN rows' : /\ rows'[i].endpoint = rows[i].endpoint
                                   /\ rows'[i].pending = rows[i].pending
    BY <1>6 DEF PendingOnly
  <2>2. \A e \in Endpoints \ reset', i \in DOMAIN rows' :
           rows[i].endpoint = e => Covers(rows'[i].pending, On(e)')
    BY <1>1, <1>3, <1>6, <2>1, SamePendingCovers
  <2>3. mistaken' \subseteq reset'
    BY <1>1, <1>6 DEF IndKind, NeverAnotherKind
  <2> QED
    BY <1>1, <1>3, <1>4, <1>6, <2>1, <2>2, <2>3, CountsKept
<1>7. CASE Delete({id}) /\ \A i \in {id} \cap DOMAIN rows : RowFree(i)
  <2> HIDE DEF id
  <2> QED
    BY <1>1, <1>3, <1>4, <1>7, DeletionKeepsKind
<1> QED
  BY <1>1, <1>5, <1>6, <1>7

LEMMA ArriveKeepsKind ==
    ASSUME Shape, IndKind, NEW push \in service, Arrive(push)
    PROVE  IndKind'
<1> USE DEF Shape
<1>1. /\ TypeOK' /\ service' = service \ {push} /\ push \in Push
      /\ UNCHANGED <<spent, task, now, sent, reset>>
      /\ \/ rows' = rows /\ mistaken' = mistaken
         \/ \E id \in DOMAIN rows :
               /\ rows[id].endpoint = push.endpoint
               /\ PendingOnly(id, PendingAfterReceipt(rows[id].pending))
               /\ \/ mistaken' = mistaken
                  \/ /\ Text(rows[id].pending) \notin {None, push.kind}
                     /\ mistaken' = mistaken \cup {push.endpoint}
  BY ArriveDoes, PushAssumption
<1>2. TasksOK' /\ PushesGoOn
  BY <1>1 DEF TasksOK, PushesGoOn, Pushing, Owed, SamePush
<1>3. \A u \in Writing' : u \in Writing /\ task'[u] = task[u]
  BY <1>1 DEF Writing
<1>4. CASE rows' = rows /\ mistaken' = mistaken
  BY <1>1, <1>2, <1>3, <1>4, RowsUntouched
<1>5. ASSUME NEW id \in DOMAIN rows, rows[id].endpoint = push.endpoint,
             PendingOnly(id, PendingAfterReceipt(rows[id].pending)),
             \/ mistaken' = mistaken
             \/ /\ Text(rows[id].pending) \notin {None, push.kind}
                /\ mistaken' = mistaken \cup {push.endpoint}
      PROVE  IndKind'
  <2> DEFINE pending == rows[id].pending
             e == push.endpoint
  <2>1. pending \in Pending /\ e \in Endpoints /\ push.kind \in Kinds /\ push \in On(e)
    BY <1>1 DEF TypeOK, Row, Push, On
  <2>2. e \notin reset => Covers(pending, On(e)) /\ Live(pending)
    <3>1. e \notin reset => Covers(pending, On(e))
      BY <1>5, <2>1 DEF IndKind, AllCounted, Counted
    <3> QED
      BY <2>1, <3>1, CoveredIsLive DEF IndKind
  <2>3. push \notin On(e)'
    <3>1. \A u \in Tasks : Owed(u)' => u \in Pushing /\ Owed(u)
      BY <1>1 DEF Owed, Pushing
    <3>2. \A u \in Tasks : Owed(u)' => task'[u].n # push.n
      BY <1>1, <3>1 DEF IndKind, Numbers
    <3> QED
      BY <1>1, <3>2 DEF On, AsPush
  <2>4. On(e)' \subseteq On(e) \ {push}
    BY <1>2, <2>3, OnShrinks
  <2>5. e \notin reset => Covers(PendingAfterReceipt(pending), On(e)')
    BY <2>1, <2>2, <2>4, CoversOneLess
  <2>6. /\ DOMAIN rows' = DOMAIN rows
        /\ \A i \in DOMAIN rows' : /\ rows'[i].endpoint = rows[i].endpoint
                                   /\ i # id => rows'[i] = rows[i]
        /\ rows'[id].pending = PendingAfterReceipt(pending)
    BY <1>5 DEF PendingOnly
  <2>7. ASSUME NEW f \in Endpoints \ reset', NEW i \in DOMAIN rows', rows[i].endpoint = f
        PROVE  Covers(rows'[i].pending, On(f)')
    <3>1. CASE i = id
      BY <1>1, <1>5, <2>5, <2>6, <2>7, <3>1
    <3>2. CASE i # id
      BY <1>1, <1>2, <2>6, <2>7, <3>2, SamePendingCovers
    <3> QED
      BY <3>1, <3>2
  <2>8. e \notin reset => Text(pending) \in {None, push.kind}
    BY <2>1, <2>2, PushAssumption DEF Covers, Text
  <2>9. mistaken' \subseteq reset'
    BY <1>1, <1>5, <2>8 DEF IndKind, NeverAnotherKind
  <2> HIDE DEF pending, e
  <2> QED
    BY <1>1, <1>2, <1>3, <2>6, <2>7, <2>9, CountsKept
<1> QED
  BY <1>1, <1>4, <1>5

LEMMA TickKeepsKind ==
    ASSUME Shape, IndKind, Tick
    PROVE  IndKind'
<1> USE DEF Shape
<1>1. /\ TypeOK' /\ now' = now + 1 /\ service' = {p \in service : p.until > now + 1}
      /\ \A t \in Tasks : Busy(t) /\ task[t].op = "push" /\ task[t].at # "count" =>
            task[t].until > now + 1
      /\ UNCHANGED <<rows, spent, task, sent, mistaken, reset>>
  BY TickDoes
<1>2. TasksOK' /\ PushesGoOn
  BY <1>1 DEF TasksOK, PushesGoOn, Pushing, Owed, SamePush
<1>3. Numbers'
  BY <1>1 DEF IndKind, Numbers, Pushing, Owed
<1>4. OnTime'
  <2>1. \A t \in Pushing : task[t].at # "count" => task[t].until > now + 1
    BY <1>1, Pushes
  <2> QED
    BY <1>1, <2>1 DEF OnTime, Pushing
<1>5. IdsApart'
  BY <1>1 DEF IndKind, IdsApart, Pushing, Writing
<1>6. AllCounted'
  <2> SUFFICES ASSUME NEW e \in Endpoints \ reset
               PROVE  Counted(e)'
    BY <1>1 DEF AllCounted
  <2>1. Counted(e)
    BY DEF IndKind, AllCounted
  <2>2. OnTheirWay(e)' => OnTheirWay(e)
    BY <1>1, <1>2, OnTheirWayMeans, OnTheirWayNext DEF Pushing
  <2>3. ASSUME NEW i \in DOMAIN rows, rows[i].endpoint = e
        PROVE  Covers(rows[i].pending, On(e))'
    <3>1. Covers(rows[i].pending, On(e)')
      BY <1>2, <2>3, SamePendingCovers
    <3> QED
      BY <1>1, <3>1 DEF Covers
  <2> QED
    BY <1>1, <2>1, <2>2, <2>3 DEF Counted, Pushing
<1> QED
  BY <1>1, <1>3, <1>4, <1>5, <1>6 DEF IndKind, NeverAnotherKind

LEMMA UnsubscribeKeepsKind ==
    ASSUME Shape, IndKind, UnsubscribeAll
    PROVE  IndKind'
<1> USE DEF Shape
<1>1. /\ TypeOK' /\ TasksOK' /\ UNCHANGED <<spent, service, task, now, sent, mistaken>>
      /\ \E ids : Delete(ids) /\ \A i \in ids \cap DOMAIN rows : RowFree(i)
  BY UnsubscribeDoes
<1>2. PushesGoOn
  BY <1>1 DEF PushesGoOn, Pushing, Owed, SamePush
<1>3. \A u \in Writing' : u \in Writing /\ task'[u] = task[u]
  BY <1>1 DEF Writing
<1> QED
  BY <1>1, <1>2, <1>3, DeletionKeepsKind

LEMMA StartPushKeepsKind ==
    ASSUME Shape, IndKind, NEW t \in Tasks, StartPush(t)
    PROVE  IndKind'
<1> USE DEF Shape
<1>1. /\ TypeOK' /\ TasksOK' /\ Others(t) /\ task[t].at = "idle"
      /\ task'[t].at = "count" /\ task'[t].n = sent /\ sent' = sent + 1
      /\ task'[t].id \in DOMAIN rows /\ task'[t].endpoint = rows[task'[t].id].endpoint
      /\ UNCHANGED <<rows, spent, service, now, mistaken, reset>>
  BY StartPushDoes, PushAssumption
<1>2. /\ Pushing' = Pushing \cup {t} /\ t \notin Pushing
      /\ \A u \in Pushing : u \in Tasks \ {t} /\ task'[u] = task[u]
  BY <1>1 DEF Pushing, Others
<1>3. ~(Owed(t)') /\ ~Owed(t) /\ \A u \in Tasks \ {t} : Owed(u)' <=> Owed(u)
  BY <1>1 DEF Owed, Others
<1>4. sent \in Nat /\ (\A u \in Pushing : task[u].n \in Nat) /\ (\A p \in service : p.n \in Nat)
  BY Pushes DEF TypeOK, Push
<1>5. Numbers'
  <2>1. \A p \in service' : p.n < sent'
    BY <1>1, <1>4 DEF IndKind, Numbers
  <2>2. \A u \in Pushing' : task'[u].n < sent' /\ \A v \in Pushing' : u # v => task'[v].n # task'[u].n
    BY <1>1, <1>2, <1>4 DEF IndKind, Numbers
  <2>3. \A u \in Pushing' : task'[u].at = "count" \/ Owed(u)' => \A p \in service' : p.n # task'[u].n
    BY <1>1, <1>2, <1>3, <1>4 DEF IndKind, Numbers
  <2> QED
    BY <1>1, <2>1, <2>2, <2>3 DEF IndKind, Numbers
<1>6. OnTime'
  BY <1>1, <1>2 DEF IndKind, OnTime
<1>7. Writing' = Writing /\ \A s \in Writing : task'[s] = task[s]
  BY <1>1 DEF Writing, Others
<1>8. IdsApart'
  BY <1>1, <1>2, <1>7 DEF IndKind, IdsApart, TypeOK
<1>9. AllCounted'
  <2> SUFFICES ASSUME NEW e \in Endpoints \ reset
               PROVE  Counted(e)'
    BY <1>1 DEF AllCounted
  <2>1. Counted(e)
    BY DEF IndKind, AllCounted
  <2>2. On(e)' = On(e)
    <3>1. \A u \in Tasks : /\ (Owed(u) /\ task[u].endpoint = e) <=> (Owed(u)' /\ task'[u].endpoint = e)
                           /\ Owed(u) => task'[u] = task[u]
      BY <1>1, <1>3 DEF Others
    <3> QED
      BY <1>1, <3>1 DEF On, AsPush
  <2>3. OnTheirWay(e)' => OnTheirWay(e) \/ e = task'[t].endpoint
    BY <1>1, <1>2, OnTheirWayMeans, OnTheirWayNext
  <2>4. OnTheirWay(e)' => \E i \in DOMAIN rows' : rows'[i].endpoint = e
    BY <1>1, <2>1, <2>3 DEF Counted
  <2>5. \A u \in Pushing' : task'[u].endpoint = e => task'[u].id \in DOMAIN rows'
    BY <1>1, <1>2, <2>1 DEF Counted
  <2>6. \A i \in DOMAIN rows' : rows'[i].endpoint = e => Covers(rows'[i].pending, On(e)')
    BY <1>1, <2>1, <2>2 DEF Counted
  <2>7. \A i \in DOMAIN rows' : rows'[i].endpoint = e => Covers(rows[i].pending, On(e))'
    BY <2>6 DEF Covers
  <2> QED
    BY <2>4, <2>5, <2>7 DEF Counted
<1> QED
  BY <1>1, <1>5, <1>6, <1>8, <1>9 DEF IndKind, NeverAnotherKind

LEMMA CountKeepsKind ==
    ASSUME Shape, IndKind, NEW t \in Tasks, Count(t)
    PROVE  IndKind'
<1> USE DEF Shape
<1> DEFINE id == task[t].id
           p == IF id \in DOMAIN rows
                THEN PendingAfterPush(rows[id].pending, task[t].kind, task[t].ttl) ELSE Nothing
<1>1. /\ TypeOK' /\ TasksOK' /\ Others(t) /\ task[t].at = "count" /\ task[t] \in PushTask
      /\ task'[t] \in PushTask /\ task'[t].at = "send" /\ SamePush(task'[t], task[t])
      /\ task'[t].until = now + task[t].ttl
      /\ PendingOnly(id, p)
      /\ UNCHANGED <<spent, service, now, sent, mistaken, reset>>
  BY CountDoes, PushAssumption
<1>2. /\ Pushing' = Pushing /\ t \in Pushing
      /\ \A u \in Pushing \ {t} : u \in Tasks \ {t} /\ task'[u] = task[u]
      /\ \A u \in Pushing : SamePush(task'[u], task[u])
  BY <1>1 DEF Pushing, Others, SamePush
<1>3. Owed(t)' /\ ~Owed(t) /\ \A u \in Tasks \ {t} : task'[u] = task[u] /\ (Owed(u)' <=> Owed(u))
  BY <1>1 DEF Owed, Others
<1>4. /\ DOMAIN rows' = DOMAIN rows
      /\ \A i \in DOMAIN rows : rows'[i].endpoint = rows[i].endpoint /\ (i # id => rows'[i] = rows[i])
      /\ \A i \in DOMAIN rows : i = id => rows'[i].pending = p
  BY <1>1 DEF PendingOnly
<1>5. Writing' = Writing /\ \A s \in Writing : task'[s] = task[s]
  BY <1>1 DEF Writing, Others
<1>6. Numbers'
  <2>1. \A u \in Pushing : task'[u].n = task[u].n
    BY <1>2 DEF SamePush
  <2>2. \A u \in Pushing : task'[u].at = "count" \/ Owed(u)' => task[u].at = "count" \/ Owed(u)
    BY <1>1, <1>2, <1>3
  <2> QED
    BY <1>1, <1>2, <2>1, <2>2 DEF IndKind, Numbers
<1>7. now \in Nat /\ task[t].ttl \in Nat \ {0} /\ task[t].kind \in Kinds /\ now + task[t].ttl > now
  BY <1>1, TaskRecords DEF TypeOK
<1>8. OnTime'
  BY <1>1, <1>2, <1>7 DEF IndKind, OnTime
<1>9. IdsApart'
  BY <1>1, <1>2, <1>4, <1>5 DEF IndKind, IdsApart, SamePush
<1>10. AllCounted'
  <2> SUFFICES ASSUME NEW e \in Endpoints \ reset
               PROVE  Counted(e)'
    BY <1>1 DEF AllCounted
  <2>1. Counted(e)
    BY DEF IndKind, AllCounted
  <2>2. OnTheirWay(e)' => OnTheirWay(e)
    BY <1>1, <1>2, OnTheirWayMeans, OnTheirWayNext DEF SamePush
  <2>3. OnTheirWay(e)' => \E i \in DOMAIN rows' : rows'[i].endpoint = e
    BY <1>4, <2>1, <2>2 DEF Counted
  <2>4. \A u \in Pushing' : task'[u].endpoint = e => task'[u].id \in DOMAIN rows'
    BY <1>2, <1>4, <2>1 DEF Counted, SamePush
  <2>5. ASSUME NEW i \in DOMAIN rows, rows[i].endpoint = e
        PROVE  Covers(rows'[i].pending, On(e)')
    <3>1. rows[i].pending \in Pending /\ Covers(rows[i].pending, On(e))
      BY <2>1, <2>5 DEF Counted, TypeOK, Row
    <3>2. CASE task[t].endpoint = e
      <4>1. id \in DOMAIN rows /\ rows[id].endpoint = e
        BY <1>2, <2>1, <3>2 DEF Counted, IndKind, IdsApart
      <4>2. i = id /\ rows'[i].pending = PendingAfterPush(rows[i].pending, task[t].kind, task[t].ttl)
        BY <1>4, <2>5, <4>1 DEF OneRow
      <4> DEFINE x == AsPush(task'[t])
      <4>3. x.kind = task[t].kind /\ x.until = now + task[t].ttl
        BY <1>1 DEF AsPush, SamePush
      <4>4. On(e)' \subseteq On(e) \cup {x}
        BY <1>1, <1>3 DEF On, AsPush
      <4>5. Covers(rows'[i].pending, On(e) \cup {x})
        <5> HIDE DEF x
        <5> QED
          BY <1>7, <3>1, <4>2, <4>3, CoversMore, PushAssumption DEF IndKind
      <4>6. rows'[i].pending \in Pending
        BY <1>1, <1>4 DEF TypeOK, Row
      <4> QED
        BY <4>4, <4>5, <4>6, CoversLess
    <3>3. CASE task[t].endpoint # e
      <4>1. On(e)' = On(e)
        <5>1. \A u \in Tasks : /\ (Owed(u) /\ task[u].endpoint = e) <=> (Owed(u)' /\ task'[u].endpoint = e)
                               /\ Owed(u) => task'[u] = task[u]
          BY <1>1, <1>3, <3>3 DEF SamePush
        <5> QED
          BY <1>1, <5>1 DEF On, AsPush
      <4>2. i # id
        BY <1>2, <2>5, <3>3 DEF IndKind, IdsApart
      <4> QED
        BY <1>4, <3>1, <4>1, <4>2
    <3> QED
      BY <3>2, <3>3
  <2>6. \A i \in DOMAIN rows' : rows'[i].endpoint = e => Covers(rows[i].pending, On(e))'
    BY <1>4, <2>5 DEF Covers
  <2> QED
    BY <2>3, <2>4, <2>6 DEF Counted
<1> QED
  BY <1>1, <1>6, <1>8, <1>9, <1>10 DEF IndKind, NeverAnotherKind

LEMMA WriteKeepsKind ==
    ASSUME Shape, IndKind, NEW t \in Tasks, WriteSubscription(t)
    PROVE  IndKind'
<1> USE DEF Shape
<1>1. /\ TypeOK' /\ TasksOK' /\ Others(t) /\ task[t].at = "write" /\ task'[t].at = "commit"
      /\ spent' = spent \cup {task'[t].id}
      /\ task'[t].id \in DOMAIN rows \/ task'[t].id \notin spent
      /\ UNCHANGED <<rows, service, now, sent, mistaken, reset>>
  BY WriteDoes
<1>2. Pushing' = Pushing /\ \A u \in Pushing : u \in Tasks \ {t} /\ task'[u] = task[u]
  BY <1>1 DEF Pushing, Others
<1>3. ~(Owed(t)') /\ ~Owed(t) /\ \A u \in Tasks \ {t} : task'[u] = task[u] /\ (Owed(u)' <=> Owed(u))
  BY <1>1 DEF Owed, Others
<1>4. Numbers' /\ OnTime'
  BY <1>1, <1>2, <1>3 DEF IndKind, Numbers, OnTime
<1>5. Writing' = Writing \cup {t} /\ \A s \in Writing : task'[s] = task[s]
  BY <1>1 DEF Writing, Others
<1>6. IdsApart'
  BY <1>1, <1>2, <1>5 DEF IndKind, IdsApart
<1>7. AllCounted'
  <2> SUFFICES ASSUME NEW e \in Endpoints \ reset
               PROVE  Counted(e)'
    BY <1>1 DEF AllCounted
  <2>1. Counted(e)
    BY DEF IndKind, AllCounted
  <2>2. OnTheirWay(e)' => OnTheirWay(e)
    BY <1>1, <1>2, OnTheirWayMeans, OnTheirWayNext
  <2>3. On(e)' = On(e)
    BY <1>1, <1>3 DEF On, AsPush
  <2>4. \A i \in DOMAIN rows : rows[i].endpoint = e => Covers(rows[i].pending, On(e)')
    BY <2>1, <2>3 DEF Counted
  <2>5. \A i \in DOMAIN rows' : rows'[i].endpoint = e => Covers(rows[i].pending, On(e))'
    BY <1>1, <2>4 DEF Covers
  <2> QED
    BY <1>1, <1>2, <2>1, <2>2, <2>5 DEF Counted
<1> QED
  BY <1>1, <1>4, <1>6, <1>7 DEF IndKind, NeverAnotherKind

LEMMA CommitKeepsKind ==
    ASSUME Shape, IndKind, NEW t \in Tasks, CommitSubscription(t)
    PROVE  IndKind'
<1> USE DEF Shape
<1> DEFINE id == task[t].id
<1>1. /\ TypeOK' /\ TasksOK' /\ Others(t) /\ task[t].at = "commit" /\ task'[t] = Idle
      /\ UNCHANGED <<spent, service, now, sent, mistaken>>
      /\ id \in Ids
      /\ DOMAIN rows' = (DOMAIN rows \ task[t].excess) \cup {id}
      /\ \A i \in DOMAIN rows' \ {id} : rows'[i] = rows[i]
      /\ rows'[id].endpoint = task[t].endpoint
      /\ \/ id \in DOMAIN rows /\ rows'[id] = rows[id]
         \/ task[t].endpoint \in reset' \/ ~OnTheirWay(task[t].endpoint)
      /\ reset \subseteq reset'
      /\ \A i \in task[t].excess \cap DOMAIN rows :
            rows[i].endpoint \in reset' \/ ~OnTheirWay(rows[i].endpoint)
  BY CommitDoes
<1>2. Pushing' = Pushing /\ \A u \in Pushing : u \in Tasks \ {t} /\ task'[u] = task[u]
  BY <1>1 DEF Pushing, Others, Idle
<1>3. ~(Owed(t)') /\ ~Owed(t) /\ \A u \in Tasks \ {t} : task'[u] = task[u] /\ (Owed(u)' <=> Owed(u))
  BY <1>1 DEF Owed, Others, Idle
<1>4. Numbers' /\ OnTime'
  BY <1>1, <1>2, <1>3 DEF IndKind, Numbers, OnTime
<1>5. t \in Writing /\ Writing' = Writing \ {t} /\ \A s \in Writing' : task'[s] = task[s]
  BY <1>1 DEF Writing, Others, Idle
<1>6. /\ id \in DOMAIN rows => rows[id].endpoint = task[t].endpoint
      /\ \A s \in Writing' : task[s].id # id /\ task[s].id \notin task[t].excess
  BY <1>5 DEF Written
<1>7. IdsApart'
  <2> SUFFICES ASSUME NEW u \in Pushing
               PROVE  /\ task[u].id \in spent
                      /\ task[u].id \in DOMAIN rows' => rows'[task[u].id].endpoint = task[u].endpoint
                      /\ \A s \in Writing' : task[s].id \notin DOMAIN rows' => task[u].id # task[s].id
    BY <1>1, <1>2, <1>5 DEF IdsApart
  <2>1. /\ task[u].id \in spent
        /\ task[u].id \in DOMAIN rows => rows[task[u].id].endpoint = task[u].endpoint
        /\ \A s \in Writing : task[s].id \notin DOMAIN rows => task[u].id # task[s].id
    BY DEF IndKind, IdsApart
  <2>2. task[u].id = id => id \in DOMAIN rows
    BY <1>5, <2>1
  <2> HIDE DEF id
  <2>3. task[u].id \in DOMAIN rows' => rows'[task[u].id].endpoint = task[u].endpoint
    BY <1>1, <1>6, <2>1, <2>2
  <2>4. \A s \in Writing' : task[s].id \notin DOMAIN rows' => task[u].id # task[s].id
    BY <1>1, <1>5, <1>6, <2>1
  <2> QED
    BY <2>1, <2>3, <2>4
<1>8. AllCounted'
  <2> SUFFICES ASSUME NEW e \in Endpoints \ reset'
               PROVE  Counted(e)'
    BY DEF AllCounted
  <2>1. Counted(e)
    BY <1>1 DEF IndKind, AllCounted
  <2>2. OnTheirWay(e)' => OnTheirWay(e)
    BY <1>1, <1>2, OnTheirWayMeans, OnTheirWayNext
  <2>3. OnTheirWay(e) => \A i \in DOMAIN rows : rows[i].endpoint = e => i \in DOMAIN rows'
    BY <1>1
  <2>4. \A i \in DOMAIN rows : rows[i].endpoint = e /\ i \in DOMAIN rows' => rows'[i].endpoint = e
    BY <1>1, <1>6
  <2>5. OnTheirWay(e)' => \E i \in DOMAIN rows' : rows'[i].endpoint = e
    BY <2>1, <2>2, <2>3, <2>4 DEF Counted
  <2>6. ASSUME NEW u \in Pushing', task'[u].endpoint = e
        PROVE  task'[u].id \in DOMAIN rows'
    <3>1. u \in Pushing /\ task[u].endpoint = e /\ task'[u] = task[u]
      BY <1>2, <2>6
    <3>2. OnTheirWay(e) /\ task[u].id \in DOMAIN rows /\ rows[task[u].id].endpoint = e
      BY <2>1, <3>1, Pushes DEF Counted, IndKind, IdsApart
    <3> QED
      BY <2>3, <3>1, <3>2
  <2>7. On(e)' = On(e)
    BY <1>1, <1>3 DEF On, AsPush
  <2>8. ASSUME NEW i \in DOMAIN rows', rows'[i].endpoint = e
        PROVE  Covers(rows'[i].pending, On(e)')
    <3>1. CASE i # id \/ (id \in DOMAIN rows /\ rows'[id] = rows[id])
      <4>1. i \in DOMAIN rows /\ rows'[i] = rows[i]
        BY <1>1, <3>1
      <4> QED
        BY <2>1, <2>7, <2>8, <4>1 DEF Counted
    <3>2. CASE i = id /\ ~(id \in DOMAIN rows /\ rows'[id] = rows[id])
      <4>1. ~OnTheirWay(e)
        BY <1>1, <2>8, <3>2
      <4>2. On(e) = {}
        BY <4>1, WhatIsOn DEF IndKind
      <4>3. rows'[i].pending \in Pending
        BY <1>1 DEF TypeOK, Row
      <4> QED
        BY <2>7, <4>2, <4>3, CoversNone
    <3> QED
      BY <3>1, <3>2
  <2>9. \A i \in DOMAIN rows' : rows'[i].endpoint = e => Covers(rows[i].pending, On(e))'
    BY <2>8 DEF Covers
  <2> QED
    BY <2>5, <2>6, <2>9 DEF Counted
<1>9. mistaken' \subseteq reset'
  BY <1>1 DEF IndKind, NeverAnotherKind
<1> QED
  BY <1>4, <1>7, <1>8, <1>9 DEF IndKind, NeverAnotherKind

LEMMA InitKind ==
    ASSUME Init
    PROVE  IndKind
<1>1. Pushing = {} /\ service = {} /\ mistaken = {} /\ \A t \in Tasks : ~Owed(t) /\ ~Busy(t)
  BY DEF Init, Pushing, Owed, Busy, Idle
<1>2. \A e : On(e) = {} /\ ~OnTheirWay(e)
  BY <1>1 DEF On, OnTheirWay
<1>3. \A i \in DOMAIN rows : Covers(rows[i].pending, {})
  <2>1. PICK ids \in SUBSET Ids :
           \E owner \in [ids -> Users], endpoint \in [ids -> beside.endpoints] :
              rows = [i \in ids |-> Fresh(owner[i], endpoint[i])]
    BY DEF Init
  <2>2. \A i \in DOMAIN rows : rows[i].pending = Nothing
    BY <2>1 DEF Fresh
  <2> QED
    BY <2>2, CoversNone DEF Pending
<1> QED
  BY <1>1, <1>2, <1>3 DEF IndKind, Numbers, OnTime, IdsApart, AllCounted, Counted, NeverAnotherKind

LEMMA KindInductive ==
    Shape /\ IndKind /\ [Next]_vars => IndKind'
<1> SUFFICES ASSUME Shape, IndKind, [Next]_vars
             PROVE  IndKind'
  OBVIOUS
<1>1. ASSUME NEW t \in Tasks,
             Send(t) \/ Stop(t) \/ StartSubscribe(t) \/ LockUser(t)
      PROVE  IndKind'
  BY <1>1, QuietTasks
<1>2. ASSUME NEW t \in Tasks, StartPush(t) \/ Count(t) \/ NoteOutcome(t) \/ Record(t)
      PROVE  IndKind'
  BY <1>2, StartPushKeepsKind, CountKeepsKind, NoteOutcomeKeepsKind, RecordKeepsKind
<1>3. ASSUME NEW t \in Tasks, WriteSubscription(t) \/ CommitSubscription(t)
      PROVE  IndKind'
  BY <1>3, WriteKeepsKind, CommitKeepsKind
<1>4. CASE (\E push \in service : Arrive(push)) \/ Tick \/ UnsubscribeAll
  BY <1>4, ArriveKeepsKind, TickKeepsKind, UnsubscribeKeepsKind
<1>5. CASE UNCHANGED vars
  <2>1. UNCHANGED <<rows, spent, service, task, now, sent, mistaken, reset>>
    BY <1>5 DEF vars
  <2>2. TypeOK' /\ TasksOK' /\ PushesGoOn /\ Writing' = Writing
    BY <2>1 DEF Shape, TypeOK, TasksOK, PushesGoOn, Pushing, Owed, SamePush, Writing
  <2> QED
    BY <2>1, <2>2, RowsUntouched
<1> QED
  BY <1>1, <1>2, <1>3, <1>4, <1>5 DEF Next

\* A device never shows a push with the text of another kind, as long as its count
\* was not lost with pushes on their way: the count covers every push the device
\* may still get, each of the kind counted unless several are, whatever is sent,
\* refused, unanswered or received at once (note_pending before the request,
\* pending_after_push, _failure, _unanswered and _receipt).
THEOREM TextsAreOfTheirKind ==
    ASSUME InstanceAssumption
    PROVE  Spec => []NeverAnotherKind
<1>1. Init => IndCapped /\ IndKind
  BY InitCapped, InitKind
<1>2. IndCapped /\ IndKind /\ [Next]_vars => IndCapped' /\ IndKind'
  BY CappedInductive, KindInductive DEF IndCapped
<1>3. IndKind => NeverAnotherKind
  BY DEF IndKind
<1> QED
  BY <1>1, <1>2, <1>3, PTL DEF Spec

-----------------------------------------------------------------------------
(* The sending of reminders.                                                 *)

\* A row that has had its attempts is not pending, and nobody is reached before the mail.
Early(x) == /\ x.attempts < MaxAttempts
            /\ x.stage \in {"listed", "reading", "retiring"} => ~Reached(x)
Trying == /\ \A n \in Notifications : status[n] = "pending" => attempts[n] < MaxAttempts
          /\ \A r \in Runners : \A x \in pass[r] : Early(x)

\* A reminder that is not excused is in the pass of the session that holds the lock.
Alone == \A r \in Runners : \A x \in pass[r] : x.n \in excused \/ r = lock

\* Whoever a pass reached is counted; but for an excused one, by this pass only, and a
\* reminder that has reached its recipient is settled, or still in a pass.
Accounted(n) ==
    /\ copies[n] \in {0, 1}
    /\ \A r \in Runners : \A x \in pass[r] : x.n = n => (Reached(x) <=> copies[n] = 1)
    /\ copies[n] = 1 => status[n] # "pending" \/ \E r \in Runners : \E x \in pass[r] : x.n = n
ReachedIsTold == \A r \in Runners : \A x \in pass[r] : Reached(x) => copies[x.n] > 0
Accounts == ReachedIsTold /\ \A n \in Notifications : n \in excused \/ Accounted(n)

SendInv == SendTypeOK /\ Trying /\ Alone /\ Accounts

\* As long as no lock is lost, only its holder has a pass, of rows that are not settled.
Holding == \A r \in running : r = lock
Unsettled == \A r \in Runners : \A x \in pass[r] : status[x.n] \in {"pending", "deleted"}
KeptInv == ~LockMayBeLost => Holding /\ Unsettled

LEMMA SendStart == SendInit => SendInv /\ KeptInv
<1> SUFFICES ASSUME SendInit PROVE SendInv /\ KeptInv
  OBVIOUS
<1>1. \A r \in Runners : pass[r] = {}
  BY DEF SendInit
<1>2. SendTypeOK
  BY BoundsAssumption DEF SendInit, SendTypeOK, JobInit, JobTypeOK
<1>3. Trying
  BY <1>1, BoundsAssumption DEF SendInit, Trying
<1>4. Alone /\ Unsettled /\ ReachedIsTold
  BY <1>1 DEF Alone, Unsettled, ReachedIsTold
<1>5. \A n \in Notifications : Accounted(n)
  BY <1>1 DEF SendInit, Accounted
<1>6. Holding
  BY DEF SendInit, JobInit, Holding
<1> QED
  BY <1>2, <1>3, <1>4, <1>5, <1>6 DEF SendInv, Accounts, KeptInv

\* Of a reminder that is not excused there is one item.
LEMMA OneItem ==
    ASSUME SendTypeOK, Alone, NEW r \in Runners, NEW x \in pass[r], x.n \notin excused,
           NEW q \in Runners, NEW z \in pass[q], z.n = x.n
    PROVE  q = r /\ z = x
<1>1. q = lock /\ r = lock
  BY DEF Alone
<1> QED
  BY <1>1 DEF SendTypeOK

\* An item goes on: what replaces it is of the same row, and has reached what it had.
LEMMA ItemGoesOn ==
    ASSUME SendInv, NEW r \in Runners, NEW x \in pass[r], NEW y \in Item,
           y.n = x.n, y.attempts = x.attempts, Early(y), Reached(x) => Reached(y),
           Becomes(r, x, y), Tell(x, y), UNCHANGED <<columns, due, jobVars, excused, faults>>
    PROVE  SendInv' /\ (KeptInv => KeptInv')
<1>1. /\ x \in Item /\ x.n \in Notifications /\ pass \in [Runners -> SUBSET Item]
      /\ copies \in [Notifications -> Nat]
  BY DEF SendInv, SendTypeOK, Item
<1>2. /\ pass' \in [Runners -> SUBSET Item] /\ pass'[r] = (pass[r] \ {x}) \cup {y}
      /\ \A q \in Runners \ {r} : pass'[q] = pass[q]
  BY <1>1 DEF Becomes
<1>3. r \in running
  BY DEF SendInv, SendTypeOK
<1>4. /\ copies' \in [Notifications -> Nat]
      /\ \A n \in Notifications \ {x.n} : copies'[n] = copies[n]
      /\ copies'[x.n] = copies[x.n] + (IF Reached(y) /\ ~Reached(x) THEN 1 ELSE 0)
  BY <1>1 DEF Tell
<1>5. UNCHANGED <<status, attempts, due, lock, running, excused, faults>>
  BY DEF columns, jobVars
<1>6. SendTypeOK'
  <2>1. ASSUME NEW q \in Runners
        PROVE  /\ q \notin running' => pass'[q] = {}
               /\ \A u, v \in pass'[q] : u.n = v.n => u = v
    <3>1. CASE q = r
      BY <1>2, <1>3, <1>5, <3>1 DEF SendInv, SendTypeOK
    <3>2. CASE q # r
      BY <1>2, <1>5, <3>2 DEF SendInv, SendTypeOK
    <3> QED
      BY <3>1, <3>2
  <2> QED
    BY <1>2, <1>4, <1>5, <2>1 DEF SendInv, SendTypeOK, JobTypeOK
<1>7. Trying'
  <2>1. ASSUME NEW q \in Runners, NEW z \in pass'[q] PROVE Early(z)
    BY <1>2 DEF SendInv, Trying
  <2>2. \A z : Early(z)' <=> Early(z)
    BY DEF Early, Reached
  <2> QED
    BY <1>5, <2>1, <2>2 DEF SendInv, Trying
<1>8. Alone'
  BY <1>2, <1>5 DEF SendInv, Alone
<1>9. ReachedIsTold'
  <2>1. ASSUME NEW q \in Runners, NEW z \in pass'[q], Reached(z) PROVE copies'[z.n] > 0
    <3>1. CASE z = y
      BY <1>1, <1>4, <2>1, <3>1 DEF SendInv, Accounts, ReachedIsTold
    <3>2. CASE z # y
      <4>1. z \in pass[q] /\ z \in Item /\ z.n \in Notifications
        BY <1>1, <1>2, <3>2 DEF Item
      <4>2. copies[z.n] > 0
        BY <2>1, <4>1 DEF SendInv, Accounts, ReachedIsTold
      <4> QED
        BY <1>1, <1>4, <4>1, <4>2
    <3> QED
      BY <3>1, <3>2
  <2> QED
    BY <2>1 DEF ReachedIsTold, Reached
<1>10. ASSUME NEW n \in Notifications, n \notin excused PROVE Accounted(n)'
  <2>1. Accounted(n)
    BY <1>10 DEF SendInv, Accounts
  <2>2. CASE n # x.n
    <3>1. \A q \in Runners : \A z : z.n = n => (z \in pass'[q] <=> z \in pass[q])
      BY <1>2, <2>2
    <3>2. copies'[n] = copies[n] /\ status'[n] = status[n]
      BY <1>4, <1>5, <2>2
    <3> QED
      BY <2>1, <3>1, <3>2 DEF Accounted, Reached
  <2>3. CASE n = x.n
    <3>1. ASSUME NEW q \in Runners, NEW z \in pass'[q], z.n = n PROVE z = y
      <4>1. CASE z \in pass[q]
        <5>1. q = r /\ z = x
          BY <1>10, <2>3, <3>1, <4>1, OneItem DEF SendInv
        <5> QED
          BY <1>2, <5>1
      <4>2. CASE z \notin pass[q]
        BY <1>2, <4>2
      <4> QED
        BY <4>1, <4>2
    <3>2. y \in pass'[r] /\ y.n = n
      BY <1>2, <2>3
    <3>3. copies[n] \in {0, 1} /\ (Reached(x) <=> copies[n] = 1)
      BY <2>1, <2>3 DEF Accounted
    <3>4. copies'[n] \in {0, 1} /\ (Reached(y) <=> copies'[n] = 1)
      BY <1>4, <2>3, <3>3
    <3> QED
      BY <3>1, <3>2, <3>4 DEF Accounted, Reached
  <2> QED
    BY <2>2, <2>3
<1>11. KeptInv => KeptInv'
  BY <1>1, <1>2, <1>5 DEF KeptInv, Holding, Unsettled
<1> QED
  BY <1>5, <1>6, <1>7, <1>8, <1>9, <1>10, <1>11 DEF SendInv, Accounts

\* An item leaves the pass: its row is settled, or excused, if it reached its recipient.
LEMMA ItemLeaves ==
    ASSUME SendInv, NEW r \in Runners, NEW x \in pass[r], Drop(r, x),
           status' \in [Notifications -> {"pending", "sent", "failed", "deleted"}],
           attempts' \in [Notifications -> 0..MaxAttempts],
           \A n \in Notifications \ {x.n} : status'[n] = status[n] /\ attempts'[n] = attempts[n],
           status'[x.n] = "pending" => attempts'[x.n] < MaxAttempts,
           Reached(x) => x.n \in excused' \/ status'[x.n] # "pending",
           excused \subseteq excused', excused' \subseteq Notifications, faults' \in Nat,
           UNCHANGED <<due, jobVars, copies>>
    PROVE  SendInv' /\ (KeptInv => KeptInv')
<1>1. /\ x \in Item /\ x.n \in Notifications /\ pass \in [Runners -> SUBSET Item]
      /\ copies \in [Notifications -> Nat]
  BY DEF SendInv, SendTypeOK, Item
<1>2. /\ pass' \in [Runners -> SUBSET Item] /\ pass'[r] = pass[r] \ {x}
      /\ \A q \in Runners \ {r} : pass'[q] = pass[q]
      /\ \A q \in Runners : pass'[q] \subseteq pass[q]
  BY <1>1 DEF Drop
<1>3. UNCHANGED <<due, lock, running, copies>>
  BY DEF jobVars
<1>4. SendTypeOK'
  BY <1>2, <1>3 DEF SendInv, SendTypeOK, JobTypeOK
<1>5. Trying'
  <2>1. \A z : Early(z)' <=> Early(z)
    BY DEF Early, Reached
  <2>2. \A n \in Notifications : status'[n] = "pending" => attempts'[n] < MaxAttempts
    BY DEF SendInv, Trying
  <2> QED
    BY <1>2, <2>1, <2>2 DEF SendInv, Trying
<1>6. Alone'
  BY <1>2, <1>3 DEF SendInv, Alone
<1>7. ReachedIsTold'
  BY <1>2, <1>3 DEF SendInv, Accounts, ReachedIsTold, Reached
<1>8. ASSUME NEW n \in Notifications, n \notin excused' PROVE Accounted(n)'
  <2>1. Accounted(n)
    BY <1>8 DEF SendInv, Accounts
  <2>2. copies'[n] \in {0, 1} /\ copies'[n] = copies[n]
    BY <1>3, <2>1 DEF Accounted
  <2>3. \A q \in Runners : \A z \in pass'[q] : z.n = n => (Reached(z)' <=> copies'[n] = 1)
    BY <1>2, <2>1, <2>2 DEF Accounted, Reached
  <2>4. ASSUME copies[n] = 1, status'[n] = "pending"
        PROVE  \E q \in Runners : \E z \in pass'[q] : z.n = n
    <3>1. n # x.n
      <4> SUFFICES ASSUME n = x.n PROVE FALSE
        OBVIOUS
      <4>1. Reached(x)
        BY <2>1, <2>4 DEF Accounted
      <4> QED
        BY <1>8, <2>4, <4>1
    <3>2. status[n] = "pending"
      BY <2>4, <3>1
    <3>3. PICK q \in Runners : \E z \in pass[q] : z.n = n
      BY <2>1, <2>4, <3>2 DEF Accounted
    <3> QED
      BY <1>2, <3>1, <3>3
  <2> QED
    BY <2>2, <2>3, <2>4 DEF Accounted
<1>9. ASSUME KeptInv PROVE KeptInv'
  <2> SUFFICES ASSUME ~LockMayBeLost PROVE Holding' /\ Unsettled'
    BY DEF KeptInv
  <2>1. Holding /\ Unsettled
    BY <1>9 DEF KeptInv
  <2>2. Holding'
    BY <1>3, <2>1 DEF Holding
  <2>3. ASSUME NEW q \in Runners, NEW z \in pass'[q] PROVE status'[z.n] \in {"pending", "deleted"}
    <3>1. z \in pass[q] /\ z.n \in Notifications
      BY <1>1, <1>2 DEF Item
    <3>2. q \in running /\ r \in running
      BY <3>1 DEF SendInv, SendTypeOK
    <3>3. q = r
      BY <2>1, <3>2 DEF Holding
    <3>4. z.n # x.n
      BY <1>2, <3>1, <3>3 DEF SendInv, SendTypeOK
    <3> QED
      BY <2>1, <3>1, <3>4 DEF Unsettled
  <2> QED
    BY <2>2, <2>3 DEF Unsettled
<1> QED
  BY <1>4, <1>5, <1>6, <1>7, <1>8, <1>9 DEF SendInv, Accounts

LEMMA WriteStatusWrites ==
    ASSUME SendTypeOK, NEW n \in Notifications, NEW s \in {"pending", "sent", "failed"}, WriteStatus(n, s)
    PROVE  /\ status' \in [Notifications -> {"pending", "sent", "failed", "deleted"}]
           /\ \A m \in Notifications \ {n} : status'[m] = status[m]
           /\ status'[n] = IF status[n] = "deleted" THEN "deleted" ELSE s
BY DEF SendTypeOK, WriteStatus

\* What settles an item: its row is settled if it reached its recipient, and pending only
\* with an attempt left.
LEMMA RetireWrites ==
    ASSUME SendTypeOK, Trying, NEW r \in Runners, NEW x \in pass[r], retire(x.n)
    PROVE  /\ status' \in [Notifications -> {"pending", "sent", "failed", "deleted"}]
           /\ attempts' \in [Notifications -> 0..MaxAttempts]
           /\ \A n \in Notifications \ {x.n} : status'[n] = status[n] /\ attempts'[n] = attempts[n]
           /\ status'[x.n] = IF status[x.n] = "deleted" THEN "deleted" ELSE "failed"
<1>1. x.n \in Notifications
  BY DEF SendTypeOK, Item
<1>2. WriteStatus(x.n, "failed") /\ attempts' = attempts
  BY DEF retire
<1> QED
  BY <1>1, <1>2, WriteStatusWrites DEF SendTypeOK

LEMMA SettleWrites ==
    ASSUME SendTypeOK, Trying, NEW r \in Runners, NEW x \in pass[r], settle(x)
    PROVE  /\ status' \in [Notifications -> {"pending", "sent", "failed", "deleted"}]
           /\ attempts' \in [Notifications -> 0..MaxAttempts]
           /\ \A n \in Notifications \ {x.n} : status'[n] = status[n] /\ attempts'[n] = attempts[n]
           /\ status'[x.n] = "pending" => attempts'[x.n] < MaxAttempts
           /\ Reached(x) => status'[x.n] \in {"sent", "deleted"}
           /\ status'[x.n] = "sent" => Reached(x)
           /\ status[x.n] = "deleted" <=> status'[x.n] = "deleted"
<1>1. /\ x.n \in Notifications /\ x.attempts \in Nat /\ x.attempts < MaxAttempts
      /\ MaxAttempts \in Nat
  BY BoundsAssumption DEF SendTypeOK, Item, Trying, Early
<1>2. CASE Reached(x)
  <2>1. WriteStatus(x.n, "sent") /\ attempts' = attempts
    BY <1>2 DEF settle, mark_sent
  <2>2. /\ status' \in [Notifications -> {"pending", "sent", "failed", "deleted"}]
        /\ \A m \in Notifications \ {x.n} : status'[m] = status[m]
        /\ status'[x.n] = IF status[x.n] = "deleted" THEN "deleted" ELSE "sent"
    BY <1>1, <2>1, WriteStatusWrites
  <2> QED
    BY <1>1, <1>2, <2>1, <2>2 DEF SendTypeOK
<1>3. CASE ~Reached(x) /\ Refused(x)
  <2> DEFINE s == IF x.attempts + 1 >= MaxAttempts THEN "failed" ELSE "pending"
  <2>1. WriteStatus(x.n, s) /\ attempts' = [attempts EXCEPT ![x.n] = x.attempts + 1]
    BY <1>3 DEF settle, mark_failed
  <2>2. s \in {"pending", "sent", "failed"} /\ (s = "pending" => x.attempts + 1 < MaxAttempts)
    BY <1>1
  <2>3. /\ attempts' \in [Notifications -> 0..MaxAttempts] /\ attempts'[x.n] = x.attempts + 1
        /\ \A m \in Notifications \ {x.n} : attempts'[m] = attempts[m]
    BY <1>1, <2>1 DEF SendTypeOK
  <2> HIDE DEF s
  <2>4. /\ status' \in [Notifications -> {"pending", "sent", "failed", "deleted"}]
        /\ \A m \in Notifications \ {x.n} : status'[m] = status[m]
        /\ status'[x.n] = IF status[x.n] = "deleted" THEN "deleted" ELSE s
    BY <1>1, <2>1, <2>2, WriteStatusWrites
  <2>5. s # "sent"
    BY DEF s
  <2> QED
    BY <1>3, <2>2, <2>3, <2>4, <2>5
<1>4. CASE ~Reached(x) /\ ~Refused(x)
  <2>1. retire(x.n)
    BY <1>4 DEF settle
  <2>2. WriteStatus(x.n, "failed") /\ attempts' = attempts
    BY <2>1 DEF retire
  <2>3. /\ status' \in [Notifications -> {"pending", "sent", "failed", "deleted"}]
        /\ \A m \in Notifications \ {x.n} : status'[m] = status[m]
        /\ status'[x.n] = IF status[x.n] = "deleted" THEN "deleted" ELSE "failed"
    BY <1>1, <2>2, WriteStatusWrites
  <2> QED
    BY <1>1, <1>4, <2>2, <2>3 DEF SendTypeOK
<1> QED
  BY <1>2, <1>3, <1>4

LEMMA ItemSteps ==
    ASSUME SendInv, NEW r \in Runners, NEW x \in pass[r],
           ReadRecipient(r, x) \/ Email(r, x) \/ TakeHanded(r, x) \/ PushDevices(r, x)
    PROVE  SendInv' /\ (KeptInv => KeptInv')
<1>1. /\ x \in Item /\ Early(x) /\ copies \in [Notifications -> Nat] /\ pass \in [Runners -> SUBSET Item]
  BY DEF SendInv, SendTypeOK, Trying
<1>2. CASE ReadRecipient(r, x)
  <2>1. x.stage = "listed" /\ ~Reached(x)
    BY <1>1, <1>2 DEF ReadRecipient, Stage, Early
  <2>2. UNCHANGED <<columns, due, jobVars, copies, excused, faults>>
    BY <1>2 DEF ReadRecipient, history
  <2>3. CASE Becomes(r, x, [x EXCEPT !.stage = "retiring"])
    <3> DEFINE y == [x EXCEPT !.stage = "retiring"]
    <3>1. y \in Item /\ y.n = x.n /\ y.attempts = x.attempts /\ ~Reached(y)
      BY <1>1, <2>1 DEF Item, Reached
    <3>2. Early(y) /\ Tell(x, y)
      BY <1>1, <2>2, <3>1 DEF Early, Tell
    <3>3. Becomes(r, x, y)
      BY <2>3
    <3> HIDE DEF y
    <3> QED
      BY <2>1, <2>2, <3>1, <3>2, <3>3, ItemGoesOn
  <2>4. ASSUME NEW c \in {"email", "push", "both"},
               Becomes(r, x, [x EXCEPT !.stage = "reading",
                                       !.mail = IF c = "push" THEN "none" ELSE "due",
                                       !.push = IF c = "email" THEN "none" ELSE "due"])
        PROVE  SendInv' /\ (KeptInv => KeptInv')
    <3> DEFINE y == [x EXCEPT !.stage = "reading",
                              !.mail = IF c = "push" THEN "none" ELSE "due",
                              !.push = IF c = "email" THEN "none" ELSE "due"]
    <3>1. y \in Item /\ y.n = x.n /\ y.attempts = x.attempts /\ ~Reached(y)
      BY <1>1, <2>1 DEF Item, Reached
    <3>2. Early(y) /\ Tell(x, y)
      BY <1>1, <2>2, <3>1 DEF Early, Tell
    <3>3. Becomes(r, x, y)
      BY <2>4
    <3> HIDE DEF y
    <3> QED
      BY <2>1, <2>2, <3>1, <3>2, <3>3, ItemGoesOn
  <2> QED
    BY <1>2, <2>3, <2>4 DEF ReadRecipient
<1>3. CASE Email(r, x)
  <2>1. x.stage = "reading" /\ ~Reached(x)
    BY <1>1, <1>3 DEF Email, Stage, Early
  <2>2. PICK m \in {"ok", "refused", "none"} :
            LET y == [x EXCEPT !.stage = "handed", !.mail = m] IN Becomes(r, x, y) /\ Tell(x, y)
    BY <1>3 DEF Email
  <2> DEFINE y == [x EXCEPT !.stage = "handed", !.mail = m]
  <2>3. y \in Item /\ y.n = x.n /\ y.attempts = x.attempts /\ y.stage = "handed"
    BY <1>1 DEF Item
  <2>4. Becomes(r, x, y) /\ Tell(x, y) /\ UNCHANGED <<columns, due, jobVars, excused, faults>>
    BY <1>3, <2>2 DEF Email
  <2> HIDE DEF y
  <2>5. Early(y)
    BY <1>1, <2>3 DEF Early
  <2> QED
    BY <2>1, <2>3, <2>4, <2>5, ItemGoesOn
<1>4. CASE TakeHanded(r, x)
  <2> DEFINE y == [x EXCEPT !.stage = "pushing"]
  <2>1. y \in Item /\ y.n = x.n /\ y.attempts = x.attempts /\ y.stage = "pushing" /\ (Reached(y) <=> Reached(x))
    BY <1>1 DEF Item, Reached
  <2>2. Becomes(r, x, y) /\ UNCHANGED <<columns, due, jobVars, copies, excused, faults>>
    BY <1>4 DEF TakeHanded, history
  <2> HIDE DEF y
  <2>3. Early(y) /\ Tell(x, y)
    BY <1>1, <2>1, <2>2 DEF Early, Tell
  <2> QED
    BY <2>1, <2>2, <2>3, ItemGoesOn
<1>5. CASE PushDevices(r, x)
  <2>1. x.stage = "pushing" /\ x.push = "due"
    BY <1>5 DEF PushDevices, Stage
  <2>2. PICK o \in {"delivered", "refused", "nobody"} :
            LET y == [x EXCEPT !.push = o] IN Becomes(r, x, y) /\ Tell(x, y)
    BY <1>5 DEF PushDevices
  <2> DEFINE y == [x EXCEPT !.push = o]
  <2>3. y \in Item /\ y.n = x.n /\ y.attempts = x.attempts /\ y.stage = "pushing" /\ (Reached(x) => Reached(y))
    BY <1>1, <2>1 DEF Item, Reached
  <2>4. Becomes(r, x, y) /\ Tell(x, y) /\ UNCHANGED <<columns, due, jobVars, excused, faults>>
    BY <1>5, <2>2 DEF PushDevices
  <2> HIDE DEF y
  <2>5. Early(y)
    BY <1>1, <2>3 DEF Early
  <2> QED
    BY <2>3, <2>4, <2>5, ItemGoesOn
<1> QED
  BY <1>2, <1>3, <1>4, <1>5

LEMMA LeavingSteps ==
    ASSUME SendInv, NEW r \in Runners, NEW x \in pass[r], Settle(r, x) \/ Retire(r, x) \/ Unsent(r, x)
    PROVE  SendInv' /\ (KeptInv => KeptInv')
<1>1. /\ x \in Item /\ x.n \in Notifications /\ Early(x) /\ SendTypeOK /\ Trying
      /\ faults \in Nat /\ excused \subseteq Notifications
  BY DEF SendInv, SendTypeOK, Trying, Item
<1>2. CASE Settle(r, x)
  <2>1. settle(x) /\ Drop(r, x) /\ UNCHANGED <<due, jobVars, copies, excused, faults>>
    BY <1>2 DEF Settle, history
  <2>2. /\ status' \in [Notifications -> {"pending", "sent", "failed", "deleted"}]
        /\ attempts' \in [Notifications -> 0..MaxAttempts]
        /\ \A n \in Notifications \ {x.n} : status'[n] = status[n] /\ attempts'[n] = attempts[n]
        /\ status'[x.n] = "pending" => attempts'[x.n] < MaxAttempts
        /\ Reached(x) => status'[x.n] \in {"sent", "deleted"}
    BY <1>1, <2>1, SettleWrites
  <2>3. Reached(x) => status'[x.n] # "pending"
    BY <2>2
  <2> QED
    BY <1>1, <2>1, <2>2, <2>3, ItemLeaves
<1>3. CASE Retire(r, x)
  <2>1. retire(x.n) /\ Drop(r, x) /\ UNCHANGED <<due, jobVars, copies, excused, faults>>
    BY <1>3 DEF Retire, history
  <2>2. /\ status' \in [Notifications -> {"pending", "sent", "failed", "deleted"}]
        /\ attempts' \in [Notifications -> 0..MaxAttempts]
        /\ \A n \in Notifications \ {x.n} : status'[n] = status[n] /\ attempts'[n] = attempts[n]
        /\ status'[x.n] # "pending"
    BY <1>1, <2>1, RetireWrites
  <2> QED
    BY <1>1, <2>1, <2>2, ItemLeaves
<1>4. CASE Unsent(r, x)
  <2>1. /\ Drop(r, x) /\ UNCHANGED <<status, attempts, due, jobVars, copies>>
        /\ faults' = faults + 1 /\ excused' = IF Reached(x) THEN excused \cup {x.n} ELSE excused
    BY <1>4 DEF Unsent, Fault, columns
  <2>2. /\ excused \subseteq excused' /\ excused' \subseteq Notifications /\ faults' \in Nat
        /\ Reached(x) => x.n \in excused'
    BY <1>1, <2>1
  <2>3. /\ status' \in [Notifications -> {"pending", "sent", "failed", "deleted"}]
        /\ attempts' \in [Notifications -> 0..MaxAttempts]
        /\ status'[x.n] = "pending" => attempts'[x.n] < MaxAttempts
    BY <1>1, <2>1 DEF SendTypeOK, Trying
  <2> QED
    BY <2>1, <2>2, <2>3, ItemLeaves
<1> QED
  BY <1>2, <1>3, <1>4

LEMMA PassStarts ==
    ASSUME SendInv, NEW r \in Runners, StartPass(r)
    PROVE  SendInv' /\ (KeptInv => KeptInv')
<1>1. /\ r \notin running /\ lock = NoRunner /\ lock' = r /\ running' = running \cup {r}
      /\ UNCHANGED <<status, attempts, due, copies, excused, faults>>
  BY DEF StartPass, Acquire, columns, history
<1>2. pass[r] = {} /\ pass \in [Runners -> SUBSET Item] /\ due \subseteq Notifications
  BY <1>1 DEF SendInv, SendTypeOK
<1>3. /\ pass'[r] = {Listed(n) : n \in DueRows} /\ \A q \in Runners \ {r} : pass'[q] = pass[q]
  BY <1>2 DEF StartPass
<1>4. ASSUME NEW n \in DueRows
      PROVE  /\ n \in Notifications /\ status[n] = "pending" /\ Listed(n) \in Item /\ Listed(n).n = n
             /\ Early(Listed(n)) /\ ~Reached(Listed(n))
  <2>1. n \in Notifications /\ status[n] = "pending"
    BY <1>2 DEF DueRows
  <2>2. attempts[n] \in Nat /\ attempts[n] < MaxAttempts
    BY <2>1, BoundsAssumption DEF SendInv, SendTypeOK, Trying
  <2>3. Listed(n) \in Item /\ Listed(n).n = n /\ ~Reached(Listed(n)) /\ Listed(n).attempts = attempts[n]
    BY <2>1, <2>2 DEF Listed, Item, Reached
  <2> QED
    BY <2>1, <2>2, <2>3 DEF Early
<1>5. \A x \in pass'[r] : \E n \in DueRows : x = Listed(n)
  BY <1>3
<1>6. pass' \in [Runners -> SUBSET Item]
  <2>1. pass' = [pass EXCEPT ![r] = {Listed(n) : n \in DueRows}]
    BY DEF StartPass
  <2>2. {Listed(n) : n \in DueRows} \subseteq Item
    BY <1>4
  <2> QED
    BY <1>2, <2>1, <2>2
<1>7. SendTypeOK'
  <2>1. ASSUME NEW q \in Runners
        PROVE  /\ q \notin running' => pass'[q] = {}
               /\ \A u, v \in pass'[q] : u.n = v.n => u = v
    <3>1. CASE q = r
      BY <1>1, <1>4, <1>5, <3>1
    <3>2. CASE q # r
      BY <1>1, <1>3, <3>2 DEF SendInv, SendTypeOK
    <3> QED
      BY <3>1, <3>2
  <2> QED
    BY <1>1, <1>6, <2>1 DEF SendInv, SendTypeOK, JobTypeOK
<1>8. Trying'
  <2>1. \A z : Early(z)' <=> Early(z)
    BY DEF Early, Reached
  <2>2. ASSUME NEW q \in Runners, NEW x \in pass'[q] PROVE Early(x)
    <3>1. CASE q = r
      BY <1>4, <1>5, <3>1
    <3>2. CASE q # r
      BY <1>3, <3>2 DEF SendInv, Trying
    <3> QED
      BY <3>1, <3>2
  <2> QED
    BY <1>1, <2>1, <2>2 DEF SendInv, Trying
<1>9. ASSUME NEW q \in Runners, NEW x \in pass[q] PROVE x.n \in excused
  BY <1>1, RunnersAssumption DEF SendInv, Alone
<1>10. Alone'
  BY <1>1, <1>3, <1>9 DEF Alone
<1>11. ReachedIsTold'
  <2>1. ASSUME NEW q \in Runners, NEW x \in pass'[q], Reached(x) PROVE copies'[x.n] > 0
    <3>1. q # r
      BY <1>4, <1>5, <2>1
    <3> QED
      BY <1>1, <1>3, <2>1, <3>1 DEF SendInv, Accounts, ReachedIsTold
  <2> QED
    BY <2>1 DEF ReachedIsTold, Reached
<1>12. ASSUME NEW n \in Notifications, n \notin excused PROVE Accounted(n)'
  <2>1. copies[n] \in {0, 1} /\ (copies[n] = 1 => status[n] # "pending")
    BY <1>9, <1>12 DEF SendInv, Accounts, Accounted
  <2>2. ASSUME NEW q \in Runners, NEW x \in pass'[q], x.n = n PROVE ~Reached(x) /\ copies[n] = 0
    <3>1. q = r
      BY <1>3, <1>9, <1>12, <2>2
    <3>2. PICK m \in DueRows : x = Listed(m)
      BY <1>5, <3>1
    <3>3. m = n /\ status[n] = "pending" /\ ~Reached(x)
      BY <1>4, <2>2, <3>2
    <3> QED
      BY <2>1, <3>3
  <2> QED
    BY <1>1, <2>1, <2>2 DEF Accounted, Reached
<1>13. ASSUME KeptInv, ~LockMayBeLost PROVE Holding' /\ Unsettled'
  <2>1. Holding /\ Unsettled
    BY <1>13 DEF KeptInv
  <2>2. running = {}
    BY <1>1, <2>1, RunnersAssumption DEF Holding, SendInv, SendTypeOK, JobTypeOK
  <2>3. ASSUME NEW q \in Runners, NEW x \in pass'[q] PROVE status'[x.n] \in {"pending", "deleted"}
    <3>1. CASE q = r
      BY <1>1, <1>4, <1>5, <3>1
    <3>2. CASE q # r
      BY <1>1, <1>3, <2>1, <3>2 DEF Unsettled
    <3> QED
      BY <3>1, <3>2
  <2> QED
    BY <1>1, <2>2, <2>3 DEF Holding, Unsettled
<1> QED
  BY <1>1, <1>7, <1>8, <1>10, <1>11, <1>12, <1>13 DEF SendInv, Accounts, KeptInv

LEMMA PassEnds ==
    ASSUME SendInv, NEW r \in Runners, EndPass(r)
    PROVE  SendInv' /\ (KeptInv => KeptInv')
<1>1. /\ pass[r] = {} /\ running' = running \ {r} /\ lock' = IF lock = r THEN NoRunner ELSE lock
      /\ UNCHANGED <<status, attempts, due, pass, copies, excused, faults>>
  BY DEF EndPass, Release, columns, history
<1>2. SendTypeOK'
  BY <1>1 DEF SendInv, SendTypeOK, JobTypeOK
<1>3. Trying' /\ Accounts'
  BY <1>1 DEF SendInv, Trying, Early, Accounts, ReachedIsTold, Accounted, Reached
<1>4. Alone'
  BY <1>1 DEF SendInv, Alone
<1>5. KeptInv => KeptInv'
  BY <1>1 DEF KeptInv, Holding, Unsettled
<1> QED
  BY <1>2, <1>3, <1>4, <1>5 DEF SendInv

LEMMA RunnerDies ==
    ASSUME SendInv, NEW r \in Runners, KillRunner(r)
    PROVE  SendInv' /\ (KeptInv => KeptInv')
<1>1. /\ running' = running \ {r} /\ faults' = faults + 1
      /\ IF lock = r THEN lock' \in {NoRunner, DeadRunner} ELSE lock' = lock
      /\ excused' = excused \cup {x.n : x \in {y \in pass[r] : Reached(y)}}
      /\ UNCHANGED <<status, attempts, due, copies>>
  BY DEF KillRunner, Killed, Fault, columns
<1>2. pass \in [Runners -> SUBSET Item] /\ excused \subseteq Notifications /\ faults \in Nat
  BY DEF SendInv, SendTypeOK
<1>3. /\ pass' \in [Runners -> SUBSET Item] /\ pass'[r] = {}
      /\ \A q \in Runners \ {r} : pass'[q] = pass[q]
      /\ \A q \in Runners : pass'[q] \subseteq pass[q]
  BY <1>2 DEF KillRunner
<1>4. excused \subseteq excused' /\ excused' \subseteq Notifications
  <2>1. \A x \in pass[r] : x.n \in Notifications
    BY <1>2 DEF Item
  <2> QED
    BY <1>1, <1>2, <2>1
<1>5. SendTypeOK'
  BY <1>1, <1>2, <1>3, <1>4 DEF SendInv, SendTypeOK, JobTypeOK
<1>6. Trying'
  BY <1>1, <1>3 DEF SendInv, Trying, Early, Reached
<1>7. Alone'
  BY <1>1, <1>3, <1>4 DEF SendInv, Alone
<1>8. ReachedIsTold'
  BY <1>1, <1>3 DEF SendInv, Accounts, ReachedIsTold, Reached
<1>9. ASSUME NEW n \in Notifications, n \notin excused' PROVE Accounted(n)'
  <2>1. Accounted(n)
    BY <1>4, <1>9 DEF SendInv, Accounts
  <2>2. ASSUME copies[n] = 1, status[n] = "pending"
        PROVE  \E q \in Runners : \E x \in pass'[q] : x.n = n
    <3> PICK q \in Runners : \E x \in pass[q] : x.n = n
      BY <2>1, <2>2 DEF Accounted
    <3>1. PICK x \in pass[q] : x.n = n
      OBVIOUS
    <3>2. Reached(x)
      BY <2>1, <2>2, <3>1 DEF Accounted
    <3>3. q # r
      BY <1>1, <1>9, <3>1, <3>2
    <3> QED
      BY <1>3, <3>1, <3>3
  <2> QED
    BY <1>1, <1>3, <2>1, <2>2 DEF Accounted, Reached
<1>10. KeptInv => KeptInv'
  BY <1>1, <1>3 DEF KeptInv, Holding, Unsettled
<1> QED
  BY <1>5, <1>6, <1>7, <1>8, <1>9, <1>10 DEF SendInv, Accounts

LEMMA LockIsLost ==
    ASSUME SendInv, NEW r \in Runners, LoseLock(r)
    PROVE  SendInv' /\ (KeptInv => KeptInv')
<1>1. /\ LockMayBeLost /\ lock = r /\ lock' = NoRunner /\ faults' = faults + 1
      /\ excused' = excused \cup {x.n : x \in pass[r]}
      /\ UNCHANGED <<status, attempts, due, pass, running, copies>>
  BY DEF LoseLock, ConnectionCut, Fault, columns
<1>2. excused \subseteq excused' /\ excused' \subseteq Notifications
  <2>1. \A x \in pass[r] : x.n \in Notifications
    BY DEF SendInv, SendTypeOK, Item
  <2> QED
    BY <1>1, <2>1 DEF SendInv, SendTypeOK
<1>3. SendTypeOK'
  BY <1>1, <1>2 DEF SendInv, SendTypeOK, JobTypeOK
<1>4. Trying' /\ ReachedIsTold'
  BY <1>1 DEF SendInv, Trying, Early, Accounts, ReachedIsTold, Reached
<1>5. Alone'
  BY <1>1 DEF SendInv, Alone
<1>6. ASSUME NEW n \in Notifications, n \notin excused' PROVE Accounted(n)'
  BY <1>1, <1>2, <1>6 DEF SendInv, Accounts, Accounted, Reached
<1> QED
  BY <1>1, <1>3, <1>4, <1>5, <1>6 DEF SendInv, Accounts, KeptInv

LEMMA StepsAround ==
    ASSUME SendInv, Around \/ DropDeadSession \/ UNCHANGED sendVars
    PROVE  SendInv' /\ (KeptInv => KeptInv')
<1>1. ASSUME NEW n \in Notifications, FallDue(n) PROVE SendInv' /\ (KeptInv => KeptInv')
  <2>1. /\ due' = due \cup {n}
        /\ UNCHANGED <<status, attempts, pass, lock, running, copies, excused, faults>>
    BY <1>1 DEF FallDue, columns, jobVars, history
  <2>2. SendTypeOK'
    BY <2>1 DEF SendInv, SendTypeOK, JobTypeOK
  <2>3. Trying' /\ Accounts' /\ Alone'
    BY <2>1 DEF SendInv, Trying, Early, Accounts, ReachedIsTold, Accounted, Reached, Alone
  <2> QED
    BY <2>1, <2>2, <2>3 DEF SendInv, KeptInv, Holding, Unsettled
<1>2. ASSUME NEW n \in Notifications, DeleteRow(n) PROVE SendInv' /\ (KeptInv => KeptInv')
  <2>1. /\ status' = [status EXCEPT ![n] = "deleted"]
        /\ UNCHANGED <<attempts, due, pass, lock, running, copies, excused, faults>>
    BY <1>2 DEF DeleteRow, jobVars, history
  <2>2. SendTypeOK'
    BY <2>1 DEF SendInv, SendTypeOK, JobTypeOK
  <2>3. \A m \in Notifications : status'[m] = status[m] \/ status'[m] = "deleted"
    BY <2>1 DEF SendInv, SendTypeOK
  <2>4. Trying' /\ Alone' /\ ReachedIsTold'
    BY <2>1, <2>3 DEF SendInv, Trying, Early, Accounts, ReachedIsTold, Reached, Alone
  <2>5. ASSUME NEW m \in Notifications, m \notin excused' PROVE Accounted(m)'
    BY <2>1, <2>3, <2>5 DEF SendInv, Accounts, Accounted, Reached
  <2>6. KeptInv => KeptInv'
    <3>1. \A r \in Runners : \A x \in pass[r] : x.n \in Notifications
      BY DEF SendInv, SendTypeOK, Item
    <3> QED
      BY <2>1, <2>3, <3>1 DEF KeptInv, Holding, Unsettled
  <2> QED
    BY <2>2, <2>4, <2>5, <2>6 DEF SendInv, Accounts
<1>3. CASE DropDeadSession
  <2>1. /\ lock = DeadRunner /\ lock' = NoRunner
        /\ UNCHANGED <<status, attempts, due, pass, running, copies, excused, faults>>
    BY <1>3 DEF DropDeadSession, DeadSessionDropped, columns, history
  <2>2. SendTypeOK'
    BY <2>1 DEF SendInv, SendTypeOK, JobTypeOK
  <2>3. Trying' /\ Accounts'
    BY <2>1 DEF SendInv, Trying, Early, Accounts, ReachedIsTold, Accounted, Reached
  <2>4. Alone'
    BY <2>1, RunnersAssumption DEF SendInv, Alone
  <2>5. KeptInv => KeptInv'
    BY <2>1, RunnersAssumption DEF KeptInv, Holding, Unsettled, SendInv, SendTypeOK, JobTypeOK
  <2> QED
    BY <2>2, <2>3, <2>4, <2>5 DEF SendInv
<1>4. CASE UNCHANGED sendVars
  <2>1. UNCHANGED <<status, attempts, due, pass, lock, running, copies, excused, faults>>
    BY <1>4 DEF sendVars
  <2>2. SendTypeOK'
    BY <2>1 DEF SendInv, SendTypeOK, JobTypeOK
  <2>3. Trying' /\ Accounts' /\ Alone'
    BY <2>1 DEF SendInv, Trying, Early, Accounts, ReachedIsTold, Accounted, Reached, Alone
  <2> QED
    BY <2>1, <2>2, <2>3 DEF SendInv, KeptInv, Holding, Unsettled
<1> QED
  BY <1>1, <1>2, <1>3, <1>4 DEF Around

LEMMA SendStep ==
    ASSUME SendInv, [SendNext]_sendVars
    PROVE  SendInv' /\ (KeptInv => KeptInv')
<1>1. CASE Around \/ DropDeadSession \/ UNCHANGED sendVars
  BY <1>1, StepsAround
<1>2. ASSUME NEW r \in Runners, PassStep(r) PROVE SendInv' /\ (KeptInv => KeptInv')
  BY <1>2, PassStarts, PassEnds, ItemSteps, LeavingSteps DEF PassStep
<1>3. ASSUME NEW r \in Runners, KillRunner(r) \/ LoseLock(r) PROVE SendInv' /\ (KeptInv => KeptInv')
  BY <1>3, RunnerDies, LockIsLost
<1>4. ASSUME NEW r \in Runners, NEW x \in pass[r], Unsent(r, x) PROVE SendInv' /\ (KeptInv => KeptInv')
  BY <1>4, LeavingSteps
<1> QED
  BY <1>1, <1>2, <1>3, <1>4 DEF SendNext

\* The types of the sending: an item is of one row, and its attempts are those left.
THEOREM SendTypeCorrect == SendSpec => []SendTypeOK
<1>1. SendInv => SendTypeOK
  BY DEF SendInv
<1> QED
  BY <1>1, SendStart, SendStep, PTL DEF SendSpec

\* A reminder reaches its recipient in one pass only, whatever channels refuse, rows are
\* deleted and processes compete for the lock, unless the pass that reached it, or had
\* read it, was cut short (send_pass).
THEOREM RemindersGoOnce == SendSpec => []SentOnce
<1>1. ASSUME SendInv PROVE SentOnce
  <2> SUFFICES ASSUME NEW n \in Notifications, copies[n] > 1, n \notin excused PROVE FALSE
    BY DEF SentOnce
  <2>1. copies[n] \in {0, 1}
    BY <1>1 DEF SendInv, Accounts, Accounted
  <2> QED
    BY <2>1
<1> QED
  BY <1>1, SendStart, SendStep, PTL DEF SendSpec

-----------------------------------------------------------------------------
(* The sending keeps the promise of ReminderPromise, as long as no lock is lost. *)

LEMMA PromiseStart == SendInit => Promise!Init
BY DEF SendInit, Promise!Init, Told

\* A row is settled by the pass that has it, once it is told, or given up.
LEMMA PromiseSettles ==
    ASSUME SendInv, Unsettled, NEW r \in Runners, NEW x \in pass[r], Settle(r, x) \/ Retire(r, x)
    PROVE  [Promise!Next]_(Promise!vars)
<1>1. /\ x.n \in Notifications /\ SendTypeOK /\ Trying /\ status[x.n] \in {"pending", "deleted"}
      /\ Reached(x) => copies[x.n] > 0
  BY DEF SendInv, SendTypeOK, Item, Unsettled, Accounts, ReachedIsTold
<1>2. copies' = copies
  BY DEF Settle, Retire, history
<1>3. Told' = Told
  BY <1>2 DEF Told
<1>4. /\ status' \in [Notifications -> {"pending", "sent", "failed", "deleted"}]
      /\ \A n \in Notifications \ {x.n} : status'[n] = status[n]
      /\ status[x.n] = "deleted" <=> status'[x.n] = "deleted"
      /\ status'[x.n] = "sent" => Reached(x)
  <2>1. CASE Settle(r, x)
    BY <1>1, <2>1, SettleWrites DEF Settle
  <2>2. CASE Retire(r, x)
    <3>1. retire(x.n)
      BY <2>2 DEF Retire
    <3> QED
      BY <1>1, <3>1, RetireWrites
  <2> QED
    BY <2>1, <2>2
<1>5. status \in [Notifications -> {"pending", "sent", "failed", "deleted"}]
  BY <1>1 DEF SendTypeOK
<1>6. status' = [status EXCEPT ![x.n] = status'[x.n]]
  BY <1>1, <1>4, <1>5
<1>7. CASE status'[x.n] = status[x.n]
  <2>1. status' = status
    BY <1>5, <1>6, <1>7
  <2> QED
    BY <1>3, <2>1 DEF Promise!vars
<1>8. CASE status[x.n] = "pending" /\ status'[x.n] = "sent"
  <2>1. x.n \in Told
    BY <1>1, <1>4, <1>8 DEF Told
  <2>2. Promise!MarkSent(x.n)
    BY <1>3, <1>6, <1>8, <2>1 DEF Promise!MarkSent, Promise!Settle
  <2> QED
    BY <1>1, <2>2 DEF Promise!Next
<1>9. CASE status[x.n] = "pending" /\ status'[x.n] = "failed"
  <2>1. Promise!GiveUp(x.n)
    BY <1>3, <1>6, <1>9 DEF Promise!GiveUp, Promise!Settle
  <2> QED
    BY <1>1, <2>1 DEF Promise!Next
<1>10. status'[x.n] \in {"pending", "sent", "failed", "deleted"}
  BY <1>1, <1>4
<1> QED
  BY <1>1, <1>4, <1>7, <1>8, <1>9, <1>10

\* A recipient is reached as long as its row is not settled.
LEMMA PromiseReaches ==
    ASSUME SendInv, Unsettled, NEW r \in Runners, NEW x \in pass[r], Email(r, x) \/ PushDevices(r, x)
    PROVE  [Promise!Next]_(Promise!vars)
<1>1. /\ x.n \in Notifications /\ status[x.n] \in {"pending", "deleted"}
      /\ copies \in [Notifications -> Nat]
  BY DEF SendInv, SendTypeOK, Item, Unsettled
<1>2. status' = status
  BY DEF Email, PushDevices, columns
<1>3. copies' = copies \/ copies' = [copies EXCEPT ![x.n] = @ + 1]
  <2>1. CASE Email(r, x)
    BY <2>1 DEF Email, Tell
  <2>2. CASE PushDevices(r, x)
    BY <2>2 DEF PushDevices, Tell
  <2> QED
    BY <2>1, <2>2
<1>4. CASE copies' = copies
  BY <1>2, <1>4 DEF Told, Promise!vars
<1>5. CASE copies' = [copies EXCEPT ![x.n] = @ + 1]
  <2>1. /\ copies'[x.n] = copies[x.n] + 1 /\ copies[x.n] \in Nat
        /\ \A n \in Notifications \ {x.n} : copies'[n] = copies[n]
    BY <1>1, <1>5
  <2>2. Told' = Told \cup {x.n}
    BY <1>1, <2>1 DEF Told
  <2>3. Promise!Reach(x.n)
    BY <1>1, <1>2, <2>2 DEF Promise!Reach
  <2> QED
    BY <1>1, <2>3 DEF Promise!Next
<1> QED
  BY <1>3, <1>4, <1>5

LEMMA PromiseStep ==
    ASSUME SendInv, KeptInv, ~LockMayBeLost, [SendNext]_sendVars
    PROVE  [Promise!Next]_(Promise!vars)
<1>1. Unsettled
  BY DEF KeptInv
<1>2. ASSUME status' = status, copies' = copies PROVE [Promise!Next]_(Promise!vars)
  BY <1>2 DEF Told, Promise!vars
<1>3. ASSUME NEW r \in Runners, PassStep(r) PROVE [Promise!Next]_(Promise!vars)
  <2>1. CASE StartPass(r) \/ EndPass(r)
    BY <1>2, <2>1 DEF StartPass, EndPass, columns, history
  <2>2. ASSUME NEW x \in pass[r], ReadRecipient(r, x) \/ TakeHanded(r, x)
        PROVE  [Promise!Next]_(Promise!vars)
    BY <1>2, <2>2 DEF ReadRecipient, TakeHanded, columns, history
  <2> QED
    BY <1>1, <1>3, <2>1, <2>2, PromiseSettles, PromiseReaches DEF PassStep
<1>4. ASSUME NEW r \in Runners, KillRunner(r) \/ LoseLock(r) \/ \E x \in pass[r] : Unsent(r, x)
      PROVE  [Promise!Next]_(Promise!vars)
  BY <1>2, <1>4 DEF KillRunner, LoseLock, Unsent, columns
<1>5. ASSUME NEW n \in Notifications, FallDue(n) \/ DeleteRow(n)
      PROVE  [Promise!Next]_(Promise!vars)
  <2>1. CASE FallDue(n)
    BY <1>2, <2>1 DEF FallDue, columns, history
  <2>2. CASE DeleteRow(n)
    <3>1. Promise!Delete(n)
      BY <2>2 DEF DeleteRow, history, Told, Promise!Delete
    <3> QED
      BY <3>1 DEF Promise!Next
  <2> QED
    BY <1>5, <2>1, <2>2
<1>6. CASE DropDeadSession
  BY <1>2, <1>6 DEF DropDeadSession, columns, history
<1>7. CASE UNCHANGED sendVars
  BY <1>2, <1>7 DEF sendVars
<1> QED
  BY <1>3, <1>4, <1>5, <1>6, <1>7 DEF SendNext, Around

\* Where the lock of a pass is never lost, the sending implements ReminderPromise: a row is
\* called sent only once its recipient was reached, and once it is settled nobody is
\* reached again (send_pass, push_and_settle).
THEOREM PromiseIsKept == ASSUME ~LockMayBeLost PROVE SendSpec => KeepsPromise
<1>1. SendInit => Promise!Init
  BY PromiseStart
<1>2. SendInv /\ KeptInv /\ [SendNext]_sendVars => [Promise!Next]_(Promise!vars)
  BY PromiseStep
<1>3. SendInv /\ [SendNext]_sendVars => SendInv' /\ (KeptInv => KeptInv')
  BY SendStep
<1> QED
  BY <1>1, <1>2, <1>3, SendStart, PTL DEF SendSpec, KeepsPromise, Promise!Spec
=============================================================================
