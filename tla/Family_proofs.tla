---------------------------- MODULE Family_proofs ----------------------------
(* Who gets in, and how often, and what is kept: the window ceiling of        *)
(* RateLimit, less what the clocks that purge are ahead; what a reset link     *)
(* gives and a new password ends in SignIn; and that the bytes a row names are *)
(* kept in StoredObjects. For every set of subjects, requests, links, sessions *)
(* and keys.                                                                   *)
EXTENDS RateLimit, SignIn, StoredObjects, Budget, FiniteSetTheorems, TLAPS

-----------------------------------------------------------------------------
(* RateLimit: a window holds no more admissions than its limit.               *)

States == {"idle", "read", "write", "sweep", "commit"}
RateRequest == [at : States, subject : Subjects \cup {None}, now : Int, entry : Admission \cup {None},
            log : SUBSET Admission, writes : BOOLEAN, swept : SUBSET Subjects]

LimitTypeOK ==
    /\ clock \in Int /\ last \in [Subjects -> Nat] /\ lead \in [Subjects -> Nat]
    /\ log \in [Subjects -> SUBSET Admission] /\ given \in [Subjects -> SUBSET Admission]
    /\ request \in [Requests -> RateRequest]
    /\ \A r \in Requests : Busy(r) => request[r].subject \in Subjects

\* The advisory lock: one transaction of a subject at a time.
OneEach ==
    \A r1, r2 \in Requests :
        r1 # r2 /\ Busy(r1) /\ Busy(r2) => request[r1].subject # request[r2].subject

\* The row locks: a row written or swept is one transaction's.
RowsHeldOnce == \A r1, r2 \in Requests : r1 # r2 => Holds(r1) \cap Holds(r2) = {}

\* Admissions are numbered as they are given.
GivenInOrder ==
    \A s \in Subjects : IsFiniteSet(given[s]) /\ \A b \in given[s] : b.n <= last[s]

\* The row of a subject holds every admission still in the window, less what a purge
\* by a clock ahead may have taken.
LogRemembers ==
    \A s \in Subjects :
        /\ IsFiniteSet(log[s]) /\ log[s] \subseteq given[s]
        /\ \A b \in given[s] : clock - b.at < Window - lead[s] => b \in log[s]

Decided(r) == request[r].at \in {"write", "sweep", "commit"}
Granted(q) == IF q.entry = None THEN {} ELSE {q.entry}

\* What a transaction is about to write holds every admission that was in the
\* window when it read the clock, with the one it gives; they are not too many.
GoodDecision(q) ==
    /\ q.now <= clock /\ IsFiniteSet(q.log) /\ q.log \subseteq given[q.subject] \cup Granted(q)
    /\ \A b \in given[q.subject] : q.now - b.at < Window - lead[q.subject] => b \in q.log
    /\ q.entry # None => /\ q.writes /\ q.entry \in q.log /\ Cardinality(q.log) <= Limit
                         /\ q.entry.n = last[q.subject] + 1 /\ q.entry.at = q.now
DecisionsAreGood == \A r \in Requests : Decided(r) => GoodDecision(request[r])

\* A row swept has nothing left in the window, until the sweep commits.
SweptAreOver ==
    \A r \in Requests : \A s \in request[r].swept : \A b \in given[s] : clock - b.at >= Window - lead[s]

LimitInv == /\ LimitTypeOK /\ OneEach /\ RowsHeldOnce /\ GivenInOrder /\ LogRemembers
          /\ DecisionsAreGood /\ SweptAreOver /\ WindowCeiling
-----------------------------------------------------------------------------
\* A step that leaves the clock, the rows and the admissions alone, and changes
\* one request: what must be shown of that request.
LEMMA RequestStep ==
    ASSUME RateAssumption, LimitInv, NEW r \in Requests, NEW q \in RateRequest,
           request' = [request EXCEPT ![r] = q], UNCHANGED <<clock, last, log, given, lead>>,
           q.at # "idle" => /\ q.subject \in Subjects
                            /\ \A r2 \in Requests \ {r} : Busy(r2) => request[r2].subject # q.subject,
           \A r2 \in Requests \ {r} : Holds(r)' \cap Holds(r2) = {},
           q.at \in {"write", "sweep", "commit"} => GoodDecision(q),
           \A s \in q.swept : \A b \in given[s] : clock - b.at >= Window - lead[s]
    PROVE  LimitInv'
<1> USE DEF LimitInv
<1>1. /\ request'[r] = q
      /\ \A r2 \in Requests \ {r} : request'[r2] = request[r2]
  BY DEF LimitTypeOK
<1>2. \A r2 \in Requests \ {r} : (Busy(r2))' = Busy(r2) /\ Holds(r2)' = Holds(r2) /\ (Decided(r2))' = Decided(r2)
  BY <1>1 DEF Busy, Holds, Wrote, Decided
<1>3. LimitTypeOK'
  BY <1>1, <1>2 DEF LimitTypeOK, Busy
<1>4. OneEach'
  BY <1>1, <1>2 DEF OneEach, Busy
<1>5. RowsHeldOnce'
  BY <1>1, <1>2 DEF RowsHeldOnce
<1>6. GivenInOrder' /\ LogRemembers' /\ WindowCeiling'
  BY DEF GivenInOrder, LogRemembers, WindowCeiling
<1>7. DecisionsAreGood'
  <2> SUFFICES ASSUME NEW r2 \in Requests, (Decided(r2))' PROVE GoodDecision(request[r2])'
    BY DEF DecisionsAreGood
  <2>1. CASE r2 = r
    BY <2>1, <1>1 DEF Decided, GoodDecision, Granted
  <2>2. CASE r2 # r
    <3>1. GoodDecision(request[r2])
      BY <2>2, <1>2 DEF DecisionsAreGood
    <3> QED
      BY <2>2, <3>1, <1>1 DEF GoodDecision, Granted
  <2> QED
    BY <2>1, <2>2
<1>8. SweptAreOver'
  BY <1>1 DEF SweptAreOver
<1> QED
  BY <1>3, <1>4, <1>5, <1>6, <1>7, <1>8

-----------------------------------------------------------------------------
(* The steps of a request before its COMMIT.                                  *)

LEMMA LockStep ==
    ASSUME RateAssumption, LimitInv, NEW r \in Requests, NEW s \in Subjects, Lock(r, s)
    PROVE  LimitInv'
<1> DEFINE q == [Idle EXCEPT !.at = "read", !.subject = s]
<1>1. q \in RateRequest /\ q.at = "read" /\ q.subject = s /\ q.swept = {} /\ ~q.writes
  <2>1. Idle \in RateRequest /\ Idle.swept = {} /\ ~Idle.writes
    BY DEF RateRequest, Idle, States
  <2> QED
    BY <2>1 DEF RateRequest, States
<1>2. request' = [request EXCEPT ![r] = q] /\ UNCHANGED <<clock, last, log, given, lead>>
  BY DEF Lock
<1> HIDE DEF q
<1>3. \A r2 \in Requests \ {r} : Busy(r2) => request[r2].subject # q.subject
  BY <1>1 DEF Lock, Locked
<1>4. Holds(r)' = {}
  BY <1>1, <1>2 DEF Holds, Wrote, LimitInv, LimitTypeOK
<1> QED
  BY <1>1, <1>2, <1>3, <1>4, RequestStep

LEMMA RateFailStep ==
    ASSUME RateAssumption, LimitInv, NEW r \in Requests, Fail(r)
    PROVE  LimitInv'
<1>1. Idle \in RateRequest /\ Idle.at = "idle" /\ Idle.swept = {}
  BY DEF RateRequest, Idle, States, RateAssumption
<1>2. request' = [request EXCEPT ![r] = Idle] /\ UNCHANGED <<clock, last, log, given, lead>>
  BY DEF Fail
<1>3. Holds(r)' = {}
  BY <1>1, <1>2 DEF Holds, Wrote, LimitInv, LimitTypeOK
<1> QED
  BY <1>1, <1>2, <1>3, RequestStep

\* What the limit decides on: the row of the subject, which no other transaction
\* of the subject can change, holds all that is in the window.
LEMMA DecideStep ==
    ASSUME RateAssumption, LimitInv, NEW r \in Requests, Decide(r)
    PROVE  LimitInv'
<1> DEFINE s == request[r].subject
           kept == Within(log[s], clock)
           entry == [n |-> last[s] + 1, at |-> clock]
           new == IF Fits(kept) THEN kept \cup {entry} ELSE kept
           q == [at |-> "write", subject |-> s, now |-> clock, swept |-> {},
                 entry |-> IF Fits(kept) THEN entry ELSE None,
                 log |-> new, writes |-> new # log[s]]
<1>1. s \in Subjects /\ Busy(r)
  BY DEF Decide, Busy, LimitInv, LimitTypeOK
<1>2. /\ entry \in Admission /\ entry # None /\ clock \in Int /\ last[s] \in Nat
      /\ log[s] \subseteq Admission /\ given[s] \subseteq Admission
  BY <1>1 DEF LimitInv, LimitTypeOK, Admission, RateAssumption
<1>3. kept \subseteq log[s] /\ new \subseteq Admission
  BY <1>2 DEF Within
<1>4. request' = [request EXCEPT ![r] = q] /\ UNCHANGED <<clock, last, log, given, lead>>
  BY DEF Decide
<1>5. q \in RateRequest
  BY <1>1, <1>2, <1>3 DEF RateRequest, States
<1>6. IsFiniteSet(log[s]) /\ log[s] \subseteq given[s]
  BY <1>1 DEF LimitInv, LogRemembers
<1>7. IsFiniteSet(kept) /\ IsFiniteSet(new) /\ Cardinality(kept) \in Nat
  BY <1>3, <1>6, FS_Subset, FS_AddElement, FS_CardinalityType
<1>8. entry \notin log[s]
  BY <1>1, <1>2, <1>6 DEF LimitInv, GivenInOrder
<1>9. Fits(kept) => Cardinality(new) <= Limit
  BY <1>3, <1>7, <1>8, FS_AddElement DEF Fits, RateAssumption
<1>10. \A b \in given[s] : clock - b.at < Window - lead[s] => b \in new
  <2> SUFFICES ASSUME NEW b \in given[s], clock - b.at < Window - lead[s] PROVE b \in kept
    OBVIOUS
  <2>1. b \in log[s] /\ b.at \in Int /\ lead[s] \in Nat /\ Window \in Nat
    BY <1>1, <1>2 DEF LimitInv, LogRemembers, LimitTypeOK, Admission, RateAssumption
  <2>2. clock - b.at < Window
    BY <1>2, <2>1
  <2> QED
    BY <2>1, <2>2 DEF Within
<1>11. GoodDecision(q)
  <2>1. q.now = clock /\ q.now <= clock /\ q.log = new /\ q.subject = s
    BY <1>2
  <2>2. q.log \subseteq given[q.subject] \cup Granted(q)
    BY <1>2, <1>3, <1>6 DEF Granted
  <2>3. ASSUME q.entry # None
        PROVE  /\ q.writes /\ q.entry \in q.log /\ Cardinality(q.log) <= Limit
               /\ q.entry.n = last[q.subject] + 1 /\ q.entry.at = q.now
    BY <2>3, <1>8, <1>9
  <2>4. IsFiniteSet(q.log) /\ \A b \in given[q.subject] : q.now - b.at < Window - lead[q.subject] => b \in q.log
    BY <2>1, <1>7, <1>10
  <2> HIDE DEF q
  <2> QED
    BY <2>1, <2>2, <2>3, <2>4 DEF GoodDecision
<1>12. Holds(r)' = {}
  BY <1>4 DEF Holds, Wrote, LimitInv, LimitTypeOK
<1>13. \A r2 \in Requests \ {r} : Busy(r2) => request[r2].subject # q.subject
  BY <1>1 DEF LimitInv, OneEach
<1>14. q.subject \in Subjects /\ q.swept = {}
  BY <1>1
<1> HIDE DEF q
<1> QED
  BY <1>4, <1>5, <1>11, <1>12, <1>13, <1>14, RequestStep

LEMMA LogWriteStep ==
    ASSUME RateAssumption, LimitInv, NEW r \in Requests, Write(r)
    PROVE  LimitInv'
<1> DEFINE q == [request[r] EXCEPT !.at = "sweep"]
<1>1. request[r] \in RateRequest /\ request[r].at = "write"
  BY DEF Write, LimitInv, LimitTypeOK
<1>2. /\ q \in RateRequest /\ q.at = "sweep" /\ q.subject = request[r].subject /\ q.now = request[r].now
      /\ q.entry = request[r].entry /\ q.log = request[r].log /\ q.writes = request[r].writes
      /\ q.swept = request[r].swept
  BY <1>1 DEF RateRequest, States
<1>3. request' = [request EXCEPT ![r] = q] /\ UNCHANGED <<clock, last, log, given, lead>>
  BY DEF Write
<1> HIDE DEF q
<1>4. q.subject \in Subjects /\ \A r2 \in Requests \ {r} : Busy(r2) => request[r2].subject # q.subject
  BY <1>1, <1>2 DEF Busy, LimitInv, LimitTypeOK, OneEach
<1>5. GoodDecision(q)
  <2>1. GoodDecision(request[r])
    BY <1>1 DEF LimitInv, DecisionsAreGood, Decided
  <2> QED
    BY <1>2, <2>1 DEF GoodDecision, Granted
<1>6. \A s \in q.swept : \A b \in given[s] : clock - b.at >= Window - lead[s]
  BY <1>2 DEF LimitInv, SweptAreOver
<1>7. \A r2 \in Requests \ {r} : Holds(r)' \cap Holds(r2) = {}
  <2>1. Holds(r)' = (IF q.writes THEN {q.subject} ELSE {}) \cup q.swept
    BY <1>2, <1>3 DEF Holds, Wrote, LimitInv, LimitTypeOK
  <2>2. \A r2 \in Requests \ {r} : request[r].swept \cap Holds(r2) = {}
    BY DEF Holds, LimitInv, RowsHeldOnce
  <2>3. q.writes => \A r2 \in Requests \ {r} : q.subject \notin Holds(r2)
    BY <1>2 DEF Write, RowFree
  <2> QED
    BY <1>2, <2>1, <2>2, <2>3
<1> QED
  BY <1>2, <1>3, <1>4, <1>5, <1>6, <1>7, RequestStep

\* A row swept is free, and has nothing left in the window: the sweep reads it
\* with a clock that is past.
LEMMA SweepStep ==
    ASSUME RateAssumption, LimitInv, NEW r \in Requests, Sweep(r)
    PROVE  LimitInv'
<1> DEFINE q == [request[r] EXCEPT !.at = "commit", !.swept = Sweepable(r)]
<1>1. request[r] \in RateRequest /\ request[r].at = "sweep" /\ Sweepable(r) \subseteq Subjects
  BY DEF Sweep, LimitInv, LimitTypeOK, Sweepable, Expired
<1>2. /\ q \in RateRequest /\ q.at = "commit" /\ q.subject = request[r].subject /\ q.now = request[r].now
      /\ q.entry = request[r].entry /\ q.log = request[r].log /\ q.writes = request[r].writes
      /\ q.swept = Sweepable(r)
  BY <1>1 DEF RateRequest, States
<1>3. request' = [request EXCEPT ![r] = q] /\ UNCHANGED <<clock, last, log, given, lead>>
  BY DEF Sweep
<1> HIDE DEF q
<1>4. q.subject \in Subjects /\ \A r2 \in Requests \ {r} : Busy(r2) => request[r2].subject # q.subject
  BY <1>1, <1>2 DEF Busy, LimitInv, LimitTypeOK, OneEach
<1>5. GoodDecision(request[r])
  BY <1>1 DEF LimitInv, DecisionsAreGood, Decided
<1>6. GoodDecision(q)
  BY <1>2, <1>5 DEF GoodDecision, Granted
<1>7. \A s \in q.swept : \A b \in given[s] : clock - b.at >= Window - lead[s]
  <2> SUFFICES ASSUME NEW s \in Sweepable(r), NEW b \in given[s], clock - b.at < Window - lead[s] PROVE FALSE
    BY <1>1, <1>2, <1>3 DEF LimitInv, LimitTypeOK, Admission, RateAssumption
  <2>1. s \in Subjects /\ Within(log[s], request[r].now) = {}
    BY DEF Sweepable, Expired, Forgets
  <2>2. b \in log[s] /\ b.at \in Int /\ lead[s] \in Nat
    BY <2>1 DEF LimitInv, LogRemembers, LimitTypeOK, Admission
  <2>3. request[r].now - b.at >= Window
    BY <2>1, <2>2, <1>1 DEF Within, RateRequest, RateAssumption
  <2> QED
    BY <2>2, <2>3, <1>1, <1>5 DEF GoodDecision, RateRequest, LimitInv, LimitTypeOK, RateAssumption
<1>8. \A r2 \in Requests \ {r} : Holds(r)' \cap Holds(r2) = {}
  <2>1. Holds(r)' = (IF q.writes THEN {q.subject} ELSE {}) \cup q.swept
    BY <1>2, <1>3 DEF Holds, Wrote, LimitInv, LimitTypeOK
  <2>2. q.writes => \A r2 \in Requests \ {r} : q.subject \notin Holds(r2)
    BY <1>1, <1>2 DEF Holds, Wrote, LimitInv, RowsHeldOnce
  <2>3. \A r2 \in Requests \ {r} : q.swept \cap Holds(r2) = {}
    BY <1>2 DEF Sweepable, RowFree
  <2> QED
    BY <2>1, <2>2, <2>3
<1> QED
  BY <1>2, <1>3, <1>4, <1>6, <1>7, <1>8, RequestStep

-----------------------------------------------------------------------------
(* The COMMIT, and what goes on beside.                                       *)

\* Who commits an admission holds the row of its subject: nobody swept it. The
\* window that ends with the new admission lies in what was written, and those
\* that end with older ones do not see it.
LEMMA CommitStep ==
    ASSUME RateAssumption, LimitInv, NEW r \in Requests, Commit(r)
    PROVE  LimitInv'
<1> USE DEF LimitInv
<1> DEFINE q == request[r]
           s == q.subject
<1>1. q \in RateRequest /\ q.at = "commit" /\ s \in Subjects /\ Busy(r) /\ Decided(r)
  BY DEF Commit, LimitTypeOK, Busy, Decided
<1>2. GoodDecision(q)
  BY <1>1 DEF DecisionsAreGood
<1>3. /\ request' = [request EXCEPT ![r] = Idle] /\ clock' = clock /\ lead' = lead
      /\ log' = [t \in Subjects |-> IF t = s /\ q.writes THEN q.log
                                    ELSE IF t \in q.swept THEN {} ELSE log[t]]
  BY DEF Commit
<1>4. Idle \in RateRequest /\ Idle.at = "idle" /\ Idle.swept = {}
  BY DEF RateRequest, Idle, States
<1>5. /\ request'[r] = Idle
      /\ \A r2 \in Requests \ {r} : request'[r2] = request[r2]
  BY <1>3 DEF LimitTypeOK
<1>6. ~(Busy(r))' /\ Holds(r)' = {} /\ ~(Decided(r))'
  BY <1>4, <1>5 DEF Busy, Holds, Wrote, Decided
<1>7. \A r2 \in Requests \ {r} : (Busy(r2))' = Busy(r2) /\ Holds(r2)' = Holds(r2) /\ (Decided(r2))' = Decided(r2)
  BY <1>5 DEF Busy, Holds, Wrote, Decided
<1>8. /\ last' \in [Subjects -> Nat] /\ given' \in [Subjects -> SUBSET Admission]
      /\ \A t \in Subjects \ {s} : last'[t] = last[t] /\ given'[t] = given[t]
      /\ q.entry = None => last' = last /\ given' = given
      /\ q.entry # None => last'[s] = q.entry.n /\ given'[s] = given[s] \cup {q.entry}
  <2>1. CASE q.entry = None
    BY <2>1, <1>1 DEF Commit, LimitTypeOK
  <2>2. CASE q.entry # None
    <3>1. q.entry \in Admission /\ q.entry.n \in Nat
      BY <2>2, <1>1 DEF RateRequest, Admission
    <3>2. last' = [last EXCEPT ![s] = q.entry.n] /\ given' = [given EXCEPT ![s] = @ \cup {q.entry}]
      BY <2>2 DEF Commit
    <3> QED
      BY <2>2, <3>1, <3>2, <1>1 DEF LimitTypeOK
  <2> QED
    BY <2>1, <2>2
<1>9. q.entry # None => /\ q.writes /\ q.entry \in q.log /\ Cardinality(q.log) <= Limit
                        /\ q.entry.n = last[s] + 1 /\ q.entry.at = q.now
                        /\ last[s] \in Nat /\ q.now \in Int /\ last'[s] = last[s] + 1
  BY <1>1, <1>2, <1>8 DEF GoodDecision, LimitTypeOK, RateRequest
<1>10. LimitTypeOK'
  <2>1. log' \in [Subjects -> SUBSET Admission]
    BY <1>1, <1>3 DEF LimitTypeOK, RateRequest
  <2> QED
    BY <2>1, <1>3, <1>4, <1>5, <1>6, <1>7, <1>8 DEF LimitTypeOK
<1>11. OneEach'
  BY <1>5, <1>6, <1>7 DEF OneEach
<1>12. RowsHeldOnce'
  BY <1>6, <1>7 DEF RowsHeldOnce
<1>13. GivenInOrder'
  <2>0. ASSUME NEW t \in Subjects PROVE IsFiniteSet(given'[t])
    <3>1. IsFiniteSet(given[t])
      BY DEF GivenInOrder
    <3>2. given'[t] = given[t] \/ given'[t] = given[t] \cup {q.entry}
      BY <1>8
    <3> QED
      BY <3>1, <3>2, FS_AddElement
  <2> SUFFICES ASSUME NEW t \in Subjects, NEW b \in given'[t] PROVE b.n <= last'[t]
    BY <2>0 DEF GivenInOrder
  <2>1. b \in given[t] => b.n <= last[t] /\ b.n \in Nat /\ last[t] \in Nat
    BY DEF GivenInOrder, LimitTypeOK, Admission
  <2>2. CASE b \in given[t]
    BY <2>1, <2>2, <1>8, <1>9
  <2>3. CASE b \notin given[t]
    BY <2>3, <1>8, <1>9
  <2> QED
    BY <2>2, <2>3
<1>14. LogRemembers'
  <2> SUFFICES ASSUME NEW t \in Subjects
               PROVE  /\ IsFiniteSet(log'[t]) /\ log'[t] \subseteq given'[t]
                      /\ \A b \in given'[t] : clock - b.at < Window - lead[t] => b \in log'[t]
    BY <1>3 DEF LogRemembers
  <2>1. /\ IsFiniteSet(log[t]) /\ log[t] \subseteq given[t]
        /\ \A b \in given[t] : clock - b.at < Window - lead[t] => b \in log[t]
    BY DEF LogRemembers
  <2>2. CASE t = s /\ q.writes
    <3>1. log'[t] = q.log
      BY <2>2, <1>3
    <3>2. given'[t] = given[t] \cup Granted(q)
      BY <2>2, <1>8 DEF Granted
    <3>3. ASSUME NEW b \in given[t], clock - b.at < Window - lead[t] PROVE b \in q.log
      <4>1. b.at \in Int /\ clock \in Int /\ q.now \in Int /\ q.now <= clock /\ Window \in Nat /\ lead[t] \in Nat
        BY <1>1, <1>2 DEF GoodDecision, LimitTypeOK, Admission, RateRequest, RateAssumption
      <4>2. q.now - b.at < Window - lead[t]
        BY <4>1, <3>3
      <4> QED
        BY <2>2, <4>2, <1>2 DEF GoodDecision
    <3>4. Granted(q) \subseteq q.log
      BY <1>9 DEF Granted
    <3> QED
      BY <2>2, <3>1, <3>2, <3>3, <3>4, <1>2 DEF GoodDecision
  <2>3. CASE ~(t = s /\ q.writes) /\ t \in q.swept
    <3>1. log'[t] = {} /\ given'[t] = given[t]
      BY <2>3, <1>3, <1>8, <1>9
    <3>2. \A b \in given[t] : ~(clock - b.at < Window - lead[t])
      BY <2>3 DEF SweptAreOver, LimitTypeOK, Admission, RateAssumption
    <3> QED
      BY <3>1, <3>2, FS_EmptySet
  <2>4. CASE ~(t = s /\ q.writes) /\ t \notin q.swept
    BY <2>1, <2>4, <1>3, <1>8, <1>9
  <2> QED
    BY <2>2, <2>3, <2>4
<1>15. DecisionsAreGood'
  <2> SUFFICES ASSUME NEW r2 \in Requests, (Decided(r2))' PROVE GoodDecision(request[r2])'
    BY DEF DecisionsAreGood
  <2>1. r2 # r /\ GoodDecision(request[r2]) /\ request'[r2] = request[r2] /\ Busy(r2)
    BY <1>5, <1>6, <1>7 DEF DecisionsAreGood, Decided, Busy
  <2>2. request[r2].subject \in Subjects \ {s}
    BY <2>1, <1>1 DEF OneEach, LimitTypeOK
  <2>3. given'[request[r2].subject] = given[request[r2].subject] /\ last'[request[r2].subject] = last[request[r2].subject]
    BY <2>2, <1>8
  <2> QED
    BY <2>1, <2>3, <1>3 DEF GoodDecision, Granted
<1>16. SweptAreOver'
  <2> SUFFICES ASSUME NEW r2 \in Requests, NEW t \in request'[r2].swept
               PROVE  \A b \in given'[t] : clock - b.at >= Window - lead[t]
    BY <1>3 DEF SweptAreOver
  <2>1. r2 # r /\ t \in request[r2].swept /\ t \in Subjects
    BY <1>4, <1>5 DEF LimitTypeOK, RateRequest
  <2>2. given'[t] = given[t]
    <3>1. q.writes => s \in Holds(r)
      BY <1>1 DEF Holds, Wrote
    <3>2. t \in Holds(r2)
      BY <2>1 DEF Holds
    <3> QED
      BY <2>1, <3>1, <3>2, <1>8, <1>9 DEF RowsHeldOnce
  <2> QED
    BY <2>1, <2>2 DEF SweptAreOver
<1>17. WindowCeiling'
  <2> SUFFICES ASSUME NEW t \in Subjects, NEW a \in given'[t]
               PROVE  Cardinality({b \in given'[t] : b.n <= a.n /\ a.at - b.at < Window - lead[t]}) <= Limit
    BY <1>3 DEF WindowCeiling
  <2>1. CASE a \in given[t]
    <3>1. {b \in given'[t] : b.n <= a.n /\ a.at - b.at < Window - lead[t]}
           = {b \in given[t] : b.n <= a.n /\ a.at - b.at < Window - lead[t]}
      <4>1. a.n \in Nat /\ a.n <= last[t] /\ last[t] \in Nat
        BY <2>1 DEF GivenInOrder, LimitTypeOK, Admission
      <4> QED
        BY <4>1, <1>8, <1>9
    <3> QED
      BY <2>1, <3>1 DEF WindowCeiling
  <2>2. CASE a \notin given[t]
    <3>1. t = s /\ q.entry # None /\ a = q.entry
      BY <2>2, <1>8
    <3>2. {b \in given'[t] : b.n <= a.n /\ a.at - b.at < Window - lead[t]} \subseteq q.log
      BY <3>1, <1>2, <1>8, <1>9 DEF GoodDecision
    <3> DEFINE W == {b \in given'[t] : b.n <= a.n /\ a.at - b.at < Window - lead[t]}
    <3>3. IsFiniteSet(q.log) /\ Cardinality(q.log) \in Nat
      BY <1>2, FS_CardinalityType DEF GoodDecision
    <3>4. IsFiniteSet(W) /\ Cardinality(W) <= Cardinality(q.log)
      BY <3>2, <3>3, FS_Subset
    <3>5. Cardinality(W) \in Nat
      BY <3>4, FS_CardinalityType
    <3> HIDE DEF W
    <3>6. Cardinality(W) <= Limit
      BY <3>1, <3>3, <3>4, <3>5, <1>9 DEF RateAssumption
    <3> QED
      BY <3>6 DEF W
  <2> QED
    BY <2>1, <2>2
<1> QED
  BY <1>10, <1>11, <1>12, <1>13, <1>14, <1>15, <1>16, <1>17

\* The purge takes what has left the window by its own clock: by the database's, what
\* has left a window that is shorter by its lead.
LEMMA LogPurgeStep ==
    ASSUME RateAssumption, LimitInv, NEW s \in Subjects, NEW drift \in Drifts,
           Purge(s, drift)
    PROVE  LimitInv'
<1> USE DEF LimitInv
<1>1. log' = [log EXCEPT ![s] = {}] /\ UNCHANGED <<clock, last, given, request>>
  BY DEF Purge
<1>2. /\ lead' \in [Subjects -> Nat] /\ lead'[s] >= drift
      /\ \A t \in Subjects : lead'[t] >= lead[t] /\ (t # s => lead'[t] = lead[t])
  <2>1. lead \in [Subjects -> Nat] /\ drift \in Int
    BY DEF LimitTypeOK, RateAssumption
  <2>2. lead' = [lead EXCEPT ![s] = IF drift > @ THEN drift ELSE @]
    BY DEF Purge
  <2> QED
    BY <2>1, <2>2
<1>3. LimitTypeOK'
  BY <1>1, <1>2 DEF LimitTypeOK, Busy
<1>4. /\ clock \in Int /\ Window \in Nat /\ lead \in [Subjects -> Nat] /\ drift \in Int
      /\ \A t \in Subjects : \A b \in given[t] : b.at \in Int
  BY DEF LimitTypeOK, Admission, RateAssumption
<1>5. LogRemembers'
  <2> SUFFICES ASSUME NEW t \in Subjects
               PROVE  /\ IsFiniteSet(log'[t]) /\ log'[t] \subseteq given[t]
                      /\ \A b \in given[t] : clock - b.at < Window - lead'[t] => b \in log'[t]
    BY <1>1 DEF LogRemembers
  <2>1. /\ IsFiniteSet(log[t]) /\ log[t] \subseteq given[t]
        /\ \A b \in given[t] : clock - b.at < Window - lead[t] => b \in log[t]
    BY DEF LogRemembers
  <2>2. CASE t # s
    BY <2>1, <2>2, <1>1, <1>2 DEF LimitTypeOK
  <2>3. CASE t = s
    <3>1. log'[t] = {}
      BY <2>3, <1>1 DEF LimitTypeOK
    <3>2. ASSUME NEW b \in given[t], clock - b.at < Window - lead'[t] PROVE FALSE
      <4>1. b.at \in Int /\ lead[t] \in Nat /\ lead'[t] \in Nat /\ lead'[t] >= lead[t] /\ lead'[t] >= drift
        BY <1>2, <1>4, <2>3
      <4>2. b \in log[t]
        BY <1>4, <2>1, <3>2, <4>1
      <4>3. ~(clock + drift - b.at < Window)
        BY <1>4, <2>3, <4>1, <4>2 DEF Purge, Forgets, Within
      <4> QED
        BY <1>4, <3>2, <4>1, <4>3
    <3> QED
      BY <3>1, <3>2, FS_EmptySet
  <2> QED
    BY <2>2, <2>3
<1>6. OneEach' /\ RowsHeldOnce' /\ GivenInOrder'
  BY <1>1 DEF OneEach, RowsHeldOnce, GivenInOrder, Busy, Holds, Wrote
<1>7. SweptAreOver'
  <2>1. \A r \in Requests : request[r].swept \subseteq Subjects
    BY DEF LimitTypeOK, RateRequest
  <2> QED
    BY <1>1, <1>2, <1>4, <2>1 DEF SweptAreOver
<1>8. DecisionsAreGood'
  <2> SUFFICES ASSUME NEW r \in Requests, Decided(r) PROVE GoodDecision(request[r])'
    BY <1>1 DEF DecisionsAreGood, Decided
  <2>1. GoodDecision(request[r]) /\ request[r].now \in Int /\ request[r].subject \in Subjects
    BY DEF DecisionsAreGood, LimitTypeOK, RateRequest, Decided, Busy
  <2>2. lead'[request[r].subject] \in Nat /\ lead[request[r].subject] \in Nat
        /\ lead'[request[r].subject] >= lead[request[r].subject]
    BY <1>2, <1>4, <2>1
  <2> QED
    BY <1>1, <1>4, <2>1, <2>2 DEF GoodDecision, Granted
<1>9. WindowCeiling'
  <2> SUFFICES ASSUME NEW t \in Subjects, NEW a \in given[t]
               PROVE  Cardinality({b \in given[t] : b.n <= a.n /\ a.at - b.at < Window - lead'[t]}) <= Limit
    BY <1>1 DEF WindowCeiling
  <2> DEFINE W == {b \in given[t] : b.n <= a.n /\ a.at - b.at < Window - lead[t]}
             V == {b \in given[t] : b.n <= a.n /\ a.at - b.at < Window - lead'[t]}
  <2>1. V \subseteq W
    BY <1>2, <1>4
  <2>2. Cardinality(W) <= Limit
    BY DEF WindowCeiling
  <2>3. IsFiniteSet(W)
    BY FS_Subset DEF GivenInOrder
  <2>4. IsFiniteSet(V) /\ Cardinality(V) <= Cardinality(W)
    BY <2>1, <2>3, FS_Subset
  <2>5. Cardinality(V) \in Nat /\ Cardinality(W) \in Nat
    BY <2>3, <2>4, FS_CardinalityType
  <2> HIDE DEF V, W
  <2>6. Cardinality(V) <= Limit
    BY <2>2, <2>4, <2>5 DEF RateAssumption
  <2> QED
    BY <2>6 DEF V
<1> QED
  BY <1>3, <1>5, <1>6, <1>7, <1>8, <1>9

LEMMA TickStep == ASSUME RateAssumption, LimitInv, Tick PROVE LimitInv'
<1> USE DEF LimitInv
<1>1. /\ clock \in Int /\ clock' = clock + 1 /\ UNCHANGED <<last, log, given, request, lead>>
      /\ Window \in Nat /\ lead \in [Subjects -> Nat]
  BY DEF Tick, LimitTypeOK, RateAssumption
<1>2. LimitTypeOK' /\ OneEach' /\ RowsHeldOnce' /\ GivenInOrder' /\ WindowCeiling'
  BY <1>1 DEF LimitTypeOK, OneEach, RowsHeldOnce, GivenInOrder, WindowCeiling, Busy, Holds, Wrote
<1>3. \A s \in Subjects : \A b \in given[s] : b.at \in Int
  BY DEF LimitTypeOK, Admission
<1>4. LogRemembers'
  BY <1>1, <1>3 DEF LogRemembers
<1>5. SweptAreOver'
  <2>1. \A r \in Requests : request[r].swept \subseteq Subjects
    BY DEF LimitTypeOK, RateRequest
  <2> QED
    BY <1>1, <1>3, <2>1 DEF SweptAreOver
<1>6. DecisionsAreGood'
  <2> SUFFICES ASSUME NEW r \in Requests, Decided(r) PROVE GoodDecision(request[r])'
    BY <1>1 DEF DecisionsAreGood, Decided
  <2>1. GoodDecision(request[r]) /\ request[r].now \in Int
    BY DEF DecisionsAreGood, LimitTypeOK, RateRequest
  <2> QED
    BY <2>1, <1>1 DEF GoodDecision, Granted
<1> QED
  BY <1>2, <1>4, <1>5, <1>6

LEMMA LimitStep ==
    ASSUME RateAssumption, LimitInv, [LimitNext]_limitVars
    PROVE  LimitInv'
<1>1. ASSUME NEW r \in Requests, Step(r) PROVE LimitInv'
  BY <1>1, LockStep, RateFailStep, DecideStep, LogWriteStep, SweepStep, CommitStep DEF Step
<1>2. CASE UNCHANGED limitVars
  BY <1>2 DEF limitVars, LimitInv, LimitTypeOK, OneEach, RowsHeldOnce, GivenInOrder, LogRemembers,
       DecisionsAreGood, SweptAreOver, WindowCeiling, Busy, Holds, Wrote, Decided, GoodDecision, Granted
<1> QED
  BY <1>1, <1>2, LogPurgeStep, TickStep DEF LimitNext

LEMMA LimitStart == ASSUME RateAssumption, LimitInit PROVE LimitInv
<1>1. Idle \in RateRequest /\ Idle.at = "idle" /\ Idle.swept = {}
  BY DEF RateRequest, Idle, States
<1>2. \A r \in Requests : request[r] = Idle
  BY DEF LimitInit
<1>3. LimitTypeOK
  BY <1>1, <1>2 DEF LimitInit, LimitTypeOK, Busy
<1>4. OneEach /\ RowsHeldOnce /\ DecisionsAreGood /\ SweptAreOver
  BY <1>1, <1>2 DEF OneEach, RowsHeldOnce, DecisionsAreGood, SweptAreOver, Busy, Holds, Wrote, Decided
<1>5. GivenInOrder /\ LogRemembers /\ WindowCeiling
  BY FS_EmptySet DEF LimitInit, GivenInOrder, LogRemembers, WindowCeiling
<1> QED
  BY <1>3, <1>4, <1>5 DEF LimitInv

\* On whichever replicas, however requests, sweeps and purges interleave, the
\* window that ends with an admission holds at most Limit: of any limit, any
\* window and any number of subjects and requests (rate_limit.rs, SlidingLimiter).
THEOREM NoWindowExceeds ==
    ASSUME RateAssumption
    PROVE  LimitSpec => []WindowCeiling
<1>1. LimitInit => LimitInv
  BY LimitStart
<1>2. LimitInv /\ [LimitNext]_limitVars => LimitInv'
  BY LimitStep
<1>3. LimitInv => WindowCeiling
  BY DEF LimitInv
<1> QED
  BY <1>1, <1>2, <1>3, PTL DEF LimitSpec

-----------------------------------------------------------------------------
(* Nobody waits in a circle: whatever the clocks are.                         *)

\* A transaction sweeps last, and then only commits.
SweptLast == \A r \in Requests : request[r].at # "commit" => request[r].swept = {}
Shape == LimitTypeOK /\ SweptLast

\* What a step that changes one request must show of it.
LEMMA ShapeOfRequest ==
    ASSUME Shape, NEW r \in Requests, NEW q \in RateRequest, request' = [request EXCEPT ![r] = q],
           q.at # "idle" => q.subject \in Subjects, q.at # "commit" => q.swept = {},
           clock' \in Int, last' \in [Subjects -> Nat], lead' \in [Subjects -> Nat],
           log' \in [Subjects -> SUBSET Admission], given' \in [Subjects -> SUBSET Admission]
    PROVE  Shape'
BY DEF Shape, LimitTypeOK, SweptLast, Busy

LEMMA ShapeStep == ASSUME RateAssumption, Shape, [LimitNext]_limitVars PROVE Shape'
<1> USE DEF Shape
<1>0. Idle \in RateRequest /\ Idle.at = "idle" /\ Idle.swept = {}
  BY DEF RateRequest, Idle, States
<1>t. /\ clock \in Int /\ last \in [Subjects -> Nat] /\ lead \in [Subjects -> Nat] /\ request \in [Requests -> RateRequest]
      /\ log \in [Subjects -> SUBSET Admission] /\ given \in [Subjects -> SUBSET Admission]
  BY DEF LimitTypeOK
<1>1. ASSUME NEW r \in Requests, NEW s \in Subjects, Lock(r, s) PROVE Shape'
  <2> DEFINE q == [Idle EXCEPT !.at = "read", !.subject = s]
  <2>1. q \in RateRequest /\ q.subject = s /\ q.swept = {}
    BY <1>0 DEF RateRequest, States
  <2>2. request' = [request EXCEPT ![r] = q] /\ UNCHANGED <<clock, last, log, given, lead>>
    BY <1>1 DEF Lock
  <2> HIDE DEF q
  <2> QED
    BY <1>t, <2>1, <2>2, ShapeOfRequest
<1>2. ASSUME NEW r \in Requests, Decide(r) PROVE Shape'
  <2> DEFINE s == request[r].subject
             kept == Within(log[s], clock)
             entry == [n |-> last[s] + 1, at |-> clock]
             new == IF Fits(kept) THEN kept \cup {entry} ELSE kept
             q == [at |-> "write", subject |-> s, now |-> clock, swept |-> {},
                   entry |-> IF Fits(kept) THEN entry ELSE None,
                   log |-> new, writes |-> new # log[s]]
  <2>1. s \in Subjects
    BY <1>2 DEF Decide, Busy, LimitTypeOK
  <2>2. entry \in Admission /\ kept \subseteq Admission
    BY <1>t, <2>1 DEF Admission, Within
  <2>3. q \in RateRequest /\ q.subject = s /\ q.swept = {}
    BY <1>t, <2>1, <2>2 DEF RateRequest, States
  <2>4. request' = [request EXCEPT ![r] = q] /\ UNCHANGED <<clock, last, log, given, lead>>
    BY <1>2 DEF Decide
  <2> HIDE DEF q
  <2> QED
    BY <1>t, <2>1, <2>3, <2>4, ShapeOfRequest
<1>3. ASSUME NEW r \in Requests, Write(r) PROVE Shape'
  <2> DEFINE q == [request[r] EXCEPT !.at = "sweep"]
  <2>1. q \in RateRequest /\ q.subject = request[r].subject /\ q.swept = request[r].swept
    BY <1>t DEF RateRequest, States
  <2>2. request[r].subject \in Subjects /\ request[r].swept = {}
    BY <1>3 DEF Write, Busy, LimitTypeOK, SweptLast
  <2>3. request' = [request EXCEPT ![r] = q] /\ UNCHANGED <<clock, last, log, given, lead>>
    BY <1>3 DEF Write
  <2> HIDE DEF q
  <2> QED
    BY <1>t, <2>1, <2>2, <2>3, ShapeOfRequest
<1>4. ASSUME NEW r \in Requests, Sweep(r) PROVE Shape'
  <2> DEFINE q == [request[r] EXCEPT !.at = "commit", !.swept = Sweepable(r)]
  <2>0. Sweepable(r) \subseteq Subjects /\ request[r] \in RateRequest
    BY <1>t DEF Sweepable, Expired
  <2>1. q \in RateRequest /\ q.subject = request[r].subject /\ q.at = "commit"
    <3> HIDE DEF Shape
    <3> QED
      BY <2>0 DEF RateRequest, States
  <2>2. request[r].subject \in Subjects
    BY <1>4 DEF Sweep, Busy, LimitTypeOK
  <2>3. request' = [request EXCEPT ![r] = q] /\ UNCHANGED <<clock, last, log, given, lead>>
    BY <1>4 DEF Sweep
  <2> HIDE DEF q
  <2> QED
    BY <1>t, <2>1, <2>2, <2>3, ShapeOfRequest
<1>5. ASSUME NEW r \in Requests, Commit(r) PROVE Shape'
  <2>1. request[r] \in RateRequest /\ request[r].subject \in Subjects
    BY <1>5 DEF Commit, LimitTypeOK, Busy
  <2>2. log' \in [Subjects -> SUBSET Admission]
    BY <1>5, <1>t, <2>1 DEF Commit, RateRequest
  <2>3. last' \in [Subjects -> Nat] /\ given' \in [Subjects -> SUBSET Admission]
    <3>1. CASE request[r].entry = None
      BY <3>1, <1>5, <1>t DEF Commit
    <3>2. CASE request[r].entry # None
      <4>1. request[r].entry \in Admission /\ request[r].entry.n \in Nat
        BY <3>2, <2>1 DEF RateRequest, Admission
      <4> QED
        BY <3>2, <4>1, <2>1, <1>5, <1>t DEF Commit
    <3> QED
      BY <3>1, <3>2
  <2>4. request' = [request EXCEPT ![r] = Idle] /\ clock' = clock /\ lead' = lead
    BY <1>5 DEF Commit
  <2> QED
    BY <1>0, <1>t, <2>2, <2>3, <2>4, ShapeOfRequest
<1>6. ASSUME NEW r \in Requests, Fail(r) PROVE Shape'
  BY <1>0, <1>t, <1>6, ShapeOfRequest DEF Fail
<1>7. ASSUME NEW s \in Subjects, NEW drift \in Drifts, Purge(s, drift) PROVE Shape'
  <2>1. log' \in [Subjects -> SUBSET Admission] /\ UNCHANGED <<clock, last, given, request>>
    BY <1>7, <1>t DEF Purge
  <2>2. lead' \in [Subjects -> Nat]
    <3>1. lead' = [lead EXCEPT ![s] = IF drift > @ THEN drift ELSE @] /\ drift \in Int
      BY <1>7 DEF Purge, RateAssumption
    <3> QED
      BY <1>t, <3>1
  <2> QED
    BY <2>1, <2>2 DEF LimitTypeOK, SweptLast, Busy
<1>8. CASE Tick \/ UNCHANGED limitVars
  BY <1>8 DEF Tick, limitVars, LimitTypeOK, SweptLast, Busy
<1> QED
  BY <1>1, <1>2, <1>3, <1>4, <1>5, <1>6, <1>7, <1>8 DEF LimitNext, Step

\* A sweep skips the rows others hold, so it waits for nobody; what is left is a
\* write that waits for a sweep, or for a COMMIT (rate_limit.rs:208).
LEMMA ShapeHasNoCircle == Shape => NoCircle
<1> SUFFICES ASSUME Shape, NEW S \in SUBSET Requests, S # {}
             PROVE  \E r \in S : Blockers(r) \cap S = {}
  BY DEF NoCircle
<1>1. \A r \in Requests : request[r].at \notin {"write"} => Blockers(r) = {}
  BY DEF Blockers, Sweepable, RowFree
<1>2. \A r \in Requests : request[r].at = "write" => Holds(r) = {}
  BY DEF Holds, Wrote, Shape, SweptLast
<1>3. CASE \E r \in S : request[r].at # "write"
  BY <1>1, <1>3
<1>4. CASE \A r \in S : request[r].at = "write"
  <2>1. PICK r \in S : TRUE
    OBVIOUS
  <2> QED
    BY <1>2, <1>4, <2>1 DEF Blockers
<1> QED
  BY <1>3, <1>4

\* Requests of any number on any number of rows never wait for each other in a
\* circle, whatever the drift of the replicas' clocks.
THEOREM NobodyWaitsInACircle == ASSUME RateAssumption PROVE LimitSpec => []NoCircle
<1>1. LimitInit => Shape
  <2>1. Idle \in RateRequest /\ Idle.at = "idle" /\ Idle.swept = {}
    BY DEF RateRequest, Idle, States
  <2> QED
    BY <2>1 DEF LimitInit, Shape, LimitTypeOK, SweptLast, Busy
<1>2. Shape /\ [LimitNext]_limitVars => Shape'
  BY ShapeStep
<1> QED
  BY <1>1, <1>2, ShapeHasNoCircle, PTL DEF LimitSpec

-----------------------------------------------------------------------------
(* SignIn: reset links and sessions.                                          *)

\* Whoever holds the row of a reset link, holds it alone, and it was not used.
HeldAlone ==
    \A p \in Callers : asked[p].at = "reset" =>
        /\ asked[p].link \in Resets /\ resets[asked[p].link].at = "out"
        /\ \A q \in Callers \ {p} : asked[q].at = "reset" => asked[q].link # asked[p].link

\* A link that gave a password is used.
UsedIsUsed == \A r \in Resets : resets[r].at # "used" => uses[r] = 0

IndInv == TypeOK /\ HeldAlone /\ UsedIsUsed /\ LinksWorkOnce /\ OldSessionsEnd
-----------------------------------------------------------------------------
(* The records of the model.                                                  *)

LEMMA FirstRecords ==
    /\ NoAccount \in Account /\ NoAccount.renewed = 0
    /\ NoLink \in Link /\ NoSession \in Session
    /\ Quiet \in Request /\ Quiet.at = "idle"
BY DEF NoAccount, Account, NoPassword, NoLink, Link, NoSession, Session, Quiet, Request

LEMMA BecomeRequest ==
    ASSUME TypeOK, NEW p \in Callers, NEW r \in Request, Become(p, r)
    PROVE  /\ asked' \in [Callers -> Request] /\ asked'[p] = r
           /\ \A q \in Callers \ {p} : asked'[q] = asked[q]
BY DEF TypeOK, Become

LEMMA AccountRecords ==
    ASSUME NEW a \in Account, NEW n \in Nat
    PROVE  /\ [a EXCEPT !.verified = TRUE] \in Account
           /\ [a EXCEPT !.verified = TRUE].renewed = a.renewed
           /\ [a EXCEPT !.google = TRUE] \in Account
           /\ [a EXCEPT !.google = TRUE].renewed = a.renewed
           /\ \A g \in {"age", "terms", "full"} :
                 [a EXCEPT !.gate = g] \in Account /\ [a EXCEPT !.gate = g].renewed = a.renewed
           /\ \A w \in {"none", "active", "deactivated", "purged"} :
                 [a EXCEPT !.row = w] \in Account /\ [a EXCEPT !.row = w].renewed = a.renewed
           /\ [a EXCEPT !.password = n, !.renewed = n] \in Account
           /\ [a EXCEPT !.password = n, !.verified = FALSE] \in Account
           /\ [a EXCEPT !.password = n, !.verified = FALSE].renewed = a.renewed
           /\ [a EXCEPT !.row = "active", !.password = n, !.gate = "full"] \in Account
           /\ [a EXCEPT !.row = "active", !.password = n, !.gate = "full"].renewed = a.renewed
           /\ [a EXCEPT !.row = "active", !.verified = TRUE, !.google = TRUE] \in Account
           /\ [a EXCEPT !.row = "active", !.verified = TRUE, !.google = TRUE].renewed = a.renewed
BY DEF Account

LEMMA LinkRecords ==
    ASSUME NEW l \in Link
    PROVE  /\ [l EXCEPT !.at = "used"] \in Link /\ [l EXCEPT !.at = "used"].at = "used"
           /\ \A w \in Nat : Issue(w) \in Link /\ Issue(w).at = "out"
BY DEF Link, Issue

LEMMA SessionRecords ==
    ASSUME NEW s \in Session
    PROVE  /\ [s EXCEPT !.at = "over"] \in Session /\ [s EXCEPT !.at = "over"].at = "over"
           /\ [s EXCEPT !.excused = TRUE] \in Session /\ [s EXCEPT !.excused = TRUE].excused
BY DEF Session

-----------------------------------------------------------------------------
(* What a step must leave for the invariant to go on.                         *)

\* No request gets hold of a link, and no link gives a password.
LEMMA LinksKept ==
    ASSUME TypeOK, HeldAlone, UsedIsUsed, LinksWorkOnce, uses' = uses,
           \A p \in Callers : asked'[p] = asked[p] \/ asked'[p].at # "reset",
           \A r \in Resets :
              \/ resets'[r] = resets[r]
              \/ resets[r].at = "none"
              \/ /\ resets'[r].at = "used"
                 /\ \A p \in Callers : asked[p].at = "reset" => asked[p].link # r
    PROVE  HeldAlone' /\ UsedIsUsed' /\ LinksWorkOnce'
<1>1. HeldAlone'
  BY DEF HeldAlone
<1>2. UsedIsUsed' /\ LinksWorkOnce'
  BY DEF UsedIsUsed, LinksWorkOnce
<1> QED
  BY <1>1, <1>2

\* No revocation ends, and no session is opened on a password replaced since.
LEMMA SessionsKept ==
    ASSUME TypeOK, TypeOK', OldSessionsEnd,
           \A p \in Callers : asked[p].at = "revoke" => asked'[p].at = "revoke",
           \A s \in Sessions : sessions'[s].at = "live" =>
              sessions'[s] = sessions[s] \/ sessions'[s].excused \/ sessions'[s].since = account.renewed,
           \/ account'.renewed = account.renewed
           \/ account'.renewed = 0
           \/ \E p \in Callers : asked'[p].at = "revoke"
    PROVE  OldSessionsEnd'
<1> SUFFICES ASSUME \A p \in Callers : asked'[p].at # "revoke",
                    NEW s \in Sessions, sessions'[s].at = "live", ~sessions'[s].excused
             PROVE  sessions'[s].since >= account'.renewed
  BY DEF OldSessionsEnd, Live
<1>1. account.renewed \in Nat /\ sessions'[s].since \in Nat
  BY DEF TypeOK, Account, Session
<1>2. CASE account'.renewed = 0
  BY <1>1, <1>2
<1>3. CASE account'.renewed = account.renewed
  <2>1. CASE sessions'[s] = sessions[s]
    BY <2>1, <1>3 DEF OldSessionsEnd, Live
  <2>2. CASE sessions'[s].since = account.renewed
    BY <2>2, <1>1, <1>3
  <2> QED
    BY <2>1, <2>2
<1> QED
  BY <1>2, <1>3

-----------------------------------------------------------------------------
(* The requests.                                                              *)

LEMMA GoStep ==
    ASSUME TypeOK, NEW p \in Callers, NEW a \in {"create", "issue", "login", "bind", "signed", "set"},
           Go(p, a)
    PROVE  /\ asked' \in [Callers -> Request] /\ asked'[p].at = a
           /\ \A q \in Callers \ {p} : asked'[q] = asked[q]
<1> DEFINE r == [asked[p] EXCEPT !.at = a, !.seen = account]
<1>1. asked[p] \in Request /\ account \in Account
  BY DEF TypeOK
<1>2. r \in Request /\ r.at = a
  BY <1>1 DEF Request
<1>3. Become(p, r)
  BY DEF Go
<1> HIDE DEF r
<1> QED
  BY <1>2, <1>3, BecomeRequest

LEMMA ReadOnly ==
    ASSUME SignInAssumption, IndInv, NEW p \in Callers,
           Register(p) \/ AskLink(p) \/ Login(p) \/ GoogleReads(p) \/ (\E s \in Live : ReadNoPassword(p, s)),
           mix' = mix
    PROVE  IndInv'
<1> USE DEF IndInv
<1>1. PICK a \in {"create", "issue", "login", "bind", "signed", "set"} : Go(p, a)
  BY DEF Register, AskLink, Login, GoogleReads, ReadNoPassword
<1>2. /\ asked[p].at = "idle"
      /\ UNCHANGED <<time, account, links, resets, sessions, passwords, uses>>
  BY FirstRecords DEF Register, AskLink, Login, GoogleReads, ReadNoPassword, Start
<1>3. /\ asked' \in [Callers -> Request] /\ asked'[p].at = a
      /\ \A q \in Callers \ {p} : asked'[q] = asked[q]
  BY <1>1, GoStep
<1>4. TypeOK'
  BY <1>2, <1>3 DEF TypeOK
<1>5. HeldAlone' /\ UsedIsUsed' /\ LinksWorkOnce'
  BY <1>2, <1>3, LinksKept
<1>6. OldSessionsEnd'
  BY <1>2, <1>3, <1>4, SessionsKept
<1> QED
  BY <1>4, <1>5, <1>6

LEMMA QuietStep ==
    ASSUME TypeOK, NEW p \in Callers, Become(p, Quiet)
    PROVE  /\ asked' \in [Callers -> Request] /\ asked'[p].at = "idle"
           /\ \A q \in Callers \ {p} : asked'[q] = asked[q]
BY FirstRecords, BecomeRequest

\* A request that is not at a revocation writes an account or links, and no
\* session: the password it writes, if any, no revocation waits for.
LEMMA WriteStep ==
    ASSUME IndInv, NEW p \in Callers, asked' \in [Callers -> Request],
           asked'[p].at # "reset", asked[p].at # "revoke",
           \A q \in Callers \ {p} : asked'[q] = asked[q],
           account' \in Account, account'.renewed = account.renewed \/ account'.renewed = 0,
           links' \in [Links -> Link], passwords' \in Nat,
           UNCHANGED <<time, resets, sessions, uses, mix>>
    PROVE  IndInv'
<1> USE DEF IndInv
<1>1. TypeOK'
  BY DEF TypeOK
<1>2. HeldAlone' /\ UsedIsUsed' /\ LinksWorkOnce'
  BY LinksKept
<1>3. OldSessionsEnd'
  BY <1>1, SessionsKept
<1> QED
  BY <1>1, <1>2, <1>3

LEMMA LinkIssued ==
    ASSUME TypeOK, NEW l \in Links, links' = [links EXCEPT ![l] = Issue(time)]
    PROVE  links' \in [Links -> Link]
BY LinkRecords DEF TypeOK

LEMMA CreateAccountStep ==
    ASSUME SignInAssumption, IndInv, NEW p \in Callers, CreateAccount(p), mix' = mix
    PROVE  IndInv'
<1> USE DEF IndInv
<1>1. /\ asked[p].at = "create" /\ Become(p, Quiet)
      /\ UNCHANGED <<time, resets, sessions, uses>>
  BY DEF CreateAccount
<1>2. CASE account.row = "none"
  <2>1. /\ NewPassword
        /\ account' = [NoAccount EXCEPT !.row = "active", !.password = passwords', !.gate = "full"]
        /\ \E l \in Links : links' = [links EXCEPT ![l] = Issue(time)]
    BY <1>2 DEF CreateAccount
  <2>2. passwords' \in Nat
    BY <2>1 DEF TypeOK, NewPassword
  <2>3. account' \in Account /\ account'.renewed = 0
    BY <2>1, <2>2 DEF Account, NoAccount, NoPassword
  <2>4. links' \in [Links -> Link]
    BY <2>1, LinkIssued
  <2> QED
    BY <1>1, <2>2, <2>3, <2>4, QuietStep, WriteStep
<1>3. CASE account.row # "none"
  <2>1. UNCHANGED <<account, links, passwords>>
    BY <1>3 DEF CreateAccount
  <2> QED
    BY <1>1, <2>1, QuietStep, WriteStep DEF TypeOK
<1> QED
  BY <1>2, <1>3

LEMMA ReadLinksStep ==
    ASSUME SignInAssumption, IndInv, NEW p \in Callers, ReadLinks(p), mix' = mix
    PROVE  IndInv'
<1> USE DEF IndInv
<1> DEFINE outstanding == {l \in Links : links[l].at = "out"}
           r == [asked[p] EXCEPT !.at = "issuing", !.when = time, !.out = outstanding]
<1>1. /\ asked[p].at = "issue" /\ (Become(p, Quiet) \/ Become(p, r))
      /\ UNCHANGED <<time, account, links, resets, sessions, passwords, uses>>
  BY DEF ReadLinks
<1>2. asked[p] \in Request /\ time \in Nat
  BY DEF TypeOK
<1>3. r \in Request /\ r.at = "issuing"
  BY <1>2 DEF Request
<1> HIDE DEF r
<1>4. /\ asked' \in [Callers -> Request] /\ asked'[p].at \in {"idle", "issuing"}
      /\ \A q \in Callers \ {p} : asked'[q] = asked[q]
  BY <1>1, <1>3, QuietStep, BecomeRequest
<1> QED
  BY <1>1, <1>4, WriteStep DEF TypeOK

LEMMA IssueLinkStep ==
    ASSUME SignInAssumption, IndInv, NEW p \in Callers, IssueLink(p), mix' = mix
    PROVE  IndInv'
<1> USE DEF IndInv
<1>1. /\ asked[p].at = "issuing" /\ Become(p, Quiet)
      /\ UNCHANGED <<time, account, resets, sessions, passwords, uses>>
  BY DEF IssueLink
<1>2. asked[p].when \in Nat
  BY DEF TypeOK, Request
<1>3. PICK n \in Links :
         links' = [l \in Links |-> IF l = n THEN Issue(asked[p].when)
                                   ELSE IF l \in asked[p].out /\ links[l].at = "out"
                                   THEN [links[l] EXCEPT !.at = "used"] ELSE links[l]]
  BY DEF IssueLink
<1>4. links' \in [Links -> Link]
  <2> SUFFICES ASSUME NEW l \in Links PROVE links'[l] \in Link
    BY <1>3
  <2>1. links[l] \in Link
    BY DEF TypeOK
  <2>2. /\ Issue(asked[p].when) \in Link /\ [links[l] EXCEPT !.at = "used"] \in Link
    BY <1>2, <2>1, LinkRecords
  <2> QED
    BY <1>3, <2>1, <2>2
<1> QED
  BY <1>1, <1>4, QuietStep, WriteStep DEF TypeOK

LEMMA VerifyStep ==
    ASSUME SignInAssumption, IndInv, NEW p \in Callers, Verify(p), mix' = mix
    PROVE  IndInv'
<1> USE DEF IndInv
<1>1. /\ asked[p].at = "verify" /\ Become(p, Quiet)
      /\ links' = [links EXCEPT ![asked[p].link].at = "used"]
      /\ account' = [account EXCEPT !.verified = TRUE]
      /\ UNCHANGED <<time, resets, sessions, passwords, uses>>
  BY DEF Verify
<1>2. account \in Account /\ links \in [Links -> Link] /\ passwords \in Nat
  BY DEF TypeOK
<1>3. account' \in Account /\ account'.renewed = account.renewed
  BY <1>1, <1>2 DEF Account
<1>4. links' \in [Links -> Link]
  BY <1>1, <1>2 DEF Link
<1> QED
  BY <1>1, <1>2, <1>3, <1>4, QuietStep, WriteStep

LEMMA SetPasswordStep ==
    ASSUME SignInAssumption, IndInv, NEW p \in Callers, SetPassword(p), mix' = mix
    PROVE  IndInv'
<1> USE DEF IndInv
<1>1. /\ asked[p].at = "set" /\ NewPassword /\ Become(p, Quiet)
      /\ account' = [account EXCEPT !.password = passwords', !.verified = FALSE]
      /\ \E l \in Links : links' = [links EXCEPT ![l] = Issue(time)]
      /\ UNCHANGED <<time, resets, sessions, uses>>
  BY DEF SetPassword
<1>2. account \in Account /\ passwords' \in Nat
  BY <1>1 DEF TypeOK, NewPassword
<1>3. account' \in Account /\ account'.renewed = account.renewed
  BY <1>1, <1>2 DEF Account
<1>4. links' \in [Links -> Link]
  BY <1>1, LinkIssued
<1> QED
  BY <1>1, <1>2, <1>3, <1>4, QuietStep, WriteStep

LEMMA GoogleBindsStep ==
    ASSUME SignInAssumption, IndInv, NEW p \in Callers, GoogleBinds(p), mix' = mix
    PROVE  IndInv'
<1> USE DEF IndInv
<1> DEFINE r == [asked[p] EXCEPT !.at = "signed"]
<1>1. /\ asked[p].at = "bind" /\ (Become(p, Quiet) \/ Become(p, r))
      /\ UNCHANGED <<time, links, resets, sessions, passwords, uses>>
  BY DEF GoogleBinds
<1>2. /\ asked[p] \in Request /\ account \in Account /\ links \in [Links -> Link]
      /\ passwords \in Nat
  BY DEF TypeOK
<1>3. account' \in Account /\ (account'.renewed = account.renewed \/ account'.renewed = 0)
  <2>1. \/ account' = account
        \/ account' = [NoAccount EXCEPT !.row = "active", !.verified = TRUE, !.google = TRUE]
        \/ account' = [account EXCEPT !.google = TRUE]
    BY DEF GoogleBinds
  <2>2. CASE account' = account
    BY <1>2, <2>2
  <2>3. CASE account' = [NoAccount EXCEPT !.row = "active", !.verified = TRUE, !.google = TRUE]
    BY <2>3 DEF Account, NoAccount, NoPassword
  <2>4. CASE account' = [account EXCEPT !.google = TRUE]
    BY <1>2, <2>4 DEF Account
  <2> QED
    BY <2>1, <2>2, <2>3, <2>4
<1>4. r \in Request /\ r.at = "signed"
  BY <1>2 DEF Request
<1> HIDE DEF r
<1>5. /\ asked' \in [Callers -> Request] /\ asked'[p].at \in {"idle", "signed"}
      /\ \A q \in Callers \ {p} : asked'[q] = asked[q]
  BY <1>1, <1>4, QuietStep, BecomeRequest
<1> QED
  BY <1>1, <1>2, <1>3, <1>5, WriteStep

-----------------------------------------------------------------------------
(* Links held, and passwords written.                                         *)

LEMMA ReadLinkStep ==
    ASSUME SignInAssumption, IndInv, NEW p \in Callers, NEW l \in Links, ReadLink(p, l), mix' = mix
    PROVE  IndInv'
<1> USE DEF IndInv
<1> DEFINE r == [Quiet EXCEPT !.at = "verify", !.link = l]
<1>1. /\ asked[p].at = "idle" /\ Become(p, r)
      /\ UNCHANGED <<time, account, links, resets, sessions, passwords, uses>>
  BY FirstRecords DEF ReadLink, Start
<1>2. r \in Request /\ r.at = "verify"
  BY FirstRecords DEF Request
<1> HIDE DEF r
<1>3. /\ asked' \in [Callers -> Request] /\ asked'[p].at = "verify"
      /\ \A q \in Callers \ {p} : asked'[q] = asked[q]
  BY <1>1, <1>2, BecomeRequest
<1> QED
  BY <1>1, <1>3, WriteStep DEF TypeOK

LEMMA ReadPasswordStep ==
    ASSUME SignInAssumption, IndInv, NEW p \in Callers, NEW s \in Sessions, ReadPassword(p, s), mix' = mix
    PROVE  IndInv'
<1> USE DEF IndInv
<1> DEFINE r == [Quiet EXCEPT !.at = "change", !.session = s]
<1>1. /\ asked[p].at = "idle" /\ Become(p, r)
      /\ UNCHANGED <<time, account, links, resets, sessions, passwords, uses>>
  BY FirstRecords DEF ReadPassword, Start
<1>2. r \in Request /\ r.at = "change"
  BY FirstRecords DEF Request
<1> HIDE DEF r
<1>3. /\ asked' \in [Callers -> Request] /\ asked'[p].at = "change"
      /\ \A q \in Callers \ {p} : asked'[q] = asked[q]
  BY <1>1, <1>2, BecomeRequest
<1> QED
  BY <1>1, <1>3, WriteStep DEF TypeOK

LEMMA ReadResetStep ==
    ASSUME SignInAssumption, IndInv, NEW p \in Callers, NEW l \in Resets, ReadReset(p, l), mix' = mix
    PROVE  IndInv'
<1> USE DEF IndInv
<1> DEFINE r == [Quiet EXCEPT !.at = "reset", !.link = l]
<1>1. /\ asked[p].at = "idle" /\ Become(p, r)
      /\ UNCHANGED <<time, account, links, resets, sessions, passwords, uses>>
  BY FirstRecords DEF ReadReset, Start
<1>2. r \in Request /\ r.at = "reset" /\ r.link = l
  BY FirstRecords DEF Request
<1> HIDE DEF r
<1>3. /\ asked' \in [Callers -> Request] /\ asked'[p].at = "reset" /\ asked'[p].link = l
      /\ \A q \in Callers \ {p} : asked'[q] = asked[q]
  BY <1>1, <1>2, BecomeRequest
<1>4. /\ resets[l].at = "out"
      /\ \A q \in Callers : asked[q].at = "reset" => asked[q].link # l
  BY DEF ReadReset, Running, LockedLink
<1>5. TypeOK'
  BY <1>1, <1>3 DEF TypeOK
<1>6. HeldAlone'
  BY <1>1, <1>3, <1>4 DEF HeldAlone
<1>7. UsedIsUsed' /\ LinksWorkOnce'
  BY <1>1 DEF UsedIsUsed, LinksWorkOnce
<1>8. OldSessionsEnd'
  BY <1>1, <1>3, <1>5, SessionsKept
<1> QED
  BY <1>5, <1>6, <1>7, <1>8

LEMMA WrittenRequest ==
    ASSUME TypeOK, NEW p \in Callers, Become(p, Written(p))
    PROVE  /\ asked' \in [Callers -> Request] /\ asked'[p].at = "revoke"
           /\ \A q \in Callers \ {p} : asked'[q] = asked[q]
<1>1. asked[p] \in Request
  BY DEF TypeOK
<1>2. Written(p) \in Request /\ Written(p).at = "revoke"
  BY <1>1 DEF Written, Request
<1> QED
  BY <1>2, BecomeRequest

LEMMA NewPasswordOf ==
    ASSUME TypeOK, NewPassword, account' = [account EXCEPT !.password = passwords', !.renewed = passwords']
    PROVE  passwords' \in Nat /\ account' \in Account
<1>1. passwords' \in Nat /\ account \in Account
  BY DEF TypeOK, NewPassword
<1> QED
  BY <1>1 DEF Account

LEMMA ResetStep ==
    ASSUME SignInAssumption, IndInv, NEW p \in Callers, Reset(p), mix' = mix
    PROVE  IndInv'
<1> USE DEF IndInv
<1> DEFINE r == asked[p].link
<1>1. /\ asked[p].at = "reset" /\ NewPassword /\ Become(p, Written(p))
      /\ resets' = [resets EXCEPT ![r].at = "used"] /\ uses' = [uses EXCEPT ![r] = @ + 1]
      /\ account' = [account EXCEPT !.password = passwords', !.renewed = passwords']
      /\ UNCHANGED <<time, links, sessions>>
  BY DEF Reset
<1>2. /\ r \in Resets /\ resets[r].at = "out" /\ uses[r] = 0
      /\ \A q \in Callers \ {p} : asked[q].at = "reset" => asked[q].link # r
  BY <1>1 DEF HeldAlone, UsedIsUsed
<1>3. /\ resets \in [Resets -> Link] /\ uses \in [Resets -> Nat]
  BY DEF TypeOK
<1>4. /\ resets' \in [Resets -> Link] /\ uses' \in [Resets -> Nat]
      /\ resets'[r].at = "used" /\ uses'[r] = 1
      /\ \A l \in Resets \ {r} : resets'[l] = resets[l] /\ uses'[l] = uses[l]
  BY <1>1, <1>2, <1>3 DEF Link
<1>5. /\ asked' \in [Callers -> Request] /\ asked'[p].at = "revoke"
      /\ \A q \in Callers \ {p} : asked'[q] = asked[q]
  BY <1>1, WrittenRequest
<1>6. TypeOK'
  BY <1>1, <1>4, <1>5, NewPasswordOf DEF TypeOK
<1> HIDE DEF r
<1>7. HeldAlone'
  BY <1>2, <1>4, <1>5 DEF HeldAlone
<1>8. UsedIsUsed' /\ LinksWorkOnce'
  BY <1>2, <1>4 DEF UsedIsUsed, LinksWorkOnce
<1>9. OldSessionsEnd'
  BY <1>5 DEF OldSessionsEnd
<1> QED
  BY <1>6, <1>7, <1>8, <1>9

LEMMA ChangeStep ==
    ASSUME SignInAssumption, IndInv, NEW p \in Callers, Change(p), mix' = mix
    PROVE  IndInv'
<1> USE DEF IndInv
<1>1. /\ asked[p].at = "change" /\ NewPassword /\ Become(p, Written(p))
      /\ account' = [account EXCEPT !.password = passwords', !.renewed = passwords']
      /\ UNCHANGED <<time, links, resets, sessions, uses>>
  BY DEF Change
<1>2. /\ asked' \in [Callers -> Request] /\ asked'[p].at = "revoke"
      /\ \A q \in Callers \ {p} : asked'[q] = asked[q]
  BY <1>1, WrittenRequest
<1>3. TypeOK'
  BY <1>1, <1>2, NewPasswordOf DEF TypeOK
<1>4. HeldAlone' /\ UsedIsUsed' /\ LinksWorkOnce'
  BY <1>1, <1>2, LinksKept
<1>5. OldSessionsEnd'
  BY <1>2 DEF OldSessionsEnd
<1> QED
  BY <1>3, <1>4, <1>5

-----------------------------------------------------------------------------
(* Sessions opened and ended.                                                 *)

LEMMA OpenStep ==
    ASSUME SignInAssumption, IndInv, NEW p \in Callers, NEW f \in BOOLEAN, Open(p, f),
           asked[p].at \in {"login", "signed"}, Become(p, Quiet),
           UNCHANGED <<time, account, links, resets, passwords, uses, mix>>
    PROVE  IndInv'
<1> USE DEF IndInv
<1> DEFINE late == asked[p].seen.renewed # account.renewed /\ \A q \in Callers : asked[q].at # "revoke"
           n == [at |-> "live", restricted |-> f, since |-> asked[p].seen.renewed, excused |-> late]
<1>1. PICK s \in Sessions : sessions' = [sessions EXCEPT ![s] = n]
  BY DEF Open
<1>2. asked[p].seen.renewed \in Nat
  <2>1. asked[p] \in Request
    BY DEF TypeOK
  <2> QED
    BY <2>1 DEF Request, Account
<1>3. n \in Session /\ (n.excused <=> late) /\ n.since = asked[p].seen.renewed
  <2>1. late \in BOOLEAN
    OBVIOUS
  <2> HIDE DEF late
  <2> QED
    BY <1>2, <2>1 DEF Session
<1>4. \/ n.excused \/ n.since = account.renewed
      \/ \E q \in Callers : asked[q].at = "revoke"
  BY <1>3
<1> HIDE DEF n, late
<1>5. sessions' \in [Sessions -> Session]
  BY <1>1, <1>3 DEF TypeOK
<1>6. TypeOK'
  BY <1>5, QuietStep DEF TypeOK
<1>7. HeldAlone' /\ UsedIsUsed' /\ LinksWorkOnce'
  BY QuietStep, LinksKept
\* A revocation under way is still to come.
<1>8. CASE \E q \in Callers : asked[q].at = "revoke"
  <2>1. \E q \in Callers : asked'[q].at = "revoke"
    BY <1>8, QuietStep
  <2>2. OldSessionsEnd'
    BY <2>1 DEF OldSessionsEnd
  <2> QED
    BY <1>6, <1>7, <2>2
<1>9. CASE n.excused \/ n.since = account.renewed
  <2>1. \A t \in Sessions : \/ sessions'[t] = sessions[t] \/ sessions'[t].excused
                            \/ sessions'[t].since = account.renewed
    BY <1>1, <1>9 DEF TypeOK
  <2>2. OldSessionsEnd'
    BY <1>6, <2>1, QuietStep, SessionsKept
  <2> QED
    BY <1>6, <1>7, <2>2
<1> QED
  BY <1>4, <1>8, <1>9

LEMMA RevokeAllStep ==
    ASSUME SignInAssumption, IndInv, NEW p \in Callers, RevokeAll(p), mix' = mix
    PROVE  IndInv'
<1> USE DEF IndInv
<1>1. /\ Become(p, Quiet) /\ UNCHANGED <<time, account, links, resets, passwords, uses>>
      /\ sessions' = [s \in Sessions |->
                        IF s = asked[p].session THEN [sessions[s] EXCEPT !.excused = TRUE]
                        ELSE IF s \in Live THEN Ended(s) ELSE sessions[s]]
  BY DEF RevokeAll
<1>2. \A s \in Sessions : /\ sessions'[s] \in Session
                          /\ sessions'[s].at = "live" => sessions'[s].excused
  <2> TAKE s \in Sessions
  <2>1. sessions[s] \in Session
    BY DEF TypeOK
  <2> QED
    BY <1>1, <2>1, SessionRecords DEF Ended, Live
<1>3. sessions' \in [Sessions -> Session]
  BY <1>1, <1>2
<1>4. TypeOK'
  BY <1>1, <1>3, QuietStep DEF TypeOK
<1>5. HeldAlone' /\ UsedIsUsed' /\ LinksWorkOnce'
  BY <1>1, QuietStep, LinksKept
<1>6. OldSessionsEnd'
  BY <1>2 DEF OldSessionsEnd, Live
<1> QED
  BY <1>4, <1>5, <1>6

LEMMA FailStep ==
    ASSUME SignInAssumption, IndInv, NEW p \in Callers, FailSignIn(p), mix' = mix
    PROVE  IndInv'
<1> USE DEF IndInv
<1>1. Become(p, Quiet) /\ UNCHANGED <<time, account, links, resets, passwords, uses>>
  BY DEF FailSignIn
<1>2. HeldAlone' /\ UsedIsUsed' /\ LinksWorkOnce'
  BY <1>1, QuietStep, LinksKept
<1>3. CASE asked[p].at # "revoke"
  <2>1. sessions' = sessions
    BY <1>3 DEF FailSignIn
  <2> QED
    BY <1>1, <1>3, <2>1, QuietStep, WriteStep DEF TypeOK
<1>4. CASE asked[p].at = "revoke"
  <2>1. sessions' = [s \in Sessions |-> [sessions[s] EXCEPT !.excused = TRUE]]
    BY <1>4 DEF FailSignIn
  <2>2. \A s \in Sessions : sessions'[s] \in Session /\ sessions'[s].excused
    BY <2>1, SessionRecords DEF TypeOK
  <2>3. sessions' \in [Sessions -> Session]
    BY <2>1, <2>2
  <2>4. TypeOK'
    BY <1>1, <2>3, QuietStep DEF TypeOK
  <2>5. OldSessionsEnd'
    BY <2>2 DEF OldSessionsEnd, Live
  <2> QED
    BY <1>2, <2>4, <2>5
<1> QED
  BY <1>3, <1>4

\* Sessions end, whatever becomes of the account and of links nobody holds.
LEMMA OverStep ==
    ASSUME IndInv, NEW S \in SUBSET Sessions, Over(S), account' \in Account,
           account'.renewed = account.renewed \/ account'.renewed = 0,
           links' \in [Links -> Link], resets' \in [Resets -> Link], time' \in Nat,
           \A r \in Resets :
              \/ resets'[r] = resets[r]
              \/ resets[r].at = "none"
              \/ /\ resets'[r].at = "used"
                 /\ \A p \in Callers : asked[p].at = "reset" => asked[p].link # r,
           UNCHANGED <<asked, passwords, uses, mix>>
    PROVE  IndInv'
<1> USE DEF IndInv
<1>1. \A s \in Sessions : /\ sessions'[s] \in Session
                          /\ sessions'[s].at = "live" => sessions'[s] = sessions[s]
  <2> TAKE s \in Sessions
  <2>1. sessions[s] \in Session
    BY DEF TypeOK
  <2> QED
    BY <2>1, SessionRecords DEF Over, Ended
<1>2. sessions' \in [Sessions -> Session]
  BY <1>1 DEF Over
<1>3. TypeOK'
  BY <1>2 DEF TypeOK
<1>4. HeldAlone' /\ UsedIsUsed' /\ LinksWorkOnce'
  BY LinksKept
<1>5. OldSessionsEnd'
  BY <1>1, <1>3, SessionsKept
<1> QED
  BY <1>3, <1>4, <1>5

LEMMA SpentLinks ==
    ASSUME NEW D, NEW T \in [D -> Link]
    PROVE  /\ Spent(T) \in [D -> Link]
           /\ \A l \in D : Spent(T)[l] = T[l] \/ Spent(T)[l].at = "used"
<1>1. Spent(T) = [l \in D |-> IF T[l].at = "out" THEN [T[l] EXCEPT !.at = "used"] ELSE T[l]]
  BY DEF Spent
<1>2. \A l \in D : [T[l] EXCEPT !.at = "used"] \in Link /\ [T[l] EXCEPT !.at = "used"].at = "used"
  BY LinkRecords
<1> QED
  BY <1>1, <1>2

LEMMA PurgeStep ==
    ASSUME SignInAssumption, IndInv, PurgeAccount, mix' = mix
    PROVE  IndInv'
<1> USE DEF IndInv
<1>1. /\ \A l \in Links \cup Resets : ~LockedLink(l)
      /\ account' = [NoAccount EXCEPT !.row = "purged"]
      /\ links' = Spent(links) /\ resets' = Spent(resets) /\ Over(Live)
      /\ UNCHANGED <<time, asked, passwords, uses>>
  BY DEF PurgeAccount
<1>2. account' \in Account /\ account'.renewed = 0
  BY <1>1 DEF Account, NoAccount, NoPassword
<1>3. /\ links' \in [Links -> Link] /\ resets' \in [Resets -> Link]
      /\ \A r \in Resets : resets'[r] = resets[r] \/ resets'[r].at = "used"
  BY <1>1, SpentLinks DEF TypeOK
<1>4. \A r \in Resets : \A p \in Callers : asked[p].at = "reset" => asked[p].link # r
  BY <1>1 DEF LockedLink
<1>5. Live \in SUBSET Sessions /\ time' \in Nat
  BY <1>1 DEF Live, TypeOK
<1> QED
  BY <1>1, <1>2, <1>3, <1>4, <1>5, OverStep

LEMMA EndingStep ==
    ASSUME SignInAssumption, IndInv, mix' = mix,
           (\E s \in Sessions : EndOne(s)) \/ RevokeEvery \/ DeleteRefused \/ Deactivate \/ Reactivate
    PROVE  IndInv'
<1> USE DEF IndInv
<1>1. /\ \E S \in SUBSET Sessions : Over(S)
      /\ UNCHANGED <<time, links, resets, asked, passwords, uses>>
  BY DEF EndOne, RevokeEvery, DeleteRefused, Deactivate, Reactivate, Live
<1>2. account' = account \/ \E w \in {"active", "deactivated"} : account' = [account EXCEPT !.row = w]
  BY DEF EndOne, RevokeEvery, DeleteRefused, Deactivate, Reactivate
<1>3. account \in Account
  BY DEF TypeOK
<1>4. account' \in Account /\ account'.renewed = account.renewed
  <2>1. CASE account' = account
    BY <1>3, <2>1
  <2>2. ASSUME NEW w \in {"active", "deactivated"}, account' = [account EXCEPT !.row = w]
        PROVE  account' \in Account /\ account'.renewed = account.renewed
    BY <1>3, <2>2 DEF Account
  <2> QED
    BY <1>2, <2>1, <2>2
<1> QED
  BY <1>1, <1>4, OverStep DEF TypeOK

\* A declaration, a link to reset asked for, and time.
LEMMA OtherStep ==
    ASSUME SignInAssumption, IndInv, mix' = mix, Declare \/ (\E p \in Callers : Forgot(p)) \/ Pass
    PROVE  IndInv'
<1> USE DEF IndInv
<1>1. UNCHANGED <<links, sessions, asked, passwords, uses>>
  BY DEF Declare, Forgot, Pass
<1>2. account \in Account /\ time \in Nat /\ resets \in [Resets -> Link]
  BY DEF TypeOK
<1>3. account' \in Account /\ account'.renewed = account.renewed
  <2>1. \/ account' = account
        \/ \E g \in {"terms", "full"} : account' = [account EXCEPT !.gate = g]
    BY DEF Declare, Forgot, Pass
  <2>2. ASSUME NEW g \in {"terms", "full"}, account' = [account EXCEPT !.gate = g]
        PROVE  account' \in Account /\ account'.renewed = account.renewed
    BY <1>2, <2>2 DEF Account
  <2> QED
    BY <1>2, <2>1, <2>2
<1>4. time' \in Nat
  BY <1>2 DEF Declare, Forgot, Pass
<1>5. /\ resets' \in [Resets -> Link]
      /\ \A r \in Resets : resets'[r] = resets[r] \/ resets[r].at = "none"
  <2>1. CASE resets' = resets
    BY <1>2, <2>1
  <2>2. ASSUME NEW r \in Resets, resets[r] = NoLink, resets' = [resets EXCEPT ![r] = Issue(time)]
        PROVE  /\ resets' \in [Resets -> Link]
               /\ \A l \in Resets : resets'[l] = resets[l] \/ resets[l].at = "none"
    <3>1. Issue(time) \in Link /\ NoLink.at = "none"
      BY <1>2 DEF Issue, Link, NoLink
    <3> QED
      BY <1>2, <2>2, <3>1
  <2>3. resets' = resets \/ \E r \in Resets : resets[r] = NoLink /\ resets' = [resets EXCEPT ![r] = Issue(time)]
    BY DEF Declare, Forgot, Pass
  <2> QED
    BY <2>1, <2>2, <2>3
<1>6. TypeOK'
  BY <1>1, <1>3, <1>4, <1>5 DEF TypeOK
<1>7. HeldAlone' /\ UsedIsUsed' /\ LinksWorkOnce'
  BY <1>1, <1>5, LinksKept
<1>8. OldSessionsEnd'
  BY <1>1, <1>3, <1>6, SessionsKept
<1> QED
  BY <1>6, <1>7, <1>8

-----------------------------------------------------------------------------
LEMMA SignInStart == ASSUME SignInAssumption, SignInInit PROVE IndInv
<1>1. TypeOK
  BY FirstRecords DEF SignInInit, SignInAssumption, TypeOK, Account
<1>2. HeldAlone /\ UsedIsUsed /\ LinksWorkOnce
  BY FirstRecords DEF SignInInit, HeldAlone, UsedIsUsed, LinksWorkOnce
<1>3. OldSessionsEnd
  BY DEF SignInInit, OldSessionsEnd, Live, NoSession
<1> QED
  BY <1>1, <1>2, <1>3 DEF IndInv

LEMMA SignInStep == ASSUME SignInAssumption, IndInv, [SignInNext]_signInVars PROVE IndInv'
<1>1. CASE UNCHANGED signInVars
  <2>1. UNCHANGED <<time, account, links, resets, sessions, asked, passwords, uses, mix>>
    BY <1>1 DEF signInVars
  <2>2. TypeOK' /\ HeldAlone' /\ UsedIsUsed' /\ LinksWorkOnce' /\ OldSessionsEnd'
    BY <2>1 DEF IndInv, TypeOK, HeldAlone, UsedIsUsed, LinksWorkOnce, OldSessionsEnd, Live
  <2> QED
    BY <2>2 DEF IndInv
<1>2. ASSUME NEW p \in Callers, mix' = mix,
             \/ Register(p) \/ CreateAccount(p) \/ AskLink(p) \/ ReadLinks(p) \/ IssueLink(p)
             \/ Login(p) \/ OpenSession(p) \/ GoogleReads(p) \/ GoogleBinds(p) \/ GoogleOpens(p)
             \/ Verify(p) \/ Reset(p) \/ Change(p) \/ RevokeAll(p) \/ SetPassword(p) \/ FailSignIn(p)
             \/ \E l \in Links : ReadLink(p, l)
             \/ \E r \in Resets : ReadReset(p, r)
             \/ \E s \in Live : ReadPassword(p, s) \/ ReadNoPassword(p, s)
      PROVE  IndInv'
  <2>1. CASE \/ Register(p) \/ AskLink(p) \/ Login(p) \/ GoogleReads(p)
             \/ \E s \in Live : ReadNoPassword(p, s)
    BY <1>2, <2>1, ReadOnly
  <2>2. CASE OpenSession(p) \/ GoogleOpens(p)
    <3>1. /\ Open(p, asked[p].seen.row = "deactivated") /\ asked[p].at \in {"login", "signed"}
          /\ Become(p, Quiet) /\ UNCHANGED <<time, account, links, resets, passwords, uses>>
      BY <2>2 DEF OpenSession, GoogleOpens
    <3> QED
      BY <1>2, <3>1, OpenStep
  <2>3. CASE \/ CreateAccount(p) \/ ReadLinks(p) \/ IssueLink(p) \/ GoogleBinds(p) \/ Verify(p)
             \/ SetPassword(p)
    BY <1>2, <2>3, CreateAccountStep, ReadLinksStep, IssueLinkStep, GoogleBindsStep, VerifyStep,
       SetPasswordStep
  <2>4. CASE \/ Reset(p) \/ Change(p) \/ RevokeAll(p) \/ FailSignIn(p)
             \/ \E l \in Links : ReadLink(p, l)
             \/ \E r \in Resets : ReadReset(p, r)
    BY <1>2, <2>4, ResetStep, ChangeStep, RevokeAllStep, FailStep, ReadLinkStep, ReadResetStep
  <2>5. CASE \E s \in Live : ReadPassword(p, s)
    BY <1>2, <2>5, ReadPasswordStep DEF Live
  <2> QED
    BY <1>2, <2>1, <2>2, <2>3, <2>4, <2>5
<1>3. CASE SignInNext
  <2>1. mix' = mix
    BY <1>3 DEF SignInNext
  <2>2. CASE Declare \/ (\E p \in Callers : Forgot(p)) \/ Pass
    BY <2>1, <2>2, OtherStep
  <2>3. CASE (\E s \in Sessions : EndOne(s)) \/ RevokeEvery \/ DeleteRefused \/ Deactivate \/ Reactivate
    BY <2>1, <2>3, EndingStep
  <2>4. CASE PurgeAccount
    BY <2>1, <2>4, PurgeStep
  <2> QED
    BY <1>2, <1>3, <2>1, <2>2, <2>3, <2>4 DEF SignInNext
<1> QED
  BY <1>1, <1>3

-----------------------------------------------------------------------------
\* Every row keeps its type, whatever is at work together.
THEOREM TypeCorrect == ASSUME SignInAssumption PROVE SignInSpec => []TypeOK
<1>1. SignInInit => IndInv
  BY SignInStart
<1>2. IndInv /\ [SignInNext]_signInVars => IndInv'
  BY SignInStep
<1>3. IndInv => TypeOK
  BY DEF IndInv
<1> QED
  BY <1>1, <1>2, <1>3, PTL DEF SignInSpec

\* A reset link gives one password: whoever holds its row holds it alone, and
\* deletes it with what it writes (auth/mod.rs, reset_password).
THEOREM ALinkWorksOnce == ASSUME SignInAssumption PROVE SignInSpec => []LinksWorkOnce
<1>1. SignInInit => IndInv
  BY SignInStart
<1>2. IndInv /\ [SignInNext]_signInVars => IndInv'
  BY SignInStep
<1>3. IndInv => LinksWorkOnce
  BY DEF IndInv
<1> QED
  BY <1>1, <1>2, <1>3, PTL DEF SignInSpec

\* Once its revocations have ended, no session asked for before a new password
\* is left, but those the property names (auth/mod.rs, reset_password and
\* change_password; auth/session.rs, revoke_all_sessions).
THEOREM ANewPasswordEndsOldSessions ==
    ASSUME SignInAssumption PROVE SignInSpec => []OldSessionsEnd
<1>1. SignInInit => IndInv
  BY SignInStart
<1>2. IndInv /\ [SignInNext]_signInVars => IndInv'
  BY SignInStep
<1>3. IndInv => OldSessionsEnd
  BY DEF IndInv
<1> QED
  BY <1>1, <1>2, <1>3, PTL DEF SignInSpec

-----------------------------------------------------------------------------
(* StoredObjects: the bytes that rows name are kept.                          *)

TransferRecord ==
    [op : {"none", "upload", "photo", "attachment", "event", "sweep", "no_photo", "purge"},
     at : {"idle", "body", "put", "commit", "objects", "rows", "after"},
     scope : SUBSET Events, user : Users \cup {Nil},
     key : Keys \cup {Nil}, keys : SUBSET Keys]

\* A request that has drawn a key no row names yet.
Flying(p) == transfer[p].at \in {"put", "commit"}

\* What a request holds at each place.
Formed(t) ==
    /\ t.at = "idle" => t = NoTransfer
    /\ t.at = "body" => t.op = "upload" /\ t.user = Nil /\ t.keys = {}
    /\ t.at \in {"put", "commit"} =>
          /\ t.op \in {"upload", "photo"} /\ t.key \in named
          /\ t.op = "upload" => t.user = Nil /\ t.keys = {} /\ t.scope \subseteq events
          /\ t.op = "photo" => t.user \in Users /\ t.keys \subseteq {avatar[t.user]}
    /\ t.at \in {"objects", "rows"} =>
          /\ t.op \in {"attachment", "event", "sweep", "no_photo", "purge"}
          /\ t.op \in {"attachment", "no_photo"} => t.scope = {}
          /\ t.op \in {"no_photo", "purge"} => t.user \in Users
          /\ t.op \in {"attachment", "event", "sweep"} => t.user = Nil
          /\ ~wholesale => t.op # "sweep" /\ (t.op = "purge" => t.scope = {})
    /\ t.at = "objects" => t.op # "purge"
    /\ t.at = "after" => t.op \in {"photo", "purge"}
    /\ t.keys \subseteq named
AllFormed == (\A p \in Transfers : Formed(transfer[p])) /\ pass.keys \subseteq named

\* The row of a user is locked by one request.
OneHolder ==
    \A p, q \in Transfers :
        p # q /\ transfer[p].user = transfer[q].user /\ transfer[p].user # Nil
        => transfer[p].at = "after" \/ transfer[q].at = "after"

\* The key a request has drawn is its own: no row names it, nothing is to delete it.
\* Its object is there once it is put, and is young.
KeysAreOwn ==
    \A p \in Transfers : Flying(p) =>
        /\ ~Referenced(transfer[p].key) /\ transfer[p].key \notin pass.keys
        /\ \A q \in Transfers : transfer[p].key \notin transfer[q].keys
        /\ \A q \in Transfers \ {p} : Flying(q) => transfer[q].key # transfer[p].key
        /\ transfer[p].at = "put" => transfer[p].key \notin stored
        /\ transfer[p].at = "commit" =>
              transfer[p].key \in stored /\ age[transfer[p].key] <= MinAge

\* A key is named at one place.
OnePlace ==
    \A u \in Users : avatar[u] # Nil =>
        /\ avatar[u] \in named /\ rows[avatar[u]] = Nil
        /\ \A v \in Users \ {u} : avatar[v] # avatar[u]

\* What a purge will leave behind is what its commit takes from the rows; what is
\* left behind, and what the reconciliation is about to delete, no row names.
Doomed(t) ==
    \A k \in t.keys :
        /\ t.op = "purge" /\ t.at = "rows" =>
              \/ avatar[t.user] = k
              \/ rows[k] \in t.scope \cup {Nil} /\ \A u \in Users : avatar[u] # k
        /\ t.at = "after" => ~Referenced(k)
AllDoomed ==
    /\ \A p \in Transfers : Doomed(transfer[p])
    /\ pass.at = "objects" => \A k \in pass.keys : ~Referenced(k)

\* An event being deleted gains no attachment.
EventsLocked ==
    \A p \in Transfers : transfer[p].op = "event" =>
        /\ KeysOf(transfer[p].scope) \subseteq transfer[p].keys
        /\ \A q \in Transfers : \A e \in transfer[p].scope : ~Sharing(q, e)
\* The objects of rows about to go are gone.
ObjectsGone ==
    \A p \in Transfers : transfer[p].at = "rows" /\ transfer[p].op # "purge" =>
        transfer[p].keys \cap stored = {}

ObjectsInv ==
    /\ ObjectsTypeOK /\ AllFormed /\ OneHolder /\ KeysAreOwn /\ OnePlace /\ AllDoomed
    /\ EventsLocked /\ ObjectsGone /\ NoBytesLost
-----------------------------------------------------------------------------
LEMMA BecomeTransfer ==
    ASSUME ObjectsTypeOK, NEW p \in Transfers, NEW r, Set(p, r)
    PROVE  /\ transfer'[p] = r
           /\ \A q \in Transfers : q # p => transfer'[q] = transfer[q]
           /\ r \in TransferRecord => transfer' \in [Transfers -> TransferRecord]
  BY DEF ObjectsTypeOK, Set, TransferRecord

LEMMA TransferFields ==
    ASSUME ObjectsAssumption
    PROVE  /\ NoTransfer \in TransferRecord
           /\ NoTransfer.op = "none" /\ NoTransfer.at = "idle" /\ NoTransfer.scope = {}
           /\ NoTransfer.user = Nil /\ NoTransfer.key = Nil /\ NoTransfer.keys = {}
  BY DEF NoTransfer, TransferRecord

\* A request is over: the others are as they were.
Finished(p) ==
    /\ transfer' \in [Transfers -> TransferRecord] /\ transfer'[p] = NoTransfer
    /\ \A q \in Transfers : q # p => transfer'[q] = transfer[q]
    /\ \A q \in Transfers : transfer'[q].at # "idle" \/ transfer'[q].op # "none"
                            => q # p /\ transfer'[q] = transfer[q]
    /\ \A q \in Transfers : transfer'[q].keys \subseteq transfer[q].keys
    /\ \A q \in Transfers : Flying(q)' => q # p /\ Flying(q) /\ transfer'[q] = transfer[q]
    /\ \A q \in Transfers : \A e : Sharing(q, e)' => Sharing(q, e)

LEMMA OverLeaves ==
    ASSUME ObjectsAssumption, ObjectsTypeOK, NEW p \in Transfers, Set(p, NoTransfer) PROVE Finished(p)
<1>1. /\ transfer' \in [Transfers -> TransferRecord]
      /\ transfer'[p] = NoTransfer
      /\ \A q \in Transfers : q # p => transfer'[q] = transfer[q]
  BY BecomeTransfer, TransferFields
<1>2. \A q \in Transfers : transfer'[q].at # "idle" \/ transfer'[q].op # "none"
                           => q # p /\ transfer'[q] = transfer[q]
  BY <1>1, TransferFields
<1>3. \A q \in Transfers : transfer'[q].keys \subseteq transfer[q].keys
  BY <1>1, TransferFields
<1>4. \A q \in Transfers : Flying(q)' => q # p /\ Flying(q) /\ transfer'[q] = transfer[q]
  BY <1>2 DEF Flying
<1>5. \A q \in Transfers : \A e : Sharing(q, e)' => Sharing(q, e)
  BY <1>2 DEF Sharing
<1> QED
  BY <1>1, <1>2, <1>3, <1>4, <1>5 DEF Finished

\* A request goes on, with what it holds, and draws no key.
Moved(p, a) ==
    /\ transfer' \in [Transfers -> TransferRecord] /\ transfer'[p].at = a
    /\ \A q \in Transfers : q # p => transfer'[q] = transfer[q]
    /\ \A q \in Transfers :
          /\ transfer'[q].op = transfer[q].op /\ transfer'[q].scope = transfer[q].scope
          /\ transfer'[q].user = transfer[q].user
          /\ transfer'[q].key = transfer[q].key /\ transfer'[q].keys = transfer[q].keys
    /\ \A q \in Transfers : Flying(q)' => Flying(q)
    /\ \A q \in Transfers : \A e : Sharing(q, e)' => Sharing(q, e)

LEMMA MoveLeaves ==
    ASSUME ObjectsTypeOK, NEW p \in Transfers, NEW a, To(p, a),
           a \in {"commit", "rows", "after"}, a = "commit" => Flying(p)
    PROVE  Moved(p, a)
<1>1. [transfer[p] EXCEPT !.at = a] \in TransferRecord
  BY DEF ObjectsTypeOK, TransferRecord
<1>2. /\ transfer' \in [Transfers -> TransferRecord]
      /\ transfer'[p] = [transfer[p] EXCEPT !.at = a]
      /\ \A q \in Transfers : q # p => transfer'[q] = transfer[q]
  BY <1>1, BecomeTransfer DEF To
<1>3. /\ transfer'[p].at = a
      /\ \A q \in Transfers :
            /\ transfer'[q].op = transfer[q].op /\ transfer'[q].scope = transfer[q].scope
            /\ transfer'[q].user = transfer[q].user
            /\ transfer'[q].key = transfer[q].key /\ transfer'[q].keys = transfer[q].keys
  BY <1>1, <1>2 DEF ObjectsTypeOK
<1> QED
  BY <1>2, <1>3 DEF Moved, Flying, Sharing

LEMMA EventGoneDone ==
    ASSUME ObjectsAssumption, ObjectsInv, NEW p \in Transfers, EventGone(p), UNCHANGED wholesale
    PROVE  ObjectsInv'
<1> USE DEF ObjectsInv, Finished
<1>0. Finished(p)
  BY OverLeaves DEF EventGone
<1>1. ObjectsTypeOK'
  BY <1>0 DEF EventGone, ObjectsTypeOK, TransferRecord
<1>2. AllFormed'
  BY <1>0 DEF EventGone, AllFormed, Formed, ObjectsTypeOK
<1>3. OneHolder'
  BY <1>0, TransferFields DEF EventGone, OneHolder
<1>4. KeysAreOwn'
  BY <1>0 DEF EventGone, KeysAreOwn, Referenced
<1>5. OnePlace'
  BY <1>0 DEF EventGone, OnePlace, ObjectsTypeOK, Referenced
<1>6. AllDoomed'
  BY <1>0 DEF EventGone, AllDoomed, Doomed, Referenced
<1>7. EventsLocked'
  BY <1>0 DEF EventGone, EventsLocked, KeysOf
<1>8. ObjectsGone'
  BY <1>0 DEF EventGone, ObjectsGone
<1>9. NoBytesLost'
  BY <1>0 DEF EventGone, NoBytesLost, Referenced
<1> QED
  BY <1>1, <1>2, <1>3, <1>4, <1>5, <1>6, <1>7, <1>8, <1>9

LEMMA PutFailedDone ==
    ASSUME ObjectsAssumption, ObjectsInv, NEW p \in Transfers, PutFailed(p), UNCHANGED wholesale
    PROVE  ObjectsInv'
<1> USE DEF ObjectsInv, Finished
<1>0. Finished(p)
  BY OverLeaves DEF PutFailed
<1>1. ObjectsTypeOK'
  BY <1>0 DEF PutFailed, ObjectsTypeOK, TransferRecord, AllFormed, Formed, ObjectsAssumption
<1>2. AllFormed'
  BY <1>0 DEF PutFailed, AllFormed, Formed, ObjectsTypeOK
<1>3. OneHolder'
  BY <1>0, TransferFields DEF PutFailed, OneHolder
<1>4. KeysAreOwn'
  BY <1>0 DEF PutFailed, KeysAreOwn, Flying, Referenced
<1>5. OnePlace'
  BY <1>0 DEF PutFailed, OnePlace, ObjectsTypeOK, Referenced
<1>6. AllDoomed'
  BY <1>0 DEF PutFailed, AllDoomed, Doomed, Referenced
<1>7. EventsLocked'
  BY <1>0 DEF PutFailed, EventsLocked, KeysOf
<1>8. ObjectsGone'
  BY <1>0 DEF PutFailed, ObjectsGone, KeysAreOwn, Flying
<1>9. NoBytesLost'
  BY <1>0 DEF PutFailed, NoBytesLost, Referenced
<1> QED
  BY <1>1, <1>2, <1>3, <1>4, <1>5, <1>6, <1>7, <1>8, <1>9

LEMMA CommitUploadDone ==
    ASSUME ObjectsAssumption, ObjectsInv, NEW p \in Transfers, CommitUpload(p),
           UNCHANGED wholesale
    PROVE  ObjectsInv'
<1> USE DEF ObjectsInv, Finished
<1>0. Finished(p)
  BY OverLeaves DEF CommitUpload
<1>1. ObjectsTypeOK'
  BY <1>0 DEF CommitUpload, ObjectsTypeOK, TransferRecord, AllFormed, Formed
<1>2. AllFormed'
  BY <1>0 DEF CommitUpload, AllFormed, Formed, ObjectsTypeOK
<1>3. OneHolder'
  BY <1>0, TransferFields DEF CommitUpload, OneHolder
<1>4. KeysAreOwn'
  BY <1>0 DEF CommitUpload, KeysAreOwn, Flying, Referenced
<1>5. OnePlace'
  BY <1>0 DEF CommitUpload, OnePlace, ObjectsTypeOK, KeysAreOwn, Flying, Referenced
<1>6. AllDoomed'
  BY <1>0 DEF CommitUpload, AllDoomed, Doomed, Referenced, KeysAreOwn, Flying
<1>7. EventsLocked'
  BY <1>0 DEF CommitUpload, EventsLocked, KeysOf, ObjectsTypeOK, Sharing
<1>8. ObjectsGone'
  BY <1>0 DEF CommitUpload, ObjectsGone
<1>9. NoBytesLost'
  BY <1>0 DEF CommitUpload, NoBytesLost, Referenced, KeysAreOwn, Flying
<1> QED
  BY <1>1, <1>2, <1>3, <1>4, <1>5, <1>6, <1>7, <1>8, <1>9

LEMMA DeleteObjectsFailedDone ==
    ASSUME ObjectsAssumption, ObjectsInv, NEW p \in Transfers, DeleteObjectsFailed(p),
           UNCHANGED wholesale
    PROVE  ObjectsInv'
<1> USE DEF ObjectsInv, Finished
<1>0. Finished(p)
  BY OverLeaves DEF DeleteObjectsFailed
<1>1. ObjectsTypeOK'
  BY <1>0 DEF DeleteObjectsFailed, ObjectsTypeOK, TransferRecord, AllFormed, Formed
<1>2. AllFormed'
  BY <1>0 DEF DeleteObjectsFailed, AllFormed, Formed, ObjectsTypeOK
<1>3. OneHolder'
  BY <1>0, TransferFields DEF DeleteObjectsFailed, OneHolder
<1>4. KeysAreOwn'
  BY <1>0 DEF DeleteObjectsFailed, KeysAreOwn, Referenced
<1>5. OnePlace'
  BY <1>0 DEF DeleteObjectsFailed, OnePlace, ObjectsTypeOK, Referenced
<1>6. AllDoomed'
  BY <1>0 DEF DeleteObjectsFailed, AllDoomed, Doomed, Referenced
<1>7. EventsLocked'
  BY <1>0 DEF DeleteObjectsFailed, EventsLocked, KeysOf
<1>8. ObjectsGone'
  BY <1>0 DEF DeleteObjectsFailed, ObjectsGone
<1>9. NoBytesLost'
  BY <1>0 DEF DeleteObjectsFailed, NoBytesLost, Referenced
<1> QED
  BY <1>1, <1>2, <1>3, <1>4, <1>5, <1>6, <1>7, <1>8, <1>9

LEMMA DeleteRowsDone ==
    ASSUME ObjectsAssumption, ObjectsInv, NEW p \in Transfers, DeleteRows(p),
           UNCHANGED wholesale
    PROVE  ObjectsInv'
<1> USE DEF ObjectsInv, Finished
<1>0. Finished(p)
  BY OverLeaves DEF DeleteRows
<1>a. /\ transfer[p].at = "rows" /\ events' = events \ transfer[p].scope
      /\ \A e \in transfer[p].scope \cap events : EventFree(p, e)
      /\ \A k \in Keys : rows'[k] \in {rows[k], Nil}
      /\ \A u \in Users : avatar'[u] \in {avatar[u], Nil}
      /\ \A u \in Users : u # transfer[p].user => avatar'[u] = avatar[u]
      /\ named' = named /\ stored' = stored /\ age' = age /\ pass' = pass /\ condemned' = condemned
  BY DEF DeleteRows, ObjectsTypeOK
<1>b. \A k \in Keys : Referenced(k)' => Referenced(k)
  BY <1>a DEF Referenced, ObjectsAssumption
<1>1. ObjectsTypeOK'
  BY <1>0 DEF DeleteRows, ObjectsTypeOK, TransferRecord, AllFormed, Formed, KeysOf
<1>2. AllFormed'
  <2> SUFFICES ASSUME NEW q \in Transfers PROVE Formed(transfer[q])'
    BY <1>a DEF AllFormed
  <2>1. CASE q = p
    BY <1>0, <1>a, <2>1, TransferFields DEF Formed
  <2>2. CASE q # p
    <3>1. transfer'[q] = transfer[q] /\ Formed(transfer[q])
      BY <1>0, <2>2 DEF AllFormed
    <3>2. Flying(q) /\ transfer[q].op = "upload" => transfer[q].scope \subseteq events'
      BY <1>a, <2>2, <3>1 DEF EventFree, Sharing, Formed, Flying
    <3>3. Flying(q) /\ transfer[q].op = "photo"
          => avatar'[transfer[q].user] = avatar[transfer[q].user]
      BY <1>a, <2>2, <3>1 DEF OneHolder, Formed, Flying, ObjectsAssumption
    <3> QED
      BY <1>a, <3>1, <3>2, <3>3 DEF Formed, Flying, DeleteRows
  <2> QED
    BY <2>1, <2>2
<1>3. OneHolder'
  BY <1>0, TransferFields DEF DeleteRows, OneHolder
<1>4. KeysAreOwn'
  BY <1>0, <1>a, <1>b DEF KeysAreOwn, Flying, AllFormed, Formed, ObjectsTypeOK
<1>5. OnePlace'
  BY <1>0 DEF DeleteRows, OnePlace, ObjectsTypeOK, Referenced
<1>6. AllDoomed'
  <2> SUFFICES ASSUME NEW q \in Transfers PROVE Doomed(transfer[q])'
    BY <1>a, <1>b DEF AllDoomed, ObjectsTypeOK
  <2>1. CASE q = p
    BY <1>0, <2>1 DEF Doomed
  <2>2. CASE q # p
    <3>1. transfer'[q] = transfer[q] /\ Doomed(transfer[q]) /\ Formed(transfer[q])
      BY <1>0, <2>2 DEF AllDoomed, AllFormed
    <3>2. transfer[q].op = "purge" /\ transfer[q].at = "rows"
          => avatar'[transfer[q].user] = avatar[transfer[q].user]
      BY <1>a, <2>2, <3>1 DEF OneHolder, Formed, ObjectsAssumption
    <3> QED
      BY <1>a, <1>b, <3>1, <3>2 DEF Doomed, ObjectsTypeOK, ObjectsAssumption
  <2> QED
    BY <2>1, <2>2
<1>7. EventsLocked'
  BY <1>0 DEF DeleteRows, EventsLocked, KeysOf, ObjectsTypeOK, ObjectsAssumption
<1>8. ObjectsGone'
  BY <1>0 DEF DeleteRows, ObjectsGone
<1>9. NoBytesLost'
  BY <1>a, <1>b DEF NoBytesLost
<1> QED
  BY <1>1, <1>2, <1>3, <1>4, <1>5, <1>6, <1>7, <1>8, <1>9

LEMMA DeleteLeftBehindDone ==
    ASSUME ObjectsAssumption, ObjectsInv, NEW p \in Transfers, DeleteLeftBehind(p),
           UNCHANGED wholesale
    PROVE  ObjectsInv'
<1> USE DEF ObjectsInv, Finished
<1>0. Finished(p)
  BY OverLeaves DEF DeleteLeftBehind
<1>1. ObjectsTypeOK'
  BY <1>0 DEF DeleteLeftBehind, ObjectsTypeOK, TransferRecord
<1>2. AllFormed'
  BY <1>0 DEF DeleteLeftBehind, AllFormed, Formed, ObjectsTypeOK
<1>3. OneHolder'
  BY <1>0, TransferFields DEF DeleteLeftBehind, OneHolder
<1>4. KeysAreOwn'
  BY <1>0 DEF DeleteLeftBehind, KeysAreOwn, Referenced
<1>5. OnePlace'
  BY <1>0 DEF DeleteLeftBehind, OnePlace, ObjectsTypeOK, Referenced
<1>6. AllDoomed'
  BY <1>0 DEF DeleteLeftBehind, AllDoomed, Doomed, Referenced
<1>7. EventsLocked'
  BY <1>0 DEF DeleteLeftBehind, EventsLocked, KeysOf
<1>8. ObjectsGone'
  BY <1>0 DEF DeleteLeftBehind, ObjectsGone
<1>9. NoBytesLost'
  BY <1>0 DEF DeleteLeftBehind, NoBytesLost, Referenced, AllDoomed, Doomed
<1> QED
  BY <1>1, <1>2, <1>3, <1>4, <1>5, <1>6, <1>7, <1>8, <1>9

LEMMA DieDone ==
    ASSUME ObjectsAssumption, ObjectsInv, NEW p \in Transfers, Die(p), UNCHANGED wholesale
    PROVE  ObjectsInv'
<1> USE DEF ObjectsInv, Finished
<1>0. Finished(p)
  BY OverLeaves DEF Die
<1>1. ObjectsTypeOK'
  BY <1>0 DEF Die, ObjectsTypeOK, TransferRecord
<1>2. AllFormed'
  BY <1>0 DEF Die, AllFormed, Formed, ObjectsTypeOK
<1>3. OneHolder'
  BY <1>0, TransferFields DEF Die, OneHolder
<1>4. KeysAreOwn'
  BY <1>0 DEF Die, KeysAreOwn, Referenced
<1>5. OnePlace'
  BY <1>0 DEF Die, OnePlace, ObjectsTypeOK, Referenced
<1>6. AllDoomed'
  BY <1>0 DEF Die, AllDoomed, Doomed, Referenced
<1>7. EventsLocked'
  BY <1>0 DEF Die, EventsLocked, KeysOf
<1>8. ObjectsGone'
  BY <1>0 DEF Die, ObjectsGone
<1>9. NoBytesLost'
  BY <1>0 DEF Die, NoBytesLost, Referenced
<1> QED
  BY <1>1, <1>2, <1>3, <1>4, <1>5, <1>6, <1>7, <1>8, <1>9

LEMMA PutDone ==
    ASSUME ObjectsAssumption, ObjectsInv, NEW p \in Transfers, Put(p), UNCHANGED wholesale
    PROVE  ObjectsInv'
<1> USE DEF ObjectsInv, Moved
<1>0. Moved(p, "commit")
  BY MoveLeaves DEF Put, Flying
<1>1. ObjectsTypeOK'
  BY <1>0 DEF Put, ObjectsTypeOK, TransferRecord, AllFormed, Formed, ObjectsAssumption
<1>2. AllFormed'
  BY <1>0 DEF Put, AllFormed, Formed, ObjectsTypeOK
<1>3. OneHolder'
  BY <1>0 DEF Put, OneHolder
<1>4. KeysAreOwn'
  BY <1>0
     DEF Put, KeysAreOwn, Flying, Referenced, AllFormed, Formed, ObjectsTypeOK, ObjectsAssumption
<1>5. OnePlace'
  BY <1>0 DEF Put, OnePlace, ObjectsTypeOK, Referenced
<1>6. AllDoomed'
  BY <1>0 DEF Put, AllDoomed, Doomed, Referenced
<1>7. EventsLocked'
  BY <1>0 DEF Put, EventsLocked, KeysOf
<1>8. ObjectsGone'
  BY <1>0 DEF Put, ObjectsGone, KeysAreOwn, Flying
<1>9. NoBytesLost'
  BY <1>0 DEF Put, NoBytesLost, Referenced
<1> QED
  BY <1>1, <1>2, <1>3, <1>4, <1>5, <1>6, <1>7, <1>8, <1>9

LEMMA CommitPhotoDone ==
    ASSUME ObjectsAssumption, ObjectsInv, NEW p \in Transfers, CommitPhoto(p),
           UNCHANGED wholesale
    PROVE  ObjectsInv'
<1> USE DEF ObjectsInv, Moved
<1>0. Moved(p, "after")
  BY MoveLeaves DEF CommitPhoto
<1>1. ObjectsTypeOK'
  BY <1>0 DEF CommitPhoto, ObjectsTypeOK, TransferRecord
<1>2. AllFormed'
  <2> SUFFICES ASSUME NEW q \in Transfers PROVE Formed(transfer[q])'
    BY DEF AllFormed, CommitPhoto
  <2>1. CASE q = p
    BY <1>0, <2>1 DEF Formed, CommitPhoto, AllFormed
  <2>2. CASE q # p
    <3>1. transfer'[q] = transfer[q] /\ Formed(transfer[q]) /\ Formed(transfer[p])
      BY <1>0, <2>2 DEF AllFormed
    <3>2. Flying(q) /\ transfer[q].op = "photo"
          => avatar'[transfer[q].user] = avatar[transfer[q].user]
      BY <2>2, <3>1 DEF CommitPhoto, OneHolder, Flying, ObjectsTypeOK, ObjectsAssumption
    <3> QED
      BY <3>1, <3>2 DEF Formed, Flying, CommitPhoto
  <2> QED
    BY <2>1, <2>2
<1>3. OneHolder'
  BY <1>0 DEF CommitPhoto, OneHolder
<1>4. KeysAreOwn'
  BY <1>0 DEF CommitPhoto, KeysAreOwn, Flying, Referenced
<1>5. OnePlace'
  BY <1>0 DEF CommitPhoto, OnePlace, ObjectsTypeOK, KeysAreOwn, Flying, Referenced
<1>6. AllDoomed'
  <2>1. /\ Formed(transfer[p]) /\ Flying(p) /\ transfer[p].user \in Users
        /\ avatar'[transfer[p].user] = transfer[p].key
        /\ transfer[p].at = "commit" /\ rows' = rows
        /\ \A u \in Users : u # transfer[p].user => avatar'[u] = avatar[u]
    BY DEF CommitPhoto, AllFormed, Formed, Flying, ObjectsTypeOK
  <2>2. \A k \in Keys : Referenced(k)' => Referenced(k) \/ k = transfer[p].key
    BY <2>1 DEF Referenced
  <2>3. /\ transfer[p].key \notin pass.keys
        /\ \A q \in Transfers : transfer[p].key \notin transfer[q].keys
    BY <2>1 DEF KeysAreOwn
  <2> SUFFICES ASSUME NEW q \in Transfers PROVE Doomed(transfer[q])'
    BY <2>2, <2>3 DEF AllDoomed, ObjectsTypeOK, CommitPhoto
  <2>4. CASE q = p
    <3> SUFFICES ASSUME NEW k \in transfer[p].keys PROVE ~Referenced(k)'
      BY <1>0, <2>4 DEF Doomed
    <3>1. k \in Keys /\ k = avatar[transfer[p].user] /\ k # transfer[p].key
      BY <2>1, <2>3 DEF ObjectsTypeOK, Formed, CommitPhoto
    <3>2. rows[k] = Nil /\ \A v \in Users \ {transfer[p].user} : avatar[v] # k
      BY <2>1, <3>1 DEF OnePlace, ObjectsAssumption
    <3> QED
      BY <2>1, <3>1, <3>2 DEF Referenced
  <2>5. CASE q # p
    <3>1. transfer'[q] = transfer[q] /\ Doomed(transfer[q]) /\ Formed(transfer[q])
      BY <1>0, <2>5 DEF AllDoomed, AllFormed
    <3>2. transfer[q].op = "purge" /\ transfer[q].at = "rows"
          => avatar'[transfer[q].user] = avatar[transfer[q].user]
      BY <2>1, <2>5, <3>1 DEF OneHolder, Formed, ObjectsAssumption
    <3> QED
      BY <2>1, <2>2, <2>3, <3>1, <3>2 DEF Doomed, ObjectsTypeOK
  <2> QED
    BY <2>4, <2>5
<1>7. EventsLocked'
  BY <1>0 DEF CommitPhoto, EventsLocked, KeysOf
<1>8. ObjectsGone'
  BY <1>0 DEF CommitPhoto, ObjectsGone
<1>9. NoBytesLost'
  BY <1>0 DEF CommitPhoto, NoBytesLost, Referenced, KeysAreOwn, Flying
<1> QED
  BY <1>1, <1>2, <1>3, <1>4, <1>5, <1>6, <1>7, <1>8, <1>9

LEMMA DeleteObjectsDone ==
    ASSUME ObjectsAssumption, ObjectsInv, NEW p \in Transfers, DeleteObjects(p),
           UNCHANGED wholesale
    PROVE  ObjectsInv'
<1> USE DEF ObjectsInv, Moved
<1>0. Moved(p, "rows")
  BY MoveLeaves DEF DeleteObjects
<1>1. ObjectsTypeOK'
  BY <1>0 DEF DeleteObjects, ObjectsTypeOK, TransferRecord, AllFormed, Formed
<1>2. AllFormed'
  BY <1>0 DEF DeleteObjects, AllFormed, Formed, ObjectsTypeOK
<1>3. OneHolder'
  BY <1>0 DEF DeleteObjects, OneHolder
<1>4. KeysAreOwn'
  BY <1>0 DEF DeleteObjects, KeysAreOwn, Referenced
<1>5. OnePlace'
  BY <1>0 DEF DeleteObjects, OnePlace, ObjectsTypeOK, Referenced
<1>6. AllDoomed'
  BY <1>0 DEF DeleteObjects, AllDoomed, Doomed, Referenced, AllFormed, Formed
<1>7. EventsLocked'
  BY <1>0 DEF DeleteObjects, EventsLocked, KeysOf
<1>8. ObjectsGone'
  BY <1>0 DEF DeleteObjects, ObjectsGone
<1>9. NoBytesLost'
  BY <1>0 DEF DeleteObjects, NoBytesLost, Referenced
<1> QED
  BY <1>1, <1>2, <1>3, <1>4, <1>5, <1>6, <1>7, <1>8, <1>9

LEMMA CommitPurgeDone ==
    ASSUME ObjectsAssumption, ObjectsInv, NEW p \in Transfers, CommitPurge(p),
           UNCHANGED wholesale
    PROVE  ObjectsInv'
<1> USE DEF ObjectsInv, Moved
<1>0. Moved(p, "after")
  BY MoveLeaves DEF CommitPurge
<1>a. /\ transfer[p].at = "rows" /\ events' = events \ transfer[p].scope
      /\ \A e \in transfer[p].scope \cap events : EventFree(p, e)
      /\ \A k \in Keys : rows'[k] \in {rows[k], Nil}
      /\ \A u \in Users : avatar'[u] \in {avatar[u], Nil}
      /\ \A u \in Users : u # transfer[p].user => avatar'[u] = avatar[u]
      /\ named' = named /\ stored' = stored /\ age' = age /\ pass' = pass /\ condemned' = condemned
  BY DEF CommitPurge, ObjectsTypeOK
<1>b. \A k \in Keys : Referenced(k)' => Referenced(k)
  BY <1>a DEF Referenced, ObjectsAssumption
<1>1. ObjectsTypeOK'
  BY <1>0 DEF CommitPurge, ObjectsTypeOK, TransferRecord, AllFormed, Formed
<1>2. AllFormed'
  <2> SUFFICES ASSUME NEW q \in Transfers PROVE Formed(transfer[q])'
    BY <1>a DEF AllFormed
  <2>1. CASE q = p
    BY <1>0, <1>a, <2>1 DEF Formed, CommitPurge, AllFormed
  <2>2. CASE q # p
    <3>1. transfer'[q] = transfer[q] /\ Formed(transfer[q])
      BY <1>0, <2>2 DEF AllFormed
    <3>2. Flying(q) /\ transfer[q].op = "upload" => transfer[q].scope \subseteq events'
      BY <1>a, <2>2, <3>1 DEF EventFree, Sharing, Formed, Flying
    <3>3. Flying(q) /\ transfer[q].op = "photo"
          => avatar'[transfer[q].user] = avatar[transfer[q].user]
      BY <1>a, <2>2, <3>1 DEF OneHolder, Formed, Flying, ObjectsAssumption
    <3> QED
      BY <1>a, <3>1, <3>2, <3>3 DEF Formed, Flying, CommitPurge
  <2> QED
    BY <2>1, <2>2
<1>3. OneHolder'
  BY <1>0 DEF CommitPurge, OneHolder
<1>4. KeysAreOwn'
  BY <1>0, <1>a, <1>b DEF KeysAreOwn, Flying, AllFormed, Formed, ObjectsTypeOK
<1>5. OnePlace'
  BY <1>0 DEF CommitPurge, OnePlace, ObjectsTypeOK, Referenced
<1>6. AllDoomed'
  BY <1>0
     DEF CommitPurge, AllDoomed, Doomed, Referenced, AllFormed, Formed, ObjectsTypeOK, OnePlace,
         ObjectsAssumption
<1>7. EventsLocked'
  BY <1>0 DEF CommitPurge, EventsLocked, KeysOf, ObjectsTypeOK, ObjectsAssumption
<1>8. ObjectsGone'
  BY <1>0 DEF CommitPurge, ObjectsGone
<1>9. NoBytesLost'
  BY <1>a, <1>b DEF NoBytesLost
<1> QED
  BY <1>1, <1>2, <1>3, <1>4, <1>5, <1>6, <1>7, <1>8, <1>9

LEMMA ListDone ==
    ASSUME ObjectsAssumption, ObjectsInv, List, UNCHANGED wholesale
    PROVE  ObjectsInv'
<1> USE DEF ObjectsInv
<1>1. ObjectsTypeOK'
  BY DEF List, ObjectsTypeOK, TransferRecord
<1>2. AllFormed'
  BY DEF List, AllFormed, Formed, ObjectsTypeOK
<1>3. OneHolder'
  BY DEF List, OneHolder
<1>4. KeysAreOwn'
  BY
     DEF List, KeysAreOwn, Flying, Referenced, ObjectsTypeOK, ObjectsAssumption, Eligible
<1>5. OnePlace'
  BY DEF List, OnePlace, ObjectsTypeOK, Referenced
<1>6. AllDoomed'
  BY DEF List, AllDoomed, Doomed, Referenced
<1>7. EventsLocked'
  BY DEF List, EventsLocked, KeysOf, Sharing
<1>8. ObjectsGone'
  BY DEF List, ObjectsGone
<1>9. NoBytesLost'
  BY DEF List, NoBytesLost, Referenced
<1> QED
  BY <1>1, <1>2, <1>3, <1>4, <1>5, <1>6, <1>7, <1>8, <1>9

LEMMA ReadKnownDone ==
    ASSUME ObjectsAssumption, ObjectsInv, ReadKnown, UNCHANGED wholesale
    PROVE  ObjectsInv'
<1> USE DEF ObjectsInv
<1>1. ObjectsTypeOK'
  BY DEF ReadKnown, ObjectsTypeOK, TransferRecord
<1>2. AllFormed'
  BY DEF ReadKnown, AllFormed, Formed, ObjectsTypeOK
<1>3. OneHolder'
  BY DEF ReadKnown, OneHolder
<1>4. KeysAreOwn'
  BY DEF ReadKnown, KeysAreOwn, Flying, Referenced
<1>5. OnePlace'
  BY DEF ReadKnown, OnePlace, ObjectsTypeOK, Referenced
<1>6. AllDoomed'
  BY DEF ReadKnown, AllDoomed, Doomed, Referenced, ObjectsTypeOK, Eligible, Known, Deleted
<1>7. EventsLocked'
  BY DEF ReadKnown, EventsLocked, KeysOf, Sharing
<1>8. ObjectsGone'
  BY DEF ReadKnown, ObjectsGone
<1>9. NoBytesLost'
  BY DEF ReadKnown, NoBytesLost, Referenced
<1> QED
  BY <1>1, <1>2, <1>3, <1>4, <1>5, <1>6, <1>7, <1>8, <1>9

LEMMA DeleteOrphansDone ==
    ASSUME ObjectsAssumption, ObjectsInv, DeleteOrphans, UNCHANGED wholesale
    PROVE  ObjectsInv'
<1> USE DEF ObjectsInv
<1>1. ObjectsTypeOK'
  BY DEF DeleteOrphans, ObjectsTypeOK, TransferRecord, Resting
<1>2. AllFormed'
  BY DEF DeleteOrphans, AllFormed, Formed, ObjectsTypeOK, Resting
<1>3. OneHolder'
  BY DEF DeleteOrphans, OneHolder
<1>4. KeysAreOwn'
  BY DEF DeleteOrphans, KeysAreOwn, Flying, Referenced, Resting, Eligible, Known, Deleted
<1>5. OnePlace'
  BY DEF DeleteOrphans, OnePlace, ObjectsTypeOK, Referenced
<1>6. AllDoomed'
  BY DEF DeleteOrphans, AllDoomed, Doomed, Referenced, Resting
<1>7. EventsLocked'
  BY DEF DeleteOrphans, EventsLocked, KeysOf, Sharing
<1>8. ObjectsGone'
  BY DEF DeleteOrphans, ObjectsGone
<1>9. NoBytesLost'
  BY DEF DeleteOrphans, NoBytesLost, Referenced, AllDoomed, Doomed, Eligible, Known, Deleted
<1> QED
  BY <1>1, <1>2, <1>3, <1>4, <1>5, <1>6, <1>7, <1>8, <1>9

LEMMA PassFailsDone ==
    ASSUME ObjectsAssumption, ObjectsInv, PassFails, UNCHANGED wholesale
    PROVE  ObjectsInv'
<1> USE DEF ObjectsInv
<1>1. ObjectsTypeOK'
  BY DEF PassFails, ObjectsTypeOK, TransferRecord, Resting
<1>2. AllFormed'
  BY DEF PassFails, AllFormed, Formed, ObjectsTypeOK, Resting
<1>3. OneHolder'
  BY DEF PassFails, OneHolder
<1>4. KeysAreOwn'
  BY DEF PassFails, KeysAreOwn, Flying, Referenced, Resting
<1>5. OnePlace'
  BY DEF PassFails, OnePlace, ObjectsTypeOK, Referenced
<1>6. AllDoomed'
  BY DEF PassFails, AllDoomed, Doomed, Referenced, Resting
<1>7. EventsLocked'
  BY DEF PassFails, EventsLocked, KeysOf, Sharing
<1>8. ObjectsGone'
  BY DEF PassFails, ObjectsGone
<1>9. NoBytesLost'
  BY DEF PassFails, NoBytesLost, Referenced, AllDoomed, Doomed
<1> QED
  BY <1>1, <1>2, <1>3, <1>4, <1>5, <1>6, <1>7, <1>8, <1>9

LEMMA GrowOldDone ==
    ASSUME ObjectsAssumption, ObjectsInv, GrowOld, UNCHANGED wholesale
    PROVE  ObjectsInv'
<1> USE DEF ObjectsInv
<1>1. ObjectsTypeOK'
  BY DEF GrowOld, ObjectsTypeOK, TransferRecord, ObjectsAssumption
<1>2. AllFormed'
  BY DEF GrowOld, AllFormed, Formed, ObjectsTypeOK
<1>3. OneHolder'
  BY DEF GrowOld, OneHolder
<1>4. KeysAreOwn'
  BY DEF GrowOld, KeysAreOwn, Flying, Referenced, ObjectsTypeOK, ObjectsAssumption
<1>5. OnePlace'
  BY DEF GrowOld, OnePlace, ObjectsTypeOK, Referenced
<1>6. AllDoomed'
  BY DEF GrowOld, AllDoomed, Doomed, Referenced
<1>7. EventsLocked'
  BY DEF GrowOld, EventsLocked, KeysOf, Sharing
<1>8. ObjectsGone'
  BY DEF GrowOld, ObjectsGone
<1>9. NoBytesLost'
  BY DEF GrowOld, NoBytesLost, Referenced
<1> QED
  BY <1>1, <1>2, <1>3, <1>4, <1>5, <1>6, <1>7, <1>8, <1>9

\* A request starts: it draws no key, and is to delete keys that rows name.
LEMMA StartDone ==
    ASSUME ObjectsAssumption, ObjectsInv, NEW p \in Transfers, NEW r \in TransferRecord,
           transfer[p] = NoTransfer, Set(p, r), UNCHANGED wholesale,
           UNCHANGED <<events, rows, avatar, purged, stored, age, named, pass, condemned>>,
           r.at \in {"body", "objects", "rows"}, Formed(r), Doomed(r),
           \A k \in r.keys : Referenced(k),
           r.user # Nil => UserFree(p, r.user),
           r.at = "rows" => r.op = "purge",
           r.op = "event" => /\ KeysOf(r.scope) \subseteq r.keys
                             /\ \A q \in Transfers : \A e \in r.scope : q # p => ~Sharing(q, e)
    PROVE  ObjectsInv'
<1> USE DEF ObjectsInv
<1>1. /\ transfer' \in [Transfers -> TransferRecord] /\ transfer'[p] = r
      /\ \A q \in Transfers : q # p => transfer'[q] = transfer[q]
  BY BecomeTransfer
<1>2. \A q \in Transfers : Flying(q)' => q # p /\ Flying(q)
  BY <1>1 DEF Flying
<1>3. \A q \in Transfers : \A e : Sharing(q, e)' => q # p /\ Sharing(q, e)
  BY <1>1 DEF Sharing
<1>4. ObjectsTypeOK'
  BY <1>1 DEF ObjectsTypeOK, TransferRecord
<1>5. AllFormed'
  BY <1>1 DEF AllFormed, Formed
<1>6. OneHolder'
  BY <1>1, TransferFields DEF OneHolder, UserFree, AllFormed, Formed
<1>7. KeysAreOwn'
  BY <1>1, <1>2 DEF KeysAreOwn, Referenced, Flying
<1>8. AllDoomed'
  BY <1>1 DEF AllDoomed, Doomed, Referenced
<1>9. EventsLocked'
  BY <1>1, <1>3 DEF EventsLocked, KeysOf
<1>10. ObjectsGone'
  BY <1>1 DEF ObjectsGone
<1> QED
  BY <1>4, <1>5, <1>6, <1>7, <1>8, <1>9, <1>10 DEF OnePlace, NoBytesLost, Referenced

LEMMA Readable ==
    ASSUME ObjectsAssumption, ObjectsInv
    PROVE  /\ \A S : KeysOf(S) \subseteq Keys
           /\ \A S \in SUBSET Events : \A k \in KeysOf(S) :
                 rows[k] # Nil /\ Referenced(k) /\ k \in named
           /\ \A u \in Users : \A k \in {avatar[u]} \ {Nil} :
                 Referenced(k) /\ k \in named /\ k \in Keys
  BY DEF KeysOf, Referenced, ObjectsInv, ObjectsTypeOK, OnePlace,
         ObjectsAssumption

LEMMA StartUploadDone ==
    ASSUME ObjectsAssumption, ObjectsInv, NEW p \in Transfers, NEW e \in Events,
           StartUpload(p, e), UNCHANGED wholesale
    PROVE  ObjectsInv'
<1> DEFINE r == [NoTransfer EXCEPT !.op = "upload", !.at = "body", !.scope = {e}]
<1>1. /\ r.op = "upload" /\ r.at = "body" /\ r.scope = {e} /\ r.user = Nil
      /\ r.keys = {}
  BY DEF NoTransfer
<1>2. r \in TransferRecord
  BY TransferFields, Readable
     DEF StartUpload, TransferRecord, ObjectsAssumption, ObjectsInv, ObjectsTypeOK
<1>3. transfer[p] = NoTransfer /\ Set(p, r)
  BY DEF StartUpload
<1> HIDE DEF r
<1>4. \A k \in r.keys : Referenced(k) /\ k \in named
  BY <1>1, Readable DEF StartUpload, Referenced, ObjectsAssumption, ObjectsInv, ObjectsTypeOK
<1>5. Formed(r) /\ Doomed(r)
  BY <1>1, <1>4, Readable
     DEF StartUpload, Formed, Doomed, ObjectsInv, AllFormed, KeysOf, OnePlace, ObjectsAssumption
<1> QED
  BY <1>1, <1>2, <1>3, <1>4, <1>5, StartDone DEF StartUpload, EventFree

LEMMA ReadAttachmentDone ==
    ASSUME ObjectsAssumption, ObjectsInv, NEW p \in Transfers, NEW k \in Keys,
           ReadAttachment(p, k), UNCHANGED wholesale
    PROVE  ObjectsInv'
<1> DEFINE r == [NoTransfer EXCEPT !.op = "attachment", !.at = "objects", !.keys = {k}]
<1>1. /\ r.op = "attachment" /\ r.at = "objects" /\ r.scope = {} /\ r.user = Nil
      /\ r.keys = {k}
  BY DEF NoTransfer
<1>2. r \in TransferRecord
  BY TransferFields DEF TransferRecord
<1>3. transfer[p] = NoTransfer /\ Set(p, r)
  BY DEF ReadAttachment
<1> HIDE DEF r
<1>4. \A j \in r.keys : Referenced(j) /\ j \in named
  BY <1>1, Readable DEF ReadAttachment, Referenced, ObjectsAssumption, ObjectsInv, ObjectsTypeOK
<1>5. Formed(r) /\ Doomed(r)
  BY <1>1, <1>4, Readable
     DEF ReadAttachment, Formed, Doomed, ObjectsInv, AllFormed, KeysOf, OnePlace, ObjectsAssumption
<1> QED
  BY <1>1, <1>2, <1>3, <1>4, <1>5, StartDone DEF ReadAttachment, EventFree

LEMMA LockEventDone ==
    ASSUME ObjectsAssumption, ObjectsInv, NEW p \in Transfers, NEW e \in Events,
           LockEvent(p, e), UNCHANGED wholesale
    PROVE  ObjectsInv'
<1> DEFINE r == [NoTransfer EXCEPT !.op = "event", !.at = "objects", !.scope = {e},
                    !.keys = KeysOf({e})]
<1>1. /\ r.op = "event" /\ r.at = "objects" /\ r.scope = {e} /\ r.user = Nil
      /\ r.keys = KeysOf({e})
  BY DEF NoTransfer
<1>2. r \in TransferRecord
  BY TransferFields, Readable
     DEF LockEvent, TransferRecord, ObjectsAssumption, ObjectsInv, ObjectsTypeOK
<1>3. transfer[p] = NoTransfer /\ Set(p, r)
  BY DEF LockEvent
<1> HIDE DEF r
<1>4. \A k \in r.keys : Referenced(k) /\ k \in named
  BY <1>1, Readable DEF LockEvent, Referenced, ObjectsAssumption, ObjectsInv, ObjectsTypeOK
<1>5. Formed(r) /\ Doomed(r)
  BY <1>1, <1>4, Readable
     DEF LockEvent, Formed, Doomed, ObjectsInv, AllFormed, KeysOf, OnePlace, ObjectsAssumption
<1> QED
  BY <1>1, <1>2, <1>3, <1>4, <1>5, StartDone DEF LockEvent, EventFree

LEMMA ReadSweepDone ==
    ASSUME ObjectsAssumption, ObjectsInv, NEW p \in Transfers, NEW S \in Sweeps,
           ReadSweep(p, S), UNCHANGED wholesale
    PROVE  ObjectsInv'
<1>0. S \in SUBSET Events
  BY DEF ObjectsAssumption
<1> DEFINE r == [NoTransfer EXCEPT !.op = "sweep", !.at = "objects", !.scope = S,
                    !.keys = KeysOf(S)]
<1>1. /\ r.op = "sweep" /\ r.at = "objects" /\ r.scope = S /\ r.user = Nil
      /\ r.keys = KeysOf(S)
  BY DEF NoTransfer
<1>2. r \in TransferRecord
  BY TransferFields, Readable
     DEF ReadSweep, TransferRecord, ObjectsAssumption, ObjectsInv, ObjectsTypeOK
<1>3. transfer[p] = NoTransfer /\ Set(p, r)
  BY DEF ReadSweep
<1> HIDE DEF r
<1>4. \A k \in r.keys : Referenced(k) /\ k \in named
  BY <1>0, <1>1, Readable
<1>5. Formed(r) /\ Doomed(r)
  BY <1>1, <1>4, Readable
     DEF ReadSweep, Formed, Doomed, ObjectsInv, AllFormed, KeysOf, OnePlace, ObjectsAssumption
<1> QED
  BY <1>1, <1>2, <1>3, <1>4, <1>5, StartDone DEF ReadSweep, EventFree

LEMMA LockPhotoDone ==
    ASSUME ObjectsAssumption, ObjectsInv, NEW p \in Transfers, NEW u \in Users,
           LockPhoto(p, u), UNCHANGED wholesale
    PROVE  ObjectsInv'
<1> DEFINE r == [NoTransfer EXCEPT !.op = "no_photo", !.at = "objects", !.user = u,
                    !.keys = {avatar[u]}]
<1>1. /\ r.op = "no_photo" /\ r.at = "objects" /\ r.scope = {} /\ r.user = u
      /\ r.keys = {avatar[u]}
  BY DEF NoTransfer
<1>2. r \in TransferRecord
  BY TransferFields, Readable
     DEF LockPhoto, TransferRecord, ObjectsAssumption, ObjectsInv, ObjectsTypeOK
<1>3. transfer[p] = NoTransfer /\ Set(p, r)
  BY DEF LockPhoto
<1> HIDE DEF r
<1>4. \A k \in r.keys : Referenced(k) /\ k \in named
  BY <1>1, Readable DEF LockPhoto, Referenced, ObjectsAssumption, ObjectsInv, ObjectsTypeOK
<1>5. Formed(r) /\ Doomed(r)
  BY <1>1, <1>4, Readable
     DEF LockPhoto, Formed, Doomed, ObjectsInv, AllFormed, KeysOf, OnePlace, ObjectsAssumption
<1> QED
  BY <1>1, <1>2, <1>3, <1>4, <1>5, StartDone DEF LockPhoto, EventFree

LEMMA LockPurgeDone ==
    ASSUME ObjectsAssumption, ObjectsInv, NEW p \in Transfers, NEW u \in Users,
           NEW S \in Abandoned \cup {{}},
           LockPurge(p, u, S), UNCHANGED wholesale
    PROVE  ObjectsInv'
<1> DEFINE r == [NoTransfer EXCEPT !.op = "purge", !.at = "rows", !.user = u, !.scope = S,
                    !.keys = KeysOf(S) \cup ({avatar[u]} \ {Nil})]
<1>1. /\ r.op = "purge" /\ r.at = "rows" /\ r.scope = S /\ r.user = u
      /\ r.keys = KeysOf(S) \cup ({avatar[u]} \ {Nil})
  BY DEF NoTransfer
<1>2. r \in TransferRecord
  BY TransferFields, Readable
     DEF LockPurge, TransferRecord, ObjectsAssumption, ObjectsInv, ObjectsTypeOK
<1>3. transfer[p] = NoTransfer /\ Set(p, r)
  BY DEF LockPurge
<1> HIDE DEF r
<1>4. \A k \in r.keys : Referenced(k) /\ k \in named
  BY <1>1, Readable DEF LockPurge, Referenced, ObjectsAssumption, ObjectsInv, ObjectsTypeOK
<1>5. Formed(r) /\ Doomed(r)
  BY <1>1, <1>4, Readable
     DEF LockPurge, Formed, Doomed, ObjectsInv, AllFormed, KeysOf, OnePlace, ObjectsAssumption
<1> QED
  BY <1>1, <1>2, <1>3, <1>4, <1>5, StartDone DEF LockPurge, EventFree

\* A key is drawn: it is nobody's yet.
LEMMA KeyDrawn ==
    ASSUME ObjectsAssumption, ObjectsInv, NEW p \in Transfers, NEW k \in Keys \ named,
           named' = named \cup {k}, UNCHANGED wholesale,
           UNCHANGED <<events, rows, avatar, purged, stored, age, pass, condemned>>,
           transfer' \in [Transfers -> TransferRecord],
           \A q \in Transfers : q # p => transfer'[q] = transfer[q],
           transfer'[p].at = "put", transfer'[p].key = k,
           transfer'[p].op \in {"upload", "photo"},
           transfer'[p].op = "upload" =>
               /\ transfer'[p].user = Nil /\ transfer'[p].keys = {}
               /\ transfer'[p].scope \subseteq events,
           transfer'[p].op = "photo" =>
               /\ transfer'[p].user \in Users /\ UserFree(p, transfer'[p].user)
               /\ transfer'[p].keys = {avatar[transfer'[p].user]} \ {Nil},
           \A e \in transfer'[p].scope : transfer'[p].op = "upload" => EventShareable(p, e)
    PROVE  ObjectsInv'
<1> USE DEF ObjectsInv
<1>1. transfer'[p].keys \subseteq named
  BY DEF OnePlace
<1>2. /\ ~Referenced(k) /\ k \notin pass.keys /\ k \notin stored
      /\ \A q \in Transfers : k \notin transfer[q].keys /\ (Flying(q) => transfer[q].key # k)
  BY DEF Referenced, OnePlace, ObjectsTypeOK, ObjectsAssumption, AllFormed, Formed, Flying
<1>3. \A j \in transfer'[p].keys : Referenced(j)
  BY DEF Referenced, OnePlace
<1>4. ObjectsTypeOK'
  BY DEF ObjectsTypeOK, TransferRecord
<1>5. AllFormed'
  BY <1>1 DEF AllFormed, Formed
<1>6. OneHolder'
  BY TransferFields DEF OneHolder, UserFree, AllFormed, Formed
<1>7. KeysAreOwn'
  BY <1>1, <1>2, <1>3 DEF KeysAreOwn, Referenced, Flying
<1>8. OnePlace'
  BY DEF OnePlace
<1>9. AllDoomed'
  BY DEF AllDoomed, Doomed, Referenced
<1>10. EventsLocked'
  <2> SUFFICES ASSUME NEW q \in Transfers, transfer'[q].op = "event"
               PROVE  /\ KeysOf(transfer[q].scope)' \subseteq transfer'[q].keys
                      /\ \A r \in Transfers : \A e \in transfer'[q].scope : ~Sharing(r, e)'
    BY DEF EventsLocked
  <2>1. q # p /\ transfer'[q] = transfer[q] /\ Formed(transfer[q])
    BY DEF AllFormed
  <2>2. transfer[q].at \in {"objects", "rows"}
    BY <2>1, TransferFields DEF Formed, ObjectsTypeOK
  <2>3. \A e \in transfer[q].scope : ~Sharing(p, e)'
    BY <2>1, <2>2 DEF Sharing, EventShareable, Deleting
  <2>4. \A r \in Transfers : \A e \in transfer[q].scope : ~Sharing(r, e)'
    BY <2>1, <2>3 DEF EventsLocked, Sharing
  <2> QED
    BY <2>1, <2>4 DEF EventsLocked, KeysOf
<1>11. ObjectsGone'
  BY DEF ObjectsGone
<1> QED
  BY <1>4, <1>5, <1>6, <1>7, <1>8, <1>9, <1>10, <1>11 DEF NoBytesLost, Referenced

LEMMA InsertRowDone ==
    ASSUME ObjectsAssumption, ObjectsInv, NEW p \in Transfers, InsertRow(p), UNCHANGED wholesale
    PROVE  ObjectsInv'
<1> USE DEF ObjectsInv
<1>1. PICK k \in Keys \ named :
         /\ Set(p, [transfer[p] EXCEPT !.at = "put", !.key = k]) /\ named' = named \cup {k}
  BY DEF InsertRow
<1> DEFINE r == [transfer[p] EXCEPT !.at = "put", !.key = k]
<1>0. transfer[p] \in TransferRecord
  BY DEF ObjectsTypeOK, TransferRecord
<1>2. /\ r \in TransferRecord /\ r.at = "put" /\ r.key = k /\ r.op = transfer[p].op
      /\ r.scope = transfer[p].scope /\ r.user = transfer[p].user /\ r.keys = transfer[p].keys
  BY <1>0 DEF TransferRecord
<1> HIDE DEF r
<1>3. /\ transfer[p].at = "body" /\ Formed(transfer[p]) /\ transfer[p] \in TransferRecord
      /\ transfer[p].op = "upload"
  BY DEF InsertRow, AllFormed, Formed, ObjectsTypeOK, TransferRecord
<1>4. /\ transfer' \in [Transfers -> TransferRecord]
      /\ transfer'[p].at = "put" /\ transfer'[p].key = k /\ transfer'[p].op = "upload"
      /\ transfer'[p].scope = transfer[p].scope /\ transfer'[p].user = Nil
      /\ transfer'[p].keys = {}
      /\ \A q \in Transfers : q # p => transfer'[q] = transfer[q]
  BY <1>1, <1>2, <1>3, BecomeTransfer DEF r, Formed
<1> QED
  BY <1>1, <1>3, <1>4, KeyDrawn
     DEF InsertRow, EventShareable, Deleting, EventsLocked, AllFormed, Formed

LEMMA WritePhotoDone ==
    ASSUME ObjectsAssumption, ObjectsInv, NEW p \in Transfers, NEW u \in Users,
           WritePhoto(p, u), UNCHANGED wholesale
    PROVE  ObjectsInv'
<1> USE DEF ObjectsInv
<1>1. PICK k \in Keys \ named :
         /\ named' = named \cup {k}
         /\ Set(p, [NoTransfer EXCEPT !.op = "photo", !.at = "put", !.user = u, !.key = k,
                                       !.keys = {avatar[u]} \ {Nil}])
  BY DEF WritePhoto
<1> DEFINE r == [NoTransfer EXCEPT !.op = "photo", !.at = "put", !.user = u, !.key = k,
                                       !.keys = {avatar[u]} \ {Nil}]
<1>2. /\ r.op = "photo" /\ r.at = "put" /\ r.user = u /\ r.key = k /\ r.scope = {}
      /\ r.keys = {avatar[u]} \ {Nil}
  BY DEF NoTransfer
<1>3. r \in TransferRecord
  BY Readable DEF TransferRecord, NoTransfer
<1>4. /\ transfer' \in [Transfers -> TransferRecord] /\ transfer'[p] = r
      /\ \A q \in Transfers : q # p => transfer'[q] = transfer[q]
  BY <1>1, <1>3, BecomeTransfer
<1> HIDE DEF r
<1>5. \A e : ~Sharing(p, e)'
  BY <1>2, <1>4 DEF Sharing
<1> QED
  BY <1>1, <1>2, <1>4, <1>5, KeyDrawn, Readable DEF WritePhoto

LEMMA ObjectsStart == ASSUME ObjectsAssumption, ObjectsInit PROVE ObjectsInv
<1>1. ObjectsTypeOK
  BY TransferFields DEF ObjectsInit, ObjectsTypeOK, TransferRecord, ObjectsAssumption, Resting
<1>2. AllFormed /\ OneHolder /\ AllDoomed /\ EventsLocked /\ ObjectsGone
  BY TransferFields
     DEF ObjectsInit, AllFormed, Formed, OneHolder, AllDoomed, Doomed, EventsLocked,
                        ObjectsGone, Resting
<1>3. KeysAreOwn /\ OnePlace /\ NoBytesLost
  BY TransferFields DEF ObjectsInit, KeysAreOwn, Flying, OnePlace, NoBytesLost, Referenced,
                        ObjectsAssumption
<1> QED
  BY <1>1, <1>2, <1>3 DEF ObjectsInv

LEMMA ObjectsStep ==
    ASSUME ObjectsAssumption, ObjectsInv, [ObjectsNext]_allObjectVars PROVE ObjectsInv'
<1>1. CASE UNCHANGED allObjectVars
  BY <1>1
     DEF allObjectVars, objectVars, ObjectsInv, ObjectsTypeOK, AllFormed, Formed, OneHolder,
              KeysAreOwn, Flying, OnePlace, AllDoomed, Doomed, EventsLocked, ObjectsGone,
              NoBytesLost, Referenced, KeysOf, Sharing
<1>2. CASE ObjectsNext
  <2>1. UNCHANGED wholesale
    BY <1>2 DEF ObjectsNext
  <2>2. ASSUME NEW p \in Transfers, Upload(p) PROVE ObjectsInv'
    BY <2>1, <2>2, StartUploadDone, InsertRowDone, EventGoneDone, PutDone, PutFailedDone,
       CommitUploadDone DEF Upload
  <2>3. ASSUME NEW p \in Transfers, Deletion(p) PROVE ObjectsInv'
    BY <2>1, <2>3, ReadAttachmentDone, LockEventDone, ReadSweepDone, LockPhotoDone,
       DeleteObjectsDone, DeleteObjectsFailedDone, DeleteRowsDone DEF Deletion
  <2>4. ASSUME NEW p \in Transfers, Photo(p) PROVE ObjectsInv'
    BY <2>1, <2>4, WritePhotoDone, CommitPhotoDone DEF Photo
  <2>5. ASSUME NEW p \in Transfers, AccountPurge(p) PROVE ObjectsInv'
    BY <2>1, <2>5, LockPurgeDone, CommitPurgeDone DEF AccountPurge
  <2>6. ASSUME NEW p \in Transfers, DeleteLeftBehind(p) \/ Die(p) PROVE ObjectsInv'
    BY <2>1, <2>6, DeleteLeftBehindDone, DieDone
  <2>7. CASE Reconcile \/ GrowOld
    BY <2>1, <2>7, ListDone, ReadKnownDone, DeleteOrphansDone, PassFailsDone, GrowOldDone
       DEF Reconcile
  <2> QED
    BY <1>2, <2>2, <2>3, <2>4, <2>5, <2>6, <2>7 DEF ObjectsNext
<1> QED
  BY <1>1, <1>2

\* Of the bytes that a row names, none are gone but those a member asked to delete:
\* whatever is uploaded, replaced, purged or reconciled at once, and wherever a
\* request or the pass dies (attachments.rs, avatar.rs, attachment_reconcile.rs).
THEOREM NamedBytesAreKept == ASSUME ObjectsAssumption PROVE ObjectsSpec => []NoBytesLost
<1>1. ObjectsInit => ObjectsInv
  BY ObjectsStart
<1>2. ObjectsInv /\ [ObjectsNext]_allObjectVars => ObjectsInv'
  BY ObjectsStep
<1>3. ObjectsInv => NoBytesLost
  BY DEF ObjectsInv
<1> QED
  BY <1>1, <1>2, <1>3, PTL DEF ObjectsSpec

\* A row that goes in a step has no object, or the request that took it has its key.
LEMMA RowsGoLast ==
    ASSUME ObjectsAssumption, ObjectsInv, [ObjectsNext]_allObjectVars
    PROVE  [~wholesale => \A k \in Keys : LosesRow(k) => AfterItsObject(k)]_objectVars
<1> SUFFICES ASSUME ObjectsNext, ~wholesale, NEW k \in Keys, LosesRow(k) PROVE AfterItsObject(k)
  BY DEF allObjectVars, objectVars
<1>1. rows' # rows /\ rows[k] # Nil /\ rows'[k] = Nil
  BY DEF LosesRow
<1>2. ASSUME NEW p \in Transfers, Upload(p) PROVE ~LosesRow(k)
  <2>1. CASE CommitUpload(p)
    BY <2>1 DEF CommitUpload, LosesRow, ObjectsInv, ObjectsTypeOK, ObjectsAssumption
  <2> QED
    BY <1>1, <1>2, <2>1 DEF Upload, StartUpload, InsertRow, EventGone, Put, PutFailed
<1>3. ASSUME NEW p \in Transfers, Deletion(p) PROVE k \notin stored
  <2>1. CASE DeleteRows(p)
    <3>1. Formed(transfer[p]) /\ transfer[p].at = "rows" /\ transfer[p].op # "purge"
      BY <2>1 DEF DeleteRows, ObjectsInv, AllFormed
    <3>2. transfer[p].op = "attachment" \/ transfer[p].op = "event" \/ transfer[p].op = "no_photo"
      BY <3>1 DEF Formed
    <3>3. k \in transfer[p].keys
      BY <1>1, <2>1, <3>1, <3>2 DEF DeleteRows, Formed, KeysOf, ObjectsInv, EventsLocked
    <3> QED
      BY <3>1, <3>3 DEF ObjectsInv, ObjectsGone
  <2> QED
    BY <1>1, <1>3, <2>1
       DEF Deletion, ReadAttachment, LockEvent, ReadSweep, LockPhoto, DeleteObjects,
           DeleteObjectsFailed
<1>4. ASSUME NEW p \in Transfers, AccountPurge(p) PROVE ~LosesRow(k)
  <2>1. CASE CommitPurge(p)
    BY <2>1 DEF CommitPurge, LosesRow, ObjectsInv, AllFormed, Formed
  <2> QED
    BY <1>1, <1>4, <2>1 DEF AccountPurge, LockPurge
<1>5. ASSUME NEW p \in Transfers, Photo(p) \/ DeleteLeftBehind(p) \/ Die(p) PROVE rows' = rows
  BY <1>5 DEF Photo, WritePhoto, CommitPhoto, DeleteLeftBehind, Die
<1>6. CASE Reconcile \/ GrowOld
  BY <1>1, <1>6 DEF Reconcile, List, ReadKnown, DeleteOrphans, PassFails, GrowOld
<1> QED
  BY <1>1, <1>2, <1>3, <1>4, <1>5, <1>6 DEF ObjectsNext, AfterItsObject

\* Deleted one by one, attachments and events lose their objects before their rows,
\* whatever is uploaded meanwhile: no bytes are left without a row (delete_event's
\* lock against upload_attachment).
THEOREM RowsOutliveObjects == ASSUME ObjectsAssumption PROVE ObjectsSpec => ObjectsGoFirst
<1>1. ObjectsInit => ObjectsInv
  BY ObjectsStart
<1>2. ObjectsInv /\ [ObjectsNext]_allObjectVars => ObjectsInv'
  BY ObjectsStep
<1>3. ObjectsInv /\ [ObjectsNext]_allObjectVars
      => [~wholesale => \A k \in Keys : LosesRow(k) => AfterItsObject(k)]_objectVars
  BY RowsGoLast
<1> QED
  BY <1>1, <1>2, <1>3, PTL DEF ObjectsSpec, ObjectsGoFirst

\* The state of the rows and the bucket keeps its type; a row is of an event that is
\* there, and of a key that was drawn.
THEOREM ObjectsTypeCorrect == ASSUME ObjectsAssumption PROVE ObjectsSpec => []ObjectsTypeOK
<1>1. ObjectsInit => ObjectsInv
  BY ObjectsStart
<1>2. ObjectsInv /\ [ObjectsNext]_allObjectVars => ObjectsInv'
  BY ObjectsStep
<1>3. ObjectsInv => ObjectsTypeOK
  BY DEF ObjectsInv
<1> QED
  BY <1>1, <1>2, <1>3, PTL DEF ObjectsSpec

-----------------------------------------------------------------------------
(* Sums. A sum over a finite set does not depend on the set around it, takes  *)
(* any of its elements first, and grows with the set; by the smallest set of  *)
(* which that would be false.                                                 *)

OneOf(s) == CHOOSE x \in s : TRUE
Summand(f, g, s) == IF s = {} THEN 0 ELSE f[OneOf(s)] + g[s \ {OneOf(s)}]
\* g says the sum of f over each subset of T.
Sums(f, g, T) == g = [s \in SUBSET T |-> Summand(f, g, s)]

LEMMA Smallest ==
    ASSUME NEW T, IsFiniteSet(T), NEW Bad \in SUBSET SUBSET T, Bad # {}
    PROVE  \E s \in Bad : \A t \in Bad : t \subseteq s => t = s
<1>1. IsWellFoundedOn(StrictSubsetOrdering(T), SUBSET T)
  BY FS_StrictSubsetOrderingWellFounded, FS_FiniteSubsetsOfFinite
<1>2. \E s \in Bad : \A t \in Bad : ~(<<t, s>> \in StrictSubsetOrdering(T))
  BY <1>1, WFMin, Zenon
<1> QED
  BY <1>2 DEF StrictSubsetOrdering

LEMMA OneIs == \A s : s # {} => OneOf(s) \in s
  BY DEF OneOf

LEMMA OneSum ==
    ASSUME NEW T, IsFiniteSet(T), NEW f, NEW g, NEW U, NEW h, NEW k,
           Sums(f, g, T), Sums(h, k, U), \A x \in T \cap U : f[x] = h[x]
    PROVE  \A s \in SUBSET (T \cap U) : g[s] = k[s]
<1> DEFINE Bad == {s \in SUBSET (T \cap U) : g[s] # k[s]}
<1> SUFFICES ASSUME Bad # {}
             PROVE  FALSE
  OBVIOUS
<1>1. IsFiniteSet(T \cap U)
  BY FS_Subset
<1>2. PICK s \in Bad : \A t \in Bad : t \subseteq s => t = s
  <2>1. Bad \in SUBSET SUBSET (T \cap U)
    OBVIOUS
  <2> HIDE DEF Bad
  <2>2. \E s \in Bad : \A t \in Bad : t \subseteq s => t = s
    BY <1>1, <2>1, Smallest
  <2> QED
    BY <2>2
<1>3. g[s] = Summand(f, g, s) /\ k[s] = Summand(h, k, s) /\ g[s] # k[s] /\ s \subseteq T \cap U
  BY <1>2 DEF Sums
<1>4. s # {}
  BY <1>3 DEF Summand
<1> DEFINE r == s \ {OneOf(s)}
<1>5. OneOf(s) \in s /\ r \subseteq s /\ r # s
  BY <1>4, OneIs
<1>6. g[r] = k[r]
  BY <1>2, <1>3, <1>5
<1>7. f[OneOf(s)] = h[OneOf(s)]
  BY <1>3, <1>5
<1> QED
  BY <1>3, <1>4, <1>6, <1>7 DEF Summand

LEMMA SumExists ==
    ASSUME NEW T, IsFiniteSet(T), NEW f
    PROVE  \E g : Sums(f, g, T)
<1> DEFINE Bad == {t \in SUBSET T : ~ \E g : Sums(f, g, t)}
<1> SUFFICES ASSUME Bad # {}
             PROVE  FALSE
  OBVIOUS
<1>1. PICK t \in Bad : \A s \in Bad : s \subseteq t => s = t
  <2>1. Bad \in SUBSET SUBSET T
    OBVIOUS
  <2> HIDE DEF Bad
  <2>2. \E s \in Bad : \A t \in Bad : t \subseteq s => t = s
    BY <2>1, Smallest
  <2> QED
    BY <2>2
<1> DEFINE G(s) == CHOOSE g : Sums(f, g, s)
           tail(s) == s \ {OneOf(s)}
           g0 == [s \in SUBSET t |-> IF s = {} THEN 0 ELSE f[OneOf(s)] + G(tail(s))[tail(s)]]
<1>2. \A s \in SUBSET t : s # t => Sums(f, G(s), s)
  BY <1>1
<1>3. \A s \in SUBSET t : s # {} => tail(s) \in SUBSET t /\ tail(s) # t /\ tail(s) \in SUBSET s
  BY OneIs
<1>4. ASSUME NEW s \in SUBSET t, s # {}
      PROVE  G(tail(s))[tail(s)] = g0[tail(s)]
  <2> DEFINE r == tail(s)
  <2>1. Sums(f, G(r), r) /\ r \in SUBSET t
    BY <1>2, <1>3, <1>4
  <2>2. G(r)[r] = Summand(f, G(r), r)
    BY <2>1 DEF Sums
  <2>3. CASE r = {}
    BY <2>1, <2>2, <2>3 DEF Summand
  <2>4. CASE r # {}
    <3>1. Sums(f, G(tail(r)), tail(r)) /\ tail(r) \in SUBSET r /\ tail(r) \in SUBSET t
      BY <1>2, <1>3, <2>1, <2>4
    <3>2. IsFiniteSet(r)
      BY <2>1, FS_Subset
    <3>3. G(r)[tail(r)] = G(tail(r))[tail(r)]
      <4> HIDE DEF r, G, tail
      <4>1. tail(r) \in SUBSET (r \cap tail(r))
        BY <3>1
      <4> QED
        BY <2>1, <3>1, <3>2, <4>1, OneSum
    <3>4. G(r)[r] = f[OneOf(r)] + G(r)[tail(r)]
      BY <2>2, <2>4 DEF Summand
    <3>5. g0[r] = f[OneOf(r)] + G(tail(r))[tail(r)]
      BY <2>1, <2>4
    <3> QED
      BY <3>3, <3>4, <3>5
  <2> QED
    BY <2>3, <2>4
<1>5. \A s \in SUBSET t : g0[s] = Summand(f, g0, s)
  <2> SUFFICES ASSUME NEW s \in SUBSET t
               PROVE  g0[s] = Summand(f, g0, s)
    OBVIOUS
  <2>1. CASE s = {}
    BY <2>1 DEF Summand
  <2>2. CASE s # {}
    <3>1. g0[s] = f[OneOf(s)] + G(tail(s))[tail(s)]
      BY <2>2
    <3>2. G(tail(s))[tail(s)] = g0[tail(s)]
      BY <1>4, <2>2
    <3> HIDE DEF g0, G
    <3> QED
      BY <2>2, <3>1, <3>2 DEF Summand
  <2> QED
    BY <2>1, <2>2
<1>6. Sums(f, g0, t)
  BY <1>5 DEF Sums
<1> QED
  BY <1>1, <1>6
\* A sum is a number, and any element may be taken out of it.
LEMMA SumIs ==
    ASSUME NEW T, IsFiniteSet(T), NEW f, \A x \in T : f[x] \in Nat, NEW g, Sums(f, g, T)
    PROVE  /\ \A s \in SUBSET T : g[s] \in Nat
           /\ \A s \in SUBSET T : \A x \in s : g[s] = f[x] + g[s \ {x}]
<1>1. \A s \in SUBSET T : g[s] = Summand(f, g, s)
  BY DEF Sums
<1>2. \A s \in SUBSET T : s # {} =>
        /\ OneOf(s) \in s /\ s \ {OneOf(s)} \in SUBSET T
        /\ s \ {OneOf(s)} \subseteq s /\ s \ {OneOf(s)} # s
        /\ g[s] = f[OneOf(s)] + g[s \ {OneOf(s)}]
  BY <1>1, OneIs DEF Summand
<1>3. \A s \in SUBSET T : g[s] \in Nat
  <2> DEFINE Bad == {s \in SUBSET T : g[s] \notin Nat}
  <2> SUFFICES ASSUME Bad # {}
               PROVE  FALSE
    OBVIOUS
  <2>1. PICK s \in Bad : \A t \in Bad : t \subseteq s => t = s
    <3>1. Bad \in SUBSET SUBSET T
      OBVIOUS
    <3> HIDE DEF Bad
    <3>2. \E s \in Bad : \A t \in Bad : t \subseteq s => t = s
      BY <3>1, Smallest
    <3> QED
      BY <3>2
  <2>2. s \in SUBSET T /\ g[s] \notin Nat
    BY <2>1
  <2>3. s # {}
    <3>1. g[{}] = 0
      BY <1>1 DEF Summand
    <3> QED
      BY <2>2, <3>1
  <2>4. s \ {OneOf(s)} \notin Bad
    BY <1>2, <2>1, <2>2, <2>3
  <2>5. g[s \ {OneOf(s)}] \in Nat /\ f[OneOf(s)] \in Nat
    BY <1>2, <2>2, <2>3, <2>4
  <2>6. g[s] = f[OneOf(s)] + g[s \ {OneOf(s)}]
    BY <1>2, <2>2, <2>3
  <2> HIDE DEF Bad
  <2> QED
    BY <2>2, <2>5, <2>6
<1>4. \A s \in SUBSET T : \A x \in s : g[s] = f[x] + g[s \ {x}]
  <2> DEFINE Bad == {s \in SUBSET T : \E x \in s : g[s] # f[x] + g[s \ {x}]}
  <2> SUFFICES ASSUME Bad # {}
               PROVE  FALSE
    OBVIOUS
  <2>1. PICK s \in Bad : \A t \in Bad : t \subseteq s => t = s
    <3>1. Bad \in SUBSET SUBSET T
      OBVIOUS
    <3> HIDE DEF Bad
    <3>2. \E s \in Bad : \A t \in Bad : t \subseteq s => t = s
      BY <3>1, Smallest
    <3> QED
      BY <3>2
  <2>2. PICK x \in s : g[s] # f[x] + g[s \ {x}]
    OBVIOUS
  <2> DEFINE h == OneOf(s)
  <2>3. /\ s \in SUBSET T /\ h \in s /\ g[s] = f[h] + g[s \ {h}] /\ x # h
    BY <1>2, <2>2
  <2>4. g[s \ {h}] = f[x] + g[(s \ {h}) \ {x}]
    <3>1. s \ {h} \notin Bad /\ s \ {h} \in SUBSET T /\ x \in s \ {h}
      BY <2>1, <2>3
    <3> QED
      BY <3>1
  <2>5. g[s \ {x}] = f[h] + g[(s \ {x}) \ {h}]
    <3>1. s \ {x} \notin Bad /\ s \ {x} \in SUBSET T /\ h \in s \ {x}
      BY <2>1, <2>3
    <3> QED
      BY <3>1
  <2>6. (s \ {h}) \ {x} = (s \ {x}) \ {h} /\ (s \ {h}) \ {x} \in SUBSET T
    BY <2>3
  <2>7. f[h] \in Nat /\ f[x] \in Nat /\ g[(s \ {h}) \ {x}] \in Nat
    BY <1>3, <2>3, <2>6
  <2> DEFINE c == g[(s \ {h}) \ {x}]
  <2>8. g[s] = f[h] + (f[x] + c) /\ g[s \ {x}] = f[h] + c /\ c \in Nat
    BY <2>3, <2>4, <2>5, <2>6, <2>7
  <2>9. g[s] # f[x] + g[s \ {x}]
    BY <2>2
  <2> HIDE DEF h, Bad, c
  <2> QED
    BY <2>7, <2>8, <2>9
<1> QED
  BY <1>3, <1>4

\* What has fewer elements has no greater sum.
LEMMA SumGrows ==
    ASSUME NEW T, IsFiniteSet(T), NEW f, \A x \in T : f[x] \in Nat, NEW g, Sums(f, g, T),
           NEW s \in SUBSET T
    PROVE  \A t \in SUBSET T : s \subseteq t => g[s] <= g[t]
<1>1. /\ \A t \in SUBSET T : g[t] \in Nat
      /\ \A t \in SUBSET T : \A x \in t : g[t] = f[x] + g[t \ {x}]
  BY SumIs
<1> DEFINE Bad == {t \in SUBSET T : s \subseteq t /\ ~(g[s] <= g[t])}
<1> SUFFICES ASSUME Bad # {}
             PROVE  FALSE
  OBVIOUS
<1>2. PICK t \in Bad : \A u \in Bad : u \subseteq t => u = t
  <2>1. Bad \in SUBSET SUBSET T
    OBVIOUS
  <2> HIDE DEF Bad
  <2>2. \E t \in Bad : \A u \in Bad : u \subseteq t => u = t
    BY <2>1, Smallest
  <2> QED
    BY <2>2
<1>3. t # s
  BY <1>1
<1>4. PICK x \in t : x \notin s
  BY <1>3
<1>5. t \ {x} \in SUBSET T /\ s \subseteq t \ {x} /\ t \ {x} # t /\ t \ {x} \subseteq t
  BY <1>4
<1>6. g[s] <= g[t \ {x}]
  BY <1>2, <1>5
<1>7. g[t] = f[x] + g[t \ {x}] /\ f[x] \in Nat /\ g[t \ {x}] \in Nat /\ g[s] \in Nat
  BY <1>1, <1>4, <1>5
<1>8. ~(g[s] <= g[t])
  OBVIOUS
<1> HIDE DEF Bad
<1> QED
  BY <1>6, <1>7, <1>8

LEMMA SumFunctionIs ==
    ASSUME NEW f, IsFiniteSet(DOMAIN f)
    PROVE  \E g : Sums(f, g, DOMAIN f) /\ SumFunction(f) = g[DOMAIN f]
<1> DEFINE D == DOMAIN f
           g == CHOOSE g : Sums(f, g, D)
<1>1. Sums(f, g, D)
  BY SumExists
<1>2. SumFunction(f) = g[D]
  BY DEF SumFunction, SumFunctionOnSet, FoldFunctionOnSet, MapThenFoldSet, Sums, Summand, OneOf
<1> QED
  BY <1>1, <1>2

\* The sum of a part is no greater than the sum of the whole.
LEMMA PartSums ==
    ASSUME NEW f, NEW h, IsFiniteSet(DOMAIN f), \A x \in DOMAIN f : f[x] \in Nat,
           DOMAIN h \subseteq DOMAIN f, \A x \in DOMAIN h : h[x] = f[x]
    PROVE  SumFunction(f) \in Nat /\ SumFunction(h) \in Nat /\ SumFunction(h) <= SumFunction(f)
<1>1. PICK g : Sums(f, g, DOMAIN f) /\ SumFunction(f) = g[DOMAIN f]
  BY SumFunctionIs
<1>2. IsFiniteSet(DOMAIN h)
  BY FS_Subset
<1>3. PICK k : Sums(h, k, DOMAIN h) /\ SumFunction(h) = k[DOMAIN h]
  BY <1>2, SumFunctionIs
<1>4. k[DOMAIN h] = g[DOMAIN h]
  <2>1. DOMAIN h \in SUBSET (DOMAIN h \cap DOMAIN f)
    OBVIOUS
  <2> QED
    BY <1>1, <1>2, <1>3, <2>1, OneSum
<1>5. g[DOMAIN f] \in Nat /\ g[DOMAIN h] \in Nat
  BY <1>1, SumIs
<1>6. g[DOMAIN h] <= g[DOMAIN f]
  BY <1>1, SumGrows
<1> QED
  BY <1>1, <1>3, <1>4, <1>5, <1>6
-----------------------------------------------------------------------------
(* Budget: who holds what, and what the one that spends has read.             *)

XLock(row) == <<"x", row>>
SLock(row) == <<"s", row>>
Working == {"watch", "write", "link", "tripped", "fire", "commit"}
Spends(r) == r.at \in Working \cup {"lock", "row"}
\* An expense being created, not one being changed.
New(r) == r.op = "create" \/ (r.op = "price" /\ ~r.keep)
Scopes(r) == {Unset, r.row.category}
Kinds == {"create", "update", "price"}

IsRow(row) ==
    /\ row = [amount |-> row.amount, thisMonth |-> row.thisMonth, category |-> row.category]
    /\ row.amount \in Amounts /\ row.thisMonth \in BOOLEAN

SpendRecord(op, at, e, row, item, link, keep, caps, before, sent) ==
    [op |-> op, at |-> at, e |-> e, row |-> row, item |-> item, link |-> link,
     keep |-> keep, caps |-> caps, before |-> before, alerts |-> sent]

IsSpend(r) ==
    /\ r = SpendRecord(r.op, r.at, r.e, r.row, r.item, r.link, r.keep, r.caps, r.before, r.alerts)
    /\ r.op \in Kinds /\ r.e \in Entries /\ IsRow(r.row)
    /\ r.row.category \in DOMAIN categories \cup dropped \cup {Unset}
    /\ r.link \subseteq Items /\ r.keep \in BOOLEAN /\ r.alerts \subseteq Thresholds
    /\ r.at \in {"lock", "row"} /\ r.op = "price" => ~r.keep /\ r.item \in Items /\ r.link = {}
    /\ r.op = "create" => r.at # "row"
    /\ ~New(r) => r.e \in DOMAIN entries \cup gone
    /\ r.at = "commit" => \A a \in r.alerts : a[1] \in Scopes(r)

\* What a request is at.
RequestIs(r) ==
    \/ r = AtRest
    \/ Spends(r) /\ IsSpend(r)
    \/ \E at \in {"count", "insert"} : r = [op |-> "category", at |-> at]
    \/ /\ "delete_budget_category" \in beside
       /\ \E at \in {"drop", "clear"}, c \in Categories :
              r = [op |-> "drop", at |-> at, category |-> c]

\* An expense being created is nobody else's.
Fresh(p) ==
    Spends(req[p]) /\ New(req[p]) =>
        /\ req[p].e \notin DOMAIN entries \cup gone
        /\ \A q \in Spenders \ {p} : Spends(req[q]) => req[q].e # req[p].e

Lockable == Entries \cup Categories \cup {Family}
ApartFrom(h, k) == \A row \in Lockable : XLock(row) \in h => k \cap AnyLock(row) = {}
LocksApart == \A p, q \in Spenders : p # q => ApartFrom(holds[p], holds[q])

\* Every write of an expense but the creation of one that is out of the month and
\* pays for nothing is made under the lock of the family.
HasFamily(r) ==
    \/ r.at \in {"row", "insert"}
    \/ r.at \in Working /\ (r.op # "create" \/ r.row.thisMonth \/ r.link # {})

LocksFit(r, h) ==
    /\ r.at \in {"idle", "lock", "count", "drop"} => h = {}
    /\ HasFamily(r) => XLock(Family) \in h
    /\ r.at = "clear" => XLock(r.category) \in h /\ r.category \in DOMAIN categories
    /\ \A e \in Entries : XLock(e) \in h => r.at \in Working /\ e = r.e
    /\ \A c \in Categories : XLock(c) \in h => r.at = "clear" /\ c = r.category
    /\ \A e \in Entries : SLock(e) \notin h
    /\ SLock(Family) \notin h

\* The expense written stays, so does its category, so do the items it pays.
EntryHeld(r, h) ==
    /\ r.at \in Working /\ ~New(r) => XLock(r.e) \in h /\ r.e \in DOMAIN entries
    /\ r.at \in {"link", "fire", "commit"} => XLock(r.e) \in h
CategoryKept(r, h) ==
    r.at \in {"link", "fire", "commit"} /\ r.row.category # Unset =>
        /\ r.row.category \in DOMAIN categories
        /\ \/ SLock(r.row.category) \in h
           \/ ~New(r) /\ entries[r.e].category = r.row.category
ItemsHeld(r, h) ==
    r.at \in {"link", "fire", "commit"} \/ (r.at \in Working /\ r.op = "price") =>
        \A i \in r.link : SLock(i) \in h /\ i \in items

\* No expense is deleted, and no cap of a category changed, while others spend.
NothingBeside == beside \cap {"delete_budget_entry", "update_budget_category"} = {}

\* What watch has read is still so.
WatchesTrue(r) ==
    r.at \in {"write", "link", "fire"} => \A s \in Scopes(r) :
        /\ ~r.row.thisMonth => r.caps[s] = 0
        /\ r.row.thisMonth /\ (s = Unset \/ s \in DOMAIN categories) =>
               r.caps[s] = WatchedCap(s) /\ r.before[s] = Total(entries, s)

Past(a, es) == Reached(a[2], Total(es, a[1]), WatchedCap(a[1]))
\* What is about to be alerted is true, and nothing that will be crossed is missing.
AlertsSound(r) ==
    r.at = "commit" =>
        /\ \A a \in r.alerts : r.row.thisMonth /\ a[1] \in Scopes(r) /\ Past(a, EntriesWith(r))
        /\ \A a \in Thresholds :
              r.row.thisMonth /\ a[1] \in Scopes(r) /\ ~Past(a, entries) /\ Past(a, EntriesWith(r))
              => a \in alerts \cup r.alerts

Sound(r) == NothingBeside => WatchesTrue(r) /\ AlertsSound(r)
Good(r, h) == /\ RequestIs(r) /\ LocksFit(r, h) /\ EntryHeld(r, h) /\ CategoryKept(r, h)
              /\ ItemsHeld(r, h) /\ Sound(r)
AllGood == \A p \in Spenders : Good(req[p], holds[p])
AllFresh == \A p \in Spenders : Fresh(p)
Arrays == /\ req = [p \in Spenders |-> req[p]] /\ holds = [p \in Spenders |-> holds[p]]
          /\ IsFiniteSet(DOMAIN entries)

BudgetInv == BudgetTypeOK /\ Arrays /\ AllGood /\ AllFresh /\ LocksApart

-----------------------------------------------------------------------------
\* One request moves on, and the tables stay as they are.
Becomes(p, r, h) == req' = [req EXCEPT ![p] = r] /\ holds' = [holds EXCEPT ![p] = h]
FreshWith(p, r) ==
    /\ Spends(r) /\ New(r) => r.e \notin DOMAIN entries \cup gone
    /\ Spends(r) => \A q \in Spenders \ {p} :
           Spends(req[q]) /\ (New(r) \/ New(req[q])) => req[q].e # r.e

LEMMA Moves ==
    ASSUME BudgetInv, UNCHANGED <<Tables, beside>>, NEW p \in Spenders, NEW r, NEW h,
           Becomes(p, r, h), Good(r, h), FreshWith(p, r),
           \A q \in Spenders \ {p} : ApartFrom(h, holds[q]) /\ ApartFrom(holds[q], h)
    PROVE  BudgetInv'
<1> USE DEF BudgetInv
<1>1. /\ entries' = entries /\ gone' = gone /\ paid' = paid /\ items' = items
      /\ categories' = categories /\ dropped' = dropped /\ settings' = settings
      /\ alerts' = alerts /\ beside' = beside
  BY DEF Tables
<1>2. BudgetTypeOK'
  BY <1>1 DEF BudgetTypeOK
<1>3. /\ req' = [q \in Spenders |-> IF q = p THEN r ELSE req[q]]
      /\ holds' = [q \in Spenders |-> IF q = p THEN h ELSE holds[q]]
  BY DEF Arrays, Becomes
<1>4. Arrays'
  BY <1>1, <1>3 DEF Arrays
<1>5. AllGood'
  <2>1. ASSUME NEW s, NEW k, Good(s, k)
        PROVE  Good(s, k)'
    <3>1. RequestIs(s)' /\ LocksFit(s, k)'
      BY <1>1, <2>1 DEF Good, RequestIs, IsSpend, LocksFit
    <3>2. EntryHeld(s, k)' /\ CategoryKept(s, k)' /\ ItemsHeld(s, k)'
      BY <1>1, <2>1 DEF Good, EntryHeld, CategoryKept, ItemsHeld
    <3>3. \A c : WatchedCap(c)' = WatchedCap(c)
      BY <1>1 DEF WatchedCap
    <3>4. EntriesWith(s)' = EntriesWith(s)
      BY <1>1 DEF EntriesWith
    <3>5. WatchesTrue(s) => WatchesTrue(s)'
      BY <1>1, <3>3 DEF WatchesTrue
    <3>6. AlertsSound(s) => AlertsSound(s)'
      BY <1>1, <3>3, <3>4 DEF AlertsSound, Past
    <3>7. Sound(s)'
      BY <1>1, <2>1, <3>5, <3>6 DEF Good, Sound, NothingBeside
    <3> QED
      BY <3>1, <3>2, <3>7 DEF Good
  <2>2. \A q \in Spenders : Good(req'[q], holds'[q])
    BY <1>3 DEF AllGood
  <2> QED
    BY <2>1, <2>2 DEF AllGood
<1>6. AllFresh'
  BY <1>1, <1>3 DEF AllFresh, Fresh, FreshWith
<1>7. LocksApart'
  BY <1>3 DEF LocksApart
<1> QED
  BY <1>2, <1>4, <1>5, <1>6, <1>7
LEMMA SpendIs == ASSUME NEW r, RequestIs(r), Spends(r) PROVE IsSpend(r)
  BY DEF RequestIs, Spends, Working, AtRest

LEMMA CategoryIs ==
    ASSUME NEW r, RequestIs(r)
    PROVE  /\ r.at \in {"count", "insert"} => r = [op |-> "category", at |-> r.at]
           /\ r.at \in {"drop", "clear"} =>
                 /\ "delete_budget_category" \in beside
                 /\ r.category \in Categories
                 /\ r = [op |-> "drop", at |-> r.at, category |-> r.category]
  BY DEF RequestIs, Spends, Working, AtRest

\* A request takes locks that nobody else's exclude.
LEMMA Widens ==
    ASSUME NEW h, NEW k, NEW L, ApartFrom(h, k), ApartFrom(k, h),
           \A row \in Lockable : /\ XLock(row) \in L => k \cap AnyLock(row) = {}
                                 /\ SLock(row) \in L => XLock(row) \notin k
    PROVE  ApartFrom(h \cup L, k) /\ ApartFrom(k, h \cup L)
<1>1. ApartFrom(h \cup L, k)
  BY DEF ApartFrom
<1>2. ASSUME NEW row \in Lockable, XLock(row) \in k PROVE (h \cup L) \cap AnyLock(row) = {}
  <2>1. h \cap AnyLock(row) = {}
    BY <1>2 DEF ApartFrom
  <2>2. XLock(row) \notin L
    BY <1>2 DEF AnyLock, XLock
  <2>3. SLock(row) \notin L
    BY <1>2
  <2> QED
    BY <2>1, <2>2, <2>3 DEF AnyLock, XLock, SLock
<1> QED
  BY <1>1, <1>2 DEF ApartFrom

\* Who waits for nobody: nobody else holds what it asks for.
LEMMA NobodyHolds ==
    ASSUME NEW p \in Spenders, WaitsFor(p) = {}, NEW q \in Spenders \ {p}
    PROVE  LET r == req[p] IN
           /\ r.at \in {"lock", "count"} => XLock(Family) \notin holds[q]
           /\ r.at = "row" => XLock(Target(r)) \notin holds[q]
           /\ r.at = "write" /\ ChecksCategory(r) => XLock(r.row.category) \notin holds[q]
           /\ r.at = "fire" /\ AlertsCategory(r) => XLock(r.row.category) \notin holds[q]
           /\ r.at = "drop" => holds[q] \cap AnyLock(r.category) = {}
           /\ r.at = "clear" => \A e \in DOMAIN entries :
                  entries[e].category = r.category => XLock(e) \notin holds[q]
<1> DEFINE r == req[p]
<1>1. \A row : q \notin Others(p, Exclusive(row)) => XLock(row) \notin holds[q]
  BY DEF Others, Exclusive, XLock
<1>2. r.at = "lock" => XLock(Family) \notin holds[q]
  BY <1>1 DEF WaitsFor
<1>3. r.at = "count" => XLock(Family) \notin holds[q]
  BY <1>1 DEF WaitsFor, CountLock
<1>4. r.at = "row" => XLock(Target(r)) \notin holds[q]
  BY <1>1 DEF WaitsFor
<1>5. r.at = "write" /\ ChecksCategory(r) => XLock(r.row.category) \notin holds[q]
  BY <1>1 DEF WaitsFor
<1>6. r.at = "fire" /\ AlertsCategory(r) => XLock(r.row.category) \notin holds[q]
  BY <1>1 DEF WaitsFor
<1>7. r.at = "drop" => holds[q] \cap AnyLock(r.category) = {}
  BY DEF WaitsFor, Others
<1>8. ASSUME r.at = "clear", NEW e \in DOMAIN entries, entries[e].category = r.category
      PROVE  XLock(e) \notin holds[q]
  <2> DEFINE theirs == UNION {Exclusive(f) : f \in {g \in DOMAIN entries : entries[g].category = r.category}}
  <2>1. WaitsFor(p) = Others(p, theirs)
    BY <1>8 DEF WaitsFor
  <2>2. XLock(e) \in theirs
    BY <1>8 DEF Exclusive, XLock
  <2> HIDE DEF theirs
  <2> QED
    BY <2>1, <2>2 DEF Others
<1> QED
  BY <1>2, <1>3, <1>4, <1>5, <1>6, <1>7, <1>8

LEMMA Ends ==
    ASSUME BudgetInv, NEW p \in Spenders, End(p), UNCHANGED <<Tables, beside>>
    PROVE  BudgetInv'
<1>1. Becomes(p, AtRest, {})
  BY DEF End, Becomes
<1>2. Good(AtRest, {})
  BY DEF Good, RequestIs, LocksFit, EntryHeld, CategoryKept, ItemsHeld, Sound, WatchesTrue, AlertsSound,
     HasFamily, Working, AtRest
<1>3. FreshWith(p, AtRest)
  BY DEF FreshWith, Spends, Working, AtRest
<1>4. \A k : ApartFrom({}, k) /\ ApartFrom(k, {})
  BY DEF ApartFrom
<1> QED
  BY <1>1, <1>2, <1>3, <1>4, Moves, Zenon

\* A request proceeds, with locks that nobody else's exclude.
LEMMA Proceeds ==
    ASSUME BudgetInv, UNCHANGED <<Tables, beside>>, NEW p \in Spenders, NEW r, NEW L,
           Proceed(p, r, L), Good(r, holds[p] \cup L), FreshWith(p, r),
           \A q \in Spenders \ {p} : \A row \in Lockable :
              /\ XLock(row) \in L => holds[q] \cap AnyLock(row) = {}
              /\ SLock(row) \in L => XLock(row) \notin holds[q]
    PROVE  BudgetInv'
<1>1. Becomes(p, r, holds[p] \cup L)
  BY DEF Proceed, Becomes, BudgetInv, Arrays
<1>2. \A q \in Spenders \ {p} : ApartFrom(holds[p] \cup L, holds[q]) /\ ApartFrom(holds[q], holds[p] \cup L)
  BY Widens DEF BudgetInv, LocksApart
<1> QED
  BY <1>1, <1>2, Moves

\* What a request is at, holds and is due.
LEMMA GoodOf ==
    ASSUME BudgetInv, NEW p \in Spenders
    PROVE  /\ Good(req[p], holds[p]) /\ Fresh(p) /\ RequestIs(req[p]) /\ LocksFit(req[p], holds[p])
           /\ EntryHeld(req[p], holds[p]) /\ CategoryKept(req[p], holds[p])
           /\ ItemsHeld(req[p], holds[p]) /\ Sound(req[p])
  BY DEF BudgetInv, AllGood, AllFresh, Good

\* An entry that stays the same has kept its freshness.
LEMMA FreshStays ==
    ASSUME BudgetInv, NEW p \in Spenders, NEW r, Spends(req[p]), r.e = req[p].e,
           New(r) => New(req[p])
    PROVE  FreshWith(p, r)
<1>1. New(r) => r.e \notin DOMAIN entries \cup gone
  BY GoodOf DEF Fresh
<1>2. ASSUME NEW q \in Spenders \ {p}, Spends(req[q]), New(r) \/ New(req[q])
      PROVE  req[q].e # r.e
  <2>1. Fresh(p) /\ Fresh(q)
    BY GoodOf
  <2> QED
    BY <1>2, <2>1 DEF Fresh
<1> QED
  BY <1>1, <1>2 DEF FreshWith

LEMMA StartSpendingDone ==
    ASSUME BudgetAssumption, BudgetInv, NEW p \in Spenders, StartSpending(p), UNCHANGED beside
    PROVE  BudgetInv'
<1>1. req[p].at = "idle" /\ UNCHANGED <<Tables, beside>> /\ holds[p] = {}
  BY GoodOf DEF StartSpending, LocksFit
<1>2. /\ DOMAIN entries \subseteq Entries \ gone /\ items \subseteq Items
      /\ DOMAIN categories \subseteq Categories \ dropped
  BY DEF BudgetInv, BudgetTypeOK
<1>3. ASSUME NEW r, Spends(r), r.at \in {"lock", "watch"}, IsSpend(r), FreshWith(p, r),
             Proceed(p, r, {}), r.at = "watch" => r.op = "create" /\ ~r.row.thisMonth /\ r.link = {}
      PROVE  BudgetInv'
  <2>1. LocksFit(r, {}) /\ RequestIs(r)
    BY <1>3 DEF LocksFit, HasFamily, Working, RequestIs
  <2>2. EntryHeld(r, {}) /\ CategoryKept(r, {}) /\ ItemsHeld(r, {}) /\ Sound(r)
    BY <1>3 DEF EntryHeld, CategoryKept, ItemsHeld, Sound, WatchesTrue, AlertsSound, New, Working
  <2>3. Good(r, holds[p] \cup {})
    BY <1>1, <2>1, <2>2 DEF Good
  <2> QED
    BY <1>1, <1>3, <2>3, Proceeds
<1>4. ASSUME NEW e \in NewIds
      PROVE  /\ e \in Entries /\ e \notin DOMAIN entries \cup gone
             /\ \A q \in Spenders \ {p} : Spends(req[q]) => req[q].e # e
  <2>1. e \in Entries /\ e \notin DOMAIN entries \cup gone /\ e \notin InFlight
    BY <1>4 DEF NewIds
  <2>2. ASSUME NEW q \in Spenders \ {p}, Spends(req[q])
        PROVE  req[q].e # e
    <3>1. IsSpend(req[q])
      BY <2>2, GoodOf, SpendIs
    <3>2. "e" \in DOMAIN req[q] /\ req[q].at # "idle"
      BY <2>2, <3>1 DEF SpendRecord, IsSpend, Spends, Working
    <3> QED
      BY <2>1, <3>2 DEF InFlight
  <2> QED
    BY <2>1, <2>2
<1>5. CASE StartCreate(p)
  <2>1. PICK e \in NewIds, row \in Row, link \in SUBSET Items :
            /\ row.category \in DOMAIN categories \cup {Unset}
            /\ Proceed(p, Spend("create", FirstCreating(row, link), e, row, Unset, link), {})
    BY <1>5 DEF StartCreate
  <2> DEFINE r == Spend("create", FirstCreating(row, link), e, row, Unset, link)
  <2>2. /\ r.op = "create" /\ r.at = FirstCreating(row, link) /\ r.e = e /\ r.row = row /\ r.link = link
    BY DEF Spend
  <2>3. IsSpend(r)
    BY <1>2, <1>4, <2>1 DEF SpendRecord, IsSpend, Spend, FirstCreating, IsRow, Row, New, Kinds
  <2>4. Spends(r) /\ r.at \in {"lock", "watch"} /\ (r.at = "watch" => ~r.row.thisMonth /\ r.link = {})
    BY <2>2 DEF FirstCreating, Spends, Working
  <2>5. FreshWith(p, r)
    BY <1>4, <2>2 DEF FreshWith
  <2> QED
    BY <1>3, <2>1, <2>2, <2>3, <2>4, <2>5
<1>6. CASE StartUpdate(p)
  <2>1. PICK e \in DOMAIN entries, row \in Row, link \in SUBSET Items, keep \in BOOLEAN :
            /\ row.category \in DOMAIN categories \cup {Unset}
            /\ Proceed(p, [Spend("update", FirstWriting("update"), e, row, Unset, link)
                           EXCEPT !.keep = keep], {})
    BY <1>6 DEF StartUpdate
  <2> DEFINE r == [Spend("update", FirstWriting("update"), e, row, Unset, link) EXCEPT !.keep = keep]
  <2>2. r.op = "update" /\ r.at = "lock" /\ r.e = e /\ r.row = row /\ r.link = link
    BY DEF Spend, FirstWriting
  <2>3. IsSpend(r)
    <3>1. r = [op |-> "update", at |-> "lock", e |-> e, row |-> row, item |-> Unset, link |-> link,
               keep |-> keep, caps |-> << >>, before |-> << >>, alerts |-> {}]
      <4> DEFINE b == Spend("update", FirstWriting("update"), e, row, Unset, link)
      <4>1. b = [op |-> "update", at |-> "lock", e |-> e, row |-> row, item |-> Unset, link |-> link,
                 keep |-> FALSE, caps |-> << >>, before |-> << >>, alerts |-> {}]
        BY DEF Spend, FirstWriting
      <4>2. r = [b EXCEPT !.keep = keep]
        BY DEF r, b
      <4> HIDE DEF b, r
      <4> QED
        BY <4>1, <4>2
    <3> HIDE DEF r
    <3> QED
      BY <1>2, <2>1, <3>1 DEF SpendRecord, IsSpend, IsRow, Row, New, Kinds
  <2>4. FreshWith(p, r)
    <3>1. ~New(r)
      BY <2>2 DEF New
    <3>2. \A q \in Spenders \ {p} : Spends(req[q]) /\ New(req[q]) => req[q].e # e
      BY GoodOf DEF Fresh
    <3> QED
      BY <2>2, <3>1, <3>2 DEF FreshWith
  <2> QED
    BY <1>3, <2>1, <2>2, <2>3, <2>4 DEF Spends
<1>7. CASE StartPrice(p)
  <2>1. PICK e \in NewIds, amount \in Amounts, thisMonth \in BOOLEAN, item \in items :
            Proceed(p, Spend("price", FirstWriting("price"), e,
                        [amount |-> amount, thisMonth |-> thisMonth, category |-> Unset], item, {}), {})
    BY <1>7 DEF StartPrice
  <2> DEFINE r == Spend("price", FirstWriting("price"), e,
                        [amount |-> amount, thisMonth |-> thisMonth, category |-> Unset], item, {})
  <2>2. r.op = "price" /\ r.at = "lock" /\ r.e = e /\ r.link = {} /\ ~r.keep
    BY DEF Spend, FirstWriting
  <2>3. IsSpend(r)
    BY <1>2, <1>4, <2>1 DEF SpendRecord, IsSpend, Spend, FirstWriting, IsRow, New, Kinds
  <2>4. FreshWith(p, r)
    BY <1>4, <2>2 DEF FreshWith
  <2> QED
    BY <1>3, <2>1, <2>2, <2>3, <2>4 DEF Spends
<1>8. ASSUME NEW r, RequestIs(r), ~Spends(r), r.at \in {"count", "drop"}, Proceed(p, r, {})
      PROVE  BudgetInv'
  <2>1. LocksFit(r, {})
    BY <1>8 DEF LocksFit, HasFamily, Working
  <2>2. EntryHeld(r, {}) /\ CategoryKept(r, {}) /\ ItemsHeld(r, {}) /\ Sound(r)
    BY <1>8 DEF EntryHeld, CategoryKept, ItemsHeld, Sound, WatchesTrue, AlertsSound, Working
  <2>3. Good(r, holds[p] \cup {}) /\ FreshWith(p, r)
    BY <1>1, <1>8, <2>1, <2>2 DEF Good, FreshWith
  <2> QED
    BY <1>1, <1>8, <2>3, Proceeds
<1>9. CASE StartCategory(p)
  <2>1. CASE Proceed(p, [op |-> "category", at |-> "count"], {})
    BY <1>8, <2>1 DEF RequestIs, Spends, Working
  <2>2. CASE /\ "delete_budget_category" \in beside
             /\ \E c \in DOMAIN categories : Proceed(p, [op |-> "drop", at |-> "drop", category |-> c], {})
    BY <1>2, <1>8, <2>2 DEF RequestIs, Spends, Working
  <2> QED
    BY <1>9, <2>1, <2>2 DEF StartCategory
<1> QED
  BY <1>5, <1>6, <1>7, <1>9 DEF StartSpending

\* The records a request becomes, a field at a time.
LEMMA AtRecord ==
    ASSUME NEW r, IsSpend(r), NEW at
    PROVE  [r EXCEPT !.at = at] =
               SpendRecord(r.op, at, r.e, r.row, r.item, r.link, r.keep, r.caps, r.before, r.alerts)
<1> DEFINE o == r.op  e == r.e  row == r.row  item == r.item  link == r.link  keep == r.keep
           caps == r.caps  before == r.before  sent == r.alerts
<1>1. r = SpendRecord(o, r.at, e, row, item, link, keep, caps, before, sent)
  BY DEF IsSpend
<1> HIDE DEF o, e, row, item, link, keep, caps, before, sent
<1>2. [r EXCEPT !.at = at] = SpendRecord(o, at, e, row, item, link, keep, caps, before, sent)
  BY <1>1 DEF SpendRecord
<1> QED
  BY <1>2 DEF o, e, row, item, link, keep, caps, before, sent

LEMMA WatchRecord ==
    ASSUME NEW r, IsSpend(r), NEW at, NEW x, NEW y
    PROVE  [r EXCEPT !.at = at, !.caps = x, !.before = y] =
               SpendRecord(r.op, at, r.e, r.row, r.item, r.link, r.keep, x, y, r.alerts)
<1> DEFINE o == r.op  e == r.e  row == r.row  item == r.item  link == r.link  keep == r.keep
           caps == r.caps  before == r.before  sent == r.alerts
<1>1. r = SpendRecord(o, r.at, e, row, item, link, keep, caps, before, sent)
  BY DEF IsSpend
<1> HIDE DEF o, e, row, item, link, keep, caps, before, sent
<1>2. [r EXCEPT !.at = at] = SpendRecord(o, at, e, row, item, link, keep, caps, before, sent)
  BY <1>1 DEF SpendRecord
<1>3. [SpendRecord(o, at, e, row, item, link, keep, caps, before, sent) EXCEPT !.caps = x] =
          SpendRecord(o, at, e, row, item, link, keep, x, before, sent)
  BY DEF SpendRecord
<1>4. [SpendRecord(o, at, e, row, item, link, keep, x, before, sent) EXCEPT !.before = y] =
          SpendRecord(o, at, e, row, item, link, keep, x, y, sent)
  BY DEF SpendRecord
<1>5. [r EXCEPT !.at = at, !.caps = x, !.before = y] = [[[r EXCEPT !.at = at] EXCEPT !.caps = x] EXCEPT !.before = y]
  OBVIOUS
<1>6. [r EXCEPT !.at = at, !.caps = x, !.before = y] = SpendRecord(o, at, e, row, item, link, keep, x, y, sent)
  BY <1>2, <1>3, <1>4, <1>5, Zenon
<1> QED
  BY <1>6 DEF o, e, row, item, link, keep, caps, before, sent

Fired(r, at, z, x) == [r EXCEPT !.at = at, !.alerts = z, !.caps = x, !.before = x]
LEMMA FireRecord ==
    ASSUME NEW r, IsSpend(r), NEW at, NEW z, NEW x
    PROVE  Fired(r, at, z, x) = SpendRecord(r.op, at, r.e, r.row, r.item, r.link, r.keep, x, x, z)
<1> DEFINE o == r.op  e == r.e  row == r.row  item == r.item  link == r.link  keep == r.keep
           caps == r.caps  before == r.before  sent == r.alerts
<1>1. r = SpendRecord(o, r.at, e, row, item, link, keep, caps, before, sent)
  BY DEF IsSpend
<1> HIDE DEF o, e, row, item, link, keep, caps, before, sent
<1>2. [r EXCEPT !.at = at] = SpendRecord(o, at, e, row, item, link, keep, caps, before, sent)
  BY <1>1 DEF SpendRecord
<1>3. [SpendRecord(o, at, e, row, item, link, keep, caps, before, sent) EXCEPT !.alerts = z] =
          SpendRecord(o, at, e, row, item, link, keep, caps, before, z)
  BY DEF SpendRecord
<1>4. [SpendRecord(o, at, e, row, item, link, keep, caps, before, z) EXCEPT !.caps = x] =
          SpendRecord(o, at, e, row, item, link, keep, x, before, z)
  BY DEF SpendRecord
<1>5. [SpendRecord(o, at, e, row, item, link, keep, x, before, z) EXCEPT !.before = x] =
          SpendRecord(o, at, e, row, item, link, keep, x, x, z)
  BY DEF SpendRecord
<1>6. Fired(r, at, z, x) =
          [[[[r EXCEPT !.at = at] EXCEPT !.alerts = z] EXCEPT !.caps = x] EXCEPT !.before = x]
  BY DEF Fired
<1>7. Fired(r, at, z, x) = SpendRecord(o, at, e, row, item, link, keep, x, x, z)
  BY <1>2, <1>3, <1>4, <1>5, <1>6, Zenon
<1> QED
  BY <1>7 DEF o, e, row, item, link, keep, caps, before, sent

LEMMA RowRecord ==
    ASSUME NEW r, IsSpend(r), NEW at, NEW x, NEW y, NEW z
    PROVE  [r EXCEPT !.at = at, !.e = x, !.row = y, !.keep = z] =
               SpendRecord(r.op, at, x, y, r.item, r.link, z, r.caps, r.before, r.alerts)
<1> DEFINE o == r.op  e == r.e  row == r.row  item == r.item  link == r.link  keep == r.keep
           caps == r.caps  before == r.before  sent == r.alerts
<1>1. r = SpendRecord(o, r.at, e, row, item, link, keep, caps, before, sent)
  BY DEF IsSpend
<1> HIDE DEF o, e, row, item, link, keep, caps, before, sent
<1>2. [r EXCEPT !.at = at] = SpendRecord(o, at, e, row, item, link, keep, caps, before, sent)
  BY <1>1 DEF SpendRecord
<1>3. [SpendRecord(o, at, e, row, item, link, keep, caps, before, sent) EXCEPT !.e = x] =
          SpendRecord(o, at, x, row, item, link, keep, caps, before, sent)
  BY DEF SpendRecord
<1>4. [SpendRecord(o, at, x, row, item, link, keep, caps, before, sent) EXCEPT !.row = y] =
          SpendRecord(o, at, x, y, item, link, keep, caps, before, sent)
  BY DEF SpendRecord
<1>5. [SpendRecord(o, at, x, y, item, link, keep, caps, before, sent) EXCEPT !.keep = z] =
          SpendRecord(o, at, x, y, item, link, z, caps, before, sent)
  BY DEF SpendRecord
<1>6. [r EXCEPT !.at = at, !.e = x, !.row = y, !.keep = z] = [[[[r EXCEPT !.at = at] EXCEPT !.e = x] EXCEPT !.row = y] EXCEPT !.keep = z]
  OBVIOUS
<1>7. [r EXCEPT !.at = at, !.e = x, !.row = y, !.keep = z] = SpendRecord(o, at, x, y, item, link, z, caps, before, sent)
  BY <1>2, <1>3, <1>4, <1>5, <1>6, Zenon
<1> QED
  BY <1>7 DEF o, e, row, item, link, keep, caps, before, sent

LEMMA LinkRecord ==
    ASSUME NEW r, IsSpend(r), NEW at, NEW x
    PROVE  [r EXCEPT !.at = at, !.link = x] =
               SpendRecord(r.op, at, r.e, r.row, r.item, x, r.keep, r.caps, r.before, r.alerts)
<1> DEFINE o == r.op  e == r.e  row == r.row  item == r.item  link == r.link  keep == r.keep
           caps == r.caps  before == r.before  sent == r.alerts
<1>1. r = SpendRecord(o, r.at, e, row, item, link, keep, caps, before, sent)
  BY DEF IsSpend
<1> HIDE DEF o, e, row, item, link, keep, caps, before, sent
<1>2. [r EXCEPT !.at = at] = SpendRecord(o, at, e, row, item, link, keep, caps, before, sent)
  BY <1>1 DEF SpendRecord
<1>3. [SpendRecord(o, at, e, row, item, link, keep, caps, before, sent) EXCEPT !.link = x] =
          SpendRecord(o, at, e, row, item, x, keep, caps, before, sent)
  BY DEF SpendRecord
<1>4. [r EXCEPT !.at = at, !.link = x] = [[r EXCEPT !.at = at] EXCEPT !.link = x]
  OBVIOUS
<1>5. [r EXCEPT !.at = at, !.link = x] = SpendRecord(o, at, e, row, item, x, keep, caps, before, sent)
  BY <1>2, <1>3, <1>4, Zenon
<1> QED
  BY <1>5 DEF o, e, row, item, link, keep, caps, before, sent

LEMMA RecordFields ==
    ASSUME NEW r, NEW op, NEW at, NEW e, NEW row, NEW item, NEW link, NEW keep, NEW caps, NEW before,
           NEW sent, r = SpendRecord(op, at, e, row, item, link, keep, caps, before, sent)
    PROVE  /\ r.op = op /\ r.at = at /\ r.e = e /\ r.row = row /\ r.item = item /\ r.link = link
           /\ r.keep = keep /\ r.caps = caps /\ r.before = before /\ r.alerts = sent
  BY DEF SpendRecord

LEMMA LockFamilyDone ==
    ASSUME BudgetAssumption, BudgetInv, NEW p \in Spenders, LockFamily(p), UNCHANGED beside
    PROVE  BudgetInv'
<1> DEFINE r == req[p]
           at == IF r.op = "create" \/ <<"x", Target(r)>> \in holds[p] THEN "watch" ELSE "row"
           s == [r EXCEPT !.at = at]
           L == Exclusive(Family)
<1>1. r.at = "lock" /\ WaitsFor(p) = {} /\ Proceed(p, s, L) /\ UNCHANGED <<Tables, beside>>
  BY DEF LockFamily
<1>2. IsSpend(r) /\ holds[p] = {} /\ at = IF r.op = "create" THEN "watch" ELSE "row"
  BY <1>1, GoodOf, SpendIs DEF Spends, LocksFit
<1>3. s = SpendRecord(r.op, at, r.e, r.row, r.item, r.link, r.keep, r.caps, r.before, r.alerts)
  BY <1>2, AtRecord
<1>4. /\ s.op = r.op /\ s.at = at /\ s.e = r.e /\ s.row = r.row /\ s.link = r.link
      /\ s.keep = r.keep /\ s.item = r.item /\ s.alerts = r.alerts
  BY <1>3, RecordFields
<1>5. IsSpend(s) /\ Spends(s)
  BY <1>1, <1>2, <1>3, <1>4 DEF IsSpend, New, Spends, Working
<1>6. Good(s, L)
  <2>1. LocksFit(s, L)
    BY <1>2, <1>4 DEF LocksFit, L, Exclusive, XLock, SLock, HasFamily, BudgetAssumption, Family
  <2>2. EntryHeld(s, L) /\ CategoryKept(s, L) /\ ItemsHeld(s, L) /\ Sound(s)
    BY <1>2, <1>4 DEF EntryHeld, CategoryKept, ItemsHeld, Sound, WatchesTrue, AlertsSound, New, Working
  <2> QED
    BY <1>5, <2>1, <2>2 DEF Good, RequestIs
<1>7. FreshWith(p, s)
  <2>1. Spends(r)
    BY <1>1 DEF Spends
  <2>2. New(s) => New(r)
    BY <1>1, <1>4 DEF New
  <2> HIDE DEF s
  <2> QED
    BY <1>4, <2>1, <2>2, FreshStays
<1>8. ASSUME NEW q \in Spenders \ {p}, NEW row \in Lockable
      PROVE  /\ XLock(row) \in L => holds[q] \cap AnyLock(row) = {}
             /\ SLock(row) \in L => XLock(row) \notin holds[q]
  <2>1. XLock(Family) \notin holds[q] /\ SLock(Family) \notin holds[q]
    BY <1>1, NobodyHolds, GoodOf DEF LocksFit
  <2> QED
    BY <2>1 DEF Exclusive, AnyLock, XLock, SLock
<1>9. holds[p] \cup L = L
  BY <1>2
<1> HIDE DEF s, L, at
<1> QED
  BY <1>1, <1>6, <1>7, <1>8, <1>9, Proceeds

LEMMA WatchDone ==
    ASSUME BudgetInv, NEW p \in Spenders, Watch(p), UNCHANGED beside
    PROVE  BudgetInv'
<1> DEFINE r == req[p]
           caps == [s \in Scopes(r) |-> IF r.row.thisMonth THEN WatchedCap(s) ELSE 0]
           before == [s \in Scopes(r) |-> Total(entries, s)]
           w == [r EXCEPT !.at = "write", !.caps = caps, !.before = before]
<1>1. r.at = "watch" /\ Proceed(p, w, {}) /\ UNCHANGED <<Tables, beside>>
  BY DEF Watch, Scopes
<1>2. IsSpend(r)
  BY <1>1, GoodOf, SpendIs DEF Spends, Working
<1> HIDE DEF caps, before
<1>3. w = SpendRecord(r.op, "write", r.e, r.row, r.item, r.link, r.keep, caps, before, r.alerts)
  BY <1>2, WatchRecord
<1>4. /\ w.op = r.op /\ w.at = "write" /\ w.e = r.e /\ w.row = r.row /\ w.link = r.link
      /\ w.keep = r.keep /\ w.item = r.item /\ w.alerts = r.alerts /\ w.caps = caps /\ w.before = before
  BY <1>3, RecordFields
<1>5. IsSpend(w) /\ Spends(w)
  BY <1>1, <1>2, <1>3, <1>4 DEF IsSpend, New, Spends, Working
<1>6. LocksFit(w, holds[p])
  BY <1>1, <1>4, GoodOf DEF LocksFit, HasFamily, Working
<1>7. EntryHeld(w, holds[p]) /\ CategoryKept(w, holds[p]) /\ ItemsHeld(w, holds[p])
  BY <1>1, <1>4, GoodOf DEF EntryHeld, CategoryKept, ItemsHeld, New, Working
<1>8. Sound(w)
  BY <1>4 DEF Sound, WatchesTrue, AlertsSound, Scopes, caps, before
<1>9. FreshWith(p, w)
  BY <1>1, <1>4, FreshStays DEF Spends, New, Working
<1>10. Good(w, holds[p] \cup {})
  BY <1>5, <1>6, <1>7, <1>8 DEF Good, RequestIs
<1> HIDE DEF w
<1> QED
  BY <1>1, <1>9, <1>10, Proceeds

LEMMA InsertLinksDone ==
    ASSUME BudgetInv, NEW p \in Spenders, InsertLinks(p), UNCHANGED beside
    PROVE  BudgetInv'
<1> DEFINE r == req[p]
<1>1. PICK at \in {"tripped", "fire"} : Proceed(p, [r EXCEPT !.at = at], {})
  BY DEF InsertLinks
<1> DEFINE w == [r EXCEPT !.at = at]
<1>2. r.at = "link" /\ Proceed(p, w, {}) /\ UNCHANGED <<Tables, beside>>
  BY <1>1 DEF InsertLinks
<1>3. IsSpend(r)
  BY <1>2, GoodOf, SpendIs DEF Spends, Working
<1>4. w = SpendRecord(r.op, at, r.e, r.row, r.item, r.link, r.keep, r.caps, r.before, r.alerts)
  BY <1>3, AtRecord
<1>5. /\ w.op = r.op /\ w.at = at /\ w.e = r.e /\ w.row = r.row /\ w.link = r.link
      /\ w.keep = r.keep /\ w.item = r.item /\ w.alerts = r.alerts
      /\ w.caps = r.caps /\ w.before = r.before
  BY <1>4, RecordFields
<1>6. IsSpend(w) /\ Spends(w)
  BY <1>2, <1>3, <1>4, <1>5 DEF IsSpend, New, Spends, Working
<1>7. LocksFit(w, holds[p])
  BY <1>2, <1>5, GoodOf DEF LocksFit, HasFamily, Working
<1>8. EntryHeld(w, holds[p]) /\ CategoryKept(w, holds[p]) /\ ItemsHeld(w, holds[p])
  BY <1>2, <1>5, GoodOf DEF EntryHeld, CategoryKept, ItemsHeld, New, Working
<1>9. Sound(w)
  BY <1>2, <1>5, GoodOf DEF Sound, WatchesTrue, AlertsSound, Scopes
<1>10. FreshWith(p, w)
  BY <1>2, <1>5, FreshStays DEF Spends, New, Working
<1>11. Good(w, holds[p] \cup {})
  BY <1>6, <1>7, <1>8, <1>9 DEF Good, RequestIs
<1> HIDE DEF w
<1> QED
  BY <1>2, <1>10, <1>11, Proceeds

\* The rows a transaction may name are of their tables.
LEMMA Tabled ==
    ASSUME BudgetAssumption, BudgetInv
    PROVE  /\ DOMAIN entries \subseteq Entries /\ DOMAIN entries \cap gone = {} /\ items \subseteq Items
           /\ DOMAIN categories \subseteq Categories /\ dropped \subseteq Categories
           /\ DOMAIN categories \cap dropped = {}
           /\ \A e \in DOMAIN entries : /\ IsRow(entries[e])
                                        /\ entries[e].category \in DOMAIN categories \cup {Unset}
           /\ Entries \cap Categories = {} /\ Entries \cap Items = {} /\ Categories \cap Items = {}
           /\ Family \notin Entries \cup Categories \cup Items /\ Unset \notin Entries \cup Categories
           /\ Unset # Family
  BY DEF BudgetInv, BudgetTypeOK, BudgetAssumption, Family, Row, IsRow

LEMMA LockRowDone ==
    ASSUME BudgetAssumption, BudgetInv, NEW p \in Spenders, LockRow(p), UNCHANGED beside
    PROVE  BudgetInv'
<1> DEFINE r == req[p]
           e == Target(r)
           item == IF r.op = "price" THEN {SLock(r.item)} ELSE {}
           row == IF r.op = "price" THEN [r.row EXCEPT !.category = entries[e].category] ELSE r.row
           found == [r EXCEPT !.at = AfterRow(p), !.e = e, !.row = row, !.keep = r.op = "price" \/ @]
           new == [r EXCEPT !.at = AfterRow(p), !.link = {r.item}]
<1>1. /\ r.at = "row" /\ WaitsFor(p) = {} /\ UNCHANGED <<Tables, beside>>
      /\ \/ End(p)
         \/ e \in DOMAIN entries /\ Proceed(p, found, Exclusive(e) \cup item)
         \/ /\ e \notin DOMAIN entries /\ r.op # "update" /\ (r.op = "price" => r.item \in items)
            /\ Proceed(p, new, item)
  BY DEF LockRow, SLock
<1>2. /\ IsSpend(r) /\ XLock(Family) \in holds[p] /\ AfterRow(p) = "watch"
      /\ r.op \in {"update", "price"} /\ (r.op = "price" => ~r.keep /\ r.item \in Items /\ r.link = {})
  <3>1. IsSpend(r) /\ XLock(Family) \in holds[p]
    BY <1>1, GoodOf, SpendIs DEF Spends, LocksFit, HasFamily
  <3> QED
    BY <1>1, <3>1 DEF IsSpend, Kinds, AfterRow, XLock
<1>3. CASE End(p)
  BY <1>1, <1>3, Ends
<1>4. ASSUME NEW q \in Spenders \ {p}, NEW lock \in Lockable, SLock(lock) \in item
      PROVE  FALSE
  BY <1>2, <1>4, Tabled DEF SLock, Lockable
<1>5. CASE e \in DOMAIN entries /\ Proceed(p, found, Exclusive(e) \cup item)
  <2>0. PICK k \in BOOLEAN : k = (r.op = "price" \/ r.keep)
    OBVIOUS
  <2> DEFINE L == Exclusive(e) \cup item
  <2>1. found = [r EXCEPT !.at = "watch", !.e = e, !.row = row, !.keep = k]
    BY <1>2, <2>0
  <2>2. found = SpendRecord(r.op, "watch", e, row, r.item, r.link, k, r.caps, r.before, r.alerts)
    <3> HIDE DEF e, row, found
    <3> QED
      <4>1. [r EXCEPT !.at = "watch", !.e = e, !.row = row, !.keep = k] =
                SpendRecord(r.op, "watch", e, row, r.item, r.link, k, r.caps, r.before, r.alerts)
        <5>1. IsSpend(r)
          BY <1>2
        <5> HIDE DEF r
        <5> QED
          BY <5>1, RowRecord
      <4> QED
        BY <2>1, <4>1
  <2>3. IsRow(row) /\ row.category \in DOMAIN categories \cup dropped \cup {Unset}
    <3>1. IsRow(r.row) /\ r.row.category \in DOMAIN categories \cup dropped \cup {Unset}
      BY <1>2 DEF IsSpend
    <3>2. entries[e].category \in DOMAIN categories \cup {Unset}
      BY <1>5, Tabled
    <3>3. [r.row EXCEPT !.category = entries[e].category] =
              [amount |-> r.row.amount, thisMonth |-> r.row.thisMonth, category |-> entries[e].category]
      BY <3>1 DEF IsRow
    <3> HIDE DEF e
    <3> QED
      BY <3>1, <3>2, <3>3 DEF IsRow
  <2> HIDE DEF row, e, found
  <2>4. /\ found.op = r.op /\ found.at = "watch" /\ found.e = e /\ found.row = row
        /\ found.link = r.link /\ found.keep = k /\ found.alerts = r.alerts
        /\ found.item = r.item /\ found.caps = r.caps /\ found.before = r.before
    BY <2>2, RecordFields
  <2>5. k \in BOOLEAN /\ ~New(found)
    BY <1>2, <2>0, <2>4 DEF New
  <2>6. IsSpend(found) /\ Spends(found)
    <3>1. found = SpendRecord(found.op, found.at, found.e, found.row, found.item, found.link, found.keep,
                              found.caps, found.before, found.alerts)
      BY <2>2, <2>4
    <3>2. e \in Entries
      BY <1>5, Tabled
    <3> QED
      BY <1>2, <1>5, <2>3, <2>4, <2>5, <3>1, <3>2 DEF IsSpend, Spends, Working
  <2>7. LocksFit(found, holds[p] \cup L)
    BY <1>1, <1>2, <2>4, <1>5, GoodOf, Tabled DEF LocksFit, HasFamily, Working, XLock, SLock, Exclusive
  <2>8. /\ EntryHeld(found, holds[p] \cup L) /\ CategoryKept(found, holds[p] \cup L)
        /\ ItemsHeld(found, holds[p] \cup L)
    BY <1>2, <1>5, <2>4 DEF EntryHeld, CategoryKept, ItemsHeld, Exclusive, XLock
  <2>9. Sound(found)
    BY <2>4 DEF Sound, WatchesTrue, AlertsSound
  <2>10. Good(found, holds[p] \cup L)
    BY <2>6, <2>7, <2>8, <2>9 DEF Good, RequestIs
  <2>11. FreshWith(p, found)
    <3>1. ASSUME NEW q \in Spenders \ {p}, Spends(req[q]), New(req[q])
          PROVE  req[q].e # e
      BY <1>5, <3>1, GoodOf DEF Fresh
    <3> QED
      BY <2>4, <2>5, <3>1 DEF FreshWith
  <2>12. ASSUME NEW q \in Spenders \ {p}, NEW lock \in Lockable
         PROVE  /\ XLock(lock) \in L => holds[q] \cap AnyLock(lock) = {}
                /\ SLock(lock) \in L => XLock(lock) \notin holds[q]
    <3>1. XLock(e) \notin holds[q] /\ SLock(e) \notin holds[q]
      BY <1>1, <1>5, NobodyHolds, GoodOf, Tabled DEF LocksFit, e
    <3>2. XLock(lock) \in L => lock = e
      BY DEF Exclusive, XLock, SLock
    <3>3. SLock(lock) \notin L
      BY <1>4 DEF Exclusive, SLock
    <3> QED
      BY <3>1, <3>2, <3>3 DEF AnyLock, XLock, SLock
  <2> HIDE DEF L
  <2> QED
    BY <1>1, <1>5, <2>10, <2>11, <2>12, Proceeds DEF L
<1>6. CASE e \notin DOMAIN entries /\ r.op = "price" /\ r.item \in items /\ Proceed(p, new, item)
  <2>1. new = SpendRecord(r.op, "watch", r.e, r.row, r.item, {r.item}, r.keep, r.caps, r.before, r.alerts)
    BY <1>2, LinkRecord
  <2> HIDE DEF new, e
  <2>2. /\ new.op = r.op /\ new.at = "watch" /\ new.e = r.e /\ new.row = r.row
        /\ new.link = {r.item} /\ new.keep = r.keep /\ new.alerts = r.alerts
        /\ new.item = r.item /\ new.caps = r.caps /\ new.before = r.before
    BY <2>1, RecordFields
  <2>3. IsSpend(new) /\ Spends(new) /\ New(new)
    <3>1. new = SpendRecord(new.op, new.at, new.e, new.row, new.item, new.link, new.keep,
                            new.caps, new.before, new.alerts)
      BY <2>1, <2>2
    <3> QED
      BY <1>2, <1>6, <2>2, <3>1 DEF IsSpend, New, Spends, Working
  <2>4. LocksFit(new, holds[p] \cup item)
    BY <1>1, <1>2, <1>6, <2>2, GoodOf, Tabled DEF LocksFit, HasFamily, Working, XLock, SLock
  <2>5. /\ EntryHeld(new, holds[p] \cup item) /\ CategoryKept(new, holds[p] \cup item)
        /\ ItemsHeld(new, holds[p] \cup item)
    BY <1>6, <2>2, <2>3 DEF EntryHeld, CategoryKept, ItemsHeld
  <2>6. Sound(new)
    BY <2>2 DEF Sound, WatchesTrue, AlertsSound
  <2>7. Good(new, holds[p] \cup item)
    BY <2>3, <2>4, <2>5, <2>6 DEF Good, RequestIs
  <2>8. FreshWith(p, new)
    BY <1>1, <1>2, <1>6, <2>2, FreshStays DEF Spends, New
  <2>9. \A lock : XLock(lock) \notin item
    BY DEF XLock, SLock
  <2> HIDE DEF item
  <2> QED
    BY <1>1, <1>4, <1>6, <2>7, <2>8, <2>9, Proceeds
<1> QED
  BY <1>1, <1>2, <1>3, <1>5, <1>6

LEMMA WriteEntryDone ==
    ASSUME BudgetAssumption, BudgetInv, NEW p \in Spenders, WriteEntry(p), UNCHANGED beside
    PROVE  BudgetInv'
<1> DEFINE r == req[p]
           category == IF ChecksCategory(r) THEN {SLock(r.row.category)} ELSE {}
           L == category \cup Exclusive(r.e) \cup {SLock(i) : i \in r.link}
           at == IF r.link = {} THEN "fire" ELSE "link"
           w == [r EXCEPT !.at = at]
           refused == \/ ChecksCategory(r) /\ r.row.category \notin DOMAIN categories
                      \/ r.op # "price" /\ ~(r.link \subseteq items)
<1>1. /\ r.at = "write" /\ WaitsFor(p) = {} /\ UNCHANGED <<Tables, beside>>
      /\ End(p) \/ (~refused /\ Proceed(p, w, L))
  BY DEF WriteEntry, SLock
<1>2. CASE End(p)
  BY <1>1, <1>2, Ends
<1>3. CASE ~refused /\ Proceed(p, w, L)
  <2>1. IsSpend(r) /\ Spends(r) /\ at \in {"fire", "link"} /\ r.e \in Entries /\ r.link \subseteq Items
        /\ r.row.category \in Categories \cup {Unset}
    <3>1. IsSpend(r) /\ Spends(r)
      BY <1>1, GoodOf, SpendIs DEF Spends, Working
    <3> QED
      BY <3>1, Tabled DEF IsSpend
  <2> HIDE DEF at
  <2>2. w = SpendRecord(r.op, at, r.e, r.row, r.item, r.link, r.keep, r.caps, r.before, r.alerts)
    <3> HIDE DEF r
    <3> QED
      BY <2>1, AtRecord
  <2>3. /\ w.op = r.op /\ w.at = at /\ w.e = r.e /\ w.row = r.row /\ w.link = r.link /\ w.item = r.item
        /\ w.keep = r.keep /\ w.alerts = r.alerts /\ w.caps = r.caps /\ w.before = r.before
    <3> HIDE DEF w
    <3> QED
      BY <2>2, RecordFields
  <2> HIDE DEF w
  <2>4. IsSpend(w) /\ Spends(w)
    <3>1. w = SpendRecord(w.op, w.at, w.e, w.row, w.item, w.link, w.keep, w.caps, w.before, w.alerts)
      BY <2>2, <2>3
    <3> QED
      BY <1>1, <2>1, <2>3, <3>1 DEF IsSpend, New, Spends, Working
  <2>5. /\ ChecksCategory(r) => r.row.category \in DOMAIN categories /\ r.row.category \in Categories
        /\ SLock(r.row.category) \in L \/ ~ChecksCategory(r)
        /\ XLock(r.e) \in L /\ \A i \in r.link : SLock(i) \in L
    BY <1>3, Tabled DEF Exclusive, XLock
  <2>6. \A row : XLock(row) \in L => row = r.e
    BY DEF XLock, SLock, Exclusive
  <2>7. \A row \in Lockable : SLock(row) \in L => ChecksCategory(r) /\ row = r.row.category
    <3>1. \A row \in Lockable : row \notin r.link
      BY <2>1, Tabled DEF Lockable
    <3> QED
      BY <3>1 DEF XLock, SLock, Exclusive
  <2> HIDE DEF L, category
  <2>8. LocksFit(w, holds[p] \cup L)
    <3>1. \A e \in Entries : SLock(e) \notin L /\ SLock(Family) \notin L
      BY <2>5, <2>7, Tabled DEF Lockable
    <3>2. \A c \in Categories : XLock(c) \notin L
      BY <2>1, <2>6, Tabled
    <3> QED
      BY <1>1, <2>1, <2>3, <2>6, <3>1, <3>2, GoodOf DEF LocksFit, HasFamily, Working
  <2>9. EntryHeld(w, holds[p] \cup L)
    BY <1>1, <2>3, <2>5, GoodOf DEF EntryHeld, New, Working
  <2>10. CategoryKept(w, holds[p] \cup L)
    <3>1. CASE ChecksCategory(r)
      BY <2>3, <2>5, <3>1 DEF CategoryKept
    <3>2. CASE ~ChecksCategory(r) /\ r.row.category # Unset
      <4>1. r.e \in DOMAIN entries /\ entries[r.e].category = r.row.category
        BY <3>2 DEF ChecksCategory
      <4>2. ~New(r)
        BY <2>1, <4>1, GoodOf DEF Fresh
      <4> QED
        BY <2>3, <3>2, <4>1, <4>2, Tabled DEF CategoryKept, New
    <3> QED
      BY <2>3, <3>1, <3>2 DEF CategoryKept
  <2>11. ItemsHeld(w, holds[p] \cup L)
    <3>1. r.op = "price" => r.link \subseteq items
      BY <1>1, GoodOf DEF ItemsHeld, Working
    <3>2. r.link \subseteq items
      BY <1>3, <3>1
    <3> QED
      BY <2>3, <2>5, <3>2 DEF ItemsHeld
  <2>12. Sound(w)
    BY <1>1, <2>1, <2>3, GoodOf DEF Sound, WatchesTrue, AlertsSound, Scopes
  <2>13. Good(w, holds[p] \cup L)
    BY <2>4, <2>8, <2>9, <2>10, <2>11, <2>12 DEF Good, RequestIs
  <2>14. FreshWith(p, w)
    BY <2>1, <2>3, FreshStays DEF New
  <2>15. ASSUME NEW q \in Spenders \ {p}, NEW row \in Lockable
         PROVE  /\ XLock(row) \in L => holds[q] \cap AnyLock(row) = {}
                /\ SLock(row) \in L => XLock(row) \notin holds[q]
    <3>1. XLock(r.e) \notin holds[q]
      <4>1. CASE New(r)
        BY <2>1, <4>1, GoodOf DEF Fresh, LocksFit, Spends
      <4>2. CASE ~New(r)
        <5>1. XLock(r.e) \in holds[p]
          BY <1>1, <4>2, GoodOf DEF EntryHeld, Working
        <5> QED
          BY <2>1, <5>1 DEF BudgetInv, LocksApart, ApartFrom, Lockable, AnyLock, XLock
      <4> QED
        BY <4>1, <4>2
    <3>2. SLock(r.e) \notin holds[q]
      BY <2>1, GoodOf DEF LocksFit
    <3>3. ChecksCategory(r) => XLock(r.row.category) \notin holds[q]
      BY <1>1, NobodyHolds
    <3> QED
      BY <2>6, <2>7, <3>1, <3>2, <3>3 DEF AnyLock, XLock, SLock
  <2> QED
    BY <1>1, <1>3, <2>13, <2>14, <2>15, Proceeds
<1> QED
  BY <1>1, <1>2, <1>3

LEMMA FireDone ==
    ASSUME BudgetAssumption, BudgetInv, NEW p \in Spenders, Fire(p), UNCHANGED beside
    PROVE  BudgetInv'
<1> DEFINE r == req[p]
           L == IF AlertsCategory(r) THEN {SLock(r.row.category)} ELSE {}
           w == [r EXCEPT !.at = "commit", !.alerts = ToSend(r), !.caps = << >>, !.before = << >>]
<1>1. /\ r.at = "fire" /\ WaitsFor(p) = {} /\ UNCHANGED <<Tables, beside>>
      /\ End(p) \/ ((AlertsCategory(r) => r.row.category \in DOMAIN categories) /\ Proceed(p, w, L))
  BY DEF Fire, SLock
<1>2. CASE End(p)
  BY <1>1, <1>2, Ends
<1>3. CASE (AlertsCategory(r) => r.row.category \in DOMAIN categories) /\ Proceed(p, w, L)
  <2>1. IsSpend(r) /\ Spends(r) /\ (AlertsCategory(r) => r.row.category \in Categories)
    BY <1>1, <1>3, GoodOf, SpendIs, Tabled DEF Spends, Working
  <2> DEFINE sent == ToSend(r)  none == << >>
  <2>2. w = SpendRecord(r.op, "commit", r.e, r.row, r.item, r.link, r.keep, none, none, sent)
    <3> HIDE DEF r, sent, none
    <3>1. IsSpend(r)
      BY <2>1
    <3>2. Fired(r, "commit", sent, none) =
              SpendRecord(r.op, "commit", r.e, r.row, r.item, r.link, r.keep, none, none, sent)
      BY <3>1, FireRecord
    <3>3. w = Fired(r, "commit", sent, none)
      BY DEF r, sent, none, Fired
    <3> QED
      BY <3>2, <3>3
  <2> HIDE DEF w, none
  <2>3. /\ w.op = r.op /\ w.at = "commit" /\ w.e = r.e /\ w.row = r.row /\ w.link = r.link
        /\ w.item = r.item /\ w.keep = r.keep /\ w.alerts = sent /\ w.caps = none /\ w.before = none
    <3> HIDE DEF sent
    <3> QED
      BY <2>2, RecordFields
  <2>4. IsSpend(w) /\ Spends(w)
    <3>1. w = SpendRecord(w.op, w.at, w.e, w.row, w.item, w.link, w.keep, w.caps, w.before, w.alerts)
      BY <2>2, <2>3
    <3>2. sent \subseteq Thresholds
      BY DEF ToSend, Crossed
    <3>3. \A a \in sent : a[1] \in Scopes(w)
      BY <2>3 DEF ToSend, Crossed, Scopes
    <3> HIDE DEF sent
    <3> QED
      BY <1>1, <2>1, <2>3, <3>1, <3>2, <3>3 DEF IsSpend, New, Spends, Working
  <2> HIDE DEF sent
  <2>5. LocksFit(w, holds[p] \cup L)
    BY <1>1, <2>1, <2>3, GoodOf, Tabled DEF LocksFit, HasFamily, Working, XLock, SLock
  <2>6. /\ EntryHeld(w, holds[p] \cup L) /\ CategoryKept(w, holds[p] \cup L)
        /\ ItemsHeld(w, holds[p] \cup L)
    BY <1>1, <2>3, GoodOf DEF EntryHeld, CategoryKept, ItemsHeld, New, Working
  <2>7. ASSUME NothingBeside
        PROVE  AlertsSound(w)
    <3>1. WatchesTrue(r)
      BY <2>7, GoodOf DEF Sound
    <3>2. \A s \in Scopes(r) : s = Unset \/ s \in DOMAIN categories
      BY <1>1, GoodOf DEF CategoryKept, Scopes
    <3>3. \A s \in Scopes(r) : /\ ~r.row.thisMonth => r.caps[s] = 0
                               /\ r.row.thisMonth => r.caps[s] = WatchedCap(s)
                                                     /\ r.before[s] = Total(entries, s)
      BY <1>1, <3>1, <3>2 DEF WatchesTrue
    <3>4. EntriesWith(w) = EntriesWith(r) /\ Scopes(w) = Scopes(r)
      BY <2>3 DEF EntriesWith, Scopes
    <3>5. ASSUME NEW a \in sent
          PROVE  r.row.thisMonth /\ a[1] \in Scopes(r) /\ Past(a, EntriesWith(r))
      <4>1. a[1] \in Scopes(r) /\ Reached(a[2], Total(EntriesWith(r), a[1]), r.caps[a[1]])
        BY <3>5 DEF sent, ToSend, Crossed, Scopes
      <4>2. \A t, n : ~Reached(t, n, 0)
        BY DEF Reached
      <4> QED
        BY <3>3, <4>1, <4>2 DEF Past
    <3>6. ASSUME NEW a \in Thresholds, r.row.thisMonth, a[1] \in Scopes(r), ~Past(a, entries),
                 Past(a, EntriesWith(r))
          PROVE  a \in alerts \cup sent
      <4>1. /\ ~Reached(a[2], r.before[a[1]], r.caps[a[1]])
            /\ Reached(a[2], Total(EntriesWith(r), a[1]), r.caps[a[1]])
        BY <3>3, <3>6 DEF Past
      <4> QED
        BY <3>6, <4>1 DEF sent, ToSend, Crossed, Scopes
    <3> QED
      BY <2>3, <3>4, <3>5, <3>6 DEF AlertsSound
  <2>8. Sound(w)
    BY <2>3, <2>7 DEF Sound, WatchesTrue
  <2>9. Good(w, holds[p] \cup L)
    BY <2>4, <2>5, <2>6, <2>8 DEF Good, RequestIs
  <2>10. FreshWith(p, w)
    BY <2>1, <2>3, FreshStays DEF New
  <2>11. ASSUME NEW q \in Spenders \ {p}, NEW row \in Lockable
         PROVE  /\ XLock(row) \in L => holds[q] \cap AnyLock(row) = {}
                /\ SLock(row) \in L => XLock(row) \notin holds[q]
    <3>1. AlertsCategory(r) => XLock(r.row.category) \notin holds[q]
      BY <1>1, NobodyHolds
    <3> QED
      BY <3>1 DEF XLock, SLock
  <2> HIDE DEF L
  <2> QED
    BY <1>1, <1>3, <2>9, <2>10, <2>11, Proceeds
<1> QED
  BY <1>1, <1>2, <1>3

LEMMA CategoryMoves ==
    ASSUME BudgetAssumption, BudgetInv, NEW p \in Spenders, Count(p) \/ LockCategory(p), UNCHANGED beside
    PROVE  BudgetInv'
<1> DEFINE r == req[p]
<1>1. UNCHANGED <<Tables, beside>> /\ WaitsFor(p) = {}
  BY DEF Count, LockCategory
<1>2. CASE End(p)
  BY <1>1, <1>2, Ends
<1>3. CASE r.at = "count" /\ Proceed(p, [r EXCEPT !.at = "insert"], CountLock)
  <2> DEFINE w == [op |-> "category", at |-> "insert"]
  <2>1. [r EXCEPT !.at = "insert"] = w /\ holds[p] = {}
    BY <1>3, GoodOf, CategoryIs DEF LocksFit
  <2>2. Good(w, CountLock)
    BY Tabled DEF Good, RequestIs, LocksFit, EntryHeld, CategoryKept, ItemsHeld, Sound, WatchesTrue,
       AlertsSound, HasFamily, Working, CountLock, Exclusive, XLock, SLock
  <2>3. FreshWith(p, w)
    BY DEF FreshWith, Spends, Working
  <2>4. ASSUME NEW q \in Spenders \ {p}, NEW row \in Lockable
        PROVE  /\ XLock(row) \in CountLock => holds[q] \cap AnyLock(row) = {}
               /\ SLock(row) \in CountLock => XLock(row) \notin holds[q]
    <3>1. XLock(Family) \notin holds[q] /\ SLock(Family) \notin holds[q]
      BY <1>1, <1>3, NobodyHolds, GoodOf DEF LocksFit
    <3> QED
      BY <3>1 DEF CountLock, Exclusive, AnyLock, XLock, SLock
  <2>5. holds[p] \cup CountLock = CountLock
    BY <2>1
  <2> HIDE DEF w
  <2> QED
    BY <1>1, <1>3, <2>1, <2>2, <2>3, <2>4, <2>5, Proceeds
<1>4. CASE /\ r.at = "drop" /\ r.category \in DOMAIN categories
           /\ Proceed(p, [r EXCEPT !.at = "clear"], Exclusive(r.category))
  <2> DEFINE c == r.category
             w == [op |-> "drop", at |-> "clear", category |-> c]
  <2>1. /\ [r EXCEPT !.at = "clear"] = w /\ holds[p] = {}
        /\ "delete_budget_category" \in beside /\ c \in Categories
    BY <1>4, GoodOf, CategoryIs DEF LocksFit
  <2> HIDE DEF c
  <2>2. Good(w, Exclusive(c))
    <3>1. c \in DOMAIN categories
      BY <1>4 DEF c
    <3>2. RequestIs(w)
      BY <2>1 DEF RequestIs
    <3>3. LocksFit(w, Exclusive(c))
      BY <2>1, <3>1, Tabled DEF LocksFit, HasFamily, Working, Exclusive, XLock, SLock
    <3> QED
      BY <3>2, <3>3 DEF Good, EntryHeld, CategoryKept, ItemsHeld, Sound, WatchesTrue, AlertsSound, Working
  <2>3. FreshWith(p, w)
    BY DEF FreshWith, Spends, Working
  <2>4. ASSUME NEW q \in Spenders \ {p}, NEW row \in Lockable
        PROVE  /\ XLock(row) \in Exclusive(c) => holds[q] \cap AnyLock(row) = {}
               /\ SLock(row) \in Exclusive(c) => XLock(row) \notin holds[q]
    <3>1. holds[q] \cap AnyLock(c) = {}
      BY <1>1, <1>4, NobodyHolds DEF c
    <3> QED
      BY <3>1 DEF Exclusive, XLock, SLock
  <2>5. holds[p] \cup Exclusive(c) = Exclusive(c)
    BY <2>1
  <2>6. Proceed(p, w, Exclusive(c))
    BY <1>4, <2>1 DEF c
  <2> HIDE DEF w
  <2> QED
    BY <1>1, <2>2, <2>3, <2>4, <2>5, <2>6, Proceeds
<1> QED
  BY <1>2, <1>3, <1>4 DEF Count, LockCategory

-----------------------------------------------------------------------------
\* What has been spent, when an expense is written or a category deleted.
WithEntry(es, e, row) == [f \in DOMAIN es \cup {e} |-> IF f = e THEN row ELSE es[f]]
Without(es, c) == [e \in DOMAIN es |-> IF es[e].category = c THEN [es[e] EXCEPT !.category = Unset]
                                       ELSE es[e]]

Counted(es, scope) == {f \in DOMAIN es : es[f].thisMonth /\ scope \in {Unset, es[f].category}}

LEMMA SameTotal ==
    ASSUME NEW es, NEW ws, NEW scope, Counted(ws, scope) = Counted(es, scope),
           \A e \in Counted(es, scope) : ws[e].amount = es[e].amount
    PROVE  Total(ws, scope) = Total(es, scope)
<1>1. Expenses(ws, scope) = [e \in Counted(ws, scope) |-> ws[e].amount]
  BY DEF Expenses, Counted
<1>2. Expenses(es, scope) = [e \in Counted(es, scope) |-> es[e].amount]
  BY DEF Expenses, Counted
<1> HIDE DEF Expenses, Counted
<1>3. Expenses(ws, scope) = Expenses(es, scope)
  BY <1>1, <1>2
<1> QED
  BY <1>3 DEF Total

\* An expense created out of the month spends nothing of it.
LEMMA OutOfTheMonth ==
    ASSUME NEW es, NEW e, e \notin DOMAIN es, NEW row, ~row.thisMonth, NEW f, f # e, NEW other, NEW scope
    PROVE  /\ Total(WithEntry(es, e, row), scope) = Total(es, scope)
           /\ Total(WithEntry(WithEntry(es, e, row), f, other), scope) =
              Total(WithEntry(es, f, other), scope)
<1>1. Total(WithEntry(es, e, row), scope) = Total(es, scope)
  <2> DEFINE ws == WithEntry(es, e, row)
  <2>1. DOMAIN ws = DOMAIN es \cup {e} /\ ws[e] = row /\ \A g \in DOMAIN es : ws[g] = es[g]
    BY DEF WithEntry
  <2> HIDE DEF ws
  <2> QED
    <3>1. ASSUME NEW g
          PROVE  g \in Counted(ws, scope) <=> g \in Counted(es, scope)
      BY <2>1 DEF Counted
    <3>2. Counted(ws, scope) = Counted(es, scope)
      BY <3>1
    <3>3. \A g \in Counted(es, scope) : ws[g].amount = es[g].amount
      BY <3>2, <2>1 DEF Counted
    <3>4. Total(ws, scope) = Total(es, scope)
      BY <3>2, <3>3, SameTotal
    <3> QED
      BY <3>4 DEF ws
<1>2. Total(WithEntry(WithEntry(es, e, row), f, other), scope) = Total(WithEntry(es, f, other), scope)
  <2> DEFINE us == WithEntry(WithEntry(es, e, row), f, other)
             vs == WithEntry(es, f, other)
  <2>1. /\ DOMAIN us = DOMAIN es \cup {e, f} /\ us[e] = row /\ us[f] = other
        /\ \A g \in DOMAIN es \ {f} : us[g] = es[g]
    BY DEF WithEntry
  <2>2. DOMAIN vs = DOMAIN es \cup {f} /\ vs[f] = other /\ \A g \in DOMAIN es \ {f} : vs[g] = es[g]
    BY DEF WithEntry
  <2> HIDE DEF us, vs
  <2> QED
    <3>1. ASSUME NEW g
          PROVE  g \in Counted(us, scope) <=> g \in Counted(vs, scope)
      BY <2>1, <2>2 DEF Counted
    <3>2. Counted(us, scope) = Counted(vs, scope)
      BY <3>1
    <3>3. \A g \in Counted(vs, scope) : us[g].amount = vs[g].amount
      BY <3>2, <2>1, <2>2 DEF Counted
    <3>4. Total(us, scope) = Total(vs, scope)
      BY <3>2, <3>3, SameTotal
    <3> QED
      BY <3>4 DEF us, vs
<1> QED
  BY <1>1, <1>2

\* A category deleted takes nothing from what the others, and the family, have spent.
LEMMA OtherScopes ==
    ASSUME NEW es, NEW c, c # Unset, NEW scope, scope # c, \A e \in DOMAIN es : IsRow(es[e]),
           NEW f, NEW row, row.category # c
    PROVE  /\ Total(Without(es, c), scope) = Total(es, scope)
           /\ Total(WithEntry(Without(es, c), f, row), scope) = Total(WithEntry(es, f, row), scope)
<1> DEFINE ws == Without(es, c)
<1>1. /\ DOMAIN ws = DOMAIN es
      /\ \A e \in DOMAIN es : /\ ws[e].amount = es[e].amount /\ ws[e].thisMonth = es[e].thisMonth
                              /\ ws[e].category = IF es[e].category = c THEN Unset ELSE es[e].category
  BY DEF Without, IsRow
<1> HIDE DEF ws
<1>2. Total(ws, scope) = Total(es, scope)
  BY <1>1, SameTotal DEF Counted
<1>3. Total(WithEntry(ws, f, row), scope) = Total(WithEntry(es, f, row), scope)
  <2> DEFINE us == WithEntry(ws, f, row)
             vs == WithEntry(es, f, row)
  <2>1. DOMAIN us = DOMAIN es \cup {f} /\ us[f] = row /\ \A g \in DOMAIN es \ {f} : us[g] = ws[g]
    BY <1>1 DEF WithEntry
  <2>2. DOMAIN vs = DOMAIN es \cup {f} /\ vs[f] = row /\ \A g \in DOMAIN es \ {f} : vs[g] = es[g]
    BY DEF WithEntry
  <2> HIDE DEF us, vs
  <2> QED
    <3>1. ASSUME NEW g
          PROVE  g \in Counted(us, scope) <=> g \in Counted(vs, scope)
      BY <1>1, <2>1, <2>2 DEF Counted
    <3>2. Counted(us, scope) = Counted(vs, scope)
      BY <3>1
    <3>3. \A g \in Counted(vs, scope) : us[g].amount = vs[g].amount
      BY <3>2, <1>1, <2>1, <2>2 DEF Counted
    <3>4. Total(us, scope) = Total(vs, scope)
      BY <3>2, <3>3, SameTotal
    <3> QED
      BY <3>4 DEF us, vs
<1> QED
  BY <1>2, <1>3 DEF ws

-----------------------------------------------------------------------------
\* The tables change, and the requests of Q stay where they are, the others ending.
LEMMA TablesMove ==
    ASSUME BudgetInv, NEW Q \in SUBSET Spenders,
           req' = [q \in Spenders |-> IF q \in Q THEN req[q] ELSE AtRest],
           holds' = [q \in Spenders |-> IF q \in Q THEN holds[q] ELSE {}],
           BudgetTypeOK', IsFiniteSet(DOMAIN entries'),
           \A q \in Q : \A r, h : r = req[q] /\ h = holds[q] => Good(r, h)',
           \A q \in Q : Spends(req[q]) /\ New(req[q]) => req[q].e \notin DOMAIN entries' \cup gone'
    PROVE  BudgetInv'
<1>1. Arrays'
  BY DEF Arrays
<1>2. Good(AtRest, {})'
  BY DEF Good, RequestIs, LocksFit, EntryHeld, CategoryKept, ItemsHeld, Sound, WatchesTrue, AlertsSound,
     HasFamily, Working, AtRest
<1>3. AllGood'
  <2>1. ASSUME NEW q \in Spenders, NEW r, NEW h, r = req'[q], h = holds'[q]
        PROVE  Good(r, h)'
    BY <1>2, <2>1
  <2> QED
    BY <2>1 DEF AllGood
<1>4. AllFresh'
  <2>1. ~Spends(AtRest)
    BY DEF Spends, Working, AtRest
  <2>2. AllFresh
    BY DEF BudgetInv
  <2> QED
    BY <2>1, <2>2 DEF AllFresh, Fresh
<1>5. LocksApart'
  BY DEF BudgetInv, LocksApart, ApartFrom
<1> QED
  BY <1>1, <1>3, <1>4, <1>5 DEF BudgetInv

\* The request that ends, or none.
LEMMA EndsAlone ==
    ASSUME BudgetInv, NEW p \in Spenders, End(p)
    PROVE  /\ req' = [q \in Spenders |-> IF q \in Spenders \ {p} THEN req[q] ELSE AtRest]
           /\ holds' = [q \in Spenders |-> IF q \in Spenders \ {p} THEN holds[q] ELSE {}]
  BY DEF BudgetInv, Arrays, End
LEMMA NobodyEnds ==
    ASSUME BudgetInv, UNCHANGED <<req, holds>>
    PROVE  /\ req' = [q \in Spenders |-> IF q \in Spenders THEN req[q] ELSE AtRest]
           /\ holds' = [q \in Spenders |-> IF q \in Spenders THEN holds[q] ELSE {}]
  BY DEF BudgetInv, Arrays

\* What a request of the month holds, the settings cannot be changed under it.
LEMMA MonthHolds ==
    ASSUME BudgetInv, NEW q \in Spenders, req[q].at \in {"write", "link", "fire", "commit"},
           req[q].row.thisMonth
    PROVE  XLock(Family) \in holds[q]
  BY GoodOf DEF LocksFit, HasFamily, Working

LEMMA DeleteEntryDone ==
    ASSUME BudgetAssumption, BudgetInv, DeleteEntry, UNCHANGED beside
    PROVE  BudgetInv'
<1>1. PICK e \in DOMAIN entries :
          /\ Free(e) /\ entries' = [f \in DOMAIN entries \ {e} |-> entries[f]] /\ gone' = gone \cup {e}
          /\ paid' = [i \in Items |-> IF paid[i] = e THEN Unset ELSE paid[i]]
  BY DEF DeleteEntry
<1>2. /\ "delete_budget_entry" \in beside /\ items' = items /\ categories' = categories
      /\ dropped' = dropped /\ settings' = settings /\ alerts' = alerts
      /\ req' = req /\ holds' = holds /\ beside' = beside
  BY DEF DeleteEntry
<1>3. BudgetTypeOK'
  BY <1>1, <1>2, Tabled DEF BudgetInv, BudgetTypeOK
<1>4. IsFiniteSet(DOMAIN entries')
  <2>1. DOMAIN entries' \subseteq DOMAIN entries
    BY <1>1
  <2> QED
    BY <2>1, FS_Subset DEF BudgetInv, Arrays
<1>5. ASSUME NEW q \in Spenders, NEW r, NEW h, r = req[q], h = holds[q]
      PROVE  Good(r, h)'
  <2>1. Good(r, h)
    BY <1>5, GoodOf
  <2>2. XLock(e) \notin h
    BY <1>1, <1>5 DEF Free, AnyLock, XLock
  <2>3. RequestIs(r)' /\ LocksFit(r, h)' /\ ItemsHeld(r, h)'
    BY <1>1, <1>2, <2>1 DEF Good, RequestIs, IsSpend, LocksFit, ItemsHeld
  <2>4. EntryHeld(r, h)' /\ CategoryKept(r, h)'
    BY <1>1, <1>2, <2>1, <2>2 DEF Good, EntryHeld, CategoryKept, Working
  <2>5. Sound(r)'
    BY <1>2 DEF Sound, NothingBeside
  <2> QED
    BY <2>3, <2>4, <2>5 DEF Good
<1>6. ASSUME NEW q \in Spenders, Spends(req[q]), New(req[q])
      PROVE  req[q].e \notin DOMAIN entries' \cup gone'
  BY <1>1, <1>6, GoodOf DEF Fresh
<1> QED
  BY <1>2, <1>3, <1>4, <1>5, <1>6, NobodyEnds, TablesMove

LEMMA DeleteItemDone ==
    ASSUME BudgetAssumption, BudgetInv, DeleteItem, UNCHANGED beside
    PROVE  BudgetInv'
<1>1. PICK i \in items : Free(i) /\ items' = items \ {i} /\ paid' = [paid EXCEPT ![i] = Unset]
  BY DEF DeleteItem
<1>2. /\ entries' = entries /\ gone' = gone /\ categories' = categories
      /\ dropped' = dropped /\ settings' = settings /\ alerts' = alerts
      /\ req' = req /\ holds' = holds /\ beside' = beside
  BY DEF DeleteItem
<1>3. BudgetTypeOK'
  BY <1>1, <1>2, Tabled DEF BudgetInv, BudgetTypeOK
<1>4. IsFiniteSet(DOMAIN entries')
  BY <1>2 DEF BudgetInv, Arrays
<1>5. ASSUME NEW q \in Spenders, NEW r, NEW h, r = req[q], h = holds[q]
      PROVE  Good(r, h)'
  <2>1. Good(r, h)
    BY <1>5, GoodOf
  <2>2. SLock(i) \notin h
    BY <1>1, <1>5 DEF Free, AnyLock, SLock
  <2>3. RequestIs(r)' /\ LocksFit(r, h)'
    BY <1>2, <2>1 DEF Good, RequestIs, IsSpend, LocksFit
  <2>4. EntryHeld(r, h)' /\ CategoryKept(r, h)' /\ ItemsHeld(r, h)'
    BY <1>1, <1>2, <2>1, <2>2 DEF Good, EntryHeld, CategoryKept, ItemsHeld
  <2>5. Sound(r)'
    <3>1. \A c : WatchedCap(c)' = WatchedCap(c)
      BY <1>2 DEF WatchedCap
    <3>2. EntriesWith(r)' = EntriesWith(r)
      BY <1>2 DEF EntriesWith
    <3>3. WatchesTrue(r) => WatchesTrue(r)'
      BY <1>2, <3>1 DEF WatchesTrue
    <3>4. AlertsSound(r) => AlertsSound(r)'
      BY <1>2, <3>1, <3>2 DEF AlertsSound, Past
    <3> QED
      BY <1>2, <2>1, <3>3, <3>4 DEF Good, Sound, NothingBeside
  <2> QED
    BY <2>3, <2>4, <2>5 DEF Good
<1>6. ASSUME NEW q \in Spenders, Spends(req[q]), New(req[q])
      PROVE  req[q].e \notin DOMAIN entries' \cup gone'
  BY <1>2, <1>6, GoodOf DEF Fresh
<1> QED
  BY <1>2, <1>3, <1>4, <1>5, <1>6, NobodyEnds, TablesMove

LEMMA UpdateCategoryDone ==
    ASSUME BudgetAssumption, BudgetInv, UpdateCategory, UNCHANGED beside
    PROVE  BudgetInv'
<1>1. PICK c \in DOMAIN categories, cap \in CategoryCaps : categories' = [categories EXCEPT ![c] = cap]
  BY DEF UpdateCategory
<1>2. /\ "update_budget_category" \in beside /\ entries' = entries /\ gone' = gone /\ paid' = paid
      /\ items' = items /\ dropped' = dropped /\ settings' = settings /\ alerts' = alerts
      /\ req' = req /\ holds' = holds /\ beside' = beside
  BY DEF UpdateCategory
<1>3. DOMAIN categories' = DOMAIN categories
  BY <1>1
<1>4. BudgetTypeOK'
  BY <1>1, <1>2, <1>3 DEF BudgetInv, BudgetTypeOK
<1>5. IsFiniteSet(DOMAIN entries')
  BY <1>2 DEF BudgetInv, Arrays
<1>6. ASSUME NEW q \in Spenders, NEW r, NEW h, r = req[q], h = holds[q]
      PROVE  Good(r, h)'
  <2>1. Good(r, h)
    BY <1>6, GoodOf
  <2>2. RequestIs(r)' /\ LocksFit(r, h)'
    BY <1>2, <1>3, <2>1 DEF Good, RequestIs, IsSpend, LocksFit
  <2>3. EntryHeld(r, h)' /\ CategoryKept(r, h)' /\ ItemsHeld(r, h)'
    BY <1>2, <1>3, <2>1 DEF Good, EntryHeld, CategoryKept, ItemsHeld
  <2>4. Sound(r)'
    BY <1>2 DEF Sound, NothingBeside
  <2> QED
    BY <2>2, <2>3, <2>4 DEF Good
<1>7. ASSUME NEW q \in Spenders, Spends(req[q]), New(req[q])
      PROVE  req[q].e \notin DOMAIN entries' \cup gone'
  BY <1>2, <1>7, GoodOf DEF Fresh
<1> QED
  BY <1>2, <1>4, <1>5, <1>6, <1>7, NobodyEnds, TablesMove

\* The settings change when nobody holds them: no expense of the month is then being
\* written.
LEMMA SettingsDone ==
    ASSUME BudgetAssumption, BudgetInv, PutSettings \/ PatchAlertSettings, UNCHANGED beside
    PROVE  BudgetInv'
<1>1. /\ Free(Family) /\ entries' = entries /\ gone' = gone /\ paid' = paid /\ items' = items
      /\ categories' = categories /\ dropped' = dropped /\ alerts' = alerts
      /\ req' = req /\ holds' = holds /\ beside' = beside
  BY DEF PutSettings, PatchAlertSettings
<1>2. settings' \in [cap : FamilyCaps \cup {0}, familyAlerts : BOOLEAN, categoryAlerts : BOOLEAN]
  BY DEF PutSettings, PatchAlertSettings, BudgetInv, BudgetTypeOK
<1>3. BudgetTypeOK'
  BY <1>1, <1>2 DEF BudgetInv, BudgetTypeOK
<1>4. IsFiniteSet(DOMAIN entries')
  BY <1>1 DEF BudgetInv, Arrays
<1>5. ASSUME NEW q \in Spenders, NEW r, NEW h, r = req[q], h = holds[q]
      PROVE  Good(r, h)'
  <2>1. Good(r, h)
    BY <1>5, GoodOf
  <2>2. RequestIs(r)' /\ LocksFit(r, h)'
    BY <1>1, <2>1 DEF Good, RequestIs, IsSpend, LocksFit
  <2>3. EntryHeld(r, h)' /\ CategoryKept(r, h)' /\ ItemsHeld(r, h)'
    BY <1>1, <2>1 DEF Good, EntryHeld, CategoryKept, ItemsHeld
  <2>4. r.at \in {"write", "link", "fire", "commit"} => ~r.row.thisMonth
    BY <1>1, <1>5, MonthHolds DEF Free, AnyLock, XLock
  <2>5. WatchesTrue(r) => WatchesTrue(r)'
    BY <2>4 DEF WatchesTrue
  <2>6. AlertsSound(r) => AlertsSound(r)'
    BY <2>4 DEF AlertsSound
  <2>7. Sound(r)'
    BY <1>1, <2>1, <2>5, <2>6 DEF Good, Sound, NothingBeside
  <2> QED
    BY <2>2, <2>3, <2>7 DEF Good
<1>6. ASSUME NEW q \in Spenders, Spends(req[q]), New(req[q])
      PROVE  req[q].e \notin DOMAIN entries' \cup gone'
  BY <1>1, <1>6, GoodOf DEF Fresh
<1> QED
  BY <1>1, <1>3, <1>4, <1>5, <1>6, NobodyEnds, TablesMove

LEMMA InsertCategoryDone ==
    ASSUME BudgetAssumption, BudgetInv, NEW p \in Spenders, InsertCategory(p), UNCHANGED beside
    PROVE  BudgetInv'
<1>1. PICK c \in Categories \ (DOMAIN categories \cup dropped), cap \in CategoryCaps :
          categories' = [d \in DOMAIN categories \cup {c} |-> IF d = c THEN cap ELSE categories[d]]
  BY DEF InsertCategory
<1>2. /\ End(p) /\ entries' = entries /\ gone' = gone /\ paid' = paid
      /\ items' = items /\ dropped' = dropped /\ settings' = settings /\ alerts' = alerts
      /\ beside' = beside
  BY DEF InsertCategory
<1>3. DOMAIN categories' = DOMAIN categories \cup {c}
  BY <1>1
<1>4. BudgetTypeOK'
  BY <1>1, <1>2, <1>3 DEF BudgetInv, BudgetTypeOK
<1>5. IsFiniteSet(DOMAIN entries')
  BY <1>2 DEF BudgetInv, Arrays
<1>6. ASSUME NEW q \in Spenders, NEW r, NEW h, r = req[q], h = holds[q]
      PROVE  Good(r, h)'
  <2>1. Good(r, h)
    BY <1>6, GoodOf
  <2>2. RequestIs(r)' /\ LocksFit(r, h)'
    BY <1>2, <1>3, <2>1 DEF Good, RequestIs, IsSpend, LocksFit
  <2>3. EntryHeld(r, h)' /\ CategoryKept(r, h)' /\ ItemsHeld(r, h)'
    BY <1>2, <1>3, <2>1 DEF Good, EntryHeld, CategoryKept, ItemsHeld
  <2>4. r.at \in {"write", "link", "fire", "commit"} => c \notin Scopes(r)
    <3>1. r.at \in {"write", "link", "fire", "commit"} => IsSpend(r)
      BY <2>1, SpendIs DEF Good, Spends, Working
    <3> QED
      BY <1>1, <3>1, Tabled DEF IsSpend, Scopes
  <2>5. \A s : s # c => WatchedCap(s)' = WatchedCap(s)
    BY <1>1, <1>2, <1>3 DEF WatchedCap
  <2>6. WatchesTrue(r) => WatchesTrue(r)'
    BY <1>2, <1>3, <2>4, <2>5 DEF WatchesTrue
  <2>7. AlertsSound(r) => AlertsSound(r)'
    <3>1. EntriesWith(r)' = EntriesWith(r)
      BY <1>2 DEF EntriesWith
    <3> QED
      BY <1>2, <2>4, <2>5, <3>1 DEF AlertsSound, Past
  <2>8. Sound(r)'
    BY <1>2, <2>1, <2>6, <2>7 DEF Good, Sound, NothingBeside
  <2> QED
    BY <2>2, <2>3, <2>8 DEF Good
<1>7. ASSUME NEW q \in Spenders, Spends(req[q]), New(req[q])
      PROVE  req[q].e \notin DOMAIN entries' \cup gone'
  BY <1>2, <1>7, GoodOf DEF Fresh
<1> DEFINE Q == Spenders \ {p}
<1>8. /\ req' = [q \in Spenders |-> IF q \in Q THEN req[q] ELSE AtRest]
      /\ holds' = [q \in Spenders |-> IF q \in Q THEN holds[q] ELSE {}]
  BY <1>2, EndsAlone
<1>9. Q \in SUBSET Spenders
  OBVIOUS
<1> HIDE DEF Q
<1> QED
  BY <1>4, <1>5, <1>6, <1>7, <1>8, <1>9, TablesMove

LEMMA ClearCategoryDone ==
    ASSUME BudgetAssumption, BudgetInv, NEW p \in Spenders, ClearCategory(p), UNCHANGED beside
    PROVE  BudgetInv'
<1> DEFINE c == req[p].category
<1>1. /\ req[p].at = "clear" /\ WaitsFor(p) = {} /\ End(p)
      /\ categories' = [d \in DOMAIN categories \ {c} |-> categories[d]] /\ dropped' = dropped \cup {c}
      /\ entries' = Without(entries, c) /\ alerts' = {a \in alerts : a[1] # c}
      /\ gone' = gone /\ paid' = paid /\ items' = items /\ settings' = settings /\ beside' = beside
  BY DEF ClearCategory, Without
<1>2. c \in DOMAIN categories /\ XLock(c) \in holds[p] /\ c # Unset /\ c \in Categories
  BY <1>1, GoodOf, Tabled DEF LocksFit
<1> HIDE DEF c
<1>3. /\ DOMAIN entries' = DOMAIN entries /\ DOMAIN categories' = DOMAIN categories \ {c}
      /\ \A e \in DOMAIN entries : entries'[e] = IF entries[e].category = c
                                                 THEN [entries[e] EXCEPT !.category = Unset] ELSE entries[e]
  BY <1>1 DEF Without
<1>4. \A e \in DOMAIN entries : /\ entries'[e] \in Row
                                /\ entries'[e].category \in (DOMAIN categories \ {c}) \cup {Unset}
                                /\ entries[e].category # c => entries'[e].category = entries[e].category
  <2>1. \A e \in DOMAIN entries : entries[e] \in Row /\ entries[e].category \in DOMAIN categories \cup {Unset}
    BY DEF BudgetInv, BudgetTypeOK
  <2> QED
    BY <1>3, <2>1 DEF Row
<1>5. BudgetTypeOK'
  BY <1>1, <1>2, <1>3, <1>4 DEF BudgetInv, BudgetTypeOK
<1>6. IsFiniteSet(DOMAIN entries')
  BY <1>3 DEF BudgetInv, Arrays
<1> DEFINE Q == Spenders \ {p}
<1>7. ASSUME NEW q \in Q, NEW r, NEW h, r = req[q], h = holds[q]
      PROVE  Good(r, h)'
  <2>1. Good(r, h)
    BY <1>7, GoodOf
  <2>2. XLock(c) \notin h /\ SLock(c) \notin h
    BY <1>2, <1>7 DEF BudgetInv, LocksApart, ApartFrom, Lockable, AnyLock, XLock, SLock
  <2>3. RequestIs(r)'
    BY <1>1, <1>3, <2>1 DEF Good, RequestIs, IsSpend
  <2>4. LocksFit(r, h)'
    BY <1>1, <1>3, <2>1, <2>2 DEF Good, LocksFit
  <2>5. EntryHeld(r, h)' /\ ItemsHeld(r, h)'
    BY <1>1, <1>3, <2>1 DEF Good, EntryHeld, ItemsHeld
  <2>6. r.at \in {"link", "fire", "commit"} => r.row.category # c
    <3>1. SUFFICES ASSUME r.at \in {"link", "fire", "commit"}, r.row.category = c
                   PROVE  FALSE
      OBVIOUS
    <3>2. ~New(r) /\ entries[r.e].category = c
      BY <1>2, <2>1, <2>2, <3>1 DEF Good, CategoryKept
    <3>3. XLock(r.e) \in h /\ r.e \in DOMAIN entries
      BY <2>1, <3>1, <3>2 DEF Good, EntryHeld, Working
    <3> QED
      BY <1>1, <1>7, <3>2, <3>3, NobodyHolds DEF c
  <2>7. CategoryKept(r, h)'
    <3>1. SUFFICES ASSUME r.at \in {"link", "fire", "commit"}, r.row.category # Unset
                   PROVE  /\ r.row.category \in DOMAIN categories'
                          /\ \/ SLock(r.row.category) \in h
                             \/ ~New(r) /\ entries'[r.e].category = r.row.category
      BY DEF CategoryKept
    <3>2. CategoryKept(r, h) /\ EntryHeld(r, h)
      BY <2>1 DEF Good
    <3>3. ~New(r) => r.e \in DOMAIN entries
      BY <3>1, <3>2 DEF EntryHeld, Working
    <3> QED
      BY <1>3, <1>4, <2>6, <3>1, <3>2, <3>3 DEF CategoryKept
  <2>8. \A s : s # c => WatchedCap(s)' = WatchedCap(s) /\ Total(entries', s) = Total(entries, s)
    <3>1. \A s : s # c => WatchedCap(s)' = WatchedCap(s)
      BY <1>1, <1>3 DEF WatchedCap
    <3>2. \A e \in DOMAIN entries : IsRow(entries[e])
      BY Tabled
    <3>3. \A s : s # c => Total(Without(entries, c), s) = Total(entries, s)
      <4> TAKE s
      <4> HAVE s # c
      <4> DEFINE row == [category |-> Unset]
      <4>1. row.category # c
        BY <1>2
      <4> HIDE DEF row
      <4> QED
        BY <1>2, <3>2, <4>1, OtherScopes
    <3> QED
      BY <1>1, <3>1, <3>3
  <2>9. WatchesTrue(r) => WatchesTrue(r)'
    BY <1>2, <1>3, <2>8 DEF WatchesTrue
  <2>10. AlertsSound(r) => AlertsSound(r)'
    <3>1. SUFFICES ASSUME r.at = "commit", AlertsSound(r)
                   PROVE  AlertsSound(r)'
      BY DEF AlertsSound
    <3>2. c \notin Scopes(r)
      BY <1>2, <2>6, <3>1 DEF Scopes
    <3>3. EntriesWith(r) = WithEntry(entries, r.e, r.row)
      BY DEF EntriesWith, WithEntry
    <3>4. EntriesWith(r)' = WithEntry(entries', r.e, r.row)
      BY DEF EntriesWith, WithEntry
    <3>5. \A s : s # c => Total(EntriesWith(r)', s) = Total(EntriesWith(r), s)
      <4>1. \A e \in DOMAIN entries : IsRow(entries[e])
        BY Tabled
      <4>2. \A s : s # c => Total(WithEntry(Without(entries, c), r.e, r.row), s)
                            = Total(WithEntry(entries, r.e, r.row), s)
        BY <1>2, <2>6, <3>1, <4>1, OtherScopes
      <4> QED
        BY <1>1, <3>3, <3>4, <4>2
    <3>6. \A a : a[1] \in Scopes(r) => /\ Past(a, entries)' = Past(a, entries)
                                       /\ Past(a, EntriesWith(r))' = Past(a, EntriesWith(r))
      BY <2>8, <3>2, <3>5 DEF Past
    <3> QED
      BY <1>1, <3>1, <3>2, <3>6 DEF AlertsSound
  <2>11. Sound(r)'
    BY <1>1, <2>1, <2>9, <2>10 DEF Good, Sound, NothingBeside
  <2> QED
    BY <2>3, <2>4, <2>5, <2>7, <2>11 DEF Good
<1>8. ASSUME NEW q \in Q, Spends(req[q]), New(req[q])
      PROVE  req[q].e \notin DOMAIN entries' \cup gone'
  BY <1>1, <1>3, <1>8, GoodOf DEF Fresh
<1>9. /\ req' = [q \in Spenders |-> IF q \in Q THEN req[q] ELSE AtRest]
      /\ holds' = [q \in Spenders |-> IF q \in Q THEN holds[q] ELSE {}]
  BY <1>1, EndsAlone
<1>10. Q \in SUBSET Spenders
  OBVIOUS
<1> HIDE DEF Q
<1> QED
  BY <1>5, <1>6, <1>7, <1>8, <1>9, <1>10, TablesMove

\* What the request that commits writes, of its own.
LEMMA Committing ==
    ASSUME BudgetAssumption, BudgetInv, NEW p \in Spenders, CommitEntry(p)
    PROVE  LET s == req[p] IN
           /\ IsSpend(s) /\ Spends(s) /\ s.at = "commit" /\ XLock(s.e) \in holds[p]
           /\ s.e \in Entries \ gone /\ s.row \in Row /\ s.row.category \in DOMAIN categories \cup {Unset}
           /\ s.link \subseteq items /\ (New(s) => s.e \notin DOMAIN entries)
           /\ entries' = WithEntry(entries, s.e, s.row)
           /\ paid' = [i \in Items |-> IF i \in s.link THEN s.e
                                       ELSE IF paid[i] = s.e /\ ~s.keep THEN Unset ELSE paid[i]]
           /\ alerts' = alerts \cup s.alerts /\ End(p)
           /\ gone' = gone /\ items' = items /\ categories' = categories /\ dropped' = dropped
           /\ settings' = settings
<1> DEFINE s == req[p]
<1>1. /\ s.at = "commit" /\ entries' = EntriesWith(s)
      /\ paid' = [i \in Items |-> IF i \in s.link THEN s.e
                                  ELSE IF paid[i] = s.e /\ ~s.keep THEN Unset ELSE paid[i]]
      /\ alerts' = alerts \cup s.alerts /\ End(p)
      /\ gone' = gone /\ items' = items /\ categories' = categories /\ dropped' = dropped
      /\ settings' = settings
  BY DEF CommitEntry
<1>2. IsSpend(s) /\ Spends(s)
  BY <1>1, GoodOf, SpendIs DEF Spends, Working
<1>3. /\ XLock(s.e) \in holds[p] /\ (~New(s) => s.e \in DOMAIN entries)
      /\ s.row.category \in DOMAIN categories \cup {Unset} /\ s.link \subseteq items
  BY <1>1, GoodOf DEF EntryHeld, CategoryKept, ItemsHeld, Working
<1>4. New(s) => s.e \notin DOMAIN entries \cup gone
  BY <1>2, GoodOf DEF Fresh
<1>5. s.e \in Entries \ gone
  BY <1>2, <1>3, <1>4, Tabled DEF IsSpend
<1>6. s.row \in Row
  <2>1. IsRow(s.row)
    BY <1>2 DEF IsSpend
  <2>2. s.row.category \in Categories \cup {Unset}
    BY <1>3, Tabled
  <2> QED
    BY <2>1, <2>2 DEF IsRow, Row
<1>7. entries' = WithEntry(entries, s.e, s.row)
  BY <1>1 DEF EntriesWith, WithEntry
<1> QED
  BY <1>1, <1>2, <1>3, <1>4, <1>5, <1>6, <1>7

LEMMA CommitEntryDone ==
    ASSUME BudgetAssumption, BudgetInv, NEW p \in Spenders, CommitEntry(p), UNCHANGED beside
    PROVE  BudgetInv'
<1> DEFINE s == req[p]
<1>1. /\ IsSpend(s) /\ Spends(s) /\ s.at = "commit" /\ XLock(s.e) \in holds[p]
      /\ s.e \in Entries \ gone /\ s.row \in Row /\ s.row.category \in DOMAIN categories \cup {Unset}
      /\ s.link \subseteq items /\ (New(s) => s.e \notin DOMAIN entries)
      /\ entries' = WithEntry(entries, s.e, s.row)
      /\ paid' = [i \in Items |-> IF i \in s.link THEN s.e
                                  ELSE IF paid[i] = s.e /\ ~s.keep THEN Unset ELSE paid[i]]
      /\ alerts' = alerts \cup s.alerts /\ End(p)
      /\ gone' = gone /\ items' = items /\ categories' = categories /\ dropped' = dropped
      /\ settings' = settings
  BY Committing
<1>2. /\ DOMAIN entries' = DOMAIN entries \cup {s.e} /\ entries'[s.e] = s.row
      /\ \A e \in DOMAIN entries \ {s.e} : entries'[e] = entries[e]
  BY <1>1 DEF WithEntry
<1>3. BudgetTypeOK'
  <2>1. BudgetTypeOK
    BY DEF BudgetInv
  <2>2. /\ DOMAIN entries' \subseteq Entries \ gone'
        /\ \A e \in DOMAIN entries' : /\ entries'[e] \in Row
                                      /\ entries'[e].category \in DOMAIN categories' \cup {Unset}
    BY <1>1, <1>2, <2>1 DEF BudgetTypeOK
  <2>3. paid' \in [Items -> DOMAIN entries' \cup {Unset}] /\ \A i \in Items \ items' : paid'[i] = Unset
    BY <1>1, <1>2, <2>1 DEF BudgetTypeOK
  <2>4. alerts' \subseteq Thresholds /\ \A a \in alerts' : a[1] \in DOMAIN categories' \cup {Unset}
    BY <1>1, <2>1 DEF BudgetTypeOK, IsSpend, Scopes
  <2> QED
    BY <1>1, <2>1, <2>2, <2>3, <2>4 DEF BudgetTypeOK
<1>4. IsFiniteSet(DOMAIN entries')
  BY <1>2, FS_AddElement DEF BudgetInv, Arrays
<1> DEFINE Q == Spenders \ {p}
<1>5. ASSUME NEW q \in Q, NEW r, NEW h, r = req[q], h = holds[q]
      PROVE  Good(r, h)'
  <2>1. Good(r, h)
    BY <1>5, GoodOf
  <2>2. XLock(s.e) \notin h
    BY <1>1, <1>5 DEF BudgetInv, LocksApart, ApartFrom, Lockable, AnyLock, XLock
  <2>3. RequestIs(r)' /\ LocksFit(r, h)'
    BY <1>1, <1>2, <2>1 DEF Good, RequestIs, IsSpend, LocksFit
  <2>4. EntryHeld(r, h)' /\ ItemsHeld(r, h)'
    BY <1>1, <1>2, <2>1 DEF Good, EntryHeld, ItemsHeld
  <2>5. CategoryKept(r, h)'
    BY <1>1, <1>2, <2>1, <2>2 DEF Good, CategoryKept, EntryHeld, Working
  <2>6. \A c : WatchedCap(c)' = WatchedCap(c)
    BY <1>1 DEF WatchedCap
  <2>7. ASSUME r.at \in {"write", "link", "fire", "commit"}, r.row.thisMonth
        PROVE  /\ \A c : Total(entries', c) = Total(entries, c)
               /\ \A c : Total(EntriesWith(r)', c) = Total(EntriesWith(r), c)
    <3>1. XLock(Family) \in h
      BY <1>5, <2>7, MonthHolds
    <3>2. XLock(Family) \notin holds[p]
      BY <1>5, <3>1 DEF BudgetInv, LocksApart, ApartFrom, Lockable, AnyLock, XLock
    <3>3. ~HasFamily(s)
      BY <3>2, GoodOf DEF LocksFit
    <3>4. New(s) /\ ~s.row.thisMonth /\ s.e \notin DOMAIN entries
      BY <1>1, <3>3 DEF HasFamily, Working, New
    <3>5. s.e # r.e
      <4>1. Spends(r)
        BY <2>7 DEF Spends, Working
      <4> QED
        BY <1>1, <1>5, <3>4, <4>1, GoodOf DEF Fresh
    <3>6. EntriesWith(r) = WithEntry(entries, r.e, r.row)
      BY DEF EntriesWith, WithEntry
    <3>7. EntriesWith(r)' = WithEntry(entries', r.e, r.row)
      BY DEF EntriesWith, WithEntry
    <3>8. \A c : /\ Total(WithEntry(entries, s.e, s.row), c) = Total(entries, c)
                 /\ Total(WithEntry(WithEntry(entries, s.e, s.row), r.e, r.row), c) =
                    Total(WithEntry(entries, r.e, r.row), c)
      <4> DEFINE e == s.e  row == s.row  f == r.e  other == r.row
      <4>1. e \notin DOMAIN entries /\ ~row.thisMonth /\ f # e
        BY <3>4, <3>5
      <4> HIDE DEF e, row, f, other
      <4>2. \A c : /\ Total(WithEntry(entries, e, row), c) = Total(entries, c)
                   /\ Total(WithEntry(WithEntry(entries, e, row), f, other), c) =
                      Total(WithEntry(entries, f, other), c)
        BY <4>1, OutOfTheMonth
      <4> QED
        BY <4>2 DEF e, row, f, other
    <3> QED
      BY <1>1, <3>6, <3>7, <3>8
  <2>8. WatchesTrue(r) => WatchesTrue(r)'
    BY <1>1, <2>6, <2>7 DEF WatchesTrue
  <2>9. AlertsSound(r) => AlertsSound(r)'
    <3>1. SUFFICES ASSUME r.at = "commit", AlertsSound(r)
                   PROVE  AlertsSound(r)'
      BY DEF AlertsSound
    <3>2. r.row.thisMonth => \A a : /\ Past(a, entries)' = Past(a, entries)
                                    /\ Past(a, EntriesWith(r))' = Past(a, EntriesWith(r))
      BY <2>6, <2>7, <3>1 DEF Past
    <3> QED
      BY <1>1, <3>1, <3>2 DEF AlertsSound
  <2>10. Sound(r)'
    BY <1>1, <2>1, <2>8, <2>9 DEF Good, Sound, NothingBeside
  <2> QED
    BY <2>3, <2>4, <2>5, <2>10 DEF Good
<1>6. ASSUME NEW q \in Q, Spends(req[q]), New(req[q])
      PROVE  req[q].e \notin DOMAIN entries' \cup gone'
  <2>1. req[q].e \notin DOMAIN entries \cup gone /\ req[q].e # s.e
    BY <1>1, <1>6, GoodOf DEF Fresh
  <2> QED
    BY <1>1, <1>2, <2>1
<1>7. /\ req' = [q \in Spenders |-> IF q \in Q THEN req[q] ELSE AtRest]
      /\ holds' = [q \in Spenders |-> IF q \in Q THEN holds[q] ELSE {}]
  BY <1>1, EndsAlone
<1>8. Q \in SUBSET Spenders
  OBVIOUS
<1> HIDE DEF Q
<1> QED
  BY <1>3, <1>4, <1>5, <1>6, <1>7, <1>8, TablesMove

LEMMA BudgetStart == ASSUME BudgetAssumption, BudgetInit PROVE BudgetInv
<1>1. DOMAIN entries = {} /\ DOMAIN categories = {}
  BY DEF BudgetInit
<1>2. BudgetTypeOK
  BY <1>1 DEF BudgetInit, BudgetTypeOK
<1>3. Arrays
  BY <1>1, FS_EmptySet DEF BudgetInit, Arrays
<1>4. \A p \in Spenders : req[p] = AtRest /\ holds[p] = {}
  BY DEF BudgetInit
<1>5. Good(AtRest, {})
  BY DEF Good, RequestIs, LocksFit, EntryHeld, CategoryKept, ItemsHeld, Sound, WatchesTrue, AlertsSound,
     HasFamily, Working, AtRest
<1>6. AllGood /\ AllFresh /\ LocksApart
  <2>1. ~Spends(AtRest)
    BY DEF Spends, Working, AtRest
  <2> QED
    BY <1>4, <1>5, <2>1 DEF AllGood, AllFresh, Fresh, LocksApart, ApartFrom
<1> QED
  BY <1>2, <1>3, <1>6 DEF BudgetInv

LEMMA BudgetStutters ==
    ASSUME BudgetInv, UNCHANGED budgetVars
    PROVE  BudgetInv'
<1>1. UNCHANGED <<req, holds>> /\ UNCHANGED <<Tables, beside>>
  BY DEF budgetVars, Tables
<1>2. CASE Spenders = {}
  <2>1. BudgetTypeOK' /\ IsFiniteSet(DOMAIN entries')
    BY <1>1 DEF BudgetInv, BudgetTypeOK, Arrays, Tables
  <2>2. Arrays' /\ AllGood' /\ AllFresh' /\ LocksApart'
    BY <1>1, <1>2, <2>1 DEF BudgetInv, Arrays, AllGood, AllFresh, LocksApart
  <2> QED
    BY <2>1, <2>2 DEF BudgetInv
<1>3. ASSUME NEW p \in Spenders
      PROVE  BudgetInv'
  <2>1. Becomes(p, req[p], holds[p])
    BY <1>1 DEF Becomes, BudgetInv, Arrays
  <2>2. Good(req[p], holds[p]) /\ FreshWith(p, req[p])
    <3>1. ASSUME NEW q \in Spenders \ {p}, Spends(req[p]), Spends(req[q]), New(req[p]) \/ New(req[q])
          PROVE  req[q].e # req[p].e
      BY <3>1, GoodOf DEF Fresh
    <3> QED
      BY <3>1, GoodOf DEF FreshWith, Fresh
  <2>3. \A q \in Spenders \ {p} : ApartFrom(holds[p], holds[q]) /\ ApartFrom(holds[q], holds[p])
    BY DEF BudgetInv, LocksApart
  <2> QED
    BY <1>1, <2>1, <2>2, <2>3, Moves
<1> QED
  BY <1>2, <1>3

LEMMA BudgetStep == ASSUME BudgetAssumption, BudgetInv, [BudgetNext]_budgetVars PROVE BudgetInv'
<1>1. CASE UNCHANGED budgetVars
  BY <1>1, BudgetStutters
<1>2. ASSUME BudgetNext
      PROVE  BudgetInv'
  <2>1. UNCHANGED beside
    BY <1>2 DEF BudgetNext
  <2>2. ASSUME NEW p \in Spenders, StartSpending(p) PROVE BudgetInv'
    BY <2>1, <2>2, StartSpendingDone
  <2>3. ASSUME NEW p \in Spenders, LockFamily(p) PROVE BudgetInv'
    BY <2>1, <2>3, LockFamilyDone
  <2>4. ASSUME NEW p \in Spenders, LockRow(p) PROVE BudgetInv'
    BY <2>1, <2>4, LockRowDone
  <2>5. ASSUME NEW p \in Spenders, Watch(p) PROVE BudgetInv'
    BY <2>1, <2>5, WatchDone
  <2>6. ASSUME NEW p \in Spenders, WriteEntry(p) PROVE BudgetInv'
    BY <2>1, <2>6, WriteEntryDone
  <2>7. ASSUME NEW p \in Spenders, InsertLinks(p) PROVE BudgetInv'
    BY <2>1, <2>7, InsertLinksDone
  <2>8. ASSUME NEW p \in Spenders, Fire(p) PROVE BudgetInv'
    BY <2>1, <2>8, FireDone
  <2>9. ASSUME NEW p \in Spenders, CommitEntry(p) PROVE BudgetInv'
    BY <2>1, <2>9, CommitEntryDone
  <2>10. ASSUME NEW p \in Spenders, GiveUp(p) PROVE BudgetInv'
    BY <2>1, <2>10, Ends DEF GiveUp
  <2>11. ASSUME NEW p \in Spenders, Count(p) \/ LockCategory(p) PROVE BudgetInv'
    BY <2>1, <2>11, CategoryMoves
  <2>12. ASSUME NEW p \in Spenders, InsertCategory(p) PROVE BudgetInv'
    BY <2>1, <2>12, InsertCategoryDone
  <2>13. ASSUME NEW p \in Spenders, ClearCategory(p) PROVE BudgetInv'
    BY <2>1, <2>13, ClearCategoryDone
  <2>14. CASE UpdateCategory
    BY <2>1, <2>14, UpdateCategoryDone
  <2>15. CASE PutSettings \/ PatchAlertSettings
    BY <2>1, <2>15, SettingsDone
  <2>16. CASE DeleteEntry
    BY <2>1, <2>16, DeleteEntryDone
  <2>17. CASE DeleteItem
    BY <2>1, <2>17, DeleteItemDone
  <2> QED
    BY <1>2, <2>2, <2>3, <2>4, <2>5, <2>6, <2>7, <2>8, <2>9, <2>10, <2>11, <2>12, <2>13, <2>14,
       <2>15, <2>16, <2>17 DEF BudgetNext
<1> QED
  BY <1>1, <1>2

LEMMA BudgetHolds == ASSUME BudgetAssumption PROVE BudgetSpec => []BudgetInv
<1>1. BudgetInit => BudgetInv
  BY BudgetStart
<1>2. BudgetInv /\ [BudgetNext]_budgetVars => BudgetInv'
  BY BudgetStep
<1> QED
  BY <1>1, <1>2, PTL DEF BudgetSpec

-----------------------------------------------------------------------------
\* Every row refers to rows that are there: an expense to its category, an item to the
\* expense that pays for it, an alert to its category; an item that is gone is paid by
\* none, and no id is used twice (the foreign keys of budget_entries,
\* budget_entry_grocery_items and budget_alerts).
THEOREM BudgetTypeCorrect == ASSUME BudgetAssumption PROVE BudgetSpec => []BudgetTypeOK
<1>1. BudgetInv => BudgetTypeOK
  BY DEF BudgetInv
<1> QED
  BY <1>1, BudgetHolds, PTL

\* Without the deletion of categories, who waits for a row holds the family and waits
\* for one that holds an expense; that one waits at most for an item, and who has that
\* item waits for nobody.
LEMMA NoneWaitForEachOther == ASSUME BudgetAssumption, BudgetInv PROVE NoDeadlock
<1> SUFFICES ASSUME "delete_budget_category" \notin beside, NEW S \in SUBSET Spenders, S # {},
                    \A p \in S : WaitsFor(p) \cap S # {}
             PROVE  FALSE
  BY DEF NoDeadlock
<1>1. \A p \in S : req[p].at \notin {"drop", "clear"}
  BY GoodOf, CategoryIs
<1>2. \A p \in Spenders : \A c \in Categories : XLock(c) \notin holds[p]
  BY GoodOf, CategoryIs DEF LocksFit
<1>3. \A p \in Spenders : \A locks : \A q \in Others(p, locks) : q # p /\ q \in Spenders /\ holds[q] \cap locks # {}
  BY DEF Others
<1>4. \A p \in Spenders : Spends(req[p]) => req[p].row.category \in Categories \cup {Unset}
  BY GoodOf, SpendIs, Tabled DEF IsSpend
<1>5. ASSUME NEW p \in S, req[p].at \in {"write", "fire"}
      PROVE  FALSE
  <2> DEFINE c == req[p].row.category
  <2>1. c \in Categories \cup {Unset}
    BY <1>4, <1>5 DEF Spends, Working
  <2>2. c \in Categories => Others(p, Exclusive(c)) = {}
    BY <1>2, <1>3 DEF Exclusive, XLock
  <2>3. CASE req[p].at = "write"
    <3>1. ChecksCategory(req[p]) => c # Unset
      BY DEF ChecksCategory
    <3> QED
      BY <2>1, <2>2, <2>3, <3>1 DEF WaitsFor
  <2>4. CASE req[p].at = "fire"
    <3>1. AlertsCategory(req[p]) => c # Unset
      BY DEF AlertsCategory, ToSend, Crossed
    <3> QED
      BY <2>1, <2>2, <2>4, <3>1 DEF WaitsFor
  <2> QED
    BY <1>5, <2>3, <2>4
<1>6. ASSUME NEW p \in S
      PROVE  req[p].at \in {"lock", "count", "row", "link"}
  <2>1. WaitsFor(p) # {}
    OBVIOUS
  <2> QED
    BY <1>1, <1>5, <2>1 DEF WaitsFor
<1>7. ASSUME NEW p \in S
      PROVE  req[p].at # "link"
  <2>1. SUFFICES ASSUME req[p].at = "link"
                 PROVE  FALSE
    OBVIOUS
  <2>2. PICK q \in S : q \in WaitsFor(p)
    OBVIOUS
  <2>3. Uncommitted(q) # {}
    BY <2>1, <2>2 DEF WaitsFor
  <2> QED
    BY <1>6, <2>3 DEF Uncommitted
<1>8. ASSUME NEW p \in S
      PROVE  FALSE
  <2>1. PICK q \in S : q \in WaitsFor(p)
    OBVIOUS
  <2>2. req[p].at \in {"lock", "count", "row"} /\ req[q].at \in {"lock", "count", "row"}
    BY <1>6, <1>7
  <2>3. q # p /\ holds[q] # {}
    BY <1>3, <2>1, <2>2 DEF WaitsFor, CountLock
  <2>4. req[q].at = "row" /\ XLock(Family) \in holds[q]
    BY <2>2, <2>3, GoodOf DEF LocksFit, HasFamily
  <2>5. PICK u \in S : u \in WaitsFor(q)
    OBVIOUS
  <2>6. u # q /\ holds[u] # {}
    BY <1>3, <2>4, <2>5 DEF WaitsFor
  <2>7. req[u].at = "row" /\ XLock(Family) \in holds[u]
    BY <1>6, <1>7, <2>6, GoodOf DEF LocksFit, HasFamily
  <2> QED
    BY <2>4, <2>6, <2>7 DEF BudgetInv, LocksApart, ApartFrom, Lockable, AnyLock, XLock
<1> QED
  BY <1>8

\* lock_family: whatever the expenses, the items and the categories written, and however
\* many at once, no writes wait for each other in a circle, as long as no category is
\* deleted.
THEOREM WritesWaitInNoCircle == ASSUME BudgetAssumption PROVE BudgetSpec => []NoDeadlock
<1>1. BudgetInv => NoDeadlock
  BY NoneWaitForEachOther
<1> QED
  BY <1>1, BudgetHolds, PTL

-----------------------------------------------------------------------------
\* A greater total reaches what a smaller one does.
LEMMA MoreReaches ==
    ASSUME NEW m \in Nat, NEW n \in Nat, m <= n, NEW cap \in Nat, NEW t \in {"eighty", "reached", "over"},
           Reached(t, m, cap)
    PROVE  Reached(t, n, cap)
<1>1. CASE t = "eighty"
  BY <1>1 DEF Reached
<1>2. CASE t = "reached"
  BY <1>2 DEF Reached
<1>3. CASE t = "over"
  BY <1>3 DEF Reached
<1> QED
  BY <1>1, <1>2, <1>3

\* A part of the expenses is no greater than the whole.
LEMMA NoMoreSpent ==
    ASSUME BudgetAssumption, NEW es, NEW ws, NEW scope, IsFiniteSet(DOMAIN es),
           \A e \in DOMAIN es : es[e].amount \in Nat,
           Counted(ws, scope) \subseteq Counted(es, scope),
           \A e \in Counted(ws, scope) : ws[e].amount = es[e].amount
    PROVE  Total(ws, scope) \in Nat /\ Total(es, scope) \in Nat /\ Total(ws, scope) <= Total(es, scope)
<1> DEFINE f == Expenses(es, scope)
           h == Expenses(ws, scope)
<1>1. f = [e \in Counted(es, scope) |-> es[e].amount]
  BY DEF Expenses, Counted
<1>2. h = [e \in Counted(ws, scope) |-> ws[e].amount]
  BY DEF Expenses, Counted
<1>3. Counted(es, scope) \subseteq DOMAIN es
  BY DEF Counted
<1> HIDE DEF f, h
<1>4. IsFiniteSet(DOMAIN f) /\ \A e \in DOMAIN f : f[e] \in Nat
  BY <1>1, <1>3, FS_Subset
<1>5. DOMAIN h \subseteq DOMAIN f /\ \A e \in DOMAIN h : h[e] = f[e]
  BY <1>1, <1>2
<1>6. SumFunction(h) \in Nat /\ SumFunction(f) \in Nat /\ SumFunction(h) <= SumFunction(f)
  BY <1>4, <1>5, PartSums
<1> QED
  BY <1>6 DEF f, h, Total

LEMMA CapsAre ==
    ASSUME BudgetAssumption, BudgetInv, NEW a \in Thresholds
    PROVE  /\ WatchedCap(a[1]) \in Nat /\ a[2] \in {"eighty", "reached", "over"}
           /\ a[1] \in Categories \cup {Unset} /\ (a[1] # Unset => a[2] = "over")
<1>1. /\ settings.cap \in Nat /\ settings.familyAlerts \in BOOLEAN
      /\ settings.categoryAlerts \in BOOLEAN /\ \A c \in DOMAIN categories : categories[c] \in Nat
  <2>1. settings \in [cap : FamilyCaps \cup {0}, familyAlerts : BOOLEAN, categoryAlerts : BOOLEAN]
    BY DEF BudgetInv, BudgetTypeOK
  <2>2. FamilyCaps \subseteq Nat /\ CategoryCaps \subseteq Nat
    BY DEF BudgetAssumption
  <2>3. \A c \in DOMAIN categories : categories[c] \in CategoryCaps
    BY DEF BudgetInv, BudgetTypeOK
  <2>4. settings.cap \in Nat
    <3> DEFINE cap == settings.cap
    <3>1. cap \in FamilyCaps \/ cap = 0
      BY <2>1
    <3> HIDE DEF cap
    <3>2. cap \in Nat
      <4>1. CASE cap \in FamilyCaps
        BY <2>2, <4>1
      <4>2. CASE cap = 0
        BY <4>2
      <4> QED
        BY <3>1, <4>1, <4>2
    <3> QED
      BY <3>2 DEF cap
  <2> QED
    BY <2>1, <2>2, <2>3, <2>4
<1>2. /\ a[2] \in {"eighty", "reached", "over"} /\ a[1] \in Categories \cup {Unset}
      /\ (a[1] # Unset => a[2] = "over")
  BY DEF Thresholds
<1> QED
  BY <1>1, <1>2 DEF WatchedCap

LEMMA AmountsAre ==
    ASSUME BudgetAssumption, BudgetInv
    PROVE  IsFiniteSet(DOMAIN entries) /\ \A e \in DOMAIN entries : entries[e].amount \in Nat
  BY DEF BudgetInv, BudgetTypeOK, Arrays, BudgetAssumption, Row

\* A threshold the deletion of a category, or the expense committed, takes the total of a
\* scope past is one its request has found.
LEMMA CrossingFound ==
    ASSUME BudgetAssumption, BudgetInv, BudgetNext, NothingBeside, entries' # entries,
           NEW a \in Thresholds, ~Past(a, entries), Reached(a[2], Total(entries', a[1]), WatchedCap(a[1]))
    PROVE  a \in alerts'
<1> DEFINE scope == a[1]
<1>1. \/ \E p \in Spenders : CommitEntry(p)
      \/ \E p \in Spenders : ClearCategory(p)
  BY DEF BudgetNext, StartSpending, LockFamily, LockRow, Watch, WriteEntry, InsertLinks, Fire, GiveUp,
     Count, InsertCategory, LockCategory, UpdateCategory, PutSettings, PatchAlertSettings, DeleteEntry,
     DeleteItem, Tables, NothingBeside
<1>2. ASSUME Counted(entries', scope) \subseteq Counted(entries, scope),
             \A e \in Counted(entries', scope) : entries'[e].amount = entries[e].amount
      PROVE  FALSE
  <2>1. /\ Total(entries', scope) \in Nat /\ Total(entries, scope) \in Nat
        /\ Total(entries', scope) <= Total(entries, scope)
    BY <1>2, AmountsAre, NoMoreSpent
  <2> QED
    BY <2>1, CapsAre, MoreReaches DEF Past
<1>3. ASSUME NEW p \in Spenders, CommitEntry(p)
      PROVE  a \in alerts'
  <2> DEFINE s == req[p]
  <2>1. /\ s.at = "commit" /\ entries' = WithEntry(entries, s.e, s.row) /\ alerts' = alerts \cup s.alerts
    BY <1>3, Committing
  <2>2. CASE s.row.thisMonth /\ scope \in Scopes(s)
    <3>1. AlertsSound(s)
      BY GoodOf DEF Sound
    <3>2. EntriesWith(s) = entries'
      BY <2>1 DEF EntriesWith, WithEntry
    <3>3. Past(a, EntriesWith(s))
      BY <3>2 DEF Past
    <3> QED
      BY <2>1, <2>2, <3>1, <3>3 DEF AlertsSound
  <2>3. CASE ~(s.row.thisMonth /\ scope \in Scopes(s))
    <3>1. /\ DOMAIN entries' = DOMAIN entries \cup {s.e} /\ entries'[s.e] = s.row
          /\ \A e \in DOMAIN entries \ {s.e} : entries'[e] = entries[e]
      BY <2>1 DEF WithEntry
    <3>2. s.e \notin Counted(entries', scope)
      BY <2>3, <3>1 DEF Counted, Scopes
    <3>3. /\ Counted(entries', scope) \subseteq Counted(entries, scope)
          /\ \A e \in Counted(entries', scope) : entries'[e].amount = entries[e].amount
      BY <3>1, <3>2 DEF Counted
    <3> QED
      BY <1>2, <3>3
  <2> QED
    BY <2>2, <2>3
<1>4. ASSUME NEW p \in Spenders, ClearCategory(p)
      PROVE  FALSE
  <2> DEFINE c == req[p].category
  <2>1. entries' = Without(entries, c) /\ req[p].at = "clear"
    BY <1>4 DEF ClearCategory, Without
  <2>2. c # Unset
    BY <2>1, GoodOf, Tabled DEF LocksFit
  <2> HIDE DEF c
  <2>3. /\ DOMAIN entries' = DOMAIN entries
        /\ \A e \in DOMAIN entries :
              /\ entries'[e].amount = entries[e].amount /\ entries'[e].thisMonth = entries[e].thisMonth
              /\ entries'[e].category = IF entries[e].category = c THEN Unset ELSE entries[e].category
    BY <2>1, Tabled DEF Without, IsRow
  <2>4. /\ Counted(entries', scope) \subseteq Counted(entries, scope)
        /\ \A e \in Counted(entries', scope) : entries'[e].amount = entries[e].amount
    BY <2>3 DEF Counted
  <2> QED
    BY <1>2, <2>4
<1> QED
  BY <1>1, <1>3, <1>4

LEMMA AlertFounded ==
    ASSUME BudgetAssumption, BudgetInv, BudgetNext, NothingBeside, NEW a \in alerts' \ alerts
    PROVE  Reached(a[2], Total(entries', a[1]), WatchedCap(a[1]))
<1>1. PICK p \in Spenders : CommitEntry(p)
  BY DEF BudgetNext, StartSpending, LockFamily, LockRow, Watch, WriteEntry, InsertLinks, Fire, GiveUp,
     Count, InsertCategory, LockCategory, ClearCategory, UpdateCategory, PutSettings,
     PatchAlertSettings, DeleteEntry, DeleteItem, Tables
<1> DEFINE s == req[p]
<1>2. /\ s.at = "commit" /\ entries' = WithEntry(entries, s.e, s.row) /\ alerts' = alerts \cup s.alerts
  BY <1>1, Committing
<1>3. EntriesWith(s) = entries'
  BY <1>2 DEF EntriesWith, WithEntry
<1>4. AlertsSound(s) /\ a \in s.alerts
  BY <1>2, GoodOf DEF Sound
<1> QED
  BY <1>2, <1>3, <1>4 DEF AlertsSound, Past

\* Watch::fire under lock_family: as long as no expense is deleted and no cap of a
\* category changed meanwhile, an expense committed that takes the month past a threshold
\* of a cap has its alert sent with it, or already sent; so does every other write.
THEOREM EveryCrossingIsAlerted == ASSUME BudgetAssumption PROVE BudgetSpec => CrossingsAlerted
<1>1. ASSUME BudgetInv, BudgetNext
      PROVE  beside \cap {"delete_budget_entry", "update_budget_category"} = {} =>
               \A a \in Thresholds :
                  (/\ entries' # entries /\ UNCHANGED settings
                   /\ ~Reached(a[2], Total(entries, a[1]), WatchedCap(a[1]))
                   /\ Reached(a[2], Total(entries', a[1]), WatchedCap(a[1])))
                  => a \in alerts'
  BY <1>1, CrossingFound DEF NothingBeside, Past
<1>2. UNCHANGED budgetVars => entries' = entries
  BY DEF budgetVars
<1> QED
  BY <1>1, <1>2, BudgetHolds, PTL DEF BudgetSpec, CrossingsAlerted

\* Watch::fire: in the same circumstances an alert sent is true of the caps and of the
\* expenses as they are when it is committed, not only as they were when they were read.
THEOREM AlertsTellTheTruth == ASSUME BudgetAssumption PROVE BudgetSpec => AlertsTrue
<1>1. ASSUME BudgetInv, BudgetNext
      PROVE  beside \cap {"delete_budget_entry", "update_budget_category"} = {} =>
               \A a \in alerts' \ alerts : Reached(a[2], Total(entries', a[1]), WatchedCap(a[1]))
  BY <1>1, AlertFounded DEF NothingBeside
<1>2. UNCHANGED budgetVars => alerts' = alerts
  BY DEF budgetVars
<1> QED
  BY <1>1, <1>2, BudgetHolds, PTL DEF BudgetSpec, AlertsTrue
=============================================================================
