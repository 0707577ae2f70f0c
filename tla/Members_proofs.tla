--------------------------- MODULE Members_proofs ---------------------------
(* What is proved of the two components that MCMembers checks together.      *)
(*                                                                           *)
(* Of LoginThrottle: that its table keeps its two bounds, and a pair no more *)
(* attempts than two windows that touch, for every number of attempts at     *)
(* once and whatever successes, failures and purges interleave.              *)
(*                                                                           *)
(* Of the groups of GroupTransactions, for every set of users, groups and    *)
(* requests: an invitation admits one account, a group keeps its owner while *)
(* nobody hands it over, two successions do not collide, and a group that a  *)
(* purge leaves without an owner has no active member.                       *)
EXTENDS LoginThrottle, GroupTransactions, FiniteSetTheorems, TLAPS

-----------------------------------------------------------------------------
(* The login throttle: its table.                                          *)

TableAssumption == IsFiniteSet(Addresses) /\ IsFiniteSet(Emails)

RowType == [attempts : Nat, window_start : Nat, locked_until : Nat]
Attempt == [at : {"idle", "waiting", "update", "table", "write", "admitted"},
            pair : Pairs \cup {NoPair}, decided : Nat, entry : RowType,
            purged : SUBSET Pairs, out : SUBSET Pairs]

TableShape == /\ now \in Nat
         /\ rows \in [Pairs -> RowType]
         /\ att \in [Attempts -> Attempt]
         /\ \A p \in Attempts : att[p].at # "idle" => att[p].pair \in Pairs

\* Whoever holds the table's lock is alone.
OneInTable == \A p, q \in Attempts : att[p].at = "write" /\ att[q].at = "write" => p = q

\* What the table holds once a decided insertion is written keeps both bounds: nobody
\* else adds a row meanwhile, and the rows that go make it only smaller.
After(p) == (Held(rows) \ (att[p].purged \cup att[p].out)) \cup {att[p].pair}
RoomIsKept ==
    \A p \in Attempts : att[p].at = "write" /\ att[p].entry # Absent =>
        /\ Cardinality(After(p)) <= MaxTracked
        /\ Cardinality(After(p) \cap Of(att[p].pair[1])) <= MaxPairsPerIp

IInv == TableShape /\ OneInTable /\ RoomIsKept /\ TableBounded

-----------------------------------------------------------------------------
(* Sets of pairs.                                                            *)

LEMMA PairsFinite == ASSUME TableAssumption, NEW S \in SUBSET Pairs PROVE IsFiniteSet(S)
<1>1. IsFiniteSet(Pairs)
  BY FS_Product DEF TableAssumption, Pairs
<1> QED
  BY <1>1, FS_Subset

LEMMA Smaller ==
    ASSUME TableAssumption, NEW S \in SUBSET Pairs, NEW T \in SUBSET S
    PROVE  Cardinality(T) <= Cardinality(S) /\ Cardinality(S) \in Nat /\ Cardinality(T) \in Nat
BY PairsFinite, FS_Subset, FS_CardinalityType

LEMMA OneMore ==
    ASSUME TableAssumption, NEW S \in SUBSET Pairs, NEW T, NEW k \in Pairs, T \subseteq S \cup {k},
           NEW n \in Nat, Cardinality(S) < n
    PROVE  Cardinality(T) <= n
<1>1. IsFiniteSet(S) /\ Cardinality(S) \in Nat
  BY PairsFinite, FS_CardinalityType
<1>2. Cardinality(S \cup {k}) <= Cardinality(S) + 1 /\ Cardinality(S \cup {k}) \in Nat
  <2>1. Cardinality(S \cup {k}) = IF k \in S THEN Cardinality(S) ELSE Cardinality(S) + 1
    BY <1>1, FS_AddElement
  <2> QED
    BY <1>1, <2>1
<1>3. T \in SUBSET (S \cup {k}) /\ S \cup {k} \in SUBSET Pairs
  OBVIOUS
<1>4. Cardinality(T) <= Cardinality(S \cup {k}) /\ Cardinality(T) \in Nat
  BY <1>3, Smaller
<1> QED
  BY <1>1, <1>2, <1>4

\* Fewer rows, and the same attempts: every bound is kept.
LEMMA FewerRows ==
    ASSUME TableAssumption, LimitsAssumption, TableShape, RoomIsKept, TableBounded,
           Held(rows') \subseteq Held(rows),
           \A p \in Attempts : att'[p].at = "write" => att'[p] = att[p]
    PROVE  RoomIsKept' /\ TableBounded'
<1>0. Held(rows) \in SUBSET Pairs /\ Held(rows') \in SUBSET Pairs
      /\ MaxTracked \in Nat /\ MaxPairsPerIp \in Nat
  BY DEF Held, LimitsAssumption
<1>1. Ceiling'
  <2>1. Cardinality(Held(rows')) <= Cardinality(Held(rows)) /\ Cardinality(Held(rows)) \in Nat
        /\ Cardinality(Held(rows')) \in Nat
    BY <1>0, Smaller
  <2> QED
    BY <1>0, <2>1 DEF TableBounded, Ceiling
<1>2. WithinShare'
  <2> SUFFICES ASSUME NEW a \in Addresses
               PROVE  Cardinality(Held(rows') \cap Of(a)) <= MaxPairsPerIp
    BY DEF WithinShare
  <2>1. /\ Cardinality(Held(rows') \cap Of(a)) <= Cardinality(Held(rows) \cap Of(a))
        /\ Cardinality(Held(rows) \cap Of(a)) \in Nat /\ Cardinality(Held(rows') \cap Of(a)) \in Nat
    BY <1>0, Smaller
  <2> QED
    BY <1>0, <2>1 DEF TableBounded, WithinShare
<1>3. RoomIsKept'
  <2> SUFFICES ASSUME NEW p \in Attempts, att'[p].at = "write", att'[p].entry # Absent
               PROVE  /\ Cardinality(After(p)') <= MaxTracked
                      /\ Cardinality(After(p)' \cap Of(att'[p].pair[1])) <= MaxPairsPerIp
    BY DEF RoomIsKept
  <2>1. att'[p] = att[p] /\ att[p].pair \in Pairs
    BY DEF TableShape
  <2>2. After(p) \in SUBSET Pairs /\ After(p)' \subseteq After(p)
    BY <1>0, <2>1 DEF After
  <2>3. /\ Cardinality(After(p)) <= MaxTracked
        /\ Cardinality(After(p) \cap Of(att[p].pair[1])) <= MaxPairsPerIp
    BY <2>1 DEF RoomIsKept
  <2> DEFINE A == After(p)
             B == After(p)'
             O == Of(att[p].pair[1])
  <2>4. A \in SUBSET Pairs /\ B \in SUBSET A /\ A \cap O \in SUBSET Pairs /\ B \cap O \in SUBSET (A \cap O)
    BY <2>2
  <2> HIDE DEF A, B, O
  <2>5. Cardinality(B) <= Cardinality(A) /\ Cardinality(A) \in Nat /\ Cardinality(B) \in Nat
    BY <2>4, Smaller
  <2>6. Cardinality(B \cap O) <= Cardinality(A \cap O) /\ Cardinality(A \cap O) \in Nat
        /\ Cardinality(B \cap O) \in Nat
    BY <2>4, Smaller
  <2> QED
    BY <1>0, <2>1, <2>3, <2>5, <2>6 DEF A, B, O
<1> QED
  BY <1>1, <1>2, <1>3 DEF TableBounded

-----------------------------------------------------------------------------
(* The records of the model.                                                 *)

LEMMA Records ==
    ASSUME LimitsAssumption, NEW t \in Nat
    PROVE  /\ Absent \in RowType /\ Fresh(t) \in RowType
           /\ \A e \in RowType : Counted(e, t) \in RowType
           /\ Idle \in Attempt /\ Idle.at = "idle"
           /\ \A k \in Pairs : /\ [Idle EXCEPT !.at = "waiting", !.pair = k] \in Attempt
                               /\ [Idle EXCEPT !.at = "waiting", !.pair = k].at = "waiting"
                               /\ [Idle EXCEPT !.at = "waiting", !.pair = k].pair = k
                               /\ [Idle EXCEPT !.at = "admitted", !.pair = k] \in Attempt
                               /\ [Idle EXCEPT !.at = "admitted", !.pair = k].at = "admitted"
                               /\ [Idle EXCEPT !.at = "admitted", !.pair = k].pair = k
<1>1. Absent \in RowType /\ Fresh(t) \in RowType
  BY DEF Absent, Fresh, RowType, Unlocked
<1>2. \A e \in RowType : Counted(e, t) \in RowType
  <2> TAKE e \in RowType
  <2> DEFINE f == IF IsStale(e, t) THEN Fresh(t) ELSE e
  <2>1. f \in RowType
    BY <1>1
  <2>2. f.attempts + 1 \in Nat /\ t + Lockout \in Nat
    BY <2>1 DEF RowType, LimitsAssumption
  <2>3. Counted(e, t) = [f EXCEPT !.attempts = @ + 1,
                          !.locked_until = IF f.attempts + 1 >= MaxFailures THEN t + Lockout ELSE @]
    BY DEF Counted
  <2> HIDE DEF f
  <2> QED
    BY <2>1, <2>2, <2>3 DEF RowType
<1>3. Idle \in Attempt /\ Idle.at = "idle"
  BY <1>1 DEF Idle, Attempt
<1>4. ASSUME NEW k \in Pairs
      PROVE  /\ [Idle EXCEPT !.at = "waiting", !.pair = k] \in Attempt
             /\ [Idle EXCEPT !.at = "waiting", !.pair = k].at = "waiting"
             /\ [Idle EXCEPT !.at = "waiting", !.pair = k].pair = k
             /\ [Idle EXCEPT !.at = "admitted", !.pair = k] \in Attempt
             /\ [Idle EXCEPT !.at = "admitted", !.pair = k].at = "admitted"
             /\ [Idle EXCEPT !.at = "admitted", !.pair = k].pair = k
  BY <1>1 DEF Idle, Attempt
<1> QED
  BY <1>1, <1>2, <1>3, <1>4

\* A step of p that leaves the table's lock as it finds it, or lets it go.
LEMMA OneStep ==
    ASSUME TableShape, OneInTable, NEW p \in Attempts, NEW a \in Attempt, Set(p, a),
           now' \in Nat, rows' \in [Pairs -> RowType], a.at # "idle" => a.pair \in Pairs
    PROVE  /\ TableShape' /\ att'[p] = a /\ \A q \in Attempts \ {p} : att'[q] = att[q]
           /\ a.at # "write" => OneInTable' /\ \A q \in Attempts : att'[q].at = "write" => att'[q] = att[q]
<1>1. att' = [att EXCEPT ![p] = a]
  BY DEF Set
<1>2. att'[p] = a /\ \A q \in Attempts \ {p} : att'[q] = att[q]
  BY <1>1 DEF TableShape
<1>3. TableShape'
  BY <1>1, <1>2 DEF TableShape
<1> QED
  BY <1>2, <1>3 DEF OneInTable

\* A step of p that adds no row and is not in the table.
LEMMA QuietTableStep ==
    ASSUME TableAssumption, LimitsAssumption, IInv, NEW p \in Attempts, NEW a \in Attempt, Set(p, a),
           a.at # "write", a.at # "idle" => a.pair \in Pairs,
           now' = now, rows' \in [Pairs -> RowType], Held(rows') \subseteq Held(rows)
    PROVE  IInv'
<1>1. TableShape /\ OneInTable /\ RoomIsKept /\ TableBounded
  BY DEF IInv
<1>2. now' \in Nat
  BY <1>1 DEF TableShape
<1>3. TableShape' /\ OneInTable' /\ \A q \in Attempts : att'[q].at = "write" => att'[q] = att[q]
  BY <1>1, <1>2, OneStep
<1>4. RoomIsKept' /\ TableBounded'
  BY <1>1, <1>3, FewerRows
<1> QED
  BY <1>3, <1>4 DEF IInv

-----------------------------------------------------------------------------
(* The steps.                                                                *)

LEMMA LockStep ==
    ASSUME TableAssumption, LimitsAssumption, IInv, NEW p \in Attempts, LockTable(p)
    PROVE  IInv'
<1> DEFINE k == att[p].pair
           leaving == {j \in Held(rows) : PurgeCutoff(rows[j], now)}
           R == [j \in Pairs |-> IF j \in leaving THEN Absent ELSE rows[j]]
           mine == StaleOf(R, k[1], now)
           S == [j \in Pairs |-> IF j \in mine THEN Absent ELSE R[j]]
           decided == [att[p] EXCEPT !.at = "write", !.decided = now, !.purged = leaving, !.entry = Absent]
           admitted == [decided EXCEPT !.entry = Counted(Fresh(now), now)]
<1>0. /\ TableShape /\ OneInTable /\ RoomIsKept /\ TableBounded /\ now \in Nat
      /\ att[p] \in Attempt /\ rows \in [Pairs -> RowType]
      /\ MaxTracked \in Nat /\ MaxPairsPerIp \in Nat
  BY DEF IInv, TableShape, LimitsAssumption
<1>1. att[p].at = "table" /\ TableFree(p) /\ k \in Pairs /\ UNCHANGED <<now, rows, tries>>
  BY <1>0 DEF LockTable, TableShape
<1>2. PICK a :
        /\ Set(p, a)
        /\ \/ a = [decided EXCEPT !.out = mine]
           \/ /\ ~RefusedAtShare(R, k[1], now) /\ Cardinality(Held(R)) < MaxTracked
              /\ a = [admitted EXCEPT !.out = mine]
           \/ /\ ~RefusedAtShare(R, k[1], now) /\ Cardinality(Held(R)) >= MaxTracked
              /\ \E out \in MakeRoom(S, now) : a = [admitted EXCEPT !.out = mine \cup out]
  BY DEF LockTable
<1>3. leaving \in SUBSET Pairs /\ mine \in SUBSET Pairs /\ Held(R) = Held(rows) \ leaving
      /\ Held(S) = Held(rows) \ (leaving \cup mine)
  BY <1>0 DEF Held, StaleOf
<1>4. decided \in Attempt /\ decided.at = "write" /\ decided.pair = k /\ decided.purged = leaving
      /\ decided.entry = Absent
  <2> HIDE DEF leaving, k
  <2>1. att[p].pair = k
    BY DEF k
  <2> QED
    BY <1>0, <1>3, <2>1, Records DEF Attempt
<1>5. admitted \in Attempt /\ admitted.at = "write" /\ admitted.pair = k /\ admitted.purged = leaving
  <2> HIDE DEF decided, leaving, k
  <2>1. Counted(Fresh(now), now) \in RowType
    BY <1>0, Records
  <2> QED
    BY <1>4, <2>1 DEF Attempt
<1>6. \A out \in MakeRoom(S, now) :
         /\ out \in SUBSET Pairs
         /\ Cardinality(Held(S) \ out) < MaxTracked
  <2> DEFINE live == {j \in Held(S) : ~IsStale(S[j], now)}
             size(j) == Cardinality(live \cap Of(j[1]))
             most == {j \in live : \A i \in live : size(i) <= size(j)}
             rank(j) == IF LockedAt(S[j], now) THEN <<1, S[j].locked_until>> ELSE <<0, S[j].window_start>>
             before(i, j) == i[1] < j[1] \/ (i[1] = j[1] /\ i[2] <= j[2])
             victims == {j \in most : \A i \in most : before(rank(j), rank(i))}
  <2>1. MakeRoom(S, now) = IF Cardinality(Held(S)) < MaxTracked THEN {{}}
                           ELSE IF Cardinality(live) < MaxTracked THEN {Held(S) \ live}
                           ELSE {(Held(S) \ live) \cup {j} : j \in victims}
    BY DEF MakeRoom
  <2>2. victims \subseteq live /\ live \subseteq Held(S) /\ Held(S) \subseteq Held(rows)
        /\ Held(rows) \subseteq Pairs
    BY <1>3 DEF Held
  <2> HIDE DEF live, victims
  <2>3. live \in SUBSET Held(rows) /\ Held(rows) \in SUBSET Pairs
    BY <2>2
  <2>4. IsFiniteSet(live) /\ Cardinality(live) \in Nat /\ Cardinality(live) <= MaxTracked
    <3>1. Cardinality(live) <= Cardinality(Held(rows)) /\ Cardinality(Held(rows)) \in Nat
          /\ Cardinality(live) \in Nat
      BY <2>3, Smaller
    <3>2. Cardinality(Held(rows)) <= MaxTracked
      BY <1>0 DEF TableBounded, Ceiling
    <3>3. live \in SUBSET Pairs
      BY <2>3
    <3>4. IsFiniteSet(live)
      BY <3>3, PairsFinite
    <3> QED
      BY <1>0, <3>1, <3>2, <3>4
  <2>0. CASE Cardinality(Held(S)) < MaxTracked
    <3>1. MakeRoom(S, now) = {{}} /\ Held(S) \ {} = Held(S)
      BY <2>0, <2>1
    <3> HIDE DEF S
    <3> QED
      BY <2>0, <3>1
  <2>5. CASE Cardinality(live) < MaxTracked /\ ~(Cardinality(Held(S)) < MaxTracked)
    <3>1. Held(S) \ (Held(S) \ live) = live
      BY <2>2
    <3> QED
      BY <2>1, <2>2, <2>5, <3>1
  <2>6. CASE ~(Cardinality(live) < MaxTracked) /\ ~(Cardinality(Held(S)) < MaxTracked)
    <3> HIDE DEF S
    <3>0. MakeRoom(S, now) = {(Held(S) \ live) \cup {j} : j \in victims}
      BY <2>1, <2>6
    <3>1. ASSUME NEW j \in victims
          PROVE  /\ (Held(S) \ live) \cup {j} \in SUBSET Pairs
                 /\ Cardinality(Held(S) \ ((Held(S) \ live) \cup {j})) < MaxTracked
      <4>1. Held(S) \ ((Held(S) \ live) \cup {j}) = live \ {j} /\ j \in live
        BY <2>2
      <4>2. Cardinality(live \ {j}) = Cardinality(live) - 1
        BY <2>4, <4>1, FS_RemoveElement
      <4>3. Cardinality(live) - 1 < MaxTracked
        BY <1>0, <2>4
      <4>4. Cardinality(Held(S) \ ((Held(S) \ live) \cup {j})) < MaxTracked
        BY <4>1, <4>2, <4>3
      <4>5. (Held(S) \ live) \cup {j} \in SUBSET Pairs
        BY <2>2, <4>1
      <4> QED
        BY <4>4, <4>5
    <3> QED
      BY <3>0, <3>1, Zenon
  <2> QED
    BY <2>0, <2>5, <2>6
<1>7. ASSUME NEW out \in SUBSET Pairs, Cardinality(Held(rows) \ (leaving \cup mine \cup out)) < MaxTracked,
             ~RefusedAtShare(R, k[1], now)
      PROVE  LET A == (Held(rows) \ (leaving \cup (mine \cup out))) \cup {k}
             IN  Cardinality(A) <= MaxTracked /\ Cardinality(A \cap Of(k[1])) <= MaxPairsPerIp
  <2> DEFINE A == (Held(rows) \ (leaving \cup (mine \cup out))) \cup {k}
             H == Held(rows) \ (leaving \cup mine \cup out)
             M == (Held(R) \cap Of(k[1])) \ mine
  <2>1. H \in SUBSET Pairs /\ M \in SUBSET Pairs /\ A \subseteq H \cup {k}
        /\ A \cap Of(k[1]) \subseteq M \cup {k}
    BY <1>3 DEF Held
  <2>2. Cardinality(M) < MaxPairsPerIp
    <3>1. ~(Cardinality(M) >= MaxPairsPerIp)
      BY <1>7 DEF RefusedAtShare
    <3>2. Cardinality(M) \in Nat
      BY <2>1, Smaller
    <3> QED
      BY <1>0, <3>1, <3>2
  <2>3. Cardinality(H) < MaxTracked
    BY <1>7
  <2> HIDE DEF A, H, M, k
  <2>4. k \in Pairs
    BY <1>1
  <2>5. Cardinality(A) <= MaxTracked
    BY <1>0, <2>1, <2>3, <2>4, OneMore
  <2>6. Cardinality(A \cap Of(k[1])) <= MaxPairsPerIp
    BY <1>0, <2>1, <2>2, <2>4, OneMore
  <2> QED
    BY <2>5, <2>6 DEF A
<1>8. /\ a \in Attempt /\ a.at = "write" /\ a.pair = k /\ a.purged = leaving
      /\ a.entry # Absent =>
            LET A == (Held(rows) \ (a.purged \cup a.out)) \cup {k}
            IN  Cardinality(A) <= MaxTracked /\ Cardinality(A \cap Of(k[1])) <= MaxPairsPerIp
  <2> HIDE DEF leaving, R, mine, S, decided, admitted, k
  <2>1. CASE a = [decided EXCEPT !.out = mine]
    BY <1>3, <1>4, <2>1 DEF Attempt
  <2>2. CASE /\ ~RefusedAtShare(R, k[1], now) /\ Cardinality(Held(R)) < MaxTracked
             /\ a = [admitted EXCEPT !.out = mine]
    <3>1. a \in Attempt /\ a.at = "write" /\ a.pair = k /\ a.purged = leaving /\ a.out = mine
      BY <1>3, <1>5, <2>2 DEF Attempt
    <3>2. Held(rows) \ (leaving \cup mine \cup {}) \in SUBSET Held(R) /\ Held(R) \in SUBSET Pairs
      BY <1>3 DEF Held
    <3>3. Cardinality(Held(rows) \ (leaving \cup mine \cup {})) < MaxTracked
      <4>1. /\ Cardinality(Held(rows) \ (leaving \cup mine \cup {})) <= Cardinality(Held(R))
            /\ Cardinality(Held(R)) \in Nat
            /\ Cardinality(Held(rows) \ (leaving \cup mine \cup {})) \in Nat
        BY <3>2, Smaller
      <4> QED
        BY <1>0, <2>2, <4>1
    <3>4. LET A == (Held(rows) \ (leaving \cup (mine \cup {}))) \cup {k}
          IN  Cardinality(A) <= MaxTracked /\ Cardinality(A \cap Of(k[1])) <= MaxPairsPerIp
      BY <1>7, <2>2, <3>3
    <3>5. mine \cup {} = mine
      OBVIOUS
    <3> QED
      BY <3>1, <3>4, <3>5
  <2>3. CASE /\ ~RefusedAtShare(R, k[1], now)
             /\ \E out \in MakeRoom(S, now) : a = [admitted EXCEPT !.out = mine \cup out]
    <3>1. PICK out \in MakeRoom(S, now) : a = [admitted EXCEPT !.out = mine \cup out]
      BY <2>3
    <3>2. out \in SUBSET Pairs /\ Cardinality(Held(S) \ out) < MaxTracked
      BY <1>6
    <3>3. a \in Attempt /\ a.at = "write" /\ a.pair = k /\ a.purged = leaving /\ a.out = mine \cup out
      BY <1>3, <1>5, <3>1, <3>2 DEF Attempt
    <3>4. Held(S) \ out = Held(rows) \ (leaving \cup mine \cup out)
      BY <1>3
    <3>5. Cardinality(Held(rows) \ (leaving \cup mine \cup out)) < MaxTracked
      BY <3>2, <3>4
    <3>6. LET A == (Held(rows) \ (leaving \cup (mine \cup out))) \cup {k}
          IN  Cardinality(A) <= MaxTracked /\ Cardinality(A \cap Of(k[1])) <= MaxPairsPerIp
      BY <1>7, <2>3, <3>2, <3>5
    <3> QED
      BY <3>3, <3>6
  <2> QED
    BY <1>2, <2>1, <2>2, <2>3
<1> HIDE DEF leaving, R, mine, S, decided, admitted, k
<1>9. TableShape' /\ att'[p] = a /\ \A q \in Attempts \ {p} : att'[q] = att[q]
  BY <1>0, <1>1, <1>2, <1>8, OneStep
<1>10. OneInTable'
  BY <1>1, <1>9 DEF TableFree, OneInTable
<1>11. RoomIsKept'
  <2> SUFFICES ASSUME NEW q \in Attempts, att'[q].at = "write", att'[q].entry # Absent
               PROVE  /\ Cardinality(After(q)') <= MaxTracked
                      /\ Cardinality(After(q)' \cap Of(att'[q].pair[1])) <= MaxPairsPerIp
    BY DEF RoomIsKept
  <2>1. q = p
    BY <1>1, <1>9 DEF TableFree
  <2>2. After(q)' = (Held(rows) \ (a.purged \cup a.out)) \cup {k} /\ att'[q].pair = k
    BY <1>1, <1>8, <1>9, <2>1 DEF After
  <2> QED
    BY <1>8, <1>9, <2>1, <2>2
<1>12. TableBounded'
  BY <1>0, <1>1 DEF TableBounded, Ceiling, WithinShare
<1> QED
  BY <1>9, <1>10, <1>11, <1>12 DEF IInv

LEMMA WriteRowStep ==
    ASSUME TableAssumption, LimitsAssumption, IInv, NEW p \in Attempts, WriteNew(p)
    PROVE  IInv'
<1> DEFINE k == att[p].pair
           gone == att[p].purged \cup att[p].out
           insert == att[p].entry # Absent
           a == IF insert THEN [Idle EXCEPT !.at = "admitted", !.pair = k] ELSE Idle
<1>0. /\ TableShape /\ OneInTable /\ RoomIsKept /\ TableBounded /\ now \in Nat
      /\ att[p] \in Attempt /\ rows \in [Pairs -> RowType] /\ att[p].at = "write" /\ k \in Pairs
      /\ att[p].entry \in RowType /\ MaxTracked \in Nat /\ MaxPairsPerIp \in Nat
  BY DEF IInv, TableShape, LimitsAssumption, WriteNew, Attempt
<1>1. /\ rows' = [j \in Pairs |-> IF insert /\ j = k THEN att[p].entry
                                  ELSE IF j \in gone THEN Absent ELSE rows[j]]
      /\ Set(p, a) /\ now' = now
  BY DEF WriteNew
<1>2. a \in Attempt /\ a.at # "write" /\ (a.at # "idle" => a.pair \in Pairs)
  BY <1>0, Records
<1>3. rows' \in [Pairs -> RowType] /\ now' \in Nat
  <2>1. Absent \in RowType
    BY <1>0, Records
  <2> HIDE DEF insert, gone, k
  <2> QED
    BY <1>0, <1>1, <2>1
<1> HIDE DEF a
<1>4. CASE ~insert
  <2>1. Held(rows') \subseteq Held(rows)
    <3> HIDE DEF gone, k, insert
    <3> QED
      BY <1>1, <1>4 DEF Held
  <2> QED
    BY <1>1, <1>2, <1>3, <2>1, QuietTableStep
<1>5. CASE insert
  <2>1. TableShape' /\ OneInTable' /\ \A q \in Attempts : att'[q].at = "write" => att'[q] = att[q]
    BY <1>0, <1>1, <1>2, <1>3, OneStep
  <2>2. att'[p].at # "write"
    BY <1>0, <1>1, <1>2, <1>3, OneStep
  <2>3. \A q \in Attempts : att'[q].at # "write"
    BY <1>0, <2>1, <2>2 DEF OneInTable
  <2>4. RoomIsKept'
    BY <2>3 DEF RoomIsKept
  <2>5. Held(rows') \subseteq After(p) /\ After(p) \in SUBSET Pairs
    <3>1. After(p) = (Held(rows) \ gone) \cup {k}
      BY DEF After
    <3>2. Held(rows) \subseteq Pairs
      BY DEF Held
    <3> HIDE DEF gone, k, insert
    <3> QED
      BY <1>0, <1>1, <1>5, <3>1, <3>2 DEF Held
  <2>6. /\ Cardinality(After(p)) <= MaxTracked
        /\ Cardinality(After(p) \cap Of(k[1])) <= MaxPairsPerIp
    BY <1>0, <1>5 DEF RoomIsKept
  <2>7. Ceiling'
    <3>1. /\ Cardinality(Held(rows')) <= Cardinality(After(p)) /\ Cardinality(After(p)) \in Nat
          /\ Cardinality(Held(rows')) \in Nat
      BY <2>5, Smaller
    <3> QED
      BY <1>0, <2>6, <3>1 DEF Ceiling
  <2>8. WithinShare'
    <3> SUFFICES ASSUME NEW b \in Addresses
                 PROVE  Cardinality(Held(rows') \cap Of(b)) <= MaxPairsPerIp
      BY DEF WithinShare
    <3>1. CASE b = k[1]
      <4>1. After(p) \cap Of(b) \in SUBSET Pairs /\ Held(rows') \cap Of(b) \in SUBSET (After(p) \cap Of(b))
        BY <2>5
      <4>2. /\ Cardinality(Held(rows') \cap Of(b)) <= Cardinality(After(p) \cap Of(b))
            /\ Cardinality(After(p) \cap Of(b)) \in Nat /\ Cardinality(Held(rows') \cap Of(b)) \in Nat
        BY <4>1, Smaller
      <4> QED
        BY <1>0, <2>6, <3>1, <4>2
    <3>2. CASE b # k[1]
      <4>1. k \notin Of(b)
        BY <3>2 DEF Of
      <4>2. Held(rows) \cap Of(b) \in SUBSET Pairs /\ Held(rows') \cap Of(b) \in SUBSET (Held(rows) \cap Of(b))
        BY <2>5, <4>1 DEF After, Held
      <4>3. /\ Cardinality(Held(rows') \cap Of(b)) <= Cardinality(Held(rows) \cap Of(b))
            /\ Cardinality(Held(rows) \cap Of(b)) \in Nat /\ Cardinality(Held(rows') \cap Of(b)) \in Nat
        BY <4>2, Smaller
      <4>4. Cardinality(Held(rows) \cap Of(b)) <= MaxPairsPerIp
        BY <1>0 DEF TableBounded, WithinShare
      <4> QED
        BY <1>0, <4>3, <4>4
    <3> QED
      BY <3>1, <3>2
  <2> QED
    BY <2>1, <2>4, <2>7, <2>8 DEF IInv, TableBounded
<1> QED
  BY <1>4, <1>5

LEMMA NextInvariant ==
    ASSUME TableAssumption, LimitsAssumption, IInv, [Next]_vars
    PROVE  IInv'
<1>0. /\ TableShape /\ OneInTable /\ RoomIsKept /\ TableBounded /\ now \in Nat
      /\ rows \in [Pairs -> RowType] /\ att \in [Attempts -> Attempt]
      /\ \A p \in Attempts : att[p].at # "idle" => att[p].pair \in Pairs
  BY DEF IInv, TableShape
<1>a. Absent \in RowType /\ Idle \in Attempt /\ Idle.at = "idle"
  BY <1>0, Records
<1>b. ASSUME now' \in Nat, rows' \in [Pairs -> RowType], att' = att, Held(rows') \subseteq Held(rows)
      PROVE  IInv'
  <2>1. TableShape' /\ OneInTable'
    BY <1>0, <1>b DEF TableShape, OneInTable
  <2>2. RoomIsKept' /\ TableBounded'
    BY <1>0, <1>b, FewerRows
  <2> QED
    BY <2>1, <2>2 DEF IInv
<1>1. CASE UNCHANGED vars
  BY <1>0, <1>1, <1>b DEF vars
<1>2. ASSUME NEW p \in Attempts, NEW k \in Pairs, Try(p, k) PROVE IInv'
  <2> DEFINE a == [Idle EXCEPT !.at = "waiting", !.pair = k]
  <2>1. a \in Attempt /\ a.at = "waiting" /\ a.pair = k
    BY <1>0, Records
  <2>2. Set(p, a) /\ UNCHANGED <<now, rows>>
    BY <1>2 DEF Try
  <2> HIDE DEF a
  <2> QED
    BY <1>0, <2>1, <2>2, QuietTableStep
<1>3. ASSUME NEW p \in Attempts, Refused(p) PROVE IInv'
  <2> DEFINE stale == StaleOf(rows, att[p].pair[1], now)
  <2>1. /\ rows' = [j \in Pairs |-> IF j \in stale THEN Absent ELSE rows[j]]
        /\ Set(p, Idle) /\ now' = now
    BY <1>3 DEF Refused
  <2> HIDE DEF stale
  <2>2. rows' \in [Pairs -> RowType] /\ Held(rows') \subseteq Held(rows)
    BY <1>0, <1>a, <2>1 DEF Held
  <2> QED
    BY <1>a, <2>1, <2>2, QuietTableStep
<1>4. ASSUME NEW p \in Attempts, Locked(p) \/ Fail(p) \/ WrongPassword(p) PROVE IInv'
  <2>1. Set(p, Idle) /\ UNCHANGED <<now, rows>>
    BY <1>4 DEF Locked, Fail, WrongPassword
  <2> QED
    BY <1>0, <1>a, <2>1, QuietTableStep
<1>5. ASSUME NEW p \in Attempts, DecideHeld(p) PROVE IInv'
  <2> DEFINE e == Counted(rows[att[p].pair], now)
             a == [att[p] EXCEPT !.at = "update", !.decided = now, !.entry = e]
  <2>1. Set(p, a) /\ UNCHANGED <<now, rows>> /\ att[p].pair \in Pairs /\ att[p] \in Attempt
    BY <1>0, <1>5 DEF DecideHeld
  <2>2. e \in RowType
    BY <1>0, <2>1, Records
  <2> HIDE DEF e
  <2>3. a \in Attempt /\ a.at = "update" /\ a.pair = att[p].pair
    BY <1>0, <2>1, <2>2 DEF Attempt
  <2> HIDE DEF a
  <2> QED
    BY <1>0, <2>1, <2>3, QuietTableStep
<1>6. ASSUME NEW p \in Attempts,
             Set(p, [att[p] EXCEPT !.at = "table"]) /\ UNCHANGED <<now, rows>>, att[p].at # "idle"
      PROVE  IInv'
  <2> DEFINE a == [att[p] EXCEPT !.at = "table"]
  <2>1. Set(p, a) /\ UNCHANGED <<now, rows>> /\ att[p].pair \in Pairs /\ att[p] \in Attempt
    BY <1>0, <1>6
  <2>2. a \in Attempt /\ a.at = "table" /\ a.pair = att[p].pair
    BY <2>1 DEF Attempt
  <2> HIDE DEF a
  <2> QED
    BY <1>0, <2>1, <2>2, QuietTableStep
<1>7. ASSUME NEW p \in Attempts, DecideNew(p) PROVE IInv'
  BY <1>6, <1>7 DEF DecideNew
<1>8. ASSUME NEW p \in Attempts, UpdateHeld(p) PROVE IInv'
  <2> DEFINE k == att[p].pair
             a == [Idle EXCEPT !.at = "admitted", !.pair = k]
  <2>0. att[p].at = "update" /\ k \in Pairs /\ att[p].entry \in RowType
    BY <1>0, <1>8 DEF UpdateHeld, Attempt
  <2>1. CASE StillThere(k)
    <3>1. /\ rows' = [rows EXCEPT ![k] = att[p].entry] /\ now' = now
          /\ Set(p, a) /\ rows[k] # Absent
      BY <1>8, <2>1 DEF UpdateHeld, StillThere
    <3>2. a \in Attempt /\ a.at = "admitted" /\ a.pair = k
      BY <1>0, <2>0, Records
    <3> HIDE DEF k, a
    <3>3. rows' \in [Pairs -> RowType] /\ Held(rows') \subseteq Held(rows)
      BY <1>0, <2>0, <3>1 DEF Held
    <3> QED
      BY <2>0, <3>1, <3>2, <3>3, QuietTableStep
  <2>2. CASE ~StillThere(k)
    BY <1>6, <1>8, <2>0, <2>2 DEF UpdateHeld
  <2> QED
    BY <2>1, <2>2
<1>9. ASSUME NEW p \in Attempts, RecordSuccess(p) PROVE IInv'
  <2> DEFINE k == att[p].pair
  <2>1. rows' = [rows EXCEPT ![k] = Absent] /\ Set(p, Idle) /\ now' = now
    BY <1>9 DEF RecordSuccess
  <2> HIDE DEF k
  <2>2. rows' \in [Pairs -> RowType] /\ Held(rows') \subseteq Held(rows)
    BY <1>0, <1>a, <2>1 DEF Held
  <2> QED
    BY <1>a, <2>1, <2>2, QuietTableStep
<1>10. CASE RetentionPurge
  <2> DEFINE old == {k \in Held(rows) : PurgeCutoff(rows[k], now)}
  <2>1. rows' = [k \in Pairs |-> IF k \in old THEN Absent ELSE rows[k]] /\ UNCHANGED <<now, att>>
    BY <1>10 DEF RetentionPurge
  <2> HIDE DEF old
  <2>2. rows' \in [Pairs -> RowType] /\ Held(rows') \subseteq Held(rows)
    BY <1>0, <1>a, <2>1 DEF Held
  <2> QED
    BY <1>0, <1>b, <2>1, <2>2
<1>11. CASE Tick
  <2>1. now' \in Nat /\ UNCHANGED <<rows, att>>
    BY <1>0, <1>11 DEF Tick
  <2> QED
    BY <1>0, <1>b, <2>1
<1>12. ASSUME NEW p \in Attempts, LockTable(p) \/ WriteNew(p) PROVE IInv'
  BY <1>12, LockStep, WriteRowStep
<1> QED
  BY <1>1, <1>2, <1>3, <1>4, <1>5, <1>7, <1>8, <1>9, <1>10, <1>11, <1>12 DEF Next, Step, Enter

LEMMA InitInvariant == ASSUME TableAssumption, LimitsAssumption, Init PROVE IInv
<1>1. now = 1 /\ rows = [k \in Pairs |-> Absent] /\ att = [p \in Attempts |-> Idle]
  BY DEF Init
<1>2. Absent \in RowType /\ Idle \in Attempt /\ Idle.at = "idle"
  BY Records
<1>3. Held(rows) = {}
  BY <1>1 DEF Held
<1>4. Cardinality({}) = 0
  BY FS_EmptySet
<1>5. TableShape /\ OneInTable /\ RoomIsKept
  <2>1. \A p \in Attempts : att[p] = Idle
    BY <1>1
  <2>2. now \in Nat
    BY <1>1
  <2> QED
    BY <1>1, <1>2, <2>1, <2>2 DEF TableShape, OneInTable, RoomIsKept
<1>6. TableBounded
  <2>1. \A a \in Addresses : Held(rows) \cap Of(a) = {}
    BY <1>3
  <2> QED
    BY <1>3, <1>4, <2>1 DEF TableBounded, Ceiling, WithinShare, LimitsAssumption
<1> QED
  BY <1>5, <1>6 DEF IInv

\* The table never holds more rows than MAX_TRACKED, nor more pairs of an address than
\* MAX_PAIRS_PER_IP, whatever attempts are between their reads and their insertion.
THEOREM TableKeepsItsBounds == ASSUME TableAssumption PROVE Spec => []TableBounded
<1>1. Init => IInv
  BY InitInvariant, LimitsAssumption
<1>2. IInv /\ [Next]_vars => IInv'
  BY NextInvariant, LimitsAssumption
<1>3. IInv => TableBounded
  BY DEF IInv
<1> QED
  BY <1>1, <1>2, <1>3, PTL DEF Spec

-----------------------------------------------------------------------------
(* How many attempts reach the password in the length of a window.           *)

\* MAX_FAILURES is 10; WINDOW and LOCKOUT are 15 minutes both.
BurstAssumption == MaxFailures > 1 /\ Window <= Lockout

UpTo(T, t) == \A i \in 1..Len(T) : T[i] <= t

\* Of the last admissions T of a pair, the last first: what a new window that starts
\* at t may find of them within its length...
Spent(T, t) == \A i \in 1..Len(T) : i >= MaxFailures - 1 => T[i] + Window <= t

\* ...and what the row of the pair says of them.
RowTells(e, T) ==
    /\ e.attempts \in 1..MaxFailures
    /\ e.attempts = MaxFailures => e.locked_until # Unlocked
    /\ \A i \in 1..Len(T) :
          /\ T[i] <= e.window_start + Window
          /\ i >= e.attempts => T[i] <= e.window_start
          /\ i >= e.attempts + MaxFailures - 1 => T[i] + Window <= e.window_start
          /\ e.locked_until # Unlocked => T[i] + Lockout <= e.locked_until

Tells(k) ==
    /\ tries[k] \in Seq(Nat) /\ Len(tries[k]) <= Remembered /\ UpTo(tries[k], now)
    /\ rows[k] = Absent => Spent(tries[k], now)
    /\ rows[k] # Absent => RowTells(rows[k], tries[k]) /\ rows[k].window_start <= now
    /\ Len(tries[k]) = Remembered => tries[k][Remembered] + Window <= tries[k][1]

\* One attempt at a time on an address past its lock.
OneInScope ==
    \A p, q \in Attempts : p # q /\ att[p].at \in Inside /\ att[q].at \in Inside =>
        att[p].pair[1] # att[q].pair[1]

\* What an attempt has decided is still of the row, and of the admissions, it read.
Knows(p) ==
    LET k == att[p].pair
        d == att[p].decided
    IN  /\ att[p].at = "update" => d \in 1..now
        /\ att[p].at = "update" /\ rows[k] # Absent =>
               /\ ~LockedAt(rows[k], d) /\ att[p].entry = Counted(rows[k], d)
               /\ rows[k].window_start <= d /\ UpTo(tries[k], d)
        /\ att[p].at \in {"table", "write"} => rows[k] = Absent
        /\ att[p].at = "write" /\ att[p].entry # Absent =>
               /\ d \in 1..now /\ att[p].entry = Counted(Fresh(d), d)
               /\ Spent(tries[k], d) /\ UpTo(tries[k], d)

BurstInv ==
    /\ now > 0 /\ tries = [k \in Pairs |-> tries[k]] /\ OneInScope
    /\ (\A k \in Pairs : Tells(k)) /\ (\A p \in Attempts : Knows(p))

-----------------------------------------------------------------------------
(* Admissions, of any pair.                                                  *)

LEMMA TriedIs ==
    ASSUME LimitsAssumption, BurstAssumption, NEW k \in Pairs, tries[k] \in Seq(Nat),
           Len(tries[k]) <= Remembered, NEW t \in Nat
    PROVE  /\ Tried(k, t) \in Seq(Nat) /\ Len(Tried(k, t)) <= Remembered
           /\ Len(Tried(k, t)) >= 1 /\ Len(Tried(k, t)) <= Len(tries[k]) + 1
           /\ Tried(k, t)[1] = t
           /\ \A i \in 2..Len(Tried(k, t)) : /\ Tried(k, t)[i] = tries[k][i - 1]
                                             /\ i - 1 \in 1..Len(tries[k])
<1> DEFINE T == tries[k]
           n == IF Len(T) + 1 <= Remembered THEN Len(T) + 1 ELSE Remembered
<1>1. Remembered \in Nat /\ Remembered >= 3 /\ Len(T) \in Nat
  BY DEF LimitsAssumption, BurstAssumption, Remembered
<1>2. n \in Nat /\ n >= 1 /\ n <= Remembered /\ n <= Len(T) + 1
  BY <1>1
<1>3. {j \in 1..Remembered : j <= Len(T) + 1} = 1..n
  BY <1>1
<1>4. Tried(k, t) = [i \in 1..n |-> IF i = 1 THEN t ELSE T[i - 1]]
  BY <1>3 DEF Tried
<1> HIDE DEF n
<1>5. \A i \in 1..n : i # 1 => i - 1 \in 1..Len(T) /\ T[i - 1] \in Nat
  BY <1>1, <1>2
<1>6. [i \in 1..n |-> IF i = 1 THEN t ELSE T[i - 1]] \in [1..n -> Nat]
  BY <1>5
<1>7. Tried(k, t) \in Seq(Nat) /\ Len(Tried(k, t)) = n
  BY <1>2, <1>4, <1>6
<1>8. Tried(k, t)[1] = t /\ \A i \in 2..n : Tried(k, t)[i] = T[i - 1]
  BY <1>2, <1>4
<1>9. \A i \in 2..Len(Tried(k, t)) : Tried(k, t)[i] = T[i - 1] /\ i - 1 \in 1..Len(T)
  <2>1. ASSUME NEW i \in 2..n  PROVE  i \in 1..n /\ i # 1
    BY <1>2
  <2> HIDE DEF T
  <2> QED
    BY <1>5, <1>7, <1>8, <2>1
<1> QED
  BY <1>2, <1>7, <1>8, <1>9

\* A window that is over, or a lock, leaves little to the next one...
LEMMA StaleIsSpent ==
    ASSUME LimitsAssumption, BurstAssumption, NEW e \in RowType, NEW T \in Seq(Nat), NEW t \in Nat,
           RowTells(e, T), IsStale(e, t)
    PROVE  Spent(T, t)
<1> SUFFICES ASSUME NEW i \in 1..Len(T), i >= MaxFailures - 1 PROVE T[i] + Window <= t
  BY DEF Spent
<1>1. T[i] \in Nat /\ Window \in Nat /\ Lockout \in Nat /\ MaxFailures \in Nat /\ Window <= Lockout
      /\ e.window_start \in Nat /\ e.locked_until \in Nat
  BY DEF LimitsAssumption, BurstAssumption, RowType
<1>2. CASE e.locked_until # Unlocked
  <2>1. T[i] + Lockout <= e.locked_until /\ e.locked_until <= t
    BY <1>1, <1>2 DEF RowTells, IsStale, LockedAt
  <2> QED
    BY <1>1, <2>1
<1>3. CASE e.locked_until = Unlocked
  <2>1. e.attempts \in 1..MaxFailures /\ e.attempts # MaxFailures /\ t - e.window_start > Window
    BY <1>3 DEF RowTells, IsStale
  <2>2. i >= e.attempts
    BY <1>1, <2>1
  <2>3. T[i] <= e.window_start
    BY <2>2 DEF RowTells
  <2> QED
    BY <1>1, <2>1, <2>3
<1> QED
  BY <1>2, <1>3

\* ...and so does a row past the cutoff of the purge.
LEMMA PurgedIsSpent ==
    ASSUME LimitsAssumption, BurstAssumption, NEW e \in RowType, NEW T \in Seq(Nat), NEW t \in Nat,
           RowTells(e, T), PurgeCutoff(e, t)
    PROVE  Spent(T, t)
<1> SUFFICES ASSUME NEW i \in 1..Len(T) PROVE T[i] + Window <= t
  BY DEF Spent
<1>1. T[i] \in Nat /\ Window \in Nat /\ Lockout \in Nat /\ Window <= Lockout /\ e.window_start \in Nat
  BY DEF LimitsAssumption, BurstAssumption, RowType
<1>2. T[i] <= e.window_start + Window /\ e.window_start + Window + Lockout <= t
  BY DEF RowTells, PurgeCutoff
<1> QED
  BY <1>1, <1>2

LEMMA SpentLater ==
    ASSUME LimitsAssumption, NEW T \in Seq(Nat), NEW t \in Nat, NEW u \in Nat, t <= u
    PROVE  (Spent(T, t) => Spent(T, u)) /\ (UpTo(T, t) => UpTo(T, u))
<1>1. ASSUME Spent(T, t), NEW i \in 1..Len(T), i >= MaxFailures - 1 PROVE T[i] + Window <= u
  <2>1. T[i] + Window <= t
    BY <1>1 DEF Spent
  <2>2. T[i] \in Nat /\ Window \in Nat
    BY DEF LimitsAssumption
  <2> QED
    BY <2>1, <2>2
<1>2. ASSUME UpTo(T, t), NEW i \in 1..Len(T) PROVE T[i] <= u
  <2>1. T[i] <= t
    BY <1>2 DEF UpTo
  <2>2. T[i] \in Nat
    OBVIOUS
  <2> QED
    BY <2>1, <2>2
<1> QED
  BY <1>1, <1>2 DEF Spent, UpTo

LEMMA NothingTried ==
    /\ << >> \in Seq(Nat) /\ Len(<< >>) = 0
    /\ \A t : Spent(<< >>, t) /\ UpTo(<< >>, t)
BY DEF Spent, UpTo

\* The first admission of a window.
LEMMA FirstAdmitted ==
    ASSUME LimitsAssumption, BurstAssumption, NEW k \in Pairs, tries[k] \in Seq(Nat),
           Len(tries[k]) <= Remembered, NEW t \in Nat, UpTo(tries[k], t), Spent(tries[k], t)
    PROVE  RowTells(Counted(Fresh(t), t), Tried(k, t)) /\ Counted(Fresh(t), t).window_start = t
<1> DEFINE e == Counted(Fresh(t), t)
           T == tries[k]
           U == Tried(k, t)
<1>1. MaxFailures \in Nat /\ MaxFailures >= 2 /\ Window \in Nat /\ Lockout \in Nat
  BY DEF LimitsAssumption, BurstAssumption
<1>2. ~IsStale(Fresh(t), t)
  BY <1>1 DEF IsStale, Fresh
<1>3. e.attempts = 1 /\ e.window_start = t /\ e.locked_until = Unlocked
  <2>1. Fresh(t).attempts = 0 /\ ~(0 + 1 >= MaxFailures)
    BY <1>1 DEF Fresh
  <2>2. e = [Fresh(t) EXCEPT !.attempts = @ + 1, !.locked_until = @]
    BY <1>2, <2>1 DEF Counted
  <2> HIDE DEF e
  <2> QED
    BY <2>2 DEF Fresh
<1>4. /\ U \in Seq(Nat) /\ U[1] = t /\ Len(U) \in Nat
      /\ \A i \in 2..Len(U) : U[i] = T[i - 1] /\ i - 1 \in 1..Len(T)
  BY TriedIs
<1>5. ASSUME NEW i \in 1..Len(U)
      PROVE  U[i] <= t /\ U[i] \in Nat /\ (i >= MaxFailures => U[i] + Window <= t)
  <2>1. CASE i = 1
    BY <1>1, <1>4, <2>1
  <2>2. CASE i # 1
    <3>1. U[i] = T[i - 1] /\ i - 1 \in 1..Len(T)
      <4>1. i \in 2..Len(U)
        BY <1>4, <2>2
      <4> HIDE DEF U, T
      <4> QED
        BY <1>4, <4>1
    <3>2. T[i - 1] <= t /\ T[i - 1] \in Nat
      BY <3>1 DEF UpTo
    <3>3. i >= MaxFailures => T[i - 1] + Window <= t
      BY <1>1, <3>1 DEF Spent
    <3> QED
      BY <3>1, <3>2, <3>3
  <2> QED
    BY <2>1, <2>2
<1> HIDE DEF U, e
<1>6. RowTells(e, U)
  <2>1. 1 + MaxFailures - 1 = MaxFailures /\ 1 # MaxFailures /\ 1 \in 1..MaxFailures
    BY <1>1
  <2>2. \A i \in 1..Len(U) : U[i] <= t + Window
    BY <1>1, <1>5
  <2> QED
    BY <1>3, <1>5, <2>1, <2>2 DEF RowTells
<1> QED
  BY <1>3, <1>6 DEF U, e

\* One more in the window of the row.
LEMMA OneMoreAdmitted ==
    ASSUME LimitsAssumption, BurstAssumption, NEW k \in Pairs, tries[k] \in Seq(Nat),
           Len(tries[k]) <= Remembered, NEW t \in Nat, t > 0, UpTo(tries[k], t), NEW e \in RowType,
           RowTells(e, tries[k]), ~LockedAt(e, t), ~IsStale(e, t), e.window_start <= t
    PROVE  RowTells(Counted(e, t), Tried(k, t)) /\ Counted(e, t).window_start = e.window_start
<1> DEFINE f == Counted(e, t)
           T == tries[k]
           U == Tried(k, t)
           n == e.attempts
           w == e.window_start
<1>1. MaxFailures \in Nat /\ MaxFailures >= 2 /\ Window \in Nat /\ Lockout \in Nat /\ Window <= Lockout
  BY DEF LimitsAssumption, BurstAssumption
<1>2. e.locked_until = Unlocked /\ t - w <= Window /\ n \in 1..MaxFailures /\ n # MaxFailures /\ w \in Nat
  BY <1>1 DEF IsStale, RowTells, RowType
<1>3. /\ f.attempts = n + 1 /\ f.window_start = w
      /\ f.locked_until = IF n + 1 >= MaxFailures THEN t + Lockout ELSE Unlocked
  BY <1>2 DEF Counted, RowType
<1>4. /\ U \in Seq(Nat) /\ U[1] = t /\ Len(U) \in Nat
      /\ \A i \in 2..Len(U) : U[i] = T[i - 1] /\ i - 1 \in 1..Len(T)
  BY TriedIs
<1>5. ASSUME NEW i \in 1..Len(U)
      PROVE  /\ U[i] <= w + Window /\ U[i] <= t
             /\ i >= n + 1 => U[i] <= w
             /\ i >= n + 1 + MaxFailures - 1 => U[i] + Window <= w
  <2>1. CASE i = 1
    <3>1. U[i] = t
      BY <1>4, <2>1
    <3> HIDE DEF n, w, U
    <3>2. t <= w + Window /\ t <= t
      BY <1>1, <1>2
    <3>3. ~(1 >= n + 1) /\ ~(1 >= n + 1 + MaxFailures - 1)
      BY <1>1, <1>2
    <3> QED
      BY <2>1, <3>1, <3>2, <3>3
  <2>2. CASE i # 1
    <3> HIDE DEF n, w, T, U
    <3>1. U[i] = T[i - 1] /\ i - 1 \in 1..Len(T)
      <4>1. i \in 2..Len(U)
        BY <1>4, <2>2
      <4> HIDE DEF U, T
      <4> QED
        BY <1>4, <4>1
    <3> PICK j \in 1..Len(T) : j = i - 1
      BY <3>1
    <3>2. T[j] <= t
      BY DEF UpTo, T
    <3>3. T[j] <= w + Window /\ (j >= n => T[j] <= w)
      BY DEF RowTells, T, n, w
    <3>4. j >= n + MaxFailures - 1 => T[j] + Window <= w
      BY DEF RowTells, T, n, w
    <3>5. (i >= n + 1 => j >= n) /\ (i >= n + 1 + MaxFailures - 1 => j >= n + MaxFailures - 1)
      BY <1>1, <1>2, <1>4
    <3> QED
      BY <3>1, <3>2, <3>3, <3>4, <3>5
  <2> QED
    BY <2>1, <2>2
<1> HIDE DEF U, f
<1>6. n + 1 \in 1..MaxFailures /\ (n + 1 = MaxFailures => t + Lockout # Unlocked)
  BY <1>1, <1>2 DEF Unlocked
<1>7. ASSUME NEW i \in 1..Len(U) PROVE U[i] + Lockout <= t + Lockout
  <2>1. U[i] \in Nat
    BY <1>4
  <2>2. U[i] <= t
    BY <1>5
  <2> QED
    BY <1>1, <2>1, <2>2
<1>8. RowTells(f, U)
  <2>1. n + 1 = MaxFailures => n + 1 >= MaxFailures
    BY <1>1
  <2> HIDE DEF n, w
  <2>2. f.attempts \in 1..MaxFailures /\ (f.attempts = MaxFailures => f.locked_until # Unlocked)
    BY <1>3, <1>6, <2>1
  <2>3. ASSUME NEW i \in 1..Len(U), f.locked_until # Unlocked
        PROVE  U[i] + Lockout <= f.locked_until
    BY <1>3, <1>7, <2>3
  <2> QED
    BY <1>3, <1>5, <2>2, <2>3 DEF RowTells
<1> QED
  BY <1>3, <1>8 DEF U, f

LEMMA StaleCountsAsFirst ==
    ASSUME NEW e, NEW t, IsStale(e, t) PROVE Counted(e, t) = Counted(Fresh(t), t)
<1>1. (IF IsStale(Fresh(t), t) THEN Fresh(t) ELSE Fresh(t)) = Fresh(t)
  OBVIOUS
<1> QED
  BY <1>1 DEF Counted

\* A row written with its admission tells what it must, and is no burst.
LEMMA Admits ==
    ASSUME LimitsAssumption, BurstAssumption, NEW k \in Pairs, Tells(k), now \in Nat, now' = now,
           NEW d \in 1..now, UpTo(tries[k], d), NEW e \in RowType, RowTells(e, Tried(k, d)),
           e.window_start <= d, rows'[k] = e, tries'[k] = Tried(k, d)
    PROVE  Tells(k)'
<1> DEFINE U == Tried(k, d)
<1>1. MaxFailures \in Nat /\ Window \in Nat /\ Remembered = 2 * MaxFailures - 1 /\ Remembered >= 3
  BY DEF LimitsAssumption, BurstAssumption, Remembered
<1>2. d \in Nat /\ d <= now /\ tries[k] \in Seq(Nat) /\ Len(tries[k]) <= Remembered
  BY DEF Tells
<1>3. /\ U \in Seq(Nat) /\ Len(U) \in Nat /\ Len(U) <= Remembered /\ U[1] = d
      /\ \A i \in 2..Len(U) : U[i] = tries[k][i - 1] /\ i - 1 \in 1..Len(tries[k])
  BY <1>2, TriedIs
<1> HIDE DEF U
<1>4. UpTo(U, now)
  <2> SUFFICES ASSUME NEW i \in 1..Len(U) PROVE U[i] <= now
    BY DEF UpTo
  <2>1. CASE i = 1
    BY <1>2, <1>3, <2>1
  <2>2. CASE i # 1
    <3>1. U[i] = tries[k][i - 1] /\ i - 1 \in 1..Len(tries[k])
      BY <1>3, <2>2
    <3>2. tries[k][i - 1] <= d /\ tries[k][i - 1] \in Nat
      BY <1>2, <3>1 DEF UpTo
    <3> QED
      BY <1>2, <3>1, <3>2
  <2> QED
    BY <2>1, <2>2
<1>5. RowTells(e, U) /\ e.attempts \in 1..MaxFailures /\ e.window_start \in Nat
  BY DEF RowTells, U, RowType
<1>6. e # Absent
  BY <1>5 DEF Absent
<1>7. Len(U) = Remembered => U[Remembered] + Window <= U[1]
  <2> HAVE Len(U) = Remembered
  <2>1. Remembered \in 1..Len(U) /\ Remembered >= e.attempts + MaxFailures - 1
    BY <1>1, <1>5
  <2>2. U[Remembered] + Window <= e.window_start /\ U[Remembered] \in Nat
    BY <1>3, <1>5, <2>1 DEF RowTells
  <2> QED
    BY <1>1, <1>2, <1>3, <1>5, <2>2
<1>8. tries'[k] = U /\ e.window_start <= now
  BY <1>2, <1>5 DEF U
<1> QED
  BY <1>3, <1>4, <1>5, <1>6, <1>7, <1>8 DEF Tells, RowTells, UpTo, Spent, Remembered, Absent

-----------------------------------------------------------------------------
(* The steps.                                                                *)

\* What is known of a pair whose row goes, of itself or forgiven.
LEMMA RowGoes ==
    ASSUME LimitsAssumption, BurstAssumption, NEW k \in Pairs, Tells(k), now \in Nat,
           now' = now, rows'[k] = Absent,
           \/ tries'[k] = << >>
           \/ tries'[k] = tries[k] /\ (rows[k] # Absent => Spent(tries[k], now))
    PROVE  Tells(k)'
<1>1. Remembered \in Nat /\ Remembered > 0
  BY DEF LimitsAssumption, BurstAssumption, Remembered
<1>2. CASE tries'[k] = << >>
  <2>1. tries'[k] \in Seq(Nat) /\ Len(tries'[k]) = 0 /\ Spent(tries'[k], now') /\ UpTo(tries'[k], now')
    BY <1>2, NothingTried
  <2>2. (Len(tries[k]) <= Remembered)' /\ (Len(tries[k]) # Remembered)'
    BY <1>1, <2>1 DEF Remembered
  <2> QED
    BY <2>1, <2>2 DEF Tells, Spent, UpTo, Remembered, Absent
<1>3. CASE tries'[k] = tries[k] /\ (rows[k] # Absent => Spent(tries[k], now))
  BY <1>3 DEF Tells, Spent, UpTo, Remembered
<1> QED
  BY <1>2, <1>3

\* A pair as it was, or whose row goes: of itself, or forgiven.
Left(k) ==
    \/ rows'[k] = rows[k] /\ tries'[k] = tries[k]
    \/ /\ rows'[k] = Absent
       /\ \/ tries'[k] = << >>
          \/ tries'[k] = tries[k] /\ (rows[k] # Absent => Spent(tries[k], now))

LEMMA LeftTells ==
    ASSUME LimitsAssumption, BurstAssumption, NEW k \in Pairs, Tells(k), now \in Nat, now' = now, Left(k)
    PROVE  Tells(k)'
<1>1. CASE rows'[k] = rows[k] /\ tries'[k] = tries[k]
  BY <1>1 DEF Tells, RowTells, UpTo, Spent, Remembered, Absent
<1> QED
  BY <1>1, RowGoes DEF Left

LEMMA OthersKnow ==
    ASSUME NEW q \in Attempts, Knows(q), now' = now, att'[q] = att[q], Left(att[q].pair)
    PROVE  Knows(q)'
<1> DEFINE k == att[q].pair
<1>1. CASE rows'[k] = rows[k] /\ tries'[k] = tries[k]
  BY <1>1 DEF Knows
<1>2. CASE rows'[k] = Absent /\ tries'[k] = tries[k]
  BY <1>2 DEF Knows
<1>3. CASE rows'[k] = Absent /\ tries'[k] = << >>
  BY <1>3, NothingTried DEF Knows
<1> QED
  BY <1>1, <1>2, <1>3 DEF Left

\* A step of one attempt, what it leaves of the pairs, and what it then knows.
LEMMA OneAttempt ==
    ASSUME LimitsAssumption, BurstAssumption, TableShape, BurstInv, now' = now,
           NEW p \in Attempts, NEW a, Set(p, a), tries' = [k \in Pairs |-> tries'[k]],
           a.at \in Inside => /\ a.pair = att[p].pair
                              /\ att[p].at \in Inside \/ ScopeFree(p, a.pair[1]),
           \A k \in Pairs : \/ Left(k)
                            \/ k = att[p].pair /\ att[p].at \in Inside /\ Tells(k)',
           Knows(p)'
    PROVE  BurstInv'
<1>1. att' = [att EXCEPT ![p] = a] /\ att'[p] = a /\ \A q \in Attempts \ {p} : att'[q] = att[q]
  BY DEF Set, TableShape
<1>2. now \in Nat /\ (now > 0)' /\ \A k \in Pairs : Tells(k)
  BY DEF TableShape, BurstInv
<1>3. ASSUME NEW k \in Pairs PROVE Tells(k)'
  BY <1>2, LeftTells
<1>4. ASSUME NEW q \in Attempts PROVE Knows(q)'
  <2>1. CASE q = p
    BY <2>1
  <2>2. CASE q # p /\ att[q].at \notin Inside
    BY <1>1, <2>2 DEF Knows, Inside
  <2>3. CASE q # p /\ att[q].at \in Inside
    <3>1. att[q].pair \in Pairs /\ Knows(q) /\ att'[q] = att[q]
      BY <1>1, <2>3 DEF TableShape, BurstInv, Inside
    <3>2. att[p].at \in Inside => att[p].pair # att[q].pair
      BY <2>3 DEF BurstInv, OneInScope
    <3>3. Left(att[q].pair)
      BY <3>1, <3>2
    <3> QED
      BY <3>1, <3>3, OthersKnow
  <2> QED
    BY <2>1, <2>2, <2>3
<1>5. OneInScope'
  <2> SUFFICES ASSUME NEW x \in Attempts, NEW y \in Attempts, x # y, att'[x].at \in Inside,
                      att'[y].at \in Inside
               PROVE  att'[x].pair[1] # att'[y].pair[1]
    BY DEF OneInScope, Inside
  <2>1. ASSUME NEW q \in Attempts \ {p}, a.at \in Inside, att[q].at \in Inside
        PROVE  a.pair[1] # att[q].pair[1]
    BY <2>1 DEF BurstInv, OneInScope, ScopeFree
  <2> QED
    BY <1>1, <2>1 DEF BurstInv, OneInScope
<1> QED
  BY <1>2, <1>3, <1>4, <1>5 DEF BurstInv

\* A step that leaves the pairs as they are, of an attempt that decides nothing.
LEMMA LooksOnly ==
    ASSUME LimitsAssumption, BurstAssumption, TableShape, BurstInv, UNCHANGED <<now, rows, tries>>,
           NEW p \in Attempts, NEW a, Set(p, a), a.at \notin Inside
    PROVE  BurstInv'
<1>1. tries' = [k \in Pairs |-> tries'[k]]
  BY DEF BurstInv
<1>2. \A k \in Pairs : Left(k)
  BY DEF Left
<1>3. Knows(p)'
  BY DEF Knows, Set, TableShape, Inside
<1> QED
  BY <1>1, <1>2, <1>3, OneAttempt

LEMMA EnterKeepsBurst ==
    ASSUME LimitsAssumption, BurstAssumption, TableShape, BurstInv, NEW p \in Attempts,
           \/ Enter(p) \/ Fail(p) \/ WrongPassword(p) \/ \E k \in Pairs : Try(p, k)
    PROVE  BurstInv'
<1> DEFINE k == att[p].pair
<1>0. /\ now \in Nat /\ now > 0 /\ att[p] \in Attempt /\ Idle.at = "idle"
      /\ att[p].at # "idle" => k \in Pairs /\ Tells(k)
      /\ tries = [j \in Pairs |-> tries[j]] /\ rows \in [Pairs -> RowType]
  BY DEF BurstInv, TableShape, Idle
<1>1. CASE Refused(p)
  <2> DEFINE S == StaleOf(rows, k[1], now)
  <2>1. /\ Set(p, Idle) /\ now' = now /\ tries' = tries
        /\ rows' = [j \in Pairs |-> IF j \in S THEN Absent ELSE rows[j]]
    BY <1>1 DEF Refused
  <2>2. ASSUME NEW j \in Pairs PROVE Left(j)
    <3>1. CASE j \notin S
      BY <2>1, <3>1 DEF Left
    <3>2. CASE j \in S
      <4>1. rows[j] # Absent /\ IsStale(rows[j], now) /\ rows[j] \in RowType
        BY <1>0, <3>2 DEF StaleOf, Held
      <4>2. RowTells(rows[j], tries[j]) /\ tries[j] \in Seq(Nat)
        BY <4>1 DEF BurstInv, Tells
      <4>3. Spent(tries[j], now)
        BY <1>0, <4>1, <4>2, StaleIsSpent
      <4> QED
        BY <2>1, <3>2, <4>3 DEF Left
    <3> QED
      BY <3>1, <3>2
  <2>3. Idle.at \notin Inside
    BY <1>0 DEF Inside
  <2>4. Knows(p)'
    BY <2>1, <2>3 DEF Knows, Set, TableShape, Inside
  <2>5. tries' = [j \in Pairs |-> tries'[j]]
    BY <1>0, <2>1
  <2> QED
    BY <2>1, <2>2, <2>3, <2>4, <2>5, OneAttempt
<1>2. CASE Locked(p) \/ Fail(p) \/ WrongPassword(p)
  <2>1. Set(p, Idle) /\ UNCHANGED <<now, rows, tries>>
    BY <1>2 DEF Locked, Fail, WrongPassword
  <2>2. Idle.at \notin Inside
    BY <1>0 DEF Inside
  <2> QED
    BY <2>1, <2>2, LooksOnly
<1>3. CASE \E j \in Pairs : Try(p, j)
  <2>1. PICK j \in Pairs : Try(p, j)
    BY <1>3
  <2>2. [Idle EXCEPT !.at = "waiting", !.pair = j].at = "waiting"
    BY <1>0, Records
  <2> DEFINE a == [Idle EXCEPT !.at = "waiting", !.pair = j]
  <2>3. Set(p, a) /\ UNCHANGED <<now, rows, tries>>
    BY <2>1 DEF Try
  <2> HIDE DEF a
  <2>4. a.at \notin Inside
    BY <2>2 DEF Inside, a
  <2> QED
    BY <2>3, <2>4, LooksOnly
<1>4. CASE DecideHeld(p)
  <2> DEFINE a == [att[p] EXCEPT !.at = "update", !.decided = now, !.entry = Counted(rows[k], now)]
  <2>1. /\ ScopeFree(p, k[1]) /\ rows[k] # Absent /\ ~LockedAt(rows[k], now)
        /\ Set(p, a) /\ UNCHANGED <<now, rows, tries>> /\ k \in Pairs /\ Tells(k)
    BY <1>0, <1>4 DEF DecideHeld
  <2>2. /\ a.at = "update" /\ a.decided = now /\ a.entry = Counted(rows[k], now) /\ a.pair = k
    BY <1>0 DEF Attempt
  <2> HIDE DEF a
  <2>3. att'[p] = a
    BY <2>1 DEF Set, TableShape
  <2>4. Knows(p)'
    <3>1. now \in 1..now
      BY <1>0
    <3>2. rows[k].window_start <= now /\ UpTo(tries[k], now)
      BY <2>1 DEF Tells
    <3> QED
      BY <2>1, <2>2, <2>3, <3>1, <3>2
      DEF Knows, LockedAt, Counted, Fresh, IsStale, UpTo, Absent, Unlocked
  <2>5. \A j \in Pairs : Left(j)
    BY <2>1 DEF Left
  <2> QED
    BY <1>0, <2>1, <2>2, <2>4, <2>5, OneAttempt
<1>5. CASE DecideNew(p)
  <2> DEFINE a == [att[p] EXCEPT !.at = "table"]
  <2>1. ScopeFree(p, k[1]) /\ rows[k] = Absent /\ Set(p, a) /\ UNCHANGED <<now, rows, tries>>
    BY <1>5 DEF DecideNew
  <2>2. a.at = "table" /\ a.pair = k
    BY <1>0 DEF Attempt
  <2> HIDE DEF a
  <2>3. att'[p] = a
    BY <2>1 DEF Set, TableShape
  <2>4. Knows(p)'
    BY <2>1, <2>2, <2>3 DEF Knows, Absent
  <2>5. \A j \in Pairs : Left(j)
    BY <2>1 DEF Left
  <2> QED
    BY <1>0, <2>1, <2>2, <2>4, <2>5, OneAttempt
<1> QED
  BY <1>1, <1>2, <1>3, <1>4, <1>5 DEF Enter

LEMMA UpdateKeepsBurst ==
    ASSUME LimitsAssumption, BurstAssumption, TableShape, BurstInv, NEW p \in Attempts, UpdateHeld(p)
    PROVE  BurstInv'
<1> PICK k \in Pairs : k = att[p].pair
  BY DEF TableShape, UpdateHeld
<1> DEFINE d == att[p].decided
           e == rows[k]
<1>0. /\ now \in Nat /\ now > 0 /\ att[p] \in Attempt /\ att[p].at = "update" /\ now' = now
      /\ Tells(k) /\ Knows(p)
      /\ tries = [j \in Pairs |-> tries[j]] /\ rows \in [Pairs -> RowType]
  BY DEF BurstInv, TableShape, UpdateHeld
<1>1. CASE e = Absent
  <2> DEFINE a == [att[p] EXCEPT !.at = "table"]
  <2>1. Set(p, a) /\ UNCHANGED <<now, rows, tries>>
    BY <1>1 DEF UpdateHeld, StillThere
  <2>2. a.at = "table" /\ a.pair = k
    BY <1>0 DEF Attempt
  <2> HIDE DEF a
  <2>3. att'[p] = a
    BY <2>1 DEF Set, TableShape
  <2>4. Knows(p)'
    BY <1>1, <2>1, <2>2, <2>3 DEF Knows, Absent
  <2>5. \A j \in Pairs : Left(j)
    BY <2>1 DEF Left
  <2>6. att[p].at \in Inside
    BY <1>0 DEF Inside
  <2> QED
    BY <1>0, <2>1, <2>2, <2>4, <2>5, <2>6, OneAttempt
<1>2. CASE e # Absent
  <2> DEFINE f == Counted(e, d)
             a == [Idle EXCEPT !.at = "admitted", !.pair = k]
  <2>1. /\ rows' = [rows EXCEPT ![k] = att[p].entry] /\ tries' = [tries EXCEPT ![k] = Tried(k, d)]
        /\ Set(p, a)
    BY <1>2 DEF UpdateHeld, StillThere
  <2>2. /\ d \in 1..now /\ ~LockedAt(e, d) /\ att[p].entry = f /\ e.window_start <= d
        /\ UpTo(tries[k], d) /\ RowTells(e, tries[k]) /\ e \in RowType
        /\ tries[k] \in Seq(Nat) /\ Len(tries[k]) <= Remembered
    BY <1>0, <1>2 DEF Knows, Tells
  <2>3. rows'[k] = f /\ tries'[k] = Tried(k, d)
        /\ \A j \in Pairs : j # k => rows'[j] = rows[j] /\ tries'[j] = tries[j]
    BY <1>0, <2>1, <2>2
  <2>4. d \in Nat /\ d > 0
    BY <1>0, <2>2
  <2>5. f \in RowType
    BY <2>2, <2>4, Records
  <2>6. RowTells(f, Tried(k, d)) /\ f.window_start <= d
    <3>1. CASE IsStale(e, d)
      <4>1. Spent(tries[k], d)
        BY <2>2, <2>4, <3>1, StaleIsSpent
      <4>2. f = Counted(Fresh(d), d)
        BY <3>1, StaleCountsAsFirst
      <4> QED
        BY <1>0, <2>2, <2>4, <4>1, <4>2, FirstAdmitted
    <3>2. CASE ~IsStale(e, d)
      BY <1>0, <2>2, <2>4, <3>2, OneMoreAdmitted
    <3> QED
      BY <3>1, <3>2
  <2> HIDE DEF f
  <2>7. Tells(k)'
    BY <1>0, <2>2, <2>3, <2>5, <2>6, Admits
  <2>8. a.at = "admitted" /\ a.at \notin Inside
    BY <1>0, Records DEF Inside
  <2> HIDE DEF a
  <2>9. Knows(p)'
    BY <2>1, <2>8 DEF Knows, Set, TableShape, Inside
  <2>10. \A j \in Pairs : Left(j) \/ (j = k /\ att[p].at \in Inside /\ Tells(k)')
    BY <1>0, <2>3, <2>7 DEF Left, Inside
  <2>11. tries' = [j \in Pairs |-> tries'[j]]
    BY <1>0, <2>1
  <2> QED
    BY <1>0, <2>1, <2>8, <2>9, <2>10, <2>11, OneAttempt
<1> QED
  BY <1>1, <1>2

LEMMA LockKeepsBurst ==
    ASSUME LimitsAssumption, BurstAssumption, TableShape, BurstInv, NEW p \in Attempts, LockTable(p)
    PROVE  BurstInv'
<1> DEFINE k == att[p].pair
           leaving == {j \in Held(rows) : PurgeCutoff(rows[j], now)}
           R == [j \in Pairs |-> IF j \in leaving THEN Absent ELSE rows[j]]
           mine == StaleOf(R, k[1], now)
           S == [j \in Pairs |-> IF j \in mine THEN Absent ELSE R[j]]
           decided == [att[p] EXCEPT !.at = "write", !.decided = now, !.purged = leaving, !.entry = Absent]
           admitted == [decided EXCEPT !.entry = Counted(Fresh(now), now)]
<1>0. /\ now \in Nat /\ now > 0 /\ att[p] \in Attempt /\ att[p].at = "table"
      /\ k \in Pairs /\ Tells(k) /\ Knows(p) /\ UNCHANGED <<now, rows, tries>>
      /\ tries = [j \in Pairs |-> tries[j]]
  BY DEF BurstInv, TableShape, LockTable
<1>1. PICK out : Set(p, [decided EXCEPT !.out = out]) \/ Set(p, [admitted EXCEPT !.out = out])
  BY DEF LockTable
<1>2. PICK e \in {Absent, Counted(Fresh(now), now)} :
         \E a : Set(p, a) /\ a.at = "write" /\ a.pair = k /\ a.decided = now /\ a.entry = e
  <2> HIDE DEF leaving
  <2>1. decided.at = "write" /\ decided.pair = k /\ decided.decided = now /\ decided.entry = Absent
        /\ DOMAIN decided = {"at", "pair", "decided", "entry", "purged", "out"}
    BY <1>0 DEF Attempt
  <2> HIDE DEF decided
  <2>2. CASE Set(p, [decided EXCEPT !.out = out])
    <3> DEFINE a == [decided EXCEPT !.out = out]
    <3>1. a.at = "write" /\ a.pair = k /\ a.decided = now /\ a.entry = Absent
      BY <2>1
    <3> QED
      BY <2>2, <3>1
  <2>3. CASE Set(p, [admitted EXCEPT !.out = out])
    <3> DEFINE a == [admitted EXCEPT !.out = out]
               c == Counted(Fresh(now), now)
    <3> HIDE DEF c
    <3>1. admitted = [decided EXCEPT !.entry = c]
      BY DEF c
    <3> HIDE DEF admitted
    <3>2. a.at = "write" /\ a.pair = k /\ a.decided = now /\ a.entry = c
      BY <2>1, <3>1
    <3> QED
      BY <2>3, <3>2 DEF c
  <2> QED
    BY <1>1, <2>2, <2>3
<1>3. PICK a : Set(p, a) /\ a.at = "write" /\ a.pair = k /\ a.decided = now /\ a.entry = e
  BY <1>2
<1>4. att'[p] = a
  BY <1>3 DEF Set, TableShape
<1>5. Knows(p)'
  <2>1. rows[k] = Absent /\ Spent(tries[k], now) /\ UpTo(tries[k], now) /\ now \in 1..now
    BY <1>0 DEF Knows, Tells
  <2>2. att'[p].at = "write" /\ att'[p].pair = k /\ att'[p].decided = now /\ att'[p].entry = e
    BY <1>3, <1>4
  <2>3. rows' = rows /\ tries' = tries /\ now' = now
    BY <1>0
  <2> QED
    BY <1>2, <2>1, <2>2, <2>3 DEF Knows, LockedAt, Counted, Fresh, IsStale, Spent, UpTo, Absent, Unlocked
<1>6. \A j \in Pairs : Left(j)
  BY <1>0 DEF Left
<1>7. att[p].at \in Inside
  BY <1>0 DEF Inside
<1>8. tries' = [j \in Pairs |-> tries'[j]]
  BY <1>0
<1> QED
  BY <1>0, <1>3, <1>5, <1>6, <1>7, <1>8, OneAttempt

LEMMA WriteKeepsBurst ==
    ASSUME LimitsAssumption, BurstAssumption, TableShape, BurstInv, NEW p \in Attempts, WriteNew(p)
    PROVE  BurstInv'
<1> PICK k \in Pairs : k = att[p].pair
  BY DEF TableShape, WriteNew
<1> DEFINE d == att[p].decided
           e == att[p].entry
           gone == att[p].purged \cup att[p].out
           insert == e # Absent
           forgiven == {j \in gone : rows[j] # Absent /\ ~IsStale(rows[j], now)}
           kept == [j \in Pairs |-> IF j \in forgiven THEN << >> ELSE tries[j]]
           a == IF insert THEN [Idle EXCEPT !.at = "admitted", !.pair = k] ELSE Idle
<1>0. /\ now \in Nat /\ now > 0 /\ att[p] \in Attempt /\ att[p].at = "write" /\ now' = now
      /\ Tells(k) /\ Knows(p) /\ rows[k] = Absent
      /\ tries = [j \in Pairs |-> tries[j]] /\ rows \in [Pairs -> RowType]
  BY DEF BurstInv, TableShape, WriteNew, Knows
<1>1. /\ rows' = [j \in Pairs |-> IF insert /\ j = k THEN e ELSE IF j \in gone THEN Absent ELSE rows[j]]
      /\ tries' = IF insert THEN [kept EXCEPT ![k] = Tried(k, d)] ELSE kept
      /\ Set(p, a)
  BY DEF WriteNew
<1>2. ASSUME NEW j \in Pairs, ~(insert /\ j = k) PROVE Left(j)
  <2>1. /\ rows'[j] = IF j \in gone THEN Absent ELSE rows[j]
        /\ tries'[j] = IF j \in forgiven THEN << >> ELSE tries[j]
    <3> HIDE DEF gone, forgiven, insert
    <3> QED
      BY <1>1, <1>2
  <2>2. CASE j \notin gone
    BY <2>1, <2>2 DEF Left
  <2>3. CASE j \in gone /\ rows[j] # Absent /\ ~IsStale(rows[j], now)
    BY <2>1, <2>3 DEF Left
  <2>4. CASE j \in gone /\ (rows[j] # Absent => IsStale(rows[j], now))
    <3>1. rows[j] # Absent => Spent(tries[j], now)
      <4> HAVE rows[j] # Absent
      <4>1. RowTells(rows[j], tries[j]) /\ tries[j] \in Seq(Nat) /\ rows[j] \in RowType
        BY <1>0 DEF BurstInv, Tells
      <4> QED
        BY <1>0, <2>4, <4>1, StaleIsSpent
    <3> QED
      BY <2>1, <2>4, <3>1 DEF Left
  <2> QED
    BY <2>2, <2>3, <2>4
<1>3. insert => Tells(k)'
  <2> HAVE insert
  <2>1. d \in 1..now /\ e = Counted(Fresh(d), d) /\ Spent(tries[k], d) /\ UpTo(tries[k], d)
        /\ tries[k] \in Seq(Nat) /\ Len(tries[k]) <= Remembered
    BY <1>0 DEF Knows, Tells
  <2>2. d \in Nat /\ e \in RowType
    BY <1>0, <2>1 DEF Attempt
  <2>3. RowTells(e, Tried(k, d)) /\ e.window_start = d
    BY <2>1, <2>2, FirstAdmitted
  <2>4. rows'[k] = e /\ tries'[k] = Tried(k, d)
    <3> HIDE DEF gone, forgiven
    <3> QED
      BY <1>1
  <2>5. e.window_start <= d
    BY <2>2, <2>3
  <2> QED
    BY <1>0, <2>1, <2>2, <2>3, <2>4, <2>5, Admits
<1>4. \A j \in Pairs : Left(j) \/ (j = k /\ att[p].at \in Inside /\ Tells(k)')
  BY <1>0, <1>2, <1>3 DEF Inside
<1>5. a.at \notin Inside
  BY <1>0, Records DEF Inside, Idle
<1>6. tries' = [j \in Pairs |-> tries'[j]]
  <2> HIDE DEF forgiven, insert
  <2> QED
    BY <1>1
<1> HIDE DEF a
<1>7. Knows(p)'
  BY <1>1, <1>5 DEF Knows, Set, TableShape, Inside
<1> QED
  BY <1>0, <1>1, <1>4, <1>5, <1>6, <1>7, OneAttempt

LEMMA SuccessKeepsBurst ==
    ASSUME LimitsAssumption, BurstAssumption, TableShape, BurstInv, NEW p \in Attempts, RecordSuccess(p)
    PROVE  BurstInv'
<1> DEFINE k == att[p].pair
<1>1. /\ rows' = [rows EXCEPT ![k] = Absent] /\ tries' = [tries EXCEPT ![k] = << >>]
      /\ Set(p, Idle) /\ now' = now /\ Idle.at \notin Inside
      /\ tries = [j \in Pairs |-> tries[j]] /\ rows \in [Pairs -> RowType]
  BY DEF RecordSuccess, BurstInv, TableShape, Idle, Inside
<1>2. ASSUME NEW j \in Pairs PROVE Left(j)
  BY <1>1 DEF Left
<1>3. Knows(p)'
  BY <1>1 DEF Knows, Set, TableShape, Inside
<1>4. tries' = [j \in Pairs |-> tries'[j]]
  BY <1>1
<1> QED
  BY <1>1, <1>2, <1>3, <1>4, OneAttempt

LEMMA PurgeKeepsBurst ==
    ASSUME LimitsAssumption, BurstAssumption, TableShape, BurstInv, RetentionPurge
    PROVE  BurstInv'
<1> DEFINE old == {k \in Held(rows) : PurgeCutoff(rows[k], now)}
<1>1. /\ rows' = [k \in Pairs |-> IF k \in old THEN Absent ELSE rows[k]]
      /\ now' = now /\ att' = att /\ tries' = tries
      /\ rows \in [Pairs -> RowType] /\ now \in Nat
  BY DEF RetentionPurge, TableShape
<1>2. ASSUME NEW k \in Pairs PROVE Left(k) /\ Tells(k)'
  <2>1. k \notin old => Left(k)
    BY <1>1 DEF Left
  <2>2. k \in old => Left(k)
    <3> HAVE k \in old
    <3>1. rows[k] # Absent /\ PurgeCutoff(rows[k], now) /\ rows[k] \in RowType
      BY <1>1 DEF Held
    <3>2. RowTells(rows[k], tries[k]) /\ tries[k] \in Seq(Nat)
      BY <3>1 DEF BurstInv, Tells
    <3>3. Spent(tries[k], now)
      BY <1>1, <3>1, <3>2, PurgedIsSpent
    <3> QED
      BY <1>1, <3>3 DEF Left
  <2>3. Left(k) /\ Tells(k)
    BY <2>1, <2>2 DEF BurstInv
  <2> QED
    BY <1>1, <2>3, LeftTells
<1>3. ASSUME NEW q \in Attempts PROVE Knows(q)'
  <2>1. CASE att[q].at = "idle"
    BY <1>1, <2>1 DEF Knows
  <2>2. CASE att[q].at # "idle"
    <3>1. att[q].pair \in Pairs /\ Knows(q) /\ att'[q] = att[q]
      BY <1>1, <2>2 DEF TableShape, BurstInv
    <3> QED
      BY <1>1, <1>2, <3>1, OthersKnow
  <2> QED
    BY <2>1, <2>2
<1> QED
  BY <1>1, <1>2, <1>3 DEF BurstInv, OneInScope, Inside

LEMMA TickKeepsBurst ==
    ASSUME LimitsAssumption, BurstAssumption, TableShape, BurstInv, Tick
    PROVE  BurstInv'
<1>1. now \in Nat /\ now' = now + 1 /\ rows' = rows /\ att' = att /\ tries' = tries /\ now' > 0
  BY DEF Tick, TableShape
<1>2. ASSUME NEW k \in Pairs PROVE Tells(k)'
  <2>1. Tells(k) /\ tries[k] \in Seq(Nat) /\ rows[k] \in RowType
    BY DEF BurstInv, Tells, TableShape
  <2>2. (Spent(tries[k], now) => Spent(tries[k], now')) /\ (UpTo(tries[k], now) => UpTo(tries[k], now'))
    BY <1>1, <2>1, SpentLater
  <2>3. rows[k].window_start <= now => rows[k].window_start <= now'
    BY <1>1, <2>1 DEF RowType
  <2> QED
    BY <1>1, <2>1, <2>2, <2>3 DEF Tells, RowTells, UpTo, Spent, Remembered, Absent
<1>3. ASSUME NEW q \in Attempts PROVE Knows(q)'
  <2>1. Knows(q) /\ att'[q] = att[q]
    BY <1>1 DEF BurstInv
  <2>2. 1..now \subseteq 1..now'
    BY <1>1
  <2> QED
    BY <1>1, <2>1, <2>2 DEF Knows, LockedAt, Counted, Fresh, IsStale, Spent, UpTo, Absent, Unlocked
<1> QED
  BY <1>1, <1>2, <1>3 DEF BurstInv, OneInScope, Inside

-----------------------------------------------------------------------------
\* LoginThrottle::admit: however many attempts on a pair are in flight, across
\* every replica, the password is not looked at more than twice MAX_FAILURES less two
\* times in less than a window, unless a success or a full table forgave the pair.
THEOREM BurstsAreBounded == ASSUME TableAssumption, BurstAssumption PROVE Spec => []NoBurst
<1>1. Init => BurstInv
  <2> SUFFICES ASSUME Init PROVE BurstInv
    OBVIOUS
  <2>1. Remembered \in Nat /\ Remembered > 0
    BY LimitsAssumption DEF BurstAssumption, Remembered, LimitsAssumption
  <2>2. now = 1 /\ tries = [k \in Pairs |-> << >>] /\ rows = [k \in Pairs |-> Absent]
        /\ \A p \in Attempts : att[p].at = "idle"
    BY DEF Init, Idle
  <2>3. ASSUME NEW k \in Pairs PROVE Tells(k)
    <3>1. tries[k] = << >> /\ rows[k] = Absent
      BY <2>2
    <3>2. tries[k] \in Seq(Nat) /\ Len(tries[k]) = 0 /\ Spent(tries[k], now) /\ UpTo(tries[k], now)
      BY <3>1, NothingTried
    <3> QED
      BY <2>1, <3>1, <3>2 DEF Tells
  <2>4. \A p \in Attempts : Knows(p)
    BY <2>2 DEF Knows
  <2> QED
    BY <2>2, <2>3, <2>4 DEF BurstInv, OneInScope, Inside
<1>2. IInv /\ BurstInv /\ [Next]_vars => BurstInv'
  <2> SUFFICES ASSUME IInv, BurstInv, [Next]_vars PROVE BurstInv'
    OBVIOUS
  <2> USE LimitsAssumption
  <2>0. TableShape
    BY DEF IInv
  <2>1. ASSUME NEW p \in Attempts, Step(p) \/ Fail(p) \/ WrongPassword(p) \/ RecordSuccess(p)
                                   \/ \E k \in Pairs : Try(p, k)
        PROVE  BurstInv'
    <3>1. CASE Enter(p) \/ Fail(p) \/ WrongPassword(p) \/ \E k \in Pairs : Try(p, k)
      BY <2>0, <3>1, EnterKeepsBurst
    <3>2. CASE UpdateHeld(p)
      BY <2>0, <3>2, UpdateKeepsBurst
    <3>3. CASE LockTable(p)
      BY <2>0, <3>3, LockKeepsBurst
    <3>4. CASE WriteNew(p)
      BY <2>0, <3>4, WriteKeepsBurst
    <3>5. CASE RecordSuccess(p)
      BY <2>0, <3>5, SuccessKeepsBurst
    <3> QED
      BY <2>1, <3>1, <3>2, <3>3, <3>4, <3>5 DEF Step
  <2>2. CASE RetentionPurge
    BY <2>0, <2>2, PurgeKeepsBurst
  <2>3. CASE Tick
    BY <2>0, <2>3, TickKeepsBurst
  <2>4. CASE UNCHANGED vars
    <3>1. now' = now /\ rows' = rows /\ att' = att /\ tries' = tries /\ now \in Nat
      BY <2>0, <2>4 DEF vars, TableShape
    <3>2. \A k \in Pairs : Left(k)
      BY <3>1 DEF Left
    <3>3. ASSUME NEW k \in Pairs PROVE Tells(k)'
      BY <3>1, <3>2, LeftTells DEF BurstInv
    <3>4. ASSUME NEW p \in Attempts PROVE Knows(p)'
      <4>1. CASE att[p].at = "idle"
        BY <3>1, <4>1 DEF Knows
      <4>2. CASE att[p].at # "idle"
        BY <2>0, <3>1, <3>2, <4>2, OthersKnow DEF BurstInv, TableShape
      <4> QED
        BY <4>1, <4>2
    <3> QED
      BY <3>1, <3>3, <3>4 DEF BurstInv, OneInScope, Inside
  <2> QED
    BY <2>1, <2>2, <2>3, <2>4 DEF Next
<1>3. IInv /\ BurstInv => NoBurst
  <2> SUFFICES ASSUME TableShape, BurstInv, NEW k \in Pairs, Len(tries[k]) = Remembered
               PROVE  tries[k][1] - tries[k][Remembered] >= Window
    BY DEF IInv, NoBurst
  <2>1. Remembered \in Nat /\ Remembered >= 1 /\ Window \in Nat
    BY LimitsAssumption DEF BurstAssumption, Remembered, LimitsAssumption
  <2>2. tries[k] \in Seq(Nat) /\ tries[k][Remembered] + Window <= tries[k][1]
    BY DEF BurstInv, Tells
  <2>3. tries[k][1] \in Nat /\ tries[k][Remembered] \in Nat
    BY <2>1, <2>2
  <2> QED
    BY <2>1, <2>2, <2>3
<1>4. Init => IInv
  BY InitInvariant, LimitsAssumption
<1>5. IInv /\ [Next]_vars => IInv'
  BY NextInvariant, LimitsAssumption
<1> QED
  BY <1>1, <1>2, <1>3, <1>4, <1>5, PTL DEF Spec

-----------------------------------------------------------------------------
(* What the state is made of.                                                *)

Successions == {"purge_account", "reactivate_user", "designate_owner"}
Ops == {"none", "create_group", "create_invitation", "accept_invitation", "change_role", "remove_member",
        "transfer_ownership", "leave_group", "delete_group", "delete_account"} \cup Successions
Stages == {"end", "write", "target", "count", "find", "hand", "lock", "delete", "unique_violation"}
Asked == [op : Ops, at : Stages \cup Tokens, by : Users \cup {Nobody}, g : Groups \cup {NoGroup},
          on : Users \cup {Nobody}, arg : Roles \cup {"none"}, todo : SUBSET Groups, left : SUBSET Groups,
          seen : SUBSET (Users \cup Roles \cup {"none"}), out : SUBSET Users, last : SUBSET Users,
          heirs : SUBSET (Groups \X Users), rows : SUBSET (Groups \X Users)]

\* What stands for no group is none, and a token is not where a request is.
InstanceAssumption == NoGroup \notin Groups /\ Tokens \cap Stages = {}

Shape ==
    /\ member \in [Groups -> [Users -> Roles \cup {"none"}]]
    /\ groups \subseteq Groups
    /\ invited \in [Tokens -> [g : Groups \cup {NoGroup}, by : Users \cup {Nobody}]]
    /\ deactivated \subseteq Users /\ pending \subseteq Users
    /\ req \in [Requests -> Asked]

\* Members and invitations are of groups that exist.
Existing ==
    /\ \A g \in Groups \ groups, u \in Users : member[g][u] = "none"
    /\ \A t \in Tokens : invited[t] # NoInvitation => invited[t].g \in groups

\* A group that is being created is of no other request, but for a succession that has
\* found it without members.
Passive(r) == r.op \in Successions /\ (r.at = "lock" => r.seen = {})
FreshGroup(p) ==
    req[p].op = "create_group" =>
        /\ req[p].by \in Users /\ req[p].g \in Groups \ groups
        /\ \A q \in Requests \ {p} : req[q].g = req[p].g => Passive(req[q])

\* A request is of an endpoint in use; one that acts on a member has read the role of its
\* caller, and gives no ownership; those that hand out groups are successions.
Sound(r) ==
    /\ r.op \in handlers \cup {"none"}
    /\ r.op \in {"change_role", "remove_member"} => r.seen # {}
    /\ r.op = "change_role" => r.arg \in {"admin", "standard"}
    /\ r.at \in {"hand", "lock"} => r.op \in Successions
    /\ r.at = "lock" => r.g \in Groups
    /\ r.op = "delete_account" => r.by \in Users

\* Locked rows are of members, and of one transaction each; heirs are among them.
Locks(p) ==
    /\ \A g \in Groups, u \in Users : <<g, u>> \in req[p].rows =>
           member[g][u] # "none" /\ \A q \in Requests \ {p} : <<g, u>> \notin req[q].rows
    /\ req[p].heirs \subseteq req[p].rows

Base == Shape /\ Existing /\ \A p \in Requests : FreshGroup(p) /\ Sound(req[p]) /\ Locks(p)

-----------------------------------------------------------------------------
(* A request that only reads, or locks what it will write.                   *)

\* What request p may become, as long as nothing else changes.
Becomes(p, r) ==
    /\ r \in Asked /\ Sound(r) /\ r.heirs \subseteq r.rows
    /\ \A g \in Groups, u \in Users : <<g, u>> \in r.rows =>
           member[g][u] # "none" /\ \A q \in Requests \ {p} : <<g, u>> \notin req[q].rows
    /\ r.op = "create_group" =>
           /\ r.by \in Users /\ r.g \in Groups \ groups
           /\ \A q \in Requests \ {p} : req[q].g = r.g => Passive(req[q])
    /\ \A q \in Requests \ {p} : req[q].op = "create_group" /\ req[q].g = r.g => Passive(r)

LEMMA ReadStep ==
    ASSUME Base, NEW p \in Requests, NEW r, Becomes(p, r), req' = [req EXCEPT ![p] = r],
           UNCHANGED <<member, groups, invited, deactivated, pending, handlers>>
    PROVE  Base'
<1>1. Shape'
  BY DEF Base, Shape, Becomes
<1>2. req'[p] = r /\ \A q \in Requests \ {p} : req'[q] = req[q]
  BY DEF Base, Shape
<1>3. Existing'
  BY DEF Base, Existing
<1>4. ASSUME NEW q \in Requests PROVE Sound(req[q])'
  BY <1>2 DEF Base, Sound, Becomes
<1>5. ASSUME NEW q \in Requests PROVE Locks(q)'
  <2>1. CASE q = p
    BY <1>2, <2>1 DEF Becomes, Locks
  <2>2. CASE q # p
    <3>1. Locks(q) /\ req'[q] = req[q]
      BY <1>2, <2>2 DEF Base
    <3>2. ASSUME NEW g \in Groups, NEW u \in Users, <<g, u>> \in req[q].rows
          PROVE  \A o \in Requests \ {q} : <<g, u>> \notin req'[o].rows
      BY <1>2, <2>2, <3>1, <3>2 DEF Becomes, Locks
    <3> QED
      BY <3>1, <3>2 DEF Locks
  <2> QED
    BY <2>1, <2>2
<1>6. ASSUME NEW q \in Requests PROVE FreshGroup(q)'
  <2>1. CASE q = p
    BY <1>2, <2>1 DEF Becomes, FreshGroup, Passive
  <2>2. CASE q # p
    <3>1. FreshGroup(q) /\ req'[q] = req[q]
      BY <1>2, <2>2 DEF Base
    <3>2. ASSUME req[q].op = "create_group", NEW o \in Requests \ {q}, req'[o].g = req[q].g PROVE Passive(req'[o])
      BY <1>2, <2>2, <3>1, <3>2 DEF Becomes, FreshGroup
    <3> QED
      BY <3>1, <3>2 DEF FreshGroup, Passive
  <2> QED
    BY <2>1, <2>2
<1> QED
  BY <1>1, <1>3, <1>4, <1>5, <1>6 DEF Base

\* A request that has locked nothing more, is not about to hand a group out and is not a purge.
Quiet(p, r) ==
    /\ Becomes(p, r)
    /\ (r.rows = {} /\ r.heirs = {}) \/ (r.rows = req[p].rows /\ r.heirs = req[p].heirs)
    /\ r.at \notin {"lock", "unique_violation"} /\ r.op # "purge_account"
    /\ r.op \in {"change_role", "remove_member"} /\ r.at = "write" => member[r.g][r.on] # "owner"
QuietStep(p) ==
    /\ \E r \in Asked : Quiet(p, r) /\ req' = [req EXCEPT ![p] = r]
    /\ UNCHANGED <<member, groups, invited, deactivated, pending, handlers>>

\* The end of a request, refused or failed.
LEMMA NoRequestIsQuiet == ASSUME InstanceAssumption, Base, NEW p \in Requests PROVE Quiet(p, NoRequest)
<1>1. NoRequest \in Asked /\ NoRequest.op = "none" /\ NoRequest.g = NoGroup /\ NoRequest.at = "end"
      /\ NoRequest.rows = {} /\ NoRequest.heirs = {}
  BY DEF NoRequest, Asked, Ops, Stages, Roles
<1>2. \A q \in Requests : req[q].op = "create_group" => req[q].g # NoGroup
  BY DEF Base, FreshGroup, InstanceAssumption
<1> QED
  BY <1>1, <1>2 DEF Quiet, Becomes, Sound

LEMMA RefuseIsQuiet ==
    ASSUME InstanceAssumption, Base, NEW p \in Requests, End(p), OnlyReq, UNCHANGED handlers PROVE QuietStep(p)
<1>1. NoRequest \in Asked /\ Quiet(p, NoRequest)
  BY NoRequestIsQuiet DEF Quiet, Becomes
<1> QED
  BY <1>1 DEF QuietStep, End, OnlyReq, accounts

\* A request that begins on a group that exists, or on none.
LEMMA BeginIsQuiet ==
    ASSUME InstanceAssumption, Base, NEW p \in Requests, NEW op, NEW r \in Asked, Begin(p, op, r), OnlyReq,
           UNCHANGED handlers, r.op = op, op # "purge_account", r.rows = {}, r.heirs = {},
           r.at \notin {"write", "lock", "unique_violation"} \/
               (r.at = "write" /\ op \notin {"change_role", "remove_member"}),
           op \in {"change_role", "remove_member"} => r.seen # {},
           op = "change_role" => r.arg \in {"admin", "standard"}, r.at \in {"hand", "lock"} => op \in Successions,
           op = "delete_account" => r.by \in Users,
           \/ op # "create_group" /\ r.g \in groups \cup {NoGroup}
           \/ op = "create_group" /\ r.by \in Users /\ r.g \in Groups \ groups /\ \A q \in Requests : req[q].g # r.g
    PROVE  QuietStep(p)
<1>1. op \in handlers /\ req' = [req EXCEPT ![p] = r]
  BY DEF Begin
<1>2. Sound(r)
  BY <1>1 DEF Sound
<1>3. \A q \in Requests \ {p} : req[q].op = "create_group" /\ req[q].g = r.g => Passive(r)
  BY DEF Base, FreshGroup, InstanceAssumption
<1>4. Becomes(p, r)
  BY <1>2, <1>3 DEF Becomes
<1>5. Quiet(p, r)
  BY <1>4 DEF Quiet
<1> QED
  BY <1>1, <1>5 DEF QuietStep, OnlyReq, accounts

\* Of a member, or of nothing, the group exists.
LEMMA MemberOfGroup ==
    ASSUME Base, NEW g \in Groups, NEW u \in Users, member[g][u] # "none" PROVE g \in groups
BY DEF Base, Existing

LEMMA StageFacts == {"write", "target", "count", "find", "hand"} \subseteq Stages /\ Successions \subseteq Ops
BY DEF Stages, Ops

LEMMA BeginsAreQuiet ==
    ASSUME InstanceAssumption, Base, UNCHANGED handlers, NEW p \in Requests, NEW u \in Users,
           \/ DeletionReadGroups(p, u) \/ ReactivateUpdate(p, u)
           \/ \E t \in Tokens : AcceptLookup(p, u, t)
           \/ \E g \in Groups :
                 \/ CreateCount(p, u, g) \/ InviteReadRole(p, u, g) \/ DeleteReadRole(p, u, g) \/ DesignateBegin(p, g, u)
                 \/ \E v \in Users : TransferReadRole(p, u, g, v)
                 \/ \E v \in Users \cup {Nobody} : LeaveReadRole(p, u, g, v)
    PROVE  QuietStep(p)
<1>1. CASE DeletionReadGroups(p, u)
  <2> DEFINE r == Request("delete_account", "write", u, NoGroup, Nobody, "none")
  <2>1. Begin(p, "delete_account", r) /\ OnlyReq
    BY <1>1 DEF DeletionReadGroups
  <2>2. "delete_account" \in Ops /\ "write" \in Stages \cup Tokens /\ NoGroup \in Groups \cup {NoGroup}
    BY DEF Ops, Stages, Successions
  <2>3. r \in Asked /\ r.op = "delete_account" /\ r.at = "write" /\ r.by = u /\ r.g = NoGroup /\ r.rows = {} /\ r.heirs = {}
    BY <2>2 DEF Request, NoRequest, Asked
  <2> HIDE DEF r
  <2> QED
    BY <2>1, <2>3, BeginIsQuiet DEF Successions
<1>2. CASE ReactivateUpdate(p, u)
  <2> DEFINE r == Request("reactivate_user", "find", u, NoGroup, Nobody, "none")
  <2>1. Begin(p, "reactivate_user", r) /\ OnlyReq
    BY <1>2 DEF ReactivateUpdate
  <2>2. "reactivate_user" \in Ops /\ "find" \in Stages \cup Tokens /\ NoGroup \in Groups \cup {NoGroup}
    BY DEF Ops, Stages, Successions
  <2>3. r \in Asked /\ r.op = "reactivate_user" /\ r.at = "find" /\ r.by = u /\ r.g = NoGroup /\ r.rows = {} /\ r.heirs = {}
    BY <2>2 DEF Request, NoRequest, Asked
  <2> HIDE DEF r
  <2> QED
    BY <2>1, <2>3, BeginIsQuiet DEF Successions
<1>3. ASSUME NEW t \in Tokens, AcceptLookup(p, u, t) PROVE QuietStep(p)
  <2> DEFINE r == Request("accept_invitation", t, u, invited[t].g, Nobody, "none")
  <2>1. Begin(p, "accept_invitation", r) /\ OnlyReq /\ invited[t].g \in groups
    BY <1>3 DEF AcceptLookup, Base, Existing
  <2>2. "accept_invitation" \in Ops /\ t \in Stages \cup Tokens /\ invited[t].g \in Groups \cup {NoGroup}
    BY <2>1 DEF Ops, Stages, Successions, Base, Shape
  <2>3. r \in Asked /\ r.op = "accept_invitation" /\ r.at = t /\ r.by = u /\ r.g \in groups /\ r.rows = {} /\ r.heirs = {}
    BY <2>1, <2>2 DEF Request, NoRequest, Asked
  <2>4. t \notin Stages
    BY DEF InstanceAssumption
  <2> HIDE DEF r
  <2> QED
    BY <2>1, <2>3, <2>4, BeginIsQuiet DEF Stages, Successions
<1>4. ASSUME NEW g \in Groups, CreateCount(p, u, g) PROVE QuietStep(p)
  <2> DEFINE r == Request("create_group", "write", u, g, Nobody, "none")
  <2>1. Begin(p, "create_group", r) /\ OnlyReq /\ g \notin groups /\ \A q \in Requests : req[q].g # g
    BY <1>4 DEF CreateCount
  <2>2. "create_group" \in Ops /\ "write" \in Stages \cup Tokens /\ g \in Groups \cup {NoGroup}
    BY DEF Ops, Stages, Successions
  <2>3. r \in Asked /\ r.op = "create_group" /\ r.at = "write" /\ r.by = u /\ r.g = g /\ r.rows = {} /\ r.heirs = {}
    BY <2>2 DEF Request, NoRequest, Asked
  <2> HIDE DEF r
  <2> QED
    BY <2>1, <2>3, BeginIsQuiet DEF Successions
<1>5. ASSUME NEW g \in Groups, InviteReadRole(p, u, g) PROVE QuietStep(p)
  <2> DEFINE r == Request("create_invitation", "write", u, g, Nobody, "none")
  <2>1. Begin(p, "create_invitation", r) /\ OnlyReq /\ g \in groups
    BY <1>5, MemberOfGroup DEF InviteReadRole
  <2>2. "create_invitation" \in Ops /\ "write" \in Stages \cup Tokens /\ g \in Groups \cup {NoGroup}
    BY DEF Ops, Stages, Successions
  <2>3. r \in Asked /\ r.op = "create_invitation" /\ r.at = "write" /\ r.by = u /\ r.g = g /\ r.rows = {} /\ r.heirs = {}
    BY <2>2 DEF Request, NoRequest, Asked
  <2> HIDE DEF r
  <2> QED
    BY <2>1, <2>3, BeginIsQuiet DEF Successions
<1>6. ASSUME NEW g \in Groups, DeleteReadRole(p, u, g) PROVE QuietStep(p)
  <2> DEFINE r == Request("delete_group", "write", u, g, Nobody, "none")
  <2>1. Begin(p, "delete_group", r) /\ OnlyReq /\ g \in groups
    BY <1>6, MemberOfGroup DEF DeleteReadRole
  <2>2. "delete_group" \in Ops /\ "write" \in Stages \cup Tokens /\ g \in Groups \cup {NoGroup}
    BY DEF Ops, Stages, Successions
  <2>3. r \in Asked /\ r.op = "delete_group" /\ r.at = "write" /\ r.by = u /\ r.g = g /\ r.rows = {} /\ r.heirs = {}
    BY <2>2 DEF Request, NoRequest, Asked
  <2> HIDE DEF r
  <2> QED
    BY <2>1, <2>3, BeginIsQuiet DEF Successions
<1>7. ASSUME NEW g \in Groups, DesignateBegin(p, g, u) PROVE QuietStep(p)
  <2> DEFINE q == Request("designate_owner", "hand", Nobody, NoGroup, u, "none")
             r == [q EXCEPT !.todo = {g}]
  <2>1. Begin(p, "designate_owner", r) /\ OnlyReq
    BY <1>7 DEF DesignateBegin
  <2>2. "designate_owner" \in Ops /\ "hand" \in Stages \cup Tokens /\ NoGroup \in Groups \cup {NoGroup}
    BY DEF Ops, Stages, Successions
  <2>a. q \in Asked /\ q.op = "designate_owner" /\ q.at = "hand" /\ q.by = Nobody /\ q.g = NoGroup /\ q.rows = {} /\ q.heirs = {}
    BY <2>2 DEF Request, NoRequest, Asked
  <2> HIDE DEF q
  <2>3. r \in Asked /\ r.op = q.op /\ r.at = q.at /\ r.g = q.g /\ r.rows = q.rows /\ r.heirs = q.heirs
    BY <2>a DEF Asked
  <2> HIDE DEF r
  <2> QED
    BY <2>1, <2>3, <2>a, BeginIsQuiet DEF Successions
<1>8. ASSUME NEW g \in Groups, NEW v \in Users, TransferReadRole(p, u, g, v) PROVE QuietStep(p)
  <2> DEFINE r == Request("transfer_ownership", "target", u, g, v, "none")
  <2>1. Begin(p, "transfer_ownership", r) /\ OnlyReq /\ g \in groups
    BY <1>8, MemberOfGroup DEF TransferReadRole
  <2>2. "transfer_ownership" \in Ops /\ "target" \in Stages \cup Tokens /\ g \in Groups \cup {NoGroup}
    BY DEF Ops, Stages, Successions
  <2>3. r \in Asked /\ r.op = "transfer_ownership" /\ r.at = "target" /\ r.by = u /\ r.g = g /\ r.rows = {} /\ r.heirs = {}
    BY <2>2 DEF Request, NoRequest, Asked
  <2> HIDE DEF r
  <2> QED
    BY <2>1, <2>3, BeginIsQuiet DEF Successions
<1>9. ASSUME NEW g \in Groups, NEW v \in Users \cup {Nobody}, LeaveReadRole(p, u, g, v) PROVE QuietStep(p)
  <2> DEFINE q == Request("leave_group", "count", u, g, v, "none")
             role == member[g][u]
             r == [q EXCEPT !.seen = {role}]
  <2>1. Begin(p, "leave_group", r) /\ OnlyReq /\ g \in groups /\ role \in Roles \cup {"none"}
    BY <1>9, MemberOfGroup DEF LeaveReadRole, Base, Shape
  <2>2. "leave_group" \in Ops /\ "count" \in Stages \cup Tokens /\ g \in Groups \cup {NoGroup}
    BY DEF Ops, Stages, Successions
  <2>a. q \in Asked /\ q.op = "leave_group" /\ q.at = "count" /\ q.by = u /\ q.g = g /\ q.rows = {} /\ q.heirs = {}
    BY <2>2 DEF Request, NoRequest, Asked
  <2> HIDE DEF q, role
  <2>3. r \in Asked /\ r.op = q.op /\ r.at = q.at /\ r.g = q.g /\ r.rows = q.rows /\ r.heirs = q.heirs
    BY <2>1, <2>a DEF Asked
  <2> HIDE DEF r
  <2> QED
    BY <2>1, <2>3, <2>a, BeginIsQuiet DEF Successions
<1> QED
  BY <1>1, <1>2, <1>3, <1>4, <1>5, <1>6, <1>7, <1>8, <1>9

LEMMA ActorIsQuiet ==
    ASSUME InstanceAssumption, Base, UNCHANGED handlers, NEW p \in Requests, NEW u \in Users, NEW g \in Groups,
           NEW v \in Users, NEW op \in {"change_role", "remove_member"}, NEW to \in {"admin", "standard", "none"},
           op = "change_role" => to # "none", ActorReadRole(p, op, u, g, v, to)
    PROVE  QuietStep(p)
<1> DEFINE q == Request(op, "target", u, g, v, to)
           role == member[g][u]
           r == [q EXCEPT !.seen = {role}]
<1>1. Begin(p, op, r) /\ OnlyReq /\ g \in groups /\ role \in Roles \cup {"none"}
  BY MemberOfGroup DEF ActorReadRole, Base, Shape
<1>2. op \in Ops /\ "target" \in Stages \cup Tokens /\ to \in Roles \cup {"none"}
  BY DEF Ops, Stages, Roles
<1>3. q \in Asked /\ q.op = op /\ q.at = "target" /\ q.g = g /\ q.rows = {} /\ q.heirs = {} /\ q.arg = to
  BY <1>2 DEF Request, NoRequest, Asked
<1> HIDE DEF q, role
<1>4. /\ r \in Asked /\ r.op = q.op /\ r.at = q.at /\ r.g = q.g /\ r.rows = q.rows /\ r.heirs = q.heirs
      /\ r.arg = q.arg /\ r.seen # {}
  BY <1>1, <1>3 DEF Asked
<1> HIDE DEF r
<1> QED
  BY <1>1, <1>3, <1>4, BeginIsQuiet DEF Successions

\* A request that goes on to its next statement.
LEMMA GoIsQuiet ==
    ASSUME InstanceAssumption, Base, UNCHANGED handlers, NEW p \in Requests, NEW at \in {"write", "target"}, Go(p, at), OnlyReq,
           req[p].op \notin Successions \cup {"create_group"},
           req[p].op \in {"change_role", "remove_member"} /\ at = "write" => member[req[p].g][req[p].on] # "owner"
    PROVE  QuietStep(p)
<1> DEFINE q == req[p]
           r == [q EXCEPT !.at = at]
<1>1. q \in Asked /\ Sound(q) /\ Locks(p) /\ FreshGroup(p)
  BY DEF Base, Shape
<1>2. req' = [req EXCEPT ![p] = r]
  BY DEF Go, Base, Shape
<1>3. \A o \in Requests \ {p} : req[o].op = "create_group" => req[o].g # q.g
  BY DEF Base, FreshGroup, Passive
<1>4. /\ r \in Asked /\ r.op = q.op /\ r.at = at /\ r.by = q.by /\ r.g = q.g /\ r.on = q.on /\ r.arg = q.arg
      /\ r.seen = q.seen /\ r.rows = q.rows /\ r.heirs = q.heirs
  BY <1>1, StageFacts DEF Asked
<1>5. q.op \notin Successions \cup {"create_group"}
      /\ (q.op \in {"change_role", "remove_member"} /\ at = "write" => member[q.g][q.on] # "owner")
  OBVIOUS
<1> HIDE DEF r
<1>6. Becomes(p, r)
  BY <1>1, <1>3, <1>4, <1>5 DEF Becomes, Sound, Locks
<1>7. Quiet(p, r)
  BY <1>4, <1>5, <1>6 DEF Quiet, Successions
<1> QED
  BY <1>2, <1>4, <1>7 DEF QuietStep, OnlyReq, accounts

LEMMA ReadsAreQuiet ==
    ASSUME InstanceAssumption, Base, UNCHANGED handlers, NEW p \in Requests,
           Reads(p) \/ RequestFails(p) \/ ReactivateFind(p)
    PROVE  QuietStep(p)
<1>1. CASE TargetReadRole(p)
  <2>1. req[p].op \in {"change_role", "remove_member"} /\ req[p].seen # {}
    BY <1>1 DEF TargetReadRole, Base, Sound
  <2>2. CASE End(p)
    BY <1>1, <2>2, RefuseIsQuiet DEF TargetReadRole
  <2>3. CASE ~End(p)
    <3>1. Go(p, "write") /\ OnlyReq /\ \A role \in req[p].seen : actor_can_act_on(role, member[req[p].g][req[p].on])
      BY <1>1, <2>3 DEF TargetReadRole
    <3>2. member[req[p].g][req[p].on] # "owner"
      BY <2>1, <3>1 DEF actor_can_act_on
    <3> QED
      BY <2>1, <3>1, <3>2, GoIsQuiet DEF Successions
  <2> QED
    BY <2>2, <2>3
<1>2. CASE TransferReadTarget(p)
  <2>1. req[p].op = "transfer_ownership" /\ OnlyReq /\ (End(p) \/ Go(p, "write"))
    BY <1>2 DEF TransferReadTarget, At
  <2> QED
    BY <2>1, RefuseIsQuiet, GoIsQuiet DEF Successions
<1>3. CASE LeaveCount(p)
  <2>1. req[p].op = "leave_group" /\ OnlyReq /\ (End(p) \/ Go(p, "write") \/ Go(p, "target"))
    BY <1>3 DEF LeaveCount, At
  <2> QED
    BY <2>1, RefuseIsQuiet, GoIsQuiet DEF Successions
<1>4. CASE LeaveReadNewOwner(p)
  <2>1. req[p].op = "leave_group" /\ OnlyReq /\ (End(p) \/ Go(p, "write"))
    BY <1>4 DEF LeaveReadNewOwner, At
  <2> QED
    BY <2>1, RefuseIsQuiet, GoIsQuiet DEF Successions
<1>5. CASE RequestFails(p)
  BY <1>5, RefuseIsQuiet DEF RequestFails, Refuse
<1>6. CASE ReactivateFind(p)
  <2> DEFINE q == req[p]
             found == {g \in GroupsOf(q.by) : Owners(member[g]) = {}}
             r == [q EXCEPT !.at = "hand", !.todo = found]
  <2>1. q \in Asked /\ Sound(q) /\ Locks(p) /\ q.op = "reactivate_user" /\ found \subseteq Groups
    BY <1>6 DEF Base, Shape, ReactivateFind, At, GroupsOf
  <2>2. req' = [req EXCEPT ![p] = r] /\ OnlyReq
    BY <1>6 DEF ReactivateFind, Base, Shape
  <2> HIDE DEF found
  <2>3. /\ r \in Asked /\ r.op = q.op /\ r.at = "hand" /\ r.g = q.g /\ r.arg = q.arg
        /\ r.seen = q.seen /\ r.rows = q.rows /\ r.heirs = q.heirs
    BY <2>1, StageFacts DEF Asked
  <2> HIDE DEF r
  <2>4. Passive(r)
    BY <2>1, <2>3 DEF Passive, Successions
  <2>5. Becomes(p, r)
    BY <2>1, <2>3, <2>4 DEF Becomes, Sound, Locks, Passive
  <2>6. Quiet(p, r)
    BY <2>1, <2>3, <2>5 DEF Quiet
  <2> QED
    BY <2>2, <2>3, <2>6 DEF QuietStep, OnlyReq, accounts
<1> QED
  BY <1>1, <1>2, <1>3, <1>4, <1>5, <1>6 DEF Reads

\* The steps of a request that write nothing and hold no lock they did not hold, in one.
Looks(p) ==
    \/ \E u \in Users :
          \/ DeletionReadGroups(p, u) \/ ReactivateUpdate(p, u)
          \/ \E t \in Tokens : AcceptLookup(p, u, t)
          \/ \E g \in Groups :
                \/ CreateCount(p, u, g) \/ InviteReadRole(p, u, g) \/ DeleteReadRole(p, u, g) \/ DesignateBegin(p, g, u)
                \/ \E v \in Users : TransferReadRole(p, u, g, v)
                                    \/ ActorReadRole(p, "remove_member", u, g, v, "none")
                \/ \E v \in Users, to \in {"admin", "standard"} : ActorReadRole(p, "change_role", u, g, v, to)
                \/ \E v \in Users \cup {Nobody} : LeaveReadRole(p, u, g, v)
    \/ Reads(p) \/ RequestFails(p) \/ ReactivateFind(p)

LEMMA LooksAreQuiet ==
    ASSUME InstanceAssumption, Base, UNCHANGED handlers, NEW p \in Requests, Looks(p) PROVE QuietStep(p)
<1>1. CASE Reads(p) \/ RequestFails(p) \/ ReactivateFind(p)
  BY <1>1, ReadsAreQuiet
<1>2. ASSUME NEW u \in Users, NEW g \in Groups, NEW v \in Users, NEW to \in {"admin", "standard"},
             ActorReadRole(p, "remove_member", u, g, v, "none") \/ ActorReadRole(p, "change_role", u, g, v, to)
      PROVE  QuietStep(p)
  BY <1>2, ActorIsQuiet
<1>3. ASSUME NEW u \in Users, NEW g \in Groups, NEW v \in Users, ActorReadRole(p, "remove_member", u, g, v, "none")
      PROVE  QuietStep(p)
  BY <1>3, ActorIsQuiet
<1> QED
  BY <1>1, <1>2, <1>3, BeginsAreQuiet DEF Looks

\* What a quiet step leaves true of every request.
LEMMA QuietFacts ==
    ASSUME Base, NEW p \in Requests, QuietStep(p)
    PROVE  /\ Base'
           /\ UNCHANGED <<member, groups, invited, deactivated, pending, handlers>>
           /\ \A q \in Requests \ {p} : req'[q] = req[q]
           /\ Quiet(p, req'[p])
<1>1. PICK r \in Asked : Quiet(p, r) /\ req' = [req EXCEPT ![p] = r]
  BY DEF QuietStep
<1>2. UNCHANGED <<member, groups, invited, deactivated, pending, handlers>>
  BY DEF QuietStep
<1>3. Base'
  BY <1>1, <1>2, ReadStep DEF Quiet
<1>4. req'[p] = r /\ \A q \in Requests \ {p} : req'[q] = req[q]
  BY <1>1 DEF Base, Shape
<1> QED
  BY <1>1, <1>2, <1>3, <1>4

-----------------------------------------------------------------------------
(* The steps of a succession that lock: what each leaves of the request.     *)

\* What is left alone by a step that only changes the request p.
Aside(p) ==
    /\ UNCHANGED <<member, groups, invited, deactivated, pending, handlers>>
    /\ \A q \in Requests \ {p} : req'[q] = req[q]

LEMMA BecomesAside ==
    ASSUME Base, NEW p \in Requests, NEW r, Becomes(p, r), req' = [req EXCEPT ![p] = r], OnlyReq, UNCHANGED handlers
    PROVE  Base' /\ Aside(p) /\ req'[p] = r
<1>1. UNCHANGED <<member, groups, invited, deactivated, pending, handlers>>
  BY DEF OnlyReq, accounts
<1>2. req'[p] = r /\ \A q \in Requests \ {p} : req'[q] = req[q]
  BY DEF Base, Shape
<1>3. Base'
  BY <1>1, ReadStep
<1> QED
  BY <1>1, <1>2, <1>3 DEF Aside

\* purge_account, once it has deleted the memberships of its account.
LEMMA PurgeBegins ==
    ASSUME InstanceAssumption, Base, NEW p \in Requests, NEW u \in Users, PurgeDeleteMemberships(p, u), UNCHANGED handlers
    PROVE  /\ Base' /\ Aside(p)
           /\ LET r == req'[p] IN
              /\ r.op = "purge_account" /\ r.at = "hand" /\ r.by = u /\ r.heirs = {}
              /\ \A g \in Groups, v \in Users : <<g, v>> \in r.rows <=> (v = u /\ member[g][u] # "none")
              /\ r.todo = {g \in Groups : member[g][u] = "owner"}
<1> DEFINE gone == {<<g, u>> : g \in GroupsOf(u)}
           own == {g \in Groups : member[g][u] = "owner"}
           mine == GroupsOf(u)
           q == Request("purge_account", "hand", u, NoGroup, Nobody, "none")
           r == [q EXCEPT !.left = mine, !.rows = gone, !.todo = own]
<1>1. /\ req' = [req EXCEPT ![p] = r] /\ OnlyReq /\ RowsFree(p, gone) /\ "purge_account" \in handlers
  BY DEF PurgeDeleteMemberships, Begin
<1>2. "purge_account" \in Ops /\ "hand" \in Stages \cup Tokens /\ NoGroup \in Groups \cup {NoGroup}
  BY DEF Ops, Stages, Successions
<1>3. q \in Asked /\ q.op = "purge_account" /\ q.at = "hand" /\ q.by = u /\ q.g = NoGroup /\ q.heirs = {}
  BY <1>2 DEF Request, NoRequest, Asked
<1>4. /\ mine \subseteq Groups /\ own \subseteq Groups /\ gone \subseteq Groups \X Users
      /\ \A g \in Groups, v \in Users : <<g, v>> \in gone <=> (v = u /\ member[g][u] # "none")
  BY DEF GroupsOf
<1> HIDE DEF q, mine, own, gone
<1>5. /\ r \in Asked /\ r.op = q.op /\ r.at = q.at /\ r.by = q.by /\ r.g = q.g /\ r.heirs = q.heirs
      /\ r.rows = gone /\ r.todo = own
  BY <1>3, <1>4 DEF Asked
<1> HIDE DEF r
<1>6. \A o \in Requests : req[o].op = "create_group" => req[o].g # NoGroup
  BY DEF Base, FreshGroup, InstanceAssumption
<1>7. Becomes(p, r)
  <2>1. Sound(r)
    BY <1>1, <1>3, <1>5 DEF Sound, Successions
  <2>2. ASSUME NEW g \in Groups, NEW v \in Users, <<g, v>> \in r.rows
        PROVE  member[g][v] # "none" /\ \A o \in Requests \ {p} : <<g, v>> \notin req[o].rows
    BY <1>1, <1>4, <1>5, <2>2 DEF RowsFree
  <2> QED
    BY <1>3, <1>5, <1>6, <2>1, <2>2 DEF Becomes
<1>8. Base' /\ Aside(p) /\ req'[p] = r
  BY <1>1, <1>7, BecomesAside
<1> QED
  BY <1>3, <1>4, <1>5, <1>8 DEF own

\* lock_members, its snapshot.
LEMMA LockBegins ==
    ASSUME Base, NEW p \in Requests, NEW g \in Groups, LockMembersStart(p, g), UNCHANGED handlers
    PROVE  /\ Base' /\ Aside(p)
           /\ LET q == req[p]  r == req'[p] IN
              /\ q.at = "hand" /\ g \in q.todo /\ r.op = q.op /\ r.by = q.by /\ r.on = q.on /\ r.at = "lock" /\ r.g = g
              /\ r.todo = q.todo \ {g} /\ r.seen = Visible(p, g) /\ r.out \subseteq deactivated
              /\ r.rows = q.rows /\ r.heirs = q.heirs /\ q.op \in Successions
<1> DEFINE q == req[p]
           rest == q.todo \ {g}
           sight == Visible(p, g)
           o == IF q.op = "reactivate_user" THEN deactivated \ {q.by} ELSE deactivated
           l == pending
           r == [q EXCEPT !.at = "lock", !.g = g, !.todo = rest, !.seen = sight, !.out = o, !.last = l]
<1>1. q \in Asked /\ Sound(q) /\ Locks(p) /\ q.at = "hand" /\ g \in q.todo
  BY DEF Base, Shape, LockMembersStart
<1>2. req' = [req EXCEPT ![p] = r] /\ OnlyReq
  BY DEF LockMembersStart, Base, Shape
<1>3. /\ rest \subseteq Groups /\ sight \subseteq Users /\ o \subseteq Users /\ o \subseteq deactivated /\ l \subseteq Users
      /\ "lock" \in Stages /\ (g \notin groups => sight = {})
  BY <1>1 DEF Visible, Members, Base, Shape, Existing, Asked, Stages
<1> HIDE DEF rest, sight, o, l
<1>4. /\ r \in Asked /\ r.op = q.op /\ r.by = q.by /\ r.on = q.on /\ r.arg = q.arg /\ r.at = "lock" /\ r.g = g
      /\ r.todo = rest /\ r.seen = sight /\ r.out = o /\ r.rows = q.rows /\ r.heirs = q.heirs
  BY <1>1, <1>3 DEF Asked
<1> HIDE DEF r
<1>5. q.op \in Successions
  BY <1>1 DEF Sound
<1>6. \A x \in Requests : req[x].op = "create_group" => req[x].g \notin groups
  BY DEF Base, FreshGroup
<1>7. Becomes(p, r)
  <2>1. Sound(r)
    BY <1>1, <1>4, <1>5 DEF Sound, Successions
  <2>2. \A x \in Requests \ {p} : req[x].op = "create_group" /\ req[x].g = r.g => Passive(r)
    BY <1>3, <1>4, <1>5, <1>6 DEF Passive
  <2>3. r.op # "create_group"
    BY <1>4, <1>5 DEF Successions
  <2> QED
    BY <1>1, <1>4, <2>1, <2>2, <2>3 DEF Becomes, Locks
<1>8. Base' /\ Aside(p) /\ req'[p] = r
  BY <1>2, <1>7, BecomesAside
<1> QED
  BY <1>1, <1>3, <1>4, <1>5, <1>8 DEF rest, sight

\* delete_if_abandoned.
LEMMA AbandonedFound ==
    ASSUME Base, NEW p \in Requests, PurgeFindAbandoned(p), UNCHANGED handlers
    PROVE  /\ Base' /\ Aside(p)
           /\ LET q == req[p]  r == req'[p] IN
              /\ q.op = "purge_account" /\ q.at = "hand" /\ q.todo = {} /\ r.op = q.op /\ r.by = q.by /\ r.at = "delete"
              /\ r.todo = {} /\ r.rows = q.rows /\ r.heirs = q.heirs
<1> DEFINE q == req[p]
           empty == {g \in q.left \cap groups : Visible(p, g) = {}}
           r == [q EXCEPT !.at = "delete", !.left = empty]
<1>1. q \in Asked /\ Sound(q) /\ Locks(p) /\ q.op = "purge_account" /\ q.at = "hand" /\ q.todo = {}
  BY DEF Base, Shape, PurgeFindAbandoned, At
<1>2. req' = [req EXCEPT ![p] = r] /\ OnlyReq
  BY DEF PurgeFindAbandoned, Base, Shape
<1>3. empty \subseteq Groups /\ "delete" \in Stages
  BY DEF Base, Shape, Stages
<1> HIDE DEF empty
<1>4. /\ r \in Asked /\ r.op = q.op /\ r.by = q.by /\ r.arg = q.arg /\ r.at = "delete" /\ r.g = q.g
      /\ r.todo = q.todo /\ r.seen = q.seen /\ r.rows = q.rows /\ r.heirs = q.heirs
  BY <1>1, <1>3 DEF Asked
<1> HIDE DEF r
<1>5. Becomes(p, r)
  BY <1>1, <1>4 DEF Becomes, Sound, Locks, Passive, Successions
<1>6. Base' /\ Aside(p) /\ req'[p] = r
  BY <1>2, <1>5, BecomesAside
<1> QED
  BY <1>1, <1>4, <1>6

\* Somebody inherits wherever somebody may: the classes of successors leave nobody out.
LEMMA SomebodyInherits ==
    ASSUME NEW S, NEW out, NEW last, NEW m, S \ out # {}
    PROVE  Heirs(S, out, last, m) # {}
<1> DEFINE eligible == S \ out
           rank(u) == (IF u \in last THEN 2 ELSE 0) + (IF m[u] = "admin" THEN 0 ELSE 1)
<1>1. \A u \in eligible : rank(u) \in {0, 1, 2, 3}
  OBVIOUS
<1>2. Heirs(S, out, last, m) = {u \in eligible : \A v \in eligible : rank(u) <= rank(v)}
  BY DEF Heirs
<1>3. eligible # {}
  OBVIOUS
<1> HIDE DEF rank, eligible
<1>4. \E u \in eligible : \A v \in eligible : rank(u) <= rank(v)
  <2>1. CASE \E u \in eligible : rank(u) = 0
    BY <1>1, <2>1
  <2>2. CASE (\A u \in eligible : rank(u) # 0) /\ (\E u \in eligible : rank(u) = 1)
    BY <1>1, <2>2
  <2>3. CASE (\A u \in eligible : rank(u) \notin {0, 1}) /\ (\E u \in eligible : rank(u) = 2)
    BY <1>1, <2>3
  <2>4. CASE \A u \in eligible : rank(u) \notin {0, 1, 2}
    BY <1>1, <1>3, <2>4
  <2> QED
    BY <2>1, <2>2, <2>3, <2>4
<1> QED
  BY <1>2, <1>4

\* assign_heir, and a designation: whom the locked rows let inherit.
Now(p) == req[p].seen \cap Visible(p, req[p].g)
LEMMA HeirAssigned ==
    ASSUME Base, NEW p \in Requests, AssignHeir(p), UNCHANGED handlers
    PROVE  /\ Base' /\ Aside(p)
           /\ LET q == req[p]  r == req'[p]  m == member[q.g] IN
              /\ q.at = "lock" /\ q.g \in Groups /\ r.op = q.op /\ r.by = q.by /\ r.todo = q.todo /\ r.g = q.g
              /\ r.rows = q.rows \cup {<<q.g, u>> : u \in Now(p)}
              /\ r.at = "unique_violation" => Owners(m) \cap Now(p) = {} /\ Now(p) # {} /\ \E o \in Visible(p, q.g) : m[o] = "owner"
              /\ r.at # "unique_violation" =>
                    /\ r.at = "hand"
                    /\ \/ Owners(m) \cap Now(p) # {} /\ r.heirs = q.heirs
                       \/ (q.op # "designate_owner" => Now(p) \subseteq q.out) /\ r.heirs = q.heirs
                       \/ Owners(m) \cap Now(p) = {} /\ \E heir \in Now(p) : r.heirs = q.heirs \cup {<<q.g, heir>>}
<1> DEFINE q == req[p]
           m == member[q.g]
           standing == q.seen \cap Visible(p, q.g)
           may == CASE Owners(m) \cap standing # {} -> {}
                    [] Owners(m) \cap standing = {} /\ q.op = "designate_owner" -> {q.on} \cap (standing \ (q.out \cup q.last))
                    [] OTHER -> Heirs(standing, q.out, q.last, m)
           held == q.rows \cup {<<q.g, u>> : u \in standing}
           next == [q EXCEPT !.at = "hand", !.rows = held]
<1>1. q \in Asked /\ Sound(q) /\ Locks(p) /\ q.at = "lock" /\ q.g \in Groups /\ q.op \in Successions
  BY DEF Base, Shape, AssignHeir, MembersLockable, Sound
<1>2. /\ standing \subseteq Visible(p, q.g) /\ standing \subseteq Members(q.g) /\ standing \subseteq Users /\ standing = Now(p)
      /\ RowsFree(p, {<<q.g, u>> : u \in q.seen})
  BY DEF Visible, Members, AssignHeir, MembersLockable, Now
<1>3. /\ may \subseteq standing
      /\ Owners(m) \cap standing # {} => may = {}
      /\ (may = {} /\ q.op # "designate_owner" /\ Owners(m) \cap standing = {}) => standing \subseteq q.out
  <2>1. CASE Owners(m) \cap standing # {}
    BY <2>1
  <2>2. CASE Owners(m) \cap standing = {} /\ q.op = "designate_owner"
    BY <2>2
  <2>3. CASE Owners(m) \cap standing = {} /\ q.op # "designate_owner"
    <3>1. may = Heirs(standing, q.out, q.last, m)
      BY <2>3
    <3>2. Heirs(standing, q.out, q.last, m) \subseteq standing
      BY DEF Heirs
    <3>3. (standing \ q.out # {}) => Heirs(standing, q.out, q.last, m) # {}
      BY SomebodyInherits
    <3> HIDE DEF may, standing
    <3> QED
      BY <2>3, <3>1, <3>2, <3>3
  <2> QED
    BY <2>1, <2>2, <2>3
<1>4. /\ OnlyReq
      /\ \/ may = {} /\ req' = [req EXCEPT ![p] = next]
         \/ \E heir \in may : \/ (\E o \in Visible(p, q.g) : m[o] = "owner")
                                 /\ req' = [req EXCEPT ![p] = [next EXCEPT !.at = "unique_violation"]]
                              \/ ~(\E o \in Visible(p, q.g) : m[o] = "owner")
                                 /\ req' = [req EXCEPT ![p] = [next EXCEPT !.heirs = @ \cup {<<q.g, heir>>}]]
  <2> HIDE DEF q, m, standing, may, held, next
  <2> QED
    BY DEF AssignHeir, q, m, standing, may, held, next
<1>5. held \subseteq Groups \X Users
  BY <1>1, <1>2 DEF Asked
<1>6. ASSUME NEW g \in Groups, NEW u \in Users, <<g, u>> \in held
      PROVE  member[g][u] # "none" /\ \A o \in Requests \ {p} : <<g, u>> \notin req[o].rows
  <2>1. CASE <<g, u>> \in q.rows
    BY <1>1, <2>1 DEF Locks
  <2>2. CASE g = q.g /\ u \in standing
    <3>1. u \in Members(q.g) /\ u \in q.seen
      BY <1>2, <2>2
    <3> QED
      BY <1>2, <2>2, <3>1 DEF Members, RowsFree
  <2> QED
    BY <1>6, <2>1, <2>2
<1>7. q.rows \subseteq held /\ q.heirs \subseteq q.rows /\ (\A u \in standing : <<q.g, u>> \in held) /\ held = q.rows \cup {<<q.g, u>> : u \in Now(p)}
  BY <1>1, <1>2 DEF Locks
<1>8. "hand" \in Stages /\ "unique_violation" \in Stages
  BY DEF Stages
<1> HIDE DEF standing, may, held
<1>9. /\ next \in Asked /\ next.op = q.op /\ next.at = "hand" /\ next.by = q.by /\ next.g = q.g /\ next.arg = q.arg
      /\ next.todo = q.todo /\ next.seen = q.seen /\ next.heirs = q.heirs /\ next.rows = held
  BY <1>1, <1>5, <1>8 DEF Asked
<1> HIDE DEF next
<1>10. ASSUME NEW r \in Asked, r.op = q.op, r.by = q.by, r.g = q.g, r.arg = q.arg, r.seen = q.seen, r.rows = held,
              r.heirs \subseteq held, r.at \in {"hand", "unique_violation"}
       PROVE  Becomes(p, r)
  <2>1. Sound(r) /\ Passive(r) /\ r.op # "create_group"
    BY <1>1, <1>10 DEF Sound, Passive, Successions
  <2> QED
    BY <1>6, <1>10, <2>1 DEF Becomes
<1>11. CASE may = {} /\ req' = [req EXCEPT ![p] = next]
  <2>1. Becomes(p, next)
    BY <1>7, <1>9, <1>10
  <2>2. Base' /\ Aside(p) /\ req'[p] = next
    BY <1>4, <1>11, <2>1, BecomesAside
  <2>3. Owners(m) \cap Now(p) # {} \/ (q.op # "designate_owner" => Now(p) \subseteq q.out)
    BY <1>2, <1>3, <1>11
  <2> QED
    BY <1>1, <1>7, <1>9, <2>2, <2>3
<1>12. ASSUME NEW heir \in may, \E o \in Visible(p, q.g) : m[o] = "owner",
              req' = [req EXCEPT ![p] = [next EXCEPT !.at = "unique_violation"]]
       PROVE  /\ Base' /\ Aside(p) /\ req'[p].at = "unique_violation" /\ req'[p].op = q.op /\ req'[p].by = q.by
              /\ req'[p].todo = q.todo /\ req'[p].g = q.g /\ req'[p].rows = held
  <2> DEFINE r == [next EXCEPT !.at = "unique_violation"]
  <2>1. /\ r \in Asked /\ r.op = q.op /\ r.at = "unique_violation" /\ r.by = q.by /\ r.g = q.g /\ r.arg = q.arg
        /\ r.todo = q.todo /\ r.seen = q.seen /\ r.heirs = q.heirs /\ r.rows = held
    BY <1>8, <1>9 DEF Asked
  <2>2. req' = [req EXCEPT ![p] = r]
    BY <1>12
  <2> HIDE DEF r
  <2>3. Becomes(p, r)
    BY <1>7, <1>10, <2>1
  <2>4. Base' /\ Aside(p) /\ req'[p] = r
    BY <1>4, <2>2, <2>3, BecomesAside
  <2> QED
    BY <2>1, <2>4
<1>13. ASSUME NEW heir \in may, req' = [req EXCEPT ![p] = [next EXCEPT !.heirs = @ \cup {<<q.g, heir>>}]]
       PROVE  /\ Base' /\ Aside(p) /\ req'[p].at = "hand" /\ req'[p].op = q.op /\ req'[p].by = q.by
              /\ req'[p].todo = q.todo /\ req'[p].g = q.g /\ req'[p].rows = held
              /\ req'[p].heirs = q.heirs \cup {<<q.g, heir>>}
  <2> DEFINE all == next.heirs \cup {<<q.g, heir>>}
             r == [next EXCEPT !.heirs = all]
  <2>1. all \subseteq held /\ all \subseteq Groups \X Users /\ all = q.heirs \cup {<<q.g, heir>>}
    BY <1>3, <1>5, <1>7, <1>9, <1>13
  <2> HIDE DEF all
  <2>2. /\ r \in Asked /\ r.op = q.op /\ r.at = "hand" /\ r.by = q.by /\ r.g = q.g /\ r.arg = q.arg
        /\ r.todo = q.todo /\ r.seen = q.seen /\ r.heirs = all /\ r.rows = held
    BY <1>9, <2>1 DEF Asked
  <2>3. req' = [req EXCEPT ![p] = r]
    BY <1>9, <1>13 DEF all
  <2> HIDE DEF r
  <2>4. Becomes(p, r)
    BY <1>10, <2>1, <2>2
  <2>5. Base' /\ Aside(p) /\ req'[p] = r
    BY <1>4, <2>3, <2>4, BecomesAside
  <2> QED
    BY <2>1, <2>2, <2>5
<1>14. ASSUME NEW heir \in may PROVE heir \in Now(p) /\ Owners(m) \cap Now(p) = {}
  BY <1>2, <1>3
<1> HIDE DEF m
<1> QED
  BY <1>1, <1>4, <1>7, <1>11, <1>12, <1>13, <1>14 DEF m

-----------------------------------------------------------------------------
(* The writes that end a request.                                            *)

\* They leave locked rows to their holders, and groups in creation to their creators.
Frame(p) ==
    /\ req' = [req EXCEPT ![p] = NoRequest] /\ UNCHANGED handlers
    /\ member' \in [Groups -> [Users -> Roles \cup {"none"}]] /\ groups' \subseteq Groups
    /\ invited' \in [Tokens -> [g : Groups \cup {NoGroup}, by : Users \cup {Nobody}]]
    /\ deactivated' \subseteq Users /\ pending' \subseteq Users
    /\ Existing'
    /\ \A q \in Requests \ {p} :
          /\ \A g \in Groups, u \in Users : <<g, u>> \in req[q].rows => member'[g][u] = member[g][u]
          /\ req[q].op = "create_group" => req[q].g \notin groups'

\* What they may do to a member and to a group.
Joins(p, g) == req[p].op = "accept_invitation" \/ (req[p].op = "create_group" /\ g \notin groups)
StepsDown(p, g, u) ==
    \/ req[p].op \in {"transfer_ownership", "leave_group"}
    \/ req[p].op \in {"change_role", "remove_member"} /\ req[p].at = "write" /\ req[p].g = g /\ req[p].on = u
    \/ req[p].op = "purge_account" /\ req[p].by = u /\ <<g, u>> \in req[p].rows
TakesOver(p, g, u) ==
    \/ req[p].op \in {"transfer_ownership", "leave_group"}
    \/ req[p].op = "create_group" /\ g \notin groups
    \/ <<g, u>> \in req[p].heirs
Effect(p) ==
    /\ \A g \in Groups, u \in Users :
          /\ (member[g][u] = "none" /\ member'[g][u] # "none") => Joins(p, g)
          /\ (g \in groups' /\ member[g][u] = "owner" /\ member'[g][u] # "owner") => StepsDown(p, g, u)
          /\ (member[g][u] # "owner" /\ member'[g][u] = "owner") => TakesOver(p, g, u)
    /\ \A g \in groups' \ groups : Owners(member'[g]) # {} /\ req[p].op = "create_group" /\ req[p].g = g
    /\ req[p].op # "reactivate_user" => deactivated \subseteq deactivated'
    /\ req[p].op = "purge_account" =>
          /\ req[p].at = "delete"
          /\ \A g \in groups', u \in Users :
                /\ (<<g, u>> \in req[p].rows /\ u = req[p].by) => member'[g][u] = "none"
                /\ (<<g, u>> \in req[p].heirs /\ u # req[p].by) => member'[g][u] = "owner"

LEMMA WriteStep == ASSUME InstanceAssumption, Base, NEW p \in Requests, Frame(p) PROVE Base'
<1>1. NoRequest \in Asked /\ NoRequest.op = "none" /\ NoRequest.g = NoGroup /\ NoRequest.at = "end"
      /\ NoRequest.rows = {} /\ NoRequest.heirs = {}
  BY DEF NoRequest, Asked, Ops, Stages, Roles
<1>2. req' \in [Requests -> Asked] /\ req'[p] = NoRequest /\ \A q \in Requests \ {p} : req'[q] = req[q]
  BY <1>1 DEF Base, Shape, Frame
<1>3. Shape' /\ Existing'
  BY <1>2 DEF Frame, Shape
<1>4. ASSUME NEW q \in Requests PROVE Sound(req[q])'
  <2>1. handlers' = handlers
    BY DEF Frame
  <2> QED
    BY <1>1, <1>2, <2>1 DEF Base, Sound
<1>5. ASSUME NEW q \in Requests PROVE Locks(q)'
  <2>1. CASE q = p
    BY <1>1, <1>2, <2>1 DEF Locks
  <2>2. CASE q # p
    <3>1. Locks(q) /\ req'[q] = req[q]
      BY <1>2, <2>2 DEF Base
    <3>2. ASSUME NEW g \in Groups, NEW u \in Users, <<g, u>> \in req[q].rows
          PROVE  member'[g][u] # "none" /\ \A o \in Requests \ {q} : <<g, u>> \notin req'[o].rows
      BY <1>1, <1>2, <2>2, <3>1, <3>2 DEF Locks, Frame
    <3> QED
      BY <3>1, <3>2 DEF Locks
  <2> QED
    BY <2>1, <2>2
<1>6. ASSUME NEW q \in Requests PROVE FreshGroup(q)'
  <2>1. CASE q = p
    BY <1>1, <1>2, <2>1 DEF FreshGroup
  <2>2. CASE q # p
    <3>1. FreshGroup(q) /\ req'[q] = req[q] /\ (req[q].op = "create_group" => req[q].g \notin groups')
      BY <1>2, <2>2 DEF Base, Frame
    <3>2. ASSUME req[q].op = "create_group", NEW o \in Requests \ {q}, req'[o].g = req[q].g PROVE Passive(req'[o])
      BY <1>1, <1>2, <2>2, <3>1, <3>2 DEF FreshGroup, InstanceAssumption
    <3> QED
      BY <3>1, <3>2 DEF FreshGroup, Passive
  <2> QED
    BY <2>1, <2>2
<1> QED
  BY <1>3, <1>4, <1>5, <1>6 DEF Base

\* A write that gives one member of one group another role, if any.
LEMMA OneMember ==
    ASSUME Base, NEW g, NEW u, NEW role, g \in Groups /\ u \in Users => role \in Roles \cup {"none"},
           member' = [member EXCEPT ![g][u] = role]
    PROVE  /\ member' \in [Groups -> [Users -> Roles \cup {"none"}]]
           /\ \A h \in Groups, v \in Users : member'[h][v] = IF h = g /\ v = u THEN role ELSE member[h][v]
BY DEF Base, Shape

LEMMA CreateWrites ==
    ASSUME Base, NEW p \in Requests, CreateInsert(p), UNCHANGED handlers PROVE Frame(p) /\ Effect(p)
<1> DEFINE u == req[p].by
           g == req[p].g
<1>1. req[p].op = "create_group" /\ u \in Users /\ g \in Groups \ groups
  BY DEF CreateInsert, At, Base, FreshGroup
<1>2. /\ groups' = groups \cup {g} /\ End(p) /\ UNCHANGED <<invited, deactivated, pending>>
      /\ member' = [member EXCEPT ![g][u] = "owner"]
  BY DEF CreateInsert, accounts
<1> HIDE DEF u, g
<1>3. /\ member' \in [Groups -> [Users -> Roles \cup {"none"}]]
      /\ \A h \in Groups, v \in Users : member'[h][v] = IF h = g /\ v = u THEN "owner" ELSE member[h][v]
  BY <1>2, OneMember DEF Roles
<1>4. \A v \in Users : member[g][v] = "none"
  BY <1>1 DEF Base, Existing
<1>5. Existing'
  BY <1>1, <1>2, <1>3 DEF Base, Existing
<1>6. ASSUME NEW q \in Requests \ {p}
      PROVE  /\ \A h \in Groups, v \in Users : <<h, v>> \in req[q].rows => member'[h][v] = member[h][v]
             /\ req[q].op = "create_group" => req[q].g \notin groups'
  <2>1. Locks(q) /\ FreshGroup(q) /\ ~Passive(req[p])
    BY <1>1 DEF Base, Passive, Successions
  <2>2. \A h \in Groups, v \in Users : <<h, v>> \in req[q].rows => member'[h][v] = member[h][v]
    BY <1>1, <1>3, <1>4, <2>1 DEF Locks
  <2>3. req[q].op = "create_group" => req[q].g \notin groups /\ req[q].g # g
    BY <2>1 DEF FreshGroup, g
  <2> QED
    BY <1>2, <2>2, <2>3
<1>7. Frame(p)
  BY <1>1, <1>2, <1>3, <1>5, <1>6 DEF Frame, End, Base, Shape
<1>8. Effect(p)
  BY <1>1, <1>2, <1>3, <1>4 DEF Effect, Joins, StepsDown, TakesOver, Owners, g
<1> QED
  BY <1>7, <1>8

\* A write to rows no other transaction holds.
LEMMA RowsKept ==
    ASSUME Base, NEW p \in Requests, NEW R, RowsFree(p, R), groups' \subseteq groups,
           \A h \in Groups, v \in Users : <<h, v>> \notin R => member'[h][v] = member[h][v]
    PROVE  \A q \in Requests \ {p} :
              /\ \A h \in Groups, v \in Users : <<h, v>> \in req[q].rows => member'[h][v] = member[h][v]
              /\ req[q].op = "create_group" => req[q].g \notin groups'
<1> TAKE q \in Requests \ {p}
<1>1. \A h \in Groups, v \in Users : <<h, v>> \in req[q].rows => <<h, v>> \notin R
  BY DEF RowsFree
<1>2. req[q].op = "create_group" => req[q].g \notin groups
  BY DEF Base, FreshGroup
<1> QED
  BY <1>1, <1>2

\* The same, when groups and invitations stay: the membership alone changes.
LEMMA MembersWrite ==
    ASSUME Base, NEW p \in Requests, NEW R, RowsFree(p, R), End(p), UNCHANGED <<groups, invited, deactivated, pending, handlers>>,
           member' \in [Groups -> [Users -> Roles \cup {"none"}]],
           \A h \in Groups, v \in Users : <<h, v>> \notin R => member'[h][v] = member[h][v],
           \A h \in Groups, v \in Users : member[h][v] = "none" => member'[h][v] = "none"
    PROVE  Frame(p)
<1>1. Existing'
  BY DEF Base, Existing
<1> QED
  BY <1>1, RowsKept DEF Frame, End, Base, Shape

LEMMA InviteWrites ==
    ASSUME InstanceAssumption, Base, NEW p \in Requests, NEW t \in Tokens, InviteInsert(p, t), UNCHANGED handlers
    PROVE  Frame(p) /\ Effect(p)
<1> DEFINE i == [g |-> req[p].g, by |-> req[p].by]
<1>1. req[p].op = "create_invitation" /\ End(p) /\ UNCHANGED <<member, groups, deactivated, pending>>
  BY DEF InviteInsert, At, accounts
<1>2. i \in [g : Groups \cup {NoGroup}, by : Users \cup {Nobody}] /\ i.g = req[p].g
  BY DEF Base, Shape, Asked
<1>3. \/ req[p].g \in groups /\ invited' = [invited EXCEPT ![t] = i]
      \/ invited' = invited
  BY DEF InviteInsert
<1> HIDE DEF i
<1>4. /\ invited' \in [Tokens -> [g : Groups \cup {NoGroup}, by : Users \cup {Nobody}]]
      /\ \A o \in Tokens : invited'[o] = invited[o] \/ (invited'[o] = i /\ i.g \in groups)
  BY <1>2, <1>3 DEF Base, Shape
<1>5. Existing'
  BY <1>1, <1>4 DEF Base, Existing
<1>6. RowsFree(p, {})
  BY DEF RowsFree
<1>7. Frame(p)
  BY <1>1, <1>4, <1>5, <1>6, RowsKept DEF Frame, End, Base, Shape
<1>8. Effect(p)
  BY <1>1 DEF Effect
<1> QED
  BY <1>7, <1>8

LEMMA AcceptWrites ==
    ASSUME InstanceAssumption, Base, NEW p \in Requests, NEW t \in Tokens, AcceptJoin(p, t), UNCHANGED handlers
    PROVE  Frame(p) /\ Effect(p)
<1> DEFINE u == req[p].by
           g == req[p].g
<1>1. /\ req[p].op = "accept_invitation" /\ End(p) /\ UNCHANGED <<groups, deactivated, pending>> /\ RowsFree(p, Row(g, u))
      /\ \/ /\ invited[t].g = g /\ invited' = [invited EXCEPT ![t] = NoInvitation]
            /\ member' = [member EXCEPT ![g][u] = IF @ = "none" THEN "standard" ELSE @]
         \/ UNCHANGED <<invited, member>>
  BY DEF AcceptJoin, At, accounts, StillInvited
<1> HIDE DEF u, g
<1>2. /\ member' \in [Groups -> [Users -> Roles \cup {"none"}]]
      /\ \A h \in Groups, v \in Users :
            \/ member'[h][v] = member[h][v]
            \/ h = g /\ v = u /\ member[h][v] = "none" /\ member'[h][v] = "standard" /\ invited[t].g = g
  <2>1. CASE UNCHANGED member
    BY <2>1 DEF Base, Shape
  <2>2. CASE invited[t].g = g /\ member' = [member EXCEPT ![g][u] = IF @ = "none" THEN "standard" ELSE @]
    <3> DEFINE role == IF member[g][u] = "none" THEN "standard" ELSE member[g][u]
    <3>1. g \in Groups /\ u \in Users => role \in Roles \cup {"none"}
      BY DEF Base, Shape, Roles
    <3>2. member' = [member EXCEPT ![g][u] = role]
      BY <2>2
    <3>3. \A h \in Groups, v \in Users : h = g /\ v = u => (member[h][v] = "none" /\ role = "standard") \/ role = member[h][v]
      OBVIOUS
    <3> HIDE DEF role
    <3>4. /\ member' \in [Groups -> [Users -> Roles \cup {"none"}]]
          /\ \A h \in Groups, v \in Users : member'[h][v] = IF h = g /\ v = u THEN role ELSE member[h][v]
      BY <3>1, <3>2, OneMember
    <3> QED
      BY <2>2, <3>3, <3>4
  <2> QED
    BY <1>1, <2>1, <2>2
<1>3. NoInvitation \in [g : Groups \cup {NoGroup}, by : Users \cup {Nobody}] /\ NoInvitation.g = NoGroup
  BY DEF NoInvitation
<1>4. /\ invited' \in [Tokens -> [g : Groups \cup {NoGroup}, by : Users \cup {Nobody}]]
      /\ \A o \in Tokens : invited'[o] = invited[o] \/ invited'[o] = NoInvitation
  BY <1>1, <1>3 DEF Base, Shape
<1>5. g \in Groups /\ invited[t].g = g => g \in groups
  BY <1>3 DEF Base, Existing, InstanceAssumption
<1>6. Existing'
  BY <1>1, <1>2, <1>4, <1>5 DEF Base, Existing
<1>7. \A h \in Groups, v \in Users : <<h, v>> \notin Row(g, u) => member'[h][v] = member[h][v]
  BY <1>2 DEF Row
<1>8. Frame(p)
  BY <1>1, <1>2, <1>4, <1>6, <1>7, RowsKept DEF Frame, End, Base, Shape
<1>9. Effect(p)
  BY <1>1, <1>2 DEF Effect, Joins
<1> QED
  BY <1>8, <1>9

LEMMA RoleWrites ==
    ASSUME Base, NEW p \in Requests, ChangeRoleWrite(p) \/ RemoveMemberWrite(p), UNCHANGED handlers
    PROVE  Frame(p) /\ Effect(p)
<1> DEFINE r == req[p]
<1>1. /\ End(p) /\ UNCHANGED <<groups, invited, deactivated, pending>> /\ RowsFree(p, Row(r.g, r.on)) /\ r.at = "write"
      /\ \/ r.op = "change_role" /\ member' = [member EXCEPT ![r.g][r.on] = IF @ = "none" THEN @ ELSE r.arg]
         \/ r.op = "remove_member" /\ member' = [member EXCEPT ![r.g][r.on] = "none"]
  BY DEF ChangeRoleWrite, RemoveMemberWrite, At, accounts
<1>2. r.op = "change_role" => r.arg \in {"admin", "standard"}
  BY DEF Base, Sound
<1> HIDE DEF r
<1>3. /\ member' \in [Groups -> [Users -> Roles \cup {"none"}]]
      /\ \A h \in Groups, v \in Users :
            \/ member'[h][v] = member[h][v]
            \/ h = r.g /\ v = r.on /\ member[h][v] # "none" /\ member'[h][v] # "owner"
  <2>1. CASE r.op = "remove_member" /\ member' = [member EXCEPT ![r.g][r.on] = "none"]
    BY <2>1, OneMember
  <2>2. CASE r.op = "change_role" /\ member' = [member EXCEPT ![r.g][r.on] = IF @ = "none" THEN @ ELSE r.arg]
    <3> DEFINE role == IF member[r.g][r.on] = "none" THEN member[r.g][r.on] ELSE r.arg
    <3>1. r.g \in Groups /\ r.on \in Users => role \in Roles \cup {"none"}
      BY <1>2, <2>2 DEF Roles
    <3>2. member' = [member EXCEPT ![r.g][r.on] = role]
      BY <2>2
    <3>3. \A h \in Groups, v \in Users : h = r.g /\ v = r.on =>
             role = member[h][v] \/ (member[h][v] # "none" /\ role # "owner")
      BY <1>2, <2>2
    <3> HIDE DEF role
    <3>4. /\ member' \in [Groups -> [Users -> Roles \cup {"none"}]]
          /\ \A h \in Groups, v \in Users : member'[h][v] = IF h = r.g /\ v = r.on THEN role ELSE member[h][v]
      BY <3>1, <3>2, OneMember
    <3> QED
      BY <3>3, <3>4
  <2> QED
    BY <1>1, <2>1, <2>2
<1>4. \A h \in Groups, v \in Users : <<h, v>> \notin Row(r.g, r.on) => member'[h][v] = member[h][v]
  BY <1>3 DEF Row
<1>5. Frame(p)
  BY <1>1, <1>3, <1>4, MembersWrite
<1>6. Effect(p)
  BY <1>1, <1>3 DEF Effect, StepsDown, r
<1> QED
  BY <1>5, <1>6

\* A write to the roles of one group, or none.
LEMMA OneGroup ==
    ASSUME Base, NEW g, NEW m, g \in Groups => m \in [Users -> Roles \cup {"none"}],
           member' = [member EXCEPT ![g] = m] \/ UNCHANGED member
    PROVE  /\ member' \in [Groups -> [Users -> Roles \cup {"none"}]]
           /\ \A h \in Groups : member'[h] = member[h] \/ (h = g /\ member'[h] = m)
BY DEF Base, Shape

LEMMA TransferRoles ==
    ASSUME Base, NEW g \in Groups, NEW u, NEW v
    PROVE  LET m == perform_ownership_transfer(member[g], u, v) IN
           /\ m \in [Users -> Roles \cup {"none"}]
           /\ \A x \in Users : /\ member[g][x] = "none" => m[x] = "none"
                               /\ x \notin {u, v} => m[x] = member[g][x]
<1> DEFINE m == perform_ownership_transfer(member[g], u, v)
           old == member[g]
           a == IF old[u] = "none" THEN old[u] ELSE "admin"
           mid == [old EXCEPT ![u] = a]
           b == IF mid[v] = "none" THEN mid[v] ELSE "owner"
<1>1. old \in [Users -> Roles \cup {"none"}] /\ m = [mid EXCEPT ![v] = b]
  BY DEF Base, Shape, perform_ownership_transfer
<1> HIDE DEF m, old
<1>2. u \in Users => a \in Roles \cup {"none"} /\ (old[u] = "none" => a = "none")
  BY <1>1 DEF Roles
<1> HIDE DEF a
<1>3. mid \in [Users -> Roles \cup {"none"}] /\ \A x \in Users : mid[x] = IF x = u THEN a ELSE old[x]
  BY <1>1, <1>2
<1> HIDE DEF mid
<1>4. v \in Users => b \in Roles \cup {"none"} /\ (mid[v] = "none" => b = "none")
  BY <1>3 DEF Roles
<1> HIDE DEF b
<1>5. m \in [Users -> Roles \cup {"none"}] /\ \A x \in Users : m[x] = IF x = v THEN b ELSE mid[x]
  BY <1>1, <1>3, <1>4
<1>6. \A x \in Users : /\ old[x] = "none" => m[x] = "none"
                       /\ x \notin {u, v} => m[x] = old[x]
  BY <1>2, <1>3, <1>4, <1>5
<1> QED
  BY <1>5, <1>6 DEF m, old

LEMMA TransferWrites ==
    ASSUME Base, NEW p \in Requests, TransferWrite(p), UNCHANGED handlers PROVE Frame(p) /\ Effect(p)
<1> DEFINE r == req[p]
           m == perform_ownership_transfer(member[r.g], r.by, r.on)
           R == Row(r.g, r.by) \cup Row(r.g, r.on)
<1>1. /\ r.op = "transfer_ownership" /\ End(p) /\ UNCHANGED <<groups, invited, deactivated, pending>> /\ RowsFree(p, R)
      /\ member' = [member EXCEPT ![r.g] = m] \/ UNCHANGED member
  BY DEF TransferWrite, WriteRoles, At, accounts
<1>2. ASSUME r.g \in Groups
      PROVE  /\ m \in [Users -> Roles \cup {"none"}]
             /\ \A x \in Users : /\ member[r.g][x] = "none" => m[x] = "none"
                                 /\ x \notin {r.by, r.on} => m[x] = member[r.g][x]
  <2> DEFINE g == r.g
             u == r.by
             v == r.on
  <2>1. g \in Groups /\ m = perform_ownership_transfer(member[g], u, v)
    BY <1>2
  <2> HIDE DEF g, u, v, m
  <2>2. /\ m \in [Users -> Roles \cup {"none"}]
        /\ \A x \in Users : /\ member[g][x] = "none" => m[x] = "none"
                            /\ x \notin {u, v} => m[x] = member[g][x]
    BY <2>1, TransferRoles
  <2> QED
    BY <2>2 DEF g, u, v
<1> HIDE DEF r, m
<1>3. /\ member' \in [Groups -> [Users -> Roles \cup {"none"}]]
      /\ \A h \in Groups : member'[h] = member[h] \/ (h = r.g /\ member'[h] = m)
  BY <1>1, <1>2, OneGroup
<1>4. /\ \A h \in Groups, v \in Users : member[h][v] = "none" => member'[h][v] = "none"
      /\ \A h \in Groups, v \in Users : <<h, v>> \notin R => member'[h][v] = member[h][v]
  BY <1>2, <1>3 DEF Row
<1> HIDE DEF R
<1>5. Frame(p)
  BY <1>1, <1>3, <1>4, MembersWrite
<1>6. Effect(p)
  BY <1>1, <1>4 DEF Effect, StepsDown, TakesOver, r
<1> QED
  BY <1>5, <1>6

LEMMA LeaveWrites ==
    ASSUME Base, NEW p \in Requests, LeaveWrite(p), UNCHANGED handlers PROVE Frame(p) /\ Effect(p)
<1> DEFINE r == req[p]
           handsOver == "owner" \in r.seen
           given == perform_ownership_transfer(member[r.g], r.by, r.on)
           m == IF handsOver THEN given ELSE member[r.g]
           left == [m EXCEPT ![r.by] = "none"]
           R == Row(r.g, r.by) \cup (IF handsOver THEN Row(r.g, r.on) ELSE {})
<1>1. /\ r.op = "leave_group" /\ End(p) /\ UNCHANGED <<groups, invited, deactivated, pending>> /\ RowsFree(p, R)
      /\ member' = [member EXCEPT ![r.g] = left] \/ UNCHANGED member
  <2>1. RowsFree(p, R)
    BY DEF LeaveWrite, RowsFree
  <2> QED
    BY <2>1 DEF LeaveWrite, At, accounts
<1>2. ASSUME r.g \in Groups
      PROVE  /\ given \in [Users -> Roles \cup {"none"}]
             /\ \A x \in Users : /\ member[r.g][x] = "none" => given[x] = "none"
                                 /\ x \notin {r.by, r.on} => given[x] = member[r.g][x]
  <2> DEFINE g == r.g
             u == r.by
             v == r.on
  <2>1. g \in Groups /\ given = perform_ownership_transfer(member[g], u, v)
    BY <1>2
  <2> HIDE DEF g, u, v, given
  <2>2. /\ given \in [Users -> Roles \cup {"none"}]
        /\ \A x \in Users : /\ member[g][x] = "none" => given[x] = "none"
                            /\ x \notin {u, v} => given[x] = member[g][x]
    BY <2>1, TransferRoles
  <2> QED
    BY <2>2 DEF g, u, v
<1>3. \A x \in Users : x # r.by /\ <<r.g, x>> \notin R => (handsOver => x # r.on)
  BY DEF Row
<1>4. \A x \in Users : <<r.g, x>> \notin R => x # r.by
  BY DEF Row
<1> HIDE DEF r, given, handsOver, R
<1>5. r.g \in Groups => /\ m \in [Users -> Roles \cup {"none"}]
                        /\ \A x \in Users : /\ member[r.g][x] = "none" => m[x] = "none"
                                            /\ <<r.g, x>> \notin R => m[x] = member[r.g][x]
  BY <1>2, <1>3, <1>4 DEF Base, Shape
<1> HIDE DEF m
<1>6. r.g \in Groups => /\ left \in [Users -> Roles \cup {"none"}]
                        /\ \A x \in Users : /\ member[r.g][x] = "none" => left[x] = "none"
                                            /\ <<r.g, x>> \notin R => left[x] = member[r.g][x]
  BY <1>4, <1>5
<1> HIDE DEF left
<1>7. /\ member' \in [Groups -> [Users -> Roles \cup {"none"}]]
      /\ \A h \in Groups : member'[h] = member[h] \/ (h = r.g /\ member'[h] = left)
  BY <1>1, <1>6, OneGroup
<1>8. /\ \A h \in Groups, v \in Users : member[h][v] = "none" => member'[h][v] = "none"
      /\ \A h \in Groups, v \in Users : <<h, v>> \notin R => member'[h][v] = member[h][v]
  BY <1>6, <1>7
<1>9. Frame(p)
  BY <1>1, <1>7, <1>8, MembersWrite
<1>10. Effect(p)
  BY <1>1, <1>8 DEF Effect, StepsDown, TakesOver, r
<1> QED
  BY <1>9, <1>10

LEMMA DeleteWrites ==
    ASSUME Base, NEW p \in Requests, DeleteWrite(p), UNCHANGED handlers PROVE Frame(p) /\ Effect(p)
<1> DEFINE g == req[p].g
           m == [u \in Users |-> "none"]
<1>1. /\ req[p].op = "delete_group" /\ End(p) /\ UNCHANGED <<deactivated, pending>> /\ RowsFree(p, {g} \X Users)
      /\ member' = [member EXCEPT ![g] = m] /\ groups' = groups \ {g}
      /\ invited' = [t \in Tokens |-> IF invited[t].g \in {g} THEN NoInvitation ELSE invited[t]]
  BY DEF DeleteWrite, Cascade, At, accounts
<1> HIDE DEF g
<1>2. /\ member' \in [Groups -> [Users -> Roles \cup {"none"}]]
      /\ \A h \in Groups : member'[h] = member[h] \/ (h = g /\ member'[h] = m)
      /\ g \in Groups => member'[g] = m
  BY <1>1 DEF Base, Shape
<1>3. NoInvitation \in [g : Groups \cup {NoGroup}, by : Users \cup {Nobody}]
  BY DEF NoInvitation
<1>4. invited' \in [Tokens -> [g : Groups \cup {NoGroup}, by : Users \cup {Nobody}]]
  BY <1>1, <1>3 DEF Base, Shape
<1>5. Existing'
  BY <1>1, <1>2 DEF Base, Existing
<1>6. \A h \in Groups, v \in Users : <<h, v>> \notin {g} \X Users => member'[h][v] = member[h][v]
  BY <1>2
<1>7. Frame(p)
  BY <1>1, <1>2, <1>4, <1>5, <1>6, RowsKept DEF Frame, End, Base, Shape
<1>8. Effect(p)
  BY <1>1, <1>2 DEF Effect
<1> QED
  BY <1>7, <1>8

LEMMA DeletionWrites ==
    ASSUME Base, NEW p \in Requests, DeletionWrite(p), UNCHANGED handlers PROVE Frame(p) /\ Effect(p)
<1>1. /\ req[p].op = "delete_account" /\ End(p) /\ UNCHANGED <<member, groups, invited, deactivated>>
      /\ pending' = pending \cup {req[p].by} /\ req[p].by \in Users
  BY DEF DeletionWrite, At, Base, Sound
<1>2. RowsFree(p, {})
  BY DEF RowsFree
<1>3. Existing'
  BY <1>1 DEF Base, Existing
<1>4. Frame(p)
  BY <1>1, <1>2, <1>3, RowsKept DEF Frame, End, Base, Shape
<1> QED
  BY <1>1, <1>4 DEF Effect

\* The rows a transaction has locked are its own to write.
LEMMA OwnRowsFree ==
    ASSUME Base, NEW p \in Requests PROVE RowsFree(p, req[p].rows)
<1>1. ASSUME NEW q \in Requests \ {p}, NEW x \in req[q].rows \cap req[p].rows PROVE FALSE
  <2>1. req[q] \in Asked /\ Locks(p)
    BY DEF Base, Shape
  <2>2. PICK g \in Groups, u \in Users : x = <<g, u>>
    BY <1>1, <2>1 DEF Asked
  <2> QED
    BY <1>1, <2>1, <2>2 DEF Locks
<1> QED
  BY <1>1 DEF RowsFree

\* The heirs, committed: owners from among the members, and nothing else.
LEMMA HeirsCommit ==
    ASSUME Base, NEW p \in Requests
    PROVE  LET m == WithHeirs(req[p].heirs) IN
           /\ m \in [Groups -> [Users -> Roles \cup {"none"}]]
           /\ \A g \in Groups, u \in Users :
                 /\ m[g][u] = IF <<g, u>> \in req[p].heirs THEN "owner" ELSE member[g][u]
                 /\ <<g, u>> \notin req[p].rows => m[g][u] = member[g][u]
                 /\ member[g][u] = "none" => m[g][u] = "none"
<1>1. req[p].heirs \subseteq req[p].rows /\ \A g \in Groups, u \in Users : <<g, u>> \in req[p].rows => member[g][u] # "none"
  BY DEF Base, Locks
<1> QED
  BY <1>1 DEF WithHeirs, Base, Shape, Roles

LEMMA HandOutWrites ==
    ASSUME Base, NEW p \in Requests, ReactivateCommit(p) \/ DesignateCommit(p), UNCHANGED handlers
    PROVE  Frame(p) /\ Effect(p)
<1> DEFINE m == WithHeirs(req[p].heirs)
<1>1. /\ req[p].op \in {"reactivate_user", "designate_owner"} /\ End(p) /\ UNCHANGED <<groups, invited, pending>> /\ member' = m
      /\ deactivated' \subseteq deactivated /\ (req[p].op # "reactivate_user" => deactivated' = deactivated)
  BY DEF ReactivateCommit, DesignateCommit, At, accounts
<1>2. /\ m \in [Groups -> [Users -> Roles \cup {"none"}]]
      /\ \A g \in Groups, u \in Users :
            /\ m[g][u] = IF <<g, u>> \in req[p].heirs THEN "owner" ELSE member[g][u]
            /\ <<g, u>> \notin req[p].rows => m[g][u] = member[g][u]
            /\ member[g][u] = "none" => m[g][u] = "none"
  BY HeirsCommit
<1> HIDE DEF m
<1>3. Existing'
  BY <1>1, <1>2 DEF Base, Existing
<1>4. \A g \in Groups, u \in Users : <<g, u>> \notin req[p].rows => member'[g][u] = member[g][u]
  BY <1>1, <1>2
<1>5. Frame(p)
  BY <1>1, <1>2, <1>3, <1>4, OwnRowsFree, RowsKept DEF Frame, End, Base, Shape
<1>6. Effect(p)
  BY <1>1, <1>2 DEF Effect, TakesOver
<1> QED
  BY <1>5, <1>6

LEMMA PurgeWrites ==
    ASSUME InstanceAssumption, Base, NEW p \in Requests, PurgeCommit(p), UNCHANGED handlers PROVE Frame(p) /\ Effect(p)
<1> DEFINE r == req[p]
           m == WithHeirs(r.heirs)
           R == r.rows \cup (r.left \X Users)
<1>1. /\ r.op = "purge_account" /\ r.at = "delete" /\ End(p) /\ UNCHANGED <<deactivated, pending>> /\ RowsFree(p, r.left \X Users)
      /\ member' = [g \in Groups |-> [u \in Users |->
                       IF (<<g, u>> \in r.rows /\ u = r.by) \/ g \in r.left THEN "none" ELSE m[g][u]]]
      /\ groups' = groups \ r.left
      /\ invited' = [t \in Tokens |-> IF invited[t].g \in r.left \/ invited[t].by = r.by THEN NoInvitation ELSE invited[t]]
  BY DEF PurgeCommit, At
<1>2. /\ m \in [Groups -> [Users -> Roles \cup {"none"}]]
      /\ \A g \in Groups, u \in Users :
            /\ m[g][u] = IF <<g, u>> \in r.heirs THEN "owner" ELSE member[g][u]
            /\ <<g, u>> \notin r.rows => m[g][u] = member[g][u]
            /\ member[g][u] = "none" => m[g][u] = "none"
  BY HeirsCommit
<1>3. RowsFree(p, R)
  BY <1>1, OwnRowsFree DEF RowsFree
<1> HIDE DEF m
<1>4. /\ member' \in [Groups -> [Users -> Roles \cup {"none"}]]
      /\ \A g \in Groups, u \in Users : member'[g][u] = IF (<<g, u>> \in r.rows /\ u = r.by) \/ g \in r.left THEN "none" ELSE m[g][u]
  BY <1>1, <1>2
<1>5. NoInvitation \in [g : Groups \cup {NoGroup}, by : Users \cup {Nobody}]
  BY DEF NoInvitation
<1>6. /\ invited' \in [Tokens -> [g : Groups \cup {NoGroup}, by : Users \cup {Nobody}]]
      /\ \A t \in Tokens : invited'[t] = NoInvitation \/ (invited'[t] = invited[t] /\ invited[t].g \notin r.left)
  BY <1>1, <1>5 DEF Base, Shape
<1>7. Existing'
  <2>1. \A t \in Tokens : invited'[t] # NoInvitation => invited'[t].g \in groups'
    BY <1>1, <1>6 DEF Base, Existing
  <2>2. ASSUME NEW g \in Groups \ groups', NEW u \in Users PROVE member'[g][u] = "none"
    <3>1. g \in r.left \/ member[g][u] = "none"
      BY <1>1 DEF Base, Existing
    <3>2. g \in r.left \/ m[g][u] = "none"
      BY <1>2, <3>1
    <3>3. member'[g][u] = IF (<<g, u>> \in r.rows /\ u = r.by) \/ g \in r.left THEN "none" ELSE m[g][u]
      BY <1>4
    <3> QED
      BY <3>2, <3>3
  <2> QED
    BY <2>1, <2>2 DEF Existing
<1>8. \A g \in Groups, u \in Users : <<g, u>> \notin R => member'[g][u] = member[g][u]
  BY <1>2, <1>4
<1> HIDE DEF R
<1>9. \A q \in Requests \ {p} :
         /\ \A h \in Groups, v \in Users : <<h, v>> \in req[q].rows => member'[h][v] = member[h][v]
         /\ req[q].op = "create_group" => req[q].g \notin groups'
  BY <1>1, <1>3, <1>8, RowsKept
<1>10. Frame(p)
  <2>1. req' = [req EXCEPT ![p] = NoRequest] /\ UNCHANGED <<handlers, deactivated, pending>> /\ groups' \subseteq groups
    BY <1>1 DEF End
  <2>2. groups \subseteq Groups /\ deactivated \subseteq Users /\ pending \subseteq Users
    BY DEF Base, Shape
  <2> QED
    BY <1>4, <1>6, <1>7, <1>9, <2>1, <2>2 DEF Frame
<1>11. Effect(p)
  <2>1. groups' = groups \ r.left /\ r.op = "purge_account" /\ r.at = "delete" /\ UNCHANGED deactivated
    BY <1>1
  <2>2. groups \subseteq Groups
    BY DEF Base, Shape
  <2> QED
    BY <1>2, <1>4, <2>1, <2>2 DEF Effect, StepsDown, TakesOver
<1> QED
  BY <1>10, <1>11

\* The writes that end a request, in one.
Commits(p) == Writes(p) \/ PurgeCommit(p) \/ ReactivateCommit(p) \/ DesignateCommit(p)

LEMMA CommitFacts ==
    ASSUME InstanceAssumption, Base, NEW p \in Requests, Commits(p), UNCHANGED handlers
    PROVE  /\ Base' /\ Frame(p) /\ Effect(p)
           /\ req'[p] = NoRequest /\ \A q \in Requests \ {p} : req'[q] = req[q]
<1>1. Frame(p) /\ Effect(p)
  BY CreateWrites, InviteWrites, AcceptWrites, RoleWrites, TransferWrites, LeaveWrites, DeleteWrites, DeletionWrites,
     PurgeWrites, HandOutWrites DEF Commits, Writes
<1>2. Base'
  BY <1>1, WriteStep
<1>3. req'[p] = NoRequest /\ \A q \in Requests \ {p} : req'[q] = req[q]
  BY <1>1 DEF Frame, Base, Shape
<1> QED
  BY <1>1, <1>2, <1>3

\* The accounts' own steps.
LEMMA AccountFacts ==
    ASSUME Base, NEW u \in Users, deactivate_user(u) \/ cancel_delete_account(u), UNCHANGED handlers
    PROVE  Base' /\ UNCHANGED <<member, groups, req, handlers>> /\ deactivated \subseteq deactivated'
<1>1. UNCHANGED <<member, groups, invited, req, handlers>> /\ deactivated \subseteq deactivated' /\ deactivated' \subseteq Users /\ pending' \subseteq Users
  BY DEF deactivate_user, cancel_delete_account, Base, Shape
<1>2. Shape' /\ Existing'
  BY <1>1 DEF Base, Shape, Existing
<1>3. \A p \in Requests : (FreshGroup(p) /\ Sound(req[p]) /\ Locks(p))'
  BY <1>1 DEF Base, FreshGroup, Sound, Locks
<1> QED
  BY <1>1, <1>2, <1>3 DEF Base

\* The steps of the system, sorted.
LEMMA Steps ==
    ASSUME [GroupNext]_groupVars
    PROVE  \/ UNCHANGED groupVars
           \/ /\ UNCHANGED handlers
              /\ \/ \E p \in Requests :
                       \/ Looks(p) \/ Commits(p) \/ AssignHeir(p) \/ PurgeFindAbandoned(p)
                       \/ \E u \in Users : PurgeDeleteMemberships(p, u)
                       \/ \E g \in Groups : LockMembersStart(p, g)
                 \/ \E u \in Users : deactivate_user(u) \/ cancel_delete_account(u)
BY DEF GroupNext, Starts, Succession, Looks, Commits

-----------------------------------------------------------------------------
(* The base of the proofs below, and the first of them.                      *)

LEMMA BaseInit == ASSUME GroupInit PROVE Base
<1>1. NoRequest \in Asked /\ NoRequest.op = "none" /\ NoRequest.at = "end" /\ NoRequest.rows = {} /\ NoRequest.heirs = {}
  BY DEF NoRequest, Asked, Ops, Stages, Roles
<1>2. NoInvitation \in [g : Groups \cup {NoGroup}, by : Users \cup {Nobody}]
  BY DEF NoInvitation
<1>3. Shape
  BY <1>1, <1>2 DEF GroupInit, Shape
<1>4. Existing
  BY DEF GroupInit, Existing, Members
<1>5. \A p \in Requests : req[p] = NoRequest
  BY DEF GroupInit
<1> QED
  BY <1>1, <1>3, <1>4, <1>5 DEF Base, FreshGroup, Sound, Locks

LEMMA BaseNext == ASSUME InstanceAssumption, Base, [GroupNext]_groupVars PROVE Base'
<1>1. CASE UNCHANGED groupVars
  BY <1>1 DEF groupVars, Base, Shape, Existing, FreshGroup, Sound, Locks, NoInvitation
<1>2. ASSUME UNCHANGED handlers, NEW p \in Requests, Looks(p) PROVE Base'
  BY <1>2, LooksAreQuiet, QuietFacts
<1>3. ASSUME UNCHANGED handlers, NEW p \in Requests, Commits(p) PROVE Base'
  BY <1>3, CommitFacts
<1>4. ASSUME UNCHANGED handlers, NEW p \in Requests, AssignHeir(p) PROVE Base'
  BY <1>4, HeirAssigned
<1>5. ASSUME UNCHANGED handlers, NEW p \in Requests, PurgeFindAbandoned(p) PROVE Base'
  BY <1>5, AbandonedFound
<1>6. ASSUME UNCHANGED handlers, NEW p \in Requests, NEW u \in Users, PurgeDeleteMemberships(p, u) PROVE Base'
  BY <1>6, PurgeBegins
<1>7. ASSUME UNCHANGED handlers, NEW p \in Requests, NEW g \in Groups, LockMembersStart(p, g) PROVE Base'
  BY <1>7, LockBegins
<1>8. ASSUME UNCHANGED handlers, NEW u \in Users, deactivate_user(u) \/ cancel_delete_account(u) PROVE Base'
  BY <1>8, AccountFacts
<1> QED
  BY <1>1, <1>2, <1>3, <1>4, <1>5, <1>6, <1>7, <1>8, Steps

LEMMA BaseHolds == ASSUME InstanceAssumption PROVE GroupSpec => []Base
<1>1. GroupInit => Base
  BY BaseInit
<1>2. Base /\ [GroupNext]_groupVars => Base'
  BY BaseNext
<1> QED
  BY <1>1, <1>2, PTL DEF GroupSpec

\* accept_invitation: whoever joins a group by it takes an invitation of that group away.
LEMMA JoinTakesInvitation ==
    ASSUME Base, NEW p \in Requests, req[p].op = "accept_invitation", Commits(p),
           NEW g \in Groups, member[g] # member'[g]
    PROVE  \E t \in Tokens : invited[t].g = g /\ invited'[t] = NoInvitation
<1>1. PICK t \in Tokens : AcceptJoin(p, t)
  BY DEF Commits, Writes, CreateInsert, ChangeRoleWrite, RemoveMemberWrite, TransferWrite, LeaveWrite, DeleteWrite,
         DeletionWrite, InviteInsert, PurgeCommit, ReactivateCommit, DesignateCommit, At
<1> DEFINE h == req[p].g
           role == IF member[h][req[p].by] = "none" THEN "standard" ELSE member[h][req[p].by]
<1>2. \/ /\ invited[t].g = h /\ invited' = [invited EXCEPT ![t] = NoInvitation]
         /\ member' = [member EXCEPT ![h][req[p].by] = role]
      \/ member' = member
  BY <1>1 DEF AcceptJoin, StillInvited
<1> HIDE DEF h, role
<1>3. h = g /\ invited[t].g = h /\ invited' = [invited EXCEPT ![t] = NoInvitation]
  BY <1>2 DEF Base, Shape
<1>4. t \in DOMAIN invited
  BY DEF Base, Shape
<1> QED
  BY <1>3, <1>4

LEMMA AdmitsOne ==
    ASSUME InstanceAssumption, Base, [GroupNext]_groupVars, NEW p \in Requests, NEW g \in Groups,
           req[p].op = "accept_invitation", req'[p] = NoRequest, member[g] # member'[g]
    PROVE  \E t \in Tokens : invited[t].g = g /\ invited'[t] = NoInvitation
<1>1. NoRequest.op = "none"
  BY DEF NoRequest
<1>2. CASE UNCHANGED groupVars
  BY <1>2 DEF groupVars
<1>3. ASSUME UNCHANGED handlers, NEW q \in Requests, Looks(q) PROVE FALSE
  BY <1>3, LooksAreQuiet DEF QuietStep
<1>4. ASSUME UNCHANGED handlers, NEW q \in Requests, Commits(q) PROVE \E t \in Tokens : invited[t].g = g /\ invited'[t] = NoInvitation
  <2>1. q = p
    BY <1>1, <1>4, CommitFacts
  <2> QED
    BY <1>4, <2>1, JoinTakesInvitation
<1>5. ASSUME UNCHANGED handlers, NEW q \in Requests,
             \/ AssignHeir(q) \/ PurgeFindAbandoned(q)
             \/ \E u \in Users : PurgeDeleteMemberships(q, u)
             \/ \E h \in Groups : LockMembersStart(q, h)
      PROVE  FALSE
  BY <1>5 DEF AssignHeir, PurgeFindAbandoned, PurgeDeleteMemberships, LockMembersStart, OnlyReq
<1>6. ASSUME NEW u \in Users, deactivate_user(u) \/ cancel_delete_account(u) PROVE FALSE
  BY <1>6 DEF deactivate_user, cancel_delete_account
<1> QED
  BY <1>2, <1>3, <1>4, <1>5, <1>6, Steps

\* accept_invitation (groups/mod.rs) locks the invitation before it uses it: one token lets
\* in one account, whatever other requests do meanwhile.
THEOREM InvitationsAdmitOne == ASSUME InstanceAssumption PROVE GroupSpec => InvitationAdmitsOne
<1>1. Base /\ [GroupNext]_groupVars =>
         [\A p \in Requests, g \in Groups :
             (/\ req[p].op = "accept_invitation" /\ req'[p] = NoRequest
              /\ member[g] # member'[g])
             => \E t \in Tokens : invited[t].g = g /\ invited'[t] = NoInvitation]_groupVars
  BY AdmitsOne
<1> QED
  BY <1>1, BaseHolds, PTL DEF GroupSpec, InvitationAdmitsOne

-----------------------------------------------------------------------------
(* Groups keep their owner while nobody hands one over.                      *)

\* Nobody inherits, whoever has locked the members has the owner among them, and nobody is
\* about to demote or remove the owner.
InOffice(p) ==
    LET r == req[p] IN
    /\ r.heirs = {}
    /\ (r.at = "lock" /\ r.g \in groups /\ r.seen # {}) => \E o \in r.seen \cap Users : member[r.g][o] = "owner"
    /\ (r.op \in {"change_role", "remove_member"} /\ r.at = "write" /\ r.g \in Groups /\ r.on \in Users)
       => member[r.g][r.on] # "owner"
Owned == /\ \A g \in groups : Owners(member[g]) # {}
         /\ \A p \in Requests : InOffice(p)

LEMMA OwnedInit == ASSUME GroupInit PROVE Owned
<1>1. ASSUME NEW g \in groups PROVE Owners(member[g]) # {}
  <2>1. Cardinality(Owners(member[g])) = 1
    BY DEF GroupInit
  <2> QED
    BY <2>1, FS_EmptySet
<1>2. \A p \in Requests : req[p] = NoRequest
  BY DEF GroupInit
<1>3. NoRequest.heirs = {} /\ NoRequest.at = "end"
  BY DEF NoRequest
<1> QED
  BY <1>1, <1>2, <1>3 DEF Owned, InOffice

LEMMA Used == ASSUME Base PROVE \A p \in Requests : req[p].op \in handlers \cup {"none"}
BY DEF Base, Sound

LEMMA OwnedCommit ==
    ASSUME InstanceAssumption, Base, Owned, handlers \cap HandOvers = {}, UNCHANGED handlers, NEW p \in Requests, Commits(p)
    PROVE  Owned'
<1>1. /\ Base' /\ Frame(p) /\ Effect(p) /\ FreshGroup(p) /\ req'[p] = NoRequest
      /\ \A q \in Requests \ {p} : req'[q] = req[q]
  BY CommitFacts DEF Base
<1>2. req[p].op \notin HandOvers /\ InOffice(p)
  <2>1. req[p].op \in handlers \cup {"none"}
    BY Used
  <2> QED
    BY <2>1 DEF HandOvers, Owned
<1>3. ASSUME NEW g \in Groups, g \in groups', NEW u \in Users, member[g][u] = "owner" PROVE member'[g][u] = "owner"
  <2>1. member'[g][u] # "owner" => StepsDown(p, g, u)
    BY <1>1, <1>3 DEF Effect
  <2>2. ~StepsDown(p, g, u)
    BY <1>2, <1>3 DEF StepsDown, HandOvers, InOffice
  <2> QED
    BY <2>1, <2>2
<1>4. groups' \subseteq Groups /\ groups \subseteq Groups
  BY <1>1 DEF Frame, Base, Shape
<1>5. ASSUME NEW g \in groups' PROVE Owners(member'[g]) # {}
  <2>1. CASE g \notin groups
    BY <1>1, <2>1 DEF Effect
  <2>2. CASE g \in groups
    <3>1. PICK u \in Users : member[g][u] = "owner"
      BY <2>2 DEF Owned, Owners
    <3> QED
      BY <1>3, <1>4, <3>1 DEF Owners
  <2> QED
    BY <2>1, <2>2
<1>6. ASSUME NEW g \in groups' \ groups, NEW q \in Requests \ {p}, req[q].g = g PROVE Passive(req[q])
  BY <1>1, <1>6 DEF Effect, FreshGroup
<1>7. ASSUME NEW q \in Requests \ {p} PROVE InOffice(q)'
  <2>1. InOffice(q) /\ req'[q] = req[q]
    BY <1>1 DEF Owned
  <2>2. ASSUME req[q].at = "lock", req[q].g \in groups', req[q].seen # {}
        PROVE  \E o \in req[q].seen \cap Users : member'[req[q].g][o] = "owner"
    <3>1. req[q].g \in groups
      BY <1>6, <2>2 DEF Passive
    <3>2. PICK o \in req[q].seen \cap Users : member[req[q].g][o] = "owner"
      BY <2>1, <2>2, <3>1 DEF InOffice
    <3> QED
      BY <1>3, <1>4, <2>2, <3>2
  <2>3. ASSUME req[q].op \in {"change_role", "remove_member"}, req[q].at = "write", req[q].g \in Groups, req[q].on \in Users,
               member'[req[q].g][req[q].on] = "owner"
        PROVE  FALSE
    <3> DEFINE g == req[q].g
               u == req[q].on
    <3>1. member[g][u] # "owner"
      BY <2>1, <2>3 DEF InOffice
    <3>2. TakesOver(p, g, u)
      BY <1>1, <2>3, <3>1 DEF Effect
    <3>3. req[p].op = "create_group" /\ g \notin groups
      BY <1>2, <3>2 DEF TakesOver, HandOvers, InOffice
    <3>4. g \in groups'
      BY <1>1, <2>3 DEF Frame, Existing
    <3> QED
      BY <1>6, <2>3, <3>3, <3>4 DEF Passive, Successions
  <2> QED
    BY <2>1, <2>2, <2>3 DEF InOffice
<1>8. InOffice(p)'
  BY <1>1 DEF InOffice, NoRequest
<1> QED
  BY <1>5, <1>7, <1>8 DEF Owned

LEMMA OwnedAside ==
    ASSUME Owned, NEW p \in Requests, Aside(p), InOffice(p)' PROVE Owned'
<1>1. \A q \in Requests \ {p} : InOffice(q)'
  BY DEF Owned, InOffice, Aside
<1> QED
  BY <1>1 DEF Owned, Aside

LEMMA OwnedNext ==
    ASSUME InstanceAssumption, Base, Owned, handlers \cap HandOvers = {}, [GroupNext]_groupVars PROVE Owned'
<1>1. CASE UNCHANGED groupVars
  BY <1>1 DEF groupVars, Owned, InOffice
<1>2. ASSUME UNCHANGED handlers, NEW p \in Requests, Looks(p) PROVE Owned'
  <2>1. Aside(p) /\ Quiet(p, req'[p]) /\ InOffice(p) /\ UNCHANGED <<member, groups>>
    BY <1>2, LooksAreQuiet, QuietFacts DEF Aside, Owned
  <2>2. InOffice(p)'
    BY <2>1 DEF InOffice, Quiet
  <2> QED
    BY <2>1, <2>2, OwnedAside
<1>3. ASSUME UNCHANGED handlers, NEW p \in Requests, Commits(p) PROVE Owned'
  BY <1>3, OwnedCommit
<1>4. ASSUME UNCHANGED handlers, NEW p \in Requests, AssignHeir(p) PROVE Owned'
  <2> DEFINE q == req[p]
             r == req'[p]
             m == member[q.g]
  <2>1. /\ Aside(p) /\ q.at = "lock" /\ q.g \in Groups /\ r.op = q.op
        /\ r.at = "unique_violation" => Owners(m) \cap Now(p) = {} /\ Now(p) # {}
        /\ r.at # "unique_violation" =>
              /\ r.at = "hand"
              /\ \/ r.heirs = q.heirs
                 \/ Owners(m) \cap Now(p) = {} /\ Now(p) # {}
    BY <1>4, HeirAssigned
  <2>2. q.op \in Successions \ {"purge_account"} /\ InOffice(p)
    <3>1. q.op \in handlers \cup {"none"} /\ q.op \in Successions
      BY <2>1, Used DEF Base, Sound
    <3> QED
      BY <3>1 DEF Owned, HandOvers, Successions
  <2>3. Now(p) = {} \/ Owners(m) \cap Now(p) # {}
    <3>1. CASE q.g \notin groups
      BY <2>1, <3>1 DEF Now, Visible, Members, Base, Existing
    <3>2. CASE q.g \in groups /\ q.seen # {}
      <4>1. PICK o \in q.seen \cap Users : m[o] = "owner"
        BY <2>1, <2>2, <3>2 DEF InOffice
      <4>2. o \in Visible(p, q.g)
        BY <2>2, <4>1 DEF Visible, Members
      <4> QED
        BY <4>1, <4>2 DEF Now, Owners
    <3>3. CASE q.seen = {}
      BY <3>3 DEF Now
    <3> QED
      BY <3>1, <3>2, <3>3
  <2>4. r.at = "hand" /\ r.heirs = {} /\ r.op \in Successions
    BY <2>1, <2>2, <2>3 DEF InOffice
  <2>5. InOffice(p)'
    BY <2>4 DEF InOffice, Successions
  <2> QED
    BY <2>1, <2>5, OwnedAside
<1>5. ASSUME NEW p \in Requests, PurgeFindAbandoned(p) PROVE FALSE
  <2>1. req[p].op = "purge_account" /\ req[p].op \in handlers \cup {"none"}
    BY <1>5, Used DEF PurgeFindAbandoned, At
  <2> QED
    BY <2>1 DEF HandOvers
<1>6. ASSUME NEW p \in Requests, NEW u \in Users, PurgeDeleteMemberships(p, u) PROVE FALSE
  BY <1>6 DEF PurgeDeleteMemberships, Begin, HandOvers
<1>7. ASSUME UNCHANGED handlers, NEW p \in Requests, NEW g \in Groups, LockMembersStart(p, g) PROVE Owned'
  <2> DEFINE q == req[p]
             r == req'[p]
  <2>1. /\ Aside(p) /\ r.op = q.op /\ r.at = "lock" /\ r.g = g /\ r.seen = Visible(p, g) /\ r.heirs = q.heirs
        /\ q.op \in Successions
    BY <1>7, LockBegins
  <2>2. q.op # "purge_account" /\ InOffice(p)
    <3>1. q.op \in handlers \cup {"none"}
      BY Used
    <3> QED
      BY <3>1 DEF Owned, HandOvers
  <2>3. g \in groups => \E o \in Visible(p, g) \cap Users : member[g][o] = "owner"
    BY <2>2 DEF Owned, Owners, Visible, Members
  <2>4. InOffice(p)'
    BY <2>1, <2>2, <2>3 DEF InOffice, Aside, Successions
  <2> QED
    BY <2>1, <2>4, OwnedAside
<1>8. ASSUME UNCHANGED handlers, NEW u \in Users, deactivate_user(u) \/ cancel_delete_account(u) PROVE Owned'
  <2>1. UNCHANGED <<member, groups, req>>
    BY <1>8, AccountFacts
  <2> QED
    BY <2>1 DEF Owned, InOffice
<1> QED
  BY <1>1, <1>2, <1>3, <1>4, <1>5, <1>6, <1>7, <1>8, Steps

\* Members invited, promoted, demoted and removed by any number of requests at once never
\* cost a group its owner (groups/mod.rs), as long as the ownership is handed over by none.
THEOREM GroupsKeepTheirOwner == ASSUME InstanceAssumption PROVE GroupSpec => []GroupsAreOwned
<1> DEFINE Kept == handlers \cap HandOvers = {} => Owned
<1>1. GroupInit => Kept
  BY OwnedInit
<1>2. Base /\ Kept /\ [GroupNext]_groupVars => Kept'
  <2>1. [GroupNext]_groupVars => handlers' = handlers
    BY DEF GroupNext, groupVars
  <2> QED
    BY <2>1, OwnedNext
<1>3. Kept => GroupsAreOwned
  BY DEF GroupsAreOwned, Owned
<1> HIDE DEF Kept
<1> QED
  BY <1>1, <1>2, <1>3, BaseHolds, PTL DEF GroupSpec

-----------------------------------------------------------------------------
(* Successions do not collide while nobody joins.                            *)

\* Who has locked the members of a group still sees them all.
InSight(p) ==
    /\ req[p].at # "unique_violation"
    /\ req[p].at = "lock" => req[p].seen = {} \/ Visible(p, req[p].g) \subseteq req[p].seen
Seen == \A p \in Requests : InSight(p)

LEMMA SeenInit == ASSUME GroupInit PROVE Seen
<1>1. \A p \in Requests : req[p] = NoRequest
  BY DEF GroupInit
<1>2. NoRequest.at = "end"
  BY DEF NoRequest
<1> QED
  BY <1>1, <1>2 DEF Seen, InSight

LEMMA SeenAside ==
    ASSUME Seen, NEW p \in Requests, Aside(p), InSight(p)' PROVE Seen'
<1>1. \A q \in Requests \ {p} : InSight(q)'
  BY DEF Seen, InSight, Aside, Visible, Members
<1> QED
  BY <1>1 DEF Seen

LEMMA SeenCommit ==
    ASSUME InstanceAssumption, Base, Seen, "accept_invitation" \notin handlers, UNCHANGED handlers,
           NEW p \in Requests, Commits(p)
    PROVE  Seen'
<1>1. /\ Base' /\ Frame(p) /\ Effect(p) /\ FreshGroup(p) /\ req'[p] = NoRequest
      /\ \A q \in Requests \ {p} : req'[q] = req[q]
  BY CommitFacts DEF Base
<1>2. req[p].op # "accept_invitation"
  BY Used
<1>3. ASSUME NEW q \in Requests \ {p} PROVE InSight(q)'
  <2> DEFINE g == req[q].g
  <2>1. InSight(q) /\ req'[q] = req[q]
    BY <1>1 DEF Seen
  <2>2. ASSUME req[q].at = "lock", req[q].seen # {}, NEW u \in Visible(q, g)' PROVE u \in req[q].seen
    <3>1. g \in Groups /\ Visible(q, g) \subseteq req[q].seen
      BY <2>1, <2>2 DEF Base, Sound, InSight
    <3>2. u \in Users /\ member'[g][u] # "none" /\ (req[q].op = "purge_account" => u # req[q].by)
      BY <2>1, <2>2 DEF Visible, Members
    <3>3. CASE member[g][u] # "none"
      BY <3>1, <3>2, <3>3 DEF Visible, Members
    <3>4. CASE member[g][u] = "none"
      <4>1. req[p].op = "create_group" /\ g \notin groups
        BY <1>1, <1>2, <3>1, <3>2, <3>4 DEF Effect, Joins
      <4>2. g \in groups'
        BY <1>1, <3>1, <3>2 DEF Frame, Existing
      <4>3. Passive(req[q])
        BY <1>1, <4>1, <4>2 DEF Effect, FreshGroup
      <4> QED
        BY <2>2, <4>3 DEF Passive
    <3> QED
      BY <3>3, <3>4
  <2> QED
    BY <2>1, <2>2 DEF InSight
<1>4. InSight(p)'
  BY <1>1 DEF InSight, NoRequest
<1> QED
  BY <1>3, <1>4 DEF Seen

LEMMA SeenNext ==
    ASSUME InstanceAssumption, Base, Seen, "accept_invitation" \notin handlers, [GroupNext]_groupVars PROVE Seen'
<1>1. CASE UNCHANGED groupVars
  BY <1>1 DEF groupVars, Seen, InSight, Visible, Members
<1>2. ASSUME UNCHANGED handlers, NEW p \in Requests, Looks(p) PROVE Seen'
  <2>1. Aside(p) /\ Quiet(p, req'[p])
    BY <1>2, LooksAreQuiet, QuietFacts DEF Aside
  <2>2. InSight(p)'
    BY <2>1 DEF InSight, Quiet
  <2> QED
    BY <2>1, <2>2, SeenAside
<1>3. ASSUME UNCHANGED handlers, NEW p \in Requests, Commits(p) PROVE Seen'
  BY <1>3, SeenCommit
<1>4. ASSUME UNCHANGED handlers, NEW p \in Requests, AssignHeir(p) PROVE Seen'
  <2> DEFINE q == req[p]
             r == req'[p]
             m == member[q.g]
  <2>1. /\ Aside(p) /\ q.at = "lock"
        /\ r.at = "unique_violation" => Owners(m) \cap Now(p) = {} /\ Now(p) # {} /\ \E o \in Visible(p, q.g) : m[o] = "owner"
        /\ r.at # "unique_violation" => r.at = "hand"
    BY <1>4, HeirAssigned
  <2>2. r.at # "unique_violation"
    <3> SUFFICES ASSUME r.at = "unique_violation" PROVE FALSE
      OBVIOUS
    <3>1. Now(p) # {} /\ Owners(m) \cap Now(p) = {}
      BY <2>1
    <3>2. PICK o \in Visible(p, q.g) : m[o] = "owner"
      BY <2>1
    <3>3. q.seen # {} /\ InSight(p)
      BY <3>1 DEF Now, Seen
    <3>4. o \in Now(p) /\ o \in Users
      BY <2>1, <3>2, <3>3 DEF InSight, Now, Visible, Members
    <3> QED
      BY <3>1, <3>2, <3>4 DEF Owners
  <2>3. InSight(p)'
    BY <2>1, <2>2 DEF InSight
  <2> QED
    BY <2>1, <2>3, SeenAside
<1>5. ASSUME UNCHANGED handlers, NEW p \in Requests, PurgeFindAbandoned(p) PROVE Seen'
  <2>1. Aside(p) /\ req'[p].at = "delete"
    BY <1>5, AbandonedFound
  <2> QED
    BY <2>1, SeenAside DEF InSight
<1>6. ASSUME UNCHANGED handlers, NEW p \in Requests, NEW u \in Users, PurgeDeleteMemberships(p, u) PROVE Seen'
  <2>1. Aside(p) /\ req'[p].at = "hand"
    BY <1>6, PurgeBegins
  <2> QED
    BY <2>1, SeenAside DEF InSight
<1>7. ASSUME UNCHANGED handlers, NEW p \in Requests, NEW g \in Groups, LockMembersStart(p, g) PROVE Seen'
  <2>1. /\ Aside(p) /\ req'[p].op = req[p].op /\ req'[p].by = req[p].by /\ req'[p].at = "lock" /\ req'[p].g = g
        /\ req'[p].seen = Visible(p, g)
    BY <1>7, LockBegins
  <2>2. Visible(p, g)' = Visible(p, g)
    BY <2>1 DEF Visible, Members, Aside
  <2>3. InSight(p)'
    BY <2>1, <2>2 DEF InSight
  <2> QED
    BY <2>1, <2>3, SeenAside
<1>8. ASSUME UNCHANGED handlers, NEW u \in Users, deactivate_user(u) \/ cancel_delete_account(u) PROVE Seen'
  <2>1. UNCHANGED <<member, groups, req>>
    BY <1>8, AccountFacts
  <2> QED
    BY <2>1 DEF Seen, InSight, Visible, Members
<1> QED
  BY <1>1, <1>2, <1>3, <1>4, <1>5, <1>6, <1>7, <1>8, Steps

\* lock_members (groups/succession.rs): of the purge, the reactivations and the designations
\* that hand out a group at once, the one that waited finds the owner, and none fails on the
\* index, as long as nobody joins the group while they wait.
THEOREM SuccessionsDoNotCollide == ASSUME InstanceAssumption PROVE GroupSpec => []SuccessionNeverCollides
<1> DEFINE Kept == "accept_invitation" \notin handlers => Seen
<1>1. GroupInit => Kept
  BY SeenInit
<1>2. Base /\ Kept /\ [GroupNext]_groupVars => Kept'
  <2>1. [GroupNext]_groupVars => handlers' = handlers
    BY DEF GroupNext, groupVars
  <2> QED
    BY <2>1, SeenNext
<1>3. Kept => SuccessionNeverCollides
  BY DEF SuccessionNeverCollides, Seen, InSight
<1> HIDE DEF Kept
<1> QED
  BY <1>1, <1>2, <1>3, BaseHolds, PTL DEF GroupSpec

-----------------------------------------------------------------------------
(* A group the purge leaves without an owner has nobody to give it to.       *)

\* A group whose owner request p purges: still to be handed out, or handed to a member whose
\* row is locked, or without any other account that could have it.
Provided(p, g) ==
    LET r == req[p] IN
    \/ g \in r.todo
    \/ r.at = "lock" /\ r.g = g
    \/ \E h \in Users \ {r.by} : <<g, h>> \in r.rows /\ (member[g][h] = "owner" \/ <<g, h>> \in r.heirs)
    \/ Members(g) \ {r.by} \subseteq deactivated

\* A purge in progress; the members it waits for are all those of the group.
Orderly(p) ==
    LET r == req[p] IN
    r.op = "purge_account" =>
        /\ r.at \in {"hand", "lock", "delete"}
        /\ r.at = "lock" => /\ r.out \subseteq deactivated
                            /\ <<r.g, r.by>> \in r.rows => Visible(p, r.g) \subseteq r.seen
        /\ r.at = "delete" => r.todo = {}
        /\ \A g \in Groups : (<<g, r.by>> \in r.rows /\ member[g][r.by] = "owner") => Provided(p, g)

Dormant == /\ \A g \in groups : Owners(member[g]) = {} => Members(g) \subseteq deactivated
           /\ \A p \in Requests : Orderly(p)

LEMMA DormantInit == ASSUME GroupInit PROVE Dormant
<1>1. \A g \in groups : Owners(member[g]) # {}
  BY OwnedInit DEF Owned
<1>2. \A p \in Requests : req[p] = NoRequest
  BY DEF GroupInit
<1>3. NoRequest.op = "none"
  BY DEF NoRequest
<1> QED
  BY <1>1, <1>2, <1>3 DEF Dormant, Orderly

LEMMA DormantAside ==
    ASSUME Dormant, NEW p \in Requests, Aside(p), Orderly(p)' PROVE Dormant'
<1>1. \A q \in Requests \ {p} : Orderly(q)'
  BY DEF Dormant, Orderly, Provided, Aside, Visible, Members
<1> QED
  BY <1>1 DEF Dormant, Aside, Members

LEMMA DormantCommit ==
    ASSUME InstanceAssumption, Base, Dormant, handlers \cap Disturbs = {}, UNCHANGED handlers,
           NEW p \in Requests, Commits(p)
    PROVE  Dormant'
<1>1. /\ Base' /\ Frame(p) /\ Effect(p) /\ Locks(p) /\ req'[p] = NoRequest
      /\ \A q \in Requests \ {p} : req'[q] = req[q]
  BY CommitFacts DEF Base
<1>2. req[p].op \notin Disturbs /\ deactivated \subseteq deactivated' /\ Orderly(p)
  <2>1. req[p].op \in handlers \cup {"none"}
    BY Used
  <2>2. req[p].op \notin Disturbs
    BY <2>1 DEF Disturbs
  <2> QED
    BY <1>1, <2>2 DEF Disturbs, Effect, Dormant
<1>3. groups' \subseteq Groups /\ groups \subseteq Groups
  BY <1>1 DEF Frame, Base, Shape
<1>4. ASSUME NEW g \in groups, NEW u \in Users, member'[g][u] # "none" PROVE member[g][u] # "none"
  BY <1>1, <1>2, <1>3, <1>4 DEF Effect, Joins, Disturbs
<1>5. ASSUME NEW g \in groups', NEW u \in Users, member[g][u] = "owner", member'[g][u] # "owner"
      PROVE  req[p].op = "purge_account" /\ req[p].by = u /\ <<g, u>> \in req[p].rows
  <2>1. StepsDown(p, g, u)
    BY <1>1, <1>3, <1>5 DEF Effect
  <2> QED
    BY <1>2, <2>1 DEF StepsDown, Disturbs
<1>6. ASSUME NEW g \in groups', Owners(member'[g]) = {} PROVE Members(g)' \subseteq deactivated'
  <2>1. g \in groups
    BY <1>1, <1>6 DEF Effect
  <2>2. CASE Owners(member[g]) = {}
    <3>1. Members(g) \subseteq deactivated
      BY <2>1, <2>2 DEF Dormant
    <3> QED
      BY <1>2, <1>4, <2>1, <3>1 DEF Members
  <2>3. CASE Owners(member[g]) # {}
    <3>1. PICK o \in Users : member[g][o] = "owner"
      BY <2>3 DEF Owners
    <3>2. \A h \in Users : member'[g][h] # "owner"
      BY <1>6 DEF Owners
    <3>3. req[p].op = "purge_account" /\ req[p].by = o /\ <<g, o>> \in req[p].rows
      BY <1>5, <3>1, <3>2
    <3>4. req[p].at = "delete" /\ req[p].todo = {}
      BY <1>1, <1>2, <3>3 DEF Effect, Orderly
    <3>5. ASSUME NEW h \in Users \ {o}, member[g][h] = "owner" \/ <<g, h>> \in req[p].heirs PROVE FALSE
      <4>1. CASE member[g][h] = "owner"
        BY <1>5, <3>2, <3>3, <4>1
      <4>2. CASE <<g, h>> \in req[p].heirs
        BY <1>1, <3>2, <3>3, <4>2 DEF Effect
      <4> QED
        BY <3>5, <4>1, <4>2
    <3>6. Provided(p, g)
      BY <1>2, <1>3, <3>1, <3>3 DEF Orderly
    <3>7. Members(g) \ {o} \subseteq deactivated
      BY <3>3, <3>4, <3>5, <3>6 DEF Provided
    <3>8. member'[g][o] = "none"
      BY <1>1, <3>3 DEF Effect
    <3> QED
      BY <1>2, <1>4, <2>1, <3>7, <3>8 DEF Members
  <2> QED
    BY <2>2, <2>3
<1>7. ASSUME NEW q \in Requests \ {p}, req[q].op = "purge_account" PROVE Orderly(q)'
  <2> DEFINE r == req[q]
  <2>1. req'[q] = r /\ Orderly(q) /\ Locks(q) /\ r \in Asked
    BY <1>1 DEF Dormant, Base, Shape
  <2>2. ASSUME NEW g \in Groups, <<g, r.by>> \in r.rows
        PROVE  /\ r.by \in Users /\ member'[g][r.by] = member[g][r.by]
               /\ g \in groups /\ Members(g)' \subseteq Members(g)
    <3>1. r.by \in Users
      BY <2>1, <2>2 DEF Asked
    <3>2. member'[g][r.by] = member[g][r.by]
      BY <1>1, <2>2, <3>1 DEF Frame
    <3>3. g \in groups
      BY <2>1, <2>2, <3>1, MemberOfGroup DEF Locks
    <3> QED
      BY <1>4, <3>1, <3>2, <3>3 DEF Members
  <2>3. ASSUME NEW g \in Groups, <<g, r.by>> \in r.rows, member'[g][r.by] = "owner" PROVE Provided(q, g)'
    <3>1. Provided(q, g)
      BY <1>7, <2>1, <2>2, <2>3 DEF Orderly
    <3>2. CASE g \in r.todo \/ (r.at = "lock" /\ r.g = g)
      BY <2>1, <3>2 DEF Provided
    <3>3. CASE Members(g) \ {r.by} \subseteq deactivated
      <4>1. Members(g)' \ {r.by} \subseteq deactivated'
        BY <1>2, <2>2, <2>3, <3>3
      <4> QED
        BY <2>1, <4>1 DEF Provided
    <3>4. ASSUME NEW h \in Users \ {r.by}, <<g, h>> \in r.rows, member[g][h] = "owner" \/ <<g, h>> \in r.heirs
          PROVE  Provided(q, g)'
      <4>1. member'[g][h] = member[g][h]
        BY <1>1, <3>4 DEF Frame
      <4> QED
        BY <2>1, <3>4, <4>1 DEF Provided
    <3> QED
      BY <3>1, <3>2, <3>3, <3>4 DEF Provided
  <2>4. ASSUME r.at = "lock" PROVE r.out \subseteq deactivated' /\ (<<r.g, r.by>> \in r.rows => Visible(q, r.g)' \subseteq r.seen)
    <3>1. r.g \in Groups /\ r.out \subseteq deactivated /\ (<<r.g, r.by>> \in r.rows => Visible(q, r.g) \subseteq r.seen)
      BY <1>7, <2>1, <2>4 DEF Base, Sound, Orderly
    <3>2. <<r.g, r.by>> \in r.rows => Visible(q, r.g)' \subseteq Visible(q, r.g)
      BY <1>1, <2>2, <3>1 DEF Visible
    <3> QED
      BY <1>2, <3>1, <3>2
  <2> QED
    BY <1>7, <2>1, <2>3, <2>4 DEF Orderly
<1>8. \A q \in Requests : req'[q].op = "purge_account" => q # p /\ req[q].op = "purge_account"
  BY <1>1 DEF NoRequest
<1>9. \A q \in Requests : Orderly(q)'
  BY <1>7, <1>8 DEF Orderly
<1> QED
  BY <1>6, <1>9 DEF Dormant

LEMMA DormantHeir ==
    ASSUME Base, Dormant, UNCHANGED handlers, NEW p \in Requests, AssignHeir(p), InSight(p)'
    PROVE  Orderly(p)'
<1> DEFINE q == req[p]
           r == req'[p]
<1>1. /\ Aside(p) /\ q.at = "lock" /\ q.g \in Groups /\ r.op = q.op /\ r.by = q.by /\ r.todo = q.todo /\ r.g = q.g
      /\ r.rows = q.rows \cup {<<q.g, u>> : u \in Now(p)} /\ r.at = "hand"
      /\ \/ Owners(member[q.g]) \cap Now(p) # {} /\ r.heirs = q.heirs
         \/ (q.op # "designate_owner" => Now(p) \subseteq q.out) /\ r.heirs = q.heirs
         \/ \E heir \in Now(p) : r.heirs = q.heirs \cup {<<q.g, heir>>}
  BY HeirAssigned DEF InSight
<1>2. SUFFICES ASSUME q.op = "purge_account", NEW g \in Groups, <<g, q.by>> \in r.rows, member[g][q.by] = "owner"
               PROVE  Provided(p, g)'
  BY <1>1 DEF Orderly, Aside
<1>3. Now(p) \subseteq Users \ {q.by}
  BY <1>2 DEF Now, Visible, Members
<1>4. <<g, q.by>> \in q.rows /\ Orderly(p)
  BY <1>1, <1>2, <1>3 DEF Dormant
<1>5. Provided(p, g)
  BY <1>2, <1>4 DEF Orderly
<1>6. q.rows \subseteq r.rows /\ q.heirs \subseteq r.heirs /\ UNCHANGED <<member, deactivated>>
  BY <1>1 DEF Aside
<1>7. ASSUME NEW h \in Users \ {q.by}, <<g, h>> \in r.rows, member[g][h] = "owner" \/ <<g, h>> \in r.heirs
      PROVE  Provided(p, g)'
  BY <1>1, <1>6, <1>7 DEF Provided
<1>8. CASE g \in q.todo
  BY <1>1, <1>8 DEF Provided
<1>9. CASE Members(g) \ {q.by} \subseteq deactivated
  BY <1>1, <1>6, <1>9 DEF Provided, Members
<1>10. CASE q.g = g
  <2>1. CASE Owners(member[g]) \cap Now(p) # {}
    <3>1. PICK o \in Now(p) : member[g][o] = "owner"
      BY <2>1 DEF Owners
    <3>2. <<g, o>> \in r.rows
      BY <1>1, <1>10
    <3> QED
      BY <1>3, <1>7, <3>1, <3>2
  <2>2. CASE Now(p) \subseteq q.out
    <3>1. q.out \subseteq deactivated /\ Visible(p, g) \subseteq q.seen
      BY <1>1, <1>2, <1>4, <1>10 DEF Orderly
    <3>2. Members(g) \ {q.by} \subseteq deactivated
      BY <1>10, <2>2, <3>1 DEF Now, Visible
    <3> QED
      BY <1>9, <3>2
  <2>3. ASSUME NEW heir \in Now(p), r.heirs = q.heirs \cup {<<q.g, heir>>} PROVE Provided(p, g)'
    <3>1. heir \in Users \ {q.by} /\ <<g, heir>> \in r.rows /\ <<g, heir>> \in r.heirs
      BY <1>1, <1>3, <1>10, <2>3
    <3> QED
      BY <1>7, <3>1
  <2> QED
    BY <1>1, <1>2, <1>10, <2>1, <2>2, <2>3
<1>11. ASSUME NEW h \in Users \ {q.by}, <<g, h>> \in q.rows, member[g][h] = "owner" \/ <<g, h>> \in q.heirs
       PROVE  Provided(p, g)'
  BY <1>6, <1>7, <1>11
<1> QED
  BY <1>5, <1>8, <1>9, <1>10, <1>11 DEF Provided

LEMMA DormantNext ==
    ASSUME InstanceAssumption, Base, Seen', Dormant, handlers \cap Disturbs = {}, [GroupNext]_groupVars
    PROVE  Dormant'
<1>1. CASE UNCHANGED groupVars
  BY <1>1 DEF groupVars, Dormant, Orderly, Provided, Visible, Members
<1>2. ASSUME UNCHANGED handlers, NEW p \in Requests, Looks(p) PROVE Dormant'
  <2>1. Aside(p) /\ Quiet(p, req'[p])
    BY <1>2, LooksAreQuiet, QuietFacts DEF Aside
  <2>2. Orderly(p)'
    BY <2>1 DEF Orderly, Quiet
  <2> QED
    BY <2>1, <2>2, DormantAside
<1>3. ASSUME UNCHANGED handlers, NEW p \in Requests, Commits(p) PROVE Dormant'
  BY <1>3, DormantCommit
<1>4. ASSUME UNCHANGED handlers, NEW p \in Requests, AssignHeir(p) PROVE Dormant'
  <2>1. Aside(p) /\ InSight(p)'
    BY <1>4, HeirAssigned DEF Seen
  <2> QED
    BY <1>4, <2>1, DormantHeir, DormantAside
<1>5. ASSUME UNCHANGED handlers, NEW p \in Requests, PurgeFindAbandoned(p) PROVE Dormant'
  <2> DEFINE q == req[p]
             r == req'[p]
  <2>1. /\ Aside(p) /\ q.op = "purge_account" /\ q.at = "hand" /\ q.todo = {} /\ r.op = q.op /\ r.by = q.by
        /\ r.at = "delete" /\ r.todo = {} /\ r.rows = q.rows /\ r.heirs = q.heirs
    BY <1>5, AbandonedFound
  <2>2. Orderly(p)
    BY DEF Dormant
  <2>3. UNCHANGED <<member, deactivated>>
    BY <2>1 DEF Aside
  <2>4. Orderly(p)'
    BY <2>1, <2>2, <2>3 DEF Orderly, Provided, Members
  <2> QED
    BY <2>1, <2>4, DormantAside
<1>6. ASSUME UNCHANGED handlers, NEW p \in Requests, NEW u \in Users, PurgeDeleteMemberships(p, u) PROVE Dormant'
  <2>1. /\ Aside(p) /\ req'[p].at = "hand" /\ req'[p].by = u /\ req'[p].todo = {g \in Groups : member[g][u] = "owner"}
    BY <1>6, PurgeBegins
  <2>2. UNCHANGED <<member, deactivated>>
    BY <2>1 DEF Aside
  <2>3. Orderly(p)'
    BY <2>1, <2>2 DEF Orderly, Provided
  <2> QED
    BY <2>1, <2>3, DormantAside
<1>7. ASSUME UNCHANGED handlers, NEW p \in Requests, NEW g \in Groups, LockMembersStart(p, g) PROVE Dormant'
  <2> DEFINE q == req[p]
             r == req'[p]
  <2>1. /\ Aside(p) /\ q.at = "hand" /\ g \in q.todo /\ r.op = q.op /\ r.by = q.by /\ r.at = "lock" /\ r.g = g
        /\ r.todo = q.todo \ {g} /\ r.seen = Visible(p, g) /\ r.out \subseteq deactivated /\ r.rows = q.rows /\ r.heirs = q.heirs
    BY <1>7, LockBegins
  <2>2. Orderly(p)
    BY DEF Dormant
  <2>3. UNCHANGED <<member, deactivated>>
    BY <2>1 DEF Aside
  <2>4. Visible(p, g)' = Visible(p, g)
    BY <2>1, <2>3 DEF Visible, Members
  <2>5. ASSUME NEW h \in Groups, Provided(p, h) PROVE Provided(p, h)'
    BY <2>1, <2>3, <2>5 DEF Provided, Members
  <2>6. Orderly(p)'
    BY <2>1, <2>2, <2>3, <2>4, <2>5 DEF Orderly
  <2> QED
    BY <2>1, <2>6, DormantAside
<1>8. ASSUME UNCHANGED handlers, NEW u \in Users, deactivate_user(u) \/ cancel_delete_account(u) PROVE Dormant'
  <2>1. UNCHANGED <<member, groups, req>> /\ deactivated \subseteq deactivated'
    BY <1>8, AccountFacts
  <2>2. \A g \in groups : Owners(member[g]) = {} => Members(g) \subseteq deactivated
    BY DEF Dormant
  <2>3. \A g \in groups' : Owners(member'[g]) = {} => Members(g)' \subseteq deactivated'
    BY <2>1, <2>2 DEF Members
  <2>4. ASSUME NEW p \in Requests PROVE Orderly(p)'
    <3>1. Orderly(p)
      BY DEF Dormant
    <3>2. \A g \in Groups : Provided(p, g) => Provided(p, g)'
      BY <2>1 DEF Provided, Members
    <3>3. UNCHANGED Visible(p, req[p].g)
      BY <2>1 DEF Visible, Members
    <3> QED
      BY <2>1, <3>1, <3>2, <3>3 DEF Orderly
  <2> QED
    BY <2>3, <2>4 DEF Dormant
<1> QED
  BY <1>1, <1>2, <1>3, <1>4, <1>5, <1>6, <1>7, <1>8, Steps

\* purge_account (jobs/account_purge.rs) and assign_heir: a group that loses its owner to the
\* purge has only members whom support has deactivated, while the purges, designations and
\* deletion requests of any number of accounts run at once and groups come and go.
THEOREM OwnerlessGroupsAreDormant == ASSUME InstanceAssumption PROVE GroupSpec => []OwnerlessIsDormant
<1> DEFINE Kept == handlers \cap Disturbs = {} => Seen /\ Dormant
<1>1. GroupInit => Kept
  BY SeenInit, DormantInit
<1>2. Base /\ Kept /\ [GroupNext]_groupVars => Kept'
  <2>1. [GroupNext]_groupVars => handlers' = handlers
    BY DEF GroupNext, groupVars
  <2>2. handlers \cap Disturbs = {} => "accept_invitation" \notin handlers
    BY DEF Disturbs
  <2> QED
    BY <2>1, <2>2, SeenNext, DormantNext
<1>3. Kept => OwnerlessIsDormant
  BY DEF OwnerlessIsDormant, Dormant
<1> HIDE DEF Kept
<1> QED
  BY <1>1, <1>2, <1>3, BaseHolds, PTL DEF GroupSpec
=============================================================================
