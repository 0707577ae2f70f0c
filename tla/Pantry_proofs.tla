---------------------------- MODULE Pantry_proofs ----------------------------
(* That nothing is received twice, that a planning ends once, that no update  *)
(* of a line is lost and that outcomes do not wait for each other, in Pantry, *)
(* for every set of requests, lines, items and recipes.                       *)
EXTENDS Pantry, FiniteSetTheorems, SequenceTheorems, WellFoundedInduction, TLAPS

-----------------------------------------------------------------------------
(* The least of a set of numbers, and the last of a finite one.               *)

LEMMA LeastExists == ASSUME NEW S \in SUBSET Nat, S # {} PROVE \E m \in S : \A k \in S : m <= k
<1> DEFINE R == OpToRel(<, Nat)
<1>1. IsWellFoundedOn(R, Nat)
  BY NatLessThanWellFounded
<1>2. \A x, y \in Nat : <<x, y>> \in R <=> x < y
  BY DEF OpToRel
<1> HIDE DEF R
<1>3. PICK x \in S : \A y \in S : ~(<<y, x>> \in R)
  BY <1>1, WFMin
<1>4. ASSUME NEW k \in S PROVE x <= k
  <2>1. x \in Nat /\ k \in Nat /\ ~(k < x)
    BY <1>2, <1>3
  <2> QED
    BY <2>1
<1> QED
  BY <1>4

LEMMA MinIsLeast == ASSUME NEW S \in SUBSET Nat, S # {} PROVE Min(S) \in S /\ \A k \in S : Min(S) <= k
BY LeastExists DEF Min

LEMMA LastExists ==
    ASSUME NEW S, IsFiniteSet(S), S # {}, NEW f \in [S -> Nat]
    PROVE  \E x \in S : \A y \in S : f[y] <= f[x]
<1> SUFFICES ASSUME \A x \in S : \E y \in S : f[x] < f[y] PROVE FALSE
  OBVIOUS
\* The sizes of the subsets without a last: a smallest of them loses an element.
<1> DEFINE Endless(T) == T # {} /\ \A x \in T : \E y \in T : f[x] < f[y]
           sizes == {n \in Nat : \E T \in SUBSET S : Endless(T) /\ Cardinality(T) = n}
<1>1. Cardinality(S) \in sizes
  BY FS_CardinalityType
<1>2. PICK n \in sizes : \A k \in sizes : n <= k
  <2>1. sizes \in SUBSET Nat /\ sizes # {}
    BY <1>1
  <2> HIDE DEF sizes
  <2> QED
    BY <2>1, LeastExists
<1>3. PICK T \in SUBSET S : Endless(T) /\ Cardinality(T) = n
  OBVIOUS
<1>4. PICK x \in T : TRUE
  BY <1>3
<1> DEFINE U == {y \in T : f[x] < f[y]}
<1>5. U \in SUBSET S /\ Endless(U)
  <2>1. \A y \in S : f[y] \in Nat
    OBVIOUS
  <2>2. \A y \in U : \E z \in U : f[y] < f[z]
    BY <1>3, <2>1
  <2> QED
    BY <1>3, <1>4, <2>2
<1>6. IsFiniteSet(T) /\ U \in SUBSET (T \ {x})
  <2>1. ~(f[x] < f[x])
    OBVIOUS
  <2> QED
    BY <2>1, FS_Subset
<1> HIDE DEF U
<1>7. Cardinality(U) <= Cardinality(T \ {x}) /\ Cardinality(T \ {x}) = n - 1 /\ Cardinality(U) \in Nat
      /\ n \in Nat
  <2>1. IsFiniteSet(T \ {x}) /\ Cardinality(T \ {x}) = n - 1
    BY <1>3, <1>4, <1>6, FS_RemoveElement
  <2> QED
    BY <1>6, <2>1, FS_Subset, FS_CardinalityType
<1>8. Cardinality(U) \in sizes
  BY <1>5, <1>7
<1> HIDE DEF sizes
<1> QED
  BY <1>2, <1>7, <1>8

-----------------------------------------------------------------------------
(* What the requests are, and the inductive invariant.                        *)

Stocks == UNION {[D -> Line] : D \in SUBSET Lines}
Lot(S) == [1..1 -> S] \cup [1..2 -> S]

ReceiveReq == [op : {"receive"}, at : {"lot", "plan", "land"}, lot : Lot(Items), left : SUBSET Items,
               article : {<< >>} \cup Lot(Articles), target : {<< >>} \cup Lot(Lines),
               fresh : SUBSET Lines, k : Nat \ {0}, added : [Lines -> Nat]]
DoneReq == [op : {"done"}, at : {"selection", "recipe", "names", "lines"}, recipe : Recipes,
            removals : SUBSET Lines, others : SUBSET Lines, add : BOOLEAN, drops : SUBSET Articles,
            left : SUBSET Lines, rows : {<< >>} \cup [Articles -> Nat], read : {<< >>} \cup Stocks]
AbandonReq == [op : {"abandon"}, at : {"selection", "items"}, recipe : Recipes,
               remove : SUBSET Items, left : SUBSET Items, changed : BOOLEAN]
GenerateReq == [op : {"generate"}, at : {"insert"}, wanted : SUBSET (Articles \X Recipes)]
Request == ReceiveReq \cup DoneReq \cup AbandonReq \cup GenerateReq \cup {Idle}

Rows == ({"selection", "recipe"} \X Recipes) \cup ({"line"} \X Lines) \cup ({"item"} \X Items)

Shape == TypeOK /\ req \in [Requests -> Request] /\ holds \in [Requests -> SUBSET Rows]

\* No row is locked by two requests, and no line is inserted by two.
Exclusive == \A p, q \in Requests : p # q => holds[p] \cap holds[q] = {}
FreshApart ==
    \A p, q \in Requests : p # q /\ req[p] \in ReceiveReq /\ req[q] \in ReceiveReq
                           => req[p].fresh \cap req[q].fresh = {}

\* A reception: what it has locked is still on the list, and what it adds fits in lines it
\* holds or inserts.
LotHeld(p) ==
    LET r == req[p] IN
    \A k \in DOMAIN r.lot :
        /\ r.lot[k] \in DOMAIN list \cup spentItems
        /\ r.at = "lot" /\ r.lot[k] \notin r.left /\ r.lot[k] \in DOMAIN list
           => <<"item", r.lot[k]>> \in holds[p]
        /\ r.at # "lot" => r.lot[k] \in DOMAIN list /\ <<"item", r.lot[k]>> \in holds[p]
Planned(p) ==
    LET r == req[p] IN
    /\ r.at # "lot" => r.article \in Lot(Articles) /\ DOMAIN r.article = DOMAIN r.lot
    /\ r.at # "land" => r.fresh = {} /\ \A l \in Lines : r.added[l] = 0
    /\ r.at = "land" => r.target \in Lot(Lines) /\ DOMAIN r.target = DOMAIN r.lot
    /\ \A l \in r.fresh : /\ l \notin DOMAIN stock \cup spentLines
                          /\ \E k \in DOMAIN r.lot : r.target[k] = l
    /\ \A l \in Lines : r.added[l] > 0 =>
          \/ l \in r.fresh /\ r.added[l] <= MaxQuantity
          \/ /\ l \in DOMAIN stock /\ <<"line", l>> \in holds[p]
             /\ stock[l].quantity + r.added[l] <= MaxQuantity
ReceptionSound(p) == req[p] \in ReceiveReq => LotHeld(p) /\ Planned(p)

\* An outcome: past its selection it holds it, planned; what it read is what is there.
OutcomeSound(p) ==
    LET r == req[p] IN
    /\ r \in DoneReq \cup AbandonReq /\ r.at # "selection"
       => r.recipe \in planned /\ <<"selection", r.recipe>> \in holds[p]
    /\ r \in DoneReq /\ r.at # "lines" => r.read = << >>
    /\ r \in DoneReq /\ r.at = "lines" => r.rows \in [Articles -> Nat]
    /\ r \in DoneReq => \A l \in DOMAIN r.read :
          l \in DOMAIN stock /\ <<"line", l>> \in holds[p] /\ r.read[l] = stock[l]
    /\ r \in AbandonReq => \A i \in r.remove \ r.left : r.at = "items" /\ ~r.changed =>
          i \in DOMAIN list /\ <<"item", i>> \in holds[p]
    /\ r \in AbandonReq /\ r.at = "selection" => r.left = r.remove

\* Outcomes lock their selection, the recipe, then lines or items by id.
InOrder(p) ==
    LET r == req[p] IN
    /\ r \notin ReceiveReq /\ r.at \in {"idle", "selection", "insert"} => holds[p] = {}
    /\ r \in DoneReq =>
          holds[p] \subseteq SelectionRow(r.recipe)
                             \cup (IF r.at = "recipe" THEN {} ELSE RecipeRow(r.recipe))
                             \cup {<<"line", l>> : l \in {m \in Lines : r.at = "lines" /\ \A n \in r.left : m < n}}
    /\ r \in AbandonReq =>
          holds[p] \subseteq SelectionRow(r.recipe)
                             \cup {<<"item", i>> : i \in {m \in Items : \A n \in r.left : m < n}}

Sound(p) == ReceptionSound(p) /\ OutcomeSound(p) /\ InOrder(p)

\* The histories.
Counted ==
    /\ \A l \in Lines : l \notin DOMAIN stock \cup spentLines => due[l] = 0
    /\ \A i \in Items : gone[i] > 0 => i \in spentItems
    /\ NoUpdateLost /\ ReceivedOnce /\ PlanningEndsOnce

IInv == Shape /\ Exclusive /\ FreshApart /\ (\A p \in Requests : Sound(p)) /\ Counted

-----------------------------------------------------------------------------
(* Requests and frames.                                                       *)

LEMMA Kinds ==
    /\ \A r \in ReceiveReq : r \notin DoneReq /\ r \notin AbandonReq /\ r \notin GenerateReq /\ r # Idle
    /\ \A r \in DoneReq : r \notin ReceiveReq /\ r \notin AbandonReq /\ r \notin GenerateReq /\ r # Idle
    /\ \A r \in AbandonReq : r \notin DoneReq /\ r \notin ReceiveReq /\ r \notin GenerateReq /\ r # Idle
    /\ \A r \in GenerateReq : r \notin DoneReq /\ r \notin AbandonReq /\ r \notin ReceiveReq /\ r # Idle
    /\ Idle \notin ReceiveReq /\ Idle \notin DoneReq /\ Idle \notin AbandonReq /\ Idle.at = "idle"
<1>1. /\ \A r \in ReceiveReq : r.op = "receive" /\ r.at \in {"lot", "plan", "land"}
      /\ \A r \in DoneReq : r.op = "done" /\ r.at \in {"selection", "recipe", "names", "lines"}
      /\ \A r \in AbandonReq : r.op = "abandon" /\ r.at \in {"selection", "items"}
      /\ \A r \in GenerateReq : r.op = "generate" /\ r.at = "insert"
      /\ Idle.at = "idle"
  BY DEF ReceiveReq, DoneReq, AbandonReq, GenerateReq, Idle
<1> QED
  BY <1>1

LEMMA KindAt ==
    ASSUME NEW r \in Request
    PROVE  /\ r.at \in {"lot", "plan", "land"} => r \in ReceiveReq
           /\ r.at \in {"recipe", "names", "lines"} => r \in DoneReq
           /\ r.at = "selection" => r \in DoneReq \/ r \in AbandonReq
           /\ r.at = "items" => r \in AbandonReq
           /\ r.at = "insert" => r \in GenerateReq
           /\ r.at = "idle" => r = Idle
<1>1. /\ r \in ReceiveReq => r.at \in {"lot", "plan", "land"}
      /\ r \in DoneReq => r.at \in {"selection", "recipe", "names", "lines"}
      /\ r \in AbandonReq => r.at \in {"selection", "items"}
      /\ r \in GenerateReq => r.at = "insert"
      /\ Idle.at = "idle"
  BY DEF ReceiveReq, DoneReq, AbandonReq, GenerateReq, Idle
<1> QED
  BY <1>1 DEF Request

\* A request that ends, or has not begun, holds nothing to be sound about.
LEMMA IdleSound ==
    ASSUME NEW p \in Requests, req'[p] = Idle, holds'[p] = {} PROVE Sound(p)'
BY Kinds DEF Sound, ReceptionSound, OutcomeSound, InOrder

\* A step of one request that writes no table.
LEMMA RequestStep ==
    ASSUME IInv, UNCHANGED Tables, NEW p \in Requests, NEW r \in Request, NEW h \in SUBSET Rows,
           req' = [req EXCEPT ![p] = r], holds' = [holds EXCEPT ![p] = h],
           \A q \in Requests \ {p} : h \cap holds[q] = {},
           \A q \in Requests \ {p} : r \in ReceiveReq /\ req[q] \in ReceiveReq => r.fresh \cap req[q].fresh = {},
           Sound(p)'
    PROVE  IInv'
<1>1. /\ req'[p] = r /\ holds'[p] = h
      /\ \A q \in Requests \ {p} : req'[q] = req[q] /\ holds'[q] = holds[q]
  BY DEF IInv, Shape
<1>2. Shape'
  BY DEF IInv, Shape, TypeOK, Tables
<1>3. Exclusive' /\ FreshApart'
  BY <1>1 DEF IInv, Exclusive, FreshApart
<1>4. ASSUME NEW q \in Requests \ {p} PROVE Sound(q)'
  <2>1. Sound(q) /\ req'[q] = req[q] /\ holds'[q] = holds[q]
    BY <1>1 DEF IInv
  <2>2. ReceptionSound(q)'
    BY <2>1 DEF Sound, ReceptionSound, LotHeld, Planned, Tables
  <2>3. OutcomeSound(q)'
    BY <2>1 DEF Sound, OutcomeSound, Tables
  <2>4. InOrder(q)'
    BY <2>1 DEF Sound, InOrder
  <2> QED
    BY <2>2, <2>3, <2>4 DEF Sound
<1>5. Counted'
  BY DEF IInv, Counted, NoUpdateLost, ReceivedOnce, PlanningEndsOnce, Tables
<1> QED
  BY <1>2, <1>3, <1>4, <1>5 DEF IInv

LEMMA EndStep ==
    ASSUME IInv, UNCHANGED Tables, NEW p \in Requests, End(p) PROVE IInv'
<1>1. req' = [req EXCEPT ![p] = Idle] /\ holds' = [holds EXCEPT ![p] = {}]
  BY DEF End
<1>2. req'[p] = Idle /\ holds'[p] = {}
  BY <1>1 DEF IInv, Shape
<1>3. Idle \in Request /\ Idle \notin ReceiveReq /\ {} \in SUBSET Rows
  BY Kinds DEF Request
<1> QED
  BY <1>1, <1>2, <1>3, IdleSound, RequestStep

LEMMA LockStep ==
    ASSUME IInv, UNCHANGED Tables, NEW p \in Requests, NEW r \in Request, NEW rows \in SUBSET Rows,
           Step(p, r, rows), \A q \in Requests \ {p} : rows \cap holds[q] = {},
           r \in ReceiveReq /\ r.fresh # {} => req[p] \in ReceiveReq /\ r.fresh = req[p].fresh,
           Sound(p)'
    PROVE  IInv'
<1> DEFINE h == holds[p] \cup rows
<1>1. req' = [req EXCEPT ![p] = r] /\ holds' = [holds EXCEPT ![p] = h]
  BY DEF Step
<1>2. h \in SUBSET Rows /\ \A q \in Requests \ {p} : h \cap holds[q] = {}
  BY DEF IInv, Shape, Exclusive
<1>3. \A q \in Requests \ {p} : r \in ReceiveReq /\ req[q] \in ReceiveReq => r.fresh \cap req[q].fresh = {}
  BY DEF IInv, FreshApart
<1> HIDE DEF h
<1> QED
  BY <1>1, <1>2, <1>3, RequestStep

LEMMA StepEffect ==
    ASSUME IInv, NEW p \in Requests, NEW r, NEW rows, Step(p, r, rows)
    PROVE  req'[p] = r /\ holds'[p] = holds[p] \cup rows
BY DEF Step, IInv, Shape

\* No other has what a request that is not blocked asks for.
LEMMA NotBlocked ==
    ASSUME NEW p \in Requests, Blockers(p) = {}
    PROVE  \A q \in Requests \ {p} : Wanted(req[p]) \cap holds[q] = {}
BY DEF Blockers

LEMMA LotFacts ==
    ASSUME NEW S, NEW f \in Lot(S)
    PROVE  /\ DOMAIN f \subseteq Nat \ {0} /\ \A k \in DOMAIN f : f[k] \in S
           /\ Len(f) \in Nat /\ \A k \in Nat \ {0} : k <= Len(f) => k \in DOMAIN f
<1>1. \E n \in Nat : f \in [1..n -> S]
  <2>1. CASE f \in [1..1 -> S]
    BY <2>1
  <2>2. CASE f \in [1..2 -> S]
    BY <2>2
  <2> QED
    BY <2>1, <2>2 DEF Lot
<1>2. f \in Seq(S)
  BY <1>1, SeqDef
<1>3. Len(f) \in Nat /\ DOMAIN f = 1..Len(f)
  BY <1>2, LenProperties
<1> QED
  BY <1>1, <1>3

-----------------------------------------------------------------------------
(* The steps of a reception.                                                  *)

LEMMA StartReceiveStep == ASSUME IInv, NEW p \in Requests, StartReceive(p) PROVE IInv'
<1>1. PICK lot \in Lots :
        Step(p, [op |-> "receive", at |-> "lot", lot |-> lot, left |-> {lot[k] : k \in DOMAIN lot},
                 article |-> << >>, target |-> << >>, fresh |-> {}, k |-> 1,
                 added |-> [l \in Lines |-> 0]], {})
  BY DEF StartReceive
<1> DEFINE r == [op |-> "receive", at |-> "lot", lot |-> lot, left |-> {lot[k] : k \in DOMAIN lot},
                 article |-> << >>, target |-> << >>, fresh |-> {}, k |-> 1,
                 added |-> [l \in Lines |-> 0]]
<1>0. UNCHANGED Tables /\ DOMAIN list \subseteq Items
  BY DEF StartReceive, IInv, Shape, TypeOK
<1>2. lot \in Lot(DOMAIN list) /\ lot \in Lot(Items)
  <2>1. PICK n \in 1..2 : lot \in [1..n -> DOMAIN list]
    BY DEF Lots
  <2>2. n = 1 \/ n = 2
    OBVIOUS
  <2> QED
    BY <1>0, <2>1, <2>2 DEF Lot
<1>3. \A k \in DOMAIN lot : lot[k] \in DOMAIN list /\ lot[k] \in Items
  BY <1>2, LotFacts
<1>4. r \in ReceiveReq
  BY <1>2, <1>3 DEF ReceiveReq
<1>5. r.at = "lot" /\ r.lot = lot /\ r.left = {lot[k] : k \in DOMAIN lot} /\ r.fresh = {}
      /\ \A l \in Lines : r.added[l] = 0
  OBVIOUS
<1>6. Step(p, r, {})
  BY <1>1
<1> HIDE DEF r
<1>7. req'[p] = r
  BY <1>6, StepEffect
<1>8. Sound(p)'
  <2>1. LotHeld(p)'
    BY <1>0, <1>3, <1>5, <1>7 DEF LotHeld, Tables
  <2>2. Planned(p)'
    BY <1>5, <1>7 DEF Planned
  <2>3. OutcomeSound(p)' /\ InOrder(p)'
    BY <1>4, <1>7, Kinds DEF OutcomeSound, InOrder
  <2> QED
    BY <2>1, <2>2, <2>3 DEF Sound, ReceptionSound
<1>9. r \in Request /\ {} \in SUBSET Rows
  BY <1>4 DEF Request
<1> QED
  BY <1>0, <1>5, <1>6, <1>8, <1>9, LockStep

LEMMA LockLotStep == ASSUME IInv, NEW p \in Requests, LockLot(p) PROVE IInv'
<1> DEFINE r == req[p]
           ids == {r.lot[k] : k \in DOMAIN r.lot}
<1>1. r.at = "lot" /\ UNCHANGED Tables /\ r \in Request
  BY DEF LockLot, IInv, Shape
<1>2. r \in ReceiveReq /\ LotHeld(p) /\ Planned(p) /\ DOMAIN list \subseteq Items
  BY <1>1, KindAt DEF IInv, Sound, ReceptionSound, Shape, TypeOK
<1>3. /\ r.fresh = {} /\ (\A l \in Lines : r.added[l] = 0)
      /\ r.lot \in Lot(Items) /\ r.left \subseteq Items
  BY <1>1, <1>2 DEF Planned, ReceiveReq
<1>4. \A k \in DOMAIN r.lot : /\ r.lot[k] \in Items /\ r.lot[k] \in DOMAIN list \cup spentItems
                              /\ r.lot[k] \notin r.left /\ r.lot[k] \in DOMAIN list
                                 => <<"item", r.lot[k]>> \in holds[p]
  BY <1>1, <1>2, <1>3, LotFacts DEF LotHeld
<1>5. ASSUME NEW i \in r.left, Free(ItemRow(i)),
             Step(p, [r EXCEPT !.left = @ \ {i}], IF i \in DOMAIN list THEN ItemRow(i) ELSE {})
      PROVE  IInv'
  <2> DEFINE s == [r EXCEPT !.left = @ \ {i}]
             rows == IF i \in DOMAIN list THEN ItemRow(i) ELSE {}
  <2>1. s \in ReceiveReq /\ s.at = "lot" /\ s.lot = r.lot /\ s.left = r.left \ {i} /\ s.fresh = {}
        /\ s.added = r.added
    BY <1>1, <1>2, <1>3 DEF ReceiveReq
  <2>2. rows \in SUBSET Rows /\ \A q \in Requests \ {p} : rows \cap holds[q] = {}
    BY <1>3, <1>5 DEF ItemRow, Rows, Free
  <2>3. Step(p, s, rows)
    BY <1>5
  <2>4. i \in DOMAIN list => <<"item", i>> \in rows
    BY DEF ItemRow
  <2> HIDE DEF s, rows, r
  <2>5. req'[p] = s /\ holds'[p] = holds[p] \cup rows
    BY <2>3, StepEffect
  <2>6. LotHeld(p)'
    BY <1>1, <1>4, <2>1, <2>4, <2>5 DEF LotHeld, Tables
  <2>7. Planned(p)'
    BY <1>3, <2>1, <2>5 DEF Planned
  <2>8. OutcomeSound(p)' /\ InOrder(p)'
    BY <2>1, <2>5, Kinds DEF OutcomeSound, InOrder
  <2>9. s \in Request
    BY <2>1 DEF Request
  <2> QED
    BY <1>1, <2>1, <2>2, <2>3, <2>6, <2>7, <2>8, <2>9, LockStep DEF Sound, ReceptionSound
<1>6. ASSUME r.left = {}, ids \subseteq DOMAIN list,
             Step(p, [r EXCEPT !.at = "plan",
                               !.article = [k \in DOMAIN r.lot |-> list[r.lot[k]].article]], {})
      PROVE  IInv'
  <2> DEFINE article == [k \in DOMAIN r.lot |-> list[r.lot[k]].article]
             s == [r EXCEPT !.at = "plan", !.article = article]
  <2>1. article \in Lot(Articles) /\ DOMAIN article = DOMAIN r.lot
    <3>1. \A k \in DOMAIN r.lot : list[r.lot[k]].article \in Articles
      <4>1. list \in [DOMAIN list -> Item]
        BY DEF IInv, Shape, TypeOK
      <4> QED
        BY <1>6, <4>1 DEF Item
    <3> QED
      BY <1>3, <3>1 DEF Lot
  <2>2. Step(p, s, {})
    BY <1>6
  <2> HIDE DEF article
  <2>3. s \in ReceiveReq /\ s.at = "plan" /\ s.lot = r.lot /\ s.fresh = {} /\ s.added = r.added
        /\ s.article = article
    BY <1>2, <1>3, <2>1 DEF ReceiveReq
  <2>4. \A k \in DOMAIN r.lot : r.lot[k] \in DOMAIN list /\ <<"item", r.lot[k]>> \in holds[p]
    BY <1>4, <1>6
  <2> HIDE DEF s, r
  <2>5. req'[p] = s /\ holds'[p] = holds[p]
    BY <2>2, StepEffect
  <2>6. LotHeld(p)'
    BY <1>1, <2>3, <2>4, <2>5 DEF LotHeld, Tables
  <2>7. Planned(p)'
    BY <1>3, <2>1, <2>3, <2>5 DEF Planned
  <2>8. OutcomeSound(p)' /\ InOrder(p)'
    BY <2>3, <2>5, Kinds DEF OutcomeSound, InOrder
  <2>9. s \in Request /\ {} \in SUBSET Rows
    BY <2>3 DEF Request
  <2> QED
    BY <1>1, <2>2, <2>3, <2>6, <2>7, <2>8, <2>9, LockStep DEF Sound, ReceptionSound
<1> QED
  BY <1>1, <1>5, <1>6, EndStep DEF LockLot

PlannedReq(r, t, fresh) == [r EXCEPT !.at = "land", !.target = t, !.fresh = fresh]

LEMMA PlannedRequest ==
    ASSUME NEW r \in ReceiveReq, NEW t \in Lot(Lines), NEW fresh \in SUBSET Lines,
           NEW s, s = PlannedReq(r, t, fresh)
    PROVE  /\ s \in ReceiveReq /\ s.at = "land" /\ s.lot = r.lot /\ s.fresh = fresh
           /\ s.added = r.added /\ s.article = r.article /\ s.target = t
BY DEF ReceiveReq, PlannedReq

LEMMA PlanReceptionStep == ASSUME IInv, NEW p \in Requests, PlanReception(p) PROVE IInv'
<1> DEFINE r == req[p]
<1>1. r.at = "plan" /\ UNCHANGED Tables /\ r \in Request
  BY DEF PlanReception, IInv, Shape
<1>2. r \in ReceiveReq /\ LotHeld(p) /\ Planned(p) /\ DOMAIN stock \subseteq Lines
  BY <1>1, KindAt DEF IInv, Sound, ReceptionSound, Shape, TypeOK
<1>3. PICK t \in Targets(r) :
        Step(p, [r EXCEPT !.at = "land", !.target = t,
                          !.fresh = {t[k] : k \in DOMAIN t} \ DOMAIN stock], {})
  BY DEF PlanReception
<1>4. /\ \A l \in Lines : r.added[l] = 0
      /\ r.lot \in Lot(Items) /\ r.article \in Lot(Articles) /\ DOMAIN r.article = DOMAIN r.lot
  BY <1>1, <1>2 DEF Planned, ReceiveReq
<1>5. t \in [DOMAIN r.lot -> DOMAIN stock \cup NewLines]
  BY DEF Targets
<1>6. t \in Lot(Lines) /\ DOMAIN t = DOMAIN r.lot
  BY <1>2, <1>4, <1>5 DEF Lot, NewLines
<1> DEFINE fresh == {t[k] : k \in DOMAIN t} \ DOMAIN stock
           s == PlannedReq(r, t, fresh)
<1>7. fresh \subseteq NewLines /\ fresh \subseteq Lines /\ \A l \in fresh : \E k \in DOMAIN r.lot : t[k] = l
  BY <1>2, <1>5 DEF NewLines
<1>8. Step(p, s, {})
  BY <1>3 DEF PlannedReq
<1> HIDE DEF fresh
<1>f. fresh \in SUBSET Lines
  BY <1>7
<1>9. /\ s \in ReceiveReq /\ s.at = "land" /\ s.lot = r.lot /\ s.fresh = fresh /\ s.added = r.added
      /\ s.article = r.article /\ s.target = t
  <2>1. r \in ReceiveReq /\ t \in Lot(Lines)
    BY <1>2, <1>6
  <2> HIDE DEF r
  <2> QED
    BY <1>f, <2>1, PlannedRequest
<1> HIDE DEF s
<1>10. req'[p] = s /\ holds'[p] = holds[p]
  <2>1. req'[p] = s /\ holds'[p] = holds[p] \cup {}
    BY <1>8, StepEffect
  <2> QED
    BY <2>1
<1>11. LotHeld(p)'
  BY <1>1, <1>2, <1>9, <1>10 DEF LotHeld, Tables
<1>12. Planned(p)'
  <2>1. \A l \in fresh : l \notin DOMAIN stock \cup spentLines
    BY <1>7 DEF NewLines
  <2> QED
    BY <1>1, <1>4, <1>6, <1>7, <1>9, <1>10, <2>1 DEF Planned, Tables
<1>13. OutcomeSound(p)' /\ InOrder(p)'
  BY <1>9, <1>10, Kinds DEF OutcomeSound, InOrder
<1>14. \A q \in Requests \ {p} : req[q] \in ReceiveReq => s.fresh \cap req[q].fresh = {}
  <2>1. \A q \in Requests : req[q] \in ReceiveReq => req[q].fresh \subseteq Fresh
    <3> TAKE q \in Requests
    <3>1. req[q] \in ReceiveReq => req[q].at # "idle" /\ req[q].op = "receive"
      BY DEF ReceiveReq
    <3> QED
      BY <3>1 DEF Fresh
  <2> QED
    BY <1>7, <1>9, <2>1 DEF NewLines
<1>15. req' = [req EXCEPT ![p] = s] /\ holds' = [holds EXCEPT ![p] = holds[p]]
  BY <1>8 DEF Step
<1>16. s \in Request /\ holds[p] \in SUBSET Rows /\ \A q \in Requests \ {p} : holds[p] \cap holds[q] = {}
  BY <1>9 DEF Request, IInv, Shape, Exclusive
<1> QED
  BY <1>1, <1>11, <1>12, <1>13, <1>14, <1>15, <1>16, RequestStep DEF Sound, ReceptionSound

LEMMA NotFull == ASSUME NEW a \in Nat, NEW m \in Nat, ~(0 + a >= m) PROVE a + 1 <= m
OBVIOUS

LEMMA LandStep == ASSUME PantryAssumption, IInv, NEW p \in Requests, Land(p) PROVE IInv'
<1> DEFINE r == req[p]
           t == r.target[r.k]
           held == IF t \in DOMAIN stock THEN stock[t].quantity ELSE 0
           refused == t \notin r.fresh \cup DOMAIN stock \/ held + r.added[t] >= MaxQuantity
<1>1. r.at = "land" /\ r.k <= Len(r.lot) /\ UNCHANGED Tables /\ r \in Request /\ Blockers(p) = {}
  BY DEF Land, IInv, Shape
<1>2. r \in ReceiveReq /\ LotHeld(p) /\ Planned(p) /\ DOMAIN stock \subseteq Lines
      /\ stock \in [DOMAIN stock -> Line] /\ MaxQuantity \in Nat
  BY <1>1, KindAt DEF IInv, Sound, ReceptionSound, Shape, TypeOK, PantryAssumption
<1>3. /\ r.lot \in Lot(Items) /\ r.article \in Lot(Articles) /\ DOMAIN r.article = DOMAIN r.lot
      /\ r.target \in Lot(Lines) /\ DOMAIN r.target = DOMAIN r.lot /\ r.k \in Nat \ {0}
      /\ r.added \in [Lines -> Nat]
  BY <1>1, <1>2 DEF Planned, ReceiveReq
<1>4. t \in Lines /\ r.added[t] \in Nat
  <2>1. r.k \in DOMAIN r.target
    BY <1>1, <1>3, LotFacts
  <2> QED
    BY <1>3, <2>1, LotFacts
<1>5. CASE refused /\ End(p)
  BY <1>1, <1>5, EndStep
<1>6. ASSUME ~refused,
             Step(p, [r EXCEPT !.k = @ + 1, !.added[t] = @ + 1], IF t \in r.fresh THEN {} ELSE LineRow(t))
      PROVE  IInv'
  <2> DEFINE added == [r.added EXCEPT ![t] = @ + 1]
             s == [r EXCEPT !.k = @ + 1, !.added = added]
             rows == IF t \in r.fresh THEN {} ELSE LineRow(t)
  <2>1. Step(p, s, rows)
    BY <1>6
  <2>2. rows \in SUBSET Rows /\ \A q \in Requests \ {p} : rows \cap holds[q] = {}
    <3>1. t \notin r.fresh => Wanted(r) = LineRow(t)
      BY <1>1 DEF Wanted
    <3> QED
      BY <1>1, <1>4, <3>1, NotBlocked DEF LineRow, Rows
  <2>3. added \in [Lines -> Nat] /\ added[t] = r.added[t] + 1
        /\ \A l \in Lines \ {t} : added[l] = r.added[l]
    BY <1>3, <1>4
  <2>4. \/ t \in r.fresh /\ added[t] <= MaxQuantity
        \/ t \in DOMAIN stock /\ <<"line", t>> \in rows /\ stock[t].quantity + added[t] <= MaxQuantity
    <3>1. CASE t \in r.fresh
      <4>1. t \notin DOMAIN stock
        BY <1>2, <3>1 DEF Planned
      <4>2. ~(0 + r.added[t] >= MaxQuantity)
        BY <1>6, <4>1
      <4> HIDE DEF r, t, added
      <4>3. r.added[t] + 1 <= MaxQuantity
        <5>1. MaxQuantity \in Nat /\ r.added[t] \in Nat
          BY <1>2, <1>4
        <5> QED
          BY <4>2, <5>1, NotFull
      <4> QED
        BY <2>3, <3>1, <4>3
    <3>2. CASE t \notin r.fresh
      <4>1. t \in DOMAIN stock /\ ~(stock[t].quantity + r.added[t] >= MaxQuantity)
        BY <1>6, <3>2
      <4>2. stock[t].quantity \in Nat
        BY <1>2, <4>1 DEF Line
      <4> QED
        BY <1>2, <1>4, <2>3, <3>2, <4>1, <4>2 DEF LineRow
    <3> QED
      BY <3>1, <3>2
  <2>a. r.k + 1 \in Nat \ {0}
    BY <1>3
  <2> HIDE DEF added
  <2>5. /\ s \in ReceiveReq /\ s.at = "land" /\ s.lot = r.lot /\ s.fresh = r.fresh /\ s.added = added
        /\ s.article = r.article /\ s.target = r.target
    <3> HIDE DEF r
    <3> QED
      BY <1>1, <1>2, <2>3, <2>a DEF ReceiveReq
  <2> HIDE DEF s, rows, t, refused, held
  <2>6. req'[p] = s /\ holds'[p] = holds[p] \cup rows
    BY <2>1, StepEffect
  <2>7. LotHeld(p)'
    BY <1>1, <1>2, <2>5, <2>6 DEF LotHeld, Tables
  <2>8. Planned(p)'
    <3>1. ASSUME NEW l \in Lines, added[l] > 0
          PROVE  \/ l \in r.fresh /\ added[l] <= MaxQuantity
                 \/ l \in DOMAIN stock /\ <<"line", l>> \in holds[p] \cup rows
                    /\ stock[l].quantity + added[l] <= MaxQuantity
      BY <1>2, <2>3, <2>4, <3>1 DEF Planned
    <3> QED
      BY <1>1, <1>2, <1>3, <2>5, <2>6, <3>1 DEF Planned, Tables
  <2>9. OutcomeSound(p)' /\ InOrder(p)'
    BY <2>5, <2>6, Kinds DEF OutcomeSound, InOrder
  <2>10. s \in Request
    BY <2>5 DEF Request
  <2> QED
    BY <1>1, <1>2, <2>1, <2>2, <2>5, <2>7, <2>8, <2>9, <2>10, LockStep DEF Sound, ReceptionSound
<1> QED
  BY <1>5, <1>6 DEF Land

-----------------------------------------------------------------------------
(* The steps of an outcome and of a generation.                               *)

LEMMA OutcomeStep ==
    ASSUME IInv, UNCHANGED Tables, NEW p \in Requests, NEW r, r \in DoneReq \cup AbandonReq \cup GenerateReq,
           NEW rows \in SUBSET Rows, Step(p, r, rows), \A q \in Requests \ {p} : rows \cap holds[q] = {},
           OutcomeSound(p)', InOrder(p)'
    PROVE  IInv'
<1>1. r \in Request /\ r \notin ReceiveReq
  BY Kinds DEF Request
<1>2. req'[p] = r
  BY StepEffect
<1>3. Sound(p)'
  BY <1>1, <1>2 DEF Sound, ReceptionSound
<1> QED
  BY <1>1, <1>3, LockStep

LEMMA IdleHolds == ASSUME IInv, NEW p \in Requests, req[p].at = "idle" PROVE holds[p] = {} /\ req[p] = Idle
<1>1. req[p] = Idle
  BY KindAt DEF IInv, Shape
<1> QED
  BY <1>1, Kinds DEF IInv, Sound, InOrder

LEMMA StartDoneStep == ASSUME IInv, NEW p \in Requests, StartDone(p) PROVE IInv'
<1>1. PICK recipe \in planned, removals \in SUBSET DOMAIN stock, others \in SUBSET DOMAIN stock,
          add \in BOOLEAN, drops \in SUBSET Articles :
        Step(p, [op |-> "done", at |-> "selection", recipe |-> recipe, removals |-> removals,
                 others |-> others, add |-> add, drops |-> drops,
                 left |-> removals \cup others, rows |-> << >>, read |-> << >>], {})
  BY DEF StartDone
<1> DEFINE r == [op |-> "done", at |-> "selection", recipe |-> recipe, removals |-> removals,
                 others |-> others, add |-> add, drops |-> drops,
                 left |-> removals \cup others, rows |-> << >>, read |-> << >>]
<1>2. UNCHANGED Tables /\ DOMAIN stock \subseteq Lines /\ planned \subseteq Recipes /\ holds[p] = {}
  BY IdleHolds DEF StartDone, IInv, Shape, TypeOK
<1>3. r \in DoneReq
  BY <1>2 DEF DoneReq
<1>4. r.at = "selection" /\ r.read = << >> /\ DOMAIN r.read = {}
  OBVIOUS
<1>5. Step(p, r, {})
  BY <1>1
<1> HIDE DEF r
<1>6. req'[p] = r /\ holds'[p] = {}
  BY <1>2, <1>5, StepEffect
<1>7. OutcomeSound(p)'
  BY <1>3, <1>4, <1>6, Kinds DEF OutcomeSound
<1>8. InOrder(p)'
  BY <1>3, <1>6, Kinds DEF InOrder
<1> QED
  BY <1>2, <1>3, <1>5, <1>7, <1>8, OutcomeStep

LEMMA StartAbandonStep == ASSUME IInv, NEW p \in Requests, StartAbandon(p) PROVE IInv'
<1>1. PICK recipe \in planned, remove \in SUBSET DOMAIN list :
        Step(p, [op |-> "abandon", at |-> "selection", recipe |-> recipe, remove |-> remove,
                 left |-> remove, changed |-> FALSE], {})
  BY DEF StartAbandon
<1> DEFINE r == [op |-> "abandon", at |-> "selection", recipe |-> recipe, remove |-> remove,
                 left |-> remove, changed |-> FALSE]
<1>2. UNCHANGED Tables /\ DOMAIN list \subseteq Items /\ planned \subseteq Recipes /\ holds[p] = {}
  BY IdleHolds DEF StartAbandon, IInv, Shape, TypeOK
<1>3. r \in AbandonReq
  BY <1>2 DEF AbandonReq
<1>4. r.at = "selection" /\ r.left = r.remove
  OBVIOUS
<1>5. Step(p, r, {})
  BY <1>1
<1> HIDE DEF r
<1>6. req'[p] = r /\ holds'[p] = {}
  BY <1>2, <1>5, StepEffect
<1>7. OutcomeSound(p)'
  BY <1>3, <1>4, <1>6, Kinds DEF OutcomeSound
<1>8. InOrder(p)'
  BY <1>3, <1>6, Kinds DEF InOrder
<1> QED
  BY <1>2, <1>3, <1>5, <1>7, <1>8, OutcomeStep

LEMMA StartGenerateStep == ASSUME IInv, NEW p \in Requests, StartGenerate(p) PROVE IInv'
<1>1. PICK wanted \in SUBSET (Articles \X planned) :
        Step(p, [op |-> "generate", at |-> "insert", wanted |-> wanted], {})
  BY DEF StartGenerate
<1> DEFINE r == [op |-> "generate", at |-> "insert", wanted |-> wanted]
<1>2. UNCHANGED Tables /\ planned \subseteq Recipes /\ holds[p] = {}
  BY IdleHolds DEF StartGenerate, IInv, Shape, TypeOK
<1>3. r \in GenerateReq
  BY <1>2 DEF GenerateReq
<1>5. Step(p, r, {})
  BY <1>1
<1> HIDE DEF r
<1>6. req'[p] = r /\ holds'[p] = {}
  BY <1>2, <1>5, StepEffect
<1>7. OutcomeSound(p)' /\ InOrder(p)'
  BY <1>3, <1>6, Kinds DEF OutcomeSound, InOrder
<1> QED
  BY <1>2, <1>3, <1>5, <1>7, OutcomeStep

LEMMA LockSelectionStep == ASSUME IInv, NEW p \in Requests, LockSelection(p) PROVE IInv'
<1> DEFINE r == req[p]
           next == IF r.op = "abandon" THEN "items"
                   ELSE IF r.add \/ r.drops # {} THEN "recipe" ELSE "names"
<1>1. r.at = "selection" /\ UNCHANGED Tables /\ r \in Request /\ Blockers(p) = {} /\ planned \subseteq Recipes
  BY DEF LockSelection, IInv, Shape, TypeOK
<1>2. /\ r \in DoneReq \/ r \in AbandonReq
      /\ OutcomeSound(p) /\ holds[p] = {}
  BY <1>1, KindAt, Kinds DEF IInv, Sound, InOrder
<1>3. ASSUME r.recipe \in planned, Step(p, [r EXCEPT !.at = next], SelectionRow(r.recipe)) PROVE IInv'
  <2> DEFINE s == [r EXCEPT !.at = next]
             rows == SelectionRow(r.recipe)
  <2>1. rows \in SUBSET Rows /\ \A q \in Requests \ {p} : rows \cap holds[q] = {}
    <3>1. Wanted(r) = rows
      BY <1>1 DEF Wanted
    <3> QED
      BY <1>1, <1>3, <3>1, NotBlocked DEF SelectionRow, Rows
  <2>2. Step(p, s, rows)
    BY <1>3
  <2>3. \/ /\ r \in DoneReq /\ s \in DoneReq /\ s.at \in {"recipe", "names"}
           /\ s.recipe = r.recipe /\ s.read = << >>
        \/ /\ r \in AbandonReq /\ s \in AbandonReq /\ s.at = "items"
           /\ s.recipe = r.recipe /\ s.remove = s.left
    <3>1. CASE r \in DoneReq
      <4>1. next \in {"recipe", "names"}
        BY <3>1 DEF DoneReq
      <4>2. r.read = << >>
        BY <1>1, <1>2, <3>1 DEF OutcomeSound
      <4> HIDE DEF next, r
      <4> QED
        BY <3>1, <4>1, <4>2 DEF DoneReq
    <3>2. CASE r \in AbandonReq
      <4>1. next = "items"
        BY <3>2 DEF AbandonReq
      <4>2. r.remove = r.left
        BY <1>1, <1>2, <3>2 DEF OutcomeSound
      <4> HIDE DEF next, r
      <4> QED
        BY <3>2, <4>1, <4>2 DEF AbandonReq
    <3> QED
      BY <1>2, <3>1, <3>2
  <2>4. <<"selection", r.recipe>> \in rows
    BY DEF SelectionRow
  <2>5. DOMAIN << >> = {}
    OBVIOUS
  <2> HIDE DEF s, rows, next, r
  <2>6. req'[p] = s /\ holds'[p] = rows
    <3>1. req'[p] = s /\ holds'[p] = holds[p] \cup rows
      BY <2>2, StepEffect
    <3> QED
      BY <1>2, <3>1
  <2>7. OutcomeSound(p)'
    BY <1>1, <1>3, <2>3, <2>4, <2>5, <2>6, Kinds DEF OutcomeSound, Tables
  <2>8. InOrder(p)'
    <3>1. rows = SelectionRow(s.recipe)
      BY <2>3 DEF rows
    <3> QED
      BY <2>3, <2>6, <3>1, Kinds DEF InOrder
  <2> QED
    BY <1>1, <2>1, <2>2, <2>3, <2>7, <2>8, OutcomeStep
<1> QED
  BY <1>1, <1>3, EndStep DEF LockSelection

LEMMA LockRecipeStep == ASSUME IInv, NEW p \in Requests, LockRecipe(p) PROVE IInv'
<1> DEFINE r == req[p]
           s == [r EXCEPT !.at = "names"]
           rows == RecipeRow(r.recipe)
<1>1. r.at = "recipe" /\ UNCHANGED Tables /\ r \in Request /\ Blockers(p) = {} /\ Step(p, s, rows)
  BY DEF LockRecipe, IInv, Shape
<1>2. r \in DoneReq /\ OutcomeSound(p) /\ InOrder(p)
  BY <1>1, KindAt DEF IInv, Sound
<1>3. s \in DoneReq /\ s.at = "names" /\ s.recipe = r.recipe /\ s.read = r.read
  <2> HIDE DEF r
  <2> QED
    BY <1>2 DEF DoneReq
<1>4. rows \in SUBSET Rows /\ \A q \in Requests \ {p} : rows \cap holds[q] = {}
  <2>1. Wanted(r) = rows /\ r.recipe \in Recipes
    BY <1>1, <1>2 DEF Wanted, DoneReq
  <2> QED
    BY <1>1, <2>1, NotBlocked DEF RecipeRow, Rows
<1> HIDE DEF s
<1>5. req'[p] = s /\ holds'[p] = holds[p] \cup rows
  BY <1>1, StepEffect
<1>6. OutcomeSound(p)'
  BY <1>1, <1>2, <1>3, <1>5, Kinds DEF OutcomeSound, Tables
<1>7. InOrder(p)'
  BY <1>1, <1>2, <1>3, <1>5, Kinds DEF InOrder
<1> QED
  BY <1>1, <1>3, <1>4, <1>6, <1>7, OutcomeStep

LEMMA ReadIngredientsStep == ASSUME IInv, NEW p \in Requests, ReadIngredients(p) PROVE IInv'
<1> DEFINE r == req[p]
<1>1. r.at = "names" /\ UNCHANGED Tables /\ r \in Request /\ ingredients \in [Recipes -> [Articles -> Nat]]
  BY DEF ReadIngredients, IInv, Shape, TypeOK
<1>2. r \in DoneReq /\ OutcomeSound(p) /\ InOrder(p)
  BY <1>1, KindAt DEF IInv, Sound
<1>3. ASSUME Step(p, [r EXCEPT !.at = "lines", !.rows = ingredients[r.recipe]], {}) PROVE IInv'
  <2> DEFINE rows == ingredients[r.recipe]
             s == [r EXCEPT !.at = "lines", !.rows = rows]
  <2>1. rows \in [Articles -> Nat]
    BY <1>1, <1>2 DEF DoneReq
  <2>2. Step(p, s, {})
    BY <1>3
  <2>3. r.read = << >>
    BY <1>1, <1>2 DEF OutcomeSound
  <2> HIDE DEF rows
  <2>4. s \in DoneReq /\ s.at = "lines" /\ s.recipe = r.recipe /\ s.read = << >> /\ s.rows = rows
    <3> HIDE DEF r
    <3> QED
      BY <1>2, <2>1, <2>3 DEF DoneReq
  <2> HIDE DEF s
  <2>5. req'[p] = s /\ holds'[p] = holds[p]
    <3>1. req'[p] = s /\ holds'[p] = holds[p] \cup {}
      BY <2>2, StepEffect
    <3> QED
      BY <3>1
  <2>6. DOMAIN << >> = {}
    OBVIOUS
  <2>7. OutcomeSound(p)'
    BY <1>1, <1>2, <2>1, <2>4, <2>5, <2>6, Kinds DEF OutcomeSound, Tables
  <2>8. InOrder(p)'
    BY <1>1, <1>2, <2>4, <2>5, Kinds DEF InOrder
  <2> QED
    BY <1>1, <2>2, <2>4, <2>7, <2>8, OutcomeStep
<1> QED
  BY <1>1, <1>3, EndStep DEF ReadIngredients

LEMMA ReadLine ==
    ASSUME NEW read, read \in {<< >>} \cup Stocks, NEW l \in Lines, NEW line \in Line
    PROVE  /\ Put(read, l, line) \in Stocks /\ DOMAIN Put(read, l, line) = DOMAIN read \cup {l}
           /\ Put(read, l, line)[l] = line /\ \A m \in DOMAIN read \ {l} : Put(read, l, line)[m] = read[m]
<1>1. PICK D \in SUBSET Lines : read \in [D -> Line]
  <2>1. << >> \in [{} -> Line]
    OBVIOUS
  <2> QED
    BY <2>1 DEF Stocks
<1>2. Put(read, l, line) \in [D \cup {l} -> Line]
  BY <1>1 DEF Put
<1> QED
  BY <1>1, <1>2 DEF Put, Stocks

\* The smallest of what is left to lock: what was locked before comes before it.
LEMMA NextIsLeast ==
    ASSUME NEW left \in SUBSET Nat, NEW l \in Smallest(left)
    PROVE  l \in left /\ \A n \in left \ {l} : l < n
<1>1. left # {} /\ l = Min(left)
  BY DEF Smallest
<1>2. l \in left /\ \A n \in left : l <= n
  BY <1>1, MinIsLeast
<1> QED
  BY <1>2

LEMMA LockLineStep == ASSUME PantryAssumption, IInv, NEW p \in Requests, LockLine(p) PROVE IInv'
<1> DEFINE r == req[p]
<1>1. r.at = "lines" /\ UNCHANGED Tables /\ r \in Request /\ Blockers(p) = {}
      /\ DOMAIN stock \subseteq Lines /\ stock \in [DOMAIN stock -> Line]
  BY DEF LockLine, IInv, Shape, TypeOK
<1>2. r \in DoneReq /\ OutcomeSound(p) /\ InOrder(p)
  BY <1>1, KindAt DEF IInv, Sound
<1>3. PICK l \in NextLocked(r) :
        Step(p, [r EXCEPT !.left = @ \ {l},
                          !.read = IF l \in DOMAIN stock THEN Put(@, l, stock[l]) ELSE @],
             IF l \in DOMAIN stock THEN LineRow(l) ELSE {})
  BY DEF LockLine
<1>4. /\ r.left \in SUBSET Lines /\ r.left \in SUBSET Nat /\ r.read \in {<< >>} \cup Stocks
      /\ r.rows \in [Articles -> Nat]
  BY <1>1, <1>2 DEF DoneReq, PantryAssumption, OutcomeSound
<1>5. l \in r.left /\ l \in Lines /\ \A n \in r.left \ {l} : l < n
  BY <1>4, NextIsLeast DEF NextLocked
<1> DEFINE read == IF l \in DOMAIN stock THEN Put(r.read, l, stock[l]) ELSE r.read
           s == [r EXCEPT !.left = @ \ {l}, !.read = read]
           rows == IF l \in DOMAIN stock THEN LineRow(l) ELSE {}
<1>6. Step(p, s, rows)
  BY <1>3
<1>7. rows \in SUBSET Rows /\ \A q \in Requests \ {p} : rows \cap holds[q] = {}
  <2>1. LineRow(l) \subseteq Wanted(r)
    BY <1>1 DEF Wanted
  <2> QED
    BY <1>1, <1>5, <2>1, NotBlocked DEF LineRow, Rows
<1>8. read \in {<< >>} \cup Stocks
      /\ \A m \in DOMAIN read : m \in DOMAIN stock /\ <<"line", m>> \in holds[p] \cup rows /\ read[m] = stock[m]
  <2>1. \A m \in DOMAIN r.read : m \in DOMAIN stock /\ <<"line", m>> \in holds[p] /\ r.read[m] = stock[m]
    BY <1>2 DEF OutcomeSound
  <2>2. CASE l \in DOMAIN stock
    <3>1. stock[l] \in Line
      BY <1>1, <2>2
    <3>2. read = Put(r.read, l, stock[l]) /\ rows = {<<"line", l>>}
      BY <2>2 DEF LineRow
    <3> HIDE DEF r, read, rows
    <3>3. /\ read \in Stocks /\ DOMAIN read = DOMAIN r.read \cup {l} /\ read[l] = stock[l]
          /\ \A m \in DOMAIN r.read \ {l} : read[m] = r.read[m]
      <4>1. r.read \in {<< >>} \cup Stocks
        BY <1>4
      <4>2. \A line \in Line :
              /\ Put(r.read, l, line) \in Stocks /\ DOMAIN Put(r.read, l, line) = DOMAIN r.read \cup {l}
              /\ Put(r.read, l, line)[l] = line
              /\ \A m \in DOMAIN r.read \ {l} : Put(r.read, l, line)[m] = r.read[m]
        BY <1>5, <4>1, ReadLine
      <4> QED
        BY <3>1, <3>2, <4>2
    <3> QED
      BY <2>1, <2>2, <3>2, <3>3
  <2>3. CASE l \notin DOMAIN stock
    BY <1>4, <2>1, <2>3
  <2> QED
    BY <2>2, <2>3
<1>9. rows \subseteq {<<"line", l>>}
  BY DEF LineRow
<1> HIDE DEF read, rows
<1>10. /\ s \in DoneReq /\ s.at = "lines" /\ s.recipe = r.recipe /\ s.read = read /\ s.left = r.left \ {l}
       /\ s.rows = r.rows
  <2> HIDE DEF r
  <2> QED
    BY <1>1, <1>2, <1>4, <1>8 DEF DoneReq
<1> HIDE DEF s
<1>11. req'[p] = s /\ holds'[p] = holds[p] \cup rows
  BY <1>6, StepEffect
<1>12. OutcomeSound(p)'
  BY <1>1, <1>2, <1>4, <1>8, <1>10, <1>11, Kinds DEF OutcomeSound, Tables
<1>13. InOrder(p)'
  <2>1. holds[p] \subseteq SelectionRow(r.recipe) \cup RecipeRow(r.recipe)
                           \cup {<<"line", k>> : k \in {m \in Lines : \A n \in r.left : m < n}}
    BY <1>1, <1>2 DEF InOrder
  <2>2. holds'[p] \subseteq SelectionRow(s.recipe) \cup RecipeRow(s.recipe)
                           \cup {<<"line", k>> : k \in {m \in Lines : \A n \in s.left : m < n}}
    BY <1>5, <1>9, <1>10, <1>11, <2>1
  <2> QED
    BY <1>10, <1>11, <2>2, Kinds DEF InOrder
<1> QED
  BY <1>1, <1>6, <1>7, <1>10, <1>12, <1>13, OutcomeStep

LEMMA LockItemStep == ASSUME PantryAssumption, IInv, NEW p \in Requests, LockItem(p) PROVE IInv'
<1> DEFINE r == req[p]
<1>1. r.at = "items" /\ UNCHANGED Tables /\ r \in Request /\ Blockers(p) = {}
  BY DEF LockItem, IInv, Shape
<1>2. r \in AbandonReq /\ OutcomeSound(p) /\ InOrder(p)
  BY <1>1, KindAt DEF IInv, Sound
<1>3. r.left \in SUBSET Items /\ r.left \in SUBSET Nat
  BY <1>2 DEF AbandonReq, PantryAssumption
<1>4. ASSUME NEW i \in NextLocked(r), i \in DOMAIN list,
             Step(p, [r EXCEPT !.left = @ \ {i}], ItemRow(i))
      PROVE  IInv'
  <2>1. i \in r.left /\ i \in Items /\ \A n \in r.left \ {i} : i < n
    BY <1>3, NextIsLeast DEF NextLocked
  <2> DEFINE s == [r EXCEPT !.left = @ \ {i}]
             rows == ItemRow(i)
  <2>2. Step(p, s, rows)
    BY <1>4
  <2>3. rows \in SUBSET Rows /\ \A q \in Requests \ {p} : rows \cap holds[q] = {}
    <3>1. rows \subseteq Wanted(r)
      BY <1>1, <1>4 DEF Wanted
    <3> QED
      BY <1>1, <2>1, <3>1, NotBlocked DEF ItemRow, Rows
  <2>4. /\ s \in AbandonReq /\ s.at = "items" /\ s.recipe = r.recipe /\ s.remove = r.remove /\ s.left = r.left \ {i}
        /\ s.changed = r.changed
    <3> HIDE DEF r
    <3> QED
      BY <1>1, <1>2, <1>3 DEF AbandonReq
  <2>5. rows = {<<"item", i>>}
    BY DEF ItemRow
  <2> HIDE DEF s, rows
  <2>6. req'[p] = s /\ holds'[p] = holds[p] \cup rows
    BY <2>2, StepEffect
  <2>7. OutcomeSound(p)'
    BY <1>1, <1>2, <1>4, <2>4, <2>5, <2>6, Kinds DEF OutcomeSound, Tables
  <2>8. InOrder(p)'
    <3>1. holds[p] \subseteq SelectionRow(r.recipe) \cup {<<"item", k>> : k \in {m \in Items : \A n \in r.left : m < n}}
      BY <1>1, <1>2 DEF InOrder
    <3>2. holds'[p] \subseteq SelectionRow(s.recipe) \cup {<<"item", k>> : k \in {m \in Items : \A n \in s.left : m < n}}
      BY <2>1, <2>4, <2>5, <2>6, <3>1
    <3> QED
      BY <2>4, <2>6, <3>2, Kinds DEF InOrder
  <2> QED
    BY <1>1, <2>2, <2>3, <2>4, <2>7, <2>8, OutcomeStep
<1>5. ASSUME NEW i \in NextLocked(r), Step(p, [r EXCEPT !.left = @ \ {i}, !.changed = TRUE], {})
      PROVE  IInv'
  <2>1. i \in r.left
    BY <1>3, NextIsLeast DEF NextLocked
  <2> DEFINE s == [r EXCEPT !.left = @ \ {i}, !.changed = TRUE]
  <2>2. Step(p, s, {})
    BY <1>5
  <2>3. s \in AbandonReq /\ s.at = "items" /\ s.recipe = r.recipe /\ s.left = r.left \ {i} /\ s.changed
    <3> HIDE DEF r
    <3> QED
      BY <1>1, <1>2, <1>3 DEF AbandonReq
  <2> HIDE DEF s
  <2>4. req'[p] = s /\ holds'[p] = holds[p]
    <3>1. req'[p] = s /\ holds'[p] = holds[p] \cup {}
      BY <2>2, StepEffect
    <3> QED
      BY <3>1
  <2>5. OutcomeSound(p)'
    BY <1>1, <1>2, <2>3, <2>4, Kinds DEF OutcomeSound, Tables
  <2>6. InOrder(p)'
    <3>1. holds[p] \subseteq SelectionRow(r.recipe) \cup {<<"item", k>> : k \in {m \in Items : \A n \in r.left : m < n}}
      BY <1>1, <1>2 DEF InOrder
    <3>2. holds'[p] \subseteq SelectionRow(s.recipe) \cup {<<"item", k>> : k \in {m \in Items : \A n \in s.left : m < n}}
      BY <2>3, <2>4, <3>1
    <3> QED
      BY <2>3, <2>4, <3>2, Kinds DEF InOrder
  <2> QED
    BY <1>1, <2>2, <2>3, <2>5, <2>6, OutcomeStep
<1> QED
  BY <1>1, <1>4, <1>5 DEF LockItem

-----------------------------------------------------------------------------
(* The steps that write the tables.                                           *)

\* The requests of Q go on as they were, the others have ended.
GoOn(Q) ==
    /\ req' \in [Requests -> Request] /\ holds' \in [Requests -> SUBSET Rows]
    /\ \A q \in Q : req'[q] = req[q] /\ holds'[q] = holds[q]
    /\ \A q \in Requests \ Q : req'[q] = Idle /\ holds'[q] = {}

\* What the requests of Q have locked is left alone; no line and no item comes back, no item
\* is forgotten, and the lines they insert stay theirs.
Kept(Q) ==
    /\ DOMAIN list \cup spentItems \subseteq DOMAIN list' \cup spentItems'
    /\ DOMAIN list' \cap spentItems = {}
    /\ \A q \in Q :
          /\ \A l \in DOMAIN stock : <<"line", l>> \in holds[q] => l \in DOMAIN stock' /\ stock'[l] = stock[l]
          /\ \A i \in DOMAIN list : <<"item", i>> \in holds[q] => i \in DOMAIN list'
          /\ \A r \in planned : <<"selection", r>> \in holds[q] => r \in planned'
          /\ req[q] \in ReceiveReq => req[q].fresh \cap (DOMAIN stock' \cup spentLines') = {}

LEMMA TableStep ==
    ASSUME IInv, NEW Q \in SUBSET Requests, GoOn(Q), Kept(Q), TypeOK', Counted'
    PROVE  IInv'
<1>1. Shape'
  BY DEF Shape, GoOn
<1>2. Exclusive' /\ FreshApart'
  <2>1. Idle \notin ReceiveReq
    BY Kinds
  <2>2. Exclusive'
    BY DEF IInv, Exclusive, GoOn
  <2>3. FreshApart'
    <3> SUFFICES ASSUME NEW p \in Requests, NEW q \in Requests, p # q,
                        req'[p] \in ReceiveReq, req'[q] \in ReceiveReq
                 PROVE  req'[p].fresh \cap req'[q].fresh = {}
      BY DEF FreshApart
    <3>1. p \in Q /\ q \in Q
      BY <2>1 DEF GoOn
    <3>2. req'[p] = req[p] /\ req'[q] = req[q]
      BY <3>1 DEF GoOn
    <3> QED
      BY <3>2 DEF IInv, FreshApart
  <2> QED
    BY <2>2, <2>3
<1>3. ASSUME NEW q \in Requests PROVE Sound(q)'
  <2>1. CASE q \notin Q
    BY <2>1, IdleSound DEF GoOn
  <2>2. CASE q \in Q
    <3> DEFINE r == req[q]
               h == holds[q]
    <3>1. req'[q] = r /\ holds'[q] = h /\ Sound(q)
      BY <2>2 DEF GoOn, IInv
    <3>2. /\ \A l \in DOMAIN stock : <<"line", l>> \in h => l \in DOMAIN stock' /\ stock'[l] = stock[l]
          /\ \A i \in DOMAIN list : <<"item", i>> \in h => i \in DOMAIN list'
          /\ \A s \in planned : <<"selection", s>> \in h => s \in planned'
          /\ r \in ReceiveReq => r.fresh \cap (DOMAIN stock' \cup spentLines') = {}
          /\ DOMAIN list \cup spentItems \subseteq DOMAIN list' \cup spentItems'
          /\ DOMAIN list' \cap spentItems = {}
      BY <2>2 DEF Kept
    <3>3. ReceptionSound(q)'
      <4> SUFFICES ASSUME r \in ReceiveReq PROVE LotHeld(q)' /\ Planned(q)'
        BY <3>1 DEF ReceptionSound
      <4>1. LotHeld(q) /\ Planned(q)
        BY <3>1 DEF Sound, ReceptionSound
      <4>2. LotHeld(q)'
        BY <3>1, <3>2, <4>1 DEF LotHeld
      <4>3. Planned(q)'
        BY <3>1, <3>2, <4>1 DEF Planned
      <4> QED
        BY <4>2, <4>3
    <3>4. OutcomeSound(q)'
      BY <3>1, <3>2 DEF Sound, OutcomeSound
    <3>5. InOrder(q)'
      BY <3>1 DEF Sound, InOrder
    <3> QED
      BY <3>3, <3>4, <3>5 DEF Sound
  <2> QED
    BY <2>1, <2>2
<1> QED
  BY <1>1, <1>2, <1>3 DEF IInv

LEMMA EndGoesOn == ASSUME IInv, NEW p \in Requests, End(p) PROVE GoOn(Requests \ {p})
<1>1. Idle \in Request
  BY DEF Request
<1> QED
  BY <1>1 DEF GoOn, End, IInv, Shape

LEMMA AllGoOn == ASSUME IInv, UNCHANGED <<req, holds>> PROVE GoOn(Requests)
BY DEF GoOn, IInv, Shape

\* The planning of a recipe that is planned ends, a meal of it or not.
LEMMA PlanningEnds ==
    ASSUME TypeOK, PlanningEndsOnce, NEW r \in planned, CloseSelection(r),
           meals' = meals \/ meals' = [meals EXCEPT ![r] = @ + 1]
    PROVE  /\ PlanningEndsOnce' /\ planned' \subseteq Recipes /\ plans' \in [Recipes -> Nat]
           /\ ended' \in [Recipes -> Nat] /\ meals' \in [Recipes -> Nat]
<1>1. /\ planned \subseteq Recipes /\ r \in Recipes /\ plans \in [Recipes -> Nat]
      /\ ended \in [Recipes -> Nat] /\ meals \in [Recipes -> Nat]
      /\ planned' = planned \ {r} /\ plans' = plans /\ ended' = [ended EXCEPT ![r] = @ + 1]
  BY DEF TypeOK, CloseSelection
<1>2. ended' \in [Recipes -> Nat] /\ meals' \in [Recipes -> Nat]
  BY <1>1
<1>3. ASSUME NEW s \in Recipes
      PROVE  ended'[s] = plans'[s] - (IF s \in planned' THEN 1 ELSE 0) /\ meals'[s] <= ended'[s]
  <2>1. /\ ended[s] = plans[s] - (IF s \in planned THEN 1 ELSE 0) /\ meals[s] <= ended[s]
        /\ ended[s] \in Nat /\ plans[s] \in Nat /\ meals[s] \in Nat
    BY <1>1 DEF PlanningEndsOnce
  <2>2. CASE s = r
    <3>1. ended[s] = plans[s] - 1 /\ s \notin planned' /\ ended'[s] = ended[s] + 1 /\ plans'[s] = plans[s]
      BY <1>1, <2>1, <2>2
    <3>2. meals'[s] = meals[s] \/ meals'[s] = meals[s] + 1
      BY <1>1, <2>2
    <3> QED
      BY <2>1, <3>1, <3>2
  <2>3. CASE s # r
    BY <1>1, <2>1, <2>3
  <2> QED
    BY <2>2, <2>3
<1> QED
  BY <1>1, <1>2, <1>3 DEF PlanningEndsOnce

LEMMA Fits ==
    ASSUME NEW m \in Nat, NEW a \in 0..m, NEW b \in Nat, b > 0 => a + b <= m
    PROVE  a + b \in 0..m
OBVIOUS

LEMMA UpTo == ASSUME NEW m \in Nat, NEW a \in Nat, a > 0 => a <= m PROVE a \in 0..m
OBVIOUS

LEMMA CommitReceptionStep == ASSUME PantryAssumption, IInv, NEW p \in Requests, CommitReception(p) PROVE IInv'
<1> DEFINE r == req[p]
           ids == {r.lot[k] : k \in DOMAIN r.lot}
           articleOf(l) == r.article[CHOOSE k \in DOMAIN r.lot : r.target[k] = l]
<1>1. /\ r.at = "land" /\ r \in Request /\ End(p)
      /\ stock' = [l \in DOMAIN stock \cup r.fresh |->
                    IF l \in r.fresh THEN [article |-> articleOf(l), quantity |-> r.added[l]]
                    ELSE [stock[l] EXCEPT !.quantity = @ + r.added[l]]]
      /\ due' = [l \in Lines |-> due[l] + r.added[l]]
      /\ list' = Remove(list, ids) /\ spentItems' = spentItems \cup ids
      /\ gone' = [i \in Items |-> IF i \in ids THEN gone[i] + 1 ELSE gone[i]]
      /\ UNCHANGED <<spentLines, planned, ingredients, plans, ended, meals>>
  BY DEF CommitReception, Again, IInv, Shape
<1>2. TypeOK /\ r \in ReceiveReq /\ LotHeld(p) /\ Planned(p) /\ Counted /\ MaxQuantity \in Nat
  BY <1>1, KindAt DEF IInv, Sound, ReceptionSound, Shape, PantryAssumption
<1>3. /\ r.article \in Lot(Articles) /\ DOMAIN r.article = DOMAIN r.lot
      /\ r.fresh \subseteq Lines /\ r.added \in [Lines -> Nat]
      /\ \A l \in r.fresh : l \notin DOMAIN stock \cup spentLines /\ \E k \in DOMAIN r.lot : r.target[k] = l
  BY <1>1, <1>2 DEF Planned, ReceiveReq
<1>4. ids \subseteq DOMAIN list /\ \A i \in ids : <<"item", i>> \in holds[p]
  <2>1. \A k \in DOMAIN r.lot : r.lot[k] \in DOMAIN list /\ <<"item", r.lot[k]>> \in holds[p]
    <3>1. r.at # "lot"
      BY <1>1
    <3> QED
      BY <1>2, <3>1 DEF LotHeld
  <2>2. ASSUME NEW i \in ids PROVE i \in DOMAIN list /\ <<"item", i>> \in holds[p]
    <3>1. PICK k \in DOMAIN r.lot : i = r.lot[k]
      OBVIOUS
    <3> QED
      BY <2>1, <3>1, Zenon
  <2> HIDE DEF ids
  <2> QED
    BY <2>2
<1>5. \A l \in Lines : r.added[l] > 0 =>
          \/ l \in r.fresh /\ r.added[l] <= MaxQuantity
          \/ /\ l \in DOMAIN stock /\ <<"line", l>> \in holds[p]
             /\ stock[l].quantity + r.added[l] <= MaxQuantity
  BY <1>1, <1>2 DEF Planned
<1>6. \A l \in r.fresh : articleOf(l) \in Articles
  BY <1>3, LotFacts
<1>7. DOMAIN stock' = DOMAIN stock \cup r.fresh /\ DOMAIN stock \subseteq Lines \ spentLines
  BY <1>1, <1>2 DEF TypeOK
<1> HIDE DEF articleOf
\* What becomes of each line.
<1>8. ASSUME NEW l \in DOMAIN stock
      PROVE  /\ stock'[l] \in Line /\ stock'[l].quantity = stock[l].quantity + r.added[l]
             /\ <<"line", l>> \notin holds[p] => stock'[l] = stock[l]
  <2>1. stock[l] \in Line /\ l \in Lines /\ l \notin r.fresh /\ r.added[l] \in Nat
    BY <1>2, <1>3, <1>7 DEF TypeOK
  <2>2. stock'[l] = [stock[l] EXCEPT !.quantity = @ + r.added[l]]
    BY <1>1, <2>1
  <2>3. stock[l].quantity + r.added[l] \in 0..MaxQuantity
    <3>1. stock[l].quantity \in 0..MaxQuantity
      BY <2>1 DEF Line
    <3>2. r.added[l] > 0 => stock[l].quantity + r.added[l] <= MaxQuantity
      BY <1>5, <2>1
    <3> QED
      BY <1>2, <2>1, <3>1, <3>2, Fits
  <2>4. r.added[l] # 0 => <<"line", l>> \in holds[p]
    BY <1>5, <2>1
  <2> DEFINE n == r.added[l]
  <2> HIDE DEF n
  <2>5. stock'[l] = [article |-> stock[l].article, quantity |-> stock[l].quantity + r.added[l]]
    BY <2>1, <2>2 DEF Line
  <2>6. r.added[l] = 0 => stock'[l] = stock[l]
    BY <2>1, <2>5 DEF Line
  <2> QED
    BY <2>1, <2>3, <2>4, <2>5, <2>6 DEF Line
<1>9. ASSUME NEW l \in r.fresh
      PROVE  stock'[l] \in Line /\ stock'[l].quantity = r.added[l]
  <2>1. stock'[l] = [article |-> articleOf(l), quantity |-> r.added[l]]
    BY <1>1
  <2>2. l \in Lines /\ l \notin DOMAIN stock /\ r.added[l] \in Nat
    BY <1>3
  <2>3. r.added[l] \in 0..MaxQuantity
    <3>1. r.added[l] > 0 => r.added[l] <= MaxQuantity
      BY <1>5, <2>2
    <3> QED
      BY <1>2, <2>2, <3>1, UpTo
  <2> QED
    BY <1>6, <2>1, <2>3 DEF Line
<1>10. TypeOK'
  <2>1. stock' \in [DOMAIN stock' -> Line] /\ DOMAIN stock' \subseteq Lines \ spentLines'
    <3>1. \A l \in DOMAIN stock' : stock'[l] \in Line
      BY <1>7, <1>8, <1>9
    <3>2. stock' = [l \in DOMAIN stock' |-> stock'[l]]
      BY <1>1
    <3> QED
      BY <1>1, <1>3, <1>7, <3>1, <3>2
  <2>2. /\ list' \in [DOMAIN list' -> Item] /\ DOMAIN list' \subseteq Items \ spentItems'
        /\ spentItems' \subseteq Items
    BY <1>1, <1>2, <1>4 DEF TypeOK, Remove
  <2>3. due' \in [Lines -> Int] /\ gone' \in [Items -> Nat]
    BY <1>1, <1>2, <1>3 DEF TypeOK
  <2> QED
    BY <1>1, <1>2, <2>1, <2>2, <2>3 DEF TypeOK
<1>11. Counted'
  <2>1. /\ \A l \in Lines : l \notin DOMAIN stock \cup spentLines => due[l] = 0
        /\ \A i \in Items : gone[i] > 0 => i \in spentItems
        /\ NoUpdateLost /\ ReceivedOnce /\ PlanningEndsOnce
    BY <1>2 DEF Counted
  <2>2. \A l \in Lines : l \notin DOMAIN stock' \cup spentLines' => due'[l] = 0
    <3> SUFFICES ASSUME NEW l \in Lines, l \notin DOMAIN stock' \cup spentLines' PROVE due'[l] = 0
      OBVIOUS
    <3>1. due[l] = 0 /\ ~(r.added[l] > 0) /\ r.added[l] \in Nat /\ due'[l] = due[l] + r.added[l]
      BY <1>1, <1>3, <1>5, <1>7, <2>1
    <3> QED
      BY <3>1
  <2>3. NoUpdateLost'
    <3> SUFFICES ASSUME NEW l \in DOMAIN stock' PROVE stock'[l].quantity = due'[l] /\ due'[l] >= 0
      BY DEF NoUpdateLost
    <3>1. l \in Lines /\ due'[l] = due[l] + r.added[l] /\ r.added[l] \in Nat
      BY <1>1, <1>3, <1>7
    <3>2. CASE l \in r.fresh
      BY <1>3, <1>9, <2>1, <3>1, <3>2
    <3>3. CASE l \in DOMAIN stock
      <4>1. stock[l].quantity = due[l] /\ due[l] >= 0 /\ due[l] \in Int
        BY <1>2, <2>1, <3>1, <3>3 DEF NoUpdateLost, TypeOK
      <4>2. stock'[l].quantity = stock[l].quantity + r.added[l]
        BY <1>8, <3>3
      <4> QED
        BY <3>1, <4>1, <4>2
    <3> QED
      BY <1>7, <3>2, <3>3
  <2>4. ReceivedOnce' /\ \A i \in Items : gone'[i] > 0 => i \in spentItems'
    <3>1. \A i \in Items : gone[i] \in Nat /\ gone'[i] = IF i \in ids THEN gone[i] + 1 ELSE gone[i]
      BY <1>1, <1>2 DEF TypeOK
    <3>2. \A i \in ids : i \in Items /\ gone[i] = 0
      BY <1>2, <1>4, <2>1 DEF TypeOK, ReceivedOnce
    <3>3. DOMAIN list' = DOMAIN list \ ids /\ spentItems' = spentItems \cup ids
      BY <1>1 DEF Remove
    <3> HIDE DEF ids
    <3>4. DOMAIN list \subseteq Items
      BY <1>2 DEF TypeOK
    <3> QED
      BY <2>1, <3>1, <3>2, <3>3, <3>4 DEF ReceivedOnce
  <2>5. PlanningEndsOnce'
    BY <1>1, <2>1 DEF PlanningEndsOnce
  <2> QED
    BY <2>2, <2>3, <2>4, <2>5 DEF Counted
<1>12. Kept(Requests \ {p})
  <2>1. DOMAIN list' = DOMAIN list \ ids /\ spentItems' = spentItems \cup ids /\ DOMAIN list \cap spentItems = {}
    BY <1>1, <1>2 DEF Remove, TypeOK
  <2>2. \A q \in Requests \ {p} : holds[p] \cap holds[q] = {}
    BY DEF IInv, Exclusive
  <2>3. \A q \in Requests \ {p} : req[q] \in ReceiveReq => req[q].fresh \cap (DOMAIN stock' \cup spentLines') = {}
    <3> SUFFICES ASSUME NEW q \in Requests \ {p}, req[q] \in ReceiveReq
                 PROVE  req[q].fresh \cap (DOMAIN stock \cup r.fresh \cup spentLines) = {}
      BY <1>1, <1>7
    <3>1. Planned(q)
      BY DEF IInv, Sound, ReceptionSound
    <3>2. req[q].fresh \cap (DOMAIN stock \cup spentLines) = {}
      BY <3>1 DEF Planned
    <3>3. req[q].fresh \cap r.fresh = {}
      BY <1>2 DEF IInv, FreshApart
    <3> QED
      BY <3>2, <3>3
  <2>4. \A q \in Requests \ {p} : \A l \in DOMAIN stock :
           <<"line", l>> \in holds[q] => l \in DOMAIN stock' /\ stock'[l] = stock[l]
    BY <1>7, <1>8, <2>2
  <2> HIDE DEF ids
  <2>5. \A q \in Requests \ {p} : \A i \in DOMAIN list : <<"item", i>> \in holds[q] => i \in DOMAIN list'
    BY <1>4, <2>1, <2>2
  <2> QED
    BY <1>1, <2>1, <2>3, <2>4, <2>5 DEF Kept
<1> QED
  BY <1>1, <1>10, <1>11, <1>12, TableStep, EndGoesOn

LEMMA OneLess == ASSUME NEW m \in Nat, NEW a \in 0..m, ~(a < 1) PROVE a - 1 \in 0..m /\ a >= 1
OBVIOUS

LEMMA CommitDoneStep == ASSUME PantryAssumption, IInv, NEW p \in Requests, CommitDone(p) PROVE IInv'
<1> DEFINE r == req[p]
<1>1. r.at = "lines" /\ r \in Request /\ End(p)
  BY DEF CommitDone, IInv, Shape
<1>2. TypeOK /\ r \in DoneReq /\ OutcomeSound(p) /\ Counted
  BY <1>1, KindAt DEF IInv, Sound, Shape
<1>3. ASSUME ~RefusedDone(r),
             stock' = [l \in DOMAIN stock |->
                          IF l \in DOMAIN r.read
                          THEN [stock[l] EXCEPT !.quantity = r.read[l].quantity - 1]
                          ELSE stock[l]],
             due' = [l \in Lines |-> IF l \in DOMAIN r.read THEN due[l] - 1 ELSE due[l]],
             ingredients' = [ingredients EXCEPT ![r.recipe] =
                [a \in Articles |-> IF a \in r.drops THEN 0
                                    ELSE IF a \in ToAdd(r) THEN @[a] + 1 ELSE @[a]]],
             meals' = [meals EXCEPT ![r.recipe] = @ + 1],
             CloseSelection(r.recipe),
             UNCHANGED <<spentLines, list, spentItems, gone>>
      PROVE  IInv'
  <2>1. /\ r.recipe \in planned /\ <<"selection", r.recipe>> \in holds[p] /\ r.recipe \in Recipes
        /\ \A l \in DOMAIN r.read : /\ l \in DOMAIN stock /\ <<"line", l>> \in holds[p]
                                    /\ r.read[l] = stock[l]
    <3>1. r.at # "selection"
      BY <1>1
    <3> QED
      BY <1>2, <3>1 DEF OutcomeSound, DoneReq
  <2>2. \A l \in DOMAIN r.read : ~(r.read[l].quantity < 1)
    BY <1>3 DEF RefusedDone
  <2>3. PlanningEndsOnce
    BY <1>2 DEF Counted
  <2>4. /\ PlanningEndsOnce' /\ planned' \subseteq Recipes /\ plans' \in [Recipes -> Nat]
        /\ ended' \in [Recipes -> Nat] /\ meals' \in [Recipes -> Nat]
    <3> HIDE DEF r
    <3> QED
      BY <1>2, <1>3, <2>1, <2>3, PlanningEnds
  \* What becomes of each line.
  <2>5. ASSUME NEW l \in DOMAIN stock
        PROVE  /\ stock'[l] \in Line
               /\ l \in DOMAIN r.read => stock'[l].quantity = stock[l].quantity - 1 /\ stock[l].quantity >= 1
               /\ l \notin DOMAIN r.read => stock'[l] = stock[l]
    <3>1. stock[l] \in Line
      BY <1>2 DEF TypeOK
    <3>2. CASE l \in DOMAIN r.read
      <4>1. stock'[l] = [stock[l] EXCEPT !.quantity = stock[l].quantity - 1] /\ ~(stock[l].quantity < 1)
        BY <1>3, <2>1, <2>2, <3>2
      <4>2. stock'[l] = [article |-> stock[l].article, quantity |-> stock[l].quantity - 1]
        BY <3>1, <4>1 DEF Line
      <4>3. stock[l].quantity \in 0..MaxQuantity /\ MaxQuantity \in Nat
        BY <3>1 DEF Line, PantryAssumption
      <4>4. stock[l].quantity - 1 \in 0..MaxQuantity /\ stock[l].quantity >= 1
        BY <4>1, <4>3, OneLess
      <4> QED
        BY <3>1, <3>2, <4>2, <4>4 DEF Line
    <3>3. CASE l \notin DOMAIN r.read
      BY <1>3, <3>1, <3>3
    <3> QED
      BY <3>2, <3>3
  <2>6. DOMAIN stock' = DOMAIN stock /\ DOMAIN stock \subseteq Lines \ spentLines
    BY <1>2, <1>3 DEF TypeOK
  <2>7. TypeOK'
    <3>1. stock' \in [DOMAIN stock' -> Line]
      <4>1. stock' = [l \in DOMAIN stock' |-> stock'[l]]
        BY <1>3
      <4> QED
        BY <2>5, <2>6, <4>1
    <3>2. ingredients' \in [Recipes -> [Articles -> Nat]]
      <4> DEFINE added == ToAdd(r)
      <4> HIDE DEF added
      <4>1. ingredients \in [Recipes -> [Articles -> Nat]] /\ r.recipe \in Recipes
        BY <1>2, <2>1 DEF TypeOK
      <4>2. ingredients[r.recipe] \in [Articles -> Nat]
        BY <4>1
      <4> DEFINE rows == [a \in Articles |-> IF a \in r.drops THEN 0
                                    ELSE IF a \in added THEN ingredients[r.recipe][a] + 1
                                         ELSE ingredients[r.recipe][a]]
      <4>3. rows \in [Articles -> Nat]
        BY <4>2
      <4>4. ingredients' = [ingredients EXCEPT ![r.recipe] = rows]
        BY <1>3 DEF added
      <4> HIDE DEF rows
      <4> QED
        BY <4>1, <4>3, <4>4
    <3>3. due' \in [Lines -> Int]
      BY <1>2, <1>3 DEF TypeOK
    <3> QED
      BY <1>2, <1>3, <2>4, <2>6, <3>1, <3>2, <3>3 DEF TypeOK
  <2>8. Counted'
    <3>1. /\ \A l \in Lines : l \notin DOMAIN stock \cup spentLines => due[l] = 0
          /\ \A i \in Items : gone[i] > 0 => i \in spentItems
          /\ NoUpdateLost /\ ReceivedOnce
      BY <1>2 DEF Counted
    <3>2. \A l \in Lines : l \notin DOMAIN stock' \cup spentLines' => due'[l] = 0
      BY <1>3, <2>1, <2>6, <3>1
    <3>3. NoUpdateLost'
      <4> SUFFICES ASSUME NEW l \in DOMAIN stock' PROVE stock'[l].quantity = due'[l] /\ due'[l] >= 0
        BY DEF NoUpdateLost
      <4>1. /\ l \in DOMAIN stock /\ l \in Lines /\ due[l] \in Int
            /\ stock[l].quantity = due[l] /\ due[l] >= 0
            /\ due'[l] = IF l \in DOMAIN r.read THEN due[l] - 1 ELSE due[l]
        BY <1>2, <1>3, <2>6, <3>1 DEF NoUpdateLost, TypeOK
      <4> HIDE DEF r
      <4> QED
        BY <2>5, <4>1
    <3>4. ReceivedOnce' /\ \A i \in Items : gone'[i] > 0 => i \in spentItems'
      BY <1>3, <3>1 DEF ReceivedOnce
    <3> QED
      BY <2>4, <3>2, <3>3, <3>4 DEF Counted
  <2>9. Kept(Requests \ {p})
    <3>1. \A q \in Requests \ {p} : holds[p] \cap holds[q] = {}
      BY DEF IInv, Exclusive
    <3>2. \A q \in Requests \ {p} : \A l \in DOMAIN stock :
             <<"line", l>> \in holds[q] => l \in DOMAIN stock' /\ stock'[l] = stock[l]
      BY <2>1, <2>5, <2>6, <3>1
    <3>3. \A q \in Requests \ {p} : \A s \in planned : <<"selection", s>> \in holds[q] => s \in planned'
      BY <1>3, <2>1, <3>1 DEF CloseSelection
    <3>4. \A q \in Requests \ {p} : req[q] \in ReceiveReq => req[q].fresh \cap (DOMAIN stock \cup spentLines) = {}
      BY DEF IInv, Sound, ReceptionSound, Planned
    <3>5. DOMAIN list \cap spentItems = {}
      BY <1>2 DEF TypeOK
    <3> QED
      BY <1>3, <2>6, <3>2, <3>3, <3>4, <3>5 DEF Kept
  <2> QED
    BY <1>1, <2>7, <2>8, <2>9, TableStep, EndGoesOn
<1>4. ASSUME UNCHANGED Tables PROVE IInv'
  BY <1>1, <1>4, EndStep
<1> QED
  BY <1>3, <1>4 DEF CommitDone

\* Items of the list that are taken off it have left once.
LeftOnce == gone' \in [Items -> Nat] /\ ReceivedOnce' /\ \A i \in Items : gone'[i] > 0 => i \in spentItems'

LEMMA TakenOff ==
    ASSUME TypeOK, Counted, NEW ids \in SUBSET DOMAIN list, gone' = Again(ids),
           DOMAIN list' = DOMAIN list \ ids, spentItems' = spentItems \cup ids
    PROVE  LeftOnce
<1>1. \A i \in Items : gone[i] \in Nat /\ gone'[i] = IF i \in ids THEN gone[i] + 1 ELSE gone[i]
  BY DEF Again, TypeOK
<1>2. \A i \in ids : i \in Items /\ gone[i] = 0
  BY DEF TypeOK, Counted, ReceivedOnce
<1>3. \A i \in Items : gone[i] <= 1 /\ (gone[i] > 0 => i \in spentItems)
  BY DEF Counted, ReceivedOnce
<1>4. \A i \in DOMAIN list : i \in Items /\ gone[i] = 0
  BY DEF TypeOK, Counted, ReceivedOnce
<1>5. gone' \in [Items -> Nat]
  BY <1>1 DEF Again
<1>6. ReceivedOnce'
  BY <1>1, <1>2, <1>3, <1>4 DEF ReceivedOnce
<1> QED
  BY <1>1, <1>2, <1>3, <1>5, <1>6 DEF LeftOnce

LEMMA CommitAbandonStep == ASSUME IInv, NEW p \in Requests, CommitAbandon(p) PROVE IInv'
<1> DEFINE r == req[p]
<1>0. CASE r.changed
  <2>1. UNCHANGED Tables /\ End(p)
    BY <1>0 DEF CommitAbandon
  <2> QED
    BY <2>1, EndStep
<1>00. SUFFICES ASSUME ~r.changed PROVE IInv'
  BY <1>0
<1>1. /\ r.at = "items" /\ r.left = {} /\ r \in Request /\ End(p)
      /\ list' = Remove(list, r.remove) /\ spentItems' = spentItems \cup r.remove
      /\ gone' = Again(r.remove)
      /\ CloseSelection(r.recipe)
      /\ UNCHANGED <<stock, spentLines, ingredients, due, meals>>
  BY <1>00 DEF CommitAbandon, IInv, Shape
<1>2. TypeOK /\ r \in AbandonReq /\ OutcomeSound(p) /\ Counted
  BY <1>1, KindAt DEF IInv, Sound, Shape
<1>3. /\ r.recipe \in planned /\ <<"selection", r.recipe>> \in holds[p]
      /\ \A i \in r.remove : i \in DOMAIN list /\ <<"item", i>> \in holds[p]
  <2>1. r.at # "selection"
    BY <1>1
  <2> QED
    BY <1>00, <1>1, <1>2, <2>1 DEF OutcomeSound
<1>4. PlanningEndsOnce
  BY <1>2 DEF Counted
<1>5. /\ PlanningEndsOnce' /\ planned' \subseteq Recipes /\ plans' \in [Recipes -> Nat]
      /\ ended' \in [Recipes -> Nat] /\ meals' \in [Recipes -> Nat]
  <2>1. meals' = meals
    BY <1>1
  <2> HIDE DEF r
  <2> QED
    BY <1>1, <1>2, <1>3, <1>4, <2>1, PlanningEnds
<1>6. DOMAIN list' = DOMAIN list \ r.remove /\ DOMAIN list \cap spentItems = {}
  BY <1>1, <1>2 DEF Remove, TypeOK
<1>61. LeftOnce
  BY <1>1, <1>2, <1>3, <1>6, TakenOff DEF Counted, TypeOK
<1>7. TypeOK'
  <2>1. /\ list' \in [DOMAIN list' -> Item] /\ DOMAIN list' \subseteq Items \ spentItems'
        /\ spentItems' \subseteq Items
    BY <1>1, <1>2, <1>3 DEF TypeOK, Remove
  <2> QED
    BY <1>1, <1>2, <1>5, <1>61, <2>1 DEF TypeOK, LeftOnce
<1>8. Counted'
  BY <1>1, <1>2, <1>5, <1>61 DEF Counted, LeftOnce, NoUpdateLost
<1>9. Kept(Requests \ {p})
  <2>1. \A q \in Requests \ {p} : holds[p] \cap holds[q] = {}
    BY DEF IInv, Exclusive
  <2>2. \A q \in Requests \ {p} : req[q] \in ReceiveReq => req[q].fresh \cap (DOMAIN stock \cup spentLines) = {}
    BY DEF IInv, Sound, ReceptionSound, Planned
  <2>3. \A q \in Requests \ {p} : \A s \in planned : <<"selection", s>> \in holds[q] => s \in planned'
    BY <1>1, <1>3, <2>1 DEF CloseSelection
  <2>4. \A q \in Requests \ {p} : \A i \in DOMAIN list : <<"item", i>> \in holds[q] => i \in DOMAIN list'
    BY <1>3, <1>6, <2>1
  <2> QED
    BY <1>1, <1>6, <2>2, <2>3, <2>4 DEF Kept
<1> QED
  BY <1>1, <1>7, <1>8, <1>9, TableStep, EndGoesOn

\* A step that writes the list alone.
LEMMA ListStep ==
    ASSUME IInv, NEW Q \in SUBSET Requests, GoOn(Q),
           UNCHANGED <<stock, spentLines, planned, ingredients, due, plans, ended, meals>>,
           UNCHANGED gone \/ LeftOnce,
           list' \in [DOMAIN list' -> Item], DOMAIN list' \subseteq Items \ spentItems',
           spentItems' \subseteq Items, DOMAIN list \cup spentItems \subseteq DOMAIN list' \cup spentItems',
           DOMAIN list' \cap spentItems = {},
           \A q \in Q : \A i \in DOMAIN list : <<"item", i>> \in holds[q] => i \in DOMAIN list'
    PROVE  IInv'
<1>1. TypeOK /\ Counted
  BY DEF IInv, Shape
<1>2. TypeOK'
  <2>1. gone' \in [Items -> Nat]
    BY <1>1 DEF TypeOK, LeftOnce
  <2> QED
    BY <1>1, <2>1 DEF TypeOK
<1>3. spentItems \subseteq spentItems'
  OBVIOUS
<1>4. Counted'
  <2>1. \A i \in Items : gone[i] \in Nat
    BY <1>1 DEF TypeOK
  <2>2. \A i \in Items : i \notin spentItems => gone[i] = 0
    BY <1>1, <2>1 DEF Counted
  <2>3. ReceivedOnce' /\ \A i \in Items : gone'[i] > 0 => i \in spentItems'
    <3>1. CASE UNCHANGED gone
      BY <1>1, <1>2, <1>3, <2>2, <3>1 DEF Counted, ReceivedOnce, TypeOK
    <3>2. CASE LeftOnce
      BY <3>2 DEF LeftOnce
    <3> QED
      BY <3>1, <3>2
  <2>4. NoUpdateLost' /\ PlanningEndsOnce'
    BY <1>1 DEF Counted, NoUpdateLost, PlanningEndsOnce
  <2> QED
    BY <1>1, <2>3, <2>4 DEF Counted
<1>5. Kept(Q)
  <2>1. \A q \in Q : req[q] \in ReceiveReq => req[q].fresh \cap (DOMAIN stock \cup spentLines) = {}
    BY DEF IInv, Sound, ReceptionSound, Planned
  <2> QED
    BY <2>1 DEF Kept
<1> QED
  BY <1>2, <1>4, <1>5, TableStep

\* A step that writes the stock alone.
LEMMA StockStep ==
    ASSUME IInv, UNCHANGED <<list, spentItems, planned, ingredients, req, holds, gone, plans, ended, meals>>,
           stock' \in [DOMAIN stock' -> Line], DOMAIN stock' \subseteq Lines \ spentLines', spentLines' \subseteq Lines,
           due' \in [Lines -> Int], \A l \in Lines : l \notin DOMAIN stock' \cup spentLines' => due'[l] = 0,
           NoUpdateLost',
           \A q \in Requests : \A l \in DOMAIN stock :
               <<"line", l>> \in holds[q] => l \in DOMAIN stock' /\ stock'[l] = stock[l],
           \A q \in Requests : req[q] \in ReceiveReq => req[q].fresh \cap (DOMAIN stock' \cup spentLines') = {}
    PROVE  IInv'
<1>1. TypeOK /\ Counted
  BY DEF IInv, Shape
<1>2. TypeOK'
  BY <1>1 DEF TypeOK
<1>3. Counted'
  BY <1>1 DEF Counted, ReceivedOnce, PlanningEndsOnce
<1>4. Kept(Requests)
  BY <1>1 DEF Kept, TypeOK
<1> QED
  BY <1>2, <1>3, <1>4, TableStep, AllGoOn

\* A step that writes what the recipes are.
LEMMA RecipeStep ==
    ASSUME IInv, UNCHANGED <<stock, spentLines, list, spentItems, req, holds, due, gone, meals>>,
           planned' \subseteq Recipes, ingredients' \in [Recipes -> [Articles -> Nat]],
           plans' \in [Recipes -> Nat], ended' \in [Recipes -> Nat], PlanningEndsOnce',
           \A q \in Requests : \A r \in planned : <<"selection", r>> \in holds[q] => r \in planned'
    PROVE  IInv'
<1>1. TypeOK /\ Counted
  BY DEF IInv, Shape
<1>2. TypeOK'
  BY <1>1 DEF TypeOK
<1>3. Counted'
  BY <1>1 DEF Counted, ReceivedOnce, NoUpdateLost
<1>4. Kept(Requests)
  <2>1. \A q \in Requests : req[q] \in ReceiveReq => req[q].fresh \cap (DOMAIN stock \cup spentLines) = {}
    BY DEF IInv, Sound, ReceptionSound, Planned
  <2> QED
    BY <1>1, <2>1 DEF Kept, TypeOK
<1> QED
  BY <1>2, <1>3, <1>4, TableStep, AllGoOn

LEMMA InsertGeneratedStep == ASSUME IInv, NEW p \in Requests, InsertGenerated(p) PROVE IInv'
<1> DEFINE wanted == req[p].wanted
           missing == {w[1] : w \in wanted}
<1>1. req[p].at = "insert" /\ req[p] \in Request /\ TypeOK /\ End(p)
      /\ UNCHANGED <<stock, spentLines, spentItems, planned, ingredients, due, gone, plans, ended, meals>>
  BY DEF InsertGenerated, IInv, Shape
<1>2. missing \subseteq Articles
  <2>1. wanted \subseteq Articles \X Recipes
    BY <1>1, KindAt DEF GenerateReq
  <2> QED
    BY <2>1
<1> HIDE DEF missing, wanted
<1>3. PICK id \in [missing -> NewItems], recipe \in [missing -> Recipes] :
        list' = [i \in DOMAIN list \cup Range(id) |->
                      IF i \in DOMAIN list THEN list[i]
                      ELSE LET a == CHOOSE b \in missing : id[b] = i
                           IN [article |-> a, checked |-> FALSE, recipe |-> recipe[a]]]
  BY DEF InsertGenerated, missing, wanted
<1>4. Range(id) \subseteq NewItems /\ \A i \in Range(id) : \E b \in missing : id[b] = i
  BY DEF Range
<1>5. DOMAIN list' = DOMAIN list \cup Range(id) /\ NewItems \subseteq Items \ (DOMAIN list \cup spentItems)
      /\ DOMAIN list \subseteq Items \ spentItems
  BY <1>1, <1>3 DEF NewItems, TypeOK
<1>6. \A i \in DOMAIN list' : list'[i] \in Item
  <2> SUFFICES ASSUME NEW i \in DOMAIN list' PROVE list'[i] \in Item
    OBVIOUS
  <2>1. CASE i \in DOMAIN list
    BY <1>1, <1>3, <1>5, <2>1 DEF TypeOK
  <2>2. CASE i \notin DOMAIN list
    <3> DEFINE a == CHOOSE b \in missing : id[b] = i
    <3>1. a \in missing
      BY <1>4, <1>5, <2>2
    <3>2. list'[i] = [article |-> a, checked |-> FALSE, recipe |-> recipe[a]]
      BY <1>3, <1>5, <2>2
    <3> HIDE DEF a
    <3> QED
      BY <1>2, <3>1, <3>2 DEF Item
  <2> QED
    BY <2>1, <2>2
<1>7. list' \in [DOMAIN list' -> Item]
  <2>1. list' = [i \in DOMAIN list' |-> list'[i]]
    BY <1>3
  <2> QED
    BY <1>6, <2>1
<1>8. spentItems \subseteq Items
  BY <1>1 DEF TypeOK
<1>9. GoOn(Requests \ {p})
  BY <1>1, EndGoesOn
<1> QED
  BY <1>1, <1>4, <1>5, <1>7, <1>8, <1>9, ListStep

LEMMA SelectRecipeStep == ASSUME IInv, SelectRecipe PROVE IInv'
<1>1. PICK r \in Recipes \ planned : planned' = planned \cup {r} /\ plans' = [plans EXCEPT ![r] = @ + 1]
  BY DEF SelectRecipe
<1>2. /\ UNCHANGED <<stock, spentLines, list, spentItems, ingredients, req, holds, due, gone, ended, meals>>
      /\ TypeOK /\ PlanningEndsOnce
  BY DEF SelectRecipe, IInv, Shape, Counted
<1>3. plans \in [Recipes -> Nat] /\ ended \in [Recipes -> Nat] /\ planned \subseteq Recipes
      /\ ingredients \in [Recipes -> [Articles -> Nat]]
  BY <1>2 DEF TypeOK
<1>4. plans' \in [Recipes -> Nat]
  BY <1>1, <1>3
<1>5. PlanningEndsOnce'
  <2> SUFFICES ASSUME NEW s \in Recipes
               PROVE  ended[s] = plans'[s] - (IF s \in planned' THEN 1 ELSE 0) /\ meals[s] <= ended[s]
    BY <1>2 DEF PlanningEndsOnce
  <2>1. /\ ended[s] = plans[s] - (IF s \in planned THEN 1 ELSE 0) /\ meals[s] <= ended[s]
        /\ ended[s] \in Nat /\ plans[s] \in Nat
    BY <1>2, <1>3 DEF PlanningEndsOnce
  <2>2. CASE s = r
    BY <1>1, <1>3, <2>1, <2>2
  <2>3. CASE s # r
    BY <1>1, <1>3, <2>1, <2>3
  <2> QED
    BY <2>2, <2>3
<1> QED
  BY <1>1, <1>2, <1>3, <1>4, <1>5, RecipeStep

LEMMA DeselectRecipeStep == ASSUME IInv, DeselectRecipe PROVE IInv'
<1>1. PICK r \in planned : Free(SelectionRow(r)) /\ CloseSelection(r)
  BY DEF DeselectRecipe
<1>2. /\ UNCHANGED <<stock, spentLines, list, spentItems, ingredients, req, holds, due, gone, meals>>
      /\ TypeOK /\ PlanningEndsOnce
  BY DEF DeselectRecipe, IInv, Shape, Counted
<1>3. /\ PlanningEndsOnce' /\ planned' \subseteq Recipes /\ plans' \in [Recipes -> Nat]
      /\ ended' \in [Recipes -> Nat]
  BY <1>1, <1>2, PlanningEnds
<1>4. \A q \in Requests : \A s \in planned : <<"selection", s>> \in holds[q] => s \in planned'
  BY <1>1 DEF CloseSelection, Free, SelectionRow
<1>5. ingredients' \in [Recipes -> [Articles -> Nat]]
  BY <1>2 DEF TypeOK
<1> QED
  BY <1>2, <1>3, <1>4, <1>5, RecipeStep

LEMMA UpdateRecipeStep == ASSUME IInv, UpdateRecipe PROVE IInv'
<1>1. PICK r \in Recipes, rows \in [Articles -> {0, 1}] : ingredients' = [ingredients EXCEPT ![r] = rows]
  BY DEF UpdateRecipe
<1>2. /\ UNCHANGED <<stock, spentLines, list, spentItems, planned, req, holds, due, gone, plans, ended, meals>>
      /\ TypeOK /\ PlanningEndsOnce
  BY DEF UpdateRecipe, IInv, Shape, Counted
<1>3. ingredients' \in [Recipes -> [Articles -> Nat]] /\ planned \subseteq Recipes
      /\ plans \in [Recipes -> Nat] /\ ended \in [Recipes -> Nat]
  BY <1>1, <1>2 DEF TypeOK
<1>4. PlanningEndsOnce'
  BY <1>2 DEF PlanningEndsOnce
<1> QED
  BY <1>2, <1>3, <1>4, RecipeStep

LEMMA FreshOf ==
    ASSUME IInv, NEW q \in Requests, req[q] \in ReceiveReq
    PROVE  req[q].fresh \subseteq Fresh /\ req[q].fresh \cap (DOMAIN stock \cup spentLines) = {}
<1>1. req[q].at # "idle" /\ req[q].op = "receive"
  BY DEF ReceiveReq
<1>2. Planned(q)
  BY DEF IInv, Sound, ReceptionSound
<1> QED
  BY <1>1, <1>2 DEF Fresh, Planned

LEMMA CreateStockItemStep == ASSUME PantryAssumption, IInv, CreateStockItem PROVE IInv'
<1> DEFINE new == Min(NewLines)
<1>1. PICK line \in Line : stock' = Put(stock, new, line) /\ due' = [due EXCEPT ![new] = line.quantity]
  BY DEF CreateStockItem
<1>2. /\ UNCHANGED <<spentLines, list, spentItems, planned, ingredients, req, holds, gone, plans, ended, meals>>
      /\ TypeOK /\ Counted /\ NewLines # {}
  BY DEF CreateStockItem, IInv, Shape
<1>3. new \in NewLines
  <2>1. NewLines \in SUBSET Nat
    BY DEF NewLines, PantryAssumption
  <2> QED
    BY <1>2, <2>1, MinIsLeast
<1> HIDE DEF new
<1>4. new \in Lines \ (DOMAIN stock \cup spentLines \cup Fresh)
  BY <1>3 DEF NewLines
<1>5. /\ DOMAIN stock' = DOMAIN stock \cup {new} /\ stock'[new] = line
      /\ \A l \in DOMAIN stock : stock'[l] = stock[l]
      /\ stock' \in [DOMAIN stock' -> Line]
  BY <1>1, <1>2, <1>4 DEF Put, TypeOK
<1>6. /\ due' \in [Lines -> Int] /\ due'[new] = line.quantity /\ line.quantity >= 0
      /\ \A l \in Lines \ {new} : due'[l] = due[l]
  <2>1. line.quantity \in Int /\ line.quantity >= 0
    BY DEF Line
  <2> QED
    BY <1>1, <1>2, <1>4, <2>1 DEF TypeOK
<1>7. NoUpdateLost' /\ \A l \in Lines : l \notin DOMAIN stock' \cup spentLines' => due'[l] = 0
  <2>1. NoUpdateLost /\ \A l \in Lines : l \notin DOMAIN stock \cup spentLines => due[l] = 0
    BY <1>2 DEF Counted
  <2>2. DOMAIN stock \subseteq Lines
    BY <1>2 DEF TypeOK
  <2> QED
    BY <1>2, <1>4, <1>5, <1>6, <2>1, <2>2 DEF NoUpdateLost
<1>8. \A q \in Requests : req[q] \in ReceiveReq => req[q].fresh \cap (DOMAIN stock' \cup spentLines') = {}
  BY <1>2, <1>4, <1>5, FreshOf
<1>9. DOMAIN stock' \subseteq Lines \ spentLines' /\ spentLines' \subseteq Lines
  BY <1>2, <1>4, <1>5 DEF TypeOK
<1> QED
  BY <1>2, <1>5, <1>6, <1>7, <1>8, <1>9, StockStep

LEMMA UpdateStockItemStep == ASSUME IInv, UpdateStockItem PROVE IInv'
<1>1. PICK k \in DOMAIN stock, line \in Line :
        Free(LineRow(k)) /\ stock' = [stock EXCEPT ![k] = line] /\ due' = [due EXCEPT ![k] = line.quantity]
  BY DEF UpdateStockItem
<1>2. /\ UNCHANGED <<spentLines, list, spentItems, planned, ingredients, req, holds, gone, plans, ended, meals>>
      /\ TypeOK /\ Counted
  BY DEF UpdateStockItem, IInv, Shape
<1>3. DOMAIN stock \subseteq Lines \ spentLines /\ spentLines \subseteq Lines /\ due \in [Lines -> Int]
  BY <1>2 DEF TypeOK
<1>4. /\ DOMAIN stock' = DOMAIN stock /\ stock'[k] = line
      /\ \A l \in DOMAIN stock \ {k} : stock'[l] = stock[l]
      /\ stock' \in [DOMAIN stock' -> Line]
  BY <1>1, <1>2 DEF TypeOK
<1>5. /\ due' \in [Lines -> Int] /\ due'[k] = line.quantity /\ line.quantity >= 0
      /\ \A l \in Lines \ {k} : due'[l] = due[l]
  <2>1. line.quantity \in Int /\ line.quantity >= 0
    BY DEF Line
  <2> QED
    BY <1>1, <1>3, <2>1
<1>6. NoUpdateLost' /\ \A l \in Lines : l \notin DOMAIN stock' \cup spentLines' => due'[l] = 0
  <2>1. NoUpdateLost /\ \A l \in Lines : l \notin DOMAIN stock \cup spentLines => due[l] = 0
    BY <1>2 DEF Counted
  <2> QED
    BY <1>2, <1>3, <1>4, <1>5, <2>1 DEF NoUpdateLost
<1>7. \A q \in Requests : req[q] \in ReceiveReq => req[q].fresh \cap (DOMAIN stock' \cup spentLines') = {}
  BY <1>2, <1>4, FreshOf
<1>8. \A q \in Requests : \A l \in DOMAIN stock :
         <<"line", l>> \in holds[q] => l \in DOMAIN stock' /\ stock'[l] = stock[l]
  BY <1>1, <1>4 DEF Free, LineRow
<1> QED
  BY <1>2, <1>3, <1>4, <1>5, <1>6, <1>7, <1>8, StockStep

LEMMA DeleteStockItemStep == ASSUME IInv, DeleteStockItem PROVE IInv'
<1>1. PICK k \in DOMAIN stock :
        Free(LineRow(k)) /\ stock' = Remove(stock, {k}) /\ spentLines' = spentLines \cup {k}
  BY DEF DeleteStockItem
<1>2. /\ UNCHANGED <<list, spentItems, planned, ingredients, req, holds, due, gone, plans, ended, meals>>
      /\ TypeOK /\ Counted
  BY DEF DeleteStockItem, IInv, Shape
<1>3. DOMAIN stock \subseteq Lines \ spentLines /\ spentLines \subseteq Lines /\ due' \in [Lines -> Int]
  BY <1>2 DEF TypeOK
<1>4. /\ DOMAIN stock' = DOMAIN stock \ {k} /\ \A l \in DOMAIN stock' : stock'[l] = stock[l]
      /\ stock' \in [DOMAIN stock' -> Line]
  BY <1>1, <1>2 DEF TypeOK, Remove
<1>5. NoUpdateLost' /\ \A l \in Lines : l \notin DOMAIN stock' \cup spentLines' => due'[l] = 0
  <2>1. NoUpdateLost /\ \A l \in Lines : l \notin DOMAIN stock \cup spentLines => due[l] = 0
    BY <1>2 DEF Counted
  <2> QED
    BY <1>1, <1>2, <1>4, <2>1 DEF NoUpdateLost
<1>6. \A q \in Requests : req[q] \in ReceiveReq => req[q].fresh \cap (DOMAIN stock' \cup spentLines') = {}
  BY <1>1, <1>2, <1>4, FreshOf
<1>7. \A q \in Requests : \A l \in DOMAIN stock :
         <<"line", l>> \in holds[q] => l \in DOMAIN stock' /\ stock'[l] = stock[l]
  BY <1>1, <1>4 DEF Free, LineRow
<1>8. DOMAIN stock' \subseteq Lines \ spentLines' /\ spentLines' \subseteq Lines
  BY <1>1, <1>3, <1>4
<1> QED
  BY <1>2, <1>3, <1>4, <1>5, <1>6, <1>7, <1>8, StockStep

\* An endpoint that writes items nobody has locked.
LEMMA EditStep ==
    ASSUME IInv, NEW i \in DOMAIN list, NEW item \in Item, list' = [list EXCEPT ![i] = item],
           UNCHANGED <<stock, spentLines, spentItems, planned, ingredients, req, holds, due, gone, plans, ended, meals>>
    PROVE  IInv'
<1>1. list \in [DOMAIN list -> Item] /\ DOMAIN list \subseteq Items \ spentItems /\ spentItems \subseteq Items
  BY DEF IInv, Shape, TypeOK
<1>2. DOMAIN list' = DOMAIN list /\ list' \in [DOMAIN list' -> Item]
  BY <1>1
<1> QED
  BY <1>1, <1>2, AllGoOn, ListStep

LEMMA CheckGroceryItemStep == ASSUME IInv, CheckGroceryItem PROVE IInv'
<1>1. PICK i \in DOMAIN list, checked \in BOOLEAN : list' = [list EXCEPT ![i].checked = checked]
  BY DEF CheckGroceryItem
<1>2. UNCHANGED <<stock, spentLines, spentItems, planned, ingredients, req, holds, due, gone, plans, ended, meals>>
  BY DEF CheckGroceryItem
<1> DEFINE item == [list[i] EXCEPT !.checked = checked]
<1>3. list[i] \in Item
  BY DEF IInv, Shape, TypeOK
<1>4. item \in Item /\ list' = [list EXCEPT ![i] = item]
  BY <1>1, <1>3 DEF Item
<1> HIDE DEF item
<1> QED
  BY <1>2, <1>4, EditStep

LEMMA UpdateGroceryItemStep == ASSUME IInv, UpdateGroceryItem PROVE IInv'
<1>1. PICK i \in DOMAIN list, a \in Articles : list' = [list EXCEPT ![i].article = a]
  BY DEF UpdateGroceryItem
<1>2. UNCHANGED <<stock, spentLines, spentItems, planned, ingredients, req, holds, due, gone, plans, ended, meals>>
  BY DEF UpdateGroceryItem
<1> DEFINE item == [list[i] EXCEPT !.article = a]
<1>3. list[i] \in Item
  BY DEF IInv, Shape, TypeOK
<1>4. item \in Item /\ list' = [list EXCEPT ![i] = item]
  BY <1>1, <1>3 DEF Item
<1> HIDE DEF item
<1> QED
  BY <1>2, <1>4, EditStep

LEMMA CreateGroceryItemStep == ASSUME PantryAssumption, IInv, CreateGroceryItem PROVE IInv'
<1> DEFINE new == Min(NewItems)
<1>1. PICK a \in Articles : list' = Put(list, new, [article |-> a, checked |-> FALSE, recipe |-> None])
  BY DEF CreateGroceryItem
<1>2. /\ UNCHANGED <<stock, spentLines, spentItems, planned, ingredients, req, holds, due, gone, plans, ended, meals>>
      /\ TypeOK /\ NewItems # {}
  BY DEF CreateGroceryItem, IInv, Shape
<1>3. new \in NewItems
  <2>1. NewItems \in SUBSET Nat
    BY DEF NewItems, PantryAssumption
  <2> QED
    BY <1>2, <2>1, MinIsLeast
<1> HIDE DEF new
<1>4. new \in Items \ (DOMAIN list \cup spentItems)
  BY <1>3 DEF NewItems
<1> DEFINE item == [article |-> a, checked |-> FALSE, recipe |-> None]
<1>5. item \in Item /\ list' = Put(list, new, item)
  BY <1>1 DEF Item
<1> HIDE DEF item
<1>6. DOMAIN list' = DOMAIN list \cup {new} /\ list' \in [DOMAIN list' -> Item]
      /\ DOMAIN list \subseteq Items \ spentItems /\ spentItems \subseteq Items
  BY <1>2, <1>5 DEF Put, TypeOK
<1> QED
  BY <1>2, <1>4, <1>6, AllGoOn, ListStep

LEMMA DeleteGroceryItemStep == ASSUME IInv, DeleteGroceryItem PROVE IInv'
<1>1. PICK i \in DOMAIN list :
        Free(ItemRow(i)) /\ list' = Remove(list, {i}) /\ spentItems' = spentItems \cup {i}
        /\ gone' = Again({i})
  BY DEF DeleteGroceryItem
<1>2. /\ UNCHANGED <<stock, spentLines, planned, ingredients, req, holds, due, plans, ended, meals>>
      /\ TypeOK /\ Counted
  BY DEF DeleteGroceryItem, IInv, Shape
<1>3. /\ DOMAIN list' = DOMAIN list \ {i} /\ list' \in [DOMAIN list' -> Item]
      /\ DOMAIN list \subseteq Items \ spentItems /\ spentItems \subseteq Items
  BY <1>1, <1>2 DEF Remove, TypeOK
<1>4. \A q \in Requests : \A j \in DOMAIN list : <<"item", j>> \in holds[q] => j \in DOMAIN list'
  BY <1>1, <1>3 DEF Free, ItemRow
<1>5. LeftOnce
  BY <1>1, <1>2, <1>3, TakenOff
<1> QED
  BY <1>1, <1>2, <1>3, <1>4, <1>5, AllGoOn, ListStep

-----------------------------------------------------------------------------
(* The invariant.                                                             *)

\* What an instance plans at first is recipes of the family.
InstanceAssumption == \A mix \in Mixes : mix[2] \subseteq Recipes

LEMMA InitIInv == ASSUME PantryAssumption, InstanceAssumption, Init PROVE IInv
<1>1. planned \subseteq Recipes
  BY DEF Init, InstanceAssumption
<1>2. /\ stock = FirstStock /\ list = FirstList /\ ingredients = FirstIngredients
      /\ spentLines = {} /\ spentItems = {}
      /\ \A p \in Requests : req[p] = Idle /\ holds[p] = {}
      /\ req = [p \in Requests |-> Idle] /\ holds = [p \in Requests |-> {}]
      /\ due = [l \in Lines |-> IF l \in DOMAIN stock THEN stock[l].quantity ELSE 0]
      /\ gone = [i \in Items |-> 0] /\ ended = [r \in Recipes |-> 0] /\ meals = [r \in Recipes |-> 0]
      /\ plans = [r \in Recipes |-> IF r \in planned THEN 1 ELSE 0]
  BY DEF Init
<1>3. stock \in [DOMAIN stock -> Line] /\ DOMAIN stock \subseteq Lines
      /\ list \in [DOMAIN list -> Item] /\ DOMAIN list \subseteq Items
      /\ ingredients \in [Recipes -> [Articles -> Nat]]
  BY <1>2 DEF PantryAssumption, Line, Item
<1>4. \A l \in DOMAIN stock : l \in Lines /\ due[l] = stock[l].quantity /\ due[l] \in Int /\ due[l] >= 0
  BY <1>2, <1>3 DEF Line
<1>5. TypeOK
  <2>1. due \in [Lines -> Int]
    BY <1>2, <1>4
  <2>2. gone \in [Items -> Nat] /\ plans \in [Recipes -> Nat] /\ ended \in [Recipes -> Nat] /\ meals \in [Recipes -> Nat]
    BY <1>2
  <2> QED
    BY <1>1, <1>2, <1>3, <2>1, <2>2 DEF TypeOK
<1>6. Shape
  <2>1. Idle \in Request
    BY DEF Request
  <2> QED
    BY <1>2, <1>5, <2>1 DEF Shape
<1>7. Exclusive /\ FreshApart
  BY <1>2, Kinds DEF Exclusive, FreshApart
<1>8. \A p \in Requests : Sound(p)
  BY <1>2, Kinds DEF Sound, ReceptionSound, OutcomeSound, InOrder
<1>9. Counted
  <2>1. NoUpdateLost /\ \A l \in Lines : l \notin DOMAIN stock \cup spentLines => due[l] = 0
    BY <1>2, <1>4 DEF NoUpdateLost
  <2>2. ReceivedOnce /\ \A i \in Items : gone[i] > 0 => i \in spentItems
    BY <1>2, <1>3 DEF ReceivedOnce
  <2>3. PlanningEndsOnce
    BY <1>2 DEF PlanningEndsOnce
  <2> QED
    BY <2>1, <2>2, <2>3 DEF Counted
<1> QED
  BY <1>6, <1>7, <1>8, <1>9 DEF IInv

LEMMA Stuttering == ASSUME IInv, UNCHANGED vars PROVE IInv'
<1>1. UNCHANGED <<list, spentItems, planned, ingredients, req, holds, gone, plans, ended, meals, stock, spentLines, due>>
  BY DEF vars
<1>2. TypeOK' /\ Counted'
  BY <1>1 DEF IInv, Shape, TypeOK, Counted, NoUpdateLost, ReceivedOnce, PlanningEndsOnce
<1>3. Kept(Requests)
  <2>1. \A q \in Requests : req[q] \in ReceiveReq => req[q].fresh \cap (DOMAIN stock \cup spentLines) = {}
    BY FreshOf
  <2>2. DOMAIN list \cap spentItems = {}
    BY DEF IInv, Shape, TypeOK
  <2> QED
    BY <1>1, <2>1, <2>2 DEF Kept
<1> QED
  BY <1>1, <1>2, <1>3, AllGoOn, TableStep

LEMMA NextIInv == ASSUME PantryAssumption, IInv, Next PROVE IInv'
<1>1. ASSUME NEW p \in Requests, GiveUp(p) PROVE IInv'
  BY <1>1, EndStep DEF GiveUp
<1>2. ASSUME NEW p \in Requests,
             StartReceive(p) \/ LockLot(p) \/ PlanReception(p) \/ Land(p) \/ CommitReception(p)
      PROVE  IInv'
  BY <1>2, StartReceiveStep, LockLotStep, PlanReceptionStep, LandStep, CommitReceptionStep
<1>3. ASSUME NEW p \in Requests,
             StartDone(p) \/ StartAbandon(p) \/ LockSelection(p) \/ LockRecipe(p)
             \/ ReadIngredients(p) \/ LockLine(p) \/ CommitDone(p) \/ LockItem(p) \/ CommitAbandon(p)
      PROVE  IInv'
  BY <1>3, StartDoneStep, StartAbandonStep, LockSelectionStep, LockRecipeStep, ReadIngredientsStep,
     LockLineStep, CommitDoneStep, LockItemStep, CommitAbandonStep
<1>4. ASSUME NEW p \in Requests, StartGenerate(p) \/ InsertGenerated(p) PROVE IInv'
  BY <1>4, StartGenerateStep, InsertGeneratedStep
<1>5. ASSUME \/ SelectRecipe \/ DeselectRecipe \/ UpdateRecipe
             \/ CreateStockItem \/ UpdateStockItem \/ DeleteStockItem
             \/ CheckGroceryItem \/ UpdateGroceryItem \/ CreateGroceryItem \/ DeleteGroceryItem
      PROVE  IInv'
  BY <1>5, SelectRecipeStep, DeselectRecipeStep, UpdateRecipeStep, CreateStockItemStep, UpdateStockItemStep,
     DeleteStockItemStep, CheckGroceryItemStep, UpdateGroceryItemStep, CreateGroceryItemStep, DeleteGroceryItemStep
<1> QED
  BY <1>1, <1>2, <1>3, <1>4, <1>5 DEF Next

\* The shape of the tables, of the requests and of what they hold, the locks nobody shares,
\* what each request may rely on, and the histories, in every state.
THEOREM Invariant == ASSUME PantryAssumption, InstanceAssumption PROVE Spec => []IInv
<1>1. Init => IInv
  BY InitIInv
<1>2. IInv /\ [Next]_vars => IInv'
  BY NextIInv, Stuttering
<1> QED
  BY <1>1, <1>2, PTL DEF Spec

\* Receptions, outcomes and edits of one line at once lose none of what each was told it did
\* (receive adds in the database, apply_done writes over the line it has locked).
THEOREM NothingIsLost == ASSUME PantryAssumption, InstanceAssumption PROVE Spec => []NoUpdateLost
<1>1. IInv => NoUpdateLost
  BY DEF IInv, Counted
<1> QED
  BY <1>1, Invariant, PTL

\* An item enters the stock once, and leaves the list for nothing else (receive locks its items
\* before it reads them).
THEOREM NothingIsReceivedTwice == ASSUME PantryAssumption, InstanceAssumption PROVE Spec => []ReceivedOnce
<1>1. IInv => ReceivedOnce
  BY DEF IInv, Counted
<1> QED
  BY <1>1, Invariant, PTL

\* Each planning ends once, done, abandoned or taken back (planned_selection locks the row it
\* will close).
THEOREM EveryPlanningEndsOnce == ASSUME PantryAssumption, InstanceAssumption PROVE Spec => []PlanningEndsOnce
<1>1. IInv => PlanningEndsOnce
  BY DEF IInv, Counted
<1> QED
  BY <1>1, Invariant, PTL

-----------------------------------------------------------------------------
(* Outcomes do not wait for each other.                                       *)

\* A reception is at work only where receptions are.
NoReception == "receive" \notin beside => \A p \in Requests : req[p] \notin ReceiveReq

LEMMA OutcomeStaysOne ==
    ASSUME NEW r \in DoneReq \cup AbandonReq
    PROVE  /\ r.op # "receive"
           /\ \A x : [r EXCEPT !.at = x].op = r.op /\ [r EXCEPT !.left = x].op = r.op
           /\ \A x, y : [r EXCEPT !.at = x, !.rows = y].op = r.op
           /\ \A x, y : [r EXCEPT !.left = x, !.read = y].op = r.op
BY DEF DoneReq, AbandonReq

LEMMA ReceptionsStart ==
    ASSUME IInv, NEW p \in Requests, Next, req'[p] \in ReceiveReq
    PROVE  req[p] \in ReceiveReq \/ "receive" \in beside
<1>0. /\ \A r \in ReceiveReq : r.op = "receive"
      /\ Idle \notin ReceiveReq /\ \A q \in Requests : req[q] \in Request
      /\ req \in [Requests -> Request]
  BY Kinds DEF ReceiveReq, IInv, Shape
<1>1. ASSUME NEW q \in Requests, NEW r, NEW rows, Step(q, r, rows), r.op # "receive"
      PROVE  req[p] \in ReceiveReq
  BY <1>0, <1>1 DEF Step
<1>2. ASSUME NEW q \in Requests, End(q)
      PROVE  req[p] \in ReceiveReq
  BY <1>0, <1>2 DEF End
<1>3. ASSUME NEW q \in Requests, req[q].at \in {"lot", "plan", "land"},
             End(q) \/ \E r, rows : Step(q, r, rows)
      PROVE  req[p] \in ReceiveReq
  <2>1. req[q] \in ReceiveReq
    BY <1>0, <1>3, KindAt
  <2> QED
    BY <1>0, <1>3, <2>1 DEF Step, End
<1>4. ASSUME UNCHANGED req PROVE req[p] \in ReceiveReq
  BY <1>4
<1>5. ASSUME NEW q \in Requests,
             GiveUp(q) \/ StartReceive(q) \/ LockLot(q) \/ PlanReception(q) \/ Land(q) \/ CommitReception(q)
      PROVE  req[p] \in ReceiveReq \/ "receive" \in beside
  <2>1. CASE GiveUp(q)
    BY <1>2, <2>1 DEF GiveUp
  <2>2. CASE StartReceive(q)
    BY <2>2 DEF StartReceive
  <2>3. CASE LockLot(q)
    BY <1>3, <2>3 DEF LockLot
  <2>4. CASE PlanReception(q)
    BY <1>3, <2>4 DEF PlanReception
  <2>5. CASE Land(q)
    BY <1>3, <2>5 DEF Land
  <2>6. CASE CommitReception(q)
    BY <1>3, <2>6 DEF CommitReception
  <2> QED
    BY <1>5, <2>1, <2>2, <2>3, <2>4, <2>5, <2>6
<1>6. ASSUME NEW q \in Requests, StartDone(q) \/ StartAbandon(q) \/ StartGenerate(q)
      PROVE  req[p] \in ReceiveReq
  <2>1. CASE StartDone(q)
    BY <1>1, <2>1 DEF StartDone
  <2>2. CASE StartAbandon(q)
    BY <1>1, <2>2 DEF StartAbandon
  <2>3. CASE StartGenerate(q)
    BY <1>1, <2>3 DEF StartGenerate
  <2> QED
    BY <1>6, <2>1, <2>2, <2>3
<1>7. ASSUME NEW q \in Requests,
             LockSelection(q) \/ LockRecipe(q) \/ ReadIngredients(q) \/ LockLine(q) \/ LockItem(q)
      PROVE  req[p] \in ReceiveReq
  <2>1. req[q].at \in {"selection", "recipe", "names", "lines", "items"}
    BY <1>7 DEF LockSelection, LockRecipe, ReadIngredients, LockLine, LockItem
  <2>2. req[q] \in DoneReq \cup AbandonReq
    BY <1>0, <2>1, KindAt
  <2> DEFINE r == req[q]
  <2>3. /\ r.op # "receive"
        /\ \A x : [r EXCEPT !.at = x].op = r.op /\ [r EXCEPT !.left = x].op = r.op
        /\ \A x, y : [r EXCEPT !.at = x, !.rows = y].op = r.op
        /\ \A x, y : [r EXCEPT !.left = x, !.read = y].op = r.op
    BY <2>2, OutcomeStaysOne
  <2>4. End(q) \/ \E s, rows : Step(q, s, rows) /\ s.op # "receive"
    <3>1. CASE LockSelection(q)
      BY <2>3, <3>1 DEF LockSelection
    <3>2. CASE LockRecipe(q)
      <4> DEFINE s == [r EXCEPT !.at = "names"]
      <4>1. Step(q, s, RecipeRow(r.recipe))
        BY <3>2 DEF LockRecipe
      <4>2. s.op # "receive"
        BY <2>3
      <4> QED
        BY <4>1, <4>2
    <3>3. CASE ReadIngredients(q)
      <4> DEFINE s == [r EXCEPT !.at = "lines", !.rows = ingredients[r.recipe]]
      <4>1. End(q) \/ Step(q, s, {})
        BY <3>3 DEF ReadIngredients
      <4>2. s.op # "receive"
        BY <2>3
      <4> QED
        BY <4>1, <4>2
    <3>4. CASE LockLine(q)
      <4>1. PICK l \in NextLocked(r) :
              Step(q, [r EXCEPT !.left = @ \ {l},
                                !.read = IF l \in DOMAIN stock THEN Put(@, l, stock[l]) ELSE @],
                   IF l \in DOMAIN stock THEN LineRow(l) ELSE {})
        BY <3>4 DEF LockLine
      <4> DEFINE s == [r EXCEPT !.left = @ \ {l},
                                !.read = IF l \in DOMAIN stock THEN Put(@, l, stock[l]) ELSE @]
      <4>2. s.op # "receive"
        BY <2>3
      <4> QED
        BY <4>1, <4>2
    <3>5. CASE LockItem(q)
      <4>1. PICK i \in NextLocked(r) : \/ Step(q, [r EXCEPT !.left = @ \ {i}], ItemRow(i))
                                      \/ Step(q, [r EXCEPT !.left = @ \ {i}, !.changed = TRUE], {})
        BY <3>5 DEF LockItem
      <4>2. [r EXCEPT !.left = @ \ {i}].op # "receive" /\ [r EXCEPT !.left = @ \ {i}, !.changed = TRUE].op # "receive"
        BY <2>3
      <4> QED
        BY <4>1, <4>2
    <3> QED
      BY <1>7, <3>1, <3>2, <3>3, <3>4, <3>5
  <2> QED
    BY <1>1, <1>2, <2>4
<1>8. ASSUME NEW q \in Requests, CommitDone(q) \/ CommitAbandon(q) \/ InsertGenerated(q)
      PROVE  req[p] \in ReceiveReq
  BY <1>2, <1>8 DEF CommitDone, CommitAbandon, InsertGenerated
<1>9. ASSUME \/ SelectRecipe \/ DeselectRecipe \/ UpdateRecipe
             \/ CreateStockItem \/ UpdateStockItem \/ DeleteStockItem
             \/ CheckGroceryItem \/ UpdateGroceryItem \/ CreateGroceryItem \/ DeleteGroceryItem
      PROVE  req[p] \in ReceiveReq
  <2>1. UNCHANGED req
    BY <1>9 DEF SelectRecipe, DeselectRecipe, UpdateRecipe, CreateStockItem, UpdateStockItem, DeleteStockItem,
                CheckGroceryItem, UpdateGroceryItem, CreateGroceryItem, DeleteGroceryItem
  <2> QED
    BY <1>4, <2>1
<1> QED
  BY <1>5, <1>6, <1>7, <1>8, <1>9 DEF Next

LEMMA NoReceptionHolds == ASSUME PantryAssumption, InstanceAssumption PROVE Spec => []NoReception
<1>1. Init => NoReception
  BY Kinds DEF Init, NoReception
<1>2. IInv /\ NoReception /\ [Next]_vars => NoReception'
  <2>1. ASSUME IInv, NoReception, Next PROVE NoReception'
    <3>1. beside' = beside
      BY <2>1 DEF Next
    <3>2. \A p \in Requests : req'[p] \in ReceiveReq => req[p] \in ReceiveReq \/ "receive" \in beside
      BY <2>1, ReceptionsStart
    <3> QED
      BY <2>1, <3>1, <3>2 DEF NoReception
  <2>2. ASSUME NoReception, UNCHANGED vars PROVE NoReception'
    BY <2>2 DEF NoReception, vars
  <2> QED
    BY <2>1, <2>2
<1> QED
  BY <1>1, <1>2, Invariant, PTL DEF Spec

\* How far in the order of rows the row is that a request waits for.
Rank(r) == IF r.at = "selection" THEN 0 ELSE IF r.at = "recipe" THEN 1 ELSE 2 + Min(r.left)

\* Who waits, waits for a selection, a recipe, or the least of the lines or items left to lock.
LEMMA WhoWaits ==
    ASSUME PantryAssumption, IInv, NEW p \in Requests, req[p] \notin ReceiveReq, Wanted(req[p]) # {}
    PROVE  LET r == req[p] IN
           \/ r \in DoneReq \cup AbandonReq /\ r.at = "selection" /\ Wanted(r) = SelectionRow(r.recipe)
           \/ r \in DoneReq /\ r.at = "recipe" /\ Wanted(r) = RecipeRow(r.recipe)
           \/ /\ r \in DoneReq /\ r.at = "lines" /\ Wanted(r) = {<<"line", Min(r.left)>>}
              /\ Min(r.left) \in r.left /\ Min(r.left) \in Nat
           \/ /\ r \in AbandonReq /\ r.at = "items" /\ Wanted(r) = {<<"item", Min(r.left)>>}
              /\ Min(r.left) \in r.left /\ Min(r.left) \in Nat
<1> DEFINE r == req[p]
<1>1. r \in Request
  BY DEF IInv, Shape
<1> HIDE DEF r
<1>2. r.at # "land"
  BY <1>1, KindAt DEF r
<1>3. r.at \in {"selection", "recipe", "lines", "items"}
  BY <1>2 DEF Wanted, r
<1>4. CASE r.at = "selection"
  BY <1>1, <1>4, KindAt DEF Wanted, r
<1>5. CASE r.at = "recipe"
  BY <1>1, <1>5, KindAt DEF Wanted, r
<1>6. CASE r.at = "lines"
  <2>1. r \in DoneReq /\ Wanted(r) = UNION {LineRow(l) : l \in Smallest(r.left)}
    BY <1>1, <1>6, KindAt DEF Wanted, NextLocked
  <2>2. r.left \in SUBSET Nat
    BY <2>1 DEF DoneReq, PantryAssumption
  <2>3. r.left # {}
    BY <2>1 DEF Smallest, r
  <2>4. Min(r.left) \in r.left /\ Min(r.left) \in Nat
    BY <2>2, <2>3, MinIsLeast
  <2>5. Wanted(r) = {<<"line", Min(r.left)>>}
    BY <2>1, <2>3 DEF Smallest, LineRow
  <2> QED
    BY <1>6, <2>1, <2>4, <2>5 DEF r
<1>7. CASE r.at = "items"
  <2>1. r \in AbandonReq /\ Wanted(r) = UNION {ItemRow(l) : l \in Smallest(r.left)}
    BY <1>1, <1>7, KindAt DEF Wanted, NextLocked
  <2>2. r.left \in SUBSET Nat
    BY <2>1 DEF AbandonReq, PantryAssumption
  <2>3. r.left # {}
    BY <2>1 DEF Smallest, r
  <2>4. Min(r.left) \in r.left /\ Min(r.left) \in Nat
    BY <2>2, <2>3, MinIsLeast
  <2>5. Wanted(r) = {<<"item", Min(r.left)>>}
    BY <2>1, <2>3 DEF Smallest, ItemRow
  <2> QED
    BY <1>7, <2>1, <2>4, <2>5 DEF r
<1> QED
  BY <1>3, <1>4, <1>5, <1>6, <1>7

\* Who has a row another waits for, and waits too, waits for a later one.
LEMMA BlockersWaitLater ==
    ASSUME PantryAssumption, IInv, NEW p \in Requests, NEW q \in Requests,
           req[p] \notin ReceiveReq, req[q] \notin ReceiveReq,
           holds[q] \cap Wanted(req[p]) # {}, Wanted(req[q]) # {}
    PROVE  Rank(req[p]) \in Nat /\ Rank(req[q]) \in Nat /\ Rank(req[p]) < Rank(req[q])
<1> DEFINE r == req[p]
           s == req[q]
<1>1. \/ r \in DoneReq \cup AbandonReq /\ r.at = "selection" /\ Wanted(r) = SelectionRow(r.recipe)
      \/ r \in DoneReq /\ r.at = "recipe" /\ Wanted(r) = RecipeRow(r.recipe)
      \/ /\ r \in DoneReq /\ r.at = "lines" /\ Wanted(r) = {<<"line", Min(r.left)>>}
         /\ Min(r.left) \in r.left /\ Min(r.left) \in Nat
      \/ /\ r \in AbandonReq /\ r.at = "items" /\ Wanted(r) = {<<"item", Min(r.left)>>}
         /\ Min(r.left) \in r.left /\ Min(r.left) \in Nat
  BY WhoWaits
\* It holds a row, so it has its selection.
<1>2. \/ s \in DoneReq /\ s.at = "recipe"
      \/ s \in DoneReq /\ s.at = "lines" /\ Min(s.left) \in s.left /\ Min(s.left) \in Nat
      \/ s \in AbandonReq /\ s.at = "items" /\ Min(s.left) \in s.left /\ Min(s.left) \in Nat
  <2>1. s.at # "selection"
    BY DEF IInv, Sound, InOrder
  <2> QED
    BY <2>1, WhoWaits
<1>3. /\ s \in DoneReq =>
          holds[q] \subseteq SelectionRow(s.recipe)
                             \cup (IF s.at = "recipe" THEN {} ELSE RecipeRow(s.recipe))
                             \cup {<<"line", l>> : l \in {m \in Lines : s.at = "lines" /\ \A n \in s.left : m < n}}
      /\ s \in AbandonReq =>
          holds[q] \subseteq SelectionRow(s.recipe)
                             \cup {<<"item", i>> : i \in {m \in Items : \A n \in s.left : m < n}}
  BY DEF IInv, Sound, InOrder
<1>4. PICK row \in holds[q] : row \in Wanted(r)
  OBVIOUS
<1> DEFINE a == Min(r.left)
           b == Min(s.left)
<1> HIDE DEF r, s, a, b
<1>5. \/ Rank(s) = 1 /\ s.at = "recipe"
      \/ Rank(s) = 2 + b /\ b \in Nat /\ s.at \in {"lines", "items"}
  BY <1>2 DEF Rank, b
<1>6. CASE r.at = "selection"
  <2>1. Rank(r) = 0
    BY <1>6 DEF Rank
  <2> QED
    BY <1>5, <2>1 DEF r, s
<1>7. CASE r.at = "recipe"
  <2>1. Rank(r) = 1 /\ row \in RecipeRow(r.recipe)
    BY <1>1, <1>4, <1>7 DEF Rank
  <2>2. s.at # "recipe"
    <3>1. row[1] = "recipe"
      BY <2>1 DEF RecipeRow
    <3>2. s.at = "recipe" => row \in SelectionRow(s.recipe) \cup {}
                                   \cup {<<"line", l>> : l \in {m \in Lines : s.at = "lines" /\ \A n \in s.left : m < n}}
      BY <1>2, <1>3, <1>4
    <3> QED
      BY <3>1, <3>2 DEF SelectionRow
  <2> QED
    BY <1>5, <2>1, <2>2 DEF r, s
<1>8. CASE r.at = "lines"
  <2>1. Rank(r) = 2 + a /\ a \in Nat /\ row = <<"line", a>>
    BY <1>1, <1>4, <1>8 DEF Rank, a
  <2>2. s.at = "lines" /\ b \in s.left /\ \A n \in s.left : a < n
    BY <1>2, <1>3, <1>4, <2>1 DEF SelectionRow, RecipeRow, b
  <2> QED
    BY <1>5, <2>1, <2>2 DEF r, s
<1>9. CASE r.at = "items"
  <2>1. Rank(r) = 2 + a /\ a \in Nat /\ row = <<"item", a>>
    BY <1>1, <1>4, <1>9 DEF Rank, a
  <2>2. s.at = "items" /\ b \in s.left /\ \A n \in s.left : a < n
    BY <1>2, <1>3, <1>4, <2>1 DEF SelectionRow, RecipeRow, b
  <2> QED
    BY <1>5, <2>1, <2>2 DEF r, s
<1> QED
  BY <1>1, <1>6, <1>7, <1>8, <1>9

\* Where no reception is at work, however many outcomes there are, they never wait for each
\* other (apply_done and apply_abandoned lock the selection, then the recipe, then lines or items
\* by id, and a request that has locked a row waits only for later ones).
THEOREM OutcomesDoNotDeadlock ==
    ASSUME PantryAssumption, InstanceAssumption, IsFiniteSet(Requests) PROVE Spec => []NoDeadlock
<1>1. IInv /\ NoReception => NoDeadlock
  <2> SUFFICES ASSUME IInv, NoReception, "receive" \notin beside,
                      NEW S \in SUBSET Requests, S # {}, \A p \in S : Blockers(p) \cap S # {}
               PROVE  FALSE
    BY DEF NoDeadlock
  <2>1. \A p \in Requests : req[p] \notin ReceiveReq
    BY DEF NoReception
  <2>2. \A p \in S : Wanted(req[p]) # {} /\ \E q \in S : holds[q] \cap Wanted(req[p]) # {}
    BY DEF Blockers
  <2>3. \A p \in S : \E q \in S : Rank(req[p]) \in Nat /\ Rank(req[q]) \in Nat /\ Rank(req[p]) < Rank(req[q])
    BY <2>1, <2>2, BlockersWaitLater
  <2> DEFINE rank == [p \in S |-> Rank(req[p])]
  <2>4. rank \in [S -> Nat] /\ IsFiniteSet(S)
    BY <2>3, FS_Subset
  <2>5. \A p \in S : \E q \in S : rank[p] < rank[q]
    BY <2>3
  <2> HIDE DEF rank
  <2>6. PICK p \in S : \A q \in S : rank[q] <= rank[p]
    BY <2>4, LastExists
  <2>7. \A q \in S : rank[q] \in Nat
    BY <2>4
  <2> QED
    BY <2>5, <2>6, <2>7
<1> QED
  BY <1>1, Invariant, NoReceptionHolds, PTL
=============================================================================
