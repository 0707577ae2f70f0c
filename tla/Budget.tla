------------------------------- MODULE Budget -------------------------------
(***************************************************************************)
(* The budget of one family: its expenses, the categories and the grocery  *)
(* items they refer to, its caps, and the alerts sent when the spending of *)
(* the month crosses a threshold of a cap.                                 *)
(*                                                                         *)
(* A request is one transaction at READ COMMITTED. A step of a request is  *)
(* what it does between two points where it may wait or where what others  *)
(* commit may matter; a write that waits for one lock and does nothing     *)
(* else that could wait is one step. The row of budget_settings is the     *)
(* lock of the family.                                                     *)
(***************************************************************************)
EXTENDS Integers, FiniteSets, FiniteSetsExt

CONSTANTS
    Spenders,     \* transactions at work at once
    Entries,      \* ids of expenses, each given once
    Categories,   \* ids of categories, each given once
    Items,        \* grocery items of the family
    Amounts,      \* amounts of an expense
    FamilyCaps,   \* caps the family may set, 0 for none
    CategoryCaps, \* caps a category may have, 0 for none
    CategoriesMax,\* CATEGORIES_MAX
    Spending,     \* the sets of endpoints beside the writes of expenses
    Unset         \* no category, no expense: the whole family as a scope

\* Rows of different tables are different.
BudgetAssumption ==
    /\ {Unset, "family"} \cap (Categories \cup Entries \cup Items) = {} /\ Unset # "family"
    /\ Categories \cap Entries = {} /\ Items \cap (Categories \cup Entries) = {}
    /\ Amounts \subseteq Nat /\ FamilyCaps \subseteq Nat
    /\ CategoryCaps \subseteq Nat /\ CategoriesMax \in Nat

VARIABLES
    entries,      \* budget_entries: the expenses, by id
    gone,         \* the ids of the expenses deleted
    paid,         \* budget_entry_grocery_items: the expense an item is paid by
    items,        \* grocery_items
    categories,   \* budget_categories: the cap of each
    dropped,      \* the ids of the categories deleted
    settings,     \* budget_settings: the cap and the two switches
    alerts,       \* budget_alerts of the month: scope and threshold
    req,          \* what each request is at
    holds,        \* the locks each request holds: mode and row
    beside        \* the endpoints that run beside the writes of expenses

budgetVars == <<entries, gone, paid, items, categories, dropped, settings, alerts, req, holds, beside>>

Row == [amount : Amounts, thisMonth : BOOLEAN, category : Categories \cup {Unset}]
AtRest == [at |-> "idle"]
Thresholds == ({Unset} \X {"eighty", "reached"}) \cup (Categories \X {"over"})

\* A threshold of a cap is reached by a total; no threshold of no cap is.
Reached(threshold, total, cap) ==
    /\ cap > 0
    /\ CASE threshold = "eighty"  -> total * 100 >= cap * 80
         [] threshold = "reached" -> total >= cap
         [] threshold = "over"    -> total > cap

\* What the family, or a category, has spent this month, and its total.
Expenses(es, scope) ==
    [e \in {f \in DOMAIN es : es[f].thisMonth /\ scope \in {Unset, es[f].category}} |-> es[e].amount]
Total(es, scope) == SumFunction(Expenses(es, scope))

\* The cap watched for the family or for a category: 0 when there is none,
\* when its alerts are off, or when there is no such category.
WatchedCap(scope) ==
    IF scope = Unset THEN IF settings.familyAlerts THEN settings.cap ELSE 0
    ELSE IF settings.categoryAlerts /\ scope \in DOMAIN categories
         THEN categories[scope] ELSE 0

-----------------------------------------------------------------------------
(* Locks: "x" excludes every other lock on the row, "s" (FOR KEY SHARE)     *)
(* excludes an "x".                                                        *)

Family == "family"
Others(p, locks) == {q \in Spenders \ {p} : holds[q] \cap locks # {}}
Exclusive(row) == {<<"x", row>>}
AnyLock(row) == {<<"x", row>>, <<"s", row>>}
Free(row) == \A q \in Spenders : holds[q] \cap AnyLock(row) = {}

\* The row an update or a price is about, when there is one.
Target(r) == IF r.op = "price" /\ paid[r.item] # Unset THEN paid[r.item] ELSE r.e

\* The foreign key of an expense is checked when it is inserted or its
\* category changes.
ChecksCategory(r) ==
    /\ r.row.category # Unset
    /\ r.e \in DOMAIN entries => entries[r.e].category # r.row.category

\* What the request would have written, seen by itself.
EntriesWith(r) == [e \in DOMAIN entries \cup {r.e} |-> IF e = r.e THEN r.row ELSE entries[e]]

\* Mutant: the amount written added to the total before, an expense updated
\* counting twice.
CrossedByAmount(r) ==
    {a \in Thresholds :
        /\ a[1] \in {Unset, r.row.category}
        /\ ~Reached(a[2], r.before[a[1]], r.caps[a[1]])
        /\ Reached(a[2], r.before[a[1]] + r.row.amount, r.caps[a[1]])}

\* crossed: the thresholds not reached before the write and reached after.
Crossed(r) ==
    {a \in Thresholds :
        /\ a[1] \in {Unset, r.row.category}
        /\ ~Reached(a[2], r.before[a[1]], r.caps[a[1]])
        /\ Reached(a[2], Total(EntriesWith(r), a[1]), r.caps[a[1]])}

\* The alerts not sent yet this month.
ToSend(r) == Crossed(r) \ alerts
AlertsCategory(r) == \E a \in ToSend(r) : a[1] # Unset

\* The links a request has inserted and not committed.
Uncommitted(q) == IF req[q].at \in {"fire", "commit"} THEN req[q].link ELSE {}

CountLock == Exclusive(Family)

\* The requests a request waits for at the step it is at.
WaitsFor(p) ==
    LET r == req[p] IN
    CASE r.at = "lock"  -> Others(p, Exclusive(Family))
      [] r.at = "count" -> Others(p, CountLock)
      [] r.at = "row"   -> Others(p, Exclusive(Target(r)))
      [] r.at = "write" -> IF ChecksCategory(r) THEN Others(p, Exclusive(r.row.category)) ELSE {}
      [] r.at = "link"  -> {q \in Spenders \ {p} : Uncommitted(q) \cap r.link # {}}
      [] r.at = "fire"  -> IF AlertsCategory(r) THEN Others(p, Exclusive(r.row.category)) ELSE {}
      [] r.at = "drop"  -> Others(p, AnyLock(r.category))
      [] r.at = "clear" -> Others(p, UNION {Exclusive(e) : e \in {f \in DOMAIN entries :
                                                 entries[f].category = r.category}})
      [] OTHER -> {}

-----------------------------------------------------------------------------
BudgetInit ==
    /\ entries = << >> /\ gone = {} /\ paid = [i \in Items |-> Unset] /\ items = Items
    /\ categories = << >> /\ dropped = {}
    /\ settings \in [cap : FamilyCaps \cup {0}, familyAlerts : {TRUE}, categoryAlerts : {TRUE}]
    /\ alerts = {}
    /\ req = [p \in Spenders |-> AtRest] /\ holds = [p \in Spenders |-> {}]
    /\ beside \in Spending

Tables == <<entries, gone, paid, items, categories, dropped, settings, alerts>>

\* The transaction ends without a trace: refused, failed, or given up.
End(p) == req' = [req EXCEPT ![p] = AtRest] /\ holds' = [holds EXCEPT ![p] = {}]

Proceed(p, r, locks) ==
    req' = [req EXCEPT ![p] = r] /\ holds' = [holds EXCEPT ![p] = @ \cup locks]

InFlight == {req[q].e : q \in {r \in Spenders : req[r].at # "idle" /\ "e" \in DOMAIN req[r]}}
NewIds == Entries \ (DOMAIN entries \cup gone \cup InFlight)

Spend(op, at, e, row, item, link) ==
    [op |-> op, at |-> at, e |-> e, row |-> row, item |-> item, link |-> link,
     keep |-> FALSE, caps |-> << >>, before |-> << >>, alerts |-> {}]

\* Mutant: an expense created takes the lock for its links only.
LocksForLinks(row, link) == IF link # {} THEN "lock" ELSE "watch"

\* create_budget_entry takes the lock of the family for its links or for its
\* alerts; the two other writes take it before anything is read.
FirstCreating(row, link) == IF link # {} \/ row.thisMonth THEN "lock" ELSE "watch"
\* Mutant: an update locks its row first.
RowFirst(op) == IF op = "update" THEN "row" ELSE "lock"
FirstWriting(op) == "lock"

StartCreate(p) ==
    \E e \in NewIds, row \in Row, link \in SUBSET Items :
        /\ row.category \in DOMAIN categories \cup {Unset}
        /\ Proceed(p, Spend("create", FirstCreating(row, link), e, row, Unset, link), {})

\* update_budget_entry keeps the links when its body does not name them.
StartUpdate(p) ==
    \E e \in DOMAIN entries, row \in Row, link \in SUBSET Items, keep \in BOOLEAN :
        /\ row.category \in DOMAIN categories \cup {Unset}
        /\ keep => link = {}
        /\ Proceed(p, [Spend("update", FirstWriting("update"), e, row, Unset, link)
                       EXCEPT !.keep = keep], {})

\* set_grocery_item_price: a new expense, or the one the item is linked to,
\* whose category it keeps.
StartPrice(p) ==
    \E e \in NewIds, amount \in Amounts, thisMonth \in BOOLEAN, item \in items :
        Proceed(p, Spend("price", FirstWriting("price"), e,
                        [amount |-> amount, thisMonth |-> thisMonth, category |-> Unset],
                        item, {}), {})

StartCategory(p) ==
    \/ /\ "create_budget_category" \in beside
       /\ Categories \ (DOMAIN categories \cup dropped) # {}
       /\ Proceed(p, [op |-> "category", at |-> "count"], {})
    \/ /\ "delete_budget_category" \in beside
       /\ \E c \in DOMAIN categories : Proceed(p, [op |-> "drop", at |-> "drop", category |-> c], {})

StartSpending(p) ==
    /\ req[p].at = "idle"
    /\ StartCreate(p) \/ StartUpdate(p) \/ StartPrice(p) \/ StartCategory(p)
    /\ UNCHANGED Tables

\* lock_settings, on behalf of lock_family or of watch.
LockFamily(p) ==
    LET r == req[p] IN
    /\ r.at = "lock" /\ WaitsFor(p) = {}
    /\ Proceed(p, [r EXCEPT !.at = IF r.op = "create" \/ <<"x", Target(r)>> \in holds[p]
                                THEN "watch" ELSE "row"], Exclusive(Family))
    /\ UNCHANGED Tables

AfterRow(p) == IF <<"x", Family>> \in holds[p] THEN "watch" ELSE "lock"

\* An expense that is gone is a 404; so is an item. An expense linked to
\* other items too is a 409 for a price.
LockRow(p) ==
    LET r == req[p]
        e == Target(r)
        refused == \/ r.op = "update" /\ e \notin DOMAIN entries
                   \/ r.op = "price" /\ r.item \notin items
                   \/ /\ r.op = "price" /\ e \in DOMAIN entries
                      /\ \E i \in Items \ {r.item} : paid[i] = e
        item == IF r.op = "price" THEN {<<"s", r.item>>} ELSE {}
    IN
    /\ r.at = "row" /\ WaitsFor(p) = {}
    /\ \/ refused /\ End(p)
       \/ /\ ~refused /\ e \in DOMAIN entries
          /\ LET row == IF r.op = "price"
                        THEN [r.row EXCEPT !.category = entries[e].category] ELSE r.row
             IN Proceed(p, [r EXCEPT !.at = AfterRow(p), !.e = e, !.row = row,
                                  !.keep = r.op = "price" \/ @], Exclusive(e) \cup item)
       \/ /\ ~refused /\ e \notin DOMAIN entries
          /\ Proceed(p, [r EXCEPT !.at = AfterRow(p), !.link = {r.item}], item)
    /\ UNCHANGED Tables

\* watch: the caps, and the totals before the write. Nothing is watched for
\* an expense out of the month.
Watch(p) ==
    LET r == req[p]
        scopes == {Unset, r.row.category}
    IN
    /\ r.at = "watch"
    /\ Proceed(p, [r EXCEPT !.at = "write",
                         !.caps = [s \in scopes |-> IF r.row.thisMonth THEN WatchedCap(s) ELSE 0],
                         !.before = [s \in scopes |-> Total(entries, s)]], {})
    /\ UNCHANGED Tables

\* The expense written, then the first half of set_links: an item that is
\* gone is a 404, an item another expense pays a 409. A price links the item
\* of its new expense without asking.
WriteEntry(p) ==
    LET r == req[p]
        asks == r.op # "price"
        refused == \/ ChecksCategory(r) /\ r.row.category \notin DOMAIN categories
                   \/ asks /\ ~(r.link \subseteq items)
                   \/ asks /\ \E i \in r.link : paid[i] \notin {Unset, r.e}
        category == IF ChecksCategory(r) THEN {<<"s", r.row.category>>} ELSE {}
    IN
    /\ r.at = "write" /\ WaitsFor(p) = {}
    /\ \/ refused /\ End(p)
       \/ /\ ~refused
          /\ Proceed(p, [r EXCEPT !.at = IF r.link = {} THEN "fire" ELSE "link"],
                  category \cup Exclusive(r.e) \cup {<<"s", i>> : i \in r.link})
    /\ UNCHANGED Tables

\* The links inserted: one another expense committed meanwhile trips on the
\* unique key of the item.
InsertLinks(p) ==
    LET r == req[p] IN
    /\ r.at = "link" /\ WaitsFor(p) = {}
    /\ IF \E i \in r.link : paid[i] \notin {Unset, r.e}
       THEN Proceed(p, [r EXCEPT !.at = "tripped"], {})
       ELSE Proceed(p, [r EXCEPT !.at = "fire"], {})
    /\ UNCHANGED Tables

\* Watch::fire. The row of an alert of a category refers to it.
Fire(p) ==
    LET r == req[p]
        failed == AlertsCategory(r) /\ r.row.category \notin DOMAIN categories
    IN
    /\ r.at = "fire" /\ WaitsFor(p) = {}
    /\ \/ failed /\ End(p)
       \/ /\ ~failed
          /\ Proceed(p, [r EXCEPT !.at = "commit", !.alerts = ToSend(r),
                               !.caps = << >>, !.before = << >>],
                  IF AlertsCategory(r) THEN {<<"s", r.row.category>>} ELSE {})
    /\ UNCHANGED Tables

CommitEntry(p) ==
    LET r == req[p] IN
    /\ r.at = "commit"
    /\ entries' = EntriesWith(r)
    /\ paid' = [i \in Items |-> IF i \in r.link THEN r.e
                                 ELSE IF paid[i] = r.e /\ ~r.keep THEN Unset ELSE paid[i]]
    /\ alerts' = alerts \cup r.alerts
    /\ End(p)
    /\ UNCHANGED <<gone, items, categories, dropped, settings>>

\* The request is given up, its process killed, its connection cut.
GiveUp(p) == req[p].at # "idle" /\ End(p) /\ UNCHANGED Tables

-----------------------------------------------------------------------------
\* create_budget_category: the count under the lock of the family.
Count(p) ==
    /\ req[p].at = "count" /\ WaitsFor(p) = {}
    /\ IF Cardinality(DOMAIN categories) >= CategoriesMax
       THEN End(p)
       ELSE Proceed(p, [req[p] EXCEPT !.at = "insert"], CountLock)
    /\ UNCHANGED Tables

InsertCategory(p) ==
    /\ req[p].at = "insert"
    /\ \E c \in Categories \ (DOMAIN categories \cup dropped), cap \in CategoryCaps :
        categories' = [d \in DOMAIN categories \cup {c} |->
                          IF d = c THEN cap ELSE categories[d]]
    /\ End(p)
    /\ UNCHANGED <<entries, gone, paid, items, dropped, settings, alerts>>

\* delete_budget_category: the row of the category, then its expenses, whose
\* key is ON DELETE SET NULL; its alerts go with it.
LockCategory(p) ==
    /\ req[p].at = "drop" /\ WaitsFor(p) = {}
    /\ IF req[p].category \in DOMAIN categories
       THEN Proceed(p, [req[p] EXCEPT !.at = "clear"], Exclusive(req[p].category))
       ELSE End(p)
    /\ UNCHANGED Tables

ClearCategory(p) ==
    LET c == req[p].category IN
    /\ req[p].at = "clear" /\ WaitsFor(p) = {}
    /\ categories' = [d \in DOMAIN categories \ {c} |-> categories[d]]
    /\ dropped' = dropped \cup {c}
    /\ entries' = [e \in DOMAIN entries |->
                      IF entries[e].category = c THEN [entries[e] EXCEPT !.category = Unset]
                      ELSE entries[e]]
    /\ alerts' = {a \in alerts : a[1] # c}
    /\ End(p)
    /\ UNCHANGED <<gone, paid, items, settings>>

UpdateCategory ==
    /\ "update_budget_category" \in beside
    /\ \E c \in DOMAIN categories, cap \in CategoryCaps :
        Free(c) /\ categories' = [categories EXCEPT ![c] = cap]
    /\ UNCHANGED <<entries, gone, paid, items, dropped, settings, alerts, req, holds>>

PutSettings ==
    /\ "put_budget_settings" \in beside /\ Free(Family)
    /\ \E cap \in FamilyCaps : settings' = [settings EXCEPT !.cap = cap]
    /\ UNCHANGED <<entries, gone, paid, items, categories, dropped, alerts, req, holds>>

PatchAlertSettings ==
    /\ "patch_alert_settings" \in beside /\ Free(Family)
    /\ \E on \in BOOLEAN : \/ settings' = [settings EXCEPT !.familyAlerts = on]
                          \/ settings' = [settings EXCEPT !.categoryAlerts = on]
    /\ UNCHANGED <<entries, gone, paid, items, categories, dropped, alerts, req, holds>>

\* delete_budget_entry, without the lock of the family; its links go with it.
DeleteEntry ==
    /\ "delete_budget_entry" \in beside
    /\ \E e \in DOMAIN entries :
        /\ Free(e)
        /\ entries' = [f \in DOMAIN entries \ {e} |-> entries[f]]
        /\ gone' = gone \cup {e}
        /\ paid' = [i \in Items |-> IF paid[i] = e THEN Unset ELSE paid[i]]
    /\ UNCHANGED <<items, categories, dropped, settings, alerts, req, holds>>

\* delete_grocery_item: its link goes with it, not the expense.
DeleteItem ==
    /\ "delete_grocery_item" \in beside
    /\ \E i \in items :
        /\ Free(i)
        /\ items' = items \ {i}
        /\ paid' = [paid EXCEPT ![i] = Unset]
    /\ UNCHANGED <<entries, gone, categories, dropped, settings, alerts, req, holds>>

BudgetNext ==
    /\ \/ \E p \in Spenders :
           \/ StartSpending(p) \/ LockFamily(p) \/ LockRow(p) \/ Watch(p) \/ WriteEntry(p)
           \/ InsertLinks(p) \/ Fire(p) \/ CommitEntry(p) \/ GiveUp(p)
           \/ Count(p) \/ InsertCategory(p) \/ LockCategory(p) \/ ClearCategory(p)
       \/ UpdateCategory \/ PutSettings \/ PatchAlertSettings \/ DeleteEntry \/ DeleteItem
    /\ UNCHANGED beside

BudgetSpec == BudgetInit /\ [][BudgetNext]_budgetVars

-----------------------------------------------------------------------------
(* Properties. *)

BudgetTypeOK ==
    /\ DOMAIN entries \subseteq Entries \ gone /\ gone \subseteq Entries
    /\ \A e \in DOMAIN entries : /\ entries[e] \in Row
                                 /\ entries[e].category \in DOMAIN categories \cup {Unset}
    /\ paid \in [Items -> DOMAIN entries \cup {Unset}] /\ items \subseteq Items
    /\ \A i \in Items \ items : paid[i] = Unset
    /\ DOMAIN categories \subseteq Categories \ dropped /\ dropped \subseteq Categories
    /\ \A c \in DOMAIN categories : categories[c] \in CategoryCaps
    /\ settings \in [cap : FamilyCaps \cup {0}, familyAlerts : BOOLEAN, categoryAlerts : BOOLEAN]
    /\ alerts \subseteq Thresholds
    /\ \A a \in alerts : a[1] \in DOMAIN categories \cup {Unset}
    /\ beside \in Spending

\* "Two expenses of one family written at once thus read their totals one after the
\* other, and neither misses the crossing the other one completes" (lock_settings):
\* a total taken past a threshold of its cap is alerted in the same transaction, or
\* was before.  Two things write beside the lock of the family: the deletion of an
\* expense, which may hide a crossing, and the new cap of a category.
CrossingsAlerted ==
    [][beside \cap {"delete_budget_entry", "update_budget_category"} = {} =>
         \A a \in Thresholds :
            (/\ entries' # entries /\ UNCHANGED settings
             /\ ~Reached(a[2], Total(entries, a[1]), WatchedCap(a[1]))
             /\ Reached(a[2], Total(entries', a[1]), WatchedCap(a[1])))
            => a \in alerts']_budgetVars

\* An alert tells the truth: the spending of the month is past the threshold when
\* the alert is committed.
AlertsTrue ==
    [][beside \cap {"delete_budget_entry", "update_budget_category"} = {} =>
         \A a \in alerts' \ alerts : Reached(a[2], Total(entries', a[1]), WatchedCap(a[1]))]_budgetVars

\* lock_family: every write of an expense takes the lock of the family first and the
\* row after, so that none waits for one that waits for it.  The deletion of a category
\* writes its expenses without that lock.
NoDeadlock ==
    "delete_budget_category" \notin beside =>
    ~ \E S \in (SUBSET Spenders) \ {{}} : \A p \in S : WaitsFor(p) \cap S # {}
=============================================================================
