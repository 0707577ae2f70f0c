------------------------------- MODULE Pantry -------------------------------
(***************************************************************************)
(* What a family eats: the stock, the grocery list that fills it, and the  *)
(* planned recipes that empty it.                                          *)
(*                                                                         *)
(* A request is one transaction at READ COMMITTED. Four of them wait for   *)
(* rows or read what they write later, and are taken in steps: receive,    *)
(* apply_done, apply_abandoned, generate_grocery_items. The others lock    *)
(* one row and write it, in one step.                                      *)
(*                                                                         *)
(* An article is a name and a unit. Dates are left out: they decide which  *)
(* of the lines of its article a received item is added to, here any.      *)
(***************************************************************************)
EXTENDS Integers, FiniteSets, Sequences, FiniteSetsExt, Functions

CONSTANTS
    Requests,     \* transactions at work at once
    Lines,        \* ids of stock lines, each given once, in the order of ids
    Items,        \* ids of grocery items, each given once, in the order of ids
    Recipes,      \* recipes of the family
    Articles,     \* names and units of products
    MaxQuantity,  \* MAX_QUANTITY
    MaxPlans,     \* times recipes are planned, in an instance
    FirstStock, FirstList, FirstIngredients, \* what the family has at first
    Mixes,        \* the endpoints at work together and the recipes planned at first
    None          \* no recipe

ASSUME PantryAssumption ==
    /\ Lines \subseteq Nat /\ Items \subseteq Nat
    /\ MaxQuantity \in Nat /\ MaxPlans \in Nat
    /\ None \notin Recipes
    /\ DOMAIN FirstStock \subseteq Lines
    /\ FirstStock \in [DOMAIN FirstStock -> [article : Articles, quantity : 0..MaxQuantity]]
    /\ DOMAIN FirstList \subseteq Items
    /\ FirstList \in [DOMAIN FirstList -> [article : Articles, checked : BOOLEAN,
                                          recipe : Recipes \cup {None}]]
    /\ FirstIngredients \in [Recipes -> [Articles -> {0, 1}]]

VARIABLES
    stock,        \* stock_items: article and quantity, by id
    spentLines,   \* the ids of the lines deleted
    list,         \* grocery_items: article, checked or not, recipe it comes from
    spentItems,   \* the ids of the items that left the list
    planned,      \* the recipes with a selection in status planned
    ingredients,  \* recipe_ingredients: rows of each article, by recipe
    req,          \* what each request is at
    holds,        \* the rows each request has locked
    beside,       \* the endpoints at work together
    due,          \* history: the quantity each line should hold
    gone,         \* history: how often each item was received, abandoned or deleted
    plans,        \* history: how often each recipe was planned
    ended,        \* history: how often a planning was done, abandoned or taken back
    meals         \* meal_history: the meals of each recipe

vars == <<stock, spentLines, list, spentItems, planned, ingredients, req, holds, beside,
          due, gone, plans, ended, meals>>

Line == [article : Articles, quantity : 0..MaxQuantity]
Item == [article : Articles, checked : BOOLEAN, recipe : Recipes \cup {None}]
Idle == [at |-> "idle"]

Remove(f, S) == [x \in DOMAIN f \ S |-> f[x]]
Put(f, x, v) == [y \in DOMAIN f \cup {x} |-> IF y = x THEN v ELSE f[y]]

-----------------------------------------------------------------------------
(* Row locks. *)

\* Mutant: a row read without FOR UPDATE.
NoLock(id) == {}
SelectionRow(r) == {<<"selection", r>>}
RecipeRow(r) == {<<"recipe", r>>}
LineRow(l) == {<<"line", l>>}
ItemRow(i) == {<<"item", i>>}

Free(rows) == \A q \in Requests : holds[q] \cap rows = {}

Smallest(S) == IF S = {} THEN {} ELSE {Min(S)}
\* Mutant: the lines of removals locked before the others.
AsNamed(r) ==
    IF r.op = "done" /\ r.left \cap r.removals # {} THEN Smallest(r.left \cap r.removals)
    ELSE Smallest(r.left)
\* ORDER BY id FOR UPDATE: the smallest id first.
NextLocked(r) == Smallest(r.left)

\* The rows a request may have to wait for at the step it is at.
Wanted(r) ==
    CASE r.at = "selection" -> SelectionRow(r.recipe)
      [] r.at = "recipe"    -> RecipeRow(r.recipe)
      [] r.at = "lines"     -> UNION {LineRow(l) : l \in NextLocked(r)}
      [] r.at = "items"     -> UNION {ItemRow(i) : i \in NextLocked(r)}
      [] r.at = "land" /\ r.k <= Len(r.lot) /\ r.target[r.k] \notin r.fresh
                            -> LineRow(r.target[r.k])
      [] OTHER -> {}

Blockers(p) == {q \in Requests \ {p} : holds[q] \cap Wanted(req[p]) # {}}

Tables == <<stock, spentLines, list, spentItems, planned, ingredients,
            due, gone, plans, ended, meals>>

\* The transaction ends without a trace: refused, failed, or given up.
End(p) == req' = [req EXCEPT ![p] = Idle] /\ holds' = [holds EXCEPT ![p] = {}]

Step(p, r, rows) ==
    req' = [req EXCEPT ![p] = r] /\ holds' = [holds EXCEPT ![p] = @ \cup rows]

\* The lines inserted and not committed.
Fresh == UNION {req[q].fresh : q \in {s \in Requests : req[s].at # "idle"
                                                     /\ req[s].op = "receive"}}
NewLines == Lines \ (DOMAIN stock \cup spentLines \cup Fresh)
NewItems == Items \ (DOMAIN list \cup spentItems)

\* History: these items were taken off the list, once more.
Again(ids) == [i \in Items |-> IF i \in ids THEN gone[i] + 1 ELSE gone[i]]

-----------------------------------------------------------------------------
Init ==
    /\ stock = FirstStock /\ spentLines = {}
    /\ list = FirstList /\ spentItems = {}
    /\ \E mix \in Mixes : beside = mix[1] /\ planned = mix[2]
    /\ ingredients = FirstIngredients
    /\ req = [p \in Requests |-> Idle] /\ holds = [p \in Requests |-> {}]
    /\ due = [l \in Lines |-> IF l \in DOMAIN stock THEN stock[l].quantity ELSE 0]
    /\ gone = [i \in Items |-> 0]
    /\ plans = [r \in Recipes |-> IF r \in planned THEN 1 ELSE 0] /\ ended = [r \in Recipes |-> 0]
    /\ meals = [r \in Recipes |-> 0]

\* A request is given up, its process killed, its connection cut; or the
\* database ends it, one of several that wait for each other.
GiveUp(p) == req[p].at # "idle" /\ End(p) /\ UNCHANGED Tables

-----------------------------------------------------------------------------
(* receive: a lot of grocery items into the stock.                         *)

\* A lot names one item or two, in an order.
Lots == {lot \in UNION {[1..n -> DOMAIN list] : n \in 1..2} : IsInjective(lot)}

StartReceive(p) ==
    /\ req[p].at = "idle" /\ "receive" \in beside
    /\ \E lot \in Lots :
        Step(p, [op |-> "receive", at |-> "lot", lot |-> lot, left |-> {lot[k] : k \in DOMAIN lot},
                 article |-> << >>, target |-> << >>, fresh |-> {}, k |-> 1,
                 added |-> [l \in Lines |-> 0]], {})
    /\ UNCHANGED Tables

\* The items of the lot are locked in no order; one that is gone is a 404
\* once the others are locked. Only their ids are asked for, checked or not.
LockLot(p) ==
    LET r == req[p]
        ids == {r.lot[k] : k \in DOMAIN r.lot}
    IN
    /\ r.at = "lot"
    /\ \/ /\ r.left # {}
          /\ \E i \in r.left :
              /\ Free(ItemRow(i))
              /\ Step(p, [r EXCEPT !.left = @ \ {i}], IF i \in DOMAIN list THEN ItemRow(i) ELSE {})
       \/ r.left = {} /\ ~(ids \subseteq DOMAIN list) /\ End(p)
       \/ /\ r.left = {} /\ ids \subseteq DOMAIN list
          /\ Step(p, [r EXCEPT !.at = "plan",
                               !.article = [k \in DOMAIN r.lot |-> list[r.lot[k]].article]], {})
    /\ UNCHANGED Tables

\* plan: an article is added to a line of the stock of that article, to a
\* line an earlier one of the lot creates, or makes a new line.
Targets(r) ==
    {t \in [DOMAIN r.lot -> DOMAIN stock \cup NewLines] :
        /\ \A k \in DOMAIN t : t[k] \in DOMAIN stock => stock[t[k]].article = r.article[k]
        /\ \A j, k \in DOMAIN t : t[j] = t[k] => r.article[j] = r.article[k]}

PlanReception(p) ==
    LET r == req[p] IN
    /\ r.at = "plan"
    /\ \E t \in Targets(r) :
        Step(p, [r EXCEPT !.at = "land", !.target = t,
                          !.fresh = {t[k] : k \in DOMAIN t} \ DOMAIN stock], {})
    /\ UNCHANGED Tables

\* One article of the lot: a line that is gone is a 404, one that would
\* hold too much a 400.
Land(p) ==
    LET r == req[p]
        t == r.target[r.k]
        held == IF t \in DOMAIN stock THEN stock[t].quantity ELSE 0
        refused == t \notin r.fresh \cup DOMAIN stock \/ held + r.added[t] >= MaxQuantity
    IN
    /\ r.at = "land" /\ r.k <= Len(r.lot) /\ Blockers(p) = {}
    /\ \/ refused /\ End(p)
       \/ /\ ~refused
          /\ Step(p, [r EXCEPT !.k = @ + 1, !.added[t] = @ + 1],
                  IF t \in r.fresh THEN {} ELSE LineRow(t))
    /\ UNCHANGED Tables

\* The items leave the list as they enter the stock.
CommitReception(p) ==
    LET r == req[p]
        ids == {r.lot[k] : k \in DOMAIN r.lot}
        articleOf(l) == r.article[CHOOSE k \in DOMAIN r.lot : r.target[k] = l]
    IN
    /\ r.at = "land" /\ r.k > Len(r.lot)
    /\ stock' = [l \in DOMAIN stock \cup r.fresh |->
                    IF l \in r.fresh THEN [article |-> articleOf(l), quantity |-> r.added[l]]
                    ELSE [stock[l] EXCEPT !.quantity = @ + r.added[l]]]
    /\ due' = [l \in Lines |-> due[l] + r.added[l]]
    /\ list' = Remove(list, ids) /\ spentItems' = spentItems \cup ids
    /\ gone' = Again(ids)
    /\ End(p)
    /\ UNCHANGED <<spentLines, planned, ingredients, plans, ended, meals>>

-----------------------------------------------------------------------------
(* apply_done and apply_abandoned: how a planning ends.                    *)

\* removals are taken from lines the recipe names, others from lines it does
\* not; drops are the ingredients recipe_updates removes. Only a member who may
\* change the recipe adds to it: for another, to ask is to be refused or nothing.
StartDone(p) ==
    /\ req[p].at = "idle" /\ "done" \in beside
    /\ \E recipe \in planned, removals, others \in SUBSET DOMAIN stock,
          add \in BOOLEAN, drops \in SUBSET Articles :
        /\ removals \cap others = {} /\ (add => others # {}) /\ Cardinality(drops) <= 1
        /\ Step(p, [op |-> "done", at |-> "selection", recipe |-> recipe, removals |-> removals,
                    others |-> others, add |-> add, drops |-> drops,
                    left |-> removals \cup others, rows |-> << >>, read |-> << >>], {})
    /\ UNCHANGED Tables

StartAbandon(p) ==
    /\ req[p].at = "idle" /\ "abandon" \in beside
    /\ \E recipe \in planned, remove \in SUBSET DOMAIN list :
        Step(p, [op |-> "abandon", at |-> "selection", recipe |-> recipe, remove |-> remove,
                 left |-> remove, changed |-> FALSE], {})
    /\ UNCHANGED Tables

\* planned_selection, FOR UPDATE: 404 when it is no longer planned. The
\* recipe is locked next when the outcome changes it.
LockSelection(p) ==
    LET r == req[p]
        next == IF r.op = "abandon" THEN "items"
                ELSE IF r.add \/ r.drops # {} THEN "recipe" ELSE "names"
    IN
    /\ r.at = "selection" /\ Blockers(p) = {}
    /\ IF r.recipe \in planned
       THEN Step(p, [r EXCEPT !.at = next], SelectionRow(r.recipe))
       ELSE End(p)
    /\ UNCHANGED Tables

LockRecipe(p) ==
    LET r == req[p] IN
    /\ r.at = "recipe" /\ Blockers(p) = {}
    /\ Step(p, [r EXCEPT !.at = "names"], RecipeRow(r.recipe))
    /\ UNCHANGED Tables

\* The ingredients as they are: one to remove that is gone is a 404.
ReadIngredients(p) ==
    LET r == req[p] IN
    /\ r.at = "names"
    /\ IF \E a \in r.drops : ingredients[r.recipe][a] = 0
       THEN End(p)
       ELSE Step(p, [r EXCEPT !.at = "lines", !.rows = ingredients[r.recipe]], {})
    /\ UNCHANGED Tables

\* A line that is gone is not read.
LockLine(p) ==
    LET r == req[p] IN
    /\ r.at = "lines" /\ Blockers(p) = {}
    /\ \E l \in NextLocked(r) :
        Step(p, [r EXCEPT !.left = @ \ {l},
                          !.read = IF l \in DOMAIN stock THEN Put(@, l, stock[l]) ELSE @],
             IF l \in DOMAIN stock THEN LineRow(l) ELSE {})
    /\ UNCHANGED Tables

\* Everything is asked before anything is written: an other product that is
\* gone, a removal that is no ingredient or is gone, a line without enough.
RefusedDone(r) ==
    \/ ~(r.removals \cup r.others \subseteq DOMAIN r.read)
    \/ \E l \in r.removals \cap DOMAIN r.read : r.rows[r.read[l].article] = 0
    \/ \E l \in DOMAIN r.read : r.read[l].quantity < 1

\* ingredients_to_add: the other products the recipe does not name yet.
ToAdd(r) == IF r.add THEN {r.read[l].article : l \in r.others} \ {a \in Articles : r.rows[a] > 0}
            ELSE {}

CloseSelection(recipe) ==
    /\ planned' = planned \ {recipe}
    /\ ended' = [ended EXCEPT ![recipe] = @ + 1]
    /\ UNCHANGED plans

\* One of each product is taken: what is left is computed from what was
\* read, and written over the line.
CommitDone(p) ==
    LET r == req[p] IN
    /\ r.at = "lines" /\ r.left = {}
    /\ \/ RefusedDone(r) /\ UNCHANGED Tables
       \/ /\ ~RefusedDone(r)
          /\ stock' = [l \in DOMAIN stock |->
                          IF l \in DOMAIN r.read
                          THEN [stock[l] EXCEPT !.quantity = r.read[l].quantity - 1]
                          ELSE stock[l]]
          /\ due' = [l \in Lines |-> IF l \in DOMAIN r.read THEN due[l] - 1 ELSE due[l]]
          /\ ingredients' = [ingredients EXCEPT ![r.recipe] =
                [a \in Articles |-> IF a \in r.drops THEN 0
                                    ELSE IF a \in ToAdd(r) THEN @[a] + 1 ELSE @[a]]]
          /\ meals' = [meals EXCEPT ![r.recipe] = @ + 1]
          /\ CloseSelection(r.recipe)
          /\ UNCHANGED <<spentLines, list, spentItems, gone>>
    /\ End(p)

\* The chosen items, when they are still unchecked ones of the recipe: one
\* that is not is a 409 once the others are locked.
LockItem(p) ==
    LET r == req[p] IN
    /\ r.at = "items" /\ Blockers(p) = {}
    /\ \E i \in NextLocked(r) :
        IF i \in DOMAIN list /\ list[i].recipe = r.recipe /\ ~list[i].checked
        THEN Step(p, [r EXCEPT !.left = @ \ {i}], ItemRow(i))
        ELSE Step(p, [r EXCEPT !.left = @ \ {i}, !.changed = TRUE], {})
    /\ UNCHANGED Tables

CommitAbandon(p) ==
    LET r == req[p] IN
    /\ r.at = "items" /\ r.left = {}
    /\ \/ r.changed /\ UNCHANGED Tables
       \/ /\ ~r.changed
          /\ list' = Remove(list, r.remove) /\ spentItems' = spentItems \cup r.remove
          /\ gone' = Again(r.remove)
          /\ CloseSelection(r.recipe)
          /\ UNCHANGED <<stock, spentLines, ingredients, due, meals>>
    /\ End(p)

-----------------------------------------------------------------------------
(* generate_grocery_items: what the planned recipes call for and neither   *)
(* the stock nor the list has, read first and inserted next.               *)

StartGenerate(p) ==
    /\ req[p].at = "idle" /\ "generate" \in beside
    /\ LET held == {stock[l].article : l \in {m \in DOMAIN stock : stock[m].quantity > 0}}
           listed == {list[i].article : i \in {j \in DOMAIN list : ~list[j].checked}}
           wanted == {w \in Articles \X planned : ingredients[w[2]][w[1]] > 0
                                                /\ w[1] \notin held \cup listed}
       IN wanted # {} /\ Step(p, [op |-> "generate", at |-> "insert", wanted |-> wanted], {})
    /\ UNCHANGED Tables

\* One item for each article, of the first recipe that calls for it.
InsertGenerated(p) ==
    LET wanted == req[p].wanted
        missing == {w[1] : w \in wanted}
    IN
    /\ req[p].at = "insert"
    /\ \E id \in [missing -> NewItems], recipe \in [missing -> Recipes] :
        /\ IsInjective(id) /\ \A a \in missing : <<a, recipe[a]>> \in wanted
        /\ list' = [i \in DOMAIN list \cup Range(id) |->
                      IF i \in DOMAIN list THEN list[i]
                      ELSE LET a == CHOOSE b \in missing : id[b] = i
                           IN [article |-> a, checked |-> FALSE, recipe |-> recipe[a]]]
    /\ End(p)
    /\ UNCHANGED <<stock, spentLines, spentItems, planned, ingredients, due, gone, plans, ended, meals>>

-----------------------------------------------------------------------------
(* The other endpoints, each with the row it writes.                       *)

SelectRecipe ==
    /\ "select" \in beside
    /\ \E r \in Recipes \ planned :
        /\ MapThenSumSet(LAMBDA q : plans[q], Recipes) < MaxPlans /\ Free(SelectionRow(r))
        /\ planned' = planned \cup {r} /\ plans' = [plans EXCEPT ![r] = @ + 1]
    /\ UNCHANGED <<stock, spentLines, list, spentItems, ingredients, req, holds,
                   due, gone, ended, meals>>

DeselectRecipe ==
    /\ "select" \in beside
    /\ \E r \in planned : Free(SelectionRow(r)) /\ CloseSelection(r)
    /\ UNCHANGED <<stock, spentLines, list, spentItems, ingredients, req, holds,
                   due, gone, meals>>

\* update_recipe locks the recipe and replaces its ingredients.
UpdateRecipe ==
    /\ "update_recipe" \in beside
    /\ \E r \in Recipes, rows \in [Articles -> {0, 1}] :
        Free(RecipeRow(r)) /\ ingredients' = [ingredients EXCEPT ![r] = rows]
    /\ UNCHANGED <<stock, spentLines, list, spentItems, planned, req, holds,
                   due, gone, plans, ended, meals>>

CreateStockItem ==
    /\ "stock" \in beside /\ NewLines # {}
    /\ \E line \in Line :
        /\ stock' = Put(stock, Min(NewLines), line)
        /\ due' = [due EXCEPT ![Min(NewLines)] = line.quantity]
    /\ UNCHANGED <<spentLines, list, spentItems, planned, ingredients, req, holds,
                   gone, plans, ended, meals>>

\* update_stock_item locks the line and keeps the quantity it read, or
\* writes the one it is given.
UpdateStockItem ==
    /\ "patch" \in beside
    /\ \E l \in DOMAIN stock, line \in Line :
        /\ Free(LineRow(l))
        /\ stock' = [stock EXCEPT ![l] = line]
        /\ due' = [due EXCEPT ![l] = line.quantity]
    /\ UNCHANGED <<spentLines, list, spentItems, planned, ingredients, req, holds,
                   gone, plans, ended, meals>>

DeleteStockItem ==
    /\ "delete" \in beside
    /\ \E l \in DOMAIN stock :
        /\ Free(LineRow(l))
        /\ stock' = Remove(stock, {l}) /\ spentLines' = spentLines \cup {l}
    /\ UNCHANGED <<list, spentItems, planned, ingredients, req, holds,
                   due, gone, plans, ended, meals>>

CheckGroceryItem ==
    /\ "list" \in beside
    /\ \E i \in DOMAIN list, checked \in BOOLEAN :
        Free(ItemRow(i)) /\ list' = [list EXCEPT ![i].checked = checked]
    /\ UNCHANGED <<stock, spentLines, spentItems, planned, ingredients, req, holds,
                   due, gone, plans, ended, meals>>

UpdateGroceryItem ==
    /\ "list" \in beside
    /\ \E i \in DOMAIN list, a \in Articles :
        Free(ItemRow(i)) /\ list' = [list EXCEPT ![i].article = a]
    /\ UNCHANGED <<stock, spentLines, spentItems, planned, ingredients, req, holds,
                   due, gone, plans, ended, meals>>

CreateGroceryItem ==
    /\ "list" \in beside /\ NewItems # {}
    /\ \E a \in Articles :
        list' = Put(list, Min(NewItems), [article |-> a, checked |-> FALSE, recipe |-> None])
    /\ UNCHANGED <<stock, spentLines, spentItems, planned, ingredients, req, holds,
                   due, gone, plans, ended, meals>>

DeleteGroceryItem ==
    /\ "list" \in beside
    /\ \E i \in DOMAIN list :
        /\ Free(ItemRow(i))
        /\ list' = Remove(list, {i}) /\ spentItems' = spentItems \cup {i}
        /\ gone' = Again({i})
    /\ UNCHANGED <<stock, spentLines, planned, ingredients, req, holds,
                   due, plans, ended, meals>>

Next ==
    /\ \/ \E p \in Requests :
           \/ GiveUp(p)
           \/ StartReceive(p) \/ LockLot(p) \/ PlanReception(p) \/ Land(p) \/ CommitReception(p)
           \/ StartDone(p) \/ StartAbandon(p) \/ LockSelection(p) \/ LockRecipe(p)
           \/ ReadIngredients(p) \/ LockLine(p) \/ CommitDone(p) \/ LockItem(p) \/ CommitAbandon(p)
           \/ StartGenerate(p) \/ InsertGenerated(p)
       \/ SelectRecipe \/ DeselectRecipe \/ UpdateRecipe
       \/ CreateStockItem \/ UpdateStockItem \/ DeleteStockItem
       \/ CheckGroceryItem \/ UpdateGroceryItem \/ CreateGroceryItem \/ DeleteGroceryItem
    /\ UNCHANGED beside

Spec == Init /\ [][Next]_vars

-----------------------------------------------------------------------------
(* Properties. *)

TypeOK ==
    /\ stock \in [DOMAIN stock -> Line] /\ DOMAIN stock \subseteq Lines \ spentLines
    /\ list \in [DOMAIN list -> Item] /\ DOMAIN list \subseteq Items \ spentItems
    /\ spentLines \subseteq Lines /\ spentItems \subseteq Items /\ planned \subseteq Recipes
    /\ ingredients \in [Recipes -> [Articles -> Nat]]
    /\ due \in [Lines -> Int] /\ gone \in [Items -> Nat]
    /\ plans \in [Recipes -> Nat] /\ ended \in [Recipes -> Nat] /\ meals \in [Recipes -> Nat]

\* Receptions, outcomes and edits of one line at once: the line holds what
\* each of them was told it added, took or set, and never less than nothing
\* (receive adds in the database, apply_done writes what it computed from
\* the line it read).
NoUpdateLost == \A l \in DOMAIN stock : stock[l].quantity = due[l] /\ due[l] >= 0

\* An item leaves the list once, however many requests ask for it at once:
\* received, and then nothing else received, abandoned or deleted it, or
\* abandoned or deleted, and then it never enters the stock; and none that left
\* is still listed (receive locks its items before it reads them, apply_abandoned
\* before it removes them; the deletion waits).
ReceivedOnce ==
    /\ \A i \in Items : gone[i] <= 1
    /\ \A i \in DOMAIN list : gone[i] = 0

\* Each planning of a recipe ends once: done, abandoned or taken back, and
\* only a planning that was done is a meal (planned_selection locks the row
\* it will close).
PlanningEndsOnce ==
    \A r \in Recipes :
        /\ ended[r] = plans[r] - (IF r \in planned THEN 1 ELSE 0)
        /\ meals[r] <= ended[r]

\* Two outcomes never wait for each other: selections, recipes, lines and
\* items are locked in one order. A reception locks its items in no order
\* and its lines in the order of its lot: it may.
NoDeadlock ==
    "receive" \notin beside =>
        ~\E S \in SUBSET Requests : S # {} /\ \A p \in S : Blockers(p) \cap S # {}
=============================================================================
