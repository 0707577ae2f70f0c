------------------------------ MODULE MCPantry ------------------------------
(* A small instance of Pantry. *)
EXTENDS Pantry, TLC

MCLines == 1..3
MCItems == 1..3

\* What is at work together: two receptions and the edits of the stock or of
\* the list; a reception and an outcome, of either kind; two outcomes and what changes the recipe, its
\* planning or its items.
MCMixes ==
    {<<{"receive", "stock", "delete"}, {}>>, <<{"receive", "patch"}, {}>>,
     <<{"receive", "list"}, {}>>, <<{"receive", "done"}, {"r1"}>>, <<{"receive", "abandon"}, {"r1"}>>,
     <<{"done"}, {"r1", "r2"}>>, <<{"done", "patch"}, {"r1"}>>, <<{"done", "delete"}, {"r2"}>>,
     <<{"done", "update_recipe"}, {"r1"}>>,
     <<{"done", "abandon", "select"}, {"r1"}>>,
     <<{"abandon", "generate", "delete"}, {"r1"}>>, <<{"abandon", "list"}, {"r1"}>>}

\* A line of each article, two items of the first for one of the recipes that
\* call for it.
MCFirstStock == 1 :> [article |-> "a", quantity |-> 1] @@ 2 :> [article |-> "b", quantity |-> 1]
MCFirstList == [i \in 1..2 |-> [article |-> "a", checked |-> FALSE, recipe |-> "r1"]]
MCFirstIngredients == "r1" :> ("a" :> 1 @@ "b" :> 0) @@ "r2" :> ("a" :> 1 @@ "b" :> 1)

MCSymmetry == Permutations(Requests)
=============================================================================
