------------------------------ MODULE MCFamily ------------------------------
(* RateLimit, SignIn, Budget and StoredObjects for TLC: requests of a family *)
(* that are counted, sign in, spend, and keep bytes. A behaviour exercises   *)
(* one of the four and leaves the others as they start. Requests, categories *)
(* and expenses are interchangeable; so are keys, links and sessions, which  *)
(* bear the names of expenses.                                               *)
EXTENDS RateLimit, SignIn, StoredObjects, Budget, TLC

VARIABLE part   \* what this behaviour exercises

ASSUME RateAssumption /\ SignInAssumption /\ BudgetAssumption /\ ObjectsAssumption

\* A replica's clock is level with the database's or ahead: behind, it sweeps less.
Around == {0, 1}

\* Expenses written while their category is created and deleted.
Categorised == {"create_budget_category", "delete_budget_category"}
\* Expenses written while the cap of the family changes and its alerts are switched.
Settled == {"put_budget_settings", "patch_alert_settings"}
\* Expenses written while the cap of their category changes.
Recapped == {"create_budget_category", "update_budget_category"}
\* Expenses written while others, and the items they pay, are deleted.
Deletions == {"delete_budget_entry", "delete_grocery_item"}
AllSpending == {Categorised, Settled, Recapped, Deletions}

\* A group of one event, deleted as a whole or left by its last member.
WholeGroup == {Events}

\* The account of an address: none, with a password, or bound to Google without one.
Registered == [NoAccount EXCEPT !.row = "active", !.verified = TRUE, !.gate = "full"]
ByPassword == [Registered EXCEPT !.password = 1, !.renewed = 1]
ByGoogle == [Registered EXCEPT !.google = TRUE]
\* Registered twice at once, then verified; registered beside a sign-in by Google; a
\* password given to an account of Google; passwords reset and changed beside a
\* sign-in by password, by Google, or the end of the account.
AllStarts ==
    {[account |-> NoAccount, does |-> {"register", "resend", "verify", "login"}],
     [account |-> NoAccount, does |-> {"register", "google", "purge", "deactivate"}],
     [account |-> ByGoogle, does |-> {"google", "set", "verify", "resend", "login"}],
     [account |-> ByPassword, does |-> {"login", "forgot", "reset", "change"}],
     [account |-> ByPassword, does |-> {"google", "forgot", "reset", "change"}],
     [account |-> ByPassword, does |-> {"login", "forgot", "reset", "deactivate", "purge"}]}

MCInit ==
    /\ LimitInit /\ SignInInit /\ BudgetInit /\ ObjectsInit
    /\ part \in {"rate", "signin", "budget", "objects"}
    /\ part # "signin" => account = ByGoogle
    /\ part # "budget" => beside = Settled /\ settings.cap = 0
    /\ part = "budget" /\ beside # Settled => settings.cap # 0
    /\ part # "objects" => ~wholesale
MCNext ==
    /\ \/ part = "rate" /\ LimitNext /\ UNCHANGED <<signInVars, budgetVars, allObjectVars>>
       \/ part = "signin" /\ SignInNext /\ UNCHANGED <<limitVars, budgetVars, allObjectVars>>
       \/ part = "budget" /\ BudgetNext /\ UNCHANGED <<limitVars, signInVars, allObjectVars>>
       \/ part = "objects" /\ ObjectsNext /\ UNCHANGED <<limitVars, signInVars, budgetVars>>
    /\ UNCHANGED part
MCSpec == MCInit /\ [][MCNext]_<<limitVars, signInVars, budgetVars, allObjectVars, part>>

Symmetry == Permutations(Requests) \cup Permutations(Entries)
            \cup Permutations(Categories)
=============================================================================
