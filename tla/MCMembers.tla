----------------------------- MODULE MCMembers -----------------------------
(* LoginThrottle and GroupTransactions for TLC: who may come in, and who     *)
(* belongs to a group. A behaviour exercises one of the two and leaves the   *)
(* other as it starts; its attempts are on many pairs for a short time, or   *)
(* on one for long. Addresses, emails and attempts are interchangeable; so   *)
(* are users and requests, which bear their names.                           *)
EXTENDS LoginThrottle, GroupTransactions, TLC

CONSTANT TableHorizon   \* bound on the clock where many pairs meet

VARIABLE part   \* what this behaviour exercises

\* Members invited, promoted, demoted and removed; groups created and deleted.
Membership == {"create_group", "create_invitation", "accept_invitation", "change_role",
               "remove_member", "delete_group"}
\* Ownership handed over by two requests at once, the purge among them.
Transfer == {"transfer_ownership", "leave_group", "delete_account", "purge_account"}
\* The purge of owners, with deletion requests cancelled meanwhile.
Purge == {"purge_account", "designate_owner", "deactivate_user", "delete_account",
          "cancel_delete_account"}
\* Ownerless groups handed out by the purge, reactivations and designations at once.
Inheritance == {"purge_account", "reactivate_user", "designate_owner", "deactivate_user"}
AllMixes == {Membership, Transfer, Purge, Inheritance}

\* Attempts on one pair, which may go through its windows.
OnePair == \E k \in Pairs : Held(rows) \subseteq {k} /\ \A p \in Attempts : att[p].pair \in {k, NoPair}

MCInit ==
    /\ Init /\ GroupInit
    /\ part \in {"table", "windows", "groups"}
    /\ part # "groups" => groups = {} /\ handlers = Membership
MCNext ==
    /\ \/ part = "table" /\ Next /\ now' <= TableHorizon /\ UNCHANGED groupVars
       \/ part = "windows" /\ Next /\ OnePair' /\ UNCHANGED groupVars
       \/ part = "groups" /\ GroupNext /\ UNCHANGED vars
    /\ UNCHANGED part
MCSpec == MCInit /\ [][MCNext]_<<vars, groupVars, part>>

Symmetry == Permutations(Addresses) \cup Permutations(Emails) \cup Permutations(Attempts)
=============================================================================
