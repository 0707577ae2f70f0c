------------------------ MODULE MCGroupTransactions ------------------------
(* GroupTransactions for TLC, a member removed while it is made owner: users *)
(* and requests are interchangeable.                                         *)
EXTENDS GroupTransactions, TLC

Symmetry == Permutations(Users) \cup Permutations(Requests)

Removals == {{"remove_member", "transfer_ownership"}}
=============================================================================
