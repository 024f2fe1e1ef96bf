----------------------------- MODULE MCDelivery -----------------------------
(* Model-checking instances of Delivery.                                    *)
EXTENDS Delivery, TLC

Local(a)    == [mode |-> "local_only", ci |-> FALSE, attest |-> a]
Draft(c, a) == [mode |-> "draft_pr", ci |-> c, attest |-> a]

MCAttested   == {Local(TRUE), Draft(TRUE, TRUE)}
MCUnattested == {Local(FALSE), Draft(FALSE, FALSE), Draft(TRUE, FALSE)}

MCSymmetry == Permutations(Operators)
=============================================================================
