----------------------------- MODULE MCBilling -----------------------------
(* Small instances of Billing. *)
EXTENDS Billing

CONSTANTS free, creator, power, a1, a2

TestPlans == {free, creator, power}
TestPrice == [p \in TestPlans |-> IF p = free THEN 0 ELSE IF p = creator THEN 1 ELSE 3]
TestIncluded == [p \in TestPlans |-> IF p = free THEN 2 ELSE IF p = creator THEN 4 ELSE 8]
TwoAnswers == {a1, a2}
=============================================================================
