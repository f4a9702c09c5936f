--------------------------- MODULE MCHostAdmission ---------------------------
(* Instances of HostAdmission for TLC. *)
EXTENDS HostAdmission, TLC

CONSTANTS a, b, c, d, once, shared

Contexts == {once, shared}

\* Three interchangeable admissions: one shared context, equal charges.
Ops == {a, b, c}
AllShared == [o \in Ops |-> shared]
OneEach == [o \in Ops |-> 1]
AnyOrder == Permutations(Ops)

\* Four for the budget: a, b and d were prepared with one single-admission
\* context; a and c do not fit beside each other within the host's budget, b and
\* c do; d is larger than any one admission may be.
BudgetOps == {a, b, c, d}
BudgetContext == [o \in BudgetOps |-> IF o = c THEN shared ELSE once]
BudgetCharge == [o \in BudgetOps |-> CASE o = d -> 3 [] o \in {a, c} -> 2 [] OTHER -> 1]
=============================================================================
