\* Every result of the beta, dispersed and sequential orderings on small arguments.
SPECIFICATION Spec
CONSTANT Arguments <- SmallArguments
INVARIANTS
    TypeOK
    PairsMeet
    WorkDivided
    PlanFits
