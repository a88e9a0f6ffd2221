\* Of six instances at most five come, in every order: the ceiling on their
\* number binds on some combinations and the budget, over sums of three terms,
\* on others, and one instance is larger than the budget.
CONSTANTS
    small1 = small1  small2 = small2  small3 = small3  small4 = small4
    medium = medium  large = large
    Instances = {small1, small2, small3, small4, medium, large}
    Uploads <- Mixed
    Cap = 3
    Budget = 3
SPECIFICATION FairSpec
CONSTRAINT FiveCome
INVARIANTS
    IInv
    BudgetHoldsWhicheverProves
    NobodyOvertakes
PROPERTIES
    ImplementsFifoAdmission
    EveryoneIsAdmitted
