CONSTANTS
    free = free
    creator = creator
    power = power
    a1 = a1
    a2 = a2
    FreePlan = free
    Plans <- TestPlans
    Price <- TestPrice
    Included <- TestIncluded
    Halves = {1}
    Reload = 3
    Answers <- TwoAnswers
    Cost = 4
    Minimum = 1
    MaxEvents = 4
    MaxFailures = 1
SPECIFICATION FairSpec
INVARIANTS TypeOK PurchasesAreCreditedOnce ExtraIsNotOverdrawn OldCyclesAreSettled SubscriptionIsTheCustomers
PROPERTY EveryEventIsHandled
CHECK_DEADLOCK FALSE
