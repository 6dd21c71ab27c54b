CONSTANTS
    ann = ann
    bob = bob
    Customers = {ann, bob}
    v1 = v1
    v2 = v2
    Vendors = {v1, v2}
    d1 = d1
    d2 = d2
    Desks = {d1, d2}
    MonthLengths <- MCMonthLengths
    Week = 2
    AgeLimits <- MCAgeLimits
    Price = 2
    Cost = 1
    Trips <- MCTrips
    Periods <- MCPeriods
    Scenes <- MCScenes
SPECIFICATION Spec
INVARIANTS DueDatesRight AgeingRight  InvoicesStand PayablesAgree
PROPERTIES  IssuedIsFinal
CHECK_DEADLOCK FALSE
