SPECIFICATION Spec
CONSTANTS
    Plans = {1}
    Values = {1}
    StartDates <- TypedDates
    PaymentDates <- LateDates
    Horizon = 2
    MaxAccounts = 3
    Sessions = {s1}
    Requests = {"renew", "revert", "settle", "cancelReceivable", "updateReference", "updateReferenceStatus", "reactivate", "freeMonth", "generateReceivable", "updatePlan"}
INVARIANT TypeOK DueFollowsAnchor
 
 
CHECK_DEADLOCK FALSE
