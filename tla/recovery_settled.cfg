SPECIFICATION FairSpec
CONSTANTS
    Campaigns = {c1}
    Steps = {1}
    Operators = {o1}
    Scheduler = scheduler
    None = None
    Jobs = {"reconcile"}
    Endings = {"PAGO", "CANCELADO"}
    Configurations = {}
    Configurable = {}
    Overlap = TRUE
    MaxCrashes = 1
PROPERTY SettledCampaignsEnd
CHECK_DEADLOCK FALSE
