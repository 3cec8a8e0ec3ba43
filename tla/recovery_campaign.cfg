SPECIFICATION Spec
CONSTANTS
    Campaigns = {c1}
    Steps = {1, 2}
    Operators = {o1}
    Scheduler = scheduler
    None = None
    Jobs = {"processDue"}
    Endings = {"PAGO"}
    Configurations = {"enabled", "inactive"}
    Configurable = {2}
    Overlap = FALSE
    MaxCrashes = 1
INVARIANT TypeOK
PROPERTY PromiseSpec
CHECK_DEADLOCK FALSE
