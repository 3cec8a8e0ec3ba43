SPECIFICATION Spec
CONSTANTS
    Campaigns = {c1, c2}
    Steps = {1}
    Operators = {}
    Scheduler = scheduler
    None = None
    Jobs = {}
    Endings = {"PAGO"}
    Configurations = {}
    Configurable = {}
    Overlap = FALSE
    MaxCrashes = 0
INVARIANT StepSentOnce
CHECK_DEADLOCK FALSE
