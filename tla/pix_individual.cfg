SPECIFICATION Spec
CONSTANTS
    Receivables = {r1, r2}
    Intents = {i1, i2}
    Groups = {g1}
    Txs = {t1, t2}
    Sessions = {s1, s2}
    None = None
    Amounts = {1, 2}
    Requests = {"createReceivablePix", "replaceReceivablePix", "reconcileReceivablePix", "payReceivable"}
    Outcomes = {"approved", "refunded"}
    Failures = TRUE
SYMMETRY Symmetry
INVARIANT RevenueIsBacked PaidIntentIsSettled BookedIsCharged
PROPERTY LedgerSpec
CHECK_DEADLOCK FALSE
