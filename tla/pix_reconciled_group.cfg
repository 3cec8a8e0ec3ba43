SPECIFICATION Spec
CONSTANTS
    Receivables = {r1, r2}
    Intents = {i1, i2}
    Groups = {g1}
    Txs = {t1, t2}
    Sessions = {s1}
    None = None
    Amounts = {1, 2}
    Requests = {"createReceivablesPix", "createReceivablePix", "replaceReceivablePix", "reconcileReceivablePix", "syncPaymentIntent"}
    Outcomes = {"expired"}
    Failures = TRUE
SYMMETRY Symmetry
INVARIANT NothingBookedBeyondPayment
CHECK_DEADLOCK FALSE
