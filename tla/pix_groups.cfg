SPECIFICATION Spec
CONSTANTS
    Receivables = {r1, r2}
    Intents = {i1, i2, i3}
    Groups = {g1, g2}
    Txs = {t1, t2}
    Sessions = {s1, s2}
    None = None
    Amounts = {1, 2}
    Requests = {"createReceivablePix", "createReceivablesPix", "replaceReceivablesPix", "replaceReceivablePix", "syncPaymentIntent", "updateReference"}
    Outcomes = {}
    Failures = FALSE
SYMMETRY Symmetry
INVARIANT TypeOK PaidReceivableIsBooked PaidGroupIsWhole OneOperationalPix
PROPERTY LedgerSpec
CHECK_DEADLOCK FALSE
