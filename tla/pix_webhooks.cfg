SPECIFICATION FairSpec
CONSTANTS
    Receivables = {r1}
    Intents = {i1, i2}
    Groups = {g1}
    Txs = {t1, t2}
    Sessions = {s1, s2}
    None = None
    Amounts = {1}
    Requests = {"createReceivablePix", "processPaymentWebhook", "cancelPaymentIntent", "cancelReceivable", "payReceivables"}
    Outcomes = {"expired"}
    Failures = FALSE
PROPERTY PaidPixSettles
CHECK_DEADLOCK FALSE
