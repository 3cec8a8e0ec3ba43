--------------------------- MODULE RevenueLedger ---------------------------
(***************************************************************************)
(* What the settlement of accounts promises, whatever requests, webhooks   *)
(* and failures it goes through: an account is booked at most once, by     *)
(* hand or from money the provider has really received, and what is booked *)
(* stays booked.                                                           *)
(***************************************************************************)
CONSTANTS
    Receivables,   \* accounts to receive
    Txs,           \* payments the provider may receive
    Manual,        \* the source of a settlement by hand
    None           \* not booked

VARIABLES
    source,        \* what each account was booked from
    received       \* the payments that have reached the provider

LedgerTypeOK ==
    /\ source \in [Receivables -> Txs \cup {Manual, None}]
    /\ received \subseteq Txs

LedgerInit ==
    /\ source = [r \in Receivables |-> None]
    /\ received = {}

Book(R, from) ==
    /\ \A r \in R : source[r] = None
    /\ source' = [r \in Receivables |-> IF r \in R THEN from ELSE source[r]]
    /\ UNCHANGED received

Receive(t) ==
    /\ t \notin received
    /\ received' = received \cup {t}
    /\ UNCHANGED source

BookByHand(R) == Book(R, Manual)

BookPayment(R, t) ==
    /\ t \in received
    /\ Book(R, t)

LedgerNext ==
    \/ \E t \in Txs : Receive(t)
    \/ \E R \in (SUBSET Receivables) \ {{}} :
         BookByHand(R) \/ \E t \in Txs : BookPayment(R, t)

LedgerSpec == LedgerInit /\ [][LedgerNext]_<<source, received>>
=============================================================================
