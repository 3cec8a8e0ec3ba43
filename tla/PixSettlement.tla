--------------------------- MODULE PixSettlement ---------------------------
(***************************************************************************)
(* How money is settled in the CRM (finance.service.ts): the accounts to   *)
(* receive of one client, the PIX attempts (PaymentIntent rows) that       *)
(* collect them one by one or as a PaymentGroup, the payment provider, and *)
(* the concurrent requests, webhooks and operator actions that work on     *)
(* them.                                                                   *)
(*                                                                         *)
(* A request is a session.  Its database transactions run at PostgreSQL's  *)
(* default Read Committed level, so what a transaction read may be stale   *)
(* when it writes: an operation whose later writes depend on an earlier    *)
(* read is split into a read step and a commit step.  A transaction that   *)
(* only reads under the PIX creation lock and writes at once is one step.  *)
(***************************************************************************)
EXTENDS Naturals, FiniteSets, FiniteSetsExt

CONSTANTS
    Receivables,   \* rows of receivables, all of one client
    Intents,       \* identities PaymentIntent rows may take
    Groups,        \* identities PaymentGroup rows may take
    Txs,           \* identities of transactions at the payment provider
    Sessions,      \* requests the API serves at the same time
    None,          \* the SQL null
    Amounts,       \* values a receivable may be worth
    Requests,      \* kinds of request that arrive
    Outcomes,      \* provider statuses reached besides pending and paid
    Failures       \* whether a request may die between two of its steps

ASSUME AmountsAssumption == Amounts \subseteq Nat \ {0}
ASSUME OutcomesAssumption ==
    Outcomes \subseteq {"approved", "expired", "failed", "refunded"}
ASSUME FailuresAssumption == Failures \in BOOLEAN
ASSUME NoneAssumption ==
    /\ None \notin Receivables \cup Intents \cup Groups \cup Txs
    /\ None \notin [source : Txs \cup {"MANUAL"}, value : Amounts]

VARIABLES
    receivable,    \* Receivable.status
    amount,        \* Receivable.amount
    revenue,       \* the FinancialTransaction of a receivable, or None
    intent,        \* the PaymentIntent table
    group,         \* the PaymentGroup table with its items
    provider,      \* the provider's own transactions
    webhookEvents, \* the PaymentWebhookEvent table
    session        \* the requests in progress

vars == <<receivable, amount, revenue, intent, group, provider,
          webhookEvents, session>>

(***************************************************************************)
(* The values of the rows.                                                 *)
(***************************************************************************)
ReceivableStatus == {"PENDENTE", "PAGO", "CANCELADO"}
ProviderStatus == {"WAITING_PAYMENT", "PAID", "EXPIRED", "CANCELED",
                   "FAILED", "REFUNDED"}
ExternalStatus == {"pending", "approved", "paid", "expired", "cancelled",
                   "failed", "refunded"}
ActivePixStatuses == {"CREATED", "WAITING_PAYMENT"}
IntentStatus == ProviderStatus \cup {"CREATED", "SUPERSEDED"}
Manual == "MANUAL"
ASSUME ManualAssumption == Manual \notin Txs
Shares == [Receivables -> Amounts \cup {0}]
Bookings == {None} \cup [source : Txs \cup {Manual}, value : Amounts]

NoShare == [r \in Receivables |-> 0]
NoIntent == [status |-> "NONE", rec |-> None, grp |-> None, ptx |-> None]
NoGroup == [status |-> "NONE", share |-> NoShare]
NoTx == [status |-> "NONE", share |-> NoShare]
Idle == [pc |-> "idle", target |-> {}, share |-> NoShare, int |-> None,
         grp |-> None, ptx |-> None, seen |-> None, cur |-> None,
         account |-> None, booking |-> None]

PcLabels == {"idle", "reserved", "created", "replacing", "replacement",
             "fetched", "reported", "read", "settling", "settlingGroup",
             "paying", "payingGroup", "canceling", "repricing"}

RequestRecord == [pc : PcLabels, target : SUBSET Receivables, share : Shares,
                  int : Intents \cup {None}, grp : Groups \cup {None},
                  ptx : Txs \cup {None}, seen : ProviderStatus \cup {None},
                  cur : IntentStatus \cup {"NONE", None},
                  account : ReceivableStatus \cup {None}, booking : Bookings]

TypeOK ==
    /\ receivable \in [Receivables -> ReceivableStatus]
    /\ amount \in [Receivables -> Amounts]
    /\ revenue \in [Receivables -> Bookings]
    /\ intent \in [Intents -> [status : IntentStatus \cup {"NONE"},
                               rec : Receivables \cup {None},
                               grp : Groups \cup {None},
                               ptx : Txs \cup {None}]]
    /\ group \in [Groups -> [status : IntentStatus \cup {"NONE"}, share : Shares]]
    /\ provider \in [Txs -> [status : ExternalStatus \cup {"NONE"}, share : Shares]]
    /\ webhookEvents \subseteq Txs \X ExternalStatus
    /\ session \in [Sessions -> RequestRecord]

(***************************************************************************)
(* Queries.                                                                *)
(***************************************************************************)
Items(g) == {r \in Receivables : group[g].share[r] # 0}

\* The receivables an intent collects: its own, or the items of its group.
Covers(i) ==
    IF intent[i].grp # None THEN Items(intent[i].grp)
    ELSE {r \in Receivables : r = intent[i].rec}

IsActive(i) == intent[i].status \in ActivePixStatuses
IsIndividual(i) == intent[i].rec # None /\ intent[i].grp = None

\* Mutant: only individual PIX are looked for.
ActiveIndividualPix(R) == {i \in Intents : IsActive(i) /\ intent[i].rec \in R}

\* findActivePixForReceivables: individual, or of any group that holds one.
ActivePix(R) ==
    {i \in Intents :
        /\ IsActive(i)
        /\ \/ intent[i].rec \in R
           \/ intent[i].grp # None /\ Items(intent[i].grp) \cap R # {}}

\* findCurrentReceivablePixIntent
CurrentPix(r) == {i \in Intents : IsActive(i) /\ IsIndividual(i) /\ intent[i].rec = r}

LinkedTxs == {intent[i].ptx : i \in Intents} \ {None}
IntentsOf(t) == {i \in Intents : intent[i].ptx = t}
ShareOf(R) == [r \in Receivables |-> IF r \in R THEN amount[r] ELSE 0]
Total(share) == MapThenSumSet(LAMBDA r : share[r], Receivables)
Payable(R) == \A r \in R : receivable[r] = "PENDENTE" /\ revenue[r] = None

(***************************************************************************)
(* Locks.  A replacement keeps the PIX creation lock (advisory lock and    *)
(* client row, acquirePixCreationLocks) while it calls the provider.  The  *)
(* client row is locked FOR UPDATE, so a commit that inserts a row with a  *)
(* foreign key to the client (a FinancialTransaction, a ClientEvent) waits *)
(* for it too.  A settlement holds the row of its intent from the          *)
(* conditional update to its commit.                                       *)
(***************************************************************************)
HoldsPixLock(s) == session[s].pc \in {"replacing", "replacement"}
PixLockFree == \A s \in Sessions : ~HoldsPixLock(s)

HoldsRow(s, i) ==
    session[s].pc \in {"settling", "settlingGroup"} /\ session[s].int = i
RowFree(i) == \A s \in Sessions : ~HoldsRow(s, i)

\* The siblings supersedeOpenSiblingPaymentIntents updates.
OpenSiblings(i) ==
    {j \in Intents \ {i} : IsActive(j) /\ intent[j].rec # None
                            /\ intent[j].rec = intent[i].rec}

\* Transaction a waits for a lock that transaction b holds.
WaitsFor(a, b) ==
    /\ a # b
    /\ \/ /\ session[a].pc \in {"settling", "settlingGroup"}
          /\ HoldsPixLock(b)
       \/ /\ session[a].pc = "settling"
          /\ \E j \in OpenSiblings(session[a].int) : HoldsRow(b, j)
       \/ session[a].pc = "replacement" /\ HoldsRow(b, session[a].int)

Deadlocked(s) ==
    \E C \in SUBSET Sessions :
        s \in C /\ \A a \in C : \E b \in C : WaitsFor(a, b)

(***************************************************************************)
(* Session steps.                                                          *)
(***************************************************************************)
Start(s, request) ==
    session[s] = Idle /\ session' = [session EXCEPT ![s] = request]
Continue(s, request) == session' = [session EXCEPT ![s] = request]
Finish(s) == Continue(s, Idle)

Reported(i, t, st) ==
    [Idle EXCEPT !.pc = "reported", !.int = i, !.ptx = t, !.seen = st]

UnusedIntent(i) == intent[i].status = "NONE"
UnusedGroup(g) == group[g].status = "NONE"

\* Bound: a replacement starts only while a row is left for its new intent.
SpareIntent == \E j \in Intents : UnusedIntent(j)

\* Mutant: an approved PIX counts as paid.
NormalizeApprovedAsPaid(external) ==
    CASE external \in {"paid", "approved"} -> "PAID"
      [] external = "expired" -> "EXPIRED"
      [] external = "cancelled" -> "CANCELED"
      [] external = "refunded" -> "REFUNDED"
      [] external = "failed" -> "FAILED"
      [] OTHER -> "WAITING_PAYMENT"

\* normalizeStatus and mapExternalPaymentStatus; anything else is waiting.
NormalizeStatus(external) ==
    CASE external = "paid" -> "PAID"
      [] external = "expired" -> "EXPIRED"
      [] external = "cancelled" -> "CANCELED"
      [] external = "refunded" -> "REFUNDED"
      [] external = "failed" -> "FAILED"
      [] OTHER -> "WAITING_PAYMENT"

\* paymentGroupStatusFromIntent
GroupStatusFromIntent(st) ==
    IF st \in {"EXPIRED", "CANCELED", "FAILED", "PAID"} THEN st ELSE "WAITING_PAYMENT"

\* The partial unique indexes on active intents let row be written in the
\* place of intent i.
ActiveIndexAllows(i, row) ==
    row.status \in ActivePixStatuses =>
        \A j \in Intents \ {i} :
            IsActive(j) => /\ row.rec # None => intent[j].rec # row.rec
                           /\ row.grp # None => intent[j].grp # row.grp

\* The unique index on (provider, providerTransactionId).
TxIndexAllows(i, t) == \A j \in Intents \ {i} : intent[j].ptx # t

(***************************************************************************)
(* Creating a PIX: a reservation is committed, the provider is called, the *)
(* answer is written over the reservation.                                 *)
(***************************************************************************)
ReservePix(s, r) ==
    /\ PixLockFree
    /\ receivable[r] = "PENDENTE"
    /\ ActivePix({r}) = {}
    /\ \E i \in Intents :
        /\ UnusedIntent(i)
        /\ intent' = [intent EXCEPT ![i] = [NoIntent EXCEPT !.status = "CREATED",
                                                           !.rec = r]]
        /\ Start(s, [Idle EXCEPT !.pc = "reserved", !.target = {r},
                                !.share = ShareOf({r}), !.int = i])
    /\ UNCHANGED <<receivable, amount, revenue, group, provider, webhookEvents>>

ReserveGroupPix(s, R) ==
    /\ PixLockFree
    /\ Payable(R)
    /\ ActivePix(R) = {}
    /\ \E i \in Intents, g \in Groups :
        /\ UnusedIntent(i) /\ UnusedGroup(g)
        /\ intent' = [intent EXCEPT ![i] = [NoIntent EXCEPT !.status = "CREATED",
                                                           !.grp = g]]
        /\ group' = [group EXCEPT ![g] = [status |-> "CREATED", share |-> ShareOf(R)]]
        /\ Start(s, [Idle EXCEPT !.pc = "reserved", !.target = R,
                                !.share = ShareOf(R), !.int = i, !.grp = g])
    /\ UNCHANGED <<receivable, amount, revenue, provider, webhookEvents>>

\* paymentProvider.createPix on behalf of a creation or of a replacement.
\* It charges the amounts the reservation, or the inspection, has read.
ProviderCreatePix(s) ==
    /\ session[s].pc \in {"reserved", "replacing"}
    /\ \E t \in Txs :
        /\ provider[t].status = "NONE"
        /\ provider' = [provider EXCEPT ![t] =
               [status |-> "pending", share |-> session[s].share]]
        /\ Continue(s, [session[s] EXCEPT
               !.pc = IF session[s].pc = "reserved" THEN "created" ELSE "replacement",
               !.ptx = t, !.seen = "WAITING_PAYMENT"])
    /\ UNCHANGED <<receivable, amount, revenue, intent, group, webhookEvents>>

\* The provider answers with an error: the reservation stays, a replacement
\* rolls back.
ProviderRefusesPix(s) ==
    /\ session[s].pc \in {"reserved", "replacing"}
    /\ Finish(s)
    /\ UNCHANGED <<receivable, amount, revenue, intent, group, provider, webhookEvents>>

\* The second transaction of createReceivablePix and createReceivablesPix
\* writes by id: it reads neither the intent nor the receivable again.
FinishPix(s) ==
    LET i == session[s].int
        t == session[s].ptx
        row == [intent[i] EXCEPT !.status = "WAITING_PAYMENT", !.ptx = t]
    IN  /\ session[s].pc = "created"
        /\ PixLockFree /\ RowFree(i)
        /\ TxIndexAllows(i, t) /\ ActiveIndexAllows(i, row)
        /\ intent' = [intent EXCEPT ![i] = row]
        /\ group' = IF session[s].grp = None THEN group
                    ELSE [group EXCEPT ![session[s].grp].status =
                             GroupStatusFromIntent("WAITING_PAYMENT")]
        /\ Finish(s)
        /\ UNCHANGED <<receivable, amount, revenue, provider, webhookEvents>>

(***************************************************************************)
(* Replacing the current PIX: everything, the call to the provider         *)
(* included, in one transaction under the PIX creation lock.               *)
(***************************************************************************)
\* inspectReceivableForPixReplacement without a blocker, and the expected
\* current intent still the current one.  The query for an active PIX takes
\* any match, so it blocks for certain only when the current PIX is not one.
InspectReplacement(s, r, i) ==
    /\ PixLockFree
    /\ receivable[r] = "PENDENTE"
    /\ i \in CurrentPix(r)
    /\ intent[i].status = "WAITING_PAYMENT"
    /\ SpareIntent
    /\ Start(s, [Idle EXCEPT !.pc = "replacing", !.target = {r},
                            !.share = ShareOf({r}), !.int = i])
    /\ UNCHANGED <<receivable, amount, revenue, intent, group, provider, webhookEvents>>

\* The same for a group PIX: the selected accounts are exactly its items.
InspectGroupReplacement(s, i) ==
    LET g == intent[i].grp
    IN  /\ PixLockFree
        /\ g # None /\ intent[i].rec = None
        /\ Payable(Items(g))
        /\ i \in ActivePix(Items(g))
        /\ \A j \in ActivePix(Items(g)) : intent[j].rec = None
        /\ intent[i].status = "WAITING_PAYMENT"
        /\ SpareIntent
        /\ Start(s, [Idle EXCEPT !.pc = "replacing", !.target = Items(g),
                                !.share = ShareOf(Items(g)), !.int = i, !.grp = g])
        /\ UNCHANGED <<receivable, amount, revenue, intent, group, provider,
                       webhookEvents>>

\* recoverReceivablePixReplacement adopts an orphan of an earlier, failed
\* replacement in place of a new PIX, after the same inspection.
RecoverReplacement(s, t) ==
    /\ session[s].pc = "replacing" /\ session[s].grp = None
    /\ t \notin LinkedTxs
    /\ provider[t].status \in {"pending", "approved", "paid"}
    /\ \A r \in session[s].target : Total(provider[t].share) = session[s].share[r]
    /\ Continue(s, [session[s] EXCEPT !.pc = "replacement", !.ptx = t,
                                     !.seen = NormalizeStatus(provider[t].status)])
    /\ UNCHANGED <<receivable, amount, revenue, intent, group, provider, webhookEvents>>

CommitReplacement(s) ==
    LET i == session[s].int
        t == session[s].ptx
        old == [intent[i] EXCEPT !.status = "SUPERSEDED"]
    IN  /\ session[s].pc = "replacement"
        /\ RowFree(i)
        /\ \E j \in Intents :
            LET new == [status |-> "WAITING_PAYMENT", rec |-> intent[i].rec,
                        grp |-> session[s].grp, ptx |-> t]
            IN  /\ UnusedIntent(j)
                /\ TxIndexAllows(j, t)
                /\ ActiveIndexAllows(i, new)
                /\ intent' = [intent EXCEPT ![i] = old, ![j] = new]
                /\ IF session[s].seen = "PAID"
                   THEN Continue(s, Reported(j, t, "PAID"))
                   ELSE Finish(s)
        /\ UNCHANGED <<receivable, amount, revenue, group, provider, webhookEvents>>

(***************************************************************************)
(* Reconciling a provider transaction the CRM has no intent for.           *)
(***************************************************************************)
FetchReconciliation(s, r, t) ==
    /\ provider[t].status # "NONE"
    /\ Start(s, [Idle EXCEPT !.pc = "fetched", !.target = {r}, !.ptx = t,
                            !.seen = NormalizeStatus(provider[t].status)])
    /\ UNCHANGED <<receivable, amount, revenue, intent, group, provider, webhookEvents>>

\* reconcileReceivablePix continues with the settlement of a paid intent.
ThenSettle(s, i, wasPaid) ==
    IF session[s].seen = "PAID" /\ ~wasPaid
    THEN Continue(s, Reported(i, session[s].ptx, "PAID"))
    ELSE Finish(s)

AdoptExisting(s) ==
    /\ session[s].pc = "fetched"
    /\ PixLockFree
    /\ \E i \in IntentsOf(session[s].ptx) : ThenSettle(s, i, intent[i].status = "PAID")
    /\ UNCHANGED <<receivable, amount, revenue, intent, group, provider, webhookEvents>>

\* Mutant: the amount of the transaction is not compared.
CanAdoptAnyAmount(s, r, i) ==
    /\ receivable[r] = "PENDENTE"
    /\ \/ ActivePix({r}) = {} /\ UnusedIntent(i)
       \/ i \in ActivePix({r}) /\ intent[i].status = "CREATED" /\ intent[i].ptx = None

\* inspectReceivableForPixReconciliation lets i become the intent of t.  A
\* CREATED intent without a transaction is an unknown reservation and is
\* taken over; any other active PIX blocks.
CanAdopt(s, r, i) ==
    /\ receivable[r] = "PENDENTE"
    /\ amount[r] = Total(provider[session[s].ptx].share)
    /\ \/ ActivePix({r}) = {} /\ UnusedIntent(i)
       \/ i \in ActivePix({r}) /\ intent[i].status = "CREATED" /\ intent[i].ptx = None

\* Mutant: the provider's status is stored as it is.
AdoptedRowAsReported(s, r, i) ==
    [intent[i] EXCEPT !.status = session[s].seen, !.rec = r, !.ptx = session[s].ptx]

\* PAID is stored as waiting: only the settlement makes an intent PAID.
AdoptedRow(s, r, i) ==
    [intent[i] EXCEPT
        !.status = IF session[s].seen = "PAID" THEN "WAITING_PAYMENT"
                   ELSE session[s].seen,
        !.rec = r, !.ptx = session[s].ptx]

AdoptReconciliation(s) ==
    /\ session[s].pc = "fetched"
    /\ PixLockFree
    /\ IntentsOf(session[s].ptx) = {}
    /\ \E r \in session[s].target, i \in Intents :
        /\ CanAdopt(s, r, i)
        /\ ActiveIndexAllows(i, AdoptedRow(s, r, i))
        /\ intent' = [intent EXCEPT ![i] = AdoptedRow(s, r, i)]
        /\ ThenSettle(s, i, FALSE)
    /\ UNCHANGED <<receivable, amount, revenue, group, provider, webhookEvents>>

RefuseReconciliation(s) ==
    /\ session[s].pc = "fetched"
    /\ PixLockFree
    /\ IntentsOf(session[s].ptx) = {}
    /\ \A r \in session[s].target, i \in Intents :
        CanAdopt(s, r, i) => ~ActiveIndexAllows(i, AdoptedRow(s, r, i))
    /\ Finish(s)
    /\ UNCHANGED <<receivable, amount, revenue, intent, group, provider, webhookEvents>>

(***************************************************************************)
(* The sources of a provider status for a local intent.                    *)
(***************************************************************************)
\* syncPaymentIntent, and confirmMockPaymentIntent after the mock is paid.
SyncPaymentIntent(s, i) ==
    /\ intent[i].ptx # None
    /\ Start(s, Reported(i, intent[i].ptx,
                         NormalizeStatus(provider[intent[i].ptx].status)))
    /\ UNCHANGED <<receivable, amount, revenue, intent, group, provider, webhookEvents>>

CancelPaymentIntent(s, i) ==
    LET t == intent[i].ptx
    IN  /\ t # None /\ intent[i].status # "PAID"
        /\ provider[t].status = "pending"
        /\ provider' = [provider EXCEPT ![t].status = "cancelled"]
        /\ Start(s, Reported(i, t, "CANCELED"))
        /\ UNCHANGED <<receivable, amount, revenue, intent, group, webhookEvents>>

\* The transaction webhooks the CRM accepts: the provider sends one for each
\* status it has reached, and may send them again, late or out of order.
\* A cancellation and a failure have no event.
Notified(t) ==
    CASE provider[t].status = "NONE" -> {}
      [] provider[t].status \in {"cancelled", "failed"} -> {"pending"}
      [] provider[t].status = "refunded" -> {"pending", "paid", "refunded"}
      [] OTHER -> {"pending", provider[t].status}

\* Mutant: events are told apart by their transaction alone.
IsRepeatedTransaction(t, external) == \E e \in webhookEvents : e[1] = t

\* The unique index on the provider, transaction, status and key of an event.
IsDuplicate(t, external) == <<t, external>> \in webhookEvents

\* processPaymentWebhook commits the PaymentWebhookEvent before, and apart
\* from, the transaction that applies the status.  A duplicate does nothing.
ProcessPaymentWebhook(s, i, external) ==
    LET t == intent[i].ptx
    IN  /\ t # None
        /\ external \in Notified(t)
        /\ ~IsDuplicate(t, external)
        /\ webhookEvents' = webhookEvents \cup {<<t, external>>}
        /\ Start(s, Reported(i, t, NormalizeStatus(external)))
        /\ UNCHANGED <<receivable, amount, revenue, intent, group, provider>>

(***************************************************************************)
(* applyProviderStatus.                                                    *)
(***************************************************************************)
\* The first read; a transaction that is no longer the intent's is refused.
ReadIntent(s) ==
    LET i == session[s].int
    IN  /\ session[s].pc = "reported"
        /\ IF intent[i].ptx = session[s].ptx
           THEN Continue(s, [session[s] EXCEPT !.pc = "read", !.grp = intent[i].grp,
                                             !.cur = intent[i].status])
           ELSE Finish(s)
        /\ UNCHANGED <<receivable, amount, revenue, intent, group, provider,
                       webhookEvents>>

\* The row an unpaid status leaves: only a superseded intent resists, and
\* only against a status that would make it active again.
UnpaidRow(s) ==
    [intent[session[s].int] EXCEPT !.status =
        IF session[s].cur = "SUPERSEDED" /\ session[s].seen \in ActivePixStatuses
        THEN "SUPERSEDED" ELSE session[s].seen]

ApplyUnpaidStatus(s) ==
    LET i == session[s].int
    IN  /\ session[s].pc = "read" /\ session[s].seen # "PAID"
        /\ RowFree(i)
        /\ session[s].seen = "REFUNDED" => PixLockFree
        /\ ActiveIndexAllows(i, UnpaidRow(s))
        /\ intent' = [intent EXCEPT ![i] = UnpaidRow(s)]
        /\ group' = IF session[s].grp = None THEN group
                    ELSE [group EXCEPT ![session[s].grp].status =
                             GroupStatusFromIntent(session[s].seen)]
        /\ Finish(s)
        /\ UNCHANGED <<receivable, amount, revenue, provider, webhookEvents>>

\* The conditional update takes the row of an intent that is not yet PAID and
\* the receivable is read after it.  A PAID intent only gets new metadata.
AcquireIntent(s) ==
    LET i == session[s].int
        r == intent[i].rec
    IN  /\ session[s].pc = "read" /\ session[s].seen = "PAID"
        /\ session[s].grp = None
        /\ RowFree(i)
        /\ IF intent[i].status = "PAID"
           THEN Finish(s)
           ELSE Continue(s, [session[s] EXCEPT
                    !.pc = "settling", !.target = {r}, !.share = ShareOf({r}),
                    !.account = receivable[r], !.booking = revenue[r]])
        /\ UNCHANGED <<receivable, amount, revenue, intent, group, provider,
                       webhookEvents>>

\* Mutant: no unique index on receivableId.
RevenueIndexAllowsAny(s) == s \in Sessions

\* Mutant: a transaction is created for every account.
BookedEverywhere(s, source) ==
    [r \in Receivables |-> [source |-> source, value |-> session[s].share[r]]]

\* Mutant: the update of the status names no account.
MarkedEverywhere(s, status) == [r \in Receivables |-> status]

\* The FinancialTransaction rows of the accounts of a session.  The unique
\* index on receivableId refuses a second one.
RevenueIndexAllows(s) == \A r \in session[s].target : revenue[r] = None
Booked(s, source) ==
    [r \in Receivables |-> IF r \in session[s].target
                           THEN [source |-> source, value |-> session[s].share[r]]
                           ELSE revenue[r]]
Marked(s, status) ==
    [r \in Receivables |-> IF r \in session[s].target THEN status ELSE receivable[r]]

SettleReceivable(s) ==
    LET i == session[s].int
    IN  /\ session[s].pc = "settling"
        /\ PixLockFree
        /\ \A j \in OpenSiblings(i) : RowFree(j)
        /\ session[s].booking = None => RevenueIndexAllows(s)
        /\ intent' = [j \in Intents |->
               IF j = i THEN [intent[j] EXCEPT !.status = "PAID"]
               ELSE IF j \in OpenSiblings(i)
                    THEN [intent[j] EXCEPT !.status = "SUPERSEDED"]
                    ELSE intent[j]]
        /\ receivable' = IF session[s].account = "PENDENTE" THEN Marked(s, "PAGO") ELSE receivable
        /\ revenue' = IF session[s].booking # None THEN revenue
                      ELSE Booked(s, session[s].ptx)
        /\ Finish(s)
        /\ UNCHANGED <<amount, group, provider, webhookEvents>>

\* Mutant: the item is not compared with its account.
UnchangedItemsAnyValue(g) == Payable(Items(g))

\* Every item of a group is an open account that still has the item's value.
UnchangedItems(g) == Payable(Items(g)) /\ ShareOf(Items(g)) = group[g].share

\* applyPaidPaymentGroupStatus: a group that was paid, or whose intent was,
\* gets new metadata only, and a divergent item refuses the whole payment.
AcquireGroup(s) ==
    LET i == session[s].int
        g == session[s].grp
    IN  /\ session[s].pc = "read" /\ session[s].seen = "PAID"
        /\ g # None
        /\ RowFree(i)
        /\ IF /\ session[s].cur # "PAID" /\ group[g].status # "PAID"
              /\ UnchangedItems(g)
              /\ intent[i].status # "PAID"
           THEN Continue(s, [session[s] EXCEPT !.pc = "settlingGroup",
                                !.target = Items(g), !.share = ShareOf(Items(g))])
           ELSE Finish(s)
        /\ UNCHANGED <<receivable, amount, revenue, intent, group, provider,
                       webhookEvents>>

SettleGroup(s) ==
    LET i == session[s].int
        g == session[s].grp
    IN  /\ session[s].pc = "settlingGroup"
        /\ PixLockFree
        /\ RevenueIndexAllows(s)
        /\ intent' = [intent EXCEPT ![i].status = "PAID"]
        /\ group' = [group EXCEPT ![g].status = "PAID"]
        /\ receivable' = Marked(s, "PAGO")
        /\ revenue' = Booked(s, session[s].ptx)
        /\ Finish(s)
        /\ UNCHANGED <<amount, provider, webhookEvents>>

(***************************************************************************)
(* Settling by hand and cancelling: no lock, the status is read first and  *)
(* written by id in the end.                                               *)
(***************************************************************************)
ReadPayment(s, R, grouped) ==
    /\ Payable(R)
    /\ Start(s, [Idle EXCEPT !.pc = IF grouped THEN "payingGroup" ELSE "paying",
                            !.target = R, !.share = ShareOf(R)])
    /\ UNCHANGED <<receivable, amount, revenue, intent, group, provider, webhookEvents>>

PayReceivable(s) ==
    /\ session[s].pc = "paying"
    /\ PixLockFree
    /\ RevenueIndexAllows(s)
    /\ revenue' = Booked(s, Manual)
    /\ receivable' = Marked(s, "PAGO")
    /\ Finish(s)
    /\ UNCHANGED <<amount, intent, group, provider, webhookEvents>>

PayReceivables(s) ==
    /\ session[s].pc = "payingGroup"
    /\ PixLockFree
    /\ RevenueIndexAllows(s)
    /\ \E g \in Groups :
        /\ UnusedGroup(g)
        /\ group' = [group EXCEPT ![g] = [status |-> "PAID", share |-> session[s].share]]
    /\ revenue' = Booked(s, Manual)
    /\ receivable' = Marked(s, "PAGO")
    /\ Finish(s)
    /\ UNCHANGED <<amount, intent, provider, webhookEvents>>

ReadCancellation(s, r) ==
    /\ receivable[r] = "PENDENTE"
    /\ Start(s, [Idle EXCEPT !.pc = "canceling", !.target = {r}])
    /\ UNCHANGED <<receivable, amount, revenue, intent, group, provider, webhookEvents>>

CancelReceivable(s) ==
    /\ session[s].pc = "canceling"
    /\ PixLockFree
    /\ receivable' = Marked(s, "CANCELADO")
    /\ Finish(s)
    /\ UNCHANGED <<amount, revenue, intent, group, provider, webhookEvents>>

\* updateReference moves the pending account of the current cycle to the new
\* value of the reference (updatePendingCurrentCycleReceivable).
ReadReprice(s, r) ==
    /\ receivable[r] = "PENDENTE"
    /\ Start(s, [Idle EXCEPT !.pc = "repricing", !.target = {r}])
    /\ UNCHANGED <<receivable, amount, revenue, intent, group, provider, webhookEvents>>

RepriceReceivable(s) ==
    /\ session[s].pc = "repricing"
    /\ PixLockFree
    /\ \E r \in session[s].target, value \in Amounts :
        amount' = [amount EXCEPT ![r] = value]
    /\ Finish(s)
    /\ UNCHANGED <<receivable, revenue, intent, group, provider, webhookEvents>>

(***************************************************************************)
(* Requests that end without an effect on the database.                    *)
(***************************************************************************)
\* A unique index refuses the commit (P2002) and the transaction rolls back.
UniqueViolation(s) ==
    LET i == session[s].int
        t == session[s].ptx
        pc == session[s].pc
    IN  /\ \/ /\ pc = "created"
              /\ \/ ~TxIndexAllows(i, t)
                 \/ ~ActiveIndexAllows(i, [intent[i] EXCEPT !.status = "WAITING_PAYMENT"])
           \/ pc = "replacement" /\ t \in LinkedTxs
           \/ /\ pc = "read" /\ session[s].seen # "PAID"
              /\ ~ActiveIndexAllows(i, UnpaidRow(s))
           \/ pc = "settling" /\ session[s].booking = None /\ ~RevenueIndexAllows(s)
           \/ pc \in {"settlingGroup", "paying", "payingGroup"} /\ ~RevenueIndexAllows(s)
        /\ Finish(s)
        /\ UNCHANGED <<receivable, amount, revenue, intent, group, provider,
                       webhookEvents>>

\* PostgreSQL aborts one transaction of a cycle of waits.
DeadlockVictim(s) ==
    /\ Deadlocked(s)
    /\ Finish(s)
    /\ UNCHANGED <<receivable, amount, revenue, intent, group, provider, webhookEvents>>

\* A crash, a timeout of the provider, or an error thrown by work that is not
\* modelled here: what was committed stays, the rest never happens.
Abandon(s) ==
    /\ Failures
    /\ session[s] # Idle
    /\ Finish(s)
    /\ UNCHANGED <<receivable, amount, revenue, intent, group, provider, webhookEvents>>

(***************************************************************************)
(* The provider.                                                           *)
(***************************************************************************)
ProviderMoves(t, from, to) ==
    /\ provider[t].status = from
    /\ provider' = [provider EXCEPT ![t].status = to]
    /\ UNCHANGED <<receivable, amount, revenue, intent, group, webhookEvents, session>>

PayerPays(t) ==
    ProviderMoves(t, "pending", "paid") \/ ProviderMoves(t, "approved", "paid")
ProviderTurns(t) ==
    \E outcome \in Outcomes :
        ProviderMoves(t, IF outcome = "refunded" THEN "paid" ELSE "pending", outcome)

(***************************************************************************)
(* The specification.                                                      *)
(***************************************************************************)
Init ==
    /\ receivable = [r \in Receivables |-> "PENDENTE"]
    /\ amount \in [Receivables -> Amounts]
    /\ revenue = [r \in Receivables |-> None]
    /\ intent = [i \in Intents |-> NoIntent]
    /\ group = [g \in Groups |-> NoGroup]
    /\ provider = [t \in Txs |-> NoTx]
    /\ webhookEvents = {}
    /\ session = [s \in Sessions |-> Idle]

Webhook(s) == 
    \E i \in Intents, external \in ExternalStatus : ProcessPaymentWebhook(s, i, external)
Selections == (SUBSET Receivables) \ {{}}

RequestKinds == {"createReceivablePix", "createReceivablesPix", "replaceReceivablePix",
                 "replaceReceivablesPix", "reconcileReceivablePix", "syncPaymentIntent",
                 "cancelPaymentIntent", "processPaymentWebhook", "payReceivable",
                 "payReceivables", "cancelReceivable", "updateReference"}

\* A request arrives.
Request(s, kind) ==
    \/ kind = "createReceivablePix" /\ \E r \in Receivables : ReservePix(s, r)
    \/ kind = "createReceivablesPix" /\ \E R \in Selections : ReserveGroupPix(s, R)
    \/ /\ kind = "replaceReceivablePix"
       /\ \E r \in Receivables, i \in Intents : InspectReplacement(s, r, i)
    \/ kind = "replaceReceivablesPix" /\ \E i \in Intents : InspectGroupReplacement(s, i)
    \/ /\ kind = "reconcileReceivablePix"
       /\ \E r \in Receivables, t \in Txs : FetchReconciliation(s, r, t)
    \/ kind = "syncPaymentIntent" /\ \E i \in Intents : SyncPaymentIntent(s, i)
    \/ kind = "cancelPaymentIntent" /\ \E i \in Intents : CancelPaymentIntent(s, i)
    \/ kind = "processPaymentWebhook" /\ Webhook(s)
    \/ kind = "payReceivable" /\ \E r \in Receivables : ReadPayment(s, {r}, FALSE)
    \/ kind = "payReceivables" /\ \E R \in Selections : ReadPayment(s, R, TRUE)
    \/ kind = "cancelReceivable" /\ \E r \in Receivables : ReadCancellation(s, r)
    \/ kind = "updateReference" /\ \E r \in Receivables : ReadReprice(s, r)

\* A request that is being served takes its next step.
Step(s) ==
    \/ ProviderCreatePix(s) \/ ProviderRefusesPix(s) \/ FinishPix(s)
    \/ (\E t \in Txs : RecoverReplacement(s, t)) \/ CommitReplacement(s)
    \/ AdoptExisting(s) \/ AdoptReconciliation(s) \/ RefuseReconciliation(s)
    \/ ReadIntent(s) \/ ApplyUnpaidStatus(s)
    \/ AcquireIntent(s) \/ SettleReceivable(s)
    \/ AcquireGroup(s) \/ SettleGroup(s)
    \/ PayReceivable(s) \/ PayReceivables(s)
    \/ CancelReceivable(s) \/ RepriceReceivable(s)
    \/ UniqueViolation(s) \/ DeadlockVictim(s)

Environment == \E t \in Txs : PayerPays(t) \/ ProviderTurns(t)

Next ==
    \/ Environment
    \/ \E s \in Sessions : \/ \E kind \in Requests : Request(s, kind)
                           \/ Step(s)
                           \/ Abandon(s)

ASSUME RequestsAssumption == Requests \subseteq RequestKinds

Spec == Init /\ [][Next]_vars

\* A request that started is served, locks are granted in turn, and the
\* provider sends a webhook again until it is answered.
FairSpec ==
    /\ Spec
    /\ \A s \in Sessions : SF_vars(Step(s))
    /\ SF_vars(\E s \in Sessions : Request(s, "processPaymentWebhook"))

(***************************************************************************)
(* Properties.                                                             *)
(***************************************************************************)
\* A PAGO account has its FinancialTransaction, in every interleaving of
\* settlements by hand, by PIX and by group, and of cancellations.
PaidReceivableIsBooked ==
    \A r \in Receivables : receivable[r] = "PAGO" => revenue[r] # None

\* A PAID intent has booked every account it collects: no creation,
\* reconciliation or replacement leaves a PAID intent that never settled.
PaidIntentIsSettled ==
    \A i \in Intents : intent[i].status = "PAID" =>
        \A r \in Covers(i) : revenue[r] # None

\* Revenue that names a provider transaction rests on money received: no
\* stale, forged-by-order or late status books an unpaid PIX.
RevenueIsBacked ==
    \A r \in Receivables, t \in Txs :
        revenue[r] # None /\ revenue[r].source = t =>
            provider[t].status \in {"paid", "refunded"}

\* At most one PIX that a payer can be asked to pay covers an account,
\* individual and grouped PIX taken together, as long as no PIX lapses.  (A
\* PIX that expired may be written back as waiting, applyProviderStatus, next
\* to one that was created since.)
OneOperationalPix ==
    \A i, j \in Intents :
        i # j /\ IsActive(i) /\ IsActive(j) => Covers(i) \cap Covers(j) = {}

\* An account is booked from a payment with what the payer was charged: its
\* share of a group, or the whole of it.  That is so while no account changes
\* its value (updateReference), and no reconciliation meets the reservation
\* of a group.
BookedIsCharged ==
    \A r \in Receivables, t \in Txs :
        revenue[r] # None /\ revenue[r].source = t =>
            revenue[r].value \in {provider[t].share[r], Total(provider[t].share)}

\* What is booked from a payment is no more than the payment: a transaction
\* that was reconciled for one account does not settle others.
NothingBookedBeyondPayment ==
    \A t \in Txs :
        Total([r \in Receivables |->
                  IF revenue[r] # None /\ revenue[r].source = t
                  THEN revenue[r].value ELSE 0])
            <= Total(provider[t].share)

\* A PAID group is booked whole: every item from the same payment, with the
\* value the group was charged for it, whatever happened to the accounts.
PaidGroupIsWhole ==
    \A g \in Groups : group[g].status = "PAID" =>
        \E from \in Txs \cup {Manual} :
            \A r \in Items(g) : revenue[r] = [source |-> from, value |-> group[g].share[r]]

\* A payment reported by webhook settles the account of its individual PIX,
\* however late, repeated or out of order the webhooks come.
PaidPixSettles ==
    \A i \in Intents, t \in Txs, r \in Receivables :
        (intent[i].ptx = t /\ intent[i].rec = r /\ provider[t].status = "paid")
            ~> (revenue[r] # None)

\* The settlement implements the ledger: no interleaving or failure books an
\* account twice, takes a booking back, or books from money never received.
Source == [r \in Receivables |-> IF revenue[r] = None THEN None ELSE revenue[r].source]
Received == {t \in Txs : provider[t].status \in {"paid", "refunded"}}
Ledger == INSTANCE RevenueLedger WITH source <- Source, received <- Received
LedgerSpec == Ledger!LedgerSpec

(***************************************************************************)
(* The inductive invariant.                                                *)
(***************************************************************************)
\* Rows refer to rows that exist: an intent collects an account or a group
\* in use, and a group holds accounts.
RowsLinked ==
    \A i \in Intents :
        /\ intent[i].status = "NONE" => intent[i] = NoIntent
        /\ intent[i].status # "NONE" /\ intent[i].grp = None => intent[i].rec # None
        /\ intent[i].grp # None => group[intent[i].grp].status # "NONE"

OnIntent == {"reserved", "created", "replacing", "replacement", "reported", "read",
             "settling", "settlingGroup"}
OnTransaction == {"created", "replacement", "fetched", "reported", "read", "settling",
                  "settlingGroup"}
OnGroup == {"reserved", "created", "replacing", "replacement", "read", "settlingGroup"}
Booking == {"settling", "settlingGroup", "paying", "payingGroup"}

\* What a request remembers fits the tables, however old it is.
Fits(s) ==
    LET q == session[s]
    IN  /\ q.pc \in OnIntent => q.int \in Intents /\ intent[q.int].status # "NONE"
        /\ q.pc \in OnTransaction => q.ptx \in Txs /\ q.seen \in ProviderStatus
        /\ q.pc \in OnTransaction /\ q.seen = "PAID" =>
              provider[q.ptx].status \in {"paid", "refunded"}
        /\ q.pc \in OnGroup => q.grp = intent[q.int].grp
        /\ q.pc \in {"settling", "settlingGroup"} => q.seen = "PAID"
        /\ q.pc = "settling" =>
              /\ intent[q.int].grp = None
              /\ q.target = {intent[q.int].rec}
              /\ q.booking # None => \A r \in q.target : revenue[r] # None
        /\ q.pc = "settlingGroup" =>
              /\ q.grp # None
              /\ q.target = Items(q.grp) /\ q.share = group[q.grp].share
        /\ q.pc \in Booking =>
              /\ \A r \in q.target : q.share[r] \in Amounts
              /\ \A r \in Receivables \ q.target : q.share[r] = 0

Safe ==
    /\ PaidReceivableIsBooked
    /\ PaidIntentIsSettled
    /\ RevenueIsBacked
    /\ PaidGroupIsWhole

IInv ==
    /\ TypeOK
    /\ RowsLinked
    /\ \A s \in Sessions : Fits(s)
    /\ Safe
=============================================================================
