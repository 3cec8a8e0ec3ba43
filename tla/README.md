# A TLA+ model of the CRM's money, cycles and messages

The repository is a CRM for recurring billing: a NestJS API over PostgreSQL
(`apps/api`) and a Next.js client (`apps/web`). Clients have references
(contracts), references have accounts to receive, accounts are collected by PIX,
and messages that ask for payment go out through WhatsApp. This directory holds
TLA+ modules of the parts of the API where requests, webhooks and schedulers
change the same rows, TLC configurations that check them, and TLAPS proofs.

Paths below are relative to `apps/api/src` unless they say otherwise.

## Inventory

| Part | State it keeps | Operations | Talks to |
|---|---|---|---|
| PIX collection and settlement (`finance/finance.service.ts`) | Receivable, PaymentIntent, PaymentGroup and items, PaymentWebhookEvent, FinancialTransaction | create, replace, recover, sync, cancel, reconcile a PIX, alone or grouped; webhook; settle and cancel by hand | payment provider, receivable cycles, billing, recovery |
| Receivable cycles (`receivable-cycle/`) | the account of a reference's current cycle | ensure, classify, reprice, cancel, repair | called in the transactions of all that move a cycle |
| Renewals (`renewals/`) | Renewal, with the state before and after | renew, preview and revert | references, accounts, billing |
| Reactivations (`reactivations/`) | ClientReferenceReactivation | create; its payment activates the reference | references, accounts |
| Clients and references (`clients/`) | Client, ClientReference, ClientEvent | create, update, change status, delete | accounts, billing, recovery |
| Plans (`plans/`) | Plan | create, update, deactivate | read by renewals and reactivations |
| Automatic billing (`billing/`) | MessageDispatch and items, templates, settings | reconcile, processDue, sendNow, settings, templates | accounts, PIX, WhatsApp provider |
| Recovery campaigns (`recovery/`) | RecoveryCampaign, RecoveryCampaignStep, their dispatches | reconcile, processDue, cancel, settings | accounts, WhatsApp provider |
| Referrals (`referrals/`) | Referral | create, update, apply the reward, cancel, reconcile | references (a free month), ledger |
| WhatsApp messages (`whatsapp/whatsapp.service.ts`) | connections, conversations, messages | send, retry, receive, receipts, echoes, mark as read, resolve, forward, react | provider, attendances, automatic replies |
| WhatsApp attendances (`whatsapp/whatsapp-attendance.service.ts`) | WhatsAppAttendance, categories | open, attach, resolve | messages |
| Automatic replies (`whatsapp/whatsapp-auto-reply.service.ts`) | WhatsAppAutoReplyExecution | claim, send, release | messages, provider |
| Reports, dashboard, analytics | none | queries | everything, read-only |
| Legacy import, auth, users, config, media, voice | own tables or files | see *Not modelled* | |

How the parts interact:

- **Shared rows, Read Committed.** Most operations read what they decide on
  before, or early in, a `$transaction` at PostgreSQL's default isolation, and
  then write by id. What was read may be stale when it is used. A few use
  conditional updates (`updateMany` with the expected status), advisory locks
  (PIX creation, conversations), row locks, or `Serializable`.
- **Calls in a transaction.** A settlement advances the cycle of its reference
  in its own transaction (`processPaidReceivableCycle`), which materialises the
  next account and cancels the dispatches that asked for the old one. If that
  throws, the settlement rolls back with it.
- **Messages from outside.** The payment provider and the WhatsApp gateway call
  webhooks that may be late, repeated and out of order; their answers to
  requests of the API may be lost.
- **Schedulers.** Billing and recovery have a timer each, next to the endpoints
  that do the same for an operator.

What makes each part correct:

- *Settlement*: an account is booked at most once; only from money received or
  by hand; a PAGO account has its FinancialTransaction and stays PAGO; a paid
  group is booked whole; at most one PIX asks for an account; every payment that
  is reported settles its account.
- *Cycles*: an active reference always has the account of its current cycle when
  it has moved there; due dates follow the anchor day; a paid cycle is not
  charged again; an account that waits can be paid.
- *Billing*: nobody is charged for what is settled; a message whose delivery is
  uncertain is not repeated by itself; retries are bounded.
- *Recovery*: a message goes out at most once and only while its campaign, account
  and reference are open; a settled account has no campaign for long.
- *Conversations*: one request sends a text at a time; an attendance counts the
  messages linked to it, follows the one before it by the grace period, and is
  answered between its opening and its end.
- *Automatic replies*: one in the cooldown, from the request that holds the
  reservation; no message is left PENDING by an execution that ended.
- *Referrals*: a reward is given once.

The list of hazards, each at its line and with the properties that cover it, is in
`PROJECT.json`.

## Modules

| Module | Models | Composes |
|---|---|---|
| `RevenueLedger` | abstract: what settlement promises | |
| `PixSettlement` | accounts, PIX, groups, provider, webhooks, concurrent requests | implements `RevenueLedger` |
| `PixSettlementProofs` | theorems about `PixSettlement` | `PixSettlement`, TLAPS |
| `OnePixProofs` | the theorem that an account has one active PIX | `PixSettlementProofs` |
| `ChargeProofs` | the theorem that accounts are booked at what was charged | `PixSettlementProofs` |
| `BusinessDates` | calendar arithmetic of `clients/utils/business-date.ts` | |
| `ReferenceCycle` | the contract, its accounts, renewals, reactivations, settlements, free months | `BusinessDates` |
| `ReferenceCycleProofs` | theorems about `ReferenceCycle` | `ReferenceCycle`, TLAPS |
| `BillingDispatch` | dispatches of one client: reconcile, scheduler, operator, provider | |
| `BillingDispatchProofs` | theorems about `BillingDispatch` | `BillingDispatch`, TLAPS |
| `Attendances` | pure operators of `whatsapp-attendance.service.ts` on the attendances of a conversation | |
| `Conversation` | webhooks, texts, retries, receipts, resolution and reading of one conversation | `Attendances` |
| `ConversationProofs` | theorems about `Conversation` | `Conversation`, TLAPS |
| `AutoReply` | automatic replies of one conversation, their reservation and its time to live | |
| `AutoReplyProofs` | theorems about `AutoReply` | `AutoReply`, TLAPS |
| `RecoveryPromise` | abstract: what recovery promises about its messages | |
| `Recovery` | campaigns about one account: reconcile, scheduler, operator, provider | implements `RecoveryPromise` |
| `RecoveryProofs` | theorems about `Recovery` | `Recovery`, TLAPS |
| `MC*` | symmetry and constants for TLC | their module |

### PixSettlement

`receivable`, `amount` and `revenue` are the columns of Receivable that matter and
the FinancialTransaction that names it. `intent` and `group` are the rows of
PaymentIntent and PaymentGroup (`share` holds the group's items), `provider` is the
provider's own truth, `webhookEvents` the table that tells duplicates.
`session[s]` is one request in progress: `pc` says between which two steps of the
handler it is, and the other fields are the local variables that survive the gap.

A handler is one action for each stretch that nothing can interrupt. A creation,
for example, is `ReservePix` (first transaction, under the advisory lock),
`ProviderCreatePix` or `ProviderRefusesPix` (the call), and `FinishPix` (second
transaction, which writes by id). A replacement is one transaction that keeps the
creation lock and the client row while it calls the provider, so it is
`InspectReplacement`, `ProviderCreatePix`, `CommitReplacement`, with `HoldsPixLock`
in between. `applyProviderStatus` is `ReadIntent` and then `ApplyUnpaidStatus`, or
`AcquireIntent` and `SettleReceivable`, or `AcquireGroup` and `SettleGroup`; the row
of the intent is locked from the conditional update to the commit (`HoldsRow`).
`UniqueViolation` is a commit that an index refuses, `DeadlockVictim` a transaction
PostgreSQL aborts, `Abandon` (when `Failures`) a process that dies or times out.
Requests that a guard turns away change nothing and have no action.

### ReferenceCycle

One reference. `reference` is its contract (status, plan, value, due date, anchor
day), `accounts` its receivables in order of creation, `renewals` and
`reactivations` their tables. An operation that decides on an earlier read is a
session with a `Read...` and a `Commit...` step; the commit writes only the columns
the handler sets, so a stale value is a stale value in the model too.
`CycleStatus`, `CanEnsure` and `Ensured` are `classifyReference` and
`ensureCurrentCycleReceivable`: when `CanEnsure` is false the code throws and the
transaction rolls back, which is `Abandon`. PIX and the lost update of one account
row belong to `PixSettlement`; here an account is paid in one step of its own.

### BillingDispatch

One client, whose references have accounts to charge on given days. `dispatch[day]`
is the MessageDispatch whose idempotency key names the day. `clock` counts half days, before
and after the hour of sending. A worker is an HTTP request or a scheduler tick:
`StartReconcile` reads all references, `FindGroup` and `WriteGroup` alternate for each
day (two statements of different transactions, so others may step in between);
`SelectDue` or `SendNow` starts a sender, which goes through `Acquire`, `Refresh`,
`Check`, `Send` and `Record`, each a statement of its own in the code. `Crash` ends a
worker anywhere. `Operator` is everything that may happen to the accounts and references
meanwhile, with the cancellation of dispatches that the same transaction makes.
`told` is a history variable: which dispatches the provider may have delivered since
somebody asked for them.

### Conversation and Attendances

One conversation with a Brazilian phone. `attendances` is the table of
WhatsAppAttendance in order of creation; the operators of `Attendances` are the three
methods that change it, each under the advisory lock of the conversation. `row` is
the table of outgoing messages, `link` the attendance of each message of the contact,
`seen` the table of inbound identifiers, `inbox` the order of the inbound rows that
`markConversationAsRead` reads. `accepted` and `device` are the truth of the provider
and of the contact's phone, from which echoes and receipts come, as often and in any
order. A text is PENDING (`SendConversationTextMessage`, or `ClaimRetry` for one that
failed), then `ProviderAnswers`, then `ProviderFailed` or
`RememberProviderConfirmation` and `ConfirmSent`. Transactions that update the row of
the conversation and then ask for its lock deadlock with a resolution, which does it
the other way: `Deadlock` ends either of the two. When the confirmation of a text is
the victim, or its identifier is taken by an echo, its row keeps what it had.

### AutoReply

`execution[t]` and `message[t]` are the WhatsAppAutoReplyExecution and the
WhatsAppMessage of the trigger `t`, `request[t]` the call of `tryReplyToInbound` that
its webhook makes, with the `now` it began at. The reservation (`Holds`) is the unique
`reservationKey`. `Tick` lets time pass, but not past the deadline of a request that
is at work: the HTTP client of the provider gives up after seconds
(`kirago-http.client.ts:23`), the reservation after minutes. A request that is dead
(`Crash`) holds nothing back.

### Recovery

One overdue account, its campaigns, and a message for each pair of campaign and step,
which is a RecoveryCampaignStep and a MessageDispatch. A session is a call of
`reconcile` (job `reconcile`), of `processDue`, or the tick of the scheduler, which does
both. `seen`, `left`, `account` and `reference` of a session are what its first query
returned; `startCampaign` is `StartCampaign`, `CreateStep`, `CreateDispatch` and
`LinkDispatch`, each a statement that commits by itself; `reconcileCampaign` is one
`ReconcileStep` for each step; `processAcquired` is `PassCheck` or `FailCheck`, then
`ProviderAnswers`, and a record of the outcome. The two checks before sending are one
action, the second: it decides, and what the first one refuses the second one would.
Phones, connections and due times are read nondeterministically.

## Runs

All runs pass, or find their violation, in under three minutes with two workers.

| Run | Checks | Instance and why it is enough |
|---|---|---|
| `pix_individual` | RevenueIsBacked, PaidIntentIsSettled, BookedIsCharged, LedgerSpec | two accounts, creation, replacement, reconciliation and settlement by hand, two requests that may die anywhere: an orphan is adopted for the right account and amount, and only once |
| `pix_groups` | TypeOK, PaidReceivableIsBooked, PaidGroupIsWhole, OneOperationalPix, LedgerSpec | three intents and two groups, created, replaced and synchronised, so that a replacement meets an old, a new and a rival PIX, groups overlap with each other and with PIX of one account, and values change under a group; a PIX is approved or paid, none lapses |
| `pix_webhooks` | PaidPixSettles (liveness) | PIX that are paid or expire, with every webhook of them repeated, late or out of order; no request dies, no replacement |
| `pix_reconciled_group` | violates NothingBookedBeyondPayment | two accounts, two intents, one group, one request at a time that may die |
| `cycle_sequence` | TypeOK, DueFollowsAnchor, PaidCycleIsNotEntered, AdvanceIsCharged | all operations, one at a time (two at once are left to the theorems), on January 31 to March 2024, where operators type January 31 or February 29: a short month and a late payment |
| `billing_queue` | TypeOK, NoBlindRetry, SettledIsNotCharged | two references charged on the same day (one message for both), two days, three attempts, three requests of others (edits, payments, send now), one worker that may crash anywhere |
| `conversation_texts` | OneSenderPerRow, CountersMatch | two requests that send, retry, echo and resolve: a retry overtaken by another, an echo before the answer it confirms, deadlocks and crashes |
| `conversation_episodes` | TypeOK, EpisodesAreDisjoint, ReplyIsWithin | two messages of the contact, each with any earlier time, a text and its echo, resolutions between them, and reading meanwhile: two attendances with a grace period between them |
| `auto_reply` | TypeOK, RepliesAreSpaced, SenderHolds, MessageFollowsExecution | three triggers: one that dies, one that takes its reservation over, one that crosses them |
| `recovery_campaign` | TypeOK, PromiseSpec | two steps, the template of one of them deactivated and activated at any time; an operator sends next to the scheduler; one crash (a step that is disabled instead differs in the status that is written) |
| `recovery_settled` | SettledCampaignsEnd (liveness) | an operator reconciles together with the scheduler, one crash, either end of the account |
| `recovery_restart` | violates StepSentOnce | two campaigns of one step |

Bounds are CONSTANTS or named guards: `SpareIntent` and the sizes of `Intents`,
`Groups`, `Txs`; `Horizon` and `MaxAccounts` (`WithinBounds`); `LastDay`, `LastTime`,
`MaxCycles`, `MaxChanges`, `MaxCrashes`; the sets of messages, rows, attempts, triggers,
campaigns and steps. Rows are never reused, so running out of them ends a
behaviour: this is why deadlock is not checked. With two sessions each property
of two interleaved handlers is reached (`cycle_sequence` has one, see its theorems); with three the state spaces grow past
the time a run may take, and the proofs cover any number of them (see
*Proofs*, also for what needs one request at a time). Sessions, accounts and identities are
interchangeable, hence the symmetry; the liveness runs declare none.

Abstractions worth knowing: a value of money is a small number; the requests that
arrive are chosen per run by `Requests`; the provider either answers or does not;
`BillingDispatch` reduces a cycle to the day of its charge, takes templates as active
and phones as valid, ignores the seconds between two messages, and has a refused
message really refused (a connection error that is reported as a refusal although
the message went out is outside it). The times of `AutoReply` and `Conversation` are a
few units, of which the cooldown, the grace period and the time to live are one or two:
what matters is which of two times is earlier, and whether the distance between
them is reached. `Conversation` gives an attempt the identifier of its `requestId`, as
the gateway does, and lets a retry find any free one.

`NoBlindRetry` and `SettledIsNotCharged` are checked with one worker at a time, with
changes by others between any two of its steps. Two workers can break both: a `reconcile`
that found a dispatch waiting writes it by id, with its items, after another request has
sent or refreshed it (see the hazard of `billing.service.ts:1745`).

`PromiseSpec` of `Recovery` is checked while no reconciliation runs together with another
request (`Overlap = FALSE`), with an operator's `processDue` next to the scheduler's. With
`Overlap = TRUE` it fails, which is the hazard of `recovery.service.ts:736`; the liveness
of `recovery_settled` holds even then.

### Fairness

`FairSpec` of `PixSettlement` is used by `pix_webhooks`. Strong fairness of the steps of a
session says that a started request is served and that PostgreSQL grants locks in turn;
strong fairness of the webhook request says that the provider keeps delivering a
webhook until it is answered.

`FairSpec` of `Recovery` is used by `recovery_settled`: weak fairness of the steps of a
request, and strong fairness of the scheduler's tick, whose timer fires every minute
(`recovery.scheduler.ts`). A request that dies takes its memory with it; the tick of
the next minute is another one.

Nothing is assumed of operators, payers, contacts or other requests. The other modules
state safety only.

## What the runs found

- **The same recovery step is sent again** (`recovery/recovery.service.ts:207`,
  `recovery_restart`). A campaign that has sent all its steps is CONCLUIDA. The next
  `reconcile` sees an overdue account without an active campaign and starts another,
  with messages of its own. `docs/project/requisitos.md:183` says that a step may not be
  sent twice.

- **A payment of one account settles a whole group** (`finance/finance.service.ts:3763`,
  `pix_reconciled_group`). When the provider call of a group PIX fails, its reservation stays
  CREATED without a transaction. A reconciliation of one of its accounts takes that for the
  reservation of unknown outcome it may complete (`unknownReservation`), compares the
  transaction with the value of the one account, and writes it to the intent of the group.
  When it is paid, every account of the group is booked: `applyPaidPaymentGroupStatus` compares
  the items with their accounts and never the payment with their sum.
  `docs/project/pix-reconciliation.md:39` asks that the provider's value match the account
  exactly. The trace: a PIX of r1 is replaced, the process dies before it stores the new
  one (an orphan), the old one expires, a group PIX of r1 and r2 fails at the provider, the
  orphan is reconciled for r1, and its payment pays r2 as well. The check of `paymentGroupId`
  that recovery and replacement make is missing here.

Other consequences of the code that the models show and no run asks against, each a
hazard in `PROJECT.json`:

- `cancelReceivable` checks PENDENTE before its transaction and updates by id: it
  overwrites a settlement that committed in between (`finance.service.ts:1997`).
- An individual PIX that expired can become active again next to a group PIX that was created
  since: `applyProviderStatus` (`:2090`) writes the status that follows from what it read,
  `EXPIRED` or `SUPERSEDED` back to waiting, and the partial unique index tells individual PIX from
  groups. `OneOperationalPix` holds while no PIX lapses, and fails with `"expired"` among the
  `Outcomes` of `pix_groups`.
- The answer of a creation is written over the transaction a reconciliation had linked
  (`:702`); reconciling that one again books it for another time.
- A webhook whose settlement deadlocks with a replacement is recorded as seen and its
  effect rolled back (`:1819`); a sync or a settlement by hand repairs it.
- A reference that is renewed before its account is paid has two pending accounts, one
  of which can never be paid (`receivable-cycle.service.ts:101`).
- A message of the contact whose transaction deadlocks with a resolution is recorded as
  seen and does not reach the conversation (`whatsapp.service.ts:5062`).
- A receipt or an echo may set the status of a message back (`whatsapp.service.ts:5110`,
  `:5500`), and the messages that are marked as read are those of a second read (`:3618`).
- A retry gives the row of a text a new `requestId` (`whatsapp.service.ts:3317`). If the text is
  posted once more with its first `requestId`, the row is not found and a second one is
  created, and a late echo of the first sending may belong to it: an answer from before its
  attendance. The browser draws a fresh `requestId` for each text, and the model does too.
- A reference that waits for its initial payment is activated by hand without a look at
  the account of its cycle (`clients.service.ts:791` looks only on the way back from
  INATIVO), so it may become active on a cycle that was paid: the one step that
  `PaidCycleIsNotEntered` leaves out.
- A dispatch that `reconcileCampaign` adds names no account, and is refused when it is
  due (`recovery.service.ts:789`). `markRetry` counts an attempt that was counted already
  (`:1288`). A crash leaves a dispatch PROCESSING and its campaign ATIVA.

## Proofs

`PixSettlementProofs` proves, for any number of accounts, PIX, groups,
transactions, sessions, any values, requests and outcomes:

- `InvariantHolds`: `Spec => []IInv`;
- `TypeCorrect`, `PaidAccountsAreBooked`, `PaidIntentsAreSettled`,
  `BookedRevenueIsBacked`, `PaidGroupsAreWhole`: its consequences that the runs check
  as TypeOK, PaidReceivableIsBooked, PaidIntentIsSettled, RevenueIsBacked,
  PaidGroupIsWhole;
- `SettlementImplementsLedger`: `Spec => LedgerSpec`, every step of the settlement
  is a step of `RevenueLedger` or leaves it unchanged.

Assumed are only the named ASSUMEs of `PixSettlement`: amounts are positive, the null
differs from every row, and `Requests` and `Outcomes` are among the known ones.

Why an invariant of its own is needed: what makes a commit safe is what the request
remembers. A session that is about to settle must still remember the share its
group has, the account its intent collects, and a status that the provider really
reached; none of the checked properties says so. `IInv` adds `RowsLinked` (rows refer
to rows that exist) and `Fits(s)` (what request `s` remembers fits the tables, however
old it is). `Fits` survives the steps of other requests because of what no step ever
undoes: rows in use keep their identity, bookings are final, and money received
stays received. That is `Stable`, and `StableFits` is the lemma that turns it into the
preservation of `Fits`. Then one lemma for each action (`...Keeps`) shows that the
action preserves `IInv`, `NextKeepsInvariant` combines them, and `PTL` closes the
induction. The refinement uses the invariant for the two settlement steps: the
account was not booked, and the transaction was received.

`OnePixProofs` proves `AccountsHaveOnePix`: `NoPixLapses => (Spec => []OneOperationalPix)`, with any
requests but the cancellation at the provider, any values, and requests that die. The
hypothesis (a PIX ends paid or not at all) is not something the code guarantees; the
statement is false without it, as *What the runs found* says. The property is far from
inductive: a check under the creation lock says something of the accounts it looked
at, but settlements, reconciliations and late statuses change intents without that
lock. `OneInv` says why it works. `OneTarget`: intents of any status that collect a common account have
the same target, so whatever collects an account first keeps it for good. That
is because of `OpenIsCollected`: while an account of an intent is open, some intent with the same target is
active, so that a creation for anything else meets it. `OneActive` is the two partial indexes. A
settlement supersedes the others of its target and closes its accounts in one step, and
`Recent` says what a request may remember while that happens: in particular, that
a status read from a superseded intent is written back only when the accounts are
closed, or finds it superseded still.

`ChargeProofs` proves `BookingsAreCharged`: `ChargesStand => (Spec => []BookedIsCharged)`. The
hypothesis excludes what breaks it: `updateReference`, which changes the value of an account under a
PIX that was created, and reconciliations next to group PIX (the finding above). `ChargeInv` says
that the transaction of every intent (`LinkedPays`), and the one a request
remembers (`Knows`), charges each account the intent collects with its value: as its share, or by
itself when it was reconciled or recovered. A fetched transaction charges nothing yet; the check under the
lock makes it fit. `Lasting` is what no step takes back: values, what an intent in use
collects, and what a transaction charges.

`AutoReplyProofs` proves, for any number of triggers, any cooldown, time to live and
horizon:

- `RepliesInvariant`: `Spec => []IInv`;
- `RepliesTypeCorrect`, `RepliesStaySpaced`, `SendersHold`, `MessagesFollowExecutions`: the
  four properties of `auto_reply`.

The one assumption that carries weight is `SendTime <= Ttl` in `TimesAssumption`: a request
records its outcome, or is dead, before its reservation counts as stale. The HTTP
client gives up after eight seconds, unless it is configured otherwise, and the reservation after minutes; a process that
is suspended in between for longer is outside it. The invariant needs two facts that
no property states. `Began`: a request knows a time that has passed, and its trigger
has no execution until it claims one. `Working`: the reservation of a request at work is
young, and *no reply was sent in the cooldown before the request began*. The second
look at the cooldown makes this true at the claim, the reservation keeps others from
recording a reply since, and it is what spaces the reply recorded at the end,
although `now` was taken before the reservation. `AtWork` and `Stale` exclude each
other by the assumption, which is why the takeover never meets a sender.

`ConversationProofs` proves, for any messages, texts, `requestId`s, requests in progress, times
and crashes:

- `ConversationIsTyped`, `TextsHaveOneSender`, `AttendancesAreDisjoint`, `RepliesAreWithin`,
  `CountersAreRight`: `TypeOK`, `OneSenderPerRow`, `EpisodesAreDisjoint`, `ReplyIsWithin` and
  `CountersMatch`, the invariants of `conversation_texts` and `conversation_episodes`.

Assumed are the ASSUMEs of `Conversation`: among them, that the sets of messages and texts are
finite, since the counters count them. None of the five properties is inductive by
itself. `RowsInTime` says that whatever the provider or a row knows of a text is not older
than the row, which is why an echo never answers an attendance that ended before the
text was written. `Fits` is what a request in progress may rely on, `Apart` what two
requests never do at once: the conditional update of `ClaimRetry` and the identifier
that every webhook must be the first to store keep them apart. `MessagesAreLinked` relates the
inbox, the links and the attendances, so that a message is counted once. The heart of
`AttendancesAreDisjoint` is that a message which opens an attendance is later than the grace
period of the last one; that of `CountersAreRight` that a row is linked in the step that counts it.

`BillingDispatchProofs` proves:

- `DispatchesAreTyped`: `TypeOK` for any workers, references, days and times, with the limit of attempts;
- `NothingIsRepeatedBlindly`, `NothingSettledIsCharged`: `NoBlindRetry` and `SettledIsNotCharged`
  under `OneAtATime` (at most one worker), with edits, payments and crashes between any
  two of its steps. The invariant says what the worker has read and still holds
  (`Stands`), and that a dispatch which may have been delivered waits for nobody unless its outcome is
  marked as unknown (`DeliveredIsHeld`).

`ReferenceCycleProofs` proves:

- `CyclesAreTyped` and `DueDatesFollowTheirAnchor`: `TypeOK` and `DueFollowsAnchor` for any plans, values,
  dates and operations that interleave. Every date an operation remembers must follow the anchor too
  (`Fits`, `RenewalFits`): a reversal writes the due date of before the renewal;
- `AdvancesAreCharged`: `AdvanceIsCharged` with one operation at a time, or with any number of
  them if `updateReference` is not among the requests;
- `PaidCyclesAreNotEntered`: `PaidCycleIsNotEntered` with one operation at a time.

`RecoveryProofs` proves:

- `RecoveryIsTyped`: `TypeOK` for any campaigns, steps, requests, settings and crashes, whatever overlaps;
- `RecoveryKeepsItsPromise`: `~Overlap => (Spec => PromiseSpec)`, the refinement of `RecoveryPromise`.
  `IInv` is the typing of rows and of what requests remember, and holds with any
  overlap. `XInv` holds without it: a reconciliation is `Alone`; a message that a request has
  acquired is PROCESSING and its own (`Owned`); what was accepted is out of the queue
  (`Queued`, `Unsent`), and so is what a reconciliation may still bring back from its first read
  (`Recalled`). Each step is shown to be one of a few kinds (`ReconcilesTo`, `HoldsTo`, `Begins`,
  a stop, a change elsewhere), and each kind keeps `XInv` and is a step of the promise or leaves it
  as it is: `PassCheck` starts a message, the answer of the provider or the end of the process
  finishes it.

The hypotheses `OneAtATime` and `~Overlap` are not justified by the code, which lets an operator's
request run next to the scheduler's. They are there because the statements are false without
them: TLC finds the counterexamples with two workers, or with `Overlap = TRUE`, and the hazards
of `billing.service.ts:1745`, `recovery.service.ts:736` and `clients.service.ts:602` describe them.

Every safety property of the passing runs is a theorem, under the hypotheses named above.
Only model-checked: `PaidPixSettles` and `SettledCampaignsEnd`, which are liveness and out of
reach of the prover, as are ENABLED and recursion over data: `Total`, a sum over the
accounts, stays a name in the proofs, so that `NothingBookedBeyondPayment`, which
compares sums, has no theorem for the requests it holds with. It and `StepSentOnce` are violated.

## Plan

1. `PixSettlement`, `RevenueLedger`, `BusinessDates`, `ReferenceCycle`, `BillingDispatch`: done.
2. `Attendances`, `Conversation`, `AutoReply`, `RecoveryPromise`, `Recovery`: done.
3. Proofs. Done for the safety properties of all passing runs. Left: what holds of active PIX
   once PIX may lapse; recovery and billing with requests that overlap, of which only the types
   are proved.
4. `Referrals`: qualification, reward once, reconciliation.

## Not modelled

- Reports, dashboard, analytics: read-only.
- Web client: only what it lets a user ask for is taken into account (the statuses
  of the reference menu).
- Authentication, users, configuration, health: no state that operations share.
- Messages that are not texts, international phones, connections and their pairing,
  contacts, labels, linking and merging of conversations: messages of other kinds take
  the steps of a text, the rest are plain row operations.
- Media, voice conversion, realtime: files, `ffmpeg` and event fan-out.
- Legacy import: a one-off import by one administrator.
- Phone normalisation and template rendering: pure functions on text, which unit tests
  enumerate.
- Deletion of clients and references, expenses and categories: plain row operations;
  identifiers are read before the transaction that deletes.
