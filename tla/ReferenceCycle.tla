--------------------------- MODULE ReferenceCycle ---------------------------
(***************************************************************************)
(* The billing cycle of one client reference: the contract (plan, value,   *)
(* due date and its anchor day), the accounts to receive of its cycles,    *)
(* and the operations that move it (clients.service.ts,                    *)
(* receivable-cycle.service.ts, renewals.service.ts,                       *)
(* reactivations.service.ts, referrals.service.ts, and what a settlement   *)
(* does to the cycle in finance.service.ts).                               *)
(*                                                                         *)
(* An operation that decides on what it has read of the reference is a     *)
(* session of two steps.  The first reads.  The second is its commit: it   *)
(* writes the columns the operation sets to the rows as they are by then.  *)
(* A reversal is serializable: its commit fails if a row it writes has     *)
(* changed.  The window between the read and the write of one account row, *)
(* and PIX attempts, are the subject of PixSettlement: here an account is  *)
(* read and written at once.                                               *)
(***************************************************************************)
EXTENDS BusinessDates, Sequences

CONSTANTS
    Plans,         \* plans, each named by its duration in months
    Values,        \* prices an operator may agree on
    StartDates,    \* due dates an operator may type
    PaymentDates,  \* days an account may be paid, or a reactivation start
    Horizon,       \* last month that is modelled (bound)
    MaxAccounts,   \* accounts of the reference (bound)
    Sessions,      \* operations in progress at the same time
    Requests       \* operations that are requested

Operations == {"renew", "revert", "settle", "cancelReceivable", "updateReference",
               "updateReferenceStatus", "reactivate", "freeMonth",
               "generateReceivable", "updatePlan"}

ASSUME PlansAssumption == Plans \subseteq 1 .. 12
ASSUME ValuesAssumption == Values \subseteq Nat \ {0}
ASSUME BoundsAssumption == Horizon \in Nat /\ MaxAccounts \in Nat \ {0}
ASSUME DatesAssumption ==
    StartDates \subseteq DatesUntil(Horizon) /\ PaymentDates \subseteq DatesUntil(Horizon)
ASSUME RequestsAssumption == Requests \subseteq Operations

VARIABLES
    reference,     \* the ClientReference
    accounts,      \* its receivables, oldest first
    renewals,      \* its renewals, oldest first
    reactivations, \* its reactivations, each with the account it waits for
    activePlans,   \* the plans that are active
    session        \* the operations in progress

vars == <<reference, accounts, renewals, reactivations, activePlans, session>>

ClientStatus == {"PENDENTE_PAGAMENTO", "ATIVO", "INATIVO", "CANCELADO"}
ReceivableStatus == {"PENDENTE", "PAGO", "CANCELADO"}
Purposes == {"RENEWAL", "INITIAL_ACTIVATION", "REACTIVATION"}
Dates == DatesUntil(Horizon)

\* The statuses the reference's menu offers (dashboard/page.tsx).
OfferedStatus == {"ATIVO", "INATIVO", "CANCELADO"}

References == [status : ClientStatus, plan : Plans, value : Values,
               due : Dates, anchor : 1 .. 31]

\* renewal is the renewal an account was created for, 0 for none.
Accounts == [purpose : Purposes, due : Dates, value : Values,
             status : ReceivableStatus, renewal : 0 .. MaxAccounts]

Renewals == [previous : References, new : References,
             status : {"ACTIVE", "REVERTED"}]

Reactivations == [account : 1 .. MaxAccounts, plan : Plans, value : Values,
                  status : {"PENDING", "PAID"}]

Idle == [op |-> "idle"]

\* An edit of the contract: the one field it changes, and its new content.
EditsTo(plans) == ({"plan"} \X plans) \cup ({"value"} \X Values) \cup ({"due"} \X StartDates)

\* What an operation in progress has read and been asked for.
SessionState ==
    {Idle}
    \cup [op : {"renew"}, seen : References, plan : Plans, value : Values]
    \cup [op : {"revert"}, seen : References, renewal : 1 .. MaxAccounts,
          account : 1 .. MaxAccounts, status : ReceivableStatus]
    \cup [op : {"settle"}, seen : References, account : 1 .. MaxAccounts, paidOn : PaymentDates]
    \cup [op : {"updateReference"}, seen : References, edit : EditsTo(Plans)]
    \cup [op : {"updateReferenceStatus"}, seen : References, to : OfferedStatus]
    \cup [op : {"freeMonth"}, seen : References]

TypeOK ==
    /\ reference \in References
    /\ accounts \in Seq(Accounts) /\ Len(accounts) <= MaxAccounts
    /\ renewals \in Seq(Renewals)
    /\ reactivations \in Seq(Reactivations)
    /\ activePlans \subseteq Plans
    /\ session \in [Sessions -> SessionState]

(***************************************************************************)
(* The accounts of a cycle, in a table of accounts rows.                   *)
(***************************************************************************)
NewAccount(purpose, due, value, renewal) ==
    [purpose |-> purpose, due |-> due, value |-> value,
     status |-> "PENDENTE", renewal |-> renewal]

\* The index receivables_cycle_unique admits another row.
CycleIndexAllows(rows, purpose, due) ==
    \A k \in DOMAIN rows : ~(rows[k].purpose = purpose /\ rows[k].due = due)

SameCycle(rows, due) ==
    {k \in DOMAIN rows : rows[k].purpose = "RENEWAL" /\ rows[k].due = due}

PendingRenewals(rows) ==
    {k \in DOMAIN rows : rows[k].purpose = "RENEWAL" /\ rows[k].status = "PENDENTE"}

\* classifyReference, of a reference that is billable.
CycleStatus(rows, r) ==
    LET cycle == SameCycle(rows, r.due)
        pending == cycle \cap PendingRenewals(rows)
    IN CASE \E k \in pending : rows[k].value = r.value -> "OK"
         [] \E k \in pending : rows[k].value # r.value -> "RECEIVABLE_DIVERGENT"
         [] \E k \in cycle : rows[k].status = "PAGO" -> "RECEIVABLE_PAID"
         [] \E k \in cycle : rows[k].status = "CANCELADO" -> "RECEIVABLE_CANCELED"
         [] cycle = {} /\ PendingRenewals(rows) # {} -> "RECEIVABLE_DIVERGENT"
         [] cycle = {} /\ PendingRenewals(rows) = {} -> "MISSING_RECEIVABLE"

\* ensureCurrentCycleReceivable keeps the account of the cycle or creates it,
\* and otherwise throws: the transaction it runs in rolls back.
CanEnsure(rows, r) ==
    /\ r.status = "ATIVO"
    /\ \/ CycleStatus(rows, r) = "OK"
       \/ CycleStatus(rows, r) = "MISSING_RECEIVABLE" /\ r.plan \in activePlans

\* Mutant: the account of the new cycle is not created.
EnsuredNothing(rows, r) == rows

Ensured(rows, r) ==
    IF CycleStatus(rows, r) = "OK" THEN rows
    ELSE Append(rows, NewAccount("RENEWAL", r.due, r.value, 0))

(***************************************************************************)
(* Sessions.                                                               *)
(***************************************************************************)
Start(s, request) ==
    /\ session[s].op = "idle" /\ request.op \in Requests
    /\ session' = [session EXCEPT ![s] = request]

Finish(s) == session' = [session EXCEPT ![s] = Idle]

RowsUnchanged ==
    UNCHANGED <<reference, accounts, renewals, reactivations, activePlans>>

\* An account row is locked from the update that marks it as paid.
Free(k) == \A s \in Sessions : session[s].op = "settle" => session[s].account # k

\* The transaction rolls back: a check failed, an index refused a row, the
\* database or the process gave up.
Abandon(s) == session[s].op # "idle" /\ Finish(s) /\ RowsUnchanged

(***************************************************************************)
(* Renewals and their reversal.                                            *)
(***************************************************************************)
Renewed(r, plan, value) ==
    [status |-> "ATIVO", plan |-> plan, value |-> value, anchor |-> r.anchor,
     due |-> AddCalendarMonthsPreservingAnchor(r.due, plan, r.anchor)]

ReadRenewal(s) ==
    /\ reference.status # "CANCELADO"
    /\ \E plan \in activePlans, value \in Values :
        Start(s, [op |-> "renew", seen |-> reference, plan |-> plan, value |-> value])
    /\ RowsUnchanged

CommitRenewal(s) ==
    /\ session[s].op = "renew"
    /\ reference' = Renewed(session[s].seen, session[s].plan, session[s].value)
    /\ CycleIndexAllows(accounts, "RENEWAL", reference'.due)
    /\ renewals' = Append(renewals, [previous |-> session[s].seen,
                                     new |-> reference', status |-> "ACTIVE"])
    /\ accounts' = Append(accounts, NewAccount("RENEWAL", reference'.due,
                                               reference'.value, Len(renewals')))
    /\ Finish(s)
    /\ UNCHANGED <<reactivations, activePlans>>

\* Mutant: a cycle that was paid is restored.
PreviousCycleAllowsPaid(due, today) ==
    SameCycle(accounts, due) = {} => ~Before(due, today)

\* The blockers of buildRevertPreview about the cycle that is restored: it
\* has not been paid, and it is not overdue without an account.
PreviousCycleAllows(due, today) ==
    /\ \A k \in SameCycle(accounts, due) : accounts[k].status # "PAGO"
    /\ SameCycle(accounts, due) = {} => ~Before(due, today)

\* Only the last renewal, while the reference is as the renewal left it.
Reversible(n, k, today) ==
    /\ n = Len(renewals) /\ renewals[n].status = "ACTIVE"
    /\ reference = renewals[n].new
    /\ accounts[k].renewal = n /\ accounts[k].status # "PAGO"
    /\ PreviousCycleAllows(renewals[n].previous.due, today)

ReadReversal(s) ==
    /\ \E n \in DOMAIN renewals, k \in DOMAIN accounts, today \in PaymentDates :
        /\ Reversible(n, k, today)
        /\ Start(s, [op |-> "revert", seen |-> reference, renewal |-> n,
                     account |-> k, status |-> accounts[k].status])
    /\ RowsUnchanged

CommitReversal(s) ==
    LET n == session[s].renewal
        k == session[s].account
    IN /\ session[s].op = "revert"
       /\ reference = session[s].seen /\ renewals[n].status = "ACTIVE"
       /\ accounts[k].status = session[s].status /\ Free(k)
       /\ reference' = renewals[n].previous
       /\ renewals' = [renewals EXCEPT ![n].status = "REVERTED"]
       /\ accounts' = [accounts EXCEPT ![k].status = "CANCELADO"]
       /\ Finish(s)
       /\ UNCHANGED <<reactivations, activePlans>>

(***************************************************************************)
(* Settlements.  processPaidReceivableCycle reads the reference after the  *)
(* account is marked as paid, and moves its cycle in the same transaction. *)
(***************************************************************************)
Pending(k) ==
    {x \in DOMAIN reactivations : reactivations[x].account = k
                                  /\ reactivations[x].status = "PENDING"}

Advances(k, seen) ==
    LET a == accounts[k]
    IN \/ a.purpose = "INITIAL_ACTIVATION" /\ seen.status = "PENDENTE_PAGAMENTO"
       \/ a.purpose = "REACTIVATION" /\ Pending(k) # {}
       \/ a.purpose = "RENEWAL" /\ seen.status = "ATIVO" /\ seen.due = a.due

\* activateClientAfterInitialPayment
Activated(a, seen, r) ==
    [r EXCEPT !.status = "ATIVO", !.anchor = seen.anchor,
              !.due = AddCalendarMonthsPreservingAnchor(a.due, seen.plan, seen.anchor)]

\* activateClientReferenceAfterReactivationPayment
Reactivated(a, x) ==
    [status |-> "ATIVO", plan |-> x.plan, value |-> x.value, anchor |-> a.due.day,
     due |-> AddCalendarMonthsPreservingAnchor(a.due, x.plan, a.due.day)]

\* advanceClientReferenceAfterRenewalPayment: a late payment moves the anchor.
Advanced(seen, r, paidOn) ==
    LET late == Before(seen.due, paidOn)
        anchor == IF late THEN paidOn.day ELSE seen.anchor
    IN [r EXCEPT !.anchor = anchor,
                 !.due = AddCalendarMonthsPreservingAnchor(
                             IF late THEN paidOn ELSE seen.due, seen.plan, anchor)]

\* The reference r after the payment of account k, which read seen.
Moved(k, seen, r, paidOn) ==
    LET a == accounts[k]
    IN CASE ~Advances(k, seen) -> r
         [] Advances(k, seen) /\ a.purpose = "INITIAL_ACTIVATION" -> Activated(a, seen, r)
         [] Advances(k, seen) /\ a.purpose = "RENEWAL" -> Advanced(seen, r, paidOn)
         [] Advances(k, seen) /\ a.purpose = "REACTIVATION" ->
                Reactivated(a, reactivations[CHOOSE x \in Pending(k) : TRUE])

PaidAccounts(k) == [accounts EXCEPT ![k].status = "PAGO"]

MarkPaid(s) ==
    /\ \E k \in DOMAIN accounts, paidOn \in PaymentDates :
        /\ accounts[k].status = "PENDENTE" /\ Free(k)
        /\ Start(s, [op |-> "settle", seen |-> reference, account |-> k,
                     paidOn |-> paidOn])
    /\ RowsUnchanged

CommitSettlement(s) ==
    LET k == session[s].account
        seen == session[s].seen
        advances == Advances(k, seen)
    IN /\ session[s].op = "settle"
       /\ reference' = Moved(k, seen, reference, session[s].paidOn)
       /\ advances => CanEnsure(PaidAccounts(k), reference')
       /\ accounts' = IF advances THEN Ensured(PaidAccounts(k), reference')
                      ELSE PaidAccounts(k)
       /\ reactivations' = [x \in DOMAIN reactivations |->
              IF x \in Pending(k) THEN [reactivations[x] EXCEPT !.status = "PAID"]
              ELSE reactivations[x]]
       /\ Finish(s)
       /\ UNCHANGED <<renewals, activePlans>>

CancelReceivable(k) ==
    /\ "cancelReceivable" \in Requests
    /\ accounts[k].status = "PENDENTE" /\ Free(k)
    /\ accounts' = [accounts EXCEPT ![k].status = "CANCELADO"]
    /\ UNCHANGED <<reference, renewals, reactivations, activePlans, session>>

(***************************************************************************)
(* Edits of the contract and of its status.  The handlers read the         *)
(* reference before their transaction begins.                              *)
(***************************************************************************)
Edited(r, edit) ==
    LET field == edit[1]
        to == edit[2]
    IN CASE field = "plan" -> [r EXCEPT !.plan = to]
         [] field = "value" -> [r EXCEPT !.value = to]
         [] field = "due" -> [r EXCEPT !.due = to, !.anchor = to.day]

ReadUpdate(s) ==
    /\ \E edit \in EditsTo(activePlans) :
        Start(s, [op |-> "updateReference", seen |-> reference, edit |-> edit])
    /\ RowsUnchanged

\* updatePendingCurrentCycleReceivable moves the account of the cycle that
\* was read; the reference has an account for its new cycle if it had none.
CommitUpdate(s) ==
    LET seen == session[s].seen
        cycle == SameCycle(accounts, seen.due)
        now == Edited(reference, session[s].edit)
    IN /\ session[s].op = "updateReference"
       /\ reference' = now
       /\ \/ seen.status # "ATIVO" /\ UNCHANGED accounts
          \/ /\ seen.status = "ATIVO" /\ cycle = {}
             /\ CanEnsure(accounts, now)
             /\ accounts' = Ensured(accounts, now)
          \/ \E k \in cycle :
                /\ seen.status = "ATIVO"
                /\ accounts[k].status = "PENDENTE" /\ Free(k)
                /\ SameCycle(accounts, now.due) \subseteq {k}
                /\ accounts' = [accounts EXCEPT ![k].due = now.due,
                                                ![k].value = now.value]
       /\ Finish(s)
       /\ UNCHANGED <<renewals, reactivations, activePlans>>

ReadStatus(s) ==
    /\ \E to \in OfferedStatus :
        /\ reference.status # to
        /\ ~(reference.status = "CANCELADO" /\ to = "ATIVO")
        /\ Start(s, [op |-> "updateReferenceStatus", seen |-> reference, to |-> to])
    /\ RowsUnchanged

CommitStatus(s) ==
    LET returns == session[s].seen.status = "INATIVO" /\ session[s].to = "ATIVO"
    IN /\ session[s].op = "updateReferenceStatus"
       /\ reference' = [reference EXCEPT !.status = session[s].to]
       /\ returns => CanEnsure(accounts, reference')
       /\ accounts' = IF returns THEN Ensured(accounts, reference') ELSE accounts
       /\ Finish(s)
       /\ UNCHANGED <<renewals, reactivations, activePlans>>

(***************************************************************************)
(* Reactivation of a canceled reference: serializable and under the row    *)
(* locks of the reference and its client, so one step.                     *)
(***************************************************************************)
CreateReactivation(plan, value, on) ==
    /\ "reactivate" \in Requests
    /\ reference.status = "CANCELADO" /\ plan \in activePlans
    /\ \A x \in DOMAIN reactivations : reactivations[x].status # "PENDING"
    /\ CycleIndexAllows(accounts, "REACTIVATION", on)
    /\ accounts' = Append(accounts, NewAccount("REACTIVATION", on, value, 0))
    /\ reactivations' = Append(reactivations, [account |-> Len(accounts'), plan |-> plan,
                                               value |-> value, status |-> "PENDING"])
    /\ UNCHANGED <<reference, renewals, activePlans, session>>

(***************************************************************************)
(* A FREE_MONTH reward of a referral (referrals.service.ts applyReward).   *)
(***************************************************************************)
ReadReward(s) ==
    /\ reference.status # "CANCELADO"
    /\ Start(s, [op |-> "freeMonth", seen |-> reference])
    /\ RowsUnchanged

CommitReward(s) ==
    LET seen == session[s].seen
        free == SameCycle(accounts, seen.due) \cap PendingRenewals(accounts)
        rows == [k \in DOMAIN accounts |->
                    IF k \in free THEN [accounts[k] EXCEPT !.status = "CANCELADO"]
                    ELSE accounts[k]]
    IN /\ session[s].op = "freeMonth"
       /\ \A k \in free : Free(k)
       /\ reference' = [reference EXCEPT
              !.due = AddCalendarMonthsPreservingAnchor(seen.due, 1, seen.anchor),
              !.anchor = seen.anchor]
       /\ CanEnsure(rows, reference')
       /\ accounts' = Ensured(rows, reference')
       /\ Finish(s)
       /\ UNCHANGED <<renewals, reactivations, activePlans>>

(***************************************************************************)
(* generateCurrentCycleReceivable: the operator creates what is missing.   *)
(***************************************************************************)
GenerateReceivable ==
    /\ "generateReceivable" \in Requests
    /\ CanEnsure(accounts, reference)
    /\ accounts' = Ensured(accounts, reference)
    /\ UNCHANGED <<reference, renewals, reactivations, activePlans, session>>

UpdatePlan(plan) ==
    /\ "updatePlan" \in Requests
    /\ activePlans' = IF plan \in activePlans THEN activePlans \ {plan}
                      ELSE activePlans \cup {plan}
    /\ UNCHANGED <<reference, accounts, renewals, reactivations, session>>

(***************************************************************************)
(* A reference starts active with an account for its first cycle, or       *)
(* waiting for its initial payment (createReference, create).              *)
(***************************************************************************)
Init ==
    /\ \E plan \in Plans, value \in Values, due \in StartDates :
        \E status \in {"ATIVO", "PENDENTE_PAGAMENTO"} :
            /\ reference = [status |-> status, plan |-> plan, value |-> value,
                            due |-> due, anchor |-> due.day]
            /\ accounts = <<NewAccount(IF status = "ATIVO" THEN "RENEWAL"
                                       ELSE "INITIAL_ACTIVATION", due, value, 0)>>
    /\ renewals = <<>> /\ reactivations = <<>>
    /\ activePlans = Plans
    /\ session = [s \in Sessions |-> Idle]

Read(s) ==
    \/ ReadRenewal(s) \/ ReadReversal(s) \/ MarkPaid(s)
    \/ ReadUpdate(s) \/ ReadStatus(s) \/ ReadReward(s)

Commit(s) ==
    \/ CommitRenewal(s) \/ CommitReversal(s) \/ CommitSettlement(s)
    \/ CommitUpdate(s) \/ CommitStatus(s) \/ CommitReward(s)

Operator ==
    \/ \E k \in DOMAIN accounts : CancelReceivable(k)
    \/ \E plan \in Plans, value \in Values, on \in PaymentDates :
           CreateReactivation(plan, value, on)
    \/ GenerateReceivable
    \/ \E plan \in Plans : UpdatePlan(plan)

WithinBounds == Len(accounts') <= MaxAccounts /\ reference'.due.month <= Horizon

Next ==
    /\ \/ \E s \in Sessions : Read(s) \/ Commit(s) \/ Abandon(s)
       \/ Operator
    /\ WithinBounds

Spec == Init /\ [][Next]_vars

(***************************************************************************)
(* Properties.                                                             *)
(***************************************************************************)

\* A due date is the anchor day of its month, or the last day of a month too
\* short for it: paying through February never moves the 31st to the 28th.
DueFollowsAnchor ==
    reference.due.day = IF reference.anchor <= LastDay(reference.due.month)
                        THEN reference.anchor ELSE LastDay(reference.due.month)

\* An active reference is on a cycle that has been paid: nothing charges it for
\* this cycle or moves it to the next one.
OnPaidCycle ==
    /\ reference.status = "ATIVO"
    /\ \E k \in SameCycle(accounts, reference.due) : accounts[k].status = "PAGO"

\* A reference that waits for its initial payment is activated by hand: the
\* only change of status that does not look at the account of the cycle.
ActivatedByHand ==
    /\ \E s \in Sessions :
        /\ session[s].op = "updateReferenceStatus"
        /\ session[s].seen.status = "PENDENTE_PAGAMENTO" /\ session[s].to = "ATIVO"
    /\ reference'.due = reference.due /\ accounts' = accounts

\* No payment, renewal, reversal, edit or return brings a reference on to a
\* cycle that has been paid, however many operations came before.
PaidCycleIsNotEntered == [][OnPaidCycle' => OnPaidCycle \/ ActivatedByHand]_vars

\* A step that moves an active reference to a later due date leaves it with
\* the account of that cycle, whatever was read before.
AdvanceIsCharged ==
    [][(reference'.status = "ATIVO" /\ Before(reference.due, reference'.due))
        => SameCycle(accounts', reference'.due) # {}]_vars
=============================================================================
