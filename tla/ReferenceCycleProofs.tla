------------------------ MODULE ReferenceCycleProofs ------------------------
(***************************************************************************)
(* Proofs about the cycle of one reference, for any plans, values, dates,  *)
(* accounts and operations in progress.  Dates keep to the anchor day      *)
(* however many operations interleave.  That a reference which moves on    *)
(* has its account, and that a paid cycle is not entered again, rests on   *)
(* what an operation has read still being true when it commits: they are   *)
(* proved for operations one at a time, and the first of them also for any *)
(* number of operations without edits of the contract.                     *)
(***************************************************************************)
EXTENDS ReferenceCycle, SequenceTheorems, TLAPS

(***************************************************************************)
(* The inductive invariant.                                                *)
(***************************************************************************)
\* The due date is the anchor day of its month, or its last day.
Follows(r) ==
    r.due.day = IF r.anchor <= LastDay(r.due.month) THEN r.anchor ELSE LastDay(r.due.month)

\* The index receivables_cycle_unique.
Unique(rows) ==
    \A j, k \in DOMAIN rows : rows[j].purpose = rows[k].purpose /\ rows[j].due = rows[k].due => j = k

\* A renewal moves the due date to a later month and keeps to the anchor.
RenewalFits(x) ==
    Follows(x.previous) /\ Follows(x.new) /\ x.previous.due.month < x.new.due.month

\* What an operation has read and relies on, whatever came in between.
Fits(x) ==
    /\ x.op \in Requests \cup {"idle"}
    /\ x.op # "idle" => Follows(x.seen)
    /\ x.op = "settle" => x.account \in DOMAIN accounts
    /\ x.op = "revert" => /\ x.account \in DOMAIN accounts /\ x.renewal \in DOMAIN renewals
                          /\ renewals[x.renewal].new = x.seen

IInv ==
    /\ TypeOK
    /\ Len(renewals) <= Len(accounts) /\ Unique(accounts)
    /\ Follows(reference)
    /\ \A n \in DOMAIN renewals : RenewalFits(renewals[n])
    /\ \A s \in Sessions : Fits(session[s])

OneAtATime == \A r, s \in Sessions : r = s

NoPaid(rows, due) == \A k \in SameCycle(rows, due) : rows[k].status # "PAGO"

\* What an operation has read is still so when no other is in progress.
Stands(x) ==
    /\ x.op # "idle" => x.seen = reference
    /\ x.op = "revert" => NoPaid(accounts, renewals[x.renewal].previous.due)
    /\ x.op = "updateReferenceStatus" =>
           x.seen.status # x.to /\ ~(x.seen.status = "CANCELADO" /\ x.to = "ATIVO")

OInv == \A s \in Sessions : Stands(session[s])

(***************************************************************************)
(* Dates.                                                                  *)
(***************************************************************************)
LEMMA LastDayIsADay == \A month \in Nat : LastDay(month) \in 28 .. 31
<1> QED BY DEF LastDay

\* A contract before the horizon of the model is taken into account.
Contracts == [status : ClientStatus, plan : Plans, value : Values,
              due : [month : Nat, day : Nat], anchor : 1 .. 31]

LEMMA ContractIsReference ==
    ASSUME NEW r \in Contracts, Follows(r), r.due.month <= Horizon
    PROVE  r \in References
<1>1. LastDay(r.due.month) \in 28 .. 31
    BY LastDayIsADay DEF Contracts
<1>2. r.due.day \in 1 .. 31 /\ r.due.day <= LastDay(r.due.month)
    BY <1>1 DEF Contracts, Follows
<1>3. r.due.month \in 0 .. Horizon
    BY BoundsAssumption DEF Contracts
<1>4. r.due \in [month : 0 .. Horizon, day : 1 .. 31]
    BY <1>2, <1>3 DEF Contracts
<1>5. r.due \in Dates
    BY <1>2, <1>4 DEF Dates, DatesUntil
<1> QED BY <1>5 DEF Contracts, References

LEMMA DateIs ==
    ASSUME NEW date \in Dates
    PROVE  /\ date.month \in 0 .. Horizon /\ date.day \in 1 .. 31
           /\ date \in [month : Nat, day : Nat] /\ date.day <= LastDay(date.month)
<1> QED BY BoundsAssumption DEF Dates, DatesUntil

LEMMA ReferenceIs ==
    ASSUME NEW r \in References
    PROVE  /\ r \in Contracts /\ r.plan \in 1 .. 12 /\ r.due.month \in 0 .. Horizon
           /\ r.anchor \in 1 .. 31
<1> QED BY DateIs, PlansAssumption DEF References, Contracts

\* The date some months later, on the anchor day.
LEMMA LaterDateIs ==
    ASSUME NEW date \in Dates, NEW months \in Nat, NEW anchor \in 1 .. 31,
           NEW later, later = AddCalendarMonthsPreservingAnchor(date, months, anchor)
    PROVE  /\ later \in [month : Nat, day : Nat]
           /\ later.month = date.month + months
           /\ later.day = IF anchor <= LastDay(later.month) THEN anchor ELSE LastDay(later.month)
<1>1. date.month \in Nat
    BY DateIs, BoundsAssumption
<1>2. later = [month |-> date.month + months,
               day |-> IF anchor <= LastDay(date.month + months) THEN anchor
                       ELSE LastDay(date.month + months)]
    BY DEF AddCalendarMonthsPreservingAnchor
<1>3. LastDay(date.month + months) \in 28 .. 31
    BY <1>1, LastDayIsADay
<1> QED BY <1>1, <1>2, <1>3

LEMMA PlanIs == \A plan \in Plans : plan \in Nat /\ plan \in 1 .. 12
<1> QED BY PlansAssumption

\* The due date of a contract that was set to such a date follows its anchor.
LEMMA LaterFollows ==
    ASSUME NEW date \in Dates, NEW months \in Nat, NEW r \in Contracts,
           r.due = AddCalendarMonthsPreservingAnchor(date, months, r.anchor)
    PROVE  Follows(r) /\ r.due.month = date.month + months
<1>1. PICK anchor \in 1 .. 31 : anchor = r.anchor
    BY DEF Contracts
<1>2. PICK later : later = AddCalendarMonthsPreservingAnchor(date, months, anchor)
    OBVIOUS
<1>3. /\ later.month = date.month + months
      /\ later.day = IF anchor <= LastDay(later.month) THEN anchor ELSE LastDay(later.month)
    BY <1>2, LaterDateIs
<1> QED BY <1>1, <1>2, <1>3 DEF Follows

LEMMA RenewedIs ==
    ASSUME NEW r \in References, NEW plan \in Plans, NEW value \in Values
    PROVE  /\ Renewed(r, plan, value) \in Contracts /\ Follows(Renewed(r, plan, value))
           /\ r.due.month < Renewed(r, plan, value).due.month
<1> DEFINE x == Renewed(r, plan, value)
<1>1. r.due \in Dates /\ r.anchor \in 1 .. 31 /\ plan \in 1 .. 12 /\ plan \in Nat
    BY PlanIs DEF References
<1>2. AddCalendarMonthsPreservingAnchor(r.due, plan, r.anchor) \in [month : Nat, day : Nat]
    BY <1>1, LaterDateIs
<1>3. x \in Contracts
    BY <1>1, <1>2 DEF Renewed, Contracts, ClientStatus
<1>4. x.due = AddCalendarMonthsPreservingAnchor(r.due, plan, x.anchor)
    BY DEF Renewed
<1>5. Follows(x) /\ x.due.month = r.due.month + plan
    BY <1>1, <1>3, <1>4, LaterFollows
<1> QED BY <1>1, <1>3, <1>5, DateIs

LEMMA EditedIs ==
    ASSUME NEW r \in References, Follows(r), NEW edit \in EditsTo(Plans)
    PROVE  Edited(r, edit) \in Contracts /\ Follows(Edited(r, edit))
<1>1. r \in Contracts
    BY ReferenceIs
<1>2. CASE edit \in {"plan"} \X Plans
  <2>1. Edited(r, edit) = [r EXCEPT !.plan = edit[2]]
      BY <1>2 DEF Edited
  <2> QED BY <1>1, <1>2, <2>1 DEF Contracts, Follows
<1>3. CASE edit \in {"value"} \X Values
  <2>1. Edited(r, edit) = [r EXCEPT !.value = edit[2]]
      BY <1>3 DEF Edited
  <2> QED BY <1>1, <1>3, <2>1 DEF Contracts, Follows
<1>4. CASE edit \in {"due"} \X StartDates
  <2>1. PICK to \in StartDates : to = edit[2]
      BY <1>4
  <2>2. to \in Dates
      BY DatesAssumption DEF Dates
  <2>3. Edited(r, edit) = [r EXCEPT !.due = to, !.anchor = to.day]
      BY <1>4, <2>1 DEF Edited
  <2>4. to \in [month : Nat, day : Nat] /\ to.day \in 1 .. 31 /\ to.day <= LastDay(to.month)
      BY <2>2, DateIs
  <2>5. Edited(r, edit).due = to /\ Edited(r, edit).anchor = to.day
      BY <1>1, <2>3 DEF Contracts
  <2>6. Edited(r, edit) \in Contracts
      BY <1>1, <2>3, <2>4 DEF Contracts
  <2> QED BY <2>4, <2>5, <2>6 DEF Follows
<1> QED BY <1>2, <1>3, <1>4 DEF EditsTo

\* A payment moves the reference to a date that follows its anchor, or leaves it
\* as it is.
LEMMA MovedIs ==
    ASSUME TypeOK, Follows(reference), NEW k \in DOMAIN accounts, NEW seen \in References,
           NEW paidOn \in PaymentDates,
           NEW r, r = Moved(k, seen, reference, paidOn)
    PROVE  /\ r \in Contracts /\ Follows(r)
           /\ ~Advances(k, seen) => r = reference
<1>1. /\ reference \in Contracts /\ accounts[k] \in Accounts /\ accounts[k].due \in Dates
      /\ accounts[k].due.day \in 1 .. 31
      /\ seen.due \in Dates /\ seen.plan \in Plans /\ seen.plan \in Nat /\ seen.anchor \in 1 .. 31
      /\ paidOn \in Dates /\ paidOn.day \in 1 .. 31
  <2>1. reference \in References /\ accounts[k] \in Accounts
      BY DEF TypeOK
  <2>2. accounts[k].due \in Dates /\ paidOn \in Dates
      BY <2>1, DatesAssumption DEF Accounts, Dates
  <2>3. seen.due \in Dates /\ seen.plan \in Plans /\ seen.plan \in Nat /\ seen.anchor \in 1 .. 31
      BY PlanIs DEF References
  <2> QED BY <2>1, <2>2, <2>3, ReferenceIs, DateIs
<1>2. CASE ~Advances(k, seen)
  <2>1. r = reference
      BY <1>2 DEF Moved
  <2> QED BY <1>1, <2>1
<1>3. CASE Advances(k, seen) /\ accounts[k].purpose = "INITIAL_ACTIVATION"
  <2> DEFINE to == AddCalendarMonthsPreservingAnchor(accounts[k].due, seen.plan, seen.anchor)
  <2>1. to \in [month : Nat, day : Nat]
      BY <1>1, LaterDateIs
  <2>2. r = Activated(accounts[k], seen, reference)
      BY <1>3 DEF Moved
  <2>3. r = [reference EXCEPT !.status = "ATIVO", !.anchor = seen.anchor, !.due = to]
      BY <2>2 DEF Activated
  <2> HIDE DEF to
  <2>4. r \in Contracts /\ r.due = to /\ r.anchor = seen.anchor
      BY <1>1, <2>1, <2>3 DEF Contracts, ClientStatus
  <2> QED BY <1>1, <1>3, <2>4, LaterFollows DEF to
<1>4. CASE Advances(k, seen) /\ accounts[k].purpose = "RENEWAL"
  <2>1. PICK from \in Dates, anchor \in 1 .. 31 :
            r = [reference EXCEPT !.anchor = anchor,
                     !.due = AddCalendarMonthsPreservingAnchor(from, seen.plan, anchor)]
    <3>1. r = Advanced(seen, reference, paidOn)
        BY <1>4 DEF Moved
    <3> QED BY <1>1, <3>1 DEF Advanced
  <2> DEFINE to == AddCalendarMonthsPreservingAnchor(from, seen.plan, anchor)
  <2>2. to \in [month : Nat, day : Nat]
      BY <1>1, LaterDateIs
  <2> HIDE DEF to
  <2>3. r \in Contracts /\ r.due = to /\ r.anchor = anchor
      BY <1>1, <2>1, <2>2 DEF Contracts, to
  <2> QED BY <1>1, <1>4, <2>3, LaterFollows DEF to
<1>5. CASE Advances(k, seen) /\ accounts[k].purpose = "REACTIVATION"
  <2>1. PICK x \in DOMAIN reactivations : r = Reactivated(accounts[k], reactivations[x])
    <3>1. Pending(k) # {} /\ Pending(k) \subseteq DOMAIN reactivations
        BY <1>5 DEF Advances, Pending
    <3>2. r = Reactivated(accounts[k], reactivations[CHOOSE x \in Pending(k) : TRUE])
        BY <1>5 DEF Moved
    <3> QED BY <3>1, <3>2
  <2>2. PICK y \in Reactivations : y = reactivations[x]
      BY DEF TypeOK
  <2>3. y.plan \in Plans /\ y.plan \in Nat /\ y.value \in Values
      BY PlanIs DEF Reactivations
  <2> DEFINE to == AddCalendarMonthsPreservingAnchor(accounts[k].due, y.plan, accounts[k].due.day)
  <2>4. to \in [month : Nat, day : Nat]
      BY <1>1, <2>3, LaterDateIs
  <2>5. r = [status |-> "ATIVO", plan |-> y.plan, value |-> y.value,
             anchor |-> accounts[k].due.day, due |-> to]
      BY <2>1, <2>2 DEF Reactivated
  <2> HIDE DEF to
  <2>6. r \in Contracts /\ r.due = to /\ r.anchor = accounts[k].due.day
      BY <1>1, <2>3, <2>4, <2>5 DEF Contracts, ClientStatus
  <2> QED BY <1>1, <1>5, <2>3, <2>6, LaterFollows DEF to
<1> QED BY <1>1, <1>2, <1>3, <1>4, <1>5 DEF Accounts, Purposes

(***************************************************************************)
(* Accounts.                                                               *)
(***************************************************************************)
LEMMA NewAccountIs ==
    ASSUME NEW purpose \in Purposes, NEW due \in Dates, NEW value \in Values,
           NEW renewal \in 0 .. MaxAccounts,
           NEW a, a = NewAccount(purpose, due, value, renewal)
    PROVE  /\ a \in Accounts /\ a.purpose = purpose /\ a.due = due /\ a.status = "PENDENTE"
<1> QED BY DEF NewAccount, Accounts, ReceivableStatus

LEMMA AppendIs ==
    ASSUME NEW S, NEW rows \in Seq(S), NEW a \in S
    PROVE  /\ Append(rows, a) \in Seq(S) /\ Len(Append(rows, a)) = Len(rows) + 1
           /\ DOMAIN rows = 1 .. Len(rows) /\ Len(rows) \in Nat
           /\ DOMAIN Append(rows, a) = 1 .. Len(rows) + 1
           /\ \A k \in DOMAIN rows : Append(rows, a)[k] = rows[k]
           /\ Append(rows, a)[Len(rows) + 1] = a
<1> QED OBVIOUS

LEMMA AppendIsUnique ==
    ASSUME NEW rows \in Seq(Accounts), NEW a \in Accounts, Unique(rows),
           CycleIndexAllows(rows, a.purpose, a.due)
    PROVE  Unique(Append(rows, a))
<1> SUFFICES ASSUME NEW j \in DOMAIN Append(rows, a), NEW k \in DOMAIN Append(rows, a),
                    Append(rows, a)[j].purpose = Append(rows, a)[k].purpose,
                    Append(rows, a)[j].due = Append(rows, a)[k].due
             PROVE  j = k
    BY DEF Unique
<1>1. DOMAIN Append(rows, a) = 1 .. Len(rows) + 1 /\ DOMAIN rows = 1 .. Len(rows) /\ Len(rows) \in Nat
    BY AppendIs
<1>2. \A i \in DOMAIN rows : Append(rows, a)[i] = rows[i]
    BY AppendIs
<1>3. Append(rows, a)[Len(rows) + 1] = a
    BY AppendIs
<1>4. CASE j \in DOMAIN rows /\ k \in DOMAIN rows
    BY <1>2, <1>4 DEF Unique
<1>5. CASE j = Len(rows) + 1 /\ k \in DOMAIN rows
    BY <1>2, <1>3, <1>5 DEF CycleIndexAllows
<1>6. CASE j \in DOMAIN rows /\ k = Len(rows) + 1
    BY <1>2, <1>3, <1>6 DEF CycleIndexAllows
<1> QED BY <1>1, <1>4, <1>5, <1>6

\* A row whose purpose and due date stay is in the same cycle as before.
LEMMA SameRowsSameCycle ==
    ASSUME NEW rows, NEW next, DOMAIN next = DOMAIN rows,
           \A k \in DOMAIN rows : next[k].purpose = rows[k].purpose /\ next[k].due = rows[k].due
    PROVE  /\ \A due : SameCycle(next, due) = SameCycle(rows, due)
           /\ Unique(rows) => Unique(next)
<1> QED BY DEF SameCycle, Unique

LEMMA StatusChanges ==
    ASSUME NEW rows \in Seq(Accounts), NEW k \in DOMAIN rows, NEW status \in ReceivableStatus,
           NEW next, next = [rows EXCEPT ![k].status = status]
    PROVE  /\ next \in Seq(Accounts) /\ Len(next) = Len(rows) /\ DOMAIN next = DOMAIN rows
           /\ \A j \in DOMAIN rows : next[j].purpose = rows[j].purpose /\ next[j].due = rows[j].due
           /\ next[k].status = status
           /\ \A j \in DOMAIN rows : j # k => next[j] = rows[j]
<1>1. rows[k] \in Accounts
    OBVIOUS
<1>2. next = [rows EXCEPT ![k] = [rows[k] EXCEPT !.status = status]]
    OBVIOUS
<1>3. [rows[k] EXCEPT !.status = status] \in Accounts
    BY <1>1 DEF Accounts
<1>4. /\ next \in Seq(Accounts) /\ Len(next) = Len(rows) /\ DOMAIN next = DOMAIN rows
      /\ \A j \in DOMAIN rows : j # k => next[j] = rows[j]
      /\ next[k] = [rows[k] EXCEPT !.status = status]
    BY <1>2, <1>3
<1> QED BY <1>1, <1>4 DEF Accounts

\* What the classification of a cycle tells of its account.
LEMMA CycleStatusIs ==
    ASSUME NEW rows \in Seq(Accounts), NEW r \in References, Unique(rows)
    PROVE  /\ CycleStatus(rows, r) = "OK" =>
                  \E k \in SameCycle(rows, r.due) : rows[k].status = "PENDENTE"
           /\ CycleStatus(rows, r) = "MISSING_RECEIVABLE" => SameCycle(rows, r.due) = {}
<1> DEFINE cycle == SameCycle(rows, r.due)
           pending == cycle \cap PendingRenewals(rows)
<1>1. CASE cycle = {} /\ PendingRenewals(rows) # {}
  <2>1. CycleStatus(rows, r) = "RECEIVABLE_DIVERGENT"
      BY <1>1 DEF CycleStatus
  <2> QED BY <2>1
<1>2. CASE cycle = {} /\ PendingRenewals(rows) = {}
  <2>1. CycleStatus(rows, r) = "MISSING_RECEIVABLE"
      BY <1>2 DEF CycleStatus
  <2> QED BY <1>2, <2>1
<1>3. CASE cycle # {}
  <2>1. PICK k \in cycle : TRUE
      BY <1>3
  <2>2. /\ \A j \in cycle : j = k
        /\ rows[k].purpose = "RENEWAL" /\ k \in DOMAIN rows /\ rows[k] \in Accounts
      BY <2>1 DEF SameCycle, Unique
  <2>3. CASE rows[k].status = "PENDENTE"
    <3>1. pending = {k}
        BY <2>1, <2>2, <2>3 DEF PendingRenewals
    <3>2. CycleStatus(rows, r) \in {"OK", "RECEIVABLE_DIVERGENT"}
        BY <1>3, <2>2, <2>3, <3>1 DEF CycleStatus
    <3> QED BY <2>1, <2>3, <3>2
  <2>4. CASE rows[k].status # "PENDENTE"
    <3>1. pending = {}
        BY <2>2, <2>4 DEF PendingRenewals
    <3>2. rows[k].status \in {"PAGO", "CANCELADO"}
        BY <2>2, <2>4 DEF Accounts, ReceivableStatus
    <3>3. CycleStatus(rows, r) \in {"RECEIVABLE_PAID", "RECEIVABLE_CANCELED"}
        BY <1>3, <2>1, <3>1, <3>2 DEF CycleStatus
    <3> QED BY <3>3
  <2> QED BY <2>3, <2>4
<1> QED BY <1>1, <1>2, <1>3

\* The account of the cycle is kept or created.
LEMMA EnsuredIs ==
    ASSUME NEW rows \in Seq(Accounts), NEW r \in References, CanEnsure(rows, r), Unique(rows),
           NEW next, next = Ensured(rows, r)
    PROVE  /\ next \in Seq(Accounts) /\ Len(rows) <= Len(next) /\ Unique(next)
           /\ SameCycle(next, r.due) # {} /\ NoPaid(next, r.due)
           /\ DOMAIN rows \subseteq DOMAIN next
           /\ \A k \in DOMAIN next :
                  \/ k \in DOMAIN rows /\ next[k] = rows[k]
                  \/ next[k].status = "PENDENTE"
<1> DEFINE cycle == SameCycle(rows, r.due)
<1>1. CASE CycleStatus(rows, r) = "OK"
  <2>1. PICK k \in cycle : rows[k].status = "PENDENTE"
      BY <1>1, CycleStatusIs
  <2>2. \A j \in cycle : j = k
      BY <2>1 DEF SameCycle, Unique
  <2>3. next = rows
      BY <1>1 DEF Ensured
  <2>4. NoPaid(next, r.due) /\ SameCycle(next, r.due) # {}
      BY <2>1, <2>2, <2>3 DEF NoPaid
  <2> QED BY <2>3, <2>4
<1>2. CASE CycleStatus(rows, r) = "MISSING_RECEIVABLE"
  <2>1. cycle = {}
      BY <1>2, CycleStatusIs
  <2>2. PICK a : a = NewAccount("RENEWAL", r.due, r.value, 0)
      OBVIOUS
  <2>3. a \in Accounts /\ a.purpose = "RENEWAL" /\ a.due = r.due /\ a.status = "PENDENTE"
      BY <2>2, NewAccountIs, BoundsAssumption DEF References, Purposes
  <2>4. next = Append(rows, a)
      BY <1>2, <2>2 DEF Ensured
  <2>5. CycleIndexAllows(rows, a.purpose, a.due)
      BY <2>1, <2>3 DEF SameCycle, CycleIndexAllows
  <2>6. Unique(next)
      BY <2>3, <2>4, <2>5, AppendIsUnique
  <2>7. /\ next \in Seq(Accounts) /\ Len(next) = Len(rows) + 1 /\ Len(rows) \in Nat
        /\ DOMAIN rows = 1 .. Len(rows) /\ DOMAIN next = 1 .. Len(rows) + 1
        /\ \A k \in DOMAIN rows : next[k] = rows[k]
        /\ next[Len(rows) + 1] = a
      BY <2>3, <2>4, AppendIs
  <2>8. SameCycle(next, r.due) = {Len(rows) + 1}
      BY <2>1, <2>3, <2>7 DEF SameCycle
  <2>9. \A k \in DOMAIN next : k \in DOMAIN rows \/ k = Len(rows) + 1
      BY <2>7
  <2>10. NoPaid(next, r.due)
      BY <2>3, <2>7, <2>8 DEF NoPaid
  <2> QED BY <2>3, <2>6, <2>7, <2>8, <2>9, <2>10
<1> QED BY <1>1, <1>2 DEF CanEnsure

(***************************************************************************)
(* What every step keeps.                                                  *)
(***************************************************************************)
LEMMA RowsAre ==
    ASSUME TypeOK
    PROVE  /\ DOMAIN accounts = 1 .. Len(accounts) /\ Len(accounts) \in 0 .. MaxAccounts
           /\ DOMAIN renewals = 1 .. Len(renewals) /\ Len(renewals) \in Nat
           /\ \A k \in DOMAIN accounts : accounts[k] \in Accounts
           /\ \A n \in DOMAIN renewals : renewals[n] \in Renewals
<1> QED BY BoundsAssumption DEF TypeOK

\* What an operation in progress has kept.
LEMMA SessionShape ==
    ASSUME session \in [Sessions -> SessionState], NEW s \in Sessions
    PROVE  /\ session[s].op # "idle" => session[s].seen \in References
           /\ session[s].op = "renew" => session[s].plan \in Plans /\ session[s].value \in Values
           /\ session[s].op = "settle" => session[s].paidOn \in PaymentDates
           /\ session[s].op = "updateReference" => session[s].edit \in EditsTo(Plans)
           /\ session[s].op = "updateReferenceStatus" => session[s].to \in OfferedStatus
           /\ session[s].op \in Operations \cup {"idle"}
<1> QED BY DEF SessionState, Idle, Operations

\* An operation still fits when rows are added, and rows that are there keep
\* what renewals were made of.
LEMMA StillFits ==
    ASSUME NEW x, Fits(x), DOMAIN accounts \subseteq DOMAIN accounts',
           DOMAIN renewals \subseteq DOMAIN renewals',
           \A n \in DOMAIN renewals : renewals'[n].new = renewals[n].new
    PROVE  Fits(x)'
<1> QED BY DEF Fits

LEMMA ReadKeeps ==
    ASSUME IInv, NEW s \in Sessions, NEW x \in SessionState, Fits(x),
           session' = [session EXCEPT ![s] = x], RowsUnchanged
    PROVE  IInv'
<1>1. TypeOK'
    BY DEF IInv, TypeOK, RowsUnchanged
<1>2. \A r \in Sessions : Fits(session'[r])
    BY DEF IInv, TypeOK
<1>3. \A r \in Sessions : Fits(session[r])'
    BY <1>2 DEF Fits, RowsUnchanged
<1>4. /\ Len(renewals') <= Len(accounts') /\ Unique(accounts)' /\ Follows(reference)'
      /\ \A n \in DOMAIN renewals' : RenewalFits(renewals[n])'
    BY DEF IInv, RowsUnchanged, Unique, Follows, RenewalFits
<1> QED BY <1>1, <1>3, <1>4 DEF IInv

LEMMA IdleFits == Idle \in SessionState /\ Fits(Idle)
<1> QED BY DEF Idle, SessionState, Fits

LEMMA RowsKeep ==
    ASSUME IInv, reference' \in References, Follows(reference'), WithinBounds,
           accounts' \in Seq(Accounts), Len(accounts) <= Len(accounts'), Unique(accounts'),
           renewals' \in Seq(Renewals), Len(renewals) <= Len(renewals'),
           Len(renewals') <= Len(accounts'),
           \A n \in DOMAIN renewals : renewals'[n].new = renewals[n].new,
           \A n \in DOMAIN renewals' : RenewalFits(renewals'[n]),
           reactivations' \in Seq(Reactivations), activePlans' \subseteq Plans,
           session' = session \/ \E s \in Sessions : Finish(s)
    PROVE  IInv'
<1>1. session' \in [Sessions -> SessionState]
    BY IdleFits DEF IInv, TypeOK, Finish
<1>2. TypeOK'
    BY <1>1 DEF TypeOK, WithinBounds
<1>3. DOMAIN accounts \subseteq DOMAIN accounts' /\ DOMAIN renewals \subseteq DOMAIN renewals'
  <2>1. DOMAIN accounts = 1 .. Len(accounts) /\ DOMAIN renewals = 1 .. Len(renewals)
        /\ Len(accounts) \in Nat /\ Len(renewals) \in Nat
      BY RowsAre DEF IInv
  <2>2. DOMAIN accounts' = 1 .. Len(accounts') /\ DOMAIN renewals' = 1 .. Len(renewals')
        /\ Len(accounts') \in Nat /\ Len(renewals') \in Nat
      OBVIOUS
  <2> QED BY <2>1, <2>2
<1>4. \A r \in Sessions : Fits(session'[r])
    BY IdleFits DEF IInv, TypeOK, Finish
<1>5. ASSUME NEW r \in Sessions PROVE Fits(session[r])'
  <2>1. PICK x : x = session'[r]
      OBVIOUS
  <2>2. Fits(x)'
      BY <1>3, <1>4, <2>1, StillFits
  <2> QED BY <2>1, <2>2 DEF Fits
<1>6. Unique(accounts)' /\ Follows(reference)' /\ \A n \in DOMAIN renewals' : RenewalFits(renewals[n])'
    BY DEF Unique, Follows, RenewalFits
<1> QED BY <1>2, <1>5, <1>6 DEF IInv

\* Renewals that stay fit as they did.
LEMMA RenewalsStay ==
    ASSUME IInv, renewals' = renewals
    PROVE  /\ renewals' \in Seq(Renewals) /\ Len(renewals) <= Len(renewals')
           /\ Len(renewals') <= Len(accounts)
           /\ \A n \in DOMAIN renewals : renewals'[n].new = renewals[n].new
           /\ \A n \in DOMAIN renewals' : RenewalFits(renewals'[n])
<1> QED BY DEF IInv, TypeOK

(***************************************************************************)
(* Each operation keeps the invariant.                                     *)
(***************************************************************************)
LEMMA ReadRenewalKeeps ==
    ASSUME IInv, NEW s \in Sessions, ReadRenewal(s)
    PROVE  IInv'
<1>1. PICK plan \in activePlans, value \in Values :
          Start(s, [op |-> "renew", seen |-> reference, plan |-> plan, value |-> value])
    BY DEF ReadRenewal
<1>2. PICK x : x = [op |-> "renew", seen |-> reference, plan |-> plan, value |-> value]
    OBVIOUS
<1>3. x \in SessionState /\ Fits(x)
    BY <1>1, <1>2 DEF IInv, TypeOK, SessionState, Fits, Start
<1> QED BY <1>1, <1>2, <1>3, ReadKeeps DEF ReadRenewal, Start

LEMMA ReadReversalKeeps ==
    ASSUME IInv, NEW s \in Sessions, ReadReversal(s)
    PROVE  IInv'
<1>1. PICK n \in DOMAIN renewals, k \in DOMAIN accounts, today \in PaymentDates :
          /\ Reversible(n, k, today)
          /\ Start(s, [op |-> "revert", seen |-> reference, renewal |-> n,
                       account |-> k, status |-> accounts[k].status])
    BY DEF ReadReversal
<1>2. PICK x : x = [op |-> "revert", seen |-> reference, renewal |-> n,
                    account |-> k, status |-> accounts[k].status]
    OBVIOUS
<1>3. n \in 1 .. MaxAccounts /\ k \in 1 .. MaxAccounts /\ accounts[k].status \in ReceivableStatus
  <2>1. Len(renewals) <= Len(accounts) /\ accounts[k] \in Accounts
      BY RowsAre DEF IInv
  <2> QED BY <2>1, RowsAre, BoundsAssumption DEF IInv, Accounts
<1>4. x \in SessionState
    BY <1>2, <1>3 DEF IInv, TypeOK, SessionState
<1>5. Fits(x)
    BY <1>1, <1>2 DEF IInv, Fits, Start, Reversible
<1> QED BY <1>1, <1>2, <1>4, <1>5, ReadKeeps DEF ReadReversal, Start

LEMMA MarkPaidKeeps ==
    ASSUME IInv, NEW s \in Sessions, MarkPaid(s)
    PROVE  IInv'
<1>1. PICK k \in DOMAIN accounts, paidOn \in PaymentDates :
          Start(s, [op |-> "settle", seen |-> reference, account |-> k, paidOn |-> paidOn])
    BY DEF MarkPaid
<1>2. PICK x : x = [op |-> "settle", seen |-> reference, account |-> k, paidOn |-> paidOn]
    OBVIOUS
<1>3. k \in 1 .. MaxAccounts
    BY RowsAre, BoundsAssumption DEF IInv
<1>4. x \in SessionState /\ Fits(x)
    BY <1>1, <1>2, <1>3 DEF IInv, TypeOK, SessionState, Fits, Start
<1> QED BY <1>1, <1>2, <1>4, ReadKeeps DEF MarkPaid, Start

LEMMA ReadUpdateKeeps ==
    ASSUME IInv, NEW s \in Sessions, ReadUpdate(s)
    PROVE  IInv'
<1>1. PICK edit \in EditsTo(activePlans) :
          Start(s, [op |-> "updateReference", seen |-> reference, edit |-> edit])
    BY DEF ReadUpdate
<1>2. PICK x : x = [op |-> "updateReference", seen |-> reference, edit |-> edit]
    OBVIOUS
<1>3. edit \in EditsTo(Plans)
    BY DEF EditsTo, IInv, TypeOK
<1>4. x \in SessionState /\ Fits(x)
    BY <1>1, <1>2, <1>3 DEF IInv, TypeOK, SessionState, Fits, Start
<1> QED BY <1>1, <1>2, <1>4, ReadKeeps DEF ReadUpdate, Start

LEMMA ReadStatusKeeps ==
    ASSUME IInv, NEW s \in Sessions, ReadStatus(s)
    PROVE  IInv'
<1>1. PICK to \in OfferedStatus :
          Start(s, [op |-> "updateReferenceStatus", seen |-> reference, to |-> to])
    BY DEF ReadStatus
<1>2. PICK x : x = [op |-> "updateReferenceStatus", seen |-> reference, to |-> to]
    OBVIOUS
<1>3. x \in SessionState /\ Fits(x)
    BY <1>1, <1>2 DEF IInv, TypeOK, SessionState, Fits, Start
<1> QED BY <1>1, <1>2, <1>3, ReadKeeps DEF ReadStatus, Start

LEMMA ReadRewardKeeps ==
    ASSUME IInv, NEW s \in Sessions, ReadReward(s)
    PROVE  IInv'
<1>1. PICK x : x = [op |-> "freeMonth", seen |-> reference]
    OBVIOUS
<1>2. x \in SessionState /\ Fits(x)
    BY <1>1 DEF IInv, TypeOK, SessionState, Fits, Start, ReadReward
<1> QED BY <1>1, <1>2, ReadKeeps DEF ReadReward, Start

LEMMA AbandonKeeps ==
    ASSUME IInv, NEW s \in Sessions, Abandon(s)
    PROVE  IInv'
<1> QED BY IdleFits, ReadKeeps DEF Abandon, Finish

LEMMA CommitRenewalKeeps ==
    ASSUME IInv, NEW s \in Sessions, CommitRenewal(s), WithinBounds
    PROVE  IInv'
<1>1. PICK seen \in References, plan \in Plans, value \in Values :
          seen = session[s].seen /\ plan = session[s].plan /\ value = session[s].value
    BY SessionShape DEF IInv, TypeOK, CommitRenewal
<1>2. reference' = Renewed(seen, plan, value)
    BY <1>1 DEF CommitRenewal
<1>3. /\ reference' \in References /\ Follows(reference')
      /\ seen.due.month < reference'.due.month
    BY <1>2, RenewedIs, ContractIsReference DEF WithinBounds
<1>4. PICK y : y = [previous |-> seen, new |-> reference', status |-> "ACTIVE"]
    OBVIOUS
<1>5. y \in Renewals /\ Follows(seen)
    BY <1>1, <1>3, <1>4 DEF Renewals, IInv, Fits, CommitRenewal
<1>6. RenewalFits(y)
    BY <1>3, <1>4, <1>5 DEF RenewalFits
<1>7. renewals' = Append(renewals, y)
    BY <1>1, <1>4 DEF CommitRenewal
<1>8. /\ renewals \in Seq(Renewals) /\ accounts \in Seq(Accounts)
      /\ Len(renewals) <= Len(accounts) /\ Unique(accounts)
    BY DEF IInv, TypeOK
<1>9. /\ renewals' \in Seq(Renewals) /\ Len(renewals') = Len(renewals) + 1
      /\ Len(renewals) \in Nat
      /\ DOMAIN renewals = 1 .. Len(renewals) /\ DOMAIN renewals' = 1 .. Len(renewals) + 1
      /\ \A n \in DOMAIN renewals : renewals'[n] = renewals[n]
      /\ renewals'[Len(renewals) + 1] = y
    BY <1>5, <1>7, <1>8, AppendIs
<1>10. PICK a : a = NewAccount("RENEWAL", reference'.due, reference'.value, Len(renewals'))
    OBVIOUS
<1>11. accounts' = Append(accounts, a)
    BY <1>10 DEF CommitRenewal
<1>12. Len(renewals') \in 0 .. MaxAccounts
  <2>1. Len(accounts') = Len(accounts) + 1
      BY <1>8, <1>11
  <2>2. Len(accounts) \in Nat /\ Len(accounts') <= MaxAccounts
      BY <1>8 DEF WithinBounds
  <2> QED BY <1>8, <1>9, <2>1, <2>2, BoundsAssumption
<1>13. a \in Accounts /\ a.purpose = "RENEWAL" /\ a.due = reference'.due
    BY <1>3, <1>10, <1>12, NewAccountIs DEF References, Purposes
<1>14. /\ accounts' \in Seq(Accounts) /\ Len(accounts') = Len(accounts) + 1
       /\ Len(accounts) \in Nat
    BY <1>8, <1>11, <1>13, AppendIs
<1>15. Unique(accounts')
  <2>1. CycleIndexAllows(accounts, a.purpose, a.due)
      BY <1>13 DEF CommitRenewal
  <2> QED BY <1>8, <1>11, <1>13, <2>1, AppendIsUnique
<1>16. \A n \in DOMAIN renewals' : RenewalFits(renewals'[n])
    BY <1>6, <1>9 DEF IInv
<1>17. reactivations' \in Seq(Reactivations) /\ activePlans' \subseteq Plans
    BY DEF CommitRenewal, IInv, TypeOK
<1>18. Finish(s)
    BY DEF CommitRenewal
<1> QED BY <1>3, <1>8, <1>9, <1>14, <1>15, <1>16, <1>17, <1>18, RowsKeep

LEMMA CanceledAccountsAre ==
    ASSUME TypeOK, Unique(accounts), NEW k \in DOMAIN accounts,
           NEW rows, rows = [accounts EXCEPT ![k].status = "CANCELADO"]
    PROVE  /\ rows \in Seq(Accounts) /\ Len(rows) = Len(accounts) /\ Unique(rows)
           /\ DOMAIN rows = DOMAIN accounts
           /\ \A j \in DOMAIN accounts : /\ rows[j].purpose = accounts[j].purpose
                                         /\ rows[j].due = accounts[j].due
           /\ rows[k].status = "CANCELADO"
           /\ \A j \in DOMAIN accounts : j # k => rows[j] = accounts[j]
<1>1. PICK status \in ReceivableStatus : status = "CANCELADO"
    BY DEF ReceivableStatus
<1>2. rows = [accounts EXCEPT ![k].status = status] /\ accounts \in Seq(Accounts)
    BY <1>1 DEF TypeOK
<1>3. /\ rows \in Seq(Accounts) /\ Len(rows) = Len(accounts) /\ DOMAIN rows = DOMAIN accounts
      /\ \A j \in DOMAIN accounts : /\ rows[j].purpose = accounts[j].purpose
                                    /\ rows[j].due = accounts[j].due
      /\ rows[k].status = status
      /\ \A j \in DOMAIN accounts : j # k => rows[j] = accounts[j]
    BY <1>2, StatusChanges
<1> QED BY <1>1, <1>3, SameRowsSameCycle

LEMMA CommitReversalKeeps ==
    ASSUME IInv, NEW s \in Sessions, CommitReversal(s), WithinBounds
    PROVE  IInv'
<1>1. PICK n \in DOMAIN renewals, k \in DOMAIN accounts :
          n = session[s].renewal /\ k = session[s].account
    BY DEF IInv, Fits, CommitReversal
<1>2. renewals[n] \in Renewals /\ RenewalFits(renewals[n]) /\ reference' = renewals[n].previous
    BY <1>1, RowsAre DEF IInv, CommitReversal
<1>3. reference' \in References /\ Follows(reference')
    BY <1>2 DEF Renewals, RenewalFits
<1>4. renewals' = [renewals EXCEPT ![n].status = "REVERTED"]
    BY <1>1 DEF CommitReversal
<1>5. /\ renewals' \in Seq(Renewals) /\ Len(renewals') = Len(renewals)
      /\ DOMAIN renewals' = DOMAIN renewals
      /\ \A i \in DOMAIN renewals : /\ renewals'[i].new = renewals[i].new
                                    /\ renewals'[i].previous = renewals[i].previous
  <2>1. \A x \in Renewals : /\ [x EXCEPT !.status = "REVERTED"] \in Renewals
                            /\ [x EXCEPT !.status = "REVERTED"].new = x.new
                            /\ [x EXCEPT !.status = "REVERTED"].previous = x.previous
      BY DEF Renewals
  <2>2. renewals \in Seq(Renewals)
      BY DEF IInv, TypeOK
  <2>3. renewals' = [renewals EXCEPT ![n] = [renewals[n] EXCEPT !.status = "REVERTED"]]
      BY <1>4
  <2> QED BY <1>2, <2>1, <2>2, <2>3
<1>6. \A i \in DOMAIN renewals' : RenewalFits(renewals'[i])
    BY <1>5 DEF IInv, RenewalFits
<1>7. accounts' = [accounts EXCEPT ![k].status = "CANCELADO"]
    BY <1>1 DEF CommitReversal
<1>8. accounts \in Seq(Accounts) /\ Unique(accounts) /\ Len(renewals) <= Len(accounts)
    BY DEF IInv, TypeOK
<1>9. PICK rows : rows = accounts'
    OBVIOUS
<1>10. rows \in Seq(Accounts) /\ Len(rows) = Len(accounts) /\ Unique(rows)
    BY <1>7, <1>8, <1>9, CanceledAccountsAre DEF IInv
<1>11. /\ reactivations' \in Seq(Reactivations) /\ activePlans' \subseteq Plans /\ Finish(s)
       /\ Len(accounts) \in Nat /\ Len(renewals) \in Nat
    BY <1>8 DEF CommitReversal, IInv, TypeOK
<1> QED BY <1>3, <1>5, <1>6, <1>8, <1>9, <1>10, <1>11, RowsKeep

\* The payment of an account, as both the settlement and what it must ensure
\* see it.
LEMMA PaidAccountsAre ==
    ASSUME TypeOK, Unique(accounts), NEW k \in DOMAIN accounts,
           NEW rows, rows = PaidAccounts(k)
    PROVE  /\ rows \in Seq(Accounts) /\ Len(rows) = Len(accounts) /\ Unique(rows)
           /\ DOMAIN rows = DOMAIN accounts
           /\ \A j \in DOMAIN accounts : /\ rows[j].purpose = accounts[j].purpose
                                         /\ rows[j].due = accounts[j].due
           /\ \A j \in DOMAIN accounts : j # k => rows[j] = accounts[j]
<1>1. PICK status \in ReceivableStatus : status = "PAGO"
    BY DEF ReceivableStatus
<1>2. rows = [accounts EXCEPT ![k].status = status] /\ accounts \in Seq(Accounts)
    BY <1>1 DEF PaidAccounts, TypeOK
<1>3. /\ rows \in Seq(Accounts) /\ Len(rows) = Len(accounts) /\ DOMAIN rows = DOMAIN accounts
      /\ \A j \in DOMAIN accounts : /\ rows[j].purpose = accounts[j].purpose
                                    /\ rows[j].due = accounts[j].due
      /\ \A j \in DOMAIN accounts : j # k => rows[j] = accounts[j]
    BY <1>2, StatusChanges
<1> QED BY <1>3, SameRowsSameCycle

LEMMA CommitSettlementKeeps ==
    ASSUME IInv, NEW s \in Sessions, CommitSettlement(s), WithinBounds
    PROVE  IInv'
<1>1. PICK k \in DOMAIN accounts, seen \in References, paidOn \in PaymentDates :
          k = session[s].account /\ seen = session[s].seen /\ paidOn = session[s].paidOn
    BY SessionShape DEF IInv, TypeOK, Fits, CommitSettlement
<1>2. reference' = Moved(k, seen, reference, paidOn)
    BY <1>1 DEF CommitSettlement
<1>3. reference' \in References /\ Follows(reference')
  <2>1. reference' \in Contracts /\ Follows(reference')
      BY <1>2, MovedIs DEF IInv
  <2> QED BY <2>1, ContractIsReference DEF WithinBounds
<1>4. PICK rows : rows = PaidAccounts(k)
    OBVIOUS
<1>5. rows \in Seq(Accounts) /\ Len(rows) = Len(accounts) /\ Unique(rows)
    BY <1>4, PaidAccountsAre DEF IInv
<1>6. accounts' \in Seq(Accounts) /\ Len(accounts) <= Len(accounts') /\ Unique(accounts')
  <2>1. CASE Advances(k, seen)
    <3>1. CanEnsure(rows, reference') /\ accounts' = Ensured(rows, reference')
        BY <1>1, <1>4, <2>1 DEF CommitSettlement
    <3>2. PICK next : next = Ensured(rows, reference')
        OBVIOUS
    <3> QED BY <1>3, <1>5, <3>1, <3>2, EnsuredIs
  <2>2. CASE ~Advances(k, seen)
    <3>1. accounts' = rows /\ Len(accounts) \in Nat
        BY <1>1, <1>4, <2>2, RowsAre, BoundsAssumption DEF CommitSettlement, IInv
    <3> QED BY <1>5, <3>1
  <2> QED BY <2>1, <2>2
<1>7. reactivations' \in Seq(Reactivations)
  <2>1. reactivations \in Seq(Reactivations)
      BY DEF IInv, TypeOK
  <2>2. \A x \in DOMAIN reactivations :
            /\ reactivations[x] \in Reactivations
            /\ [reactivations[x] EXCEPT !.status = "PAID"] \in Reactivations
    <3>1. \A x \in DOMAIN reactivations : reactivations[x] \in Reactivations
        BY <2>1
    <3>2. \A y \in Reactivations : [y EXCEPT !.status = "PAID"] \in Reactivations
        BY DEF Reactivations
    <3> QED BY <3>1, <3>2
  <2>3. PICK n \in Nat : DOMAIN reactivations = 1 .. n
      BY <2>1
  <2>4. reactivations' = [x \in DOMAIN reactivations |->
            IF x \in Pending(k) THEN [reactivations[x] EXCEPT !.status = "PAID"]
            ELSE reactivations[x]]
      BY <1>1 DEF CommitSettlement
  <2>5. reactivations' \in [1 .. n -> Reactivations]
      BY <2>2, <2>3, <2>4
  <2> QED BY <2>5, SeqDef
<1>8. renewals' = renewals /\ activePlans' \subseteq Plans /\ Finish(s)
    BY DEF CommitSettlement, IInv, TypeOK
<1>9. Len(accounts') \in Nat /\ Len(accounts) \in Nat /\ Len(renewals) \in Nat
    BY <1>6, RowsAre, BoundsAssumption DEF IInv
<1>10. /\ renewals' \in Seq(Renewals) /\ Len(renewals) <= Len(renewals')
       /\ Len(renewals') <= Len(accounts')
       /\ \A n \in DOMAIN renewals : renewals'[n].new = renewals[n].new
       /\ \A n \in DOMAIN renewals' : RenewalFits(renewals'[n])
    BY <1>6, <1>8, <1>9, RenewalsStay
<1> QED BY <1>3, <1>6, <1>7, <1>8, <1>10, RowsKeep

LEMMA ReplacedIs ==
    ASSUME NEW S, NEW rows \in Seq(S), NEW k \in DOMAIN rows, NEW a \in S,
           NEW next, next = [rows EXCEPT ![k] = a]
    PROVE  /\ next \in Seq(S) /\ Len(next) = Len(rows) /\ DOMAIN next = DOMAIN rows
           /\ next[k] = a /\ \A j \in DOMAIN rows : j # k => next[j] = rows[j]
<1> QED OBVIOUS

Rescheduled(rows, k, now) == [rows EXCEPT ![k].due = now.due, ![k].value = now.value]

\* What an edit does to the account of the cycle it has read.
LEMMA RescheduledIs ==
    ASSUME NEW now \in References, NEW old \in Seq(Accounts), NEW k \in DOMAIN old,
           NEW rows, rows = Rescheduled(old, k, now)
    PROVE  /\ rows \in Seq(Accounts) /\ Len(rows) = Len(old) /\ DOMAIN rows = DOMAIN old
           /\ rows[k].due = now.due /\ rows[k].purpose = old[k].purpose
           /\ rows[k].status = old[k].status
           /\ \A j \in DOMAIN old : j # k => rows[j] = old[j]
<1>1. PICK x \in Accounts : x = old[k]
    OBVIOUS
<1>2. PICK a : a = [x EXCEPT !.due = now.due, !.value = now.value]
    OBVIOUS
<1>3. /\ a \in Accounts /\ a.purpose = x.purpose /\ a.due = now.due /\ a.status = x.status
    BY <1>2 DEF Accounts, References
<1>4. rows = [old EXCEPT ![k] = a]
    BY <1>1, <1>2 DEF Rescheduled
<1>5. /\ rows \in Seq(Accounts) /\ Len(rows) = Len(old) /\ DOMAIN rows = DOMAIN old
      /\ rows[k] = a /\ \A j \in DOMAIN old : j # k => rows[j] = old[j]
    BY <1>3, <1>4, ReplacedIs
<1> QED BY <1>1, <1>3, <1>5

LEMMA RescheduledAccountsAre ==
    ASSUME TypeOK, Unique(accounts), NEW now \in References, NEW due,
           NEW k \in SameCycle(accounts, due), SameCycle(accounts, now.due) \subseteq {k},
           NEW rows, rows = Rescheduled(accounts, k, now)
    PROVE  /\ rows \in Seq(Accounts) /\ Len(rows) = Len(accounts) /\ Unique(rows)
           /\ SameCycle(rows, now.due) = {k} /\ rows[k].status = accounts[k].status
<1>1. k \in DOMAIN accounts /\ accounts \in Seq(Accounts) /\ accounts[k].purpose = "RENEWAL"
    BY DEF TypeOK, SameCycle
<1>2. /\ rows \in Seq(Accounts) /\ Len(rows) = Len(accounts) /\ DOMAIN rows = DOMAIN accounts
      /\ rows[k].due = now.due /\ rows[k].purpose = "RENEWAL"
      /\ rows[k].status = accounts[k].status
      /\ \A j \in DOMAIN accounts : j # k => rows[j] = accounts[j]
    BY <1>1, RescheduledIs
<1>3. \A j \in DOMAIN accounts :
          accounts[j].purpose = "RENEWAL" /\ accounts[j].due = now.due => j = k
    BY DEF SameCycle
<1>4. SameCycle(rows, now.due) = {k}
    BY <1>1, <1>2, <1>3 DEF SameCycle
<1>5. Unique(rows)
  <2> SUFFICES ASSUME NEW i \in DOMAIN accounts, NEW j \in DOMAIN accounts,
                      rows[i].purpose = rows[j].purpose, rows[i].due = rows[j].due
               PROVE  i = j
      BY <1>2 DEF Unique
  <2>1. CASE i # k /\ j # k
      BY <2>1, <1>2 DEF Unique
  <2>2. CASE i = k /\ j # k
      BY <2>2, <1>2, <1>3
  <2>3. CASE i # k /\ j = k
      BY <2>3, <1>2, <1>3
  <2> QED BY <2>1, <2>2, <2>3
<1> QED BY <1>2, <1>4, <1>5

LEMMA CommitUpdateKeeps ==
    ASSUME IInv, NEW s \in Sessions, CommitUpdate(s), WithinBounds
    PROVE  IInv'
<1>1. PICK seen \in References, edit \in EditsTo(Plans) :
          seen = session[s].seen /\ edit = session[s].edit
    BY SessionShape DEF IInv, TypeOK, CommitUpdate
<1>2. reference' = Edited(reference, edit)
    BY <1>1 DEF CommitUpdate
<1>3. reference' \in References /\ Follows(reference')
  <2>1. reference' \in Contracts /\ Follows(reference')
      BY <1>2, EditedIs DEF IInv, TypeOK
  <2> QED BY <2>1, ContractIsReference DEF WithinBounds
<1>4. TypeOK /\ accounts \in Seq(Accounts) /\ Unique(accounts) /\ Len(accounts) \in Nat
    BY DEF IInv, TypeOK
<1>5. accounts' \in Seq(Accounts) /\ Len(accounts) <= Len(accounts') /\ Unique(accounts')
  <2>1. CASE UNCHANGED accounts
      BY <2>1, <1>4
  <2>2. CASE CanEnsure(accounts, reference') /\ accounts' = Ensured(accounts, reference')
      BY <2>2, <1>3, <1>4, EnsuredIs
  <2>3. ASSUME NEW k \in SameCycle(accounts, seen.due),
               SameCycle(accounts, reference'.due) \subseteq {k},
               accounts' = [accounts EXCEPT ![k].due = reference'.due,
                                            ![k].value = reference'.value]
        PROVE  accounts' \in Seq(Accounts) /\ Len(accounts) <= Len(accounts') /\ Unique(accounts')
    <3>1. PICK now \in References : now = reference'
        BY <1>3
    <3>2. PICK rows : rows = accounts'
        OBVIOUS
    <3>3. rows = Rescheduled(accounts, k, now) /\ SameCycle(accounts, now.due) \subseteq {k}
        BY <2>3, <3>1, <3>2 DEF Rescheduled
    <3>4. rows \in Seq(Accounts) /\ Len(rows) = Len(accounts) /\ Unique(rows)
        BY <1>4, <3>3, RescheduledAccountsAre
    <3> QED BY <1>4, <3>2, <3>4
  <2> QED BY <1>1, <1>2, <2>1, <2>2, <2>3 DEF CommitUpdate
<1>6. /\ renewals' = renewals /\ reactivations' \in Seq(Reactivations)
      /\ activePlans' \subseteq Plans /\ Finish(s)
    BY DEF CommitUpdate, IInv, TypeOK
<1>7. Len(accounts') \in Nat /\ Len(accounts) \in Nat /\ Len(renewals) \in Nat
    BY <1>5, RowsAre, BoundsAssumption DEF IInv
<1>8. /\ renewals' \in Seq(Renewals) /\ Len(renewals) <= Len(renewals')
      /\ Len(renewals') <= Len(accounts')
      /\ \A n \in DOMAIN renewals : renewals'[n].new = renewals[n].new
      /\ \A n \in DOMAIN renewals' : RenewalFits(renewals'[n])
    BY <1>5, <1>6, <1>7, RenewalsStay
<1> QED BY <1>3, <1>5, <1>6, <1>8, RowsKeep

LEMMA CommitStatusKeeps ==
    ASSUME IInv, NEW s \in Sessions, CommitStatus(s), WithinBounds
    PROVE  IInv'
<1>1. PICK to \in ClientStatus : to = session[s].to
    BY SessionShape DEF IInv, TypeOK, CommitStatus, OfferedStatus, ClientStatus
<1>2. reference' = [reference EXCEPT !.status = to] /\ reference \in References
    BY <1>1 DEF CommitStatus, IInv, TypeOK
<1>3. reference' \in References /\ Follows(reference')
    BY <1>2 DEF References, IInv, Follows
<1>4. TypeOK /\ accounts \in Seq(Accounts) /\ Unique(accounts) /\ Len(accounts) \in Nat
    BY DEF IInv, TypeOK
<1>5. accounts' \in Seq(Accounts) /\ Len(accounts) <= Len(accounts') /\ Unique(accounts')
  <2>1. CASE UNCHANGED accounts
      BY <2>1, <1>4
  <2>2. CASE CanEnsure(accounts, reference') /\ accounts' = Ensured(accounts, reference')
      BY <2>2, <1>3, <1>4, EnsuredIs
  <2> QED BY <2>1, <2>2 DEF CommitStatus
<1>6. /\ renewals' = renewals /\ reactivations' \in Seq(Reactivations)
      /\ activePlans' \subseteq Plans /\ Finish(s)
    BY DEF CommitStatus, IInv, TypeOK
<1>7. Len(accounts') \in Nat /\ Len(accounts) \in Nat /\ Len(renewals) \in Nat
    BY <1>5, RowsAre, BoundsAssumption DEF IInv
<1>8. /\ renewals' \in Seq(Renewals) /\ Len(renewals) <= Len(renewals')
      /\ Len(renewals') <= Len(accounts')
      /\ \A n \in DOMAIN renewals : renewals'[n].new = renewals[n].new
      /\ \A n \in DOMAIN renewals' : RenewalFits(renewals'[n])
    BY <1>5, <1>6, <1>7, RenewalsStay
<1> QED BY <1>3, <1>5, <1>6, <1>8, RowsKeep

\* The accounts after those of a free month were canceled.
LEMMA FreedAccountsAre ==
    ASSUME TypeOK, Unique(accounts), NEW free \in SUBSET DOMAIN accounts,
           NEW rows, rows = [k \in DOMAIN accounts |->
                                IF k \in free THEN [accounts[k] EXCEPT !.status = "CANCELADO"]
                                ELSE accounts[k]]
    PROVE  rows \in Seq(Accounts) /\ Len(rows) = Len(accounts) /\ Unique(rows)
<1>1. \A a \in Accounts : /\ [a EXCEPT !.status = "CANCELADO"] \in Accounts
                          /\ [a EXCEPT !.status = "CANCELADO"].purpose = a.purpose
                          /\ [a EXCEPT !.status = "CANCELADO"].due = a.due
    BY DEF Accounts, ReceivableStatus
<1>2. PICK n \in Nat : DOMAIN accounts = 1 .. n /\ Len(accounts) = n
    BY RowsAre, BoundsAssumption
<1>3. \A k \in DOMAIN accounts :
          /\ rows[k] \in Accounts
          /\ rows[k].purpose = accounts[k].purpose /\ rows[k].due = accounts[k].due
    BY <1>1, RowsAre
<1>4. rows \in [1 .. n -> Accounts]
    BY <1>2, <1>3
<1>5. rows \in Seq(Accounts) /\ Len(rows) = n
  <2>1. rows \in Seq(Accounts)
      BY <1>4, SeqDef
  <2>2. DOMAIN rows = 1 .. n
      BY <1>4
  <2> QED BY <2>1, <2>2
<1> QED BY <1>2, <1>3, <1>5, SameRowsSameCycle

LEMMA CommitRewardKeeps ==
    ASSUME IInv, NEW s \in Sessions, CommitReward(s), WithinBounds
    PROVE  IInv'
<1>1. PICK seen \in References : seen = session[s].seen
    BY SessionShape DEF IInv, TypeOK, CommitReward
<1>2. /\ seen.due \in Dates /\ seen.anchor \in 1 .. 31 /\ reference \in Contracts
      /\ TypeOK /\ Unique(accounts) /\ Len(accounts) \in Nat
    BY ReferenceIs, RowsAre, BoundsAssumption DEF References, IInv, TypeOK
<1>3. PICK to : to = AddCalendarMonthsPreservingAnchor(seen.due, 1, seen.anchor)
    OBVIOUS
<1>4. to \in [month : Nat, day : Nat]
    BY <1>2, <1>3, LaterDateIs
<1>5. reference' = [reference EXCEPT !.due = to, !.anchor = seen.anchor]
    BY <1>1, <1>3 DEF CommitReward
<1>6. reference' \in Contracts /\ reference'.due = to /\ reference'.anchor = seen.anchor
    BY <1>2, <1>4, <1>5 DEF Contracts
<1>7. reference' \in References /\ Follows(reference')
  <2>1. PICK r \in Contracts : r = reference'
      BY <1>6
  <2>2. Follows(r)
      BY <1>2, <1>3, <1>6, <2>1, LaterFollows
  <2> QED BY <2>1, <2>2, ContractIsReference DEF WithinBounds
<1>8. PICK free \in SUBSET DOMAIN accounts :
          free = SameCycle(accounts, seen.due) \cap PendingRenewals(accounts)
    BY DEF SameCycle
<1>9. PICK rows : rows = [k \in DOMAIN accounts |->
                             IF k \in free THEN [accounts[k] EXCEPT !.status = "CANCELADO"]
                             ELSE accounts[k]]
    OBVIOUS
<1>10. rows \in Seq(Accounts) /\ Len(rows) = Len(accounts) /\ Unique(rows)
    BY <1>2, <1>9, FreedAccountsAre
<1>11. CanEnsure(rows, reference') /\ accounts' = Ensured(rows, reference')
    BY <1>1, <1>8, <1>9 DEF CommitReward
<1>12. accounts' \in Seq(Accounts) /\ Len(accounts) <= Len(accounts') /\ Unique(accounts')
  <2>1. PICK next : next = Ensured(rows, reference')
      OBVIOUS
  <2> QED BY <1>7, <1>10, <1>11, <2>1, EnsuredIs
<1>13. /\ renewals' = renewals /\ reactivations' \in Seq(Reactivations)
       /\ activePlans' \subseteq Plans /\ Finish(s)
    BY DEF CommitReward, IInv, TypeOK
<1>14. Len(accounts') \in Nat /\ Len(accounts) \in Nat /\ Len(renewals) \in Nat
    BY <1>12, RowsAre, BoundsAssumption DEF IInv
<1>15. /\ renewals' \in Seq(Renewals) /\ Len(renewals) <= Len(renewals')
       /\ Len(renewals') <= Len(accounts')
       /\ \A n \in DOMAIN renewals : renewals'[n].new = renewals[n].new
       /\ \A n \in DOMAIN renewals' : RenewalFits(renewals'[n])
    BY <1>12, <1>13, <1>14, RenewalsStay
<1> QED BY <1>7, <1>12, <1>13, <1>15, RowsKeep

\* A row is added or changed while the operations in progress go on.
LEMMA OperatorKeeps ==
    ASSUME IInv, Operator, WithinBounds
    PROVE  IInv'
<1>1. /\ TypeOK /\ accounts \in Seq(Accounts) /\ Unique(accounts)
      /\ Len(accounts) \in Nat /\ Len(renewals) \in Nat
    BY RowsAre, BoundsAssumption DEF IInv, TypeOK
<1>2. /\ reference' = reference /\ renewals' = renewals /\ session' = session
      /\ reference \in References /\ Follows(reference)
    BY DEF Operator, CancelReceivable, CreateReactivation, GenerateReceivable, UpdatePlan,
           IInv, TypeOK
<1> DEFINE Kept == /\ accounts' \in Seq(Accounts) /\ Len(accounts) <= Len(accounts')
                   /\ Unique(accounts')
                   /\ reactivations' \in Seq(Reactivations) /\ activePlans' \subseteq Plans
<1>3. Kept
  <2>1. ASSUME NEW k \in DOMAIN accounts, CancelReceivable(k) PROVE Kept
    <3>1. PICK rows : rows = accounts'
        OBVIOUS
    <3>2. rows \in Seq(Accounts) /\ Len(rows) = Len(accounts) /\ Unique(rows)
        BY <1>1, <2>1, <3>1, CanceledAccountsAre DEF CancelReceivable
    <3> QED BY <1>1, <2>1, <3>1, <3>2 DEF CancelReceivable, TypeOK
  <2>2. ASSUME NEW plan \in Plans, NEW value \in Values, NEW on \in PaymentDates,
               CreateReactivation(plan, value, on)
        PROVE  Kept
    <3>1. on \in Dates
        BY DatesAssumption DEF Dates
    <3>2. PICK a : a = NewAccount("REACTIVATION", on, value, 0)
        OBVIOUS
    <3>3. a \in Accounts /\ a.purpose = "REACTIVATION" /\ a.due = on
        BY <3>1, <3>2, NewAccountIs, BoundsAssumption DEF Purposes
    <3>4. accounts' = Append(accounts, a) /\ CycleIndexAllows(accounts, a.purpose, a.due)
        BY <2>2, <3>2, <3>3 DEF CreateReactivation
    <3>5. /\ accounts' \in Seq(Accounts) /\ Len(accounts') = Len(accounts) + 1
          /\ Unique(accounts')
        BY <1>1, <3>3, <3>4, AppendIs, AppendIsUnique
    <3>6. PICK y : y = [account |-> Len(accounts'), plan |-> plan, value |-> value,
                        status |-> "PENDING"]
        OBVIOUS
    <3>7. y \in Reactivations
      <4>1. Len(accounts') \in 1 .. MaxAccounts
          BY <1>1, <3>5, BoundsAssumption DEF WithinBounds
      <4> QED BY <3>6, <4>1 DEF Reactivations
    <3>8. reactivations' = Append(reactivations, y) /\ activePlans' = activePlans
        BY <2>2, <3>6 DEF CreateReactivation
    <3>9. reactivations' \in Seq(Reactivations) /\ activePlans' \subseteq Plans
        BY <1>1, <3>7, <3>8 DEF TypeOK
    <3> QED BY <1>1, <3>5, <3>9
  <2>3. CASE GenerateReceivable
      BY <2>3, <1>1, <1>2, EnsuredIs DEF GenerateReceivable, TypeOK
  <2>4. ASSUME NEW plan \in Plans, UpdatePlan(plan) PROVE Kept
      BY <2>4, <1>1 DEF UpdatePlan, TypeOK
  <2> QED BY <2>1, <2>2, <2>3, <2>4 DEF Operator
<1>4. Len(accounts') \in Nat
    BY <1>3
<1>5. /\ renewals' \in Seq(Renewals) /\ Len(renewals) <= Len(renewals')
      /\ Len(renewals') <= Len(accounts')
      /\ \A n \in DOMAIN renewals : renewals'[n].new = renewals[n].new
      /\ \A n \in DOMAIN renewals' : RenewalFits(renewals'[n])
    BY <1>1, <1>2, <1>3, <1>4, RenewalsStay
<1> QED BY <1>2, <1>3, <1>5, RowsKeep

LEMMA InitHasInvariant == Init => IInv
<1> SUFFICES ASSUME Init PROVE IInv
    OBVIOUS
<1>1. PICK plan \in Plans, value \in Values, due \in StartDates,
           status \in {"ATIVO", "PENDENTE_PAGAMENTO"} :
          /\ reference = [status |-> status, plan |-> plan, value |-> value,
                          due |-> due, anchor |-> due.day]
          /\ accounts = <<NewAccount(IF status = "ATIVO" THEN "RENEWAL"
                                     ELSE "INITIAL_ACTIVATION", due, value, 0)>>
    BY DEF Init
<1>2. due \in Dates /\ due.day \in 1 .. 31 /\ due.day <= LastDay(due.month)
    BY DatesAssumption, DateIs DEF Dates
<1>3. reference \in References /\ Follows(reference)
    BY <1>1, <1>2 DEF References, ClientStatus, Follows
<1>4. PICK a : a = NewAccount(IF status = "ATIVO" THEN "RENEWAL"
                              ELSE "INITIAL_ACTIVATION", due, value, 0)
    OBVIOUS
<1>5. a \in Accounts
    BY <1>2, <1>4, BoundsAssumption DEF NewAccount, Accounts, Purposes, ReceivableStatus
<1>6. accounts = <<a>>
    BY <1>1, <1>4
<1>7. accounts \in Seq(Accounts) /\ Len(accounts) = 1 /\ DOMAIN accounts = {1}
    BY <1>5, <1>6
<1>8. Unique(accounts)
    BY <1>7 DEF Unique
<1>9. renewals = <<>> /\ reactivations = <<>> /\ activePlans = Plans
    BY DEF Init
<1>10. session \in [Sessions -> SessionState] /\ \A s \in Sessions : session[s] = Idle
    BY IdleFits DEF Init
<1>11. \A s \in Sessions : Fits(session[s])
    BY <1>10, IdleFits
<1>12. TypeOK
    BY <1>3, <1>7, <1>9, <1>10, BoundsAssumption DEF TypeOK
<1> QED BY <1>3, <1>7, <1>8, <1>9, <1>11, <1>12 DEF IInv

LEMMA NextKeepsInvariant == IInv /\ [Next]_vars => IInv'
<1> SUFFICES ASSUME IInv, [Next]_vars PROVE IInv'
    OBVIOUS
<1>1. CASE UNCHANGED vars
  <2>1. /\ reference' = reference /\ accounts' = accounts /\ renewals' = renewals
        /\ reactivations' = reactivations /\ activePlans' = activePlans /\ session' = session
      BY <1>1 DEF vars
  <2>2. TypeOK'
      BY <2>1 DEF IInv, TypeOK
  <2>3. \A s \in Sessions : Fits(session[s])'
      BY <2>1 DEF IInv, Fits
  <2> QED BY <2>1, <2>2, <2>3 DEF IInv, Unique, Follows, RenewalFits
<1>2. ASSUME NEW s \in Sessions, Read(s) PROVE IInv'
    BY <1>2, ReadRenewalKeeps, ReadReversalKeeps, MarkPaidKeeps, ReadUpdateKeeps,
       ReadStatusKeeps, ReadRewardKeeps DEF Read
<1>3. ASSUME NEW s \in Sessions, Commit(s), WithinBounds PROVE IInv'
    BY <1>3, CommitRenewalKeeps, CommitReversalKeeps, CommitSettlementKeeps,
       CommitUpdateKeeps, CommitStatusKeeps, CommitRewardKeeps DEF Commit
<1>4. ASSUME NEW s \in Sessions, Abandon(s) PROVE IInv'
    BY <1>4, AbandonKeeps
<1>5. CASE Operator /\ WithinBounds
    BY <1>5, OperatorKeeps
<1> QED BY <1>1, <1>2, <1>3, <1>4, <1>5 DEF Next

LEMMA InvariantHolds == Spec => []IInv
<1> QED BY InitHasInvariant, NextKeepsInvariant, PTL DEF Spec

\* The reference, its accounts, its renewals, its reactivations and what the
\* operations in progress have read keep their types.
THEOREM CyclesAreTyped == Spec => []TypeOK
<1>1. IInv => TypeOK
    BY DEF IInv
<1> QED BY <1>1, InvariantHolds, PTL

\* A due date is its anchor day, or the last day of a month too short for it,
\* for any operations that renew, revert, pay, edit, reactivate or reward the
\* reference at the same time.
THEOREM DueDatesFollowTheirAnchor == Spec => []DueFollowsAnchor
<1>1. IInv => DueFollowsAnchor
    BY DEF IInv, Follows, DueFollowsAnchor
<1> QED BY <1>1, InvariantHolds, PTL

(***************************************************************************)
(* What a commit does to the account of the cycle it ends on.              *)
(***************************************************************************)
\* The reference ends on a cycle that has an account and has not been paid.
Charged ==
    SameCycle(accounts', reference'.due) # {} /\ NoPaid(accounts', reference'.due)

\* The only paid rows of next are rows that were paid before.
NoneIsPaid(rows, next) ==
    \A k \in DOMAIN next : next[k].status = "PAGO" => k \in DOMAIN rows /\ next[k] = rows[k]

LEMMA NoneIsPaidKeeps ==
    ASSUME NEW rows, NEW next, NoneIsPaid(rows, next), NEW due, NoPaid(rows, due)
    PROVE  NoPaid(next, due)
<1> QED BY DEF NoneIsPaid, NoPaid, SameCycle

LEMMA EnsuredIsCharged ==
    ASSUME NEW rows \in Seq(Accounts), Unique(rows), reference' \in References,
           CanEnsure(rows, reference'), accounts' = Ensured(rows, reference')
    PROVE  Charged
<1>1. PICK r \in References : r = reference'
    OBVIOUS
<1>2. PICK next : next = accounts'
    OBVIOUS
<1>3. CanEnsure(rows, r) /\ next = Ensured(rows, r)
    BY <1>1, <1>2
<1>4. SameCycle(next, r.due) # {} /\ NoPaid(next, r.due)
    BY <1>3, EnsuredIs
<1> QED BY <1>1, <1>2, <1>4 DEF Charged

LEMMA RenewalIsCharged ==
    ASSUME IInv, NEW s \in Sessions, CommitRenewal(s), WithinBounds
    PROVE  Charged
<1>1. reference' \in References /\ accounts' \in Seq(Accounts)
    BY CommitRenewalKeeps DEF IInv, TypeOK
<1>2. PICK a : a = NewAccount("RENEWAL", reference'.due, reference'.value, Len(renewals'))
    OBVIOUS
<1>3. a.purpose = "RENEWAL" /\ a.due = reference'.due /\ a.status = "PENDENTE"
    BY <1>2 DEF NewAccount
<1>4. accounts' = Append(accounts, a) /\ accounts \in Seq(Accounts)
    BY <1>2 DEF CommitRenewal, IInv, TypeOK
<1>5. /\ DOMAIN accounts = 1 .. Len(accounts) /\ DOMAIN accounts' = 1 .. Len(accounts) + 1
      /\ Len(accounts) \in Nat
      /\ \A k \in DOMAIN accounts : accounts'[k] = accounts[k]
      /\ accounts'[Len(accounts) + 1] = a
    BY <1>4
<1>6. \A k \in DOMAIN accounts : ~(accounts[k].purpose = "RENEWAL"
                                   /\ accounts[k].due = reference'.due)
    BY DEF CommitRenewal, CycleIndexAllows
<1>7. SameCycle(accounts', reference'.due) = {Len(accounts) + 1}
    BY <1>3, <1>5, <1>6 DEF SameCycle
<1> QED BY <1>3, <1>5, <1>7 DEF Charged, NoPaid

\* A reversal goes back to an earlier month and pays nothing.
LEMMA ReversalGoesBack ==
    ASSUME IInv, NEW s \in Sessions, CommitReversal(s)
    PROVE  /\ reference'.due.month < reference.due.month
           /\ reference' = renewals[session[s].renewal].previous
           /\ NoneIsPaid(accounts, accounts')
<1>1. PICK n \in DOMAIN renewals, k \in DOMAIN accounts :
          n = session[s].renewal /\ k = session[s].account
    BY DEF IInv, Fits, CommitReversal
<1>2. reference = renewals[n].new /\ reference' = renewals[n].previous
    BY <1>1 DEF IInv, Fits, CommitReversal
<1>3. renewals[n].previous.due.month < renewals[n].new.due.month
    BY DEF IInv, RenewalFits
<1>4. PICK rows : rows = accounts'
    OBVIOUS
<1>5. rows = [accounts EXCEPT ![k].status = "CANCELADO"]
    BY <1>1, <1>4 DEF CommitReversal
<1>6. /\ DOMAIN rows = DOMAIN accounts /\ rows[k].status = "CANCELADO"
      /\ \A j \in DOMAIN accounts : j # k => rows[j] = accounts[j]
    BY <1>5, CanceledAccountsAre DEF IInv
<1>7. NoneIsPaid(accounts, rows)
    BY <1>6 DEF NoneIsPaid
<1> QED BY <1>1, <1>2, <1>3, <1>4, <1>7

LEMMA SettlementIsCharged ==
    ASSUME IInv, NEW s \in Sessions, CommitSettlement(s), WithinBounds
    PROVE  \/ Charged
           \/ /\ session[s].account \in DOMAIN accounts
              /\ ~Advances(session[s].account, session[s].seen)
              /\ reference' = reference /\ accounts' = PaidAccounts(session[s].account)
<1>1. PICK k \in DOMAIN accounts, seen \in References, paidOn \in PaymentDates :
          k = session[s].account /\ seen = session[s].seen /\ paidOn = session[s].paidOn
    BY SessionShape DEF IInv, TypeOK, Fits, CommitSettlement
<1>2. reference' = Moved(k, seen, reference, paidOn)
    BY <1>1 DEF CommitSettlement
<1>3. CASE Advances(k, seen)
  <2>1. PICK rows : rows = PaidAccounts(k)
      OBVIOUS
  <2>2. rows \in Seq(Accounts) /\ Unique(rows)
      BY <2>1, PaidAccountsAre DEF IInv
  <2>3. CanEnsure(rows, reference') /\ accounts' = Ensured(rows, reference')
      BY <1>1, <1>3, <2>1 DEF CommitSettlement
  <2>4. reference' \in References
      BY CommitSettlementKeeps DEF IInv, TypeOK
  <2> QED BY <2>2, <2>3, <2>4, EnsuredIsCharged
<1>4. CASE ~Advances(k, seen)
  <2>1. reference' = reference
      BY <1>2, <1>4 DEF Moved
  <2>2. accounts' = PaidAccounts(k)
      BY <1>1, <1>4 DEF CommitSettlement
  <2> QED BY <1>1, <1>4, <2>1, <2>2
<1> QED BY <1>3, <1>4

LEMMA UpdateIsCharged ==
    ASSUME IInv, NEW s \in Sessions, CommitUpdate(s), WithinBounds
    PROVE  \/ Charged
           \/ /\ session[s].seen.status # "ATIVO" /\ UNCHANGED accounts
              /\ reference'.status = reference.status
<1>1. PICK seen \in References, edit \in EditsTo(Plans) :
          seen = session[s].seen /\ edit = session[s].edit
    BY SessionShape DEF IInv, TypeOK, CommitUpdate
<1>2. PICK now \in References : now = reference' /\ now = Edited(reference, edit)
    BY <1>1, CommitUpdateKeeps DEF CommitUpdate, IInv, TypeOK
<1>3. now.status = reference.status
  <2>1. reference \in References /\ edit[1] \in {"plan", "value", "due"}
      BY DEF EditsTo, IInv, TypeOK
  <2>2. \A to : /\ [reference EXCEPT !.plan = to].status = reference.status
                /\ [reference EXCEPT !.value = to].status = reference.status
                /\ [reference EXCEPT !.due = to, !.anchor = to.day].status = reference.status
      BY <2>1 DEF References
  <2> QED BY <1>2, <2>1, <2>2 DEF Edited
<1>4. accounts \in Seq(Accounts) /\ Unique(accounts) /\ TypeOK
    BY DEF IInv, TypeOK
<1>5. CASE seen.status # "ATIVO" /\ UNCHANGED accounts
    BY <1>1, <1>2, <1>3, <1>5
<1>6. CASE CanEnsure(accounts, reference') /\ accounts' = Ensured(accounts, reference')
    BY <1>2, <1>4, <1>6, EnsuredIsCharged
<1>7. ASSUME NEW k \in SameCycle(accounts, seen.due), accounts[k].status = "PENDENTE",
             SameCycle(accounts, reference'.due) \subseteq {k},
             accounts' = [accounts EXCEPT ![k].due = reference'.due,
                                          ![k].value = reference'.value]
      PROVE  Charged
  <2>1. PICK rows : rows = accounts'
      OBVIOUS
  <2>2. rows = Rescheduled(accounts, k, now) /\ SameCycle(accounts, now.due) \subseteq {k}
      BY <1>2, <1>7, <2>1 DEF Rescheduled
  <2>3. SameCycle(rows, now.due) = {k} /\ rows[k].status = accounts[k].status
      BY <1>4, <2>2, RescheduledAccountsAre
  <2> QED BY <1>2, <1>7, <2>1, <2>3 DEF Charged, NoPaid
<1> QED BY <1>1, <1>2, <1>5, <1>6, <1>7 DEF CommitUpdate

LEMMA StatusIsCharged ==
    ASSUME IInv, NEW s \in Sessions, CommitStatus(s), WithinBounds
    PROVE  \/ Charged
           \/ /\ ~(session[s].seen.status = "INATIVO" /\ session[s].to = "ATIVO")
              /\ UNCHANGED accounts
              /\ reference'.due = reference.due /\ reference'.status = session[s].to
<1>1. reference \in References /\ reference' \in References
    BY CommitStatusKeeps DEF IInv, TypeOK
<1>2. reference' = [reference EXCEPT !.status = session[s].to]
    BY DEF CommitStatus
<1>3. reference'.due = reference.due /\ reference'.status = session[s].to
    BY <1>1, <1>2 DEF References
<1>4. accounts \in Seq(Accounts) /\ Unique(accounts)
    BY DEF IInv, TypeOK
<1>5. CASE CanEnsure(accounts, reference') /\ accounts' = Ensured(accounts, reference')
    BY <1>1, <1>4, <1>5, EnsuredIsCharged
<1> QED BY <1>3, <1>5 DEF CommitStatus

LEMMA RewardIsCharged ==
    ASSUME IInv, NEW s \in Sessions, CommitReward(s), WithinBounds
    PROVE  Charged
<1>1. PICK free \in SUBSET DOMAIN accounts :
          free = SameCycle(accounts, session[s].seen.due) \cap PendingRenewals(accounts)
    BY DEF SameCycle
<1>2. PICK rows : rows = [k \in DOMAIN accounts |->
                             IF k \in free THEN [accounts[k] EXCEPT !.status = "CANCELADO"]
                             ELSE accounts[k]]
    OBVIOUS
<1>3. rows \in Seq(Accounts) /\ Unique(rows)
    BY <1>2, FreedAccountsAre DEF IInv
<1>4. CanEnsure(rows, reference') /\ accounts' = Ensured(rows, reference')
    BY <1>1, <1>2 DEF CommitReward
<1>5. reference' \in References
    BY CommitRewardKeeps DEF IInv, TypeOK
<1> QED BY <1>3, <1>4, <1>5, EnsuredIsCharged

LEMMA OperatorPaysNothing ==
    ASSUME IInv, Operator, WithinBounds
    PROVE  /\ reference' = reference /\ renewals' = renewals /\ session' = session
           /\ NoneIsPaid(accounts, accounts')
<1>1. reference' = reference /\ renewals' = renewals /\ session' = session
    BY DEF Operator, CancelReceivable, CreateReactivation, GenerateReceivable, UpdatePlan
<1>2. TypeOK /\ accounts \in Seq(Accounts) /\ Unique(accounts) /\ reference \in References
    BY DEF IInv, TypeOK
<1>3. ASSUME NEW k \in DOMAIN accounts, CancelReceivable(k)
      PROVE  NoneIsPaid(accounts, accounts')
  <2>1. PICK rows : rows = accounts'
      OBVIOUS
  <2>2. /\ DOMAIN rows = DOMAIN accounts /\ rows[k].status = "CANCELADO"
        /\ \A j \in DOMAIN accounts : j # k => rows[j] = accounts[j]
      BY <1>2, <1>3, <2>1, CanceledAccountsAre DEF CancelReceivable
  <2> QED BY <2>1, <2>2 DEF NoneIsPaid
<1>4. ASSUME NEW plan \in Plans, NEW value \in Values, NEW on \in PaymentDates,
             CreateReactivation(plan, value, on)
      PROVE  NoneIsPaid(accounts, accounts')
  <2>1. PICK a : a = NewAccount("REACTIVATION", on, value, 0)
      OBVIOUS
  <2>2. a.status = "PENDENTE" /\ accounts' = Append(accounts, a)
      BY <1>4, <2>1 DEF NewAccount, CreateReactivation
  <2>3. \A k \in DOMAIN accounts' : accounts'[k] = a \/ (k \in DOMAIN accounts
                                                         /\ accounts'[k] = accounts[k])
      BY <1>2, <2>2
  <2> QED BY <2>2, <2>3 DEF NoneIsPaid
<1>5. CASE GenerateReceivable
  <2>1. PICK next : next = Ensured(accounts, reference)
      OBVIOUS
  <2>2. CanEnsure(accounts, reference) /\ accounts' = next
      BY <1>5, <2>1 DEF GenerateReceivable
  <2>3. \A k \in DOMAIN next : \/ k \in DOMAIN accounts /\ next[k] = accounts[k]
                               \/ next[k].status = "PENDENTE"
      BY <1>2, <2>1, <2>2, EnsuredIs
  <2> QED BY <1>1, <2>2, <2>3 DEF NoneIsPaid
<1>6. ASSUME NEW plan \in Plans, UpdatePlan(plan) PROVE NoneIsPaid(accounts, accounts')
    BY <1>6 DEF UpdatePlan, NoneIsPaid
<1> QED BY <1>1, <1>3, <1>4, <1>5, <1>6 DEF Operator

(***************************************************************************)
(* With operations one at a time, what an operation has read stands until  *)
(* its commit.                                                             *)
(***************************************************************************)
SInv == IInv /\ (OneAtATime => OInv)

LEMMA IdleStands == Stands(Idle)
<1> QED BY DEF Idle, Stands

LEMMA InitHasSInv == Init => SInv
<1> SUFFICES ASSUME Init PROVE OInv
    BY InitHasInvariant DEF SInv
<1>1. \A s \in Sessions : session[s] = Idle
    BY DEF Init
<1> QED BY <1>1, IdleStands DEF OInv

\* The one operation in progress has just read.
LEMMA ReadStands ==
    ASSUME IInv, OneAtATime, NEW s \in Sessions, NEW x, Stands(x),
           session' = [session EXCEPT ![s] = x], RowsUnchanged
    PROVE  OInv'
<1>1. \A r \in Sessions : session'[r] = x
    BY DEF IInv, TypeOK, OneAtATime
<1>2. Stands(x)'
    BY DEF Stands, RowsUnchanged, NoPaid, SameCycle
<1>3. \A r \in Sessions : Stands(session[r])'
    BY <1>1, <1>2 DEF Stands
<1> QED BY <1>3 DEF OInv

LEMMA ReadsStand ==
    ASSUME IInv, OneAtATime, NEW s \in Sessions, Read(s)
    PROVE  OInv'
<1> DEFINE Has(x) == session' = [session EXCEPT ![s] = x] /\ Stands(x) /\ RowsUnchanged
<1>1. \E x : Has(x)
  <2>1. CASE ReadRenewal(s)
    <3>1. PICK plan \in activePlans, value \in Values :
              Start(s, [op |-> "renew", seen |-> reference, plan |-> plan, value |-> value])
        BY <2>1 DEF ReadRenewal
    <3>2. Has([op |-> "renew", seen |-> reference, plan |-> plan, value |-> value])
        BY <2>1, <3>1 DEF ReadRenewal, Start, Stands
    <3> QED BY <3>2
  <2>2. CASE ReadReversal(s)
    <3>1. PICK n \in DOMAIN renewals, k \in DOMAIN accounts, today \in PaymentDates :
              /\ Reversible(n, k, today)
              /\ Start(s, [op |-> "revert", seen |-> reference, renewal |-> n,
                           account |-> k, status |-> accounts[k].status])
        BY <2>2 DEF ReadReversal
    <3>2. NoPaid(accounts, renewals[n].previous.due)
        BY <3>1 DEF Reversible, PreviousCycleAllows, NoPaid
    <3>3. Has([op |-> "revert", seen |-> reference, renewal |-> n,
               account |-> k, status |-> accounts[k].status])
        BY <2>2, <3>1, <3>2 DEF ReadReversal, Start, Stands
    <3> QED BY <3>3
  <2>3. CASE MarkPaid(s)
    <3>1. PICK k \in DOMAIN accounts, paidOn \in PaymentDates :
              Start(s, [op |-> "settle", seen |-> reference, account |-> k, paidOn |-> paidOn])
        BY <2>3 DEF MarkPaid
    <3>2. Has([op |-> "settle", seen |-> reference, account |-> k, paidOn |-> paidOn])
        BY <2>3, <3>1 DEF MarkPaid, Start, Stands
    <3> QED BY <3>2
  <2>4. CASE ReadUpdate(s)
    <3>1. PICK edit \in EditsTo(activePlans) :
              Start(s, [op |-> "updateReference", seen |-> reference, edit |-> edit])
        BY <2>4 DEF ReadUpdate
    <3>2. Has([op |-> "updateReference", seen |-> reference, edit |-> edit])
        BY <2>4, <3>1 DEF ReadUpdate, Start, Stands
    <3> QED BY <3>2
  <2>5. CASE ReadStatus(s)
    <3>1. PICK to \in OfferedStatus :
              /\ reference.status # to
              /\ ~(reference.status = "CANCELADO" /\ to = "ATIVO")
              /\ Start(s, [op |-> "updateReferenceStatus", seen |-> reference, to |-> to])
        BY <2>5 DEF ReadStatus
    <3>2. Has([op |-> "updateReferenceStatus", seen |-> reference, to |-> to])
        BY <2>5, <3>1 DEF ReadStatus, Start, Stands
    <3> QED BY <3>2
  <2>6. CASE ReadReward(s)
    <3>1. Has([op |-> "freeMonth", seen |-> reference])
        BY <2>6 DEF ReadReward, Start, Stands
    <3> QED BY <3>1
  <2> QED BY <2>1, <2>2, <2>3, <2>4, <2>5, <2>6 DEF Read
<1>2. PICK x : Has(x)
    BY <1>1
<1> QED BY <1>2, ReadStands

\* An operation that ends leaves nothing in progress.
LEMMA FinishStands ==
    ASSUME IInv, OneAtATime, NEW s \in Sessions, Finish(s)
    PROVE  OInv'
<1>1. \A r \in Sessions : session'[r] = Idle
    BY DEF IInv, TypeOK, OneAtATime, Finish
<1>2. \A r \in Sessions : Stands(session[r])'
    BY <1>1 DEF Idle, Stands
<1> QED BY <1>2 DEF OInv

LEMMA OperatorStands ==
    ASSUME IInv, OInv, Operator, WithinBounds
    PROVE  OInv'
<1>1. /\ reference' = reference /\ renewals' = renewals /\ session' = session
      /\ NoneIsPaid(accounts, accounts')
    BY OperatorPaysNothing
<1>2. ASSUME NEW s \in Sessions PROVE Stands(session[s])'
  <2>1. PICK x : x = session[s]
      OBVIOUS
  <2>2. Stands(x)
      BY <2>1 DEF OInv
  <2>3. ASSUME x.op = "revert" PROVE NoPaid(accounts', renewals[x.renewal].previous.due)
      BY <1>1, <2>2, <2>3, NoneIsPaidKeeps DEF Stands
  <2>4. Stands(x)'
      BY <1>1, <2>2, <2>3 DEF Stands
  <2> QED BY <1>1, <2>1, <2>4 DEF Stands
<1> QED BY <1>2 DEF OInv

LEMMA NextKeepsSInv == SInv /\ [Next]_vars => SInv'
<1> SUFFICES ASSUME IInv, OneAtATime, OInv, [Next]_vars PROVE OInv'
    BY NextKeepsInvariant DEF SInv, OneAtATime
<1>1. CASE UNCHANGED vars
    BY <1>1 DEF vars, OInv, Stands, NoPaid, SameCycle
<1>2. ASSUME NEW s \in Sessions, Read(s) PROVE OInv'
    BY <1>2, ReadsStand
<1>3. ASSUME NEW s \in Sessions, Commit(s) \/ Abandon(s) PROVE OInv'
  <2>1. Finish(s)
      BY <1>3 DEF Commit, Abandon, CommitRenewal, CommitReversal, CommitSettlement,
             CommitUpdate, CommitStatus, CommitReward
  <2> QED BY <2>1, FinishStands
<1>4. CASE Operator /\ WithinBounds
    BY <1>4, OperatorStands
<1> QED BY <1>1, <1>2, <1>3, <1>4 DEF Next

LEMMA SInvHolds == Spec => []SInv
<1> QED BY InitHasSInv, NextKeepsSInv, PTL DEF Spec

(***************************************************************************)
(* What a step may do to the cycle of an active reference.                 *)
(***************************************************************************)
LEMMA SameRowsPayNothing ==
    UNCHANGED <<reference, accounts>> => (OnPaidCycle' => OnPaidCycle)
<1> QED BY DEF OnPaidCycle, SameCycle

LEMMA PaidCycleIs ==
    /\ OnPaidCycle <=> reference.status = "ATIVO" /\ ~NoPaid(accounts, reference.due)
    /\ OnPaidCycle' <=> reference'.status = "ATIVO" /\ ~NoPaid(accounts', reference'.due)
<1> QED BY DEF OnPaidCycle, NoPaid

LEMMA StepIsCharged ==
    ASSUME SInv, [Next]_vars, OneAtATime \/ "updateReference" \notin Requests,
           reference'.status = "ATIVO", Before(reference.due, reference'.due)
    PROVE  SameCycle(accounts', reference'.due) # {}
<1>1. /\ IInv /\ reference \in References /\ reference.due.month \in Nat
      /\ reference.due.day \in Nat
    BY ReferenceIs DEF SInv, IInv, TypeOK, Contracts
<1>2. reference'.due # reference.due /\ ~(reference'.due.month < reference.due.month)
  <2>1. reference' \in References
      BY <1>1, NextKeepsInvariant DEF IInv, TypeOK
  <2>2. reference'.due.month \in Nat /\ reference'.due.day \in Nat
      BY <2>1, ReferenceIs DEF Contracts
  <2> QED BY <1>1, <2>2 DEF Before
<1>3. PICK s \in Sessions : Commit(s) /\ WithinBounds
  <2>1. ~UNCHANGED vars
      BY <1>2 DEF vars
  <2>2. \A s \in Sessions : ~Read(s) /\ ~Abandon(s)
      BY <1>2 DEF Read, Abandon, ReadRenewal, ReadReversal, MarkPaid, ReadUpdate, ReadStatus,
             ReadReward, RowsUnchanged
  <2>3. ~Operator
      BY <1>2 DEF Operator, CancelReceivable, CreateReactivation, GenerateReceivable, UpdatePlan
  <2> QED BY <2>1, <2>2, <2>3 DEF Next
<1>4. CASE Charged
    BY <1>4 DEF Charged
<1>5. CASE CommitUpdate(s) /\ ~Charged
  <2>1. session[s].seen.status # "ATIVO" /\ reference'.status = reference.status
      BY <1>1, <1>3, <1>5, UpdateIsCharged
  <2>2. "updateReference" \in Requests
      BY <1>1, <1>5 DEF CommitUpdate, IInv, Fits
  <2>3. session[s].seen = reference
      BY <1>5, <2>2 DEF SInv, OInv, Stands, CommitUpdate
  <2> QED BY <2>1, <2>3
<1>6. ~CommitReversal(s)
    BY <1>1, <1>2, ReversalGoesBack
<1>7. CASE ~Charged /\ ~CommitUpdate(s)
  <2>1. CASE CommitSettlement(s)
      BY <1>1, <1>2, <1>3, <1>7, <2>1, SettlementIsCharged
  <2>2. CASE CommitStatus(s)
      BY <1>1, <1>2, <1>3, <1>7, <2>2, StatusIsCharged
  <2> QED BY <1>1, <1>3, <1>6, <1>7, <2>1, <2>2, RenewalIsCharged, RewardIsCharged DEF Commit
<1> QED BY <1>4, <1>5, <1>7

LEMMA StepEntersNoPaidCycle ==
    ASSUME SInv, OneAtATime, [Next]_vars, OnPaidCycle'
    PROVE  OnPaidCycle \/ ActivatedByHand
<1>1. IInv /\ OInv /\ TypeOK
    BY DEF SInv, IInv
<1>2. CASE reference' = reference /\ NoneIsPaid(accounts, accounts')
    BY <1>2, PaidCycleIs, NoneIsPaidKeeps
<1>3. CASE UNCHANGED <<reference, accounts>>
    BY <1>3, SameRowsPayNothing
<1>4. ~Charged
    BY PaidCycleIs DEF Charged
<1>5. ASSUME NEW s \in Sessions, CommitReversal(s) PROVE FALSE
  <2>1. NoPaid(accounts, reference'.due)
      BY <1>1, <1>5, ReversalGoesBack DEF OInv, Stands, CommitReversal
  <2>2. NoPaid(accounts', reference'.due)
      BY <1>1, <1>5, <2>1, ReversalGoesBack, NoneIsPaidKeeps
  <2> QED BY <2>2, PaidCycleIs
<1>6. ASSUME NEW s \in Sessions, CommitSettlement(s), WithinBounds PROVE OnPaidCycle
  <2>1. PICK k \in DOMAIN accounts : k = session[s].account /\ ~Advances(k, session[s].seen)
                                     /\ reference' = reference /\ accounts' = PaidAccounts(k)
      BY <1>1, <1>4, <1>6, SettlementIsCharged
  <2>2. session[s].seen = reference
      BY <1>1, <1>6 DEF OInv, Stands, CommitSettlement
  <2>3. PICK rows : rows = accounts'
      OBVIOUS
  <2>4. /\ DOMAIN rows = DOMAIN accounts
        /\ \A j \in DOMAIN accounts : /\ rows[j].purpose = accounts[j].purpose
                                      /\ rows[j].due = accounts[j].due
        /\ \A j \in DOMAIN accounts : j # k => rows[j] = accounts[j]
      BY <1>1, <2>1, <2>3, PaidAccountsAre DEF IInv
  <2>5. PICK j \in DOMAIN rows : rows[j].purpose = "RENEWAL" /\ rows[j].due = reference.due
                                 /\ rows[j].status = "PAGO"
      BY <2>1, <2>3 DEF OnPaidCycle, SameCycle
  <2>6. reference.status = "ATIVO"
      BY <2>1 DEF OnPaidCycle
  <2>7. j # k
      BY <2>1, <2>2, <2>4, <2>5, <2>6 DEF Advances
  <2> QED BY <2>4, <2>5, <2>6, <2>7 DEF OnPaidCycle, SameCycle
<1>7. ASSUME NEW s \in Sessions, CommitUpdate(s), WithinBounds PROVE FALSE
  <2>1. session[s].seen.status # "ATIVO" /\ reference'.status = reference.status
      BY <1>1, <1>4, <1>7, UpdateIsCharged
  <2>2. session[s].seen = reference
      BY <1>1, <1>7 DEF OInv, Stands, CommitUpdate
  <2> QED BY <2>1, <2>2, PaidCycleIs
<1>8. ASSUME NEW s \in Sessions, CommitStatus(s), WithinBounds PROVE ActivatedByHand
  <2>1. /\ session[s].op = "updateReferenceStatus" /\ session[s].seen \in References
        /\ session[s].seen = reference /\ session[s].seen.status # session[s].to
        /\ ~(session[s].seen.status = "CANCELADO" /\ session[s].to = "ATIVO")
      BY <1>1, <1>8, SessionShape DEF OInv, Stands, CommitStatus, TypeOK
  <2>2. /\ ~(session[s].seen.status = "INATIVO" /\ session[s].to = "ATIVO")
        /\ accounts' = accounts
        /\ reference'.due = reference.due /\ reference'.status = session[s].to
      BY <1>1, <1>4, <1>8, StatusIsCharged
  <2>3. session[s].to = "ATIVO"
      BY <2>2, PaidCycleIs
  <2>4. session[s].seen.status = "PENDENTE_PAGAMENTO"
      BY <2>1, <2>2, <2>3 DEF References, ClientStatus
  <2> QED BY <2>1, <2>2, <2>3, <2>4 DEF ActivatedByHand
<1>9. ASSUME NEW s \in Sessions, Commit(s), WithinBounds PROVE OnPaidCycle \/ ActivatedByHand
    BY <1>1, <1>4, <1>5, <1>6, <1>7, <1>8, <1>9, RenewalIsCharged, RewardIsCharged DEF Commit
<1>10. ASSUME NEW s \in Sessions, Read(s) \/ Abandon(s) PROVE UNCHANGED <<reference, accounts>>
    BY <1>10 DEF Read, Abandon, ReadRenewal, ReadReversal, MarkPaid, ReadUpdate, ReadStatus,
           ReadReward, RowsUnchanged
<1>11. CASE Operator /\ WithinBounds
    BY <1>1, <1>2, <1>11, OperatorPaysNothing
<1>12. CASE UNCHANGED vars
    BY <1>3, <1>12 DEF vars
<1> QED BY <1>3, <1>9, <1>10, <1>11, <1>12 DEF Next

\* A step that moves an active reference to a later due date leaves it with the
\* account of that cycle: for any operations at the same time unless one of
\* them edits the contract, and for any operation when they come one at a time.
THEOREM AdvancesAreCharged ==
    OneAtATime \/ "updateReference" \notin Requests => (Spec => AdvanceIsCharged)
<1> SUFFICES ASSUME OneAtATime \/ "updateReference" \notin Requests
             PROVE  Spec => AdvanceIsCharged
    OBVIOUS
<1>1. SInv /\ [Next]_vars =>
          [(reference'.status = "ATIVO" /\ Before(reference.due, reference'.due))
               => SameCycle(accounts', reference'.due) # {}]_vars
    BY StepIsCharged
<1> QED BY <1>1, SInvHolds, PTL DEF Spec, AdvanceIsCharged

\* One operation at a time: no payment, renewal, reversal, edit, free month or
\* return ends on a cycle that has been paid, after any history.
THEOREM PaidCyclesAreNotEntered == OneAtATime => (Spec => PaidCycleIsNotEntered)
<1> SUFFICES ASSUME OneAtATime PROVE Spec => PaidCycleIsNotEntered
    OBVIOUS
<1>1. SInv /\ [Next]_vars => [OnPaidCycle' => OnPaidCycle \/ ActivatedByHand]_vars
    BY StepEntersNoPaidCycle
<1> QED BY <1>1, SInvHolds, PTL DEF Spec, PaidCycleIsNotEntered
==============================================================================
