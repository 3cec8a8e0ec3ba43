--------------------------- MODULE BillingDispatch ---------------------------
(***************************************************************************)
(* Automatic billing of one client (billing.service.ts): reconcile         *)
(* schedules one MessageDispatch for each day on which accounts of the     *)
(* client are to be charged, and processDue, or the operator's sendNow,    *)
(* acquires it, validates it again and sends it through the provider.      *)
(*                                                                         *)
(* Meanwhile accounts are paid or canceled and references change their     *)
(* cycle or their status, each in a transaction that also cancels the      *)
(* dispatches it makes obsolete.  The cycle is that of ReferenceCycle,     *)
(* reduced to the day its account is to be charged on.  Templates are      *)
(* active and the client's phone is valid, so that reconcile's             *)
(* cancelNoLongerEligibleDispatches finds nothing to cancel.               *)
(***************************************************************************)
EXTENDS Naturals, FiniteSets

CONSTANTS
    References,   \* references of the client
    FirstDays,    \* days the first accounts are to be charged on
    LastDay,      \* last day that is modelled (bound)
    LastTime,     \* last time that is modelled (bound)
    Period,       \* days from one charge of a reference to the next
    MaxCycles,    \* cycles of a reference (bound)
    MaxAttempts,  \* maxAttempts
    MaxChanges,   \* what the operator and the client do meanwhile (bound)
    Workers       \* requests and scheduler ticks in progress at the same time

ASSUME ReferencesAssumption == IsFiniteSet(References)
ASSUME BoundsAssumption ==
    LastDay \in Nat /\ Period \in Nat \ {0} /\ MaxCycles \in Nat /\ MaxAttempts \in Nat \ {0}
    /\ MaxChanges \in Nat /\ FirstDays \subseteq 0 .. LastDay
    /\ LastTime \in 0 .. 2 * LastDay + 1

VARIABLES
    clock,      \* half days: before and after the hour of sending
    references, \* the client's references, each with its current cycle
    dispatch,   \* the dispatch whose idempotency key names the day
    session,    \* what each worker is doing
    told,       \* history: the dispatches the provider may have delivered
                \* since the operator or a new cycle asked for them
    changes     \* number of changes so far

vars == <<clock, references, dispatch, session, told, changes>>

Days == 0 .. LastDay
Times == 0 .. 2 * LastDay + 1

\* The hour of sending of a day, and the day of a time.
SendTime(day) == 2 * day + 1
DayOf(time) == time \div 2

\* The account of a cycle of a reference: what a MessageDispatchItem points to.
Accounts == References \X (0 .. MaxCycles)

DispatchStatus == {"SCHEDULED", "PROCESSING", "SENT", "FAILED", "CANCELED", "IGNORED"}

\* UNCERTAIN stands for nonRetryableProviderErrorCodes, CYCLE_CHANGED for the
\* codes of a cancellation that a later reconcile undoes, OTHER for the rest.
ErrorCodes == {"none", "PROVIDER_ERROR", "UNCERTAIN", "CYCLE_CHANGED", "OTHER"}

NoDispatch == [status |-> "none", items |-> {}, scheduledFor |-> 0,
               waits |-> FALSE, attempts |-> 0, error |-> "none"]

Dispatch ==
    [status : DispatchStatus \cup {"none"}, items : SUBSET Accounts, scheduledFor : Times,
     waits : BOOLEAN, attempts : 0 .. MaxAttempts, error : ErrorCodes]

Idle == [job |-> "idle"]

\* What a request keeps between its steps: reconcile the groups it has read, a
\* sender what it has acquired, the message it has composed and the answer.
Reconciling ==
    [job : {"reconcile"}, at : {"find", "write"}, now : Times, day : Days,
     found : {"future", "canceled", "nothing"}, groups : [Days -> SUBSET Accounts],
     left : SUBSET Days]
Sending ==
    [job : {"processDue", "sendNow"}, at : {"acquire", "refresh", "check", "send", "record"},
     day : Days, now : Times, settled : SUBSET Accounts, body : SUBSET Accounts,
     attempts : 0 .. MaxAttempts, answer : {"none", "confirmed", "unknown", "refused"}]
SessionState == {Idle} \cup Reconciling \cup Sending

TypeOK ==
    /\ clock \in Times
    /\ references \in [References ->
           [status : {"ATIVO", "INATIVO"}, account : {"PENDENTE", "PAGO", "CANCELADO"},
            cycle : 0 .. MaxCycles, day : 0 .. LastDay + Period]]
    /\ dispatch \in [Days -> Dispatch]
    /\ session \in [Workers -> SessionState]
    /\ changes \in 0 .. MaxChanges
    /\ told \in [Days -> {"nothing", "delivered"}]

(***************************************************************************)
(* Accounts to charge.                                                     *)
(***************************************************************************)
\* The account <<r, c>> waits for payment, of a reference that is active.
Chargeable(account) ==
    LET r == references[account[1]]
    IN r.cycle = account[2] /\ r.account = "PENDENTE" /\ r.status = "ATIVO"

CanceledAccount(a) ==
    references[a[1]].cycle = a[2] /\ references[a[1]].account = "CANCELADO"

Settled(a) ==
    \/ a[2] < references[a[1]].cycle
    \/ a[2] = references[a[1]].cycle /\ references[a[1]].account # "PENDENTE"

Current(r) == <<r, references[r].cycle>>

\* What reconcile groups under the key of the day.
Group(day) ==
    {Current(r) : r \in {x \in References : references[x].day = day /\ Chargeable(Current(x))}}

(***************************************************************************)
(* Steps of workers.                                                       *)
(***************************************************************************)
Finish(w) == session' = [session EXCEPT ![w] = Idle]
At(w, step) == session[w].job \in {"processDue", "sendNow"} /\ session[w].at = step
GoTo(w, step) == session' = [session EXCEPT ![w].at = step]

SetDispatch(day, row) == dispatch' = [dispatch EXCEPT ![day] = row]

Retained == UNCHANGED <<clock, references, changes>>

\* The process dies: what it has acquired stays PROCESSING.
Crash(w) ==
    /\ session[w].job # "idle"
    /\ Finish(w)
    /\ Retained /\ UNCHANGED <<dispatch, told>>

(***************************************************************************)
(* reconcile reads the references once, then writes day after day.         *)
(***************************************************************************)
StartReconcile(w) ==
    /\ session[w].job = "idle"
    /\ \E day \in Days : Group(day) # {}
    /\ session' = [session EXCEPT ![w] =
           [job |-> "reconcile", at |-> "find", now |-> clock,
            day |-> 0, found |-> "nothing", groups |-> [day \in Days |-> Group(day)],
            left |-> {day \in Days : Group(day) # {}}]]
    /\ Retained /\ UNCHANGED <<dispatch, told>>

\* cancelObsoleteFutureDispatches
Obsolete(day) ==
    {d \in Days \ {day} : dispatch[d].status = "SCHEDULED"
                          /\ DayOf(dispatch[d].scheduledFor) = day}

\* What rescheduleExistingFutureDispatch looks for: a dispatch that is still
\* to come, or one that was canceled when the cycle changed.
Found(row, now) ==
    CASE row.status = "SCHEDULED" /\ row.scheduledFor > now -> "future"
      [] row.status = "CANCELED" /\ row.error = "CYCLE_CHANGED" -> "canceled"
      [] OTHER -> "nothing"

FindGroup(w) ==
    /\ session[w].job = "reconcile" /\ session[w].at = "find"
    /\ \E day \in session[w].left :
        /\ \A d \in session[w].left : day <= d
        /\ dispatch' = [d \in Days |->
               IF d \in Obsolete(day)
               THEN [dispatch[d] EXCEPT !.status = "CANCELED", !.error = "OTHER"]
               ELSE dispatch[d]]
        /\ session' = [session EXCEPT ![w].at = "write", ![w].day = day,
                                      ![w].found = Found(dispatch'[day], session[w].now)]
    /\ Retained /\ UNCHANGED told

Scheduled(day, items, attempts) ==
    [status |-> "SCHEDULED", items |-> items, scheduledFor |-> SendTime(day),
     waits |-> FALSE, attempts |-> attempts, error |-> "none"]

\* The row found is written as it was found; otherwise the dispatch is
\* created, unless its key exists.
WriteGroup(w) ==
    LET day == session[w].day
        found == session[w].found
        items == session[w].groups[day]
        row == dispatch[day]
        left == session[w].left \ {day}
    IN /\ session[w].job = "reconcile" /\ session[w].at = "write"
       /\ dispatch' = [dispatch EXCEPT ![day] =
              CASE found = "future" -> Scheduled(day, items, row.attempts)
                [] found = "canceled" -> Scheduled(day, items, 0)
                [] found = "nothing" /\ row.status = "none" -> Scheduled(day, items, 0)
                [] found = "nothing" /\ row.status # "none" -> row]
       /\ told' = [told EXCEPT ![day] = IF found = "canceled" THEN "nothing" ELSE @]
       /\ IF left = {} THEN Finish(w)
          ELSE session' = [session EXCEPT ![w].at = "find", ![w].left = left,
                                             ![w].groups[day] = {}]
       /\ Retained

(***************************************************************************)
(* processDue takes one dispatch that is due; sendNow makes one due.       *)
(***************************************************************************)
\* Mutant: a dispatch whose outcome is not known is taken again.
RetryableAny(row) == row.attempts < MaxAttempts

Retryable(row) == row.attempts < MaxAttempts /\ row.error # "UNCERTAIN"

Waiting(row) == row.status \in {"SCHEDULED", "FAILED"}
Due(row, now) == row.scheduledFor <= now /\ ~row.waits

Sender(job, day) ==
    [job |-> job, at |-> "acquire", day |-> day, now |-> clock,
     settled |-> {}, body |-> {}, attempts |-> 0, answer |-> "none"]

\* The scheduler takes dispatches of today only, the endpoint any.
SelectDue(w, automatic) ==
    LET due == {d \in Days : /\ Waiting(dispatch[d]) /\ Retryable(dispatch[d])
                             /\ Due(dispatch[d], clock)
                             /\ automatic => DayOf(dispatch[d].scheduledFor) = DayOf(clock)}
    IN /\ session[w].job = "idle"
       /\ \E day \in due :
           /\ \A d \in due : dispatch[day].scheduledFor <= dispatch[d].scheduledFor
           /\ session' = [session EXCEPT ![w] = Sender("processDue", day)]
       /\ Retained /\ UNCHANGED <<dispatch, told>>

SendNow(w, day) ==
    /\ session[w].job = "idle" /\ Waiting(dispatch[day])
    /\ dispatch' = [dispatch EXCEPT ![day].scheduledFor = clock, ![day].waits = FALSE]
    /\ session' = [session EXCEPT ![w] = Sender("sendNow", day)]
    /\ told' = [told EXCEPT ![day] = "nothing"]
    /\ changes < MaxChanges /\ changes' = changes + 1
    /\ UNCHANGED <<clock, references>>

\* Mutant: attempts are not limited.
CanAcquireAlways(row, now) == Waiting(row) /\ Due(row, now)

\* The conditional update of acquireDispatch.
CanAcquire(row, now) ==
    Waiting(row) /\ Due(row, now) /\ row.attempts < MaxAttempts

Acquire(w) ==
    LET day == session[w].day
        row == dispatch[day]
    IN /\ At(w, "acquire")
       /\ IF CanAcquire(row, session[w].now)
          THEN /\ SetDispatch(day, [row EXCEPT !.status = "PROCESSING", !.error = "none",
                                               !.attempts = @ + 1])
               /\ session' = [session EXCEPT ![w].at = "refresh", ![w].now = 0,
                      ![w].settled = {a \in Accounts : Settled(a)}]
          ELSE Finish(w) /\ UNCHANGED dispatch
       /\ Retained /\ UNCHANGED told

(***************************************************************************)
(* processAcquired validates the dispatch twice, then calls the provider.  *)
(***************************************************************************)
\* Drop(w, canceled): the dispatch is CANCELED or IGNORED, whatever it is by then.
Drop(w, canceled) ==
    /\ dispatch' = [dispatch EXCEPT ![session[w].day].error = "OTHER",
           ![session[w].day].status = IF canceled THEN "CANCELED" ELSE "IGNORED"]
    /\ Finish(w)

\* Mutant: the items stay while one of them can be charged.
ActiveItemsAll(items) == IF \E a \in items : Chargeable(a) THEN items ELSE {}

ActiveItems(items) == {a \in items : Chargeable(a)}

\* refreshDispatchItemsBeforeSend keeps the items that can still be charged
\* and are still to be charged on the day the key names.
Refresh(w) ==
    LET day == session[w].day
        row == dispatch[day]
        items == ActiveItems(row.items)
    IN /\ At(w, "refresh")
       /\ IF items = {} THEN Drop(w, \A a \in row.items : CanceledAccount(a))
          ELSE IF \E a \in items : references[a[1]].day # day THEN Drop(w, FALSE)
          ELSE IF row.status # "PROCESSING" THEN
               /\ SetDispatch(day, [row EXCEPT !.items = items, !.error = "OTHER",
                                               !.status = "IGNORED"])
               /\ Finish(w)
          ELSE /\ SetDispatch(day, [row EXCEPT !.items = items])
               /\ GoTo(w, "check")
       /\ Retained /\ UNCHANGED told

\* markRetry sets the time of the next attempt, but not of the last one.
Retried(row, attempts) ==
    [row EXCEPT !.status = "FAILED", !.error = "PROVIDER_ERROR",
                !.waits = attempts + 1 < MaxAttempts]

\* No connection is operational, or the PIX of the message cannot be prepared.
\* A PIX whose creation has an unknown outcome sets no time to wait for.
Unprepared(w) ==
    LET day == session[w].day
        failed == Retried(dispatch[day], dispatch[day].attempts)
    IN /\ At(w, "check")
       /\ \E waits \in {failed.waits, FALSE} :
              SetDispatch(day, [failed EXCEPT !.waits = waits])
       /\ Finish(w)
       /\ Retained /\ UNCHANGED told

\* The last look at the dispatch: its status and the account of its own row,
\* the first of its items.
Check(w) ==
    LET row == dispatch[session[w].day]
    IN /\ At(w, "check")
       /\ \E first \in row.items :
          IF row.status = "PROCESSING" /\ Chargeable(first)
          THEN /\ session' = [session EXCEPT ![w].at = "send", ![w].body = row.items,
                                             ![w].attempts = row.attempts]
               /\ UNCHANGED dispatch
          ELSE Drop(w, /\ row.status = "PROCESSING" /\ CanceledAccount(first)
                       /\ references[first[1]].status = "ATIVO")
       /\ Retained /\ UNCHANGED told

\* The provider confirms the message, leaves its outcome unknown (no answer in
\* time, no identifier), or refuses it.
Send(w) ==
    /\ At(w, "send")
    /\ \E answer \in {"confirmed", "unknown", "refused"} :
        /\ session' = [session EXCEPT ![w].at = "record", ![w].answer = answer]
        /\ told' = [told EXCEPT ![session[w].day] =
               IF answer = "refused" THEN @ ELSE "delivered"]
    /\ Retained /\ UNCHANGED dispatch

Uncertain(row) ==
    [row EXCEPT !.status = "FAILED", !.error = "UNCERTAIN", !.waits = FALSE]

\* A confirmed message whose row cannot be updated is uncertain too.
Record(w) ==
    LET day == session[w].day
        row == dispatch[day]
    IN /\ At(w, "record")
       /\ \/ /\ session[w].answer = "confirmed"
             /\ SetDispatch(day, [row EXCEPT !.status = "SENT", !.error = "none",
                                             !.waits = FALSE])
          \/ session[w].answer \in {"confirmed", "unknown"} /\ SetDispatch(day, Uncertain(row))
          \/ /\ session[w].answer = "refused"
             /\ SetDispatch(day, Retried(row, session[w].attempts))
       /\ Finish(w)
       /\ Retained /\ UNCHANGED told

(***************************************************************************)
(* Meanwhile.  Each operation cancels the dispatches that wait to charge   *)
(* the account, or any account of the reference.                           *)
(***************************************************************************)
Canceled(r, code) ==
    [d \in Days |->
        IF Waiting(dispatch[d]) /\ \E a \in dispatch[d].items : a[1] = r
        THEN [dispatch[d] EXCEPT !.status = "CANCELED", !.error = code, !.waits = FALSE]
        ELSE dispatch[d]]

\* A payment moves an active reference to its next cycle.
PayReceivable(r) ==
    /\ references[r].account = "PENDENTE"
    /\ \/ /\ references[r].status = "ATIVO"
          /\ references[r].cycle < MaxCycles /\ references[r].day <= LastDay
          /\ references' = [references EXCEPT ![r].cycle = @ + 1, ![r].day = @ + Period]
       \/ /\ references[r].status = "INATIVO"
          /\ references' = [references EXCEPT ![r].account = "PAGO"]
    /\ dispatch' = Canceled(r, "OTHER")

CancelReceivable(r) ==
    /\ references[r].account = "PENDENTE"
    /\ references' = [references EXCEPT ![r].account = "CANCELADO"]
    /\ dispatch' = Canceled(r, "OTHER")

\* updateReference with a value, a plan or a due date, even the same.
UpdateReference(r, day) ==
    /\ references[r].status = "ATIVO" /\ references[r].account = "PENDENTE"
    /\ references' = [references EXCEPT ![r].day = day]
    /\ dispatch' = Canceled(r, "CYCLE_CHANGED")

InactivateReference(r) ==
    /\ references[r].status = "ATIVO"
    /\ references' = [references EXCEPT ![r].status = "INATIVO"]
    /\ dispatch' = Canceled(r, "OTHER")

ActivateReference(r) ==
    /\ references[r].status = "INATIVO" /\ references[r].account = "PENDENTE"
    /\ references' = [references EXCEPT ![r].status = "ATIVO"]
    /\ UNCHANGED dispatch

Operator ==
    /\ \E r \in References :
        \/ PayReceivable(r) \/ CancelReceivable(r)
        \/ \E day \in Days : UpdateReference(r, day)
        \/ InactivateReference(r) \/ ActivateReference(r)
    /\ changes < MaxChanges /\ changes' = changes + 1
    /\ UNCHANGED <<clock, session, told>>

Tick ==
    /\ clock < LastTime /\ clock' = clock + 1
    /\ UNCHANGED <<references, dispatch, session, told, changes>>

\* retryDelayMinutes have passed.
RetryDelay(day) ==
    /\ dispatch[day].waits
    /\ dispatch' = [dispatch EXCEPT ![day].waits = FALSE]
    /\ UNCHANGED <<clock, references, session, told, changes>>

Init ==
    /\ clock = 0
    /\ references \in [References ->
           [status : {"ATIVO"}, account : {"PENDENTE"}, cycle : {0}, day : FirstDays]]
    /\ dispatch = [day \in Days |-> NoDispatch]
    /\ session = [w \in Workers |-> Idle]
    /\ changes = 0
    /\ told = [day \in Days |-> "nothing"]

Worker(w) ==
    \/ StartReconcile(w) \/ FindGroup(w) \/ WriteGroup(w)
    \/ \E automatic \in BOOLEAN : SelectDue(w, automatic)
    \/ \E day \in Days : SendNow(w, day)
    \/ Acquire(w) \/ Refresh(w) \/ Unprepared(w) \/ Check(w) \/ Send(w) \/ Record(w)
    \/ Crash(w)

Next ==
    \/ \E w \in Workers : Worker(w)
    \/ Operator \/ Tick
    \/ \E day \in Days : RetryDelay(day)

Spec == Init /\ [][Next]_vars

(***************************************************************************)
(* Properties.                                                             *)
(***************************************************************************)
Sends(w) == At(w, "send") /\ session'[w].job = session[w].job /\ session'[w].at = "record"

\* A dispatch the provider has confirmed, or has left without an answer, is
\* not sent again by itself: no retry, restart or reconcile repeats it until
\* the operator sends it now or its cycle is edited.
NoBlindRetry ==
    [][\A w \in Workers : Sends(w) /\ session[w].job = "processDue" =>
           told[session[w].day] # "delivered"]_vars

\* An account that was paid or canceled when the dispatch was acquired is not
\* in the message that is sent, whatever items the dispatch had.
SettledIsNotCharged ==
    [][\A w \in Workers : Sends(w) => session[w].body \cap session[w].settled = {}]_vars
=============================================================================
