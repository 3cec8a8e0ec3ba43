----------------------- MODULE BillingDispatchProofs -----------------------
(***************************************************************************)
(* Proofs about the dispatches of one client, for any references, days,    *)
(* attempts and changes.  The state keeps its shape however many requests  *)
(* run; what is sent is right when they run one at a time, each of them    *)
(* free to die between any two of its steps: a stale write of a concurrent *)
(* reconcile breaks both promises (rescheduleExistingFutureDispatch).      *)
(***************************************************************************)
EXTENDS BillingDispatch, TLAPS

(***************************************************************************)
(* Shapes.                                                                 *)
(***************************************************************************)
LEMMA TimesAreNumbers ==
    /\ Times \subseteq Nat /\ Days \subseteq Nat /\ 0 \in Times
    /\ \A day \in Days : SendTime(day) \in Times
<1> QED BY BoundsAssumption DEF Times, Days, SendTime

\* What a request at one of its steps has kept.
LEMMA SessionShape ==
    ASSUME session \in [Workers -> SessionState], NEW w \in Workers
    PROVE  /\ session[w].job = "reconcile" => session[w] \in Reconciling
           /\ session[w].job \in {"processDue", "sendNow"} => session[w] \in Sending
           /\ \A step : At(w, step) => session[w] \in Sending
<1> QED BY DEF SessionState, Idle, Reconciling, Sending, At

\* A request that goes on keeps its shape, and leaves the others alone.
LEMMA SessionMoves ==
    ASSUME session \in [Workers -> SessionState], NEW w \in Workers, NEW s \in SessionState,
           session' = [session EXCEPT ![w] = s]
    PROVE  session' \in [Workers -> SessionState]
<1> QED OBVIOUS

LEMMA DispatchMoves ==
    ASSUME dispatch \in [Days -> Dispatch], NEW day \in Days, NEW x \in Dispatch,
           SetDispatch(day, x)
    PROVE  dispatch' \in [Days -> Dispatch]
<1> QED BY DEF SetDispatch

LEMMA IdleKeepsShape ==
    ASSUME session \in [Workers -> SessionState], NEW w \in Workers, Finish(w)
    PROVE  session' \in [Workers -> SessionState]
<1> QED BY DEF Finish, SessionState

(***************************************************************************)
(* Each step keeps the type invariant.                                     *)
(***************************************************************************)
LEMMA InitIsTyped == Init => TypeOK
<1> SUFFICES ASSUME Init PROVE TypeOK
    OBVIOUS
<1>1. /\ clock \in Times /\ changes \in 0 .. MaxChanges
      /\ told \in [Days -> {"nothing", "delivered"}]
    BY BoundsAssumption, TimesAreNumbers DEF Init
<1>2. references \in [References ->
           [status : {"ATIVO", "INATIVO"}, account : {"PENDENTE", "PAGO", "CANCELADO"},
            cycle : 0 .. MaxCycles, day : 0 .. LastDay + Period]]
  <2>1. 0 \in 0 .. MaxCycles /\ FirstDays \subseteq 0 .. LastDay + Period
      BY BoundsAssumption
  <2> QED BY <2>1 DEF Init
<1>3. NoDispatch \in Dispatch
    BY BoundsAssumption, TimesAreNumbers DEF NoDispatch, Dispatch, ErrorCodes
<1>4. dispatch \in [Days -> Dispatch] /\ session \in [Workers -> SessionState]
    BY <1>3 DEF Init, SessionState
<1> QED BY <1>1, <1>2, <1>4 DEF TypeOK

LEMMA CrashIsTyped ==
    ASSUME TypeOK, NEW w \in Workers, Crash(w)
    PROVE  TypeOK'
<1> QED BY IdleKeepsShape DEF TypeOK, Crash, Retained

LEMMA GroupIsOfAccounts ==
    ASSUME TypeOK, NEW day \in Days
    PROVE  Group(day) \subseteq Accounts
<1>1. \A r \in References : references[r].cycle \in 0 .. MaxCycles
    BY DEF TypeOK
<1>2. \A r \in References : Current(r) \in Accounts
    BY <1>1 DEF Current, Accounts
<1> QED BY <1>2 DEF Group

LEMMA StartReconcileIsTyped ==
    ASSUME TypeOK, NEW w \in Workers, StartReconcile(w)
    PROVE  TypeOK'
<1> DEFINE s == [job |-> "reconcile", at |-> "find", now |-> clock,
                 day |-> 0, found |-> "nothing", groups |-> [day \in Days |-> Group(day)],
                 left |-> {day \in Days : Group(day) # {}}]
<1>1. 0 \in Days /\ [day \in Days |-> Group(day)] \in [Days -> SUBSET Accounts]
    BY GroupIsOfAccounts, BoundsAssumption DEF Days
<1>2. s \in SessionState
    BY <1>1 DEF TypeOK, SessionState, Reconciling
<1>3. session' \in [Workers -> SessionState]
    BY <1>2, SessionMoves DEF TypeOK, StartReconcile
<1> QED BY <1>3 DEF TypeOK, StartReconcile, Retained

LEMMA FindGroupIsTyped ==
    ASSUME TypeOK, NEW w \in Workers, FindGroup(w)
    PROVE  TypeOK'
<1>1. session[w] \in Reconciling
    BY SessionShape DEF TypeOK, FindGroup
<1>2. PICK day \in session[w].left :
          /\ dispatch' = [d \in Days |->
                 IF d \in Obsolete(day)
                 THEN [dispatch[d] EXCEPT !.status = "CANCELED", !.error = "OTHER"]
                 ELSE dispatch[d]]
          /\ session' = [session EXCEPT ![w].at = "write", ![w].day = day,
                                        ![w].found = Found(dispatch'[day], session[w].now)]
    BY DEF FindGroup
<1>3. day \in Days
    BY <1>1 DEF Reconciling
<1>4. dispatch' \in [Days -> Dispatch]
  <2>1. \A x \in Dispatch :
            [x EXCEPT !.status = "CANCELED", !.error = "OTHER"] \in Dispatch
      BY DEF Dispatch, DispatchStatus, ErrorCodes
  <2> QED BY <1>2, <2>1 DEF TypeOK
<1>5. Found(dispatch'[day], session[w].now) \in {"future", "canceled", "nothing"}
    BY DEF Found
<1>6. session' \in [Workers -> SessionState]
  <2> DEFINE found == Found(dispatch'[day], session[w].now)
             s == [session[w] EXCEPT !.at = "write", !.day = day, !.found = found]
  <2>1. s \in SessionState
      BY <1>1, <1>3, <1>5 DEF SessionState, Reconciling
  <2>2. session' = [session EXCEPT ![w] = s]
      BY <1>2, <1>1 DEF TypeOK, Reconciling
  <2> QED BY <2>1, <2>2, SessionMoves DEF TypeOK
<1> QED BY <1>4, <1>6 DEF TypeOK, FindGroup, Retained

LEMMA ScheduledIsTyped ==
    ASSUME NEW day \in Days, NEW items \in SUBSET Accounts, NEW n \in 0 .. MaxAttempts
    PROVE  Scheduled(day, items, n) \in Dispatch
<1> QED BY TimesAreNumbers DEF Scheduled, Dispatch, DispatchStatus, ErrorCodes

LEMMA WriteGroupIsTyped ==
    ASSUME TypeOK, NEW w \in Workers, WriteGroup(w)
    PROVE  TypeOK'
<1>1. session[w] \in Reconciling
    BY SessionShape DEF TypeOK, WriteGroup
<1> DEFINE day == session[w].day
           items == session[w].groups[day]
           left == session[w].left \ {day}
<1>2. /\ day \in Days /\ items \in SUBSET Accounts /\ left \in SUBSET Days
      /\ session[w].groups \in [Days -> SUBSET Accounts]
      /\ session[w].found \in {"future", "canceled", "nothing"}
    BY <1>1 DEF Reconciling
<1>3. dispatch[day] \in Dispatch /\ dispatch[day].attempts \in 0 .. MaxAttempts
    BY <1>2 DEF TypeOK, Dispatch
<1>4. 0 \in 0 .. MaxAttempts
    BY BoundsAssumption
<1>5. PICK x \in Dispatch : SetDispatch(day, x)
  <2>1. Scheduled(day, items, dispatch[day].attempts) \in Dispatch
      BY <1>2, <1>3, ScheduledIsTyped
  <2>2. Scheduled(day, items, 0) \in Dispatch
      BY <1>2, <1>4, ScheduledIsTyped
  <2>3. \/ SetDispatch(day, Scheduled(day, items, dispatch[day].attempts))
        \/ SetDispatch(day, Scheduled(day, items, 0))
        \/ SetDispatch(day, dispatch[day])
      BY <1>2 DEF WriteGroup, SetDispatch
  <2> QED BY <2>1, <2>2, <2>3, <1>3
<1>6. dispatch' \in [Days -> Dispatch]
    BY <1>2, <1>5, DispatchMoves DEF TypeOK
<1>7. session' \in [Workers -> SessionState]
  <2>1. CASE left = {}
      BY <2>1, IdleKeepsShape DEF WriteGroup, TypeOK
  <2>2. CASE left # {}
    <3> DEFINE g == [session[w].groups EXCEPT ![day] = {}]
               s == [session[w] EXCEPT !.at = "find", !.left = left, !.groups = g]
    <3>1. g \in [Days -> SUBSET Accounts]
        BY <1>2
    <3>2. session' = [session EXCEPT ![w].at = "find", ![w].left = left,
                                     ![w].groups[day] = {}]
        BY <2>2 DEF WriteGroup
    <3>3. session' = [session EXCEPT ![w] = s]
        BY <3>2, <1>1 DEF TypeOK, Reconciling
    <3>4. s \in SessionState
        BY <1>1, <1>2, <3>1 DEF SessionState, Reconciling
    <3> QED BY <3>3, <3>4, SessionMoves DEF TypeOK
  <2> QED BY <2>1, <2>2
<1>8. told' \in [Days -> {"nothing", "delivered"}]
    BY <1>2 DEF TypeOK, WriteGroup
<1> QED BY <1>6, <1>7, <1>8 DEF TypeOK, WriteGroup, Retained

LEMMA SenderIsTyped ==
    ASSUME clock \in Times, NEW job \in {"processDue", "sendNow"}, NEW day \in Days
    PROVE  Sender(job, day) \in SessionState
<1> QED BY BoundsAssumption DEF Sender, SessionState, Sending

LEMMA SelectDueIsTyped ==
    ASSUME TypeOK, NEW w \in Workers, NEW automatic \in BOOLEAN, SelectDue(w, automatic)
    PROVE  TypeOK'
<1>1. PICK day \in Days : session' = [session EXCEPT ![w] = Sender("processDue", day)]
    BY DEF SelectDue
<1>2. session' \in [Workers -> SessionState]
    BY <1>1, SenderIsTyped, SessionMoves DEF TypeOK
<1> QED BY <1>2 DEF TypeOK, SelectDue, Retained

LEMMA SendNowIsTyped ==
    ASSUME TypeOK, NEW w \in Workers, NEW day \in Days, SendNow(w, day)
    PROVE  TypeOK'
<1>1. session' \in [Workers -> SessionState]
    BY SenderIsTyped, SessionMoves DEF TypeOK, SendNow
<1>2. dispatch' \in [Days -> Dispatch]
  <2>1. [dispatch[day] EXCEPT !.scheduledFor = clock, !.waits = FALSE] \in Dispatch
      BY DEF TypeOK, Dispatch
  <2>2. SetDispatch(day, [dispatch[day] EXCEPT !.scheduledFor = clock, !.waits = FALSE])
      BY DEF SendNow, SetDispatch
  <2> QED BY <2>1, <2>2, DispatchMoves DEF TypeOK
<1>3. changes' \in 0 .. MaxChanges
    BY BoundsAssumption DEF TypeOK, SendNow
<1> QED BY <1>1, <1>2, <1>3 DEF TypeOK, SendNow

LEMMA AcquireIsTyped ==
    ASSUME TypeOK, NEW w \in Workers, Acquire(w)
    PROVE  TypeOK'
<1>1. session[w] \in Sending
    BY SessionShape DEF TypeOK, Acquire
<1> DEFINE day == session[w].day
           x == [dispatch[day] EXCEPT !.status = "PROCESSING", !.error = "none",
                                      !.attempts = @ + 1]
           settled == {a \in Accounts : Settled(a)}
           s == [session[w] EXCEPT !.at = "refresh", !.now = 0, !.settled = settled]
<1>2. day \in Days /\ dispatch[day] \in Dispatch
    BY <1>1 DEF TypeOK, Sending
<1>3. CASE CanAcquire(dispatch[day], session[w].now)
  <2>1. SetDispatch(day, x)
      BY <1>3 DEF Acquire
  <2>2. x \in Dispatch
    <3>1. dispatch[day].attempts + 1 \in 0 .. MaxAttempts
        BY <1>2, <1>3, BoundsAssumption DEF CanAcquire, Dispatch
    <3> QED BY <1>2, <3>1 DEF Dispatch, DispatchStatus, ErrorCodes
  <2>3. s \in SessionState
    <3> HIDE DEF settled
    <3>1. settled \in SUBSET Accounts
        BY DEF settled
    <3> QED BY <1>1, <3>1, TimesAreNumbers DEF SessionState, Sending
  <2>4. session' = [session EXCEPT ![w] = s]
      BY <1>1, <1>3 DEF TypeOK, Acquire, Sending
  <2>5. session' \in [Workers -> SessionState]
    <3> HIDE DEF s
    <3> QED BY <2>3, <2>4, SessionMoves DEF TypeOK
  <2> QED BY <1>2, <2>1, <2>2, <2>5, DispatchMoves DEF TypeOK, Acquire, Retained
<1>4. CASE ~CanAcquire(dispatch[day], session[w].now)
    BY <1>4, IdleKeepsShape DEF TypeOK, Acquire, Retained
<1> QED BY <1>3, <1>4

\* Dropped, retried or not, a dispatch keeps its shape.
LEMMA OutcomesAreTyped ==
    ASSUME NEW x \in Dispatch, NEW n \in 0 .. MaxAttempts
    PROVE  /\ Retried(x, n) \in Dispatch /\ Uncertain(x) \in Dispatch
           /\ [x EXCEPT !.status = "SENT", !.error = "none", !.waits = FALSE] \in Dispatch
           /\ \A status \in {"CANCELED", "IGNORED"} :
                  [x EXCEPT !.error = "OTHER", !.status = status] \in Dispatch
           /\ \A items \in SUBSET Accounts :
                  /\ [x EXCEPT !.items = items] \in Dispatch
                  /\ [x EXCEPT !.items = items, !.error = "OTHER", !.status = "IGNORED"]
                         \in Dispatch
           /\ \A waits \in BOOLEAN : [Retried(x, n) EXCEPT !.waits = waits] \in Dispatch
<1>1. \A y \in Dispatch, status \in DispatchStatus, error \in ErrorCodes, waits \in BOOLEAN :
          [y EXCEPT !.status = status, !.error = error, !.waits = waits] \in Dispatch
    BY DEF Dispatch
<1>2. Retried(x, n) \in Dispatch
  <2>1. (n + 1 < MaxAttempts) \in BOOLEAN
      OBVIOUS
  <2> QED BY <1>1, <2>1 DEF Retried, DispatchStatus, ErrorCodes
<1>3. /\ Uncertain(x) \in Dispatch
      /\ [x EXCEPT !.status = "SENT", !.error = "none", !.waits = FALSE] \in Dispatch
    BY <1>1 DEF Uncertain, DispatchStatus, ErrorCodes
<1>4. \A status \in {"CANCELED", "IGNORED"} :
          [x EXCEPT !.error = "OTHER", !.status = status] \in Dispatch
    BY DEF Dispatch, DispatchStatus, ErrorCodes
<1>5. \A items \in SUBSET Accounts :
          /\ [x EXCEPT !.items = items] \in Dispatch
          /\ [x EXCEPT !.items = items, !.error = "OTHER", !.status = "IGNORED"] \in Dispatch
    BY DEF Dispatch, DispatchStatus, ErrorCodes
<1>6. \A y \in Dispatch, waits \in BOOLEAN : [y EXCEPT !.waits = waits] \in Dispatch
    BY DEF Dispatch
<1> QED BY <1>2, <1>3, <1>4, <1>5, <1>6

LEMMA DropKeepsShape ==
    ASSUME dispatch \in [Days -> Dispatch], session \in [Workers -> SessionState],
           NEW w \in Workers, session[w].day \in Days, NEW canceled \in BOOLEAN, Drop(w, canceled)
    PROVE  /\ dispatch' \in [Days -> Dispatch] /\ session' \in [Workers -> SessionState]
           /\ \E status \in {"CANCELED", "IGNORED"} :
                  SetDispatch(session[w].day, [dispatch[session[w].day] EXCEPT
                                                   !.error = "OTHER", !.status = status])
<1> DEFINE day == session[w].day
           status == IF canceled THEN "CANCELED" ELSE "IGNORED"
           x == [dispatch[day] EXCEPT !.error = "OTHER", !.status = status]
<1>1. status \in {"CANCELED", "IGNORED"} /\ 0 \in 0 .. MaxAttempts
    BY BoundsAssumption
<1>2. SetDispatch(day, x)
    BY DEF Drop, SetDispatch
<1> HIDE DEF status
<1>3. x \in Dispatch
    BY <1>1, OutcomesAreTyped
<1>4. dispatch' \in [Days -> Dispatch]
    BY <1>2, <1>3, DispatchMoves
<1>5. session' \in [Workers -> SessionState]
    BY IdleKeepsShape DEF Drop
<1> QED BY <1>1, <1>2, <1>4, <1>5

LEMMA RefreshIsTyped ==
    ASSUME TypeOK, NEW w \in Workers, Refresh(w)
    PROVE  TypeOK'
<1>1. session[w] \in Sending
    BY SessionShape DEF TypeOK, Refresh
<1>2. PICK day \in Days : day = session[w].day
    BY <1>1 DEF Sending
<1>3. PICK x \in Dispatch : x = dispatch[day]
    BY DEF TypeOK
<1>4. PICK items \in SUBSET Accounts : items = ActiveItems(x.items)
    BY DEF ActiveItems, Dispatch
<1>5. 0 \in 0 .. MaxAttempts
    BY BoundsAssumption
<1>6. dispatch' \in [Days -> Dispatch] /\ session' \in [Workers -> SessionState]
  <2>1. CASE \E canceled \in BOOLEAN : Drop(w, canceled)
      BY <2>1, <1>2, DropKeepsShape DEF TypeOK
  <2>2. CASE /\ SetDispatch(day, [x EXCEPT !.items = items, !.error = "OTHER",
                                           !.status = "IGNORED"])
             /\ Finish(w)
      BY <2>2, <1>5, OutcomesAreTyped, DispatchMoves, IdleKeepsShape DEF TypeOK
  <2>3. CASE SetDispatch(day, [x EXCEPT !.items = items]) /\ GoTo(w, "check")
    <3>1. dispatch' \in [Days -> Dispatch]
        BY <2>3, <1>5, OutcomesAreTyped, DispatchMoves DEF TypeOK
    <3>2. session' = [session EXCEPT ![w] = [session[w] EXCEPT !.at = "check"]]
        BY <2>3, <1>1 DEF GoTo, TypeOK, Sending
    <3>3. [session[w] EXCEPT !.at = "check"] \in SessionState
        BY <1>1 DEF Sending, SessionState
    <3> QED BY <3>1, <3>2, <3>3, SessionMoves DEF TypeOK
  <2> QED BY <2>1, <2>2, <2>3, <1>2, <1>3, <1>4 DEF Refresh
<1> QED BY <1>6 DEF TypeOK, Refresh, Retained

LEMMA UnpreparedIsTyped ==
    ASSUME TypeOK, NEW w \in Workers, Unprepared(w)
    PROVE  TypeOK'
<1>1. session[w] \in Sending
    BY SessionShape DEF TypeOK, Unprepared
<1>2. PICK day \in Days : day = session[w].day
    BY <1>1 DEF Sending
<1>3. dispatch[day] \in Dispatch /\ dispatch[day].attempts \in 0 .. MaxAttempts
    BY DEF TypeOK, Dispatch
<1>4. PICK failed : failed = Retried(dispatch[day], dispatch[day].attempts)
    OBVIOUS
<1>5. failed \in Dispatch
    BY <1>3, <1>4, OutcomesAreTyped
<1>6. PICK waits \in BOOLEAN : SetDispatch(day, [failed EXCEPT !.waits = waits])
    BY <1>2, <1>4, <1>5 DEF Unprepared, Dispatch
<1>7. [failed EXCEPT !.waits = waits] \in Dispatch
    BY <1>3, <1>4, OutcomesAreTyped
<1> QED BY <1>6, <1>7, DispatchMoves, IdleKeepsShape DEF TypeOK, Unprepared, Retained

LEMMA CheckIsTyped ==
    ASSUME TypeOK, NEW w \in Workers, Check(w)
    PROVE  TypeOK'
<1>1. session[w] \in Sending
    BY SessionShape DEF TypeOK, Check
<1>2. PICK day \in Days : day = session[w].day
    BY <1>1 DEF Sending
<1>3. PICK x \in Dispatch : x = dispatch[day]
    BY DEF TypeOK
<1> DEFINE s == [session[w] EXCEPT !.at = "send", !.body = x.items, !.attempts = x.attempts]
<1>4. dispatch' \in [Days -> Dispatch] /\ session' \in [Workers -> SessionState]
  <2>1. CASE \E canceled \in BOOLEAN : Drop(w, canceled)
      BY <2>1, <1>2, DropKeepsShape DEF TypeOK
  <2>2. CASE /\ session' = [session EXCEPT ![w].at = "send", ![w].body = x.items,
                                           ![w].attempts = x.attempts]
             /\ UNCHANGED dispatch
    <3>1. s \in SessionState
        BY <1>1 DEF Sending, SessionState, Dispatch
    <3>2. session' = [session EXCEPT ![w] = s]
        BY <2>2, <1>1 DEF TypeOK, Sending
    <3> QED BY <2>2, <3>1, <3>2, SessionMoves DEF TypeOK
  <2> QED BY <2>1, <2>2, <1>2, <1>3 DEF Check
<1> QED BY <1>4 DEF TypeOK, Check, Retained

LEMMA SendIsTyped ==
    ASSUME TypeOK, NEW w \in Workers, Send(w)
    PROVE  TypeOK'
<1>1. session[w] \in Sending
    BY SessionShape DEF TypeOK, Send
<1>2. PICK day \in Days : day = session[w].day
    BY <1>1 DEF Sending
<1>3. PICK answer \in {"confirmed", "unknown", "refused"} :
          /\ session' = [session EXCEPT ![w].at = "record", ![w].answer = answer]
          /\ told' = [told EXCEPT ![day] = IF answer = "refused" THEN @ ELSE "delivered"]
    BY <1>2 DEF Send
<1> DEFINE s == [session[w] EXCEPT !.at = "record", !.answer = answer]
<1>4. s \in SessionState
    BY <1>1 DEF Sending, SessionState
<1>5. session' = [session EXCEPT ![w] = s]
    BY <1>1, <1>3 DEF TypeOK, Sending
<1>6. told' \in [Days -> {"nothing", "delivered"}]
    BY <1>3 DEF TypeOK
<1> QED BY <1>4, <1>5, <1>6, SessionMoves DEF TypeOK, Send, Retained

LEMMA RecordIsTyped ==
    ASSUME TypeOK, NEW w \in Workers, Record(w)
    PROVE  TypeOK'
<1>1. session[w] \in Sending
    BY SessionShape DEF TypeOK, Record
<1>2. PICK day \in Days : day = session[w].day
    BY <1>1 DEF Sending
<1>3. PICK x \in Dispatch : x = dispatch[day]
    BY DEF TypeOK
<1>4. PICK n \in 0 .. MaxAttempts : n = session[w].attempts
    BY <1>1 DEF Sending
<1>5. \/ SetDispatch(day, [x EXCEPT !.status = "SENT", !.error = "none", !.waits = FALSE])
      \/ SetDispatch(day, Uncertain(x))
      \/ SetDispatch(day, Retried(x, n))
    BY <1>2, <1>3, <1>4 DEF Record
<1>6. \E y \in Dispatch : SetDispatch(day, y)
    BY <1>5, OutcomesAreTyped
<1> QED BY <1>6, DispatchMoves, IdleKeepsShape DEF TypeOK, Record, Retained

LEMMA CanceledIsTyped ==
    ASSUME dispatch \in [Days -> Dispatch], NEW r \in References, NEW code \in ErrorCodes
    PROVE  Canceled(r, code) \in [Days -> Dispatch]
<1>1. \A x \in Dispatch :
          [x EXCEPT !.status = "CANCELED", !.error = code, !.waits = FALSE] \in Dispatch
    BY DEF Dispatch, DispatchStatus
<1> QED BY <1>1 DEF Canceled

LEMMA OperatorIsTyped ==
    ASSUME TypeOK, Operator
    PROVE  TypeOK'
<1>1. PICK r \in References :
          \/ PayReceivable(r) \/ CancelReceivable(r)
          \/ \E day \in Days : UpdateReference(r, day)
          \/ InactivateReference(r) \/ ActivateReference(r)
    BY DEF Operator
<1> DEFINE Row == [status : {"ATIVO", "INATIVO"}, account : {"PENDENTE", "PAGO", "CANCELADO"},
                   cycle : 0 .. MaxCycles, day : 0 .. LastDay + Period]
<1>2. references \in [References -> Row] /\ references[r] \in Row
    BY DEF TypeOK
<1>3. ASSUME NEW x \in Row, references' = [references EXCEPT ![r] = x]
      PROVE  references' \in [References -> Row]
    BY <1>2, <1>3
<1> DEFINE Kept == /\ references' \in [References -> Row]
                   /\ \/ dispatch' = dispatch
                      \/ \E code \in ErrorCodes : dispatch' = Canceled(r, code)
<1>4. Kept
  <2>1. CASE PayReceivable(r)
    <3>1. CASE references[r].status = "ATIVO"
      <4> DEFINE x == [references[r] EXCEPT !.cycle = @ + 1, !.day = @ + Period]
      <4>1. /\ references[r].cycle + 1 \in 0 .. MaxCycles
            /\ references[r].day + Period \in 0 .. LastDay + Period
          BY <2>1, <3>1, <1>2, BoundsAssumption DEF PayReceivable
      <4>2. x \in Row
          BY <4>1, <1>2
      <4>3. references' = [references EXCEPT ![r] = x]
          BY <2>1, <3>1, <1>2 DEF PayReceivable
      <4> QED BY <4>2, <4>3, <1>2, <2>1 DEF PayReceivable, ErrorCodes
    <3>2. CASE references[r].status = "INATIVO"
        BY <2>1, <3>2, <1>2 DEF PayReceivable, ErrorCodes
    <3> QED BY <3>1, <3>2, <1>2
  <2>2. CASE CancelReceivable(r)
      BY <2>2, <1>2 DEF CancelReceivable, ErrorCodes
  <2>3. ASSUME NEW day \in Days, UpdateReference(r, day)
        PROVE  Kept
    <3>1. day \in 0 .. LastDay + Period
        BY BoundsAssumption DEF Days
    <3> QED BY <2>3, <3>1, <1>2 DEF UpdateReference, ErrorCodes
  <2>4. CASE InactivateReference(r)
      BY <2>4, <1>2 DEF InactivateReference, ErrorCodes
  <2>5. CASE ActivateReference(r)
      BY <2>5, <1>2 DEF ActivateReference
  <2> QED BY <1>1, <2>1, <2>2, <2>3, <2>4, <2>5
<1>5. dispatch' \in [Days -> Dispatch]
    BY <1>4, CanceledIsTyped DEF TypeOK
<1>6. changes' \in 0 .. MaxChanges
    BY BoundsAssumption DEF TypeOK, Operator
<1> QED BY <1>4, <1>5, <1>6 DEF TypeOK, Operator

LEMMA TickIsTyped ==
    ASSUME TypeOK, Tick
    PROVE  TypeOK'
<1>1. clock' \in Times
    BY BoundsAssumption DEF TypeOK, Tick, Times
<1> QED BY <1>1 DEF TypeOK, Tick

LEMMA RetryDelayIsTyped ==
    ASSUME TypeOK, NEW day \in Days, RetryDelay(day)
    PROVE  TypeOK'
<1>1. [dispatch[day] EXCEPT !.waits = FALSE] \in Dispatch
    BY DEF TypeOK, Dispatch
<1>2. SetDispatch(day, [dispatch[day] EXCEPT !.waits = FALSE])
    BY DEF RetryDelay, SetDispatch
<1> QED BY <1>1, <1>2, DispatchMoves DEF TypeOK, RetryDelay

LEMMA NextIsTyped == TypeOK /\ [Next]_vars => TypeOK'
<1> SUFFICES ASSUME TypeOK, [Next]_vars PROVE TypeOK'
    OBVIOUS
<1>1. ASSUME NEW w \in Workers, Worker(w) PROVE TypeOK'
    BY <1>1, CrashIsTyped, StartReconcileIsTyped, FindGroupIsTyped, WriteGroupIsTyped,
       SelectDueIsTyped, SendNowIsTyped, AcquireIsTyped, RefreshIsTyped, UnpreparedIsTyped,
       CheckIsTyped, SendIsTyped, RecordIsTyped
       DEF Worker
<1>2. CASE UNCHANGED vars
    BY <1>2 DEF vars, TypeOK
<1> QED BY <1>1, <1>2, OperatorIsTyped, TickIsTyped, RetryDelayIsTyped DEF Next

\* However many requests run and die, the dispatches and what the requests keep
\* of them have the shape their columns allow; in particular no dispatch counts
\* more attempts than maxAttempts (acquireDispatch).
THEOREM DispatchesAreTyped == Spec => []TypeOK
<1> QED BY InitIsTyped, NextIsTyped, PTL DEF Spec

(***************************************************************************)
(* One request at a time: the scheduler and the operator take turns, and   *)
(* either may die at any step.                                             *)
(***************************************************************************)
OneAtATime == \A v, w \in Workers : v = w

\* A dispatch that may have been delivered does not wait to be sent, unless its
\* outcome is marked as unknown.
DeliveredIsHeld ==
    \A day \in Days : told[day] = "delivered" =>
        /\ dispatch[day].status \notin {"none", "SCHEDULED"}
        /\ dispatch[day].status = "FAILED" => dispatch[day].error = "UNCERTAIN"

\* What a request in progress has read still stands.
Stands(w) ==
    /\ session[w].job = "reconcile" /\ session[w].at = "write" /\ session[w].found = "future" =>
           told[session[w].day] = "nothing"
    /\ At(w, "acquire") \/ At(w, "refresh") \/ At(w, "check") \/ At(w, "send") =>
           told[session[w].day] = "nothing"
    /\ At(w, "record") /\ session[w].answer = "refused" => told[session[w].day] = "nothing"
    /\ At(w, "send") => dispatch[session[w].day].status = "PROCESSING"
    /\ At(w, "refresh") \/ At(w, "check") \/ At(w, "send") =>
           \A a \in session[w].settled : Settled(a)
    /\ At(w, "check") => dispatch[session[w].day].items \cap session[w].settled = {}
    /\ At(w, "send") => session[w].body \cap session[w].settled = {}

SInv == DeliveredIsHeld /\ \A w \in Workers : Stands(w)
IInv == TypeOK /\ SInv

\* What happens beside the requests neither unsettles an account nor takes a
\* dispatch from the request that has acquired it.
LEMMA AsideKeeps ==
    ASSUME TypeOK, SInv, session' = session, told' = told,
           \A day \in Days :
               /\ dispatch'[day].items = dispatch[day].items
               /\ \/ /\ dispatch'[day].status = dispatch[day].status
                     /\ dispatch'[day].error = dispatch[day].error
                  \/ Waiting(dispatch[day]) /\ dispatch'[day].status = "CANCELED",
           \A a \in Accounts : Settled(a) => Settled(a)'
    PROVE  SInv'
<1>1. DeliveredIsHeld'
    BY DEF SInv, DeliveredIsHeld
<1>2. ASSUME NEW w \in Workers PROVE Stands(w)'
  <2>1. \A step : At(w, step)' <=> At(w, step)
      BY DEF At
  <2>2. \A step : At(w, step) => session[w].day \in Days /\ session[w].settled \subseteq Accounts
      BY SessionShape DEF TypeOK, Sending
  <2>3. Stands(w)
      BY DEF SInv
  <2>4. At(w, "refresh")' \/ At(w, "check")' \/ At(w, "send")' =>
            \A a \in session'[w].settled : Settled(a)'
      BY <2>1, <2>2, <2>3 DEF Stands
  <2>5. At(w, "check")' => dispatch'[session'[w].day].items \cap session'[w].settled = {}
      BY <2>1, <2>2, <2>3 DEF Stands
  <2>6. At(w, "send")' => /\ dispatch'[session'[w].day].status = "PROCESSING"
                          /\ session'[w].body \cap session'[w].settled = {}
      BY <2>1, <2>2, <2>3 DEF Stands, Waiting
  <2> QED BY <2>1, <2>3, <2>4, <2>5, <2>6 DEF Stands
<1> QED BY <1>1, <1>2 DEF SInv

\* Only one request is in progress, so only its own step can disturb it.
LEMMA AloneKeeps ==
    ASSUME OneAtATime, NEW w \in Workers, DeliveredIsHeld', Stands(w)'
    PROVE  SInv'
<1> QED BY DEF OneAtATime, SInv

LEMMA IdleStands ==
    ASSUME session \in [Workers -> SessionState], NEW w \in Workers, Finish(w)
    PROVE  Stands(w)'
<1>1. session'[w].job = "idle"
    BY DEF Finish, Idle
<1> QED BY <1>1 DEF Stands, At

\* A reference never goes back to an account it has left behind, and an account
\* that was paid or canceled never waits for payment again.
LEMMA SettledStays ==
    ASSUME TypeOK, Operator, NEW a \in Accounts, Settled(a)
    PROVE  Settled(a)'
<1>1. PICK r \in References :
          \/ PayReceivable(r) \/ CancelReceivable(r)
          \/ \E day \in Days : UpdateReference(r, day)
          \/ InactivateReference(r) \/ ActivateReference(r)
    BY DEF Operator
<1>2. a[1] \in References /\ a[2] \in Nat /\ \A x \in References : references[x].cycle \in Nat
    BY DEF TypeOK, Accounts
<1>3. CASE a[1] # r
  <2>1. references'[a[1]] = references[a[1]]
      BY <1>1, <1>2, <1>3 DEF TypeOK, PayReceivable, CancelReceivable, UpdateReference,
            InactivateReference, ActivateReference
  <2> QED BY <2>1 DEF Settled
<1>4. CASE a[1] = r
  <2>1. \/ references'[r].cycle = references[r].cycle /\ references'[r].account = references[r].account
        \/ references'[r].cycle = references[r].cycle + 1
        \/ references'[r].cycle = references[r].cycle /\ references'[r].account # "PENDENTE"
      BY <1>1 DEF TypeOK, PayReceivable, CancelReceivable, UpdateReference,
            InactivateReference, ActivateReference
  <2> QED BY <1>2, <1>4, <2>1 DEF Settled
<1> QED BY <1>3, <1>4

LEMMA OperatorKeeps ==
    ASSUME IInv, Operator
    PROVE  SInv'
<1> DEFINE Keeps(day) ==
               /\ dispatch'[day].items = dispatch[day].items
               /\ \/ /\ dispatch'[day].status = dispatch[day].status
                     /\ dispatch'[day].error = dispatch[day].error
                  \/ Waiting(dispatch[day]) /\ dispatch'[day].status = "CANCELED"
<1>1. \A day \in Days : Keeps(day)
  <2>1. PICK r \in References :
            dispatch' = dispatch \/ \E code \in ErrorCodes : dispatch' = Canceled(r, code)
      BY DEF Operator, PayReceivable, CancelReceivable, UpdateReference, InactivateReference,
             ActivateReference, ErrorCodes
  <2>2. \A day \in Days : dispatch[day] \in Dispatch
      BY DEF IInv, TypeOK
  <2>3. \A code \in ErrorCodes, day \in Days :
            \/ Canceled(r, code)[day] = dispatch[day]
            \/ /\ Waiting(dispatch[day])
               /\ Canceled(r, code)[day] = [dispatch[day] EXCEPT !.status = "CANCELED",
                                                     !.error = code, !.waits = FALSE]
      BY DEF Canceled
  <2>4. \A x \in Dispatch, code \in ErrorCodes :
            /\ [x EXCEPT !.status = "CANCELED", !.error = code, !.waits = FALSE].items = x.items
            /\ [x EXCEPT !.status = "CANCELED", !.error = code, !.waits = FALSE].status
                   = "CANCELED"
      BY DEF Dispatch
  <2>5. ASSUME NEW day \in Days, NEW code \in ErrorCodes, dispatch' = Canceled(r, code)
        PROVE  Keeps(day)
    <3>1. CASE dispatch'[day] = dispatch[day]
        BY <3>1
    <3>2. CASE dispatch'[day] # dispatch[day]
      <4>1. /\ Waiting(dispatch[day])
            /\ dispatch'[day] = [dispatch[day] EXCEPT !.status = "CANCELED",
                                                   !.error = code, !.waits = FALSE]
          BY <2>3, <2>5, <3>2
      <4> QED BY <4>1, <2>2, <2>4
    <3> QED BY <3>1, <3>2
  <2> QED BY <2>1, <2>5
<1> QED BY <1>1, SettledStays, AsideKeeps DEF IInv, Operator

LEMMA TickKeeps == IInv /\ Tick => SInv'
<1> QED BY AsideKeeps DEF IInv, Tick, Settled

LEMMA RetryDelayKeeps ==
    ASSUME IInv, NEW day \in Days, RetryDelay(day)
    PROVE  SInv'
<1>1. \A d \in Days : /\ dispatch'[d].items = dispatch[d].items
                      /\ dispatch'[d].status = dispatch[d].status
                      /\ dispatch'[d].error = dispatch[d].error
  <2>1. \A d \in Days : dispatch[d] \in Dispatch
      BY DEF IInv, TypeOK
  <2> QED BY <2>1 DEF RetryDelay, Dispatch, IInv, TypeOK
<1> QED BY <1>1, AsideKeeps DEF IInv, RetryDelay, Settled

(***************************************************************************)
(* The steps of the request.                                               *)
(***************************************************************************)
LEMMA CrashKeeps ==
    ASSUME IInv, OneAtATime, NEW w \in Workers, Crash(w)
    PROVE  SInv'
<1>1. DeliveredIsHeld'
    BY DEF IInv, SInv, DeliveredIsHeld, Crash
<1> QED BY <1>1, IdleStands, AloneKeeps DEF IInv, TypeOK, Crash

LEMMA StartReconcileKeeps ==
    ASSUME IInv, OneAtATime, NEW w \in Workers, StartReconcile(w)
    PROVE  SInv'
<1>1. DeliveredIsHeld'
    BY DEF IInv, SInv, DeliveredIsHeld, StartReconcile
<1>2. session'[w].job = "reconcile" /\ session'[w].at = "find"
    BY DEF IInv, TypeOK, StartReconcile
<1>3. Stands(w)'
    BY <1>2 DEF Stands, At
<1> QED BY <1>1, <1>3, AloneKeeps

LEMMA FindGroupKeeps ==
    ASSUME IInv, OneAtATime, NEW w \in Workers, FindGroup(w)
    PROVE  SInv'
<1>1. session[w] \in Reconciling
    BY SessionShape DEF IInv, TypeOK, FindGroup
<1>2. PICK day \in session[w].left :
          /\ dispatch' = [d \in Days |->
                 IF d \in Obsolete(day)
                 THEN [dispatch[d] EXCEPT !.status = "CANCELED", !.error = "OTHER"]
                 ELSE dispatch[d]]
          /\ session' = [session EXCEPT ![w].at = "write", ![w].day = day,
                                        ![w].found = Found(dispatch'[day], session[w].now)]
    BY DEF FindGroup
<1>3. day \in Days /\ session[w].job = "reconcile" /\ told' = told
    BY <1>1, <1>2 DEF Reconciling, FindGroup
<1>4. \A d \in Days : dispatch[d] \in Dispatch
    BY DEF IInv, TypeOK
<1>5. DeliveredIsHeld'
  <2>1. \A d \in Days : dispatch'[d] = dispatch[d] \/ dispatch'[d].status = "CANCELED"
      BY <1>2, <1>4 DEF Dispatch
  <2> QED BY <1>3, <2>1 DEF IInv, SInv, DeliveredIsHeld
<1>6. /\ session'[w].job = "reconcile" /\ session'[w].day = day
      /\ session'[w].found = Found(dispatch'[day], session[w].now)
    BY <1>1, <1>2, <1>3 DEF IInv, TypeOK, Reconciling
<1>7. session'[w].found = "future" => told'[day] = "nothing"
  <2>1. dispatch'[day] = dispatch[day]
      BY <1>2, <1>3 DEF Obsolete
  <2>2. session'[w].found = "future" => dispatch[day].status = "SCHEDULED"
      BY <1>6, <2>1 DEF Found
  <2> QED BY <2>2, <1>3 DEF IInv, TypeOK, SInv, DeliveredIsHeld
<1>8. Stands(w)'
    BY <1>6, <1>7 DEF Stands, At
<1> QED BY <1>5, <1>8, AloneKeeps

LEMMA WriteGroupKeeps ==
    ASSUME IInv, OneAtATime, NEW w \in Workers, WriteGroup(w)
    PROVE  SInv'
<1>1. session[w] \in Reconciling
    BY SessionShape DEF IInv, TypeOK, WriteGroup
<1>2. PICK day \in Days : day = session[w].day
    BY <1>1 DEF Reconciling
<1>3. Stands(w) /\ DeliveredIsHeld
    BY DEF IInv, SInv
<1>4. DeliveredIsHeld'
  <2> SUFFICES ASSUME NEW d \in Days, told'[d] = "delivered"
               PROVE  /\ dispatch'[d].status \notin {"none", "SCHEDULED"}
                      /\ dispatch'[d].status = "FAILED" => dispatch'[d].error = "UNCERTAIN"
      BY DEF DeliveredIsHeld
  <2>1. told[d] = "delivered"
      BY <1>2 DEF IInv, TypeOK, WriteGroup
  <2>2. dispatch'[d] = dispatch[d]
    <3>1. CASE d # day
        BY <3>1, <1>2 DEF IInv, TypeOK, WriteGroup
    <3>2. CASE d = day
      <4>1. session[w].found # "canceled"
          BY <3>2, <1>2 DEF IInv, TypeOK, WriteGroup
      <4>2. session[w].found = "nothing" /\ dispatch[day].status # "none"
          BY <1>1, <1>2, <1>3, <2>1, <3>2, <4>1
             DEF Reconciling, Stands, DeliveredIsHeld, WriteGroup
      <4> QED BY <3>2, <4>2, <1>2 DEF IInv, TypeOK, WriteGroup
    <3> QED BY <3>1, <3>2
  <2> QED BY <1>3, <2>1, <2>2 DEF DeliveredIsHeld
<1>5. Stands(w)'
  <2>1. CASE Finish(w)
      BY <2>1, IdleStands DEF IInv, TypeOK
  <2>2. CASE session'[w].job = "reconcile" /\ session'[w].at = "find"
      BY <2>2 DEF Stands, At
  <2> QED BY <1>1, <2>1, <2>2 DEF WriteGroup, IInv, TypeOK, Reconciling
<1> QED BY <1>4, <1>5, AloneKeeps

\* A request that is at the acquisition of a dispatch nobody may have had.
LEMMA SenderStands ==
    ASSUME session \in [Workers -> SessionState], NEW w \in Workers, NEW day \in Days,
           NEW job \in {"processDue", "sendNow"},
           session' = [session EXCEPT ![w] = Sender(job, day)], told'[day] = "nothing"
    PROVE  Stands(w)'
<1>1. session'[w].at = "acquire" /\ session'[w].day = day
      /\ session'[w].job \in {"processDue", "sendNow"}
    BY DEF Sender
<1> QED BY <1>1 DEF Stands, At

LEMMA SelectDueKeeps ==
    ASSUME IInv, OneAtATime, NEW w \in Workers, NEW automatic \in BOOLEAN, SelectDue(w, automatic)
    PROVE  SInv'
<1>1. PICK day \in Days : /\ Waiting(dispatch[day]) /\ Retryable(dispatch[day])
                          /\ session' = [session EXCEPT ![w] = Sender("processDue", day)]
    BY DEF SelectDue
<1>2. dispatch' = dispatch /\ told' = told
    BY DEF SelectDue
<1>3. told'[day] = "nothing"
    BY <1>1, <1>2 DEF IInv, SInv, TypeOK, DeliveredIsHeld, Waiting, Retryable
<1>4. DeliveredIsHeld'
    BY <1>2 DEF IInv, SInv, DeliveredIsHeld
<1> QED BY <1>1, <1>3, <1>4, SenderStands, AloneKeeps DEF IInv, TypeOK

LEMMA SendNowKeeps ==
    ASSUME IInv, OneAtATime, NEW w \in Workers, NEW day \in Days, SendNow(w, day)
    PROVE  SInv'
<1>1. told'[day] = "nothing" /\ \A d \in Days : d # day => told'[d] = told[d]
    BY DEF IInv, TypeOK, SendNow
<1>2. \A d \in Days : d # day => dispatch'[d] = dispatch[d]
    BY DEF IInv, TypeOK, SendNow
<1>3. DeliveredIsHeld'
    BY <1>1, <1>2 DEF IInv, SInv, DeliveredIsHeld
<1>4. Stands(w)'
    BY <1>1, SenderStands DEF IInv, TypeOK, SendNow
<1> QED BY <1>3, <1>4, AloneKeeps

\* Once a dispatch is dropped nobody waits for it.
LEMMA DropKeeps ==
    ASSUME IInv, OneAtATime, NEW w \in Workers, NEW x \in Dispatch, session[w].day \in Days,
           SetDispatch(session[w].day, x), Finish(w), told' = told,
           told[session[w].day] = "nothing"
    PROVE  SInv'
<1>1. \A d \in Days : d # session[w].day => dispatch'[d] = dispatch[d]
    BY DEF IInv, TypeOK, SetDispatch
<1>2. DeliveredIsHeld'
    BY <1>1 DEF IInv, SInv, DeliveredIsHeld
<1> QED BY <1>2, IdleStands, AloneKeeps DEF IInv, TypeOK

LEMMA AcquireKeeps ==
    ASSUME IInv, OneAtATime, NEW w \in Workers, Acquire(w)
    PROVE  SInv'
<1>1. session[w] \in Sending /\ At(w, "acquire")
    BY SessionShape DEF IInv, TypeOK, Acquire
<1>2. PICK day \in Days : day = session[w].day
    BY <1>1 DEF Sending
<1>3. dispatch[day] \in Dispatch /\ told[day] = "nothing" /\ told' = told
    BY <1>1, <1>2 DEF IInv, TypeOK, SInv, Stands, Acquire
<1>4. CASE CanAcquire(dispatch[day], session[w].now)
  <2>1. \A d \in Days : d # day => dispatch'[d] = dispatch[d]
      BY <1>2, <1>4 DEF Acquire, SetDispatch, IInv, TypeOK
  <2>2. DeliveredIsHeld'
      BY <1>3, <2>1 DEF IInv, SInv, DeliveredIsHeld
  <2>3. /\ session'[w].at = "refresh" /\ session'[w].day = day
        /\ session'[w].settled = {a \in Accounts : Settled(a)}
      BY <1>1, <1>2, <1>4 DEF Acquire, IInv, TypeOK, Sending
  <2>4. \A a \in session'[w].settled : Settled(a)'
      BY <2>3 DEF Acquire, Retained, Settled
  <2>5. session'[w].job = session[w].job
      BY <1>1, <1>2, <1>4 DEF Acquire, IInv, TypeOK, Sending
  <2>6. Stands(w)'
      BY <1>1, <1>3, <2>3, <2>4, <2>5 DEF Stands, At
  <2> QED BY <2>2, <2>6, AloneKeeps
<1>5. CASE ~CanAcquire(dispatch[day], session[w].now)
  <2>1. Finish(w) /\ dispatch' = dispatch
      BY <1>2, <1>5 DEF Acquire
  <2>2. DeliveredIsHeld'
      BY <1>3, <2>1 DEF IInv, SInv, DeliveredIsHeld
  <2> QED BY <2>1, <2>2, IdleStands, AloneKeeps DEF IInv, TypeOK
<1> QED BY <1>4, <1>5

LEMMA RefreshKeeps ==
    ASSUME IInv, OneAtATime, NEW w \in Workers, Refresh(w)
    PROVE  SInv'
<1>1. session[w] \in Sending /\ At(w, "refresh") /\ Stands(w)
    BY SessionShape DEF IInv, SInv, TypeOK, Refresh
<1>2. PICK day \in Days : day = session[w].day
    BY <1>1 DEF Sending
<1>3. PICK x \in Dispatch : x = dispatch[day]
    BY DEF IInv, TypeOK
<1>4. PICK items \in SUBSET Accounts : items = ActiveItems(x.items)
    BY <1>3 DEF ActiveItems, Dispatch
<1>5. /\ told[day] = "nothing" /\ told' = told /\ 0 \in 0 .. MaxAttempts
      /\ \A a \in session[w].settled : Settled(a)
    BY <1>1, <1>2, BoundsAssumption DEF Stands, Refresh
<1>6. CASE \E canceled \in BOOLEAN : Drop(w, canceled)
  <2>1. PICK status \in {"CANCELED", "IGNORED"} :
            SetDispatch(day, [x EXCEPT !.error = "OTHER", !.status = status])
      BY <1>2, <1>3, <1>6, DropKeepsShape DEF IInv, TypeOK
  <2>2. [x EXCEPT !.error = "OTHER", !.status = status] \in Dispatch
      BY <1>5, OutcomesAreTyped
  <2> QED BY <1>2, <1>5, <1>6, <2>1, <2>2, DropKeeps DEF Drop
<1>7. CASE /\ SetDispatch(day, [x EXCEPT !.items = items, !.error = "OTHER",
                                         !.status = "IGNORED"])
           /\ Finish(w)
  <2>1. [x EXCEPT !.items = items, !.error = "OTHER", !.status = "IGNORED"] \in Dispatch
      BY <1>5, OutcomesAreTyped
  <2> QED BY <1>2, <1>5, <1>7, <2>1, DropKeeps
<1>8. CASE SetDispatch(day, [x EXCEPT !.items = items]) /\ GoTo(w, "check")
  <2>1. DeliveredIsHeld'
    <3>1. \A d \in Days : d # day => dispatch'[d] = dispatch[d]
        BY <1>8 DEF SetDispatch, IInv, TypeOK
    <3> QED BY <1>5, <3>1 DEF IInv, SInv, DeliveredIsHeld
  <2>2. dispatch'[day].items = items
      BY <1>8 DEF SetDispatch, Dispatch, IInv, TypeOK
  <2>3. /\ session'[w].at = "check" /\ session'[w].day = day
        /\ session'[w].job = session[w].job /\ session'[w].settled = session[w].settled
      BY <1>1, <1>2, <1>8 DEF GoTo, Sending, IInv, TypeOK
  <2>4. \A a \in session[w].settled : Settled(a)'
      BY <1>5 DEF Settled, Refresh, Retained
  <2>5. items \cap session[w].settled = {}
      BY <1>4, <1>5 DEF ActiveItems, Chargeable, Settled, Accounts, IInv, TypeOK
  <2>6. Stands(w)'
      BY <1>1, <1>5, <2>2, <2>3, <2>4, <2>5 DEF Stands, At
  <2> QED BY <2>1, <2>6, AloneKeeps
<1> QED BY <1>2, <1>3, <1>4, <1>6, <1>7, <1>8 DEF Refresh

LEMMA UnpreparedKeeps ==
    ASSUME IInv, OneAtATime, NEW w \in Workers, Unprepared(w)
    PROVE  SInv'
<1>1. session[w] \in Sending /\ At(w, "check")
    BY SessionShape DEF IInv, TypeOK, Unprepared
<1>2. PICK day \in Days : day = session[w].day
    BY <1>1 DEF Sending
<1>3. dispatch[day] \in Dispatch /\ dispatch[day].attempts \in 0 .. MaxAttempts
    BY DEF IInv, TypeOK, Dispatch
<1>4. PICK failed : failed = Retried(dispatch[day], dispatch[day].attempts)
    OBVIOUS
<1>5. failed \in Dispatch
    BY <1>3, <1>4, OutcomesAreTyped
<1>6. PICK waits \in BOOLEAN : SetDispatch(day, [failed EXCEPT !.waits = waits])
    BY <1>2, <1>4, <1>5 DEF Unprepared, Dispatch
<1>7. [failed EXCEPT !.waits = waits] \in Dispatch
    BY <1>3, <1>4, OutcomesAreTyped
<1>8. told[day] = "nothing" /\ told' = told
    BY <1>1, <1>2 DEF IInv, SInv, Stands, Unprepared
<1> QED BY <1>2, <1>6, <1>7, <1>8, DropKeeps DEF Unprepared

LEMMA CheckKeeps ==
    ASSUME IInv, OneAtATime, NEW w \in Workers, Check(w)
    PROVE  SInv'
<1>1. session[w] \in Sending /\ At(w, "check") /\ Stands(w)
    BY SessionShape DEF IInv, SInv, TypeOK, Check
<1>2. PICK day \in Days : day = session[w].day
    BY <1>1 DEF Sending
<1>3. PICK x \in Dispatch : x = dispatch[day]
    BY DEF IInv, TypeOK
<1>4. /\ told[day] = "nothing" /\ told' = told /\ 0 \in 0 .. MaxAttempts
      /\ x.items \cap session[w].settled = {}
      /\ \A a \in session[w].settled : Settled(a)
    BY <1>1, <1>2, <1>3, BoundsAssumption DEF Stands, Check
<1>5. CASE \E canceled \in BOOLEAN : Drop(w, canceled)
  <2>1. PICK status \in {"CANCELED", "IGNORED"} :
            SetDispatch(day, [x EXCEPT !.error = "OTHER", !.status = status])
      BY <1>2, <1>3, <1>5, DropKeepsShape DEF IInv, TypeOK
  <2>2. [x EXCEPT !.error = "OTHER", !.status = status] \in Dispatch
      BY <1>4, OutcomesAreTyped
  <2> QED BY <1>2, <1>4, <1>5, <2>1, <2>2, DropKeeps DEF Drop
<1>6. CASE /\ x.status = "PROCESSING" /\ UNCHANGED dispatch
           /\ session' = [session EXCEPT ![w].at = "send", ![w].body = x.items,
                                         ![w].attempts = x.attempts]
  <2>1. DeliveredIsHeld'
      BY <1>4, <1>6 DEF IInv, SInv, DeliveredIsHeld
  <2>2. /\ session'[w].at = "send" /\ session'[w].day = day /\ session'[w].body = x.items
        /\ session'[w].job = session[w].job /\ session'[w].settled = session[w].settled
      BY <1>1, <1>2, <1>6 DEF Sending, IInv, TypeOK
  <2>3. \A a \in session[w].settled : Settled(a)'
      BY <1>4 DEF Settled, Check, Retained
  <2>4. Stands(w)'
      BY <1>1, <1>3, <1>4, <1>6, <2>2, <2>3 DEF Stands, At
  <2> QED BY <2>1, <2>4, AloneKeeps
<1> QED BY <1>2, <1>3, <1>5, <1>6 DEF Check

LEMMA SendKeeps ==
    ASSUME IInv, OneAtATime, NEW w \in Workers, Send(w)
    PROVE  SInv'
<1>1. session[w] \in Sending /\ At(w, "send") /\ Stands(w)
    BY SessionShape DEF IInv, SInv, TypeOK, Send
<1>2. PICK day \in Days : day = session[w].day
    BY <1>1 DEF Sending
<1>3. PICK answer \in {"confirmed", "unknown", "refused"} :
          /\ session' = [session EXCEPT ![w].at = "record", ![w].answer = answer]
          /\ told' = [told EXCEPT ![day] = IF answer = "refused" THEN @ ELSE "delivered"]
    BY <1>2 DEF Send
<1>4. told[day] = "nothing" /\ dispatch[day].status = "PROCESSING" /\ dispatch' = dispatch
    BY <1>1, <1>2 DEF Stands, Send
<1>5. DeliveredIsHeld'
    BY <1>3, <1>4 DEF IInv, SInv, TypeOK, DeliveredIsHeld
<1>6. /\ session'[w].at = "record" /\ session'[w].day = day /\ session'[w].answer = answer
      /\ session'[w].job = session[w].job
    BY <1>1, <1>2, <1>3 DEF Sending, IInv, TypeOK
<1>7. answer = "refused" => told'[day] = "nothing"
    BY <1>3, <1>4 DEF IInv, TypeOK
<1>8. Stands(w)'
    BY <1>1, <1>6, <1>7 DEF Stands, At
<1> QED BY <1>5, <1>8, AloneKeeps

LEMMA RecordKeeps ==
    ASSUME IInv, OneAtATime, NEW w \in Workers, Record(w)
    PROVE  SInv'
<1>1. session[w] \in Sending /\ At(w, "record") /\ Stands(w)
    BY SessionShape DEF IInv, SInv, TypeOK, Record
<1>2. PICK day \in Days : day = session[w].day
    BY <1>1 DEF Sending
<1>3. PICK x \in Dispatch : x = dispatch[day]
    BY DEF IInv, TypeOK
<1>4. told' = told
    BY DEF Record
<1>5. \A d \in Days : d # day => dispatch'[d] = dispatch[d]
    BY <1>2 DEF Record, SetDispatch, IInv, TypeOK
<1>6. \/ dispatch'[day].status = "SENT"
      \/ dispatch'[day].status = "FAILED" /\ dispatch'[day].error = "UNCERTAIN"
      \/ told[day] = "nothing"
  <2>1. CASE session[w].answer = "refused"
      BY <2>1, <1>1, <1>2 DEF Stands
  <2>2. CASE SetDispatch(day, [x EXCEPT !.status = "SENT", !.error = "none", !.waits = FALSE])
      BY <2>2, <1>3 DEF SetDispatch, Dispatch, IInv, TypeOK
  <2>3. CASE SetDispatch(day, Uncertain(x))
      BY <2>3, <1>3 DEF SetDispatch, Uncertain, Dispatch, IInv, TypeOK
  <2> QED BY <2>1, <2>2, <2>3, <1>2, <1>3 DEF Record
<1>7. DeliveredIsHeld'
    BY <1>4, <1>5, <1>6 DEF IInv, SInv, DeliveredIsHeld
<1> QED BY <1>7, IdleStands, AloneKeeps DEF IInv, TypeOK, Record

LEMMA InitHasInvariant == Init => IInv
<1> SUFFICES ASSUME Init PROVE IInv
    OBVIOUS
<1>1. \A w \in Workers : session[w].job = "idle"
    BY DEF Init, Idle
<1>2. SInv
    BY <1>1 DEF SInv, DeliveredIsHeld, Stands, At, Init
<1> QED BY <1>2, InitIsTyped DEF IInv

LEMMA NextKeepsInvariant == OneAtATime /\ IInv /\ [Next]_vars => IInv'
<1> SUFFICES ASSUME OneAtATime, IInv, [Next]_vars PROVE SInv'
    BY NextIsTyped DEF IInv
<1>1. ASSUME NEW w \in Workers, Worker(w) PROVE SInv'
    BY <1>1, CrashKeeps, StartReconcileKeeps, FindGroupKeeps, WriteGroupKeeps, SelectDueKeeps,
       SendNowKeeps, AcquireKeeps, RefreshKeeps, UnpreparedKeeps, CheckKeeps, SendKeeps,
       RecordKeeps
       DEF Worker
<1>2. CASE UNCHANGED vars
    BY <1>2, AsideKeeps DEF vars, IInv, Settled
<1> QED BY <1>1, <1>2, OperatorKeeps, TickKeeps, RetryDelayKeeps DEF Next

LEMMA InvariantHolds == OneAtATime => (Spec => []IInv)
<1> SUFFICES ASSUME OneAtATime PROVE Spec => []IInv
    OBVIOUS
<1>1. IInv /\ [Next]_vars => IInv'
    BY NextKeepsInvariant
<1> QED BY InitHasInvariant, <1>1, PTL DEF Spec

\* With one request at a time, a dispatch whose message may have been delivered
\* (nonRetryableProviderErrorCodes, a process that died in PROCESSING) is not
\* sent again by the scheduler, whatever is retried, reconciled or restarted.
THEOREM NothingIsRepeatedBlindly == OneAtATime => (Spec => NoBlindRetry)
<1> SUFFICES ASSUME OneAtATime PROVE Spec => NoBlindRetry
    OBVIOUS
<1>1. IInv => [\A w \in Workers : Sends(w) /\ session[w].job = "processDue" =>
                   told[session[w].day] # "delivered"]_vars
  <2>1. ASSUME IInv, NEW w \in Workers, Sends(w) PROVE told[session[w].day] # "delivered"
      BY <2>1 DEF IInv, SInv, Stands, Sends
  <2> QED BY <2>1
<1> QED BY <1>1, InvariantHolds, PTL DEF NoBlindRetry

\* With one request at a time, what the message charges was not yet paid or
\* canceled when its dispatch was acquired (refreshDispatchItemsBeforeSend).
THEOREM NothingSettledIsCharged == OneAtATime => (Spec => SettledIsNotCharged)
<1> SUFFICES ASSUME OneAtATime PROVE Spec => SettledIsNotCharged
    OBVIOUS
<1>1. IInv => [\A w \in Workers : Sends(w) =>
                   session[w].body \cap session[w].settled = {}]_vars
  <2>1. ASSUME IInv, NEW w \in Workers, Sends(w)
        PROVE  session[w].body \cap session[w].settled = {}
      BY <2>1 DEF IInv, SInv, Stands, Sends
  <2> QED BY <2>1
<1> QED BY <1>1, InvariantHolds, PTL DEF SettledIsNotCharged
==============================================================================
