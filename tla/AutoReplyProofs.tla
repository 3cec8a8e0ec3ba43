--------------------------- MODULE AutoReplyProofs ---------------------------
(***************************************************************************)
(* Proofs about AutoReply, for any number of messages of the contact, any  *)
(* cooldown, and any time to live that covers the time a request works.    *)
(* IInv is inductive: one lemma per action shows that the action keeps it. *)
(***************************************************************************)
EXTENDS AutoReply, TLAPS

Places == {"waiting", "eligible", "released", "claimed", "accepted", "failed", "done"}
ExecutionRow == [status : ExecutionStatus, createdAt : Nat \cup {None},
                 sentAt : Nat \cup {None}]
RequestRow == [at : Places, now : Nat \cup {None}]

\* The initial state satisfies the invariant.
LEMMA InitHolds == Init => IInv
<1> SUFFICES ASSUME Init PROVE IInv
    OBVIOUS
<1> USE NoneAssumption, TimesAssumption
<1>1. TypeOK
    BY DEF Init, TypeOK, NoExecution, Waiting, ExecutionStatus
<1>2. \A t \in Triggers : Began(t) /\ Working(t)
    BY DEF Init, Began, Working, AtWork, Waiting
<1>3. OneReservation /\ MessageFollowsExecution /\ RepliesAreSpaced
    BY DEF Init, OneReservation, MessageFollowsExecution, RepliesAreSpaced, Holds, NoExecution
<1> QED BY <1>1, <1>2, <1>3 DEF IInv

\* What a request that only moves on may change: nothing but itself.
LEMMA RequestMoves ==
    ASSUME IInv, NEW t \in Triggers, NEW at \in Places, NEW now \in Nat \cup {None},
           request' = [request EXCEPT ![t] = [at |-> at, now |-> now]],
           UNCHANGED <<clock, execution, message, delivered>>,
           lastAutoReplyAt' = lastAutoReplyAt, needsManualFollowUp' = needsManualFollowUp,
           Began(t)', Working(t)'
    PROVE  IInv'
<1> USE DEF IInv
<1>1. TypeOK'
    BY DEF TypeOK, Places
<1>2. ASSUME NEW u \in Triggers PROVE Began(u)' /\ Working(u)'
  <2>1. CASE u = t
    BY <2>1
  <2>2. CASE u # t
    <3>1. request'[u] = request[u]
        BY <2>2 DEF TypeOK
    <3> QED BY <3>1 DEF Began, Working, AtWork, Holds, Recent
  <2> QED BY <2>1, <2>2
<1>3. OneReservation' /\ MessageFollowsExecution' /\ RepliesAreSpaced'
    BY DEF OneReservation, MessageFollowsExecution, RepliesAreSpaced, Holds
<1> QED BY <1>1, <1>2, <1>3

LEMMA ReadConversationKeeps ==
    ASSUME IInv, NEW t \in Triggers, ReadConversation(t) PROVE IInv'
<1> USE DEF ReadConversation, Rows, Conversation
<1>1. CASE End(t)
  <2>1. request' = [request EXCEPT ![t] = [at |-> "done", now |-> None]]
      BY <1>1 DEF End, Done
  <2>2. request'[t] = [at |-> "done", now |-> None]
      BY <2>1 DEF IInv, TypeOK
  <2>3. Began(t)' /\ Working(t)'
      BY <2>2 DEF Began, Working, AtWork
  <2> QED BY <2>1, <2>3, RequestMoves DEF Places
<1>2. CASE request' = [request EXCEPT ![t] = [at |-> "eligible", now |-> clock]]
  <2>1. request'[t] = [at |-> "eligible", now |-> clock] /\ clock \in Nat
      BY <1>2 DEF IInv, TypeOK
  <2>2. Began(t)' /\ Working(t)'
      BY <2>1 DEF IInv, Began, Working, AtWork, Waiting
  <2> QED BY <1>2, <2>1, <2>2, RequestMoves DEF Places
<1> QED BY <1>1, <1>2

\* A request that stops, whatever it was doing, leaves all rows as they are.
LEMMA EndKeeps ==
    ASSUME IInv, NEW t \in Triggers, End(t), UNCHANGED <<clock, delivered, Rows, Conversation>>
    PROVE  IInv'
<1>1. request' = [request EXCEPT ![t] = [at |-> "done", now |-> None]]
    BY DEF End, Done
<1>2. request'[t] = [at |-> "done", now |-> None]
    BY <1>1 DEF IInv, TypeOK
<1>3. Began(t)' /\ Working(t)'
    BY <1>2 DEF Began, Working, AtWork
<1> QED BY <1>1, <1>3, RequestMoves DEF Places, Rows, Conversation

\* No request at work loses its reservation: it is younger than the time to
\* live, by the clock of whoever looks for stale ones.
LEMMA AtWorkIsFresh ==
    ASSUME IInv, NEW t \in Triggers, NEW u \in Triggers,
           request[t].at = "eligible", AtWork(u)
    PROVE  ~Stale(u, request[t].now)
<1>1. request[t].now \in 0 .. clock /\ clock \in Nat
    BY DEF IInv, TypeOK, Began
<1>2. Holds(u) /\ clock <= execution[u].createdAt + SendTime
    BY DEF IInv, Working
<1>3. execution[u].createdAt \in Nat
    BY <1>2, NoneAssumption DEF IInv, TypeOK, Holds
<1> QED BY <1>1, <1>2, <1>3, TimesAssumption DEF Stale

LEMMA ReleaseStaleReservationKeeps ==
    ASSUME IInv, NEW t \in Triggers, ReleaseStaleReservation(t) PROVE IInv'
<1> DEFINE stale == {u \in Triggers : Stale(u, request[t].now)}
<1> USE DEF IInv
<1>1. /\ request[t].at = "eligible"
      /\ execution' = [u \in Triggers |->
            IF u \in stale THEN [execution[u] EXCEPT !.status = "FAILED"] ELSE execution[u]]
      /\ message' = [u \in Triggers |->
            IF u \in stale /\ message[u] = "PENDING" THEN "FAILED" ELSE message[u]]
      /\ request' = [request EXCEPT ![t].at = "released"]
      /\ UNCHANGED <<clock, delivered, lastAutoReplyAt, needsManualFollowUp>>
    BY DEF ReleaseStaleReservation, GoTo, Conversation
<1>2. \A u \in stale : Holds(u) /\ execution'[u].status = "FAILED"
                       /\ execution'[u].createdAt = execution[u].createdAt
                       /\ execution'[u].sentAt = execution[u].sentAt
    BY <1>1 DEF Stale, TypeOK
<1>3. \A u \in Triggers \ stale : execution'[u] = execution[u] /\ message'[u] = message[u]
    BY <1>1
<1>4. \A u \in Triggers : /\ execution'[u].status = "SENT" <=> execution[u].status = "SENT"
                          /\ execution'[u].sentAt = execution[u].sentAt
    BY <1>2, <1>3 DEF Holds
<1>5. \A u \in Triggers : Holds(u)' => Holds(u)
    BY <1>2, <1>3 DEF Holds
<1>6. TypeOK'
  <2>1. execution' \in [Triggers -> ExecutionRow]
    <3>1. ASSUME NEW u \in Triggers
          PROVE  (IF u \in stale THEN [execution[u] EXCEPT !.status = "FAILED"]
                                 ELSE execution[u]) \in ExecutionRow
        BY DEF TypeOK, ExecutionRow, ExecutionStatus
    <3> QED BY <3>1, <1>1
  <2>2. \A u \in Triggers : /\ execution'[u].status = "none" <=> execution'[u].createdAt = None
                            /\ execution'[u].status = "SENT" <=> execution'[u].sentAt # None
      BY <1>2, <1>3 DEF TypeOK, Holds
  <2>3. message' \in [Triggers -> ExecutionStatus] /\ request' \in [Triggers -> RequestRow]
      BY <1>1 DEF TypeOK, ExecutionStatus, RequestRow, Places
  <2> QED BY <1>1, <2>1, <2>2, <2>3 DEF TypeOK, ExecutionRow, RequestRow, Places
<1>7. ASSUME NEW u \in Triggers PROVE Began(u)' /\ Working(u)'
  <2>1. request'[u].now = request[u].now
    BY <1>1 DEF TypeOK
  <2>2. CASE AtWork(u)
    <3>1. u # t /\ u \notin stale
        BY <2>2, <1>1, AtWorkIsFresh DEF AtWork
    <3>2. request'[u] = request[u] /\ execution'[u] = execution[u]
        BY <3>1, <1>1, <1>3 DEF TypeOK
    <3>3. ~Recent(request[u].now)'
        BY <2>1, <2>2, <1>4 DEF Working, Recent
    <3> QED BY <2>2, <3>1, <3>2, <3>3, <1>1 DEF Began, Working, AtWork, Holds
  <2>3. CASE ~AtWork(u)
    <3>1. request'[u].at = IF u = t THEN "released" ELSE request[u].at
        BY <1>1 DEF TypeOK
    <3>2. ~AtWork(u)'
        BY <2>3, <3>1 DEF AtWork
    <3>3. request[u].at \in {"waiting", "eligible", "released"} => u \notin stale
        BY <1>2 DEF Began, Holds, NoExecution
    <3> QED BY <2>1, <2>3, <3>1, <3>2, <3>3, <1>1, <1>3 DEF Began, Working, AtWork
  <2> QED BY <2>2, <2>3
<1>8. OneReservation'
    BY <1>5 DEF OneReservation
<1>9. MessageFollowsExecution'
    BY <1>1, <1>2, <1>3, <1>4 DEF MessageFollowsExecution, Holds
<1>10. RepliesAreSpaced'
    BY <1>4 DEF RepliesAreSpaced
<1> QED BY <1>6, <1>7, <1>8, <1>9, <1>10

\* What was sent a cooldown before a request began is still so.
LEMMA ClaimKeeps ==
    ASSUME IInv, NEW t \in Triggers, Claim(t) PROVE IInv'
<1> DEFINE claimed == [status |-> "PENDING", createdAt |-> clock, sentAt |-> None]
<1> USE DEF IInv
<1>1. /\ request[t].at = "released"
      /\ \A u \in Triggers : ~Holds(u)
      /\ ~Recent(request[t].now)
      /\ execution' = [execution EXCEPT ![t] = claimed]
      /\ message' = [message EXCEPT ![t] = "PENDING"]
      /\ request' = [request EXCEPT ![t].at = "claimed"]
      /\ UNCHANGED <<clock, delivered, lastAutoReplyAt, needsManualFollowUp>>
    BY DEF Claim, CanClaim, GoTo, Conversation
<1>2. /\ execution[t] = NoExecution /\ t \notin delivered
      /\ request[t].now \in 0 .. clock /\ clock \in Nat
    BY <1>1 DEF Began, TypeOK
<1>3. \A u \in Triggers : u # t =>
          execution'[u] = execution[u] /\ message'[u] = message[u] /\ request'[u] = request[u]
    BY <1>1 DEF TypeOK
<1>4. /\ execution'[t] = claimed /\ message'[t] = "PENDING"
      /\ request'[t].at = "claimed" /\ request'[t].now = request[t].now
    BY <1>1 DEF TypeOK
<1>5. TypeOK'
  <2>1. claimed \in ExecutionRow
      BY <1>2 DEF ExecutionRow, ExecutionStatus
  <2>2. execution' \in [Triggers -> ExecutionRow]
      BY <1>1, <2>1 DEF TypeOK, ExecutionRow
  <2>3. \A u \in Triggers : /\ execution'[u].status = "none" <=> execution'[u].createdAt = None
                            /\ execution'[u].status = "SENT" <=> execution'[u].sentAt # None
      BY <1>2, <1>3, <1>4, NoneAssumption DEF TypeOK
  <2>4. message' \in [Triggers -> ExecutionStatus] /\ request' \in [Triggers -> RequestRow]
      BY <1>1 DEF TypeOK, ExecutionStatus, RequestRow, Places
  <2> QED BY <1>1, <2>2, <2>3, <2>4 DEF TypeOK, ExecutionRow, RequestRow, Places
<1>6. \A u \in Triggers : /\ u # t => ~Holds(u)'
                          /\ execution'[u].status = "SENT" => execution[u].status = "SENT" /\ u # t
    BY <1>1, <1>3, <1>4 DEF Holds
<1>7. ASSUME NEW u \in Triggers PROVE Began(u)' /\ Working(u)'
  <2>1. CASE u = t
    <3>1. ~Recent(request[t].now)'
        BY <1>1, <1>3, <1>4, <1>6 DEF Recent
    <3> QED BY <2>1, <3>1, <1>1, <1>2, <1>4, TimesAssumption DEF Began, Working, AtWork, Holds
  <2>2. CASE u # t
    <3>1. ~AtWork(u)
        BY <1>1 DEF Working
    <3> QED BY <2>2, <3>1, <1>1, <1>3 DEF Began, Working, AtWork
  <2> QED BY <2>1, <2>2
<1>8. OneReservation'
    BY <1>6 DEF OneReservation
<1>9. MessageFollowsExecution'
  <2>1. message'[t] = "PENDING" => Holds(t)'
      BY <1>4 DEF Holds
  <2> QED BY <2>1, <1>1, <1>3, <1>6 DEF MessageFollowsExecution, Holds
<1>10. RepliesAreSpaced'
    BY <1>3, <1>6 DEF RepliesAreSpaced
<1> QED BY <1>5, <1>7, <1>8, <1>9, <1>10

LEMMA ProviderAnswersKeeps ==
    ASSUME IInv, NEW t \in Triggers, NEW accepted \in BOOLEAN, NEW answered \in BOOLEAN,
           ProviderAnswers(t, accepted, answered)
    PROVE  IInv'
<1> DEFINE at == IF accepted /\ answered THEN "accepted" ELSE "failed"
<1> USE DEF IInv
<1>1. /\ request[t].at = "claimed"
      /\ delivered' = IF accepted THEN delivered \cup {t} ELSE delivered
      /\ request' = [request EXCEPT ![t].at = at]
      /\ UNCHANGED <<clock, execution, message, lastAutoReplyAt, needsManualFollowUp>>
    BY DEF ProviderAnswers, GoTo, Rows, Conversation
<1>2. TypeOK'
  <2>1. request' \in [Triggers -> RequestRow]
      BY <1>1 DEF TypeOK, RequestRow, Places
  <2> QED BY <1>1, <2>1 DEF TypeOK, RequestRow, Places
<1>3. ASSUME NEW u \in Triggers PROVE Began(u)' /\ Working(u)'
  <2>1. CASE u = t
    <3>1. request'[t].at = at /\ request'[t].now = request[t].now
        BY <1>1 DEF TypeOK
    <3>2. AtWork(t) /\ Began(t) /\ Working(t)
        BY <1>1 DEF AtWork
    <3> QED BY <2>1, <3>1, <3>2, <1>1 DEF Began, Working, AtWork, Holds, Recent
  <2>2. CASE u # t
    <3>1. request'[u] = request[u] /\ (u \in delivered' <=> u \in delivered)
        BY <2>2, <1>1 DEF TypeOK
    <3> QED BY <3>1, <1>1 DEF Began, Working, AtWork, Holds, Recent
  <2> QED BY <2>1, <2>2
<1>4. OneReservation' /\ MessageFollowsExecution' /\ RepliesAreSpaced'
    BY <1>1 DEF OneReservation, MessageFollowsExecution, RepliesAreSpaced, Holds
<1> QED BY <1>2, <1>3, <1>4

\* The request that holds the only reservation records its outcome.
LEMMA OutcomeKeeps ==
    ASSUME IInv, NEW t \in Triggers, AtWork(t), NEW row \in ExecutionRow, NEW status,
           row.createdAt = execution[t].createdAt,
           \/ /\ row.status = "FAILED" /\ status = "FAILED" /\ row.sentAt = None
           \/ /\ row.status = "SENT" /\ status = "SENT" /\ t \in delivered
              /\ row.sentAt \in Nat /\ row.sentAt >= row.createdAt,
           execution' = [execution EXCEPT ![t] = row],
           message' = [message EXCEPT ![t] = status],
           request' = [request EXCEPT ![t] = [at |-> "done", now |-> None]],
           UNCHANGED <<clock, delivered>>,
           lastAutoReplyAt' \in Nat \cup {None}, needsManualFollowUp' \in BOOLEAN
    PROVE  IInv'
<1> USE DEF IInv
<1>1. /\ Holds(t) /\ request[t].now <= execution[t].createdAt /\ ~Recent(request[t].now)
      /\ execution[t].createdAt \in Nat /\ request[t].now \in Nat /\ clock \in Nat
    BY NoneAssumption DEF Began, Working, AtWork, Holds, TypeOK
<1>2. \A u \in Triggers : u # t =>
          execution'[u] = execution[u] /\ message'[u] = message[u] /\ request'[u] = request[u]
    BY DEF TypeOK
<1>3. execution'[t] = row /\ message'[t] = status /\ request'[t] = [at |-> "done", now |-> None]
    BY DEF TypeOK
<1>4. \A u \in Triggers : ~Holds(u)'
    BY <1>1, <1>2, <1>3 DEF OneReservation, Holds
<1>5. TypeOK'
  <2>1. execution' \in [Triggers -> ExecutionRow]
      BY DEF TypeOK, ExecutionRow
  <2>2. \A u \in Triggers : /\ execution'[u].status = "none" <=> execution'[u].createdAt = None
                            /\ execution'[u].status = "SENT" <=> execution'[u].sentAt # None
      BY <1>1, <1>2, <1>3, NoneAssumption DEF TypeOK
  <2>3. message' \in [Triggers -> ExecutionStatus] /\ request' \in [Triggers -> RequestRow]
      BY DEF TypeOK, ExecutionStatus, RequestRow, Places
  <2> QED BY <2>1, <2>2, <2>3 DEF TypeOK, ExecutionRow, RequestRow, Places
<1>6. ASSUME NEW u \in Triggers PROVE Began(u)' /\ Working(u)'
  <2>1. CASE u = t
    BY <2>1, <1>3 DEF Began, Working, AtWork
  <2>2. CASE u # t
    <3>1. ~AtWork(u)
        BY <2>2, <1>1 DEF Working, OneReservation
    <3> QED BY <2>2, <3>1, <1>2 DEF Began, Working, AtWork
  <2> QED BY <2>1, <2>2
<1>7. OneReservation'
    BY <1>4 DEF OneReservation
<1>8. MessageFollowsExecution'
  <2>1. ASSUME NEW u \in Triggers, u # t
        PROVE  message[u] # "PENDING" /\ (execution[u].status = "SENT" =>
                                              message[u] = "SENT" /\ u \in delivered)
      BY <2>1, <1>1 DEF MessageFollowsExecution, OneReservation
  <2> QED BY <2>1, <1>2, <1>3 DEF MessageFollowsExecution, Holds
<1>9. RepliesAreSpaced'
  <2>1. ASSUME NEW u \in Triggers, u # t, execution[u].status = "SENT", row.status = "SENT"
        PROVE  execution[u].sentAt + Cooldown <= row.sentAt
    <3>1. execution[u].sentAt \in Nat
        BY <2>1 DEF TypeOK
    <3>2. execution[u].sentAt + Cooldown <= request[t].now
        BY <2>1, <3>1, <1>1, TimesAssumption DEF Recent
    <3> QED BY <2>1, <3>1, <3>2, <1>1, TimesAssumption
  <2> QED BY <2>1, <1>2, <1>3 DEF RepliesAreSpaced
<1> QED BY <1>5, <1>6, <1>7, <1>8, <1>9

LEMMA RecordFailureKeeps ==
    ASSUME IInv, NEW t \in Triggers, RecordFailure(t) PROVE IInv'
<1> DEFINE row == [execution[t] EXCEPT !.status = "FAILED"]
<1>1. AtWork(t) /\ Holds(t)
    BY DEF RecordFailure, IInv, Working, AtWork
<1>2. /\ row \in ExecutionRow
      /\ row.createdAt = execution[t].createdAt
      /\ row.status = "FAILED" /\ row.sentAt = None
    BY <1>1 DEF IInv, TypeOK, ExecutionRow, ExecutionStatus, Holds
<1>3. /\ execution' = [execution EXCEPT ![t] = row]
      /\ message' = [message EXCEPT ![t] = "FAILED"]
      /\ request' = [request EXCEPT ![t] = [at |-> "done", now |-> None]]
      /\ UNCHANGED <<clock, delivered>>
      /\ lastAutoReplyAt' \in Nat \cup {None} /\ needsManualFollowUp' \in BOOLEAN
    BY DEF RecordFailure, End, Done, Conversation, IInv, TypeOK
<1> HIDE DEF row
<1> QED BY <1>1, <1>2, <1>3, OutcomeKeeps

LEMMA RecordSentKeeps ==
    ASSUME IInv, NEW t \in Triggers, NEW sentAt \in 0 .. clock, RecordSent(t, sentAt)
    PROVE  IInv'
<1> DEFINE row == [execution[t] EXCEPT !.status = "SENT", !.sentAt = sentAt]
<1>1. AtWork(t) /\ t \in delivered /\ sentAt \in Nat
    BY DEF RecordSent, IInv, TypeOK, Began, AtWork
<1>2. /\ row \in ExecutionRow
      /\ row.createdAt = execution[t].createdAt
      /\ row.status = "SENT" /\ row.sentAt \in Nat /\ row.sentAt >= row.createdAt
    BY <1>1 DEF IInv, TypeOK, ExecutionRow, ExecutionStatus, RecordSent
<1>3. execution' = [execution EXCEPT ![t] = row]
    BY DEF RecordSent, IInv, TypeOK
<1>4. /\ message' = [message EXCEPT ![t] = "SENT"]
      /\ request' = [request EXCEPT ![t] = [at |-> "done", now |-> None]]
      /\ UNCHANGED <<clock, delivered>>
      /\ lastAutoReplyAt' \in Nat \cup {None} /\ needsManualFollowUp' \in BOOLEAN
    BY <1>1 DEF RecordSent, End, Done
<1> HIDE DEF row
<1> QED BY <1>1, <1>2, <1>3, <1>4, OutcomeKeeps

\* The echo of a reply and the reply of an operator touch no reservation.
LEMMA EchoReplyKeeps ==
    ASSUME IInv, NEW t \in Triggers, EchoReply(t) PROVE IInv'
<1> USE DEF IInv
<1>1. /\ t \in delivered /\ message' = [message EXCEPT ![t] = "SENT"]
      /\ UNCHANGED <<clock, execution, request, delivered, lastAutoReplyAt, needsManualFollowUp>>
    BY DEF EchoReply, Conversation
<1>2. TypeOK'
    BY <1>1 DEF TypeOK, ExecutionStatus
<1>3. \A u \in Triggers : message'[u] = IF u = t THEN "SENT" ELSE message[u]
    BY <1>1 DEF TypeOK
<1>4. \A u \in Triggers : Began(u)'
    BY <1>1, <1>3 DEF Began
<1>5. \A u \in Triggers : Working(u)'
    BY <1>1 DEF Working, AtWork, Holds, Recent
<1>6. OneReservation' /\ RepliesAreSpaced'
    BY <1>1 DEF OneReservation, RepliesAreSpaced, Holds
<1>7. MessageFollowsExecution'
    BY <1>1, <1>3 DEF MessageFollowsExecution, Holds
<1> QED BY <1>2, <1>4, <1>5, <1>6, <1>7

LEMMA ReplyManuallyKeeps ==
    ASSUME IInv, ReplyManually PROVE IInv'
<1> USE DEF IInv
<1>1. /\ needsManualFollowUp' = FALSE
      /\ UNCHANGED <<clock, execution, message, request, delivered, lastAutoReplyAt>>
    BY DEF ReplyManually, Rows
<1> QED BY <1>1 DEF TypeOK, Began, Working, AtWork, Holds, Recent, OneReservation,
                    MessageFollowsExecution, RepliesAreSpaced

\* Time passes only as far as the requests at work allow.
LEMMA TickKeeps ==
    ASSUME IInv, Tick PROVE IInv'
<1> USE DEF IInv
<1>1. /\ \A t \in Triggers : AtWork(t) => clock < execution[t].createdAt + SendTime
      /\ clock' = clock + 1 /\ clock \in Nat
      /\ UNCHANGED <<execution, message, request, delivered, lastAutoReplyAt, needsManualFollowUp>>
    BY DEF Tick, Rows, Conversation, TypeOK
<1>2. TypeOK'
    BY <1>1 DEF TypeOK
<1>3. ASSUME NEW t \in Triggers PROVE Began(t)' /\ Working(t)'
  <2>1. Began(t)'
    BY <1>1 DEF Began
  <2>2. CASE AtWork(t)
    <3>1. execution[t].createdAt \in Nat
        BY <2>2, NoneAssumption DEF Working, Holds, TypeOK
    <3>2. clock' <= execution[t].createdAt + SendTime
        BY <1>1, <2>2, <3>1, TimesAssumption
    <3> QED BY <2>1, <2>2, <3>2, <1>1 DEF Working, AtWork, Holds, Recent
  <2> QED BY <2>1, <2>2, <1>1 DEF Working, AtWork
<1>4. OneReservation' /\ MessageFollowsExecution' /\ RepliesAreSpaced'
    BY <1>1 DEF OneReservation, MessageFollowsExecution, RepliesAreSpaced, Holds
<1> QED BY <1>2, <1>3, <1>4

LEMMA StutterKeeps ==
    ASSUME IInv, UNCHANGED vars PROVE IInv'
<1> QED BY DEF IInv, vars, TypeOK, Began, Working, AtWork, Holds, Recent, OneReservation,
               MessageFollowsExecution, RepliesAreSpaced

\* Every step of the system keeps the invariant.
LEMMA NextKeepsInvariant == IInv /\ [Next]_vars => IInv'
<1> SUFFICES ASSUME IInv, [Next]_vars PROVE IInv'
    OBVIOUS
<1>1. CASE Tick
    BY <1>1, TickKeeps
<1>2. CASE ReplyManually
    BY <1>2, ReplyManuallyKeeps
<1>3. ASSUME NEW t \in Triggers, Step(t) PROVE IInv'
  <2>1. CASE ReadConversation(t)
      BY <2>1, ReadConversationKeeps
  <2>2. CASE ReleaseStaleReservation(t)
      BY <2>2, ReleaseStaleReservationKeeps
  <2>3. CASE Claim(t)
      BY <2>3, ClaimKeeps
  <2>4. CASE LoseClaim(t)
      BY <2>4, EndKeeps DEF LoseClaim
  <2>5. ASSUME NEW accepted \in BOOLEAN, NEW answered \in BOOLEAN,
               ProviderAnswers(t, accepted, answered)
        PROVE  IInv'
      BY <2>5, ProviderAnswersKeeps
  <2>6. CASE RecordFailure(t)
      BY <2>6, RecordFailureKeeps
  <2>7. ASSUME NEW sentAt \in 0 .. clock, RecordSent(t, sentAt) PROVE IInv'
      BY <2>7, RecordSentKeeps
  <2> QED BY <1>3, <2>1, <2>2, <2>3, <2>4, <2>5, <2>6, <2>7 DEF Step
<1>4. ASSUME NEW t \in Triggers, Crash(t) PROVE IInv'
    BY <1>4, EndKeeps DEF Crash
<1>5. ASSUME NEW t \in Triggers, EchoReply(t) PROVE IInv'
    BY <1>5, EchoReplyKeeps
<1>6. CASE UNCHANGED vars
    BY <1>6, StutterKeeps
<1> QED BY <1>1, <1>2, <1>3, <1>4, <1>5, <1>6 DEF Next

\* The invariant holds in every state of every behaviour.
THEOREM RepliesInvariant == Spec => []IInv
<1> QED BY InitHolds, NextKeepsInvariant, PTL DEF Spec

\* Rows and requests keep their types, and an execution has a time of sending
\* exactly when it was sent.
THEOREM RepliesTypeCorrect == Spec => []TypeOK
<1>1. IInv => TypeOK
    BY DEF IInv
<1> QED BY <1>1, RepliesInvariant, PTL

\* Automatic replies are recorded at least a cooldown apart.
THEOREM RepliesStaySpaced == Spec => []RepliesAreSpaced
<1>1. IInv => RepliesAreSpaced
    BY DEF IInv
<1> QED BY <1>1, RepliesInvariant, PTL

\* A request that is sending holds the conversation's only reservation.
THEOREM SendersHold == Spec => []SenderHolds
<1>1. IInv => SenderHolds
    BY DEF IInv, Working, OneReservation, SenderHolds
<1> QED BY <1>1, RepliesInvariant, PTL

\* An execution and its message end together.
THEOREM MessagesFollowExecutions == Spec => []MessageFollowsExecution
<1>1. IInv => MessageFollowsExecution
    BY DEF IInv
<1> QED BY <1>1, RepliesInvariant, PTL
=============================================================================
