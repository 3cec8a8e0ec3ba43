----------------------------- MODULE Attendances -----------------------------
(***************************************************************************)
(* The attendances of one WhatsApp conversation                            *)
(* (whatsapp-attendance.service.ts), as operators on their sequence.  Each *)
(* runs under the conversation's advisory lock, inside the transaction of  *)
(* whoever calls it.  Times are small numbers; None stands for null.       *)
(***************************************************************************)
EXTENDS Naturals, Sequences

CONSTANTS
    None,   \* no value
    Grace   \* ATTENDANCE_RESOLUTION_GRACE_MINUTES

ASSUME GraceAssumption == Grace \in Nat

AttendanceStatus == {"PENDING", "IN_PROGRESS", "RESOLVED"}

AttendanceRow ==
    [status : AttendanceStatus, openedAt : Nat, firstAgentReplyAt : Nat \cup {None},
     resolvedAt : Nat \cup {None}, inbound : Nat, outbound : Nat]

\* A new attendance counts the message that opens it.
Opened(occurredAt) ==
    [status |-> "PENDING", openedAt |-> occurredAt, firstAgentReplyAt |-> None,
     resolvedAt |-> None, inbound |-> 1, outbound |-> 0]

Active(list) == {i \in DOMAIN list : list[i].status # "RESOLVED"}
Resolved(list) == DOMAIN list \ Active(list)

LastResolved(list) ==
    CHOOSE i \in Resolved(list) :
        \A j \in Resolved(list) : list[j].resolvedAt <= list[i].resolvedAt

\* Mutant: without a grace period.
IsCourtesyNever(list, occurredAt) ==
    /\ Resolved(list) # {}
    /\ list[LastResolved(list)].resolvedAt > occurredAt

\* The last attendance was resolved less than a grace period before the
\* contact wrote.
IsCourtesy(list, occurredAt) ==
    /\ Resolved(list) # {}
    /\ list[LastResolved(list)].resolvedAt + Grace > occurredAt

\* The attendance a message of the contact belongs to.
InboundTarget(list, occurredAt) ==
    CASE Active(list) # {} -> CHOOSE i \in Active(list) : TRUE
      [] Active(list) = {} /\ IsCourtesy(list, occurredAt) -> LastResolved(list)
      [] OTHER -> Len(list) + 1

RecordInbound(list, occurredAt) ==
    LET i == InboundTarget(list, occurredAt)
    IN  IF i \in DOMAIN list THEN [list EXCEPT ![i].inbound = @ + 1]
                             ELSE Append(list, Opened(occurredAt))

\* Mutant: the active attendance, whenever the message was created.
AnsweredActive(list, message) ==
    IF message.attendance # 0 THEN message.attendance
    ELSE IF Active(list) = {} THEN 0 ELSE CHOOSE i \in Active(list) : TRUE

\* Attendances a message of the operator may answer: 0 when there is none,
\* and the attendance it has when it is linked already.
Answered(list, message) ==
    LET open == {i \in Active(list) : list[i].openedAt <= message.createdAt}
    IN  IF message.attendance # 0 THEN message.attendance
        ELSE IF open = {} THEN 0 ELSE CHOOSE i \in open : TRUE

\* Mutant: a message that is linked already counts again.
RecordOutboundAgain(list, message, occurredAt) ==
    LET i == Answered(list, message)
    IN  IF i = 0 THEN list ELSE [list EXCEPT ![i].outbound = @ + 1]

\* Only the first message of the operator is the reply.
Replied(x, occurredAt) ==
    [x EXCEPT !.outbound = @ + 1,
              !.status = "IN_PROGRESS",
              !.firstAgentReplyAt =
                  IF x.status = "PENDING" /\ @ = None THEN occurredAt ELSE @]

RecordManualOutbound(list, message, occurredAt) ==
    LET i == Answered(list, message)
    IN  IF i = 0 \/ message.attendance # 0 THEN list
        ELSE [list EXCEPT ![i] = Replied(@, occurredAt)]

Resolve(list, now) ==
    [i \in DOMAIN list |->
        IF i \in Active(list)
        THEN [list[i] EXCEPT !.status = "RESOLVED", !.resolvedAt = now]
        ELSE list[i]]
=============================================================================
