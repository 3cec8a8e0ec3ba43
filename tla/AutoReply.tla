------------------------------ MODULE AutoReply ------------------------------
(***************************************************************************)
(* Automatic replies to one WhatsApp conversation                          *)
(* (whatsapp-auto-reply.service.ts).  Each message of the contact that was *)
(* stored for the first time triggers tryReplyToInbound: it reads the      *)
(* conversation, releases a reservation that is too old, claims one of its *)
(* own with a PENDING execution and a PENDING message, calls the provider  *)
(* and records the outcome.  Nothing but the age of its reservation tells  *)
(* an execution whose process died from one that is still at work.         *)
(***************************************************************************)
EXTENDS Integers

CONSTANTS
    Triggers,  \* messages of the contact
    None,      \* no time
    Cooldown,  \* cooldownMinutes
    Ttl,       \* reservationTtlMs
    SendTime,  \* longest time from a claim to the record of its outcome
    LastTime   \* last time that is modelled (bound)

\* The provider's client gives up after seconds, a reservation after minutes.
ASSUME TimesAssumption ==
    /\ Cooldown \in Nat /\ Ttl \in Nat /\ SendTime \in Nat /\ LastTime \in Nat
    /\ SendTime <= Ttl
ASSUME NoneAssumption == None \notin Int

VARIABLES
    clock,
    execution,   \* the WhatsAppAutoReplyExecution of each trigger
    message,     \* status of the outgoing message of each trigger
    request,     \* what the webhook of each trigger is doing
    delivered,   \* triggers whose reply the provider accepted
    lastAutoReplyAt,
    needsManualFollowUp

vars == <<clock, execution, message, request, delivered,
          lastAutoReplyAt, needsManualFollowUp>>

ExecutionStatus == {"none", "PENDING", "SENT", "FAILED"}
NoExecution == [status |-> "none", createdAt |-> None, sentAt |-> None]

\* now is what tryReplyToInbound takes from the clock when it begins.
Waiting == [at |-> "waiting", now |-> None]
Done == [at |-> "done", now |-> None]

TypeOK ==
    /\ clock \in Nat
    /\ execution \in [Triggers -> [status : ExecutionStatus, createdAt : Nat \cup {None},
                                   sentAt : Nat \cup {None}]]
    /\ \A t \in Triggers :
        /\ execution[t].status = "none" <=> execution[t].createdAt = None
        /\ execution[t].status = "SENT" <=> execution[t].sentAt # None
    /\ message \in [Triggers -> ExecutionStatus]
    /\ request \in [Triggers ->
           [at : {"waiting", "eligible", "released", "claimed", "accepted", "failed", "done"},
            now : Nat \cup {None}]]
    /\ delivered \subseteq Triggers
    /\ lastAutoReplyAt \in Nat \cup {None}
    /\ needsManualFollowUp \in BOOLEAN

Init ==
    /\ clock = 0
    /\ execution = [t \in Triggers |-> NoExecution]
    /\ message = [t \in Triggers |-> "none"]
    /\ request = [t \in Triggers |-> Waiting]
    /\ delivered = {}
    /\ lastAutoReplyAt = None
    /\ needsManualFollowUp = FALSE

GoTo(t, at) == request' = [request EXCEPT ![t].at = at]
End(t) == request' = [request EXCEPT ![t] = Done]
Rows == <<execution, message>>
Conversation == <<lastAutoReplyAt, needsManualFollowUp>>

\* reservationKey, unique in the table.
Holds(t) == execution[t].status = "PENDING"

(***************************************************************************)
(* The conversation as tryReplyToInbound finds it.                         *)
(***************************************************************************)
\* A reply was sent less than a cooldown before now.
Recent(now) ==
    \E t \in Triggers : execution[t].status = "SENT" /\ execution[t].sentAt + Cooldown > now

\* The connection, the recipient, the configuration, its schedule and its
\* audience allow a reply or end the request.
ReadConversation(t) ==
    /\ request[t] = Waiting
    /\ \/ /\ ~Recent(clock)
          /\ request' = [request EXCEPT ![t] = [at |-> "eligible", now |-> clock]]
       \/ End(t)
    /\ UNCHANGED <<clock, delivered, Rows, Conversation>>

\* Mutant: whoever holds the reservation loses it.
StaleAtOnce(t, now) == Holds(t)

Stale(t, now) == Holds(t) /\ execution[t].createdAt + Ttl < now

\* Mutant: the message of a released execution stays PENDING.
ReleaseExecutionOnly(t) ==
    /\ request[t].at = "eligible"
    /\ execution' = [u \in Triggers |->
           IF Stale(u, request[t].now) THEN [execution[u] EXCEPT !.status = "FAILED"]
                                       ELSE execution[u]]
    /\ GoTo(t, "released")
    /\ UNCHANGED <<clock, message, delivered, Conversation>>

ReleaseStaleReservation(t) ==
    /\ request[t].at = "eligible"
    /\ LET stale == {u \in Triggers : Stale(u, request[t].now)}
       IN  /\ execution' = [u \in Triggers |->
                  IF u \in stale THEN [execution[u] EXCEPT !.status = "FAILED"]
                                 ELSE execution[u]]
           /\ message' = [u \in Triggers |->
                  IF u \in stale /\ message[u] = "PENDING" THEN "FAILED" ELSE message[u]]
    /\ GoTo(t, "released")
    /\ UNCHANGED <<clock, delivered, Conversation>>

\* Mutant: without the second look at the cooldown.
CanClaimUnheld(t) == \A u \in Triggers : ~Holds(u)

\* The unique reservation and the second look at the cooldown, in one
\* transaction.
CanClaim(t) ==
    /\ \A u \in Triggers : ~Holds(u)
    /\ ~Recent(request[t].now)

Claim(t) ==
    /\ request[t].at = "released"
    /\ CanClaim(t)
    /\ execution' = [execution EXCEPT ![t] =
           [status |-> "PENDING", createdAt |-> clock, sentAt |-> None]]
    /\ message' = [message EXCEPT ![t] = "PENDING"]
    /\ GoTo(t, "claimed")
    /\ UNCHANGED <<clock, delivered, Conversation>>

LoseClaim(t) ==
    /\ request[t].at = "released"
    /\ ~CanClaim(t)
    /\ End(t)
    /\ UNCHANGED <<clock, delivered, Rows, Conversation>>

\* The answer may be lost after the provider has accepted the reply.
ProviderAnswers(t, accepted, answered) ==
    /\ request[t].at = "claimed"
    /\ delivered' = IF accepted THEN delivered \cup {t} ELSE delivered
    /\ GoTo(t, IF accepted /\ answered THEN "accepted" ELSE "failed")
    /\ UNCHANGED <<clock, Rows, Conversation>>

RecordFailure(t) ==
    /\ request[t].at = "failed"
    /\ execution' = [execution EXCEPT ![t].status = "FAILED"]
    /\ message' = [message EXCEPT ![t] = "FAILED"]
    /\ End(t)
    /\ UNCHANGED <<clock, delivered, Conversation>>

\* Mutant: the execution does not say when it was sent.
RecordSentUndated(t, sentAt) ==
    /\ request[t].at = "accepted"
    /\ execution' = [execution EXCEPT ![t].status = "SENT"]
    /\ message' = [message EXCEPT ![t] = "SENT"]
    /\ lastAutoReplyAt' = sentAt
    /\ needsManualFollowUp' = TRUE
    /\ End(t)
    /\ UNCHANGED <<clock, delivered>>

\* The time of the reply is taken before the transaction that records it.
RecordSent(t, sentAt) ==
    /\ request[t].at = "accepted"
    /\ sentAt >= execution[t].createdAt
    /\ execution' = [execution EXCEPT ![t].status = "SENT", ![t].sentAt = sentAt]
    /\ message' = [message EXCEPT ![t] = "SENT"]
    /\ lastAutoReplyAt' = sentAt
    /\ needsManualFollowUp' = TRUE
    /\ End(t)
    /\ UNCHANGED <<clock, delivered>>

(***************************************************************************)
(* What happens meanwhile.                                                 *)
(***************************************************************************)
\* The process dies; what it wrote stays.
Crash(t) ==
    /\ request[t].at \notin {"waiting", "done"}
    /\ End(t)
    /\ UNCHANGED <<clock, delivered, Rows, Conversation>>

\* The echo of a reply: its message is SENT whatever its execution is.
EchoReply(t) ==
    /\ t \in delivered
    /\ message' = [message EXCEPT ![t] = "SENT"]
    /\ UNCHANGED <<clock, execution, request, delivered, Conversation>>

\* An operator's own message is confirmed.
ReplyManually ==
    /\ needsManualFollowUp' = FALSE
    /\ UNCHANGED <<clock, request, delivered, Rows, lastAutoReplyAt>>

AtWork(t) == request[t].at \in {"claimed", "accepted", "failed"}

\* A request at work records its outcome in time.
Tick ==
    /\ clock < LastTime
    /\ \A t \in Triggers : AtWork(t) => clock < execution[t].createdAt + SendTime
    /\ clock' = clock + 1
    /\ UNCHANGED <<request, delivered, Rows, Conversation>>

Step(t) ==
    \/ ReadConversation(t) \/ ReleaseStaleReservation(t)
    \/ Claim(t) \/ LoseClaim(t)
    \/ \E accepted, answered \in BOOLEAN : ProviderAnswers(t, accepted, answered)
    \/ RecordFailure(t)
    \/ \E sentAt \in 0 .. clock : RecordSent(t, sentAt)

Next ==
    \/ Tick \/ ReplyManually
    \/ \E t \in Triggers : Step(t) \/ Crash(t) \/ EchoReply(t)

Spec == Init /\ [][Next]_vars

(***************************************************************************)
(* Properties.                                                             *)
(***************************************************************************)
\* Two automatic replies of a conversation are recorded at least a cooldown
\* apart, although webhooks run together, each with the time it began at, and
\* a reservation is taken over from requests that died.
RepliesAreSpaced ==
    \A t, u \in Triggers :
        t # u /\ execution[t].status = "SENT" /\ execution[u].status = "SENT" =>
            \/ execution[t].sentAt + Cooldown <= execution[u].sentAt
            \/ execution[u].sentAt + Cooldown <= execution[t].sentAt

\* A request that is sending holds the conversation's reservation: no other
\* request has released it, and none sends at the same time.
SenderHolds ==
    \A t, u \in Triggers :
        AtWork(t) => Holds(t) /\ (AtWork(u) => t = u)

\* An execution and its message end together: none is left PENDING by an
\* execution that ended, and the message of a reply that was sent says so.
MessageFollowsExecution ==
    \A t \in Triggers :
        /\ message[t] = "PENDING" => Holds(t)
        /\ execution[t].status = "SENT" => message[t] = "SENT" /\ t \in delivered
(***************************************************************************)
(* The inductive invariant.                                                *)
(***************************************************************************)
\* A request knows when it began; until it claims a reservation its trigger
\* has no execution.
Began(t) ==
    /\ request[t].at \notin {"waiting", "done"} => request[t].now \in 0 .. clock
    /\ request[t].at \in {"waiting", "eligible", "released"} =>
          execution[t] = NoExecution /\ message[t] = "none" /\ t \notin delivered
    /\ request[t].at = "accepted" => t \in delivered

\* A request at work holds a reservation that is young enough, and every reply
\* it knows of was sent a cooldown before it began.
Working(t) ==
    AtWork(t) =>
        /\ Holds(t)
        /\ request[t].now <= execution[t].createdAt
        /\ clock <= execution[t].createdAt + SendTime
        /\ ~Recent(request[t].now)

OneReservation == \A t, u \in Triggers : Holds(t) /\ Holds(u) => t = u

IInv ==
    /\ TypeOK
    /\ \A t \in Triggers : Began(t) /\ Working(t)
    /\ OneReservation
    /\ MessageFollowsExecution
    /\ RepliesAreSpaced
=============================================================================
