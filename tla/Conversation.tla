----------------------------- MODULE Conversation -----------------------------
(***************************************************************************)
(* One WhatsApp conversation (whatsapp.service.ts): webhooks of messages,  *)
(* receipts and echoes, texts that operators send and retry, the           *)
(* resolution of its attendance and the marking of it as read, each a      *)
(* request of its own that runs together with the others.                  *)
(*                                                                         *)
(* Whoever links a message to an attendance updates the conversation's row *)
(* first and then takes its advisory lock; the resolution takes the lock   *)
(* first and updates the row last.  A transaction that meets a resolution  *)
(* in progress therefore deadlocks with it and the database aborts one of  *)
(* the two; otherwise the transactions of a conversation run in turn.      *)
(*                                                                         *)
(* An outgoing text is identified for the provider by its requestId, which *)
(* is also the identifier of its echo and of its receipts.  The contact's  *)
(* phone is BR_OPERATIONAL: for another one a lost answer keeps the text   *)
(* PENDING and nothing is ever retried.                                    *)
(***************************************************************************)
EXTENDS Attendances, Integers, FiniteSets

CONSTANTS
    Inbound,    \* messages the contact writes
    Rows,       \* rows of outgoing messages
    Attempts,   \* requestIds: of the operator's texts and of their retries
    Sessions,   \* requests in progress at the same time
    LastTime,   \* last time that is modelled (bound)
    Jobs,       \* kinds of requests a run considers
    Crashes     \* whether a request may die between two steps

JobKinds == {"inbound", "send", "retry", "echo", "receipt", "resolve", "markRead"}

ASSUME JobsAssumption == Jobs \subseteq JobKinds /\ Crashes \in BOOLEAN /\ LastTime \in Nat
ASSUME FiniteAssumption == IsFiniteSet(Inbound) /\ IsFiniteSet(Rows)
ASSUME NoneAssumption == None \notin Nat \cup Attempts

VARIABLES
    clock,
    conversation,   \* status and unreadCount
    attendances,
    seen,           \* provider identifiers in WhatsAppInboundMessage
    inbox,          \* inbound rows of the conversation, oldest first
    link,           \* attendance of each message of the contact, 0 for none
    row,            \* outgoing rows
    foreign,        \* echoes for which a row of their own was created
    accepted,       \* when the provider accepted each attempt, or None
    device,         \* what the contact's device has done with each attempt
    readAtProvider, \* messages of the contact confirmed as read
    session

vars == <<clock, conversation, attendances, seen, inbox, link,
          row, foreign, accepted, device, readAtProvider, session>>

Times == 0 .. LastTime
MessageStatus == {"PENDING", "SENT", "DELIVERED", "READ", "FAILED"}
MessageRow ==
    [status : MessageStatus \cup {"none"}, requestId : Attempts \cup {None},
     providerMessageId : Attempts \cup {None}, attendance : Nat,
     createdAt : Times, sentAt : Times \cup {None}]
NoRow == [status |-> "none", requestId |-> None, providerMessageId |-> None,
          attendance |-> 0, createdAt |-> 0, sentAt |-> None]
Idle == [job |-> "idle"]
Answers == {"identified", "confirmed", "lost", "refused"}

\* What a request in progress has read, decided and been told, by its step.
SessionState ==
    LET sending == {"send", "retry"}
    IN  {Idle}
        \cup [job : {"inbound"}, at : {"conversation"}, message : Inbound, occurredAt : Times]
        \cup [job : {"retry"}, at : {"read"}, row : Rows]
        \cup [job : sending, at : {"claimed"}, row : Rows, requestId : Attempts]
        \cup [job : sending, at : {"answered"}, row : Rows, requestId : Attempts, answer : Answers]
        \cup [job : sending, at : {"confirmed"}, row : Rows, requestId : Attempts,
              answer : {"identified", "confirmed"}, sentAt : Times]
        \cup [job : {"echo"}, at : {"found"}, row : Rows, requestId : Attempts,
              providerMessageId : Attempts \cup {None}, sentAt : Times \cup {None}]
        \cup [job : {"receipt"}, at : {"found"}, row : Rows, state : {"DELIVERED", "READ"},
              status : MessageStatus]
        \cup [job : {"resolve"}, at : {"locked"}]
        \cup [job : {"markRead"}, at : {"counted", "confirmed"}, count : Nat]

TypeOK ==
    /\ clock \in Times
    /\ conversation \in [status : {"OPEN", "RESOLVED"}, unread : 0 .. Cardinality(Inbound)]
    /\ attendances \in Seq(AttendanceRow) /\ inbox \in Seq(Inbound)
    /\ Len(attendances) <= Cardinality(Inbound)
    /\ seen \subseteq Inbound /\ readAtProvider \subseteq Inbound
    /\ link \in [Inbound -> 0 .. Len(attendances)]
    /\ row \in [Rows -> MessageRow]
    /\ \A p \in Rows : row[p].attendance <= Len(attendances)
    /\ foreign \subseteq Attempts
    /\ accepted \in [Attempts -> Times \cup {None}]
    /\ device \in [Attempts -> {"nothing", "delivered", "read"}]
    /\ session \in [Sessions -> SessionState]

Init ==
    /\ clock = 0
    /\ conversation = [status |-> "OPEN", unread |-> 0]
    /\ attendances = <<>> /\ seen = {} /\ inbox = <<>>
    /\ link = [m \in Inbound |-> 0]
    /\ row = [p \in Rows |-> NoRow] /\ foreign = {}
    /\ accepted = [a \in Attempts |-> None]
    /\ device = [a \in Attempts |-> "nothing"]
    /\ readAtProvider = {}
    /\ session = [s \in Sessions |-> Idle]

(***************************************************************************)
(* Requests and the lock of the conversation.                              *)
(***************************************************************************)
Begin(s, request) ==
    /\ request.job \in Jobs
    /\ session[s] = Idle
    /\ session' = [session EXCEPT ![s] = request]
Finish(s) == session' = [session EXCEPT ![s] = Idle]
Doing(s, job, at) == session[s].job = job /\ session[s].at = at
Sending(s, at) == Doing(s, "send", at) \/ Doing(s, "retry", at)

BeingResolved == \E s \in Sessions : session[s].job = "resolve"

OutgoingSame == UNCHANGED <<row, foreign, accepted, device>>
InboundSame == UNCHANGED <<seen, inbox, link, readAtProvider>>
EpisodesSame == UNCHANGED <<conversation, attendances>>
Same == UNCHANGED clock

\* Transactions that update the conversation's row and then ask for its lock.
NeedsLock(s) ==
    Doing(s, "inbound", "conversation") \/ Doing(s, "send", "confirmed")
    \/ Doing(s, "echo", "found")

\* The victim's transaction is rolled back.  The webhook of a message is
\* answered all the same, and a text stays as the provider's answer left it.
Deadlock(s, r) ==
    /\ NeedsLock(s) /\ session[r].job = "resolve"
    /\ \E victim \in {s, r} : Finish(victim)
    /\ EpisodesSame /\ InboundSame /\ OutgoingSame /\ Same

Crash(s) ==
    /\ Crashes
    /\ session[s] # Idle
    /\ Finish(s)
    /\ EpisodesSame /\ InboundSame /\ OutgoingSame /\ Same

(***************************************************************************)
(* The contact and the provider.                                           *)
(***************************************************************************)
Tick ==
    /\ clock < LastTime
    /\ clock' = clock + 1
    /\ UNCHANGED session
    /\ EpisodesSame /\ InboundSame /\ OutgoingSame

DeviceReceives(a, state) ==
    /\ accepted[a] # None
    /\ <<device[a], state>> \in {<<"nothing", "delivered">>, <<"delivered", "read">>}
    /\ device' = [device EXCEPT ![a] = state]
    /\ UNCHANGED <<row, foreign, accepted, session>>
    /\ EpisodesSame /\ InboundSame /\ Same

(***************************************************************************)
(* The webhook of a message the contact wrote, delivered once or more.     *)
(* The row of WhatsAppInboundMessage commits first and makes a later       *)
(* delivery a duplicate, which the conversation does not see.              *)
(***************************************************************************)
ReceiveWebhook(s, m, occurredAt) ==
    /\ m \notin seen
    /\ Begin(s, [job |-> "inbound", at |-> "conversation",
                 message |-> m, occurredAt |-> occurredAt])
    /\ seen' = seen \cup {m}
    /\ UNCHANGED <<inbox, link, readAtProvider>>
    /\ EpisodesSame /\ OutgoingSame /\ Same

ProcessConversationWebhook(s) ==
    /\ Doing(s, "inbound", "conversation")
    /\ ~BeingResolved
    /\ LET m == session[s].message
           at == session[s].occurredAt
       IN  /\ inbox' = Append(inbox, m)
           /\ attendances' = RecordInbound(attendances, at)
           /\ link' = [link EXCEPT ![m] = InboundTarget(attendances, at)]
    /\ conversation' = [status |-> "OPEN", unread |-> conversation.unread + 1]
    /\ Finish(s)
    /\ UNCHANGED <<seen, readAtProvider>> /\ OutgoingSame /\ Same

(***************************************************************************)
(* Sending a text: a PENDING row, the provider's call, its identifier, and *)
(* the transaction that confirms it.                                       *)
(***************************************************************************)
ByRequestId(a) == {p \in Rows : row[p].requestId = a}
ByProviderId(a) == {p \in Rows : row[p].providerMessageId = a}

SetRow(p, r) == row' = [row EXCEPT ![p] = r]
ProviderSame == UNCHANGED <<foreign, accepted, device>>

\* The unique index on provider identifiers.
MayHold(p, a) == a = None \/ (ByProviderId(a) \subseteq {p} /\ a \notin foreign)

\* The browser draws a requestId for each text; one that is posted again
\* finds its row and changes nothing.
SendConversationTextMessage(s, p, a) ==
    /\ row[p] = NoRow
    /\ accepted[a] = None /\ ByRequestId(a) = {}
    /\ Begin(s, [job |-> "send", at |-> "claimed", row |-> p, requestId |-> a])
    /\ SetRow(p, [NoRow EXCEPT !.status = "PENDING", !.requestId = a, !.createdAt = clock])
    /\ ProviderSame /\ EpisodesSame /\ InboundSame /\ Same

RetryConversationMessage(s, p) ==
    /\ row[p].status = "FAILED"
    /\ Begin(s, [job |-> "retry", at |-> "read", row |-> p])
    /\ EpisodesSame /\ InboundSame /\ OutgoingSame /\ Same

\* Mutant: the claim does not look at the status.
ClaimableAlways(p) == TRUE

\* The claim's WHERE: a retry that was overtaken by another one ends here.
Claimable(p) == row[p].status = "FAILED"

\* The provider refuses a requestId it knows; one it refused before is as good
\* as a fresh one.
ClaimRetry(s, a) ==
    /\ Doing(s, "retry", "read")
    /\ LET p == session[s].row
       IN  IF Claimable(p)
           THEN /\ accepted[a] = None /\ ByRequestId(a) = {}
                /\ \A r \in Sessions : Sending(r, "claimed") => session[r].requestId # a
                /\ SetRow(p, [row[p] EXCEPT !.status = "PENDING", !.requestId = a,
                                            !.providerMessageId = None])
                /\ session' = [session EXCEPT ![s] =
                      [job |-> "retry", at |-> "claimed", row |-> p, requestId |-> a]]
           ELSE Finish(s) /\ UNCHANGED row
    /\ ProviderSame /\ EpisodesSame /\ InboundSame /\ Same

\* The conversation's identity, its connection or the quoted message changed.
FailPendingConversationMessage(s) ==
    /\ Doing(s, "send", "claimed")
    /\ SetRow(session[s].row, [row[session[s].row] EXCEPT !.status = "FAILED"])
    /\ Finish(s)
    /\ ProviderSame /\ EpisodesSame /\ InboundSame /\ Same

ProviderAnswers(s, answer, taken) ==
    /\ Sending(s, "claimed")
    /\ taken = (answer \in {"identified", "confirmed"}) \/ answer = "lost"
    /\ accepted' = [accepted EXCEPT ![session[s].requestId] = IF taken THEN clock ELSE @]
    /\ session' = [session EXCEPT ![s] =
          [job |-> @.job, at |-> "answered", row |-> @.row, requestId |-> @.requestId,
           answer |-> answer]]
    /\ UNCHANGED <<row, foreign, device>> /\ EpisodesSame /\ InboundSame /\ Same

\* A lost answer is a failure as well.
ProviderFailed(s) ==
    /\ Sending(s, "answered")
    /\ session[s].answer \in {"lost", "refused"}
    /\ LET p == session[s].row
       IN  SetRow(p, [row[p] EXCEPT !.status = "FAILED"])
    /\ Finish(s)
    /\ ProviderSame /\ EpisodesSame /\ InboundSame /\ Same

Identifier(s) == IF session[s].answer = "identified" THEN session[s].requestId ELSE None

\* The identifier has a statement of its own, whose failure is ignored.
RememberProviderConfirmation(s) ==
    /\ Sending(s, "answered")
    /\ session[s].answer \in {"identified", "confirmed"}
    /\ LET p == session[s].row
       IN  IF MayHold(p, Identifier(s))
           THEN SetRow(p, [row[p] EXCEPT !.providerMessageId = Identifier(s)])
           ELSE UNCHANGED row
    /\ session' = [session EXCEPT ![s] =
          [job |-> @.job, at |-> "confirmed", row |-> @.row, requestId |-> @.requestId,
           answer |-> @.answer, sentAt |-> clock]]
    /\ ProviderSame /\ EpisodesSame /\ InboundSame /\ Same

\* The last transaction.  Only a text that was not retried answers its
\* attendance here.
ConfirmSent(s) ==
    /\ Sending(s, "confirmed")
    /\ session[s].job = "send" => ~BeingResolved
    /\ LET p == session[s].row
           sent == [row[p] EXCEPT !.status = "SENT", !.sentAt = session[s].sentAt,
                                  !.providerMessageId = Identifier(s)]
       IN  IF ~MayHold(p, Identifier(s)) THEN UNCHANGED <<row, attendances>>
           ELSE IF session[s].job = "retry" THEN SetRow(p, sent) /\ UNCHANGED attendances
           ELSE /\ SetRow(p, [sent EXCEPT !.attendance = Answered(attendances, row[p])])
                /\ attendances' = RecordManualOutbound(attendances, row[p], session[s].sentAt)
    /\ Finish(s)
    /\ UNCHANGED conversation /\ ProviderSame /\ InboundSame /\ Same

(***************************************************************************)
(* Webhooks about outgoing messages, repeated and in any order.            *)
(***************************************************************************)
\* An echo looks for its row before it updates it.
FindEchoed(s, a) ==
    /\ accepted[a] # None /\ a \notin foreign
    /\ \E p \in IF ByProviderId(a) # {} THEN ByProviderId(a) ELSE ByRequestId(a) :
          Begin(s, [job |-> "echo", at |-> "found", requestId |-> a, row |-> p,
                    providerMessageId |-> row[p].providerMessageId, sentAt |-> row[p].sentAt])
    /\ EpisodesSame /\ InboundSame /\ OutgoingSame /\ Same

\* The echo of an attempt whose row has been claimed by a retry since.
CreateEchoed(a) ==
    /\ "echo" \in Jobs
    /\ accepted[a] # None /\ a \notin foreign
    /\ ByProviderId(a) \cup ByRequestId(a) = {}
    /\ foreign' = foreign \cup {a}
    /\ UNCHANGED <<row, accepted, device, session>>
    /\ EpisodesSame /\ InboundSame /\ Same

Otherwise(x, y) == IF x = None THEN y ELSE x

ReconcileOutgoing(s) ==
    /\ Doing(s, "echo", "found") /\ ~BeingResolved
    /\ LET p == session[s].row
           a == session[s].requestId
           sentAt == Otherwise(session[s].sentAt, accepted[a])
           id == Otherwise(session[s].providerMessageId, a)
       IN  IF MayHold(p, id)
           THEN /\ SetRow(p, [row[p] EXCEPT
                        !.status = "SENT", !.providerMessageId = id, !.sentAt = sentAt,
                        !.attendance = Answered(attendances, row[p])])
                /\ attendances' = RecordManualOutbound(attendances, row[p], sentAt)
           ELSE UNCHANGED <<row, attendances>>
    /\ Finish(s)
    /\ UNCHANGED conversation /\ ProviderSame /\ InboundSame /\ Same

\* A receipt reads the rows of its identifiers and then updates each by id.
ReadReceipt(s, a, state) ==
    /\ device[a] = "read" \/ (device[a] = "delivered" /\ state = "DELIVERED")
    /\ \E p \in ByProviderId(a) :
          Begin(s, [job |-> "receipt", at |-> "found", row |-> p,
                    state |-> state, status |-> row[p].status])
    /\ EpisodesSame /\ InboundSame /\ OutgoingSame /\ Same

ReceiptStatus(current, state) ==
    IF state = "DELIVERED" /\ current \in {"DELIVERED", "READ"} THEN current ELSE state

WriteReceipt(s) ==
    /\ Doing(s, "receipt", "found")
    /\ LET p == session[s].row
           status == ReceiptStatus(session[s].status, session[s].state)
       IN  IF status = session[s].status THEN UNCHANGED row
           ELSE SetRow(p, [row[p] EXCEPT !.status = status])
    /\ Finish(s)
    /\ ProviderSame /\ EpisodesSame /\ InboundSame /\ Same

(***************************************************************************)
(* Operators resolve the attendance and open the conversation.             *)
(***************************************************************************)
LockForResolution(s) ==
    /\ ~BeingResolved
    /\ Begin(s, [job |-> "resolve", at |-> "locked"])
    /\ EpisodesSame /\ InboundSame /\ OutgoingSame /\ Same

\* No valid category: the transaction rolls back.
RefuseResolution(s) ==
    /\ Doing(s, "resolve", "locked")
    /\ Active(attendances) # {}
    /\ Finish(s)
    /\ EpisodesSame /\ InboundSame /\ OutgoingSame /\ Same

ResolveActiveAttendance(s) ==
    /\ Doing(s, "resolve", "locked")
    /\ attendances' = Resolve(attendances, clock)
    /\ conversation' = [conversation EXCEPT !.status = "RESOLVED"]
    /\ Finish(s)
    /\ InboundSame /\ OutgoingSame /\ Same

\* Mutant: calls for the same conversation are not joined.
NeverMarked == FALSE

\* markReadInFlight.
BeingMarked == \E s \in Sessions : session[s].job = "markRead"

MarkConversationAsRead(s) ==
    /\ conversation.unread > 0
    /\ ~BeingMarked
    /\ Begin(s, [job |-> "markRead", at |-> "counted", count |-> conversation.unread])
    /\ EpisodesSame /\ InboundSame /\ OutgoingSame /\ Same

\* The newest messages, as many as were unread; the provider confirms them
\* or its error ends the request.
ConfirmRead(s) ==
    /\ Doing(s, "markRead", "counted")
    /\ LET oldest == Len(inbox) - session[s].count + 1
       IN  readAtProvider' = readAtProvider \cup {inbox[i] : i \in oldest .. Len(inbox)}
    /\ session' = [session EXCEPT ![s].at = "confirmed"]
    /\ UNCHANGED <<seen, inbox, link>> /\ EpisodesSame /\ OutgoingSame /\ Same

MarkReadFails(s) ==
    /\ Doing(s, "markRead", "counted")
    /\ Finish(s)
    /\ EpisodesSame /\ InboundSame /\ OutgoingSame /\ Same

DecrementUnread(s) ==
    /\ Doing(s, "markRead", "confirmed")
    /\ conversation' = [conversation EXCEPT !.unread = @ - session[s].count]
    /\ Finish(s)
    /\ UNCHANGED attendances /\ InboundSame /\ OutgoingSame /\ Same

(***************************************************************************)
(* The system.                                                             *)
(***************************************************************************)
Environment ==
    \/ Tick
    \/ \E a \in Attempts, state \in {"delivered", "read"} : DeviceReceives(a, state)

Request(s) ==
    \/ \E m \in Inbound, t \in 0 .. clock : ReceiveWebhook(s, m, t)
    \/ \E p \in Rows : \/ \E a \in Attempts : SendConversationTextMessage(s, p, a)
                       \/ RetryConversationMessage(s, p)
    \/ \E a \in Attempts : \/ FindEchoed(s, a)
                           \/ \E state \in {"DELIVERED", "READ"} : ReadReceipt(s, a, state)
    \/ LockForResolution(s)
    \/ MarkConversationAsRead(s)

Step(s) ==
    \/ ProcessConversationWebhook(s)
    \/ (\E a \in Attempts : ClaimRetry(s, a)) \/ FailPendingConversationMessage(s)
    \/ \E answer \in Answers, taken \in BOOLEAN : ProviderAnswers(s, answer, taken)
    \/ ProviderFailed(s) \/ RememberProviderConfirmation(s) \/ ConfirmSent(s)
    \/ ReconcileOutgoing(s) \/ WriteReceipt(s)
    \/ RefuseResolution(s) \/ ResolveActiveAttendance(s)
    \/ ConfirmRead(s) \/ MarkReadFails(s) \/ DecrementUnread(s)
    \/ \E r \in Sessions : Deadlock(s, r)

Next ==
    \/ Environment
    \/ \E a \in Attempts : CreateEchoed(a)
    \/ \E s \in Sessions : Request(s) \/ Step(s) \/ Crash(s)

Spec == Init /\ [][Next]_vars

(***************************************************************************)
(* Properties.                                                             *)
(***************************************************************************)
MessagesOf(i) == {m \in Inbound : link[m] = i}
RepliesOf(i) == {p \in Rows : row[p].attendance = i}

\* The counters of an attendance are the messages linked to it, however the
\* answer of the provider, the echo and their repetitions meet.
CountersMatch ==
    \A i \in DOMAIN attendances :
        /\ attendances[i].inbound = Cardinality(MessagesOf(i))
        /\ attendances[i].outbound = Cardinality(RepliesOf(i))

\* Attendances follow each other with at least the grace period between the
\* resolution of one and the message that opens the next, even when webhooks
\* arrive late and out of order; so at most one is active.
EpisodesAreDisjoint ==
    \A i, j \in DOMAIN attendances : i < j =>
        /\ attendances[i].status = "RESOLVED"
        /\ attendances[i].resolvedAt + Grace <= attendances[j].openedAt

\* The first reply of an attendance falls between its opening and its
\* resolution: no message from before the attendance, and none confirmed
\* after it ended, makes its time of first reply negative or too long.
ReplyIsWithin ==
    \A i \in DOMAIN attendances :
        LET x == attendances[i]
        IN  /\ (x.status = "IN_PROGRESS") => x.firstAgentReplyAt # None
            /\ x.firstAgentReplyAt # None =>
                 /\ x.outbound > 0 /\ x.openedAt <= x.firstAgentReplyAt
                 /\ x.resolvedAt # None => x.firstAgentReplyAt <= x.resolvedAt

\* A text is never handed to the provider by two requests at once, however
\* often it is retried.
OneSenderPerRow ==
    \A s, r \in Sessions :
        s # r /\ Sending(s, "claimed") /\ Sending(r, "claimed") =>
            session[s].row # session[r].row
=============================================================================
