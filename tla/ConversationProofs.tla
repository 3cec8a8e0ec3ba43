-------------------------- MODULE ConversationProofs --------------------------
(***************************************************************************)
(* Proofs about one WhatsApp conversation, for any number of messages,     *)
(* texts, requestIds and requests in progress: the type invariant, one     *)
(* sender per text, and the attendances' order, replies and counters.      *)
(*                                                                         *)
(* The invariant that carries them says, besides the properties, in which  *)
(* order the times of a text can be, what a request in progress may rely   *)
(* on (Fits, Apart), and how messages, links and counters hang together.   *)
(***************************************************************************)
EXTENDS Conversation, FiniteSetTheorems, SequenceTheorems, TLAPS

(***************************************************************************)
(* The inductive invariant.                                                *)
(***************************************************************************)
Since(p, time) == row[p].createdAt <= time /\ time <= clock
AcceptedSince(p, a) == accepted[a] # None /\ Since(p, accepted[a])

\* What the provider and the rows know of a text is not older than the text.
RowInTime(p) ==
    /\ row[p].status = "none" => row[p] = NoRow
    /\ row[p].createdAt <= clock
    /\ row[p].sentAt # None => Since(p, row[p].sentAt)
    /\ row[p].providerMessageId # None => AcceptedSince(p, row[p].providerMessageId)
    /\ row[p].requestId # None /\ accepted[row[p].requestId] # None =>
           AcceptedSince(p, row[p].requestId)
RowsInTime ==
    /\ \A a \in Attempts : accepted[a] # None => accepted[a] <= clock
    /\ \A p \in Rows : RowInTime(p)

InFlight(s) == Sending(s, "claimed") \/ Sending(s, "answered")
HasRow(s) == session[s].job \in {"send", "retry", "echo", "receipt"}
Receiving(s) == session[s].job = "inbound"
Marking(s) == session[s].job = "markRead"

\* What a request in progress has read still stands, as far as it relies on it.
Fits(s) ==
    /\ Receiving(s) => /\ session[s].occurredAt <= clock
                       /\ session[s].message \in seen /\ link[session[s].message] = 0
    /\ HasRow(s) => row[session[s].row].status # "none"
    /\ InFlight(s) => row[session[s].row].status # "FAILED"
    /\ Sending(s, "answered") /\ session[s].answer \in {"identified", "confirmed"} =>
           AcceptedSince(session[s].row, session[s].requestId)
    /\ Sending(s, "confirmed") => /\ AcceptedSince(session[s].row, session[s].requestId)
                                  /\ Since(session[s].row, session[s].sentAt)
    /\ Doing(s, "echo", "found") =>
           /\ AcceptedSince(session[s].row, session[s].requestId)
           /\ session[s].providerMessageId # None =>
                  AcceptedSince(session[s].row, session[s].providerMessageId)
           /\ session[s].sentAt # None => Since(session[s].row, session[s].sentAt)
    /\ Marking(s) => session[s].count <= conversation.unread

\* What two requests are never doing at once.
Apart(s, r) ==
    /\ InFlight(s) /\ InFlight(r) => session[s].row # session[r].row
    /\ Receiving(s) /\ Receiving(r) => session[s].message # session[r].message
    /\ ~(Marking(s) /\ Marking(r))

RequestsFit ==
    /\ \A s \in Sessions : Fits(s)
    /\ \A s, r \in Sessions : s # r => Apart(s, r)

\* The times of an attendance are in order and none is in the future.
EpisodeInTime(x) ==
    /\ x.openedAt <= clock
    /\ x.status = "RESOLVED" <=> x.resolvedAt # None
    /\ x.resolvedAt # None => x.openedAt <= x.resolvedAt /\ x.resolvedAt <= clock
    /\ x.firstAgentReplyAt # None => x.firstAgentReplyAt <= clock
EpisodesInTime == \A i \in DOMAIN attendances : EpisodeInTime(attendances[i])

\* Each message is stored once, linked when it is stored, and every attendance
\* has one.
MessagesAreLinked ==
    /\ \A i, j \in DOMAIN inbox : inbox[i] = inbox[j] => i = j
    /\ \A m \in Inbound : link[m] # 0 <=> \E i \in DOMAIN inbox : inbox[i] = m
    /\ \A i \in DOMAIN inbox : inbox[i] \in seen
    /\ \A i \in DOMAIN attendances : \E m \in Inbound : link[m] = i
    /\ conversation.unread <= Len(inbox)

IInv ==
    /\ TypeOK /\ RowsInTime /\ RequestsFit
    /\ EpisodesInTime /\ EpisodesAreDisjoint /\ ReplyIsWithin
    /\ MessagesAreLinked /\ CountersMatch

(***************************************************************************)
(* Requests in progress.                                                   *)
(***************************************************************************)
\* The fields a request has at each of its steps.
LEMMA SessionShape ==
    ASSUME session \in [Sessions -> SessionState], NEW s \in Sessions
    PROVE  /\ Receiving(s) => /\ session[s].at = "conversation"
                              /\ session[s].message \in Inbound /\ session[s].occurredAt \in Times
           /\ HasRow(s) => session[s].row \in Rows
           /\ InFlight(s) \/ Sending(s, "confirmed") => session[s].requestId \in Attempts
           /\ Sending(s, "answered") => session[s].answer \in Answers
           /\ Sending(s, "confirmed") => /\ session[s].answer \in {"identified", "confirmed"}
                                         /\ session[s].sentAt \in Times
           /\ session[s].job = "echo" => /\ session[s].at = "found"
                                         /\ session[s].requestId \in Attempts
                                         /\ session[s].providerMessageId \in Attempts \cup {None}
                                         /\ session[s].sentAt \in Times \cup {None}
           /\ session[s].job = "receipt" => session[s].at = "found"
           /\ Doing(s, "receipt", "found") => /\ session[s].state \in {"DELIVERED", "READ"}
                                              /\ session[s].status \in MessageStatus
           /\ Marking(s) => session[s].count \in Nat
<1> QED BY DEF SessionState, Idle, Receiving, HasRow, InFlight, Sending, Doing, Marking

\* A request that is untouched still fits when rows, times and messages move on
\* around it.
LEMMA StaysFit ==
    ASSUME TypeOK, TypeOK', RowsInTime, NEW r \in Sessions, session'[r] = session[r], Fits(r),
           clock <= clock', seen \subseteq seen',
           \A a \in Attempts : accepted'[a] = accepted[a] \/ accepted'[a] = clock,
           Receiving(r) => link'[session[r].message] = 0,
           HasRow(r) => /\ row'[session[r].row].status # "none"
                        /\ row'[session[r].row].createdAt = row[session[r].row].createdAt,
           InFlight(r) => row'[session[r].row].status # "FAILED",
           Marking(r) => session[r].count <= conversation'.unread
    PROVE  Fits(r)'
<1>1. clock \in Nat /\ clock' \in Nat
    BY DEF TypeOK, Times
<1>2. \A a \in Attempts : accepted[a] # None =>
          accepted[a] \in Nat /\ accepted[a] <= clock
    BY DEF TypeOK, Times, RowsInTime
<1>3. ASSUME NEW q \in Rows, row'[q].createdAt = row[q].createdAt,
             NEW a \in Attempts, accepted[a] # None, row[q].createdAt <= accepted[a]
      PROVE  /\ accepted'[a] # None
             /\ row'[q].createdAt <= accepted'[a] /\ accepted'[a] <= clock'
  <2>1. row[q].createdAt \in Nat /\ row[q].createdAt <= clock
      BY DEF TypeOK, MessageRow, Times, RowsInTime, RowInTime
  <2> QED BY <1>3, <2>1, <1>1, <1>2, NoneAssumption
<1>4. ASSUME NEW q \in Rows, row'[q].createdAt = row[q].createdAt, NEW t \in Nat,
             row[q].createdAt <= t, t <= clock
      PROVE  row'[q].createdAt <= t /\ t <= clock'
    BY <1>1, <1>4 DEF TypeOK, MessageRow, Times
<1>5. /\ Receiving(r)' = Receiving(r) /\ HasRow(r)' = HasRow(r) /\ InFlight(r)' = InFlight(r)
      /\ Marking(r)' = Marking(r) /\ Sending(r, "answered")' = Sending(r, "answered")
      /\ Sending(r, "confirmed")' = Sending(r, "confirmed")
      /\ Doing(r, "echo", "found")' = Doing(r, "echo", "found")
    BY DEF Receiving, HasRow, InFlight, Sending, Doing, Marking
<1>6. /\ Receiving(r) => /\ session'[r].occurredAt <= clock'
                         /\ session'[r].message \in seen' /\ link'[session'[r].message] = 0
      /\ HasRow(r) => row'[session'[r].row].status # "none"
      /\ InFlight(r) => row'[session'[r].row].status # "FAILED"
      /\ Marking(r) => session'[r].count <= conversation'.unread
    BY <1>1, SessionShape DEF Fits, TypeOK, Times
<1>7. HasRow(r) => session[r].row \in Rows
    BY SessionShape DEF TypeOK
<1>8. (Sending(r, "answered") /\ session[r].answer \in {"identified", "confirmed"}) =>
          AcceptedSince(session[r].row, session[r].requestId)'
  <2> SUFFICES ASSUME Sending(r, "answered"), session[r].answer \in {"identified", "confirmed"}
               PROVE  AcceptedSince(session[r].row, session[r].requestId)'
      OBVIOUS
  <2>1. HasRow(r) /\ session[r].requestId \in Attempts
      BY SessionShape DEF HasRow, Sending, Doing, InFlight, TypeOK
  <2> QED BY <2>1, <1>3, <1>7 DEF Fits, AcceptedSince, Since
<1>9. Sending(r, "confirmed") =>
          /\ AcceptedSince(session[r].row, session[r].requestId)'
          /\ Since(session[r].row, session[r].sentAt)'
  <2> SUFFICES ASSUME Sending(r, "confirmed")
               PROVE  /\ AcceptedSince(session[r].row, session[r].requestId)'
                      /\ Since(session[r].row, session[r].sentAt)'
      OBVIOUS
  <2>1. HasRow(r) /\ session[r].requestId \in Attempts /\ session[r].sentAt \in Nat
      BY SessionShape DEF HasRow, Sending, Doing, TypeOK, Times
  <2> QED BY <2>1, <1>3, <1>4, <1>7 DEF Fits, AcceptedSince, Since
<1>10. Doing(r, "echo", "found") =>
          /\ AcceptedSince(session[r].row, session[r].requestId)'
          /\ session[r].providerMessageId # None =>
                 AcceptedSince(session[r].row, session[r].providerMessageId)'
          /\ session[r].sentAt # None => Since(session[r].row, session[r].sentAt)'
  <2> SUFFICES ASSUME Doing(r, "echo", "found")
               PROVE  /\ AcceptedSince(session[r].row, session[r].requestId)'
                      /\ session[r].providerMessageId # None =>
                             AcceptedSince(session[r].row, session[r].providerMessageId)'
                      /\ session[r].sentAt # None => Since(session[r].row, session[r].sentAt)'
      OBVIOUS
  <2>1. /\ HasRow(r) /\ session[r].requestId \in Attempts
        /\ session[r].providerMessageId # None => session[r].providerMessageId \in Attempts
        /\ session[r].sentAt # None => session[r].sentAt \in Nat
      BY SessionShape DEF HasRow, Doing, TypeOK, Times
  <2> QED BY <2>1, <1>3, <1>4, <1>7 DEF Fits, AcceptedSince, Since
<1> QED BY <1>5, <1>6, <1>8, <1>9, <1>10 DEF Fits

\* A row that is untouched stays in time.
LEMMA RowStaysInTime ==
    ASSUME TypeOK, TypeOK', RowsInTime, NEW p \in Rows, row'[p] = row[p], clock <= clock',
           \A a \in Attempts : accepted'[a] = accepted[a] \/ accepted'[a] = clock
    PROVE  RowInTime(p)'
<1>1. /\ clock \in Nat /\ clock' \in Nat /\ row[p] \in MessageRow
      /\ row[p].createdAt \in Nat /\ row[p].createdAt <= clock
      /\ row[p].sentAt \in Nat \cup {None}
    BY DEF TypeOK, Times, MessageRow, RowsInTime, RowInTime
<1>2. \A a \in Attempts : /\ accepted[a] # None => accepted[a] \in Nat /\ accepted[a] <= clock
                          /\ accepted[a] # None => accepted'[a] # None
    BY <1>1, NoneAssumption DEF TypeOK, Times, RowsInTime
<1>3. ASSUME NEW a \in Attempts, accepted'[a] # None,
             accepted[a] # None => row[p].createdAt <= accepted[a]
      PROVE  row[p].createdAt <= accepted'[a] /\ accepted'[a] <= clock'
    BY <1>1, <1>2, <1>3
<1>4. row[p].providerMessageId # None =>
          row[p].providerMessageId \in Attempts /\ AcceptedSince(p, row[p].providerMessageId)'
    BY <1>1, <1>2, <1>3 DEF RowsInTime, RowInTime, AcceptedSince, Since, MessageRow
<1>5. row[p].requestId # None /\ accepted'[row[p].requestId] # None =>
          AcceptedSince(p, row[p].requestId)'
    BY <1>1, <1>2, <1>3 DEF RowsInTime, RowInTime, AcceptedSince, Since, MessageRow
<1>6. /\ row[p].status = "none" => row[p] = NoRow
      /\ row[p].createdAt <= clock'
      /\ row[p].sentAt # None => Since(p, row[p].sentAt)'
    BY <1>1 DEF RowsInTime, RowInTime, Since
<1> QED BY <1>4, <1>5, <1>6 DEF RowInTime

\* Requests are the same for two that both look at them: what holds of one
\* that moves and of those that wait holds of all.
LEMMA OthersApart ==
    ASSUME RequestsFit, NEW s \in Sessions, NEW y \in SessionState,
           session \in [Sessions -> SessionState], session' = [session EXCEPT ![s] = y],
           \A r \in Sessions : Fits(r)',
           \A r \in Sessions \ {s} : Apart(s, r)'
    PROVE  RequestsFit'
<1>1. \A r \in Sessions \ {s} : session'[r] = session[r]
    OBVIOUS
<1>2. ASSUME NEW r \in Sessions \ {s}, NEW q \in Sessions \ {s}, r # q PROVE Apart(r, q)'
    BY <1>1, <1>2 DEF RequestsFit, Apart, InFlight, Receiving, Marking, Sending, Doing
<1>3. ASSUME NEW r \in Sessions \ {s} PROVE Apart(r, s)'
    BY <1>3 DEF Apart
<1> QED BY <1>2, <1>3 DEF RequestsFit

\* A text that moves with its request, while the others rely on their own.
LEMMA RowMoves ==
    ASSUME TypeOK, TypeOK', RowsInTime, RequestsFit, NEW s \in Sessions, NEW y \in SessionState,
           session' = [session EXCEPT ![s] = y], NEW p \in Rows, NEW x \in MessageRow,
           row' = [row EXCEPT ![p] = x], UNCHANGED <<clock, accepted, seen, link, conversation>>,
           x.status # "none", row[p] = NoRow \/ x.createdAt = row[p].createdAt,
           x.status = "FAILED" => \A r \in Sessions \ {s} : InFlight(r) => session[r].row # p,
           RowInTime(p)', Fits(s)', \A r \in Sessions \ {s} : Apart(s, r)'
    PROVE  RowsInTime' /\ RequestsFit'
<1>1. /\ session \in [Sessions -> SessionState] /\ row \in [Rows -> MessageRow]
      /\ clock \in Nat /\ conversation.unread \in Nat
    BY FS_CardinalityType, FiniteAssumption DEF TypeOK, Times
<1>2. \A q \in Rows : row'[q] = IF q = p THEN x ELSE row[q]
    BY <1>1
<1>3. \A q \in Rows : RowInTime(q)'
    BY <1>1, <1>2, RowStaysInTime
<1>4. ASSUME NEW r \in Sessions \ {s} PROVE Fits(r)'
  <2>1. session'[r] = session[r] /\ Fits(r)
      BY <1>1 DEF RequestsFit
  <2>2. HasRow(r) => /\ session[r].row \in Rows
                     /\ row'[session[r].row].status # "none"
                     /\ row'[session[r].row].createdAt = row[session[r].row].createdAt
    <3>1. HasRow(r) => session[r].row \in Rows /\ row[session[r].row].status # "none"
        BY <1>1, <2>1, SessionShape DEF Fits
    <3> QED BY <1>2, <3>1 DEF NoRow
  <2>3. InFlight(r) => row'[session[r].row].status # "FAILED"
    <3>1. InFlight(r) => HasRow(r) /\ row[session[r].row].status # "FAILED"
        BY <2>1 DEF Fits, InFlight, HasRow, Sending, Doing
    <3> QED BY <1>2, <2>2, <3>1
  <2>4. /\ Receiving(r) => link'[session[r].message] = 0
        /\ Marking(r) => session[r].count <= conversation'.unread
      BY <2>1 DEF Fits
  <2> QED BY <1>1, <2>1, <2>2, <2>3, <2>4, StaysFit
<1>5. RequestsFit'
    BY <1>1, <1>4, OthersApart
<1>6. RowsInTime'
    BY <1>3 DEF RowsInTime
<1> QED BY <1>5, <1>6

\* The counters change with the links only.
LEMMA CountersStay ==
    ASSUME CountersMatch, UNCHANGED <<attendances, link>>,
           \A p \in Rows : row'[p].attendance = row[p].attendance
    PROVE  CountersMatch'
<1>1. \A i : MessagesOf(i)' = MessagesOf(i) /\ RepliesOf(i)' = RepliesOf(i)
    BY DEF MessagesOf, RepliesOf
<1> QED BY <1>1 DEF CountersMatch

\* A request that reads, waits or gives up leaves everything but itself alone.
LEMMA RequestMoves ==
    ASSUME IInv, NEW s \in Sessions, NEW y \in SessionState, session' = [session EXCEPT ![s] = y],
           EpisodesSame, InboundSame, OutgoingSame, Same,
           Fits(s)', \A r \in Sessions \ {s} : Apart(s, r)'
    PROVE  IInv'
<1> USE DEF IInv, EpisodesSame, InboundSame, OutgoingSame, Same
<1>1. TypeOK'
    BY DEF TypeOK
<1>2. ASSUME NEW r \in Sessions \ {s} PROVE Fits(r)'
  <2>1. session'[r] = session[r] /\ Fits(r)
      BY DEF TypeOK, RequestsFit
  <2> QED BY <2>1 DEF Fits, Receiving, HasRow, InFlight, Sending, Doing, Marking,
                      AcceptedSince, Since
<1>3. RequestsFit'
    BY <1>2, OthersApart DEF TypeOK
<1>4. RowsInTime'
    BY DEF RowsInTime, RowInTime, AcceptedSince, Since
<1>5. EpisodesInTime' /\ EpisodesAreDisjoint' /\ ReplyIsWithin'
    BY DEF EpisodesInTime, EpisodeInTime, EpisodesAreDisjoint, ReplyIsWithin
<1>6. MessagesAreLinked' /\ CountersMatch'
    BY CountersStay DEF MessagesAreLinked
<1> QED BY <1>1, <1>3, <1>4, <1>5, <1>6

\* A request that ends, or dies, without a trace.
LEMMA FinishKeeps ==
    ASSUME IInv, NEW s \in Sessions, Finish(s), EpisodesSame, InboundSame, OutgoingSame, Same
    PROVE  IInv'
<1>1. session' = [session EXCEPT ![s] = Idle] /\ session'[s] = Idle
    BY DEF Finish, IInv, TypeOK
<1>2. Fits(s)' /\ \A r \in Sessions : Apart(s, r)'
    BY <1>1 DEF Fits, Apart, Idle, Receiving, HasRow, InFlight, Sending, Doing, Marking
<1>3. Idle \in SessionState
    BY DEF SessionState
<1> QED BY <1>1, <1>2, <1>3, RequestMoves

LEMMA DeadlockKeeps ==
    ASSUME IInv, NEW s \in Sessions, NEW r \in Sessions, Deadlock(s, r) PROVE IInv'
BY FinishKeeps DEF Deadlock

LEMMA CrashKeeps ==
    ASSUME IInv, NEW s \in Sessions, Crash(s) PROVE IInv'
BY FinishKeeps DEF Crash

LEMMA RefuseResolutionKeeps ==
    ASSUME IInv, NEW s \in Sessions, RefuseResolution(s) PROVE IInv'
BY FinishKeeps DEF RefuseResolution

LEMMA MarkReadFailsKeeps ==
    ASSUME IInv, NEW s \in Sessions, MarkReadFails(s) PROVE IInv'
BY FinishKeeps DEF MarkReadFails

LEMMA RetryConversationMessageKeeps ==
    ASSUME IInv, NEW s \in Sessions, NEW p \in Rows, RetryConversationMessage(s, p) PROVE IInv'
<1> DEFINE y == [job |-> "retry", at |-> "read", row |-> p]
<1>1. session' = [session EXCEPT ![s] = y] /\ session'[s] = y /\ row' = row
    BY DEF RetryConversationMessage, Begin, OutgoingSame, IInv, TypeOK
<1>2. Fits(s)' /\ \A r \in Sessions : Apart(s, r)'
    BY <1>1 DEF RetryConversationMessage, Fits, Apart, Receiving, HasRow, InFlight, Sending, Doing,
                Marking
<1>3. y \in SessionState
    BY DEF SessionState
<1> QED BY <1>1, <1>2, <1>3, RequestMoves DEF RetryConversationMessage

LEMMA LockForResolutionKeeps ==
    ASSUME IInv, NEW s \in Sessions, LockForResolution(s) PROVE IInv'
<1> DEFINE y == [job |-> "resolve", at |-> "locked"]
<1>1. session' = [session EXCEPT ![s] = y] /\ session'[s] = y
    BY DEF LockForResolution, Begin, IInv, TypeOK
<1>2. Fits(s)' /\ \A r \in Sessions : Apart(s, r)'
    BY <1>1 DEF Fits, Apart, Receiving, HasRow, InFlight, Sending, Doing, Marking
<1>3. y \in SessionState
    BY DEF SessionState
<1> QED BY <1>1, <1>2, <1>3, RequestMoves DEF LockForResolution

LEMMA MarkConversationAsReadKeeps ==
    ASSUME IInv, NEW s \in Sessions, MarkConversationAsRead(s) PROVE IInv'
<1> DEFINE y == [job |-> "markRead", at |-> "counted", count |-> conversation.unread]
<1>1. session' = [session EXCEPT ![s] = y] /\ session'[s] = y /\ conversation' = conversation
    BY DEF MarkConversationAsRead, Begin, EpisodesSame, IInv, TypeOK
<1>2. conversation.unread \in Nat
    BY FS_CardinalityType, FiniteAssumption DEF IInv, TypeOK
<1>3. Fits(s)'
    BY <1>1, <1>2 DEF Fits, Receiving, HasRow, InFlight, Sending, Doing, Marking
<1>4. ASSUME NEW r \in Sessions \ {s} PROVE Apart(s, r)'
  <2>1. session'[r] = session[r] /\ session[r].job # "markRead"
      BY <1>1 DEF MarkConversationAsRead, BeingMarked, IInv, TypeOK
  <2> QED BY <1>1, <2>1 DEF Apart, Receiving, InFlight, Sending, Doing, Marking
<1>5. y \in SessionState
    BY <1>2 DEF SessionState
<1> QED BY <1>1, <1>3, <1>4, <1>5, RequestMoves DEF MarkConversationAsRead

\* What an echo reads of its row is not older than the text.
LEMMA FindEchoedKeeps ==
    ASSUME IInv, NEW s \in Sessions, NEW a \in Attempts, FindEchoed(s, a) PROVE IInv'
<1>1. PICK p \in Rows :
          /\ accepted[a] # None
          /\ row[p].providerMessageId = a \/ row[p].requestId = a
          /\ session' = [session EXCEPT ![s] =
                 [job |-> "echo", at |-> "found", requestId |-> a, row |-> p,
                  providerMessageId |-> row[p].providerMessageId, sentAt |-> row[p].sentAt]]
    BY DEF FindEchoed, Begin, ByProviderId, ByRequestId
<1> DEFINE y == [job |-> "echo", at |-> "found", requestId |-> a, row |-> p,
                 providerMessageId |-> row[p].providerMessageId, sentAt |-> row[p].sentAt]
<1>2. row[p] \in MessageRow /\ RowInTime(p) /\ session'[s] = y
    BY <1>1 DEF IInv, TypeOK, RowsInTime
<1>3. y \in SessionState
    BY <1>2 DEF SessionState, MessageRow
<1>4. row[p].status # "none"
    BY <1>1, <1>2, NoneAssumption DEF RowInTime, NoRow
<1>5. UNCHANGED <<row, accepted, clock>>
    BY DEF FindEchoed, OutgoingSame, Same
<1>6. Fits(s)'
    BY <1>1, <1>2, <1>4, <1>5, NoneAssumption
       DEF Fits, Receiving, HasRow, InFlight, Sending, Doing, Marking, RowInTime, AcceptedSince, Since
<1>7. \A r \in Sessions : Apart(s, r)'
    BY <1>2 DEF Apart, Receiving, InFlight, Sending, Doing, Marking
<1> QED BY <1>1, <1>3, <1>6, <1>7, RequestMoves DEF FindEchoed

LEMMA ReadReceiptKeeps ==
    ASSUME IInv, NEW s \in Sessions, NEW a \in Attempts, NEW state \in {"DELIVERED", "READ"},
           ReadReceipt(s, a, state)
    PROVE  IInv'
<1>1. PICK p \in Rows :
          /\ row[p].providerMessageId = a
          /\ session' = [session EXCEPT ![s] =
                 [job |-> "receipt", at |-> "found", row |-> p,
                  state |-> state, status |-> row[p].status]]
    BY DEF ReadReceipt, Begin, ByProviderId
<1> DEFINE y == [job |-> "receipt", at |-> "found", row |-> p, state |-> state,
                 status |-> row[p].status]
<1>2. row[p] \in MessageRow /\ RowInTime(p) /\ session'[s] = y /\ row' = row
    BY <1>1 DEF IInv, TypeOK, RowsInTime, ReadReceipt, OutgoingSame
<1>3. row[p].status # "none"
    BY <1>1, <1>2, NoneAssumption DEF RowInTime, NoRow
<1>4. y \in SessionState
    BY <1>2, <1>3 DEF SessionState, MessageRow
<1>5. Fits(s)' /\ \A r \in Sessions : Apart(s, r)'
    BY <1>2, <1>3 DEF Fits, Apart, Receiving, HasRow, InFlight, Sending, Doing, Marking
<1> QED BY <1>1, <1>4, <1>5, RequestMoves DEF ReadReceipt

(***************************************************************************)
(* Texts.                                                                  *)
(***************************************************************************)
LEMMA IdleFits ==
    ASSUME NEW s \in Sessions, session'[s] = Idle
    PROVE  Fits(s)' /\ \A r \in Sessions : Apart(s, r)'
BY DEF Fits, Apart, Idle, Receiving, HasRow, InFlight, Sending, Doing, Marking

\* A text that moves without a change of its attendance.
LEMMA RowKeeps ==
    ASSUME IInv, NEW s \in Sessions, NEW y \in SessionState, session' = [session EXCEPT ![s] = y],
           NEW p \in Rows, NEW x \in MessageRow, SetRow(p, x),
           ProviderSame, EpisodesSame, InboundSame, Same,
           x.status # "none", row[p] = NoRow \/ x.createdAt = row[p].createdAt,
           x.status = "FAILED" => \A r \in Sessions \ {s} : InFlight(r) => session[r].row # p,
           x.attendance = row[p].attendance,
           RowInTime(p)', Fits(s)', \A r \in Sessions \ {s} : Apart(s, r)'
    PROVE  IInv'
<1> USE DEF IInv, ProviderSame, EpisodesSame, InboundSame, Same
<1>1. row' = [row EXCEPT ![p] = x]
    BY DEF SetRow
<1>2. \A q \in Rows : row'[q].attendance = row[q].attendance
    BY <1>1 DEF TypeOK
<1>3. TypeOK'
    BY <1>1, <1>2 DEF TypeOK
<1>4. RowsInTime' /\ RequestsFit'
    BY <1>1, <1>3, RowMoves
<1>5. EpisodesInTime' /\ EpisodesAreDisjoint' /\ ReplyIsWithin' /\ MessagesAreLinked'
    BY DEF EpisodesInTime, EpisodeInTime, EpisodesAreDisjoint, ReplyIsWithin, MessagesAreLinked
<1>6. CountersMatch'
    BY <1>2, CountersStay
<1> QED BY <1>3, <1>4, <1>5, <1>6

LEMMA SendConversationTextMessageKeeps ==
    ASSUME IInv, NEW s \in Sessions, NEW p \in Rows, NEW a \in Attempts,
           SendConversationTextMessage(s, p, a)
    PROVE  IInv'
<1> DEFINE x == [NoRow EXCEPT !.status = "PENDING", !.requestId = a, !.createdAt = clock]
           y == [job |-> "send", at |-> "claimed", row |-> p, requestId |-> a]
<1>1. /\ row[p] = NoRow /\ accepted[a] = None
      /\ session' = [session EXCEPT ![s] = y] /\ SetRow(p, x)
      /\ ProviderSame /\ EpisodesSame /\ InboundSame /\ Same
    BY DEF SendConversationTextMessage, Begin
<1>2. y \in SessionState /\ x \in MessageRow
    BY DEF SessionState, MessageRow, MessageStatus, NoRow, IInv, TypeOK, Times
<1>3. /\ session'[s] = y /\ row'[p] = x /\ clock \in Nat
      /\ x.status = "PENDING" /\ x.sentAt = None /\ x.providerMessageId = None
      /\ x.requestId = a /\ x.createdAt = clock /\ x.attendance = 0
      /\ session'[s].row = p /\ row'[p].status = "PENDING"
    BY <1>1 DEF SetRow, IInv, TypeOK, NoRow, Times
<1>4. RowInTime(p)'
    BY <1>1, <1>3 DEF RowInTime, Same, ProviderSame
<1>5. Fits(s)'
  <2>1. /\ session'[s].job = "send" /\ session'[s].at = "claimed" /\ session'[s].row = p
        /\ row'[p].status = "PENDING"
      BY <1>3
  <2> HIDE DEF x, y
  <2> QED BY <2>1 DEF Fits, Receiving, HasRow, InFlight, Sending, Doing, Marking
<1>6. ASSUME NEW r \in Sessions \ {s} PROVE Apart(s, r)'
  <2>1. session'[r] = session[r] /\ InFlight(r) => session[r].row # p
    <3>1. InFlight(r) => row[session[r].row].status # "none"
        BY DEF IInv, RequestsFit, Fits, InFlight, HasRow, Sending, Doing
    <3> QED BY <1>1, <3>1 DEF NoRow, IInv, TypeOK
  <2> QED BY <1>1, <1>3, <2>1 DEF Apart, Receiving, InFlight, Sending, Doing, Marking, IInv, TypeOK
<1> QED BY <1>1, <1>2, <1>3, <1>4, <1>5, <1>6, RowKeeps DEF NoRow

\* Nobody else is sending a text whose last attempt failed.
LEMMA ClaimRetryKeeps ==
    ASSUME IInv, NEW s \in Sessions, NEW a \in Attempts, ClaimRetry(s, a) PROVE IInv'
<1>0. PICK p \in Rows : p = session[s].row
    BY SessionShape DEF ClaimRetry, HasRow, Doing, IInv, TypeOK
<1> DEFINE x == [row[p] EXCEPT !.status = "PENDING", !.requestId = a, !.providerMessageId = None]
           y == [job |-> "retry", at |-> "claimed", row |-> p, requestId |-> a]
<1>1. CASE ~Claimable(p)
    BY <1>0, <1>1, FinishKeeps DEF ClaimRetry, OutgoingSame, ProviderSame
<1>2. CASE Claimable(p)
  <2>1. /\ row[p].status = "FAILED" /\ accepted[a] = None
        /\ session' = [session EXCEPT ![s] = y] /\ SetRow(p, x)
        /\ ProviderSame /\ EpisodesSame /\ InboundSame /\ Same
      BY <1>0, <1>2 DEF ClaimRetry, Claimable
  <2>2. row[p] \in MessageRow /\ RowInTime(p)
      BY DEF IInv, TypeOK, RowsInTime
  <2>3. y \in SessionState /\ x \in MessageRow
      BY <2>2 DEF SessionState, MessageRow, MessageStatus
  <2>4. /\ session'[s] = y /\ row'[p] = x
        /\ x.status = "PENDING" /\ x.sentAt = row[p].sentAt /\ x.providerMessageId = None
        /\ x.requestId = a /\ x.createdAt = row[p].createdAt /\ x.attendance = row[p].attendance
        /\ session'[s].row = p /\ row'[p].status = "PENDING"
      BY <2>1, <2>2 DEF SetRow, IInv, TypeOK, MessageRow
  <2>5. RowInTime(p)'
      BY <2>1, <2>2, <2>4 DEF RowInTime, Same, ProviderSame, Since
  <2>6. Fits(s)'
    <3>1. /\ session'[s].job = "retry" /\ session'[s].at = "claimed" /\ session'[s].row = p
          /\ row'[p].status = "PENDING"
        BY <2>4
    <3> HIDE DEF x, y
    <3> QED BY <3>1 DEF Fits, Receiving, HasRow, InFlight, Sending, Doing, Marking
  <2>7. ASSUME NEW r \in Sessions \ {s} PROVE Apart(s, r)'
    <3>1. session'[r] = session[r] /\ InFlight(r) => session[r].row # p
        BY <2>1 DEF IInv, TypeOK, RequestsFit, Fits
    <3> QED BY <2>4, <3>1, <2>1
            DEF Apart, Receiving, InFlight, Sending, Doing, Marking, IInv, TypeOK
  <2> QED BY <2>1, <2>2, <2>3, <2>4, <2>5, <2>6, <2>7, RowKeeps
<1> QED BY <1>1, <1>2

\* A text fails only by the hand of the one request that was sending it.
LEMMA FailKeeps ==
    ASSUME IInv, NEW s \in Sessions, InFlight(s), Finish(s),
           SetRow(session[s].row, [row[session[s].row] EXCEPT !.status = "FAILED"]),
           ProviderSame, EpisodesSame, InboundSame, Same
    PROVE  IInv'
<1>0. HasRow(s)
    BY DEF InFlight, HasRow, Sending, Doing
<1>1. PICK p \in Rows : p = session[s].row
    BY <1>0, SessionShape DEF IInv, TypeOK
<1> DEFINE x == [row[p] EXCEPT !.status = "FAILED"]
<1>2. row[p] \in MessageRow /\ RowInTime(p) /\ SetRow(p, x)
    BY <1>1 DEF IInv, TypeOK, RowsInTime
<1>3. x \in MessageRow /\ Idle \in SessionState /\ row[p].status # "none"
    BY <1>0, <1>1, <1>2 DEF SessionState, MessageRow, MessageStatus, IInv, RequestsFit, Fits
<1>4. /\ session' = [session EXCEPT ![s] = Idle] /\ session'[s] = Idle /\ row'[p] = x
      /\ x.status = "FAILED" /\ x.sentAt = row[p].sentAt
      /\ x.providerMessageId = row[p].providerMessageId /\ x.requestId = row[p].requestId
      /\ x.createdAt = row[p].createdAt /\ x.attendance = row[p].attendance
    BY <1>2 DEF Finish, SetRow, IInv, TypeOK, MessageRow
<1>5. RowInTime(p)'
    BY <1>2, <1>4 DEF RowInTime, Same, ProviderSame, Since, AcceptedSince
<1>6. \A r \in Sessions \ {s} : InFlight(r) => session[r].row # p
    BY <1>1 DEF IInv, RequestsFit, Apart
<1> QED BY <1>2, <1>3, <1>4, <1>5, <1>6, IdleFits, RowKeeps

LEMMA FailPendingConversationMessageKeeps ==
    ASSUME IInv, NEW s \in Sessions, FailPendingConversationMessage(s) PROVE IInv'
BY FailKeeps DEF FailPendingConversationMessage, InFlight, Sending

LEMMA ProviderFailedKeeps ==
    ASSUME IInv, NEW s \in Sessions, ProviderFailed(s) PROVE IInv'
BY FailKeeps DEF ProviderFailed, InFlight

LEMMA WriteReceiptKeeps ==
    ASSUME IInv, NEW s \in Sessions, WriteReceipt(s) PROVE IInv'
<1>0. HasRow(s) /\ Doing(s, "receipt", "found")
    BY DEF WriteReceipt, HasRow, Doing
<1> PICK p \in Rows, status \in MessageStatus :
        /\ p = session[s].row
        /\ status = ReceiptStatus(session[s].status, session[s].state)
    BY <1>0, SessionShape DEF ReceiptStatus, MessageStatus, IInv, TypeOK
<1> DEFINE x == [row[p] EXCEPT !.status = status]
<1>1. CASE status = session[s].status
    BY <1>1, FinishKeeps DEF WriteReceipt, OutgoingSame, ProviderSame
<1>2. CASE status # session[s].status
  <2>2. row[p] \in MessageRow /\ RowInTime(p) /\ row[p].status # "none"
      BY <1>0 DEF IInv, TypeOK, RowsInTime, RequestsFit, Fits
  <2>3. status \in {"DELIVERED", "READ"}
      BY <1>0, <1>2, SessionShape DEF ReceiptStatus, IInv, TypeOK
  <2>4. x \in MessageRow /\ Idle \in SessionState
      BY <2>2, <2>3 DEF SessionState, MessageRow, MessageStatus
  <2>5. SetRow(p, x) /\ ProviderSame /\ EpisodesSame /\ InboundSame /\ Same
      BY <1>2 DEF WriteReceipt
  <2>6. /\ session' = [session EXCEPT ![s] = Idle] /\ session'[s] = Idle /\ row'[p] = x
        /\ x.status = status /\ x.sentAt = row[p].sentAt
        /\ x.providerMessageId = row[p].providerMessageId /\ x.requestId = row[p].requestId
        /\ x.createdAt = row[p].createdAt /\ x.attendance = row[p].attendance
      BY <2>2, <2>5 DEF WriteReceipt, Finish, SetRow, IInv, TypeOK, MessageRow
  <2>7. RowInTime(p)'
      BY <2>2, <2>3, <2>5, <2>6 DEF RowInTime, Same, ProviderSame, Since, AcceptedSince
  <2> QED BY <2>2, <2>3, <2>4, <2>5, <2>6, <2>7, IdleFits, RowKeeps
<1> QED BY <1>1, <1>2

\* Attendances and links that are left alone stay in order as time passes.
LEMMA EpisodesStay ==
    ASSUME IInv, TypeOK', clock <= clock', UNCHANGED <<attendances, inbox, link>>,
           \A p \in Rows : row'[p].attendance = row[p].attendance,
           seen \subseteq seen', conversation'.unread <= conversation.unread
    PROVE  /\ EpisodesInTime' /\ EpisodesAreDisjoint' /\ ReplyIsWithin'
           /\ MessagesAreLinked' /\ CountersMatch'
<1>1. /\ clock \in Nat /\ clock' \in Nat /\ Len(inbox) \in Nat
      /\ conversation.unread \in Nat /\ conversation'.unread \in Nat
    BY FS_CardinalityType, FiniteAssumption, LenProperties DEF IInv, TypeOK, Times
<1>2. EpisodesInTime'
  <2> SUFFICES ASSUME NEW i \in DOMAIN attendances PROVE EpisodeInTime(attendances[i])'
      BY DEF EpisodesInTime
  <2>1. attendances[i] \in AttendanceRow /\ EpisodeInTime(attendances[i])
      BY LenProperties, ElementOfSeq DEF IInv, TypeOK, EpisodesInTime
  <2> QED BY <1>1, <2>1 DEF EpisodeInTime, AttendanceRow
<1>3. EpisodesAreDisjoint' /\ ReplyIsWithin'
    BY DEF IInv, EpisodesAreDisjoint, ReplyIsWithin
<1>4. MessagesAreLinked'
    BY <1>1 DEF IInv, MessagesAreLinked
<1>5. CountersMatch'
    BY CountersStay DEF IInv
<1> QED BY <1>2, <1>3, <1>4, <1>5

\* The provider accepts a text after its row was created.
LEMMA ProviderAnswersKeeps ==
    ASSUME IInv, NEW s \in Sessions, NEW answer \in Answers, NEW taken \in BOOLEAN,
           ProviderAnswers(s, answer, taken)
    PROVE  IInv'
<1>1. InFlight(s) /\ HasRow(s)
    BY DEF ProviderAnswers, InFlight, HasRow, Sending, Doing
<1>2. PICK p \in Rows, a \in Attempts : p = session[s].row /\ a = session[s].requestId
    BY <1>1, SessionShape DEF IInv, TypeOK
<1> DEFINE y == [job |-> session[s].job, at |-> "answered", row |-> p, requestId |-> a,
                 answer |-> answer]
<1>3. /\ session' = [session EXCEPT ![s] = y]
      /\ accepted' = [accepted EXCEPT ![a] = IF taken THEN clock ELSE @]
      /\ UNCHANGED <<row, foreign, device>> /\ EpisodesSame /\ InboundSame /\ Same
      /\ answer \in {"identified", "confirmed"} => taken
    BY <1>2 DEF ProviderAnswers
<1>4. y \in SessionState
    BY <1>1 DEF SessionState, InFlight, Sending, Doing
<1>5. /\ session'[s] = y /\ \A r \in Sessions \ {s} : session'[r] = session[r]
      /\ \A b \in Attempts : accepted'[b] = accepted[b] \/ accepted'[b] = clock
      /\ taken => accepted'[a] = clock
      /\ clock \in Nat /\ row[p].createdAt \in Nat
      /\ row[p].createdAt <= clock /\ row[p].status \notin {"none", "FAILED"}
    BY <1>1, <1>2, <1>3
       DEF IInv, TypeOK, RowsInTime, RowInTime, RequestsFit, Fits, MessageRow, Times
<1>6. TypeOK'
    BY <1>3, <1>4 DEF IInv, TypeOK, EpisodesSame, InboundSame, Same
<1>7. RowsInTime'
  <2>1. \A q \in Rows : RowInTime(q)'
      BY <1>3, <1>5, <1>6, RowStaysInTime DEF IInv, Same
  <2>2. \A b \in Attempts : accepted'[b] # None => accepted'[b] <= clock'
      BY <1>3, <1>5 DEF IInv, RowsInTime, Same
  <2> QED BY <2>1, <2>2 DEF RowsInTime
<1>8. RequestsFit'
  <2>1. ASSUME NEW r \in Sessions \ {s} PROVE Fits(r)'
    <3>1. Fits(r)
        BY DEF IInv, RequestsFit
    <3>2. /\ clock <= clock' /\ seen \subseteq seen' /\ link' = link /\ row' = row
          /\ conversation' = conversation
        BY <1>3, <1>5 DEF InboundSame, EpisodesSame, Same
    <3> QED BY <1>5, <1>6, <3>1, <3>2, StaysFit DEF IInv, Fits
  <2>2. Fits(s)'
    <3>1. /\ session'[s].job = session[s].job /\ session'[s].at = "answered"
          /\ session'[s].row = p /\ session'[s].requestId = a /\ session'[s].answer = answer
          /\ session[s].job \in {"send", "retry"}
        BY <1>1, <1>5 DEF InFlight, Sending, Doing
    <3>2. answer \in {"identified", "confirmed"} =>
              accepted'[a] # None /\ row'[p].createdAt <= accepted'[a] /\ accepted'[a] <= clock'
        BY <1>3, <1>5, NoneAssumption DEF Same
    <3>3. row'[p] = row[p]
        BY <1>3
    <3> HIDE DEF y
    <3> QED BY <1>5, <3>1, <3>2, <3>3
            DEF Fits, Receiving, HasRow, InFlight, Sending, Doing, Marking, AcceptedSince, Since
  <2>3. ASSUME NEW r \in Sessions \ {s} PROVE Apart(s, r)'
    <3>1. Apart(s, r) /\ session'[r] = session[r]
        BY <1>5 DEF IInv, RequestsFit
    <3>2. /\ session'[s].row = session[s].row /\ session'[s].job \in {"send", "retry"}
        BY <1>1, <1>2, <1>5 DEF InFlight, Sending, Doing
    <3> HIDE DEF y
    <3> QED BY <1>1, <3>1, <3>2 DEF Apart, Receiving, InFlight, Sending, Doing, Marking
  <2>4. /\ RequestsFit /\ session \in [Sessions -> SessionState]
        /\ \A r \in Sessions : Fits(r)'
      BY <2>1, <2>2 DEF IInv, TypeOK
  <2> HIDE DEF y
  <2> QED BY <1>3, <1>4, <2>3, <2>4, OthersApart
<1>9. EpisodesInTime' /\ EpisodesAreDisjoint' /\ ReplyIsWithin' /\ MessagesAreLinked'
      /\ CountersMatch'
  <2>1. conversation'.unread <= conversation.unread
      BY <1>3, FS_CardinalityType, FiniteAssumption DEF EpisodesSame, IInv, TypeOK
  <2> QED BY <1>3, <1>5, <1>6, <2>1, EpisodesStay DEF EpisodesSame, InboundSame, Same
<1> QED BY <1>6, <1>7, <1>8, <1>9 DEF IInv

\* The identifier is that of an attempt the provider has accepted.
LEMMA RememberProviderConfirmationKeeps ==
    ASSUME IInv, NEW s \in Sessions, RememberProviderConfirmation(s) PROVE IInv'
<1>1. InFlight(s) /\ HasRow(s) /\ Sending(s, "answered")
      /\ session[s].answer \in {"identified", "confirmed"}
    BY DEF RememberProviderConfirmation, InFlight, HasRow, Sending, Doing
<1>2. PICK p \in Rows, a \in Attempts, answer \in {"identified", "confirmed"} :
          p = session[s].row /\ a = session[s].requestId /\ answer = session[s].answer
    BY <1>1, SessionShape DEF IInv, TypeOK
<1>3. PICK id \in {a, None} : id = Identifier(s)
    BY <1>2 DEF Identifier
<1> DEFINE x == [row[p] EXCEPT !.providerMessageId = id]
           y == [job |-> session[s].job, at |-> "confirmed", row |-> p, requestId |-> a,
                 answer |-> answer, sentAt |-> clock]
<1>4. /\ session' = [session EXCEPT ![s] = y]
      /\ SetRow(p, x) \/ UNCHANGED row
      /\ ProviderSame /\ EpisodesSame /\ InboundSame /\ Same
    BY <1>2, <1>3 DEF RememberProviderConfirmation
<1>5. /\ row[p] \in MessageRow /\ RowInTime(p) /\ row[p].status # "none"
      /\ accepted[a] # None /\ row[p].createdAt <= accepted[a] /\ accepted[a] <= clock
      /\ row[p].createdAt \in Nat /\ row[p].createdAt <= clock /\ clock \in Times
    BY <1>1, <1>2 DEF IInv, TypeOK, RowsInTime, RowInTime, RequestsFit, Fits, MessageRow, Times,
                      AcceptedSince, Since
<1>6. y \in SessionState /\ x \in MessageRow
    BY <1>1, <1>5 DEF SessionState, InFlight, Sending, Doing, MessageRow
<1>7. /\ session'[s] = y /\ row'[p].createdAt = row[p].createdAt
      /\ row'[p].status = row[p].status
    BY <1>4, <1>5, <1>6 DEF SetRow, IInv, TypeOK, MessageRow
<1>8. /\ session'[s].job \in {"send", "retry"} /\ session'[s].at = "confirmed"
      /\ session'[s].row = p /\ session'[s].requestId = a /\ session'[s].sentAt = clock
    BY <1>1, <1>7 DEF InFlight, Sending, Doing
<1>9. Fits(s)'
  <2> HIDE DEF x, y
  <2>1. clock \in Nat /\ clock <= clock
      BY <1>5 DEF Times
  <2> QED BY <1>4, <1>5, <1>7, <1>8, <2>1
          DEF Fits, Receiving, HasRow, InFlight, Sending, Doing, Marking, AcceptedSince, Since,
              Same, ProviderSame
<1>10. \A r \in Sessions \ {s} : Apart(s, r)'
  <2> HIDE DEF x, y
  <2> QED BY <1>8 DEF Apart, Receiving, InFlight, Sending, Doing, Marking
<1>11. CASE UNCHANGED row
    BY <1>4, <1>6, <1>9, <1>10, <1>11, RequestMoves DEF OutgoingSame, ProviderSame
<1>12. CASE SetRow(p, x)
  <2>1. /\ x.status = row[p].status /\ x.sentAt = row[p].sentAt /\ x.providerMessageId = id
        /\ x.requestId = row[p].requestId /\ x.createdAt = row[p].createdAt
        /\ x.attendance = row[p].attendance /\ row'[p] = x
      BY <1>5, <1>12 DEF MessageRow, SetRow, IInv, TypeOK
  <2>2. RowInTime(p)'
      BY <1>4, <1>5, <2>1 DEF RowInTime, Same, ProviderSame, Since, AcceptedSince
  <2>3. x.status = "FAILED" => \A r \in Sessions \ {s} : InFlight(r) => session[r].row # p
      BY <1>1, <1>2 DEF IInv, RequestsFit, Apart
  <2> QED BY <1>4, <1>5, <1>6, <1>9, <1>10, <1>12, <2>1, <2>2, <2>3, RowKeeps
<1> QED BY <1>4, <1>11, <1>12

(***************************************************************************)
(* Time, the provider's device and messages that arrive.                   *)
(***************************************************************************)
\* Nothing that is kept falls into the future when time passes.
LEMMA TickKeeps == ASSUME IInv, Tick PROVE IInv'
<1> USE DEF IInv, Tick, EpisodesSame, InboundSame, OutgoingSame
<1>1. clock \in Nat /\ clock' = clock + 1 /\ clock' \in Times
    BY JobsAssumption DEF TypeOK, Times
<1>2. TypeOK'
    BY <1>1 DEF TypeOK
<1>3. RowsInTime'
  <2>1. \A q \in Rows : RowInTime(q)'
      BY <1>1, <1>2, RowStaysInTime
  <2>2. \A b \in Attempts : accepted'[b] # None => accepted'[b] <= clock'
      BY <1>1 DEF RowsInTime, TypeOK, Times
  <2> QED BY <2>1, <2>2 DEF RowsInTime
<1>4. RequestsFit'
  <2>1. ASSUME NEW r \in Sessions PROVE Fits(r)'
      BY <1>1, <1>2, StaysFit DEF RequestsFit, Fits
  <2>2. ASSUME NEW r \in Sessions, NEW q \in Sessions, r # q PROVE Apart(r, q)'
      BY <2>2 DEF RequestsFit, Apart, InFlight, Receiving, Marking, Sending, Doing
  <2> QED BY <2>1, <2>2 DEF RequestsFit
<1>5. EpisodesInTime' /\ EpisodesAreDisjoint' /\ ReplyIsWithin' /\ MessagesAreLinked'
      /\ CountersMatch'
  <2>1. conversation'.unread <= conversation.unread
      BY FS_CardinalityType, FiniteAssumption DEF TypeOK
  <2> QED BY <1>1, <1>2, <2>1, EpisodesStay
<1> QED BY <1>2, <1>3, <1>4, <1>5

\* What neither rows, requests nor attendances look at.
LEMMA AsideKeeps ==
    ASSUME IInv, TypeOK',
           UNCHANGED <<clock, row, accepted, session, conversation, attendances, seen, inbox, link>>
    PROVE  IInv'
<1> USE DEF IInv
<1>1. RowsInTime' /\ RequestsFit'
    BY DEF RowsInTime, RowInTime, AcceptedSince, Since, RequestsFit, Fits, Apart, Receiving, HasRow,
           InFlight, Sending, Doing, Marking
<1>2. EpisodesInTime' /\ EpisodesAreDisjoint' /\ ReplyIsWithin'
    BY DEF EpisodesInTime, EpisodeInTime, EpisodesAreDisjoint, ReplyIsWithin
<1>3. MessagesAreLinked' /\ CountersMatch'
    BY CountersStay DEF MessagesAreLinked
<1> QED BY <1>1, <1>2, <1>3

LEMMA DeviceReceivesKeeps ==
    ASSUME IInv, NEW a \in Attempts, NEW state \in {"delivered", "read"}, DeviceReceives(a, state)
    PROVE  IInv'
<1>1. TypeOK'
    BY DEF IInv, TypeOK, DeviceReceives, EpisodesSame, InboundSame, Same
<1> QED BY <1>1, AsideKeeps DEF DeviceReceives, EpisodesSame, InboundSame, Same

LEMMA CreateEchoedKeeps ==
    ASSUME IInv, NEW a \in Attempts, CreateEchoed(a) PROVE IInv'
<1>1. TypeOK'
    BY DEF IInv, TypeOK, CreateEchoed, EpisodesSame, InboundSame, Same
<1> QED BY <1>1, AsideKeeps DEF CreateEchoed, EpisodesSame, InboundSame, Same

\* A message is received once: a request that carries it has it to itself.
LEMMA ReceiveWebhookKeeps ==
    ASSUME IInv, NEW s \in Sessions, NEW m \in Inbound, NEW t \in 0 .. clock,
           ReceiveWebhook(s, m, t)
    PROVE  IInv'
<1> DEFINE y == [job |-> "inbound", at |-> "conversation", message |-> m, occurredAt |-> t]
<1> USE DEF IInv
<1>1. /\ m \notin seen /\ seen' = seen \cup {m} /\ session' = [session EXCEPT ![s] = y]
      /\ UNCHANGED <<clock, row, foreign, accepted, device, conversation, attendances, inbox, link,
                     readAtProvider>>
    BY DEF ReceiveWebhook, Begin, EpisodesSame, OutgoingSame, Same
<1>2. t \in Times /\ t <= clock /\ clock \in Nat
    BY JobsAssumption DEF TypeOK, Times
<1>3. y \in SessionState
    BY <1>2 DEF SessionState
<1>4. TypeOK'
    BY <1>1, <1>3 DEF TypeOK
<1>5. session'[s] = y /\ \A r \in Sessions \ {s} : session'[r] = session[r]
    BY <1>1 DEF TypeOK
<1>6. link[m] = 0
    BY <1>1 DEF MessagesAreLinked
<1>7. RequestsFit'
  <2>1. ASSUME NEW r \in Sessions \ {s} PROVE Fits(r)'
    <3>1. Fits(r) /\ clock <= clock' /\ seen \subseteq seen'
        BY <1>1, <1>2 DEF RequestsFit
    <3> QED BY <1>1, <1>4, <1>5, <3>1, StaysFit DEF Fits
  <2>2. Fits(s)'
      BY <1>1, <1>2, <1>5, <1>6
         DEF Fits, Receiving, HasRow, InFlight, Sending, Doing, Marking
  <2>3. ASSUME NEW r \in Sessions \ {s} PROVE Apart(s, r)'
    <3>1. Receiving(r) => session[r].message # m
        BY <1>1 DEF RequestsFit, Fits
    <3> QED BY <1>5, <3>1 DEF Apart, Receiving, InFlight, Sending, Doing, Marking
  <2>4. RequestsFit /\ session \in [Sessions -> SessionState] /\ \A r \in Sessions : Fits(r)'
      BY <2>1, <2>2 DEF TypeOK
  <2> HIDE DEF y, IInv
  <2> QED BY <1>1, <1>3, <2>3, <2>4, OthersApart
<1>8. RowsInTime'
    BY <1>1 DEF RowsInTime, RowInTime, AcceptedSince, Since
<1>9. EpisodesInTime' /\ EpisodesAreDisjoint' /\ ReplyIsWithin' /\ MessagesAreLinked'
      /\ CountersMatch'
  <2>1. conversation'.unread <= conversation.unread
      BY <1>1, FS_CardinalityType, FiniteAssumption DEF TypeOK
  <2> QED BY <1>1, <1>2, <1>4, <2>1, EpisodesStay
<1> QED BY <1>4, <1>7, <1>8, <1>9

\* The provider is told of messages that are there: as many as were unread.
LEMMA ConfirmReadKeeps ==
    ASSUME IInv, NEW s \in Sessions, ConfirmRead(s) PROVE IInv'
<1> DEFINE y == [session[s] EXCEPT !.at = "confirmed"]
           oldest == Len(inbox) - session[s].count + 1
<1> USE DEF IInv
<1>1. /\ Doing(s, "markRead", "counted")
      /\ readAtProvider' = readAtProvider \cup {inbox[i] : i \in oldest .. Len(inbox)}
      /\ session' = [session EXCEPT ![s] = y]
      /\ UNCHANGED <<clock, row, foreign, accepted, device, conversation, attendances, seen, inbox,
                     link>>
    BY DEF ConfirmRead, EpisodesSame, OutgoingSame, Same
<1>2. Marking(s) /\ session[s].count \in Nat
    BY <1>1, SessionShape DEF Marking, Doing, TypeOK
<1>3. session[s] = [job |-> "markRead", at |-> "counted", count |-> session[s].count]
    BY <1>1, <1>2 DEF TypeOK, SessionState, Idle, Doing
<1>4. /\ y.job = "markRead" /\ y.count = session[s].count /\ y \in SessionState
    BY <1>2, <1>3 DEF SessionState
<1>5. /\ Len(inbox) \in Nat /\ session[s].count <= Len(inbox) /\ conversation.unread \in Nat
    BY <1>2, LenProperties, FS_CardinalityType, FiniteAssumption
       DEF RequestsFit, Fits, MessagesAreLinked, TypeOK
<1>6. readAtProvider' \subseteq Inbound
  <2>1. \A i \in oldest .. Len(inbox) : i \in 1 .. Len(inbox)
      BY <1>2, <1>5
  <2> QED BY <1>1, <2>1, ElementOfSeq DEF TypeOK
<1>7. TypeOK'
    BY <1>1, <1>4, <1>6 DEF TypeOK
<1>8. session'[s] = y /\ \A r \in Sessions \ {s} : session'[r] = session[r]
    BY <1>1 DEF TypeOK
<1>9. RequestsFit'
  <2>1. session'[s].job = "markRead" /\ session'[s].count = session[s].count
      BY <1>4, <1>8
  <2> HIDE DEF y
  <2>2. Fits(s)'
      BY <1>1, <1>2, <2>1
         DEF RequestsFit, Fits, Receiving, HasRow, InFlight, Sending, Doing, Marking
  <2>3. ASSUME NEW r \in Sessions \ {s} PROVE Fits(r)'
      BY <1>1, <1>8 DEF RequestsFit, Fits, Receiving, HasRow, InFlight, Sending, Doing, Marking,
                        AcceptedSince, Since
  <2>4. ASSUME NEW r \in Sessions \ {s} PROVE Apart(s, r)'
      BY <1>2, <1>8, <2>1 DEF RequestsFit, Apart, Receiving, InFlight, Sending, Doing, Marking
  <2>5. RequestsFit /\ session \in [Sessions -> SessionState] /\ \A r \in Sessions : Fits(r)'
      BY <2>2, <2>3 DEF TypeOK
  <2> HIDE DEF IInv
  <2> QED BY <1>1, <1>4, <2>4, <2>5, OthersApart
<1>10. RowsInTime'
    BY <1>1 DEF RowsInTime, RowInTime, AcceptedSince, Since
<1>11. EpisodesInTime' /\ EpisodesAreDisjoint' /\ ReplyIsWithin' /\ MessagesAreLinked'
       /\ CountersMatch'
  <2>1. conversation'.unread <= conversation.unread /\ clock <= clock'
      BY <1>1, <1>5 DEF TypeOK, Times
  <2> QED BY <1>1, <1>7, <2>1, EpisodesStay
<1> QED BY <1>7, <1>9, <1>10, <1>11

\* Nobody else counts unread messages meanwhile, so the count never falls
\* below zero.
LEMMA DecrementUnreadKeeps ==
    ASSUME IInv, NEW s \in Sessions, DecrementUnread(s) PROVE IInv'
<1> USE DEF IInv
<1>1. /\ Marking(s)
      /\ conversation' = [conversation EXCEPT !.unread = @ - session[s].count]
      /\ session' = [session EXCEPT ![s] = Idle]
      /\ UNCHANGED <<clock, row, foreign, accepted, device, attendances, seen, inbox, link,
                     readAtProvider>>
    BY DEF DecrementUnread, Finish, Marking, Doing, InboundSame, OutgoingSame, Same
<1>2. /\ session[s].count \in Nat /\ conversation.unread \in Nat
      /\ session[s].count <= conversation.unread
      /\ Cardinality(Inbound) \in Nat
    BY <1>1, SessionShape, FS_CardinalityType, FiniteAssumption DEF RequestsFit, Fits, TypeOK
<1>3. /\ conversation'.unread = conversation.unread - session[s].count
      /\ conversation' \in [status : {"OPEN", "RESOLVED"}, unread : 0 .. Cardinality(Inbound)]
  <2>1. conversation.unread - session[s].count \in 0 .. Cardinality(Inbound)
      BY <1>2 DEF TypeOK
  <2> QED BY <1>1, <2>1 DEF TypeOK
<1>4. Idle \in SessionState
    BY DEF SessionState
<1>5. TypeOK'
    BY <1>1, <1>3, <1>4 DEF TypeOK
<1>6. session'[s] = Idle /\ \A r \in Sessions \ {s} : session'[r] = session[r]
    BY <1>1 DEF TypeOK
<1>7. RequestsFit'
  <2>1. ASSUME NEW r \in Sessions \ {s} PROVE Fits(r)'
    <3>1. Fits(r) /\ ~Marking(r) /\ clock <= clock'
        BY <1>1 DEF RequestsFit, Apart, TypeOK, Times
    <3> QED BY <1>1, <1>5, <1>6, <3>1, StaysFit DEF Fits
  <2>2. RequestsFit /\ session \in [Sessions -> SessionState] /\ \A r \in Sessions : Fits(r)'
      BY <1>6, <2>1, IdleFits DEF TypeOK
  <2> HIDE DEF IInv
  <2> QED BY <1>1, <1>4, <1>6, <2>2, IdleFits, OthersApart
<1>8. RowsInTime'
    BY <1>1 DEF RowsInTime, RowInTime, AcceptedSince, Since
<1>9. EpisodesInTime' /\ EpisodesAreDisjoint' /\ ReplyIsWithin' /\ MessagesAreLinked'
      /\ CountersMatch'
  <2>1. conversation'.unread <= conversation.unread /\ clock <= clock'
      BY <1>1, <1>2, <1>3 DEF TypeOK, Times
  <2> QED BY <1>1, <1>5, <2>1, EpisodesStay
<1> QED BY <1>5, <1>7, <1>8, <1>9

(***************************************************************************)
(* The operators on the attendances of a conversation.                     *)
(***************************************************************************)
\* There are no more attendances than messages of the contact.
LEMMA EachHasAMessage ==
    ASSUME NEW n \in Nat, NEW f \in [Inbound -> Nat],
           \A i \in 1 .. n : \E m \in Inbound : f[m] = i
    PROVE  n <= Cardinality(Inbound)
<1> DEFINE first == [i \in 1 .. n |-> CHOOSE m \in Inbound : f[m] = i]
<1>1. \A i \in 1 .. n : first[i] \in Inbound /\ f[first[i]] = i
    OBVIOUS
<1>2. first \in Injection(1 .. n, Inbound)
  <2>1. first \in [1 .. n -> Inbound]
      BY <1>1
  <2>2. \A i, j \in 1 .. n : first[i] = first[j] => i = j
      BY <1>1
  <2> HIDE DEF first
  <2> QED BY <2>1, <2>2 DEF Injection, IsInjective
<1>3. Cardinality(1 .. n) = n
    BY FS_Interval
<1> HIDE DEF first
<1> QED BY <1>2, <1>3, FS_Injection, FiniteAssumption

\* Nor are there more rows of messages than messages.
LEMMA EachIsStoredOnce ==
    ASSUME NEW list \in Seq(Inbound), \A i, j \in DOMAIN list : list[i] = list[j] => i = j
    PROVE  Len(list) <= Cardinality(Inbound)
<1>1. list \in [1 .. Len(list) -> Inbound] /\ Len(list) \in Nat /\ DOMAIN list = 1 .. Len(list)
    BY LenProperties
<1>2. list \in Injection(1 .. Len(list), Inbound)
    BY <1>1 DEF Injection, IsInjective
<1>3. \A n \in Nat : Cardinality(1 .. n) = n
    BY FS_Interval
<1> QED BY <1>1, <1>2, <1>3, FS_Injection, FiniteAssumption

LEMMA ResolveIs ==
    ASSUME NEW list \in Seq(AttendanceRow), NEW now \in Nat
    PROVE  /\ Resolve(list, now) \in Seq(AttendanceRow)
           /\ Len(Resolve(list, now)) = Len(list)
           /\ \A i \in DOMAIN list :
                  Resolve(list, now)[i] =
                      IF list[i].status = "RESOLVED" THEN list[i]
                      ELSE [list[i] EXCEPT !.status = "RESOLVED", !.resolvedAt = now]
<1> DEFINE n == Len(list)
           e(i) == IF list[i].status = "RESOLVED" THEN list[i]
                   ELSE [list[i] EXCEPT !.status = "RESOLVED", !.resolvedAt = now]
<1>1. n \in Nat /\ DOMAIN list = 1 .. n /\ \A i \in 1 .. n : list[i] \in AttendanceRow
    BY LenProperties, ElementOfSeq
<1>2. Resolve(list, now) = [i \in 1 .. n |-> e(i)]
    BY <1>1 DEF Resolve, Active
<1>3. ASSUME NEW i \in 1 .. n PROVE e(i) \in AttendanceRow
    BY <1>1 DEF AttendanceRow, AttendanceStatus
<1>4. Resolve(list, now) \in [1 .. n -> AttendanceRow]
  <2> HIDE DEF e
  <2> QED BY <1>2, <1>3
<1>5. Resolve(list, now) \in Seq(AttendanceRow)
    BY <1>1, <1>4, SeqDef
<1>6. Len(Resolve(list, now)) = n
    BY <1>1, <1>4, <1>5, LenProperties
<1> QED BY <1>1, <1>2, <1>5, <1>6

LEMMA RepliedIs ==
    ASSUME NEW x \in AttendanceRow, NEW at \in Nat
    PROVE  /\ Replied(x, at) \in AttendanceRow
           /\ Replied(x, at).status = "IN_PROGRESS"
           /\ Replied(x, at).outbound = x.outbound + 1 /\ Replied(x, at).inbound = x.inbound
           /\ Replied(x, at).openedAt = x.openedAt /\ Replied(x, at).resolvedAt = x.resolvedAt
           /\ Replied(x, at).firstAgentReplyAt \in {x.firstAgentReplyAt, at}
           /\ x.status = "PENDING" => Replied(x, at).firstAgentReplyAt # None
           /\ x.status = "IN_PROGRESS" => Replied(x, at).firstAgentReplyAt = x.firstAgentReplyAt
<1> DEFINE first == IF x.status = "PENDING" /\ x.firstAgentReplyAt = None
                    THEN at ELSE x.firstAgentReplyAt
<1>1. Replied(x, at) = [x EXCEPT !.outbound = @ + 1, !.status = "IN_PROGRESS",
                                 !.firstAgentReplyAt = first]
    BY DEF Replied, AttendanceRow
<1>2. /\ first \in Nat \cup {None} /\ first \in {x.firstAgentReplyAt, at}
      /\ x.status = "PENDING" => first # None
      /\ x.status = "IN_PROGRESS" => first = x.firstAgentReplyAt
    BY NoneAssumption DEF AttendanceRow
<1> HIDE DEF first
<1>3. /\ Replied(x, at).status = "IN_PROGRESS" /\ Replied(x, at).outbound = x.outbound + 1
      /\ Replied(x, at).inbound = x.inbound /\ Replied(x, at).openedAt = x.openedAt
      /\ Replied(x, at).resolvedAt = x.resolvedAt /\ Replied(x, at).firstAgentReplyAt = first
    BY <1>1 DEF AttendanceRow
<1>4. Replied(x, at) \in AttendanceRow
  <2>1. Replied(x, at) =
            [status |-> "IN_PROGRESS", openedAt |-> x.openedAt, firstAgentReplyAt |-> first,
             resolvedAt |-> x.resolvedAt, inbound |-> x.inbound, outbound |-> x.outbound + 1]
      BY <1>1 DEF AttendanceRow
  <2>2. /\ x.openedAt \in Nat /\ x.resolvedAt \in Nat \cup {None}
        /\ x.inbound \in Nat /\ x.outbound + 1 \in Nat /\ "IN_PROGRESS" \in AttendanceStatus
      BY DEF AttendanceRow, AttendanceStatus
  <2> QED BY <1>2, <2>1, <2>2 DEF AttendanceRow
<1> QED BY <1>2, <1>3, <1>4

\* A reply goes to an active attendance that was opened before it, once.
LEMMA RecordManualOutboundIs ==
    ASSUME NEW list \in Seq(AttendanceRow), NEW message \in MessageRow, NEW at \in Nat,
           message.attendance <= Len(list)
    PROVE  LET i == Answered(list, message)
               new == RecordManualOutbound(list, message, at)
           IN  /\ i \in 0 .. Len(list)
               /\ message.attendance # 0 \/ i = 0 => new = list /\ i = message.attendance
               /\ message.attendance = 0 /\ i # 0 =>
                      /\ new \in Seq(AttendanceRow) /\ Len(new) = Len(list)
                      /\ \A j \in DOMAIN list \ {i} : new[j] = list[j]
                      /\ list[i].status # "RESOLVED" /\ list[i].openedAt <= message.createdAt
                      /\ new[i] = Replied(list[i], at)
<1> DEFINE i == Answered(list, message)
           open == {j \in Active(list) : list[j].openedAt <= message.createdAt}
<1>1. /\ Len(list) \in Nat /\ DOMAIN list = 1 .. Len(list)
      /\ \A j \in 1 .. Len(list) : list[j] \in AttendanceRow
      /\ message.attendance \in Nat
    BY LenProperties, ElementOfSeq DEF MessageRow
<1>2. CASE message.attendance # 0
  <2>1. i = message.attendance
      BY <1>2 DEF Answered
  <2> QED BY <1>1, <1>2, <2>1 DEF RecordManualOutbound
<1>3. CASE message.attendance = 0 /\ open = {}
  <2>1. i = 0
      BY <1>3 DEF Answered
  <2> QED BY <1>1, <1>3, <2>1 DEF RecordManualOutbound
<1>4. CASE message.attendance = 0 /\ open # {}
  <2>1. i \in open
      BY <1>4 DEF Answered
  <2>2. PICK k \in 1 .. Len(list) : k = Answered(list, message)
      BY <1>1, <2>1 DEF Active
  <2>3. k # 0 /\ list[k].status # "RESOLVED" /\ list[k].openedAt <= message.createdAt
      BY <1>1, <2>1, <2>2 DEF Active
  <2> DEFINE x == Replied(list[k], at)
  <2>5. x \in AttendanceRow
      BY <1>1, RepliedIs
  <2>6. RecordManualOutbound(list, message, at) = [list EXCEPT ![k] = x]
      BY <1>4, <2>2, <2>3 DEF RecordManualOutbound
  <2>7. [list EXCEPT ![k] = x] \in Seq(AttendanceRow) /\ Len([list EXCEPT ![k] = x]) = Len(list)
        /\ [list EXCEPT ![k] = x][k] = x
        /\ \A j \in DOMAIN list \ {k} : [list EXCEPT ![k] = x][j] = list[j]
    <3> HIDE DEF x
    <3> QED BY <1>1, <2>5, ExceptSeq
  <2> HIDE DEF i, x
  <2>8. k \in 0 .. Len(list)
      BY <1>1
  <2> QED BY <1>1, <1>4, <2>2, <2>3, <2>6, <2>7, <2>8 DEF x
<1> QED BY <1>2, <1>3, <1>4

LEMMA LastResolvedIs ==
    ASSUME NEW list \in Seq(AttendanceRow), Active(list) = {}, Len(list) # 0,
           \A j \in DOMAIN list : list[j].resolvedAt <= list[Len(list)].resolvedAt
    PROVE  /\ LastResolved(list) \in DOMAIN list
           /\ \A j \in DOMAIN list : list[j].resolvedAt <= list[LastResolved(list)].resolvedAt
<1>1. Resolved(list) = DOMAIN list /\ Len(list) \in DOMAIN list
    BY LenProperties DEF Resolved
<1>2. \E k \in Resolved(list) : \A j \in Resolved(list) : list[j].resolvedAt <= list[k].resolvedAt
    BY <1>1
<1> QED BY <1>1, <1>2 DEF LastResolved

\* A message opens an attendance only a grace period after the last one ended.
LEMMA RecordInboundIs ==
    ASSUME NEW list \in Seq(AttendanceRow), NEW at \in Nat,
           Active(list) = {} =>
               \A j \in DOMAIN list : list[j].resolvedAt <= list[Len(list)].resolvedAt,
           NEW i, i = InboundTarget(list, at), NEW new, new = RecordInbound(list, at)
    PROVE  /\ i \in 1 .. Len(list) + 1
           /\ i <= Len(list) =>
                  /\ new \in Seq(AttendanceRow) /\ Len(new) = Len(list)
                  /\ \A j \in DOMAIN list \ {i} : new[j] = list[j]
                  /\ new[i] = [list[i] EXCEPT !.inbound = @ + 1]
           /\ i = Len(list) + 1 =>
                  /\ new = Append(list, Opened(at)) /\ Active(list) = {}
                  /\ Len(list) # 0 =>
                         /\ LastResolved(list) \in DOMAIN list
                         /\ ~(list[LastResolved(list)].resolvedAt + Grace > at)
                         /\ \A j \in DOMAIN list :
                                list[j].resolvedAt <= list[LastResolved(list)].resolvedAt
<1>1. /\ Len(list) \in Nat /\ DOMAIN list = 1 .. Len(list)
      /\ \A j \in 1 .. Len(list) : list[j] \in AttendanceRow
    BY LenProperties, ElementOfSeq
<1>2. Resolved(list) # {} => Len(list) # 0
    BY <1>1 DEF Resolved
<1>3. CASE i \in DOMAIN list
  <2>1. PICK k \in 1 .. Len(list) : k = InboundTarget(list, at)
      BY <1>1, <1>3
  <2> DEFINE x == [list[k] EXCEPT !.inbound = @ + 1]
  <2>2. list[k] \in AttendanceRow /\ list[k].inbound + 1 \in Nat
      BY <1>1 DEF AttendanceRow
  <2>3. x \in AttendanceRow
      BY <2>2 DEF AttendanceRow
  <2>4. RecordInbound(list, at) = [list EXCEPT ![k] = x]
      BY <1>3, <2>1 DEF RecordInbound
  <2>5. [list EXCEPT ![k] = x] \in Seq(AttendanceRow) /\ Len([list EXCEPT ![k] = x]) = Len(list)
        /\ [list EXCEPT ![k] = x][k] = x
        /\ \A j \in DOMAIN list \ {k} : [list EXCEPT ![k] = x][j] = list[j]
    <3> HIDE DEF x
    <3> QED BY <1>1, <2>3, ExceptSeq
  <2> HIDE DEF x
  <2>6. k \in 1 .. Len(list) + 1 /\ k # Len(list) + 1
      BY <1>1
  <2> QED BY <2>1, <2>4, <2>5, <2>6 DEF x
<1>4. CASE Active(list) # {}
  <2>1. i \in Active(list)
      BY <1>4 DEF InboundTarget
  <2> QED BY <1>3, <2>1 DEF Active
<1>5. CASE Active(list) = {} /\ IsCourtesy(list, at)
  <2>1. i = LastResolved(list)
      BY <1>5 DEF InboundTarget
  <2>2. LastResolved(list) \in DOMAIN list
      BY <1>2, <1>5, LastResolvedIs DEF IsCourtesy
  <2> QED BY <1>3, <2>1, <2>2
<1>6. CASE Active(list) = {} /\ ~IsCourtesy(list, at)
  <2>1. i = Len(list) + 1 /\ i \notin DOMAIN list
      BY <1>1, <1>6 DEF InboundTarget
  <2>2. RecordInbound(list, at) = Append(list, Opened(at))
      BY <2>1 DEF RecordInbound
  <2>3. i \in 1 .. Len(list) + 1 /\ ~(i <= Len(list))
      BY <1>1, <2>1
  <2>4. Len(list) # 0 =>
            /\ LastResolved(list) \in DOMAIN list
            /\ \A j \in DOMAIN list : list[j].resolvedAt <= list[LastResolved(list)].resolvedAt
      BY <1>6, LastResolvedIs
  <2>5. Len(list) # 0 => ~(list[LastResolved(list)].resolvedAt + Grace > at)
    <3>1. Len(list) # 0 => Resolved(list) # {}
        BY <1>1, <1>6 DEF Resolved
    <3> QED BY <1>6, <3>1 DEF IsCourtesy
  <2> QED BY <1>6, <2>1, <2>2, <2>4, <2>5, <2>3
<1> QED BY <1>4, <1>5, <1>6

(***************************************************************************)
(* Attendances.                                                            *)
(***************************************************************************)
LEMMA AttendanceShape ==
    ASSUME IInv
    PROVE  /\ Len(attendances) \in Nat /\ DOMAIN attendances = 1 .. Len(attendances)
           /\ \A i \in DOMAIN attendances :
                  attendances[i] \in AttendanceRow /\ EpisodeInTime(attendances[i])
           /\ clock \in Nat
BY LenProperties, ElementOfSeq DEF IInv, TypeOK, EpisodesInTime, Times

\* Who resolves leaves the resolved ones alone and ends the active one now.
LEMMA ResolveActiveAttendanceKeeps ==
    ASSUME IInv, NEW s \in Sessions, ResolveActiveAttendance(s) PROVE IInv'
<1> USE DEF IInv
<1>1. /\ attendances' = Resolve(attendances, clock)
      /\ conversation' = [conversation EXCEPT !.status = "RESOLVED"]
      /\ session' = [session EXCEPT ![s] = Idle]
      /\ UNCHANGED <<clock, seen, inbox, link, readAtProvider, row, foreign, accepted, device>>
    BY DEF ResolveActiveAttendance, Finish, InboundSame, OutgoingSame, Same
<1>2. /\ attendances' \in Seq(AttendanceRow) /\ Len(attendances') = Len(attendances)
      /\ DOMAIN attendances' = DOMAIN attendances
      /\ \A i \in DOMAIN attendances :
             attendances'[i] =
                 IF attendances[i].status = "RESOLVED" THEN attendances[i]
                 ELSE [attendances[i] EXCEPT !.status = "RESOLVED", !.resolvedAt = clock]
  <2>1. attendances \in Seq(AttendanceRow) /\ clock \in Nat
      BY AttendanceShape DEF TypeOK
  <2> HIDE DEF IInv
  <2>2. /\ attendances' \in Seq(AttendanceRow) /\ Len(attendances') = Len(attendances)
        /\ \A i \in DOMAIN attendances :
               attendances'[i] =
                   IF attendances[i].status = "RESOLVED" THEN attendances[i]
                   ELSE [attendances[i] EXCEPT !.status = "RESOLVED", !.resolvedAt = clock]
      BY <1>1, <2>1, ResolveIs
  <2> QED BY <2>1, <2>2, LenProperties
<1>3. conversation'.unread = conversation.unread /\ conversation.unread \in Nat
    BY <1>1, FS_CardinalityType, FiniteAssumption DEF TypeOK
<1>4. Idle \in SessionState
    BY DEF SessionState
<1>5. TypeOK'
    BY <1>1, <1>2, <1>4 DEF TypeOK
<1>6. ASSUME NEW i \in DOMAIN attendances
      PROVE  /\ EpisodeInTime(attendances[i]) /\ attendances[i] \in AttendanceRow
             /\ attendances'[i].status = "RESOLVED"
             /\ attendances'[i].openedAt = attendances[i].openedAt
             /\ attendances'[i].firstAgentReplyAt = attendances[i].firstAgentReplyAt
             /\ attendances'[i].inbound = attendances[i].inbound
             /\ attendances'[i].outbound = attendances[i].outbound
             /\ attendances'[i].resolvedAt = IF attendances[i].status = "RESOLVED"
                                             THEN attendances[i].resolvedAt ELSE clock
    BY <1>2, AttendanceShape DEF AttendanceRow
<1>7. EpisodesInTime'
  <2> SUFFICES ASSUME NEW i \in DOMAIN attendances PROVE EpisodeInTime(attendances[i])'
      BY <1>2 DEF EpisodesInTime
  <2> QED BY <1>1, <1>6, AttendanceShape, NoneAssumption DEF EpisodeInTime
<1>8. EpisodesAreDisjoint'
    BY <1>2, <1>6 DEF EpisodesAreDisjoint
<1>9. ReplyIsWithin'
  <2> SUFFICES ASSUME NEW i \in DOMAIN attendances, attendances'[i].firstAgentReplyAt # None
               PROVE  /\ attendances'[i].outbound > 0
                      /\ attendances'[i].openedAt <= attendances'[i].firstAgentReplyAt
                      /\ attendances'[i].firstAgentReplyAt <= attendances'[i].resolvedAt
      BY <1>2, <1>6 DEF ReplyIsWithin
  <2> QED BY <1>6, AttendanceShape DEF ReplyIsWithin, EpisodeInTime
<1>10. MessagesAreLinked'
    BY <1>1, <1>2, <1>3 DEF MessagesAreLinked
<1>11. CountersMatch'
  <2>1. \A i : MessagesOf(i)' = MessagesOf(i) /\ RepliesOf(i)' = RepliesOf(i)
      BY <1>1 DEF MessagesOf, RepliesOf
  <2> QED BY <1>2, <1>6, <2>1 DEF CountersMatch
<1>12. RowsInTime'
    BY <1>1 DEF RowsInTime, RowInTime, AcceptedSince, Since
<1>13. RequestsFit'
  <2>1. session'[s] = Idle /\ \A r \in Sessions \ {s} : session'[r] = session[r]
      BY <1>1 DEF TypeOK
  <2>2. ASSUME NEW r \in Sessions \ {s} PROVE Fits(r)'
      BY <1>1, <1>3, <2>1 DEF RequestsFit, Fits, Receiving, HasRow, InFlight, Sending, Doing,
                              Marking, AcceptedSince, Since
  <2>3. RequestsFit /\ session \in [Sessions -> SessionState] /\ \A r \in Sessions : Fits(r)'
      BY <2>1, <2>2, IdleFits DEF TypeOK
  <2> HIDE DEF IInv
  <2> QED BY <1>1, <1>4, <2>1, <2>3, IdleFits, OthersApart
<1> QED BY <1>5, <1>7, <1>8, <1>9, <1>10, <1>11, <1>12, <1>13

\* A text that is confirmed answers an attendance that was opened before it was
\* written, and counts there once.
LEMMA AnswerKeeps ==
    ASSUME IInv, NEW p \in Rows, NEW at \in Nat, Since(p, at),
           attendances' = RecordManualOutbound(attendances, row[p], at),
           row'[p].attendance = Answered(attendances, row[p]),
           \A q \in Rows \ {p} : row'[q].attendance = row[q].attendance,
           UNCHANGED <<clock, seen, inbox, link, conversation>>
    PROVE  /\ attendances' \in Seq(AttendanceRow) /\ Len(attendances') = Len(attendances)
           /\ row'[p].attendance \in 0 .. Len(attendances)
           /\ EpisodesInTime' /\ EpisodesAreDisjoint' /\ ReplyIsWithin'
           /\ MessagesAreLinked' /\ CountersMatch'
<1> USE DEF IInv
<1>1. PICK i : i = Answered(attendances, row[p])
    OBVIOUS
<1>2. /\ attendances \in Seq(AttendanceRow) /\ row[p] \in MessageRow
      /\ row[p].attendance \in Nat /\ row[p].attendance <= Len(attendances)
      /\ row[p].createdAt \in Nat
    BY DEF TypeOK, MessageRow, Times
<1>3. /\ i \in 0 .. Len(attendances)
      /\ row[p].attendance # 0 \/ i = 0 => attendances' = attendances /\ i = row[p].attendance
      /\ row[p].attendance = 0 /\ i # 0 =>
             /\ attendances' \in Seq(AttendanceRow) /\ Len(attendances') = Len(attendances)
             /\ \A j \in DOMAIN attendances \ {i} : attendances'[j] = attendances[j]
             /\ attendances[i].status # "RESOLVED"
             /\ attendances[i].openedAt <= row[p].createdAt
             /\ attendances'[i] = Replied(attendances[i], at)
  <2> HIDE DEF IInv
  <2> QED BY <1>1, <1>2, RecordManualOutboundIs
<1>4. CASE row[p].attendance # 0 \/ i = 0
  <2>1. attendances' = attendances /\ \A q \in Rows : row'[q].attendance = row[q].attendance
      BY <1>1, <1>3, <1>4
  <2>2. EpisodesInTime' /\ EpisodesAreDisjoint' /\ ReplyIsWithin'
      BY <2>1 DEF EpisodesInTime, EpisodeInTime, EpisodesAreDisjoint, ReplyIsWithin
  <2>3. MessagesAreLinked' /\ CountersMatch'
      BY <2>1, CountersStay DEF MessagesAreLinked
  <2> QED BY <1>1, <1>2, <1>3, <2>1, <2>2, <2>3
<1>5. CASE row[p].attendance = 0 /\ i # 0
  <2>1. /\ attendances' \in Seq(AttendanceRow) /\ Len(attendances') = Len(attendances)
        /\ DOMAIN attendances' = DOMAIN attendances /\ i \in DOMAIN attendances
        /\ \A j \in DOMAIN attendances \ {i} : attendances'[j] = attendances[j]
      BY <1>3, <1>5, AttendanceShape, LenProperties
  <2>2. /\ attendances[i] \in AttendanceRow /\ EpisodeInTime(attendances[i])
        /\ attendances'[i].status = "IN_PROGRESS"
        /\ attendances'[i].outbound = attendances[i].outbound + 1
        /\ attendances'[i].inbound = attendances[i].inbound
        /\ attendances'[i].openedAt = attendances[i].openedAt
        /\ attendances'[i].resolvedAt = attendances[i].resolvedAt
        /\ attendances'[i].firstAgentReplyAt \in {attendances[i].firstAgentReplyAt, at}
        /\ attendances'[i].firstAgentReplyAt # None
        /\ attendances[i].resolvedAt = None
    <3>1. attendances[i] \in AttendanceRow /\ EpisodeInTime(attendances[i])
          /\ attendances[i].status \in {"PENDING", "IN_PROGRESS"}
        BY <1>3, <1>5, <2>1, AttendanceShape DEF AttendanceRow, AttendanceStatus
    <3>2. attendances[i].status = "IN_PROGRESS" => attendances[i].firstAgentReplyAt # None
        BY <2>1 DEF ReplyIsWithin
    <3>3. attendances[i].resolvedAt = None
        BY <3>1 DEF EpisodeInTime
    <3>4. attendances'[i] = Replied(attendances[i], at)
        BY <1>3, <1>5
    <3> HIDE DEF IInv
    <3>5. /\ attendances'[i].status = "IN_PROGRESS"
          /\ attendances'[i].outbound = attendances[i].outbound + 1
          /\ attendances'[i].inbound = attendances[i].inbound
          /\ attendances'[i].openedAt = attendances[i].openedAt
          /\ attendances'[i].resolvedAt = attendances[i].resolvedAt
          /\ attendances'[i].firstAgentReplyAt \in {attendances[i].firstAgentReplyAt, at}
          /\ attendances[i].status = "PENDING" => attendances'[i].firstAgentReplyAt # None
          /\ attendances[i].status = "IN_PROGRESS" =>
                 attendances'[i].firstAgentReplyAt = attendances[i].firstAgentReplyAt
        BY <3>1, <3>4, RepliedIs
    <3> QED BY <3>1, <3>2, <3>3, <3>5
  <2>3. /\ attendances[i].openedAt \in Nat /\ attendances[i].outbound \in Nat
        /\ attendances[i].firstAgentReplyAt \in Nat \cup {None}
        /\ attendances[i].openedAt <= at /\ at <= clock
    <3>1. row[p].createdAt <= at /\ at <= clock /\ attendances[i].openedAt <= row[p].createdAt
        BY <1>3, <1>5 DEF Since
    <3>2. attendances[i].openedAt \in Nat /\ attendances[i].outbound \in Nat
          /\ attendances[i].firstAgentReplyAt \in Nat \cup {None}
        BY <2>2 DEF AttendanceRow
    <3> QED BY <1>2, <3>1, <3>2
  <2>4. EpisodesInTime'
    <3>1. EpisodeInTime(attendances[i])'
        BY <2>2, <2>3 DEF EpisodeInTime
    <3>2. \A j \in DOMAIN attendances \ {i} : EpisodeInTime(attendances[j])'
        BY <2>1 DEF EpisodesInTime, EpisodeInTime
    <3> QED BY <2>1, <3>1, <3>2 DEF EpisodesInTime
  <2>5. EpisodesAreDisjoint'
    <3>1. \A j \in DOMAIN attendances : /\ attendances'[j].openedAt = attendances[j].openedAt
                                        /\ attendances'[j].resolvedAt = attendances[j].resolvedAt
        BY <2>1, <2>2
    <3>2. \A j \in DOMAIN attendances : attendances[j].status = "RESOLVED" =>
                                        attendances'[j].status = "RESOLVED"
        BY <1>3, <1>5, <2>1
    <3> QED BY <2>1, <3>1, <3>2 DEF EpisodesAreDisjoint
  <2>6. ReplyIsWithin'
    <3>1. ASSUME NEW j \in DOMAIN attendances, j # i
          PROVE  LET x == attendances'[j]
                 IN  /\ (x.status = "IN_PROGRESS") => x.firstAgentReplyAt # None
                     /\ x.firstAgentReplyAt # None =>
                          /\ x.outbound > 0 /\ x.openedAt <= x.firstAgentReplyAt
                          /\ x.resolvedAt # None => x.firstAgentReplyAt <= x.resolvedAt
        BY <2>1, <3>1 DEF ReplyIsWithin
    <3>2. attendances'[i].outbound > 0
          /\ attendances'[i].openedAt <= attendances'[i].firstAgentReplyAt
        BY <2>1, <2>2, <2>3 DEF ReplyIsWithin
    <3> QED BY <2>1, <2>2, <3>1, <3>2 DEF ReplyIsWithin
  <2>7. MessagesAreLinked'
      BY <2>1 DEF MessagesAreLinked
  <2>8. CountersMatch'
    <3>1. \A j : MessagesOf(j)' = MessagesOf(j)
        BY DEF MessagesOf
    <3>2. \A j \in DOMAIN attendances \ {i} : RepliesOf(j)' = RepliesOf(j)
        BY <1>1, <1>5, <2>1, AttendanceShape DEF RepliesOf
    <3>3. RepliesOf(i)' = RepliesOf(i) \cup {p} /\ p \notin RepliesOf(i)
        BY <1>1, <1>5 DEF RepliesOf
    <3>4. IsFiniteSet(RepliesOf(i))
        BY FS_Subset, FiniteAssumption DEF RepliesOf
    <3>5. Cardinality(RepliesOf(i)') = Cardinality(RepliesOf(i)) + 1
        BY <3>3, <3>4, FS_AddElement
    <3> QED BY <2>1, <2>2, <3>1, <3>2, <3>5 DEF CountersMatch
  <2> QED BY <1>1, <1>3, <2>1, <2>4, <2>5, <2>6, <2>7, <2>8
<1> QED BY <1>3, <1>4, <1>5

\* A row that becomes SENT together with the attendance it answers.
LEMMA AnsweredRowKeeps ==
    ASSUME IInv, NEW s \in Sessions, Finish(s), NEW p \in Rows, NEW x, SetRow(p, x),
           NEW at \in Nat, Since(p, at), NEW id \in Attempts \cup {None},
           row[p].status # "none", id # None => AcceptedSince(p, id),
           x = [row[p] EXCEPT !.status = "SENT", !.sentAt = at, !.providerMessageId = id,
                              !.attendance = Answered(attendances, row[p])],
           attendances' = RecordManualOutbound(attendances, row[p], at),
           UNCHANGED conversation, ProviderSame, InboundSame, Same
    PROVE  IInv'
<1>1. /\ row' = [row EXCEPT ![p] = x] /\ session' = [session EXCEPT ![s] = Idle]
      /\ UNCHANGED <<clock, conversation, foreign, accepted, device, seen, inbox, link,
                     readAtProvider>>
    BY DEF SetRow, Finish, ProviderSame, InboundSame, Same
<1>2. row[p] \in MessageRow /\ clock \in Times /\ at \in Times /\ RowInTime(p)
    BY JobsAssumption DEF IInv, TypeOK, RowsInTime, Times, Since
<1>3. /\ x.status = "SENT" /\ x.sentAt = at /\ x.providerMessageId = id
      /\ x.attendance = Answered(attendances, row[p])
      /\ x.requestId = row[p].requestId /\ x.createdAt = row[p].createdAt
    BY <1>2 DEF MessageRow
<1>4. row'[p] = x /\ \A q \in Rows \ {p} : row'[q] = row[q]
    BY <1>1 DEF IInv, TypeOK
<1>5. /\ attendances' \in Seq(AttendanceRow) /\ Len(attendances') = Len(attendances)
      /\ x.attendance \in 0 .. Len(attendances)
      /\ EpisodesInTime' /\ EpisodesAreDisjoint' /\ ReplyIsWithin'
      /\ MessagesAreLinked' /\ CountersMatch'
  <2>1. row'[p].attendance = Answered(attendances, row[p])
        /\ \A q \in Rows \ {p} : row'[q].attendance = row[q].attendance
      BY <1>3, <1>4
  <2> QED BY <1>1, <1>3, <1>4, <2>1, AnswerKeeps
<1>6. Len(attendances) \in Nat
    BY AttendanceShape
<1>7. x \in MessageRow
  <2>1. x.attendance \in Nat
      BY <1>5, <1>6
  <2>2. x = [status |-> "SENT", requestId |-> row[p].requestId, providerMessageId |-> id,
             attendance |-> x.attendance, createdAt |-> row[p].createdAt, sentAt |-> at]
      BY <1>2, <1>3 DEF MessageRow
  <2> QED BY <1>2, <2>1, <2>2 DEF MessageRow, MessageStatus
<1>8. Idle \in SessionState /\ session'[s] = Idle
    BY <1>1 DEF SessionState, IInv, TypeOK
<1>9. TypeOK'
  <2>1. \A q \in Rows : row'[q].attendance <= Len(attendances')
    <3>1. \A q \in Rows : row[q].attendance <= Len(attendances)
        BY DEF IInv, TypeOK
    <3>2. x.attendance <= Len(attendances)
        BY <1>5, <1>6
    <3> QED BY <1>4, <1>5, <3>1, <3>2
  <2> QED BY <1>1, <1>5, <1>7, <1>8, <2>1 DEF IInv, TypeOK
<1>10. RowInTime(p)'
    BY <1>1, <1>2, <1>3, <1>4 DEF RowInTime, Since, AcceptedSince
<1>11. RowsInTime' /\ RequestsFit'
  <2>1. Fits(s)' /\ \A r \in Sessions \ {s} : Apart(s, r)'
      BY <1>8, IdleFits
  <2>2. x.status # "none" /\ x.status # "FAILED"
      BY <1>3
  <2>3. TypeOK /\ RowsInTime /\ RequestsFit
      BY DEF IInv
  <2> QED BY <1>1, <1>3, <1>7, <1>8, <1>9, <1>10, <2>1, <2>2, <2>3, RowMoves
<1> QED BY <1>5, <1>9, <1>11 DEF IInv

LEMMA ConfirmSentKeeps ==
    ASSUME IInv, NEW s \in Sessions, ConfirmSent(s) PROVE IInv'
<1>1. Sending(s, "confirmed") /\ HasRow(s)
    BY DEF ConfirmSent, HasRow, Sending, Doing
<1>2. PICK p \in Rows, a \in Attempts, at \in Times :
          p = session[s].row /\ a = session[s].requestId /\ at = session[s].sentAt
    BY <1>1, SessionShape DEF IInv, TypeOK
<1>3. PICK id \in {a, None} : id = Identifier(s)
    BY <1>2 DEF Identifier
<1>4. /\ row[p] \in MessageRow /\ RowInTime(p) /\ row[p].status # "none"
      /\ AcceptedSince(p, a) /\ Since(p, at) /\ at \in Nat
    BY <1>1, <1>2 DEF IInv, TypeOK, RowsInTime, RequestsFit, Fits, Times
<1> DEFINE sent == [row[p] EXCEPT !.status = "SENT", !.sentAt = at, !.providerMessageId = id]
           answered == [row[p] EXCEPT !.status = "SENT", !.sentAt = at, !.providerMessageId = id,
                                      !.attendance = Answered(attendances, row[p])]
<1>5. Finish(s) /\ UNCHANGED conversation /\ ProviderSame /\ InboundSame /\ Same
    BY DEF ConfirmSent
<1>6. CASE ~MayHold(p, id)
    BY <1>2, <1>3, <1>5, <1>6, FinishKeeps DEF ConfirmSent, OutgoingSame, ProviderSame, EpisodesSame
<1>7. CASE MayHold(p, id) /\ session[s].job = "retry"
  <2>1. SetRow(p, sent) /\ EpisodesSame
      BY <1>2, <1>3, <1>5, <1>7 DEF ConfirmSent, EpisodesSame
  <2>2. /\ sent.status = "SENT" /\ sent.sentAt = at /\ sent.providerMessageId = id
        /\ sent.attendance = row[p].attendance
        /\ sent.requestId = row[p].requestId /\ sent.createdAt = row[p].createdAt
        /\ sent \in MessageRow
      BY <1>4 DEF MessageRow, MessageStatus
  <2>3. /\ session' = [session EXCEPT ![s] = Idle] /\ session'[s] = Idle /\ Idle \in SessionState
        /\ row'[p] = sent
      BY <1>5, <2>1 DEF Finish, SetRow, IInv, TypeOK, SessionState
  <2>4. RowInTime(p)'
      BY <1>4, <1>5, <2>2, <2>3 DEF RowInTime, Since, AcceptedSince, Same, ProviderSame
  <2> HIDE DEF sent
  <2> QED BY <1>4, <1>5, <2>1, <2>2, <2>3, <2>4, IdleFits, RowKeeps
<1>8. CASE MayHold(p, id) /\ session[s].job # "retry"
  <2>1. /\ SetRow(p, answered)
        /\ attendances' = RecordManualOutbound(attendances, row[p], at)
    <3>1. [sent EXCEPT !.attendance = Answered(attendances, row[p])] = answered
        BY <1>4 DEF MessageRow
    <3> QED BY <1>2, <1>3, <1>8, <3>1 DEF ConfirmSent
  <2> HIDE DEF sent
  <2> QED BY <1>3, <1>4, <1>5, <2>1, AnsweredRowKeeps
<1> QED BY <1>6, <1>7, <1>8

LEMMA ReconcileOutgoingKeeps ==
    ASSUME IInv, NEW s \in Sessions, ReconcileOutgoing(s) PROVE IInv'
<1>1. Doing(s, "echo", "found") /\ HasRow(s) /\ session[s].job = "echo"
    BY DEF ReconcileOutgoing, HasRow, Doing
<1>2. PICK p \in Rows, a \in Attempts : p = session[s].row /\ a = session[s].requestId
    BY <1>1, SessionShape DEF IInv, TypeOK
<1>3. /\ row[p] \in MessageRow /\ RowInTime(p) /\ row[p].status # "none"
      /\ AcceptedSince(p, a) /\ accepted[a] \in Nat
    BY <1>1, <1>2 DEF IInv, TypeOK, RowsInTime, RequestsFit, Fits, Times, AcceptedSince
<1>4. PICK at \in Nat : at = Otherwise(session[s].sentAt, accepted[a]) /\ Since(p, at)
  <2>1. session[s].sentAt # None => session[s].sentAt \in Nat /\ Since(p, session[s].sentAt)
      BY <1>1, <1>2, SessionShape DEF IInv, TypeOK, RequestsFit, Fits, Times
  <2> QED BY <1>3, <2>1 DEF Otherwise, AcceptedSince
<1>5. PICK id \in Attempts : id = Otherwise(session[s].providerMessageId, a) /\ AcceptedSince(p, id)
  <2>1. session[s].providerMessageId # None =>
            session[s].providerMessageId \in Attempts
            /\ AcceptedSince(p, session[s].providerMessageId)
      BY <1>1, <1>2, SessionShape DEF IInv, TypeOK, RequestsFit, Fits
  <2> QED BY <1>3, <2>1 DEF Otherwise
<1> DEFINE x == [row[p] EXCEPT !.status = "SENT", !.providerMessageId = id, !.sentAt = at,
                               !.attendance = Answered(attendances, row[p])]
           y == [row[p] EXCEPT !.status = "SENT", !.sentAt = at, !.providerMessageId = id,
                               !.attendance = Answered(attendances, row[p])]
<1>6. Finish(s) /\ UNCHANGED conversation /\ ProviderSame /\ InboundSame /\ Same
    BY DEF ReconcileOutgoing
<1>7. CASE ~MayHold(p, id)
    BY <1>2, <1>4, <1>5, <1>6, <1>7, FinishKeeps
       DEF ReconcileOutgoing, OutgoingSame, ProviderSame, EpisodesSame
<1>8. CASE MayHold(p, id)
  <2>1. SetRow(p, x) /\ attendances' = RecordManualOutbound(attendances, row[p], at)
      BY <1>2, <1>4, <1>5, <1>8 DEF ReconcileOutgoing
  <2>2. x = y
      BY <1>3 DEF MessageRow
  <2>3. SetRow(p, y)
      BY <2>1, <2>2
  <2> QED BY <1>3, <1>4, <1>5, <1>6, <2>1, <2>3, AnsweredRowKeeps
<1> QED BY <1>7, <1>8

\* The attendance that was resolved last is the last one.
LEMMA LastIsResolvedLast ==
    ASSUME IInv, Active(attendances) = {}
    PROVE  \A j \in DOMAIN attendances :
               attendances[j].resolvedAt <= attendances[Len(attendances)].resolvedAt
<1> SUFFICES ASSUME NEW j \in DOMAIN attendances
             PROVE  attendances[j].resolvedAt <= attendances[Len(attendances)].resolvedAt
    OBVIOUS
<1>1. PICK n \in DOMAIN attendances : n = Len(attendances) /\ j <= n
    BY AttendanceShape
<1>2. \A k \in {j, n} : /\ attendances[k].resolvedAt \in Nat /\ attendances[k].openedAt \in Nat
                        /\ attendances[k].openedAt <= attendances[k].resolvedAt
  <2> SUFFICES ASSUME NEW k \in {j, n}
               PROVE  /\ attendances[k].resolvedAt \in Nat /\ attendances[k].openedAt \in Nat
                      /\ attendances[k].openedAt <= attendances[k].resolvedAt
      OBVIOUS
  <2>1. attendances[k] \in AttendanceRow /\ EpisodeInTime(attendances[k])
      BY <1>1, AttendanceShape
  <2>2. attendances[k].status = "RESOLVED"
      BY <1>1 DEF Active
  <2> QED BY <2>1, <2>2 DEF EpisodeInTime, AttendanceRow
<1>3. CASE j = n
    BY <1>1, <1>2, <1>3
<1>4. CASE j < n
  <2>1. attendances[j].resolvedAt + Grace <= attendances[n].openedAt
      BY <1>1, <1>4 DEF IInv, EpisodesAreDisjoint
  <2> QED BY <1>1, <1>2, <2>1, GraceAssumption
<1> QED BY <1>1, <1>3, <1>4, AttendanceShape

\* A message of the contact is counted where it is linked, and opens an
\* attendance only when no other is active or was so until just before.
LEMMA ProcessConversationWebhookKeeps ==
    ASSUME IInv, NEW s \in Sessions, ProcessConversationWebhook(s) PROVE IInv'
<1> USE DEF IInv
<1>1. Receiving(s) /\ session[s].message \in Inbound /\ session[s].occurredAt \in Times
    BY SessionShape DEF ProcessConversationWebhook, Receiving, Doing, TypeOK
<1>2. PICK m \in Inbound, at \in Times : m = session[s].message /\ at = session[s].occurredAt
    BY <1>1
<1> PICK n \in Nat : n = Len(attendances)
    BY AttendanceShape
<1>3. PICK i : i = InboundTarget(attendances, at) /\ n = Len(attendances)
    OBVIOUS
<1>4. /\ inbox' = Append(inbox, m) /\ attendances' = RecordInbound(attendances, at)
      /\ link' = [link EXCEPT ![m] = i]
      /\ conversation' = [status |-> "OPEN", unread |-> conversation.unread + 1]
      /\ session' = [session EXCEPT ![s] = Idle]
      /\ UNCHANGED <<clock, seen, readAtProvider, row, foreign, accepted, device>>
    BY <1>2, <1>3 DEF ProcessConversationWebhook, Finish, OutgoingSame, Same
<1>5. /\ m \in seen /\ link[m] = 0 /\ at <= clock /\ clock \in Nat /\ at \in Nat
      /\ \A j \in DOMAIN inbox : inbox[j] # m
      /\ attendances \in Seq(AttendanceRow) /\ DOMAIN attendances = 1 .. n
  <2>1. m \in seen /\ link[m] = 0 /\ at <= clock
      BY <1>1, <1>2 DEF RequestsFit, Fits
  <2> QED BY <1>3, <2>1, AttendanceShape DEF MessagesAreLinked, TypeOK, Times
<1>6. /\ i \in 1 .. n + 1
      /\ i <= n =>
             /\ attendances' \in Seq(AttendanceRow) /\ Len(attendances') = n
             /\ \A j \in (1 .. n) \ {i} : attendances'[j] = attendances[j]
             /\ attendances'[i] = [attendances[i] EXCEPT !.inbound = @ + 1]
      /\ i = n + 1 =>
             /\ attendances' = Append(attendances, Opened(at)) /\ Active(attendances) = {}
             /\ n # 0 =>
                    /\ LastResolved(attendances) \in 1 .. n
                    /\ ~(attendances[LastResolved(attendances)].resolvedAt + Grace > at)
                    /\ \A j \in 1 .. n :
                           attendances[j].resolvedAt
                               <= attendances[LastResolved(attendances)].resolvedAt
  <2>1. Active(attendances) = {} =>
            \A j \in DOMAIN attendances :
                attendances[j].resolvedAt <= attendances[Len(attendances)].resolvedAt
      BY LastIsResolvedLast
  <2> HIDE DEF IInv
  <2>2. PICK list \in Seq(AttendanceRow) : list = attendances
      BY <1>5
  <2>3. PICK new : new = attendances'
      OBVIOUS
  <2>4. /\ i = InboundTarget(list, at) /\ new = RecordInbound(list, at)
        /\ n = Len(list) /\ DOMAIN list = 1 .. n
        /\ Active(list) = {} =>
               \A j \in DOMAIN list : list[j].resolvedAt <= list[Len(list)].resolvedAt
      BY <1>3, <1>4, <1>5, <2>1, <2>2, <2>3
  <2>5. /\ i \in 1 .. n + 1
        /\ i <= n =>
               /\ new \in Seq(AttendanceRow) /\ Len(new) = n
               /\ \A j \in (1 .. n) \ {i} : new[j] = list[j]
               /\ new[i] = [list[i] EXCEPT !.inbound = @ + 1]
        /\ i = n + 1 =>
               /\ new = Append(list, Opened(at)) /\ Active(list) = {}
               /\ n # 0 =>
                      /\ LastResolved(list) \in 1 .. n
                      /\ ~(list[LastResolved(list)].resolvedAt + Grace > at)
                      /\ \A j \in 1 .. n :
                             list[j].resolvedAt <= list[LastResolved(list)].resolvedAt
      BY <1>5, <2>4, RecordInboundIs
  <2> QED BY <2>2, <2>5, <2>3
<1>7. PICK size \in {n, n + 1} :
          /\ size = (IF i <= n THEN n ELSE n + 1)
          /\ attendances' \in Seq(AttendanceRow)
          /\ Len(attendances') = size /\ DOMAIN attendances' = 1 .. size
          /\ i = n + 1 => attendances'[i] = Opened(at)
          /\ \A j \in 1 .. n :
                 attendances'[j] = IF j = i THEN [attendances[j] EXCEPT !.inbound = @ + 1]
                                   ELSE attendances[j]
  <2>1. Opened(at) \in AttendanceRow
      BY <1>5 DEF Opened, AttendanceRow, AttendanceStatus
  <2> HIDE DEF IInv
  <2>2. CASE i <= n
    <3>1. attendances' \in Seq(AttendanceRow) /\ Len(attendances') = n
          /\ DOMAIN attendances' = 1 .. n
        BY <1>6, <2>2, LenProperties
    <3> QED BY <1>6, <2>2, <3>1
  <2>3. CASE i = n + 1
    <3>1. attendances' = Append(attendances, Opened(at))
        BY <1>6, <2>3
    <3>2. /\ attendances' \in Seq(AttendanceRow) /\ Len(attendances') = n + 1
          /\ DOMAIN attendances' = 1 .. n + 1
          /\ attendances'[n + 1] = Opened(at)
          /\ \A j \in 1 .. n : attendances'[j] = attendances[j]
        BY <1>3, <1>5, <2>1, <3>1, AppendProperties, LenProperties
    <3> QED BY <2>3, <3>2
  <2> QED BY <1>6, <2>2, <2>3
<1>8. \A j \in 1 .. n :
          /\ attendances'[j].status = attendances[j].status
          /\ attendances'[j].openedAt = attendances[j].openedAt
          /\ attendances'[j].resolvedAt = attendances[j].resolvedAt
          /\ attendances'[j].firstAgentReplyAt = attendances[j].firstAgentReplyAt
          /\ attendances'[j].outbound = attendances[j].outbound
          /\ attendances'[j].inbound = IF j = i THEN attendances[j].inbound + 1
                                       ELSE attendances[j].inbound
  <2>1. \A j \in 1 .. n : attendances[j] \in AttendanceRow
      BY <1>5, AttendanceShape
  <2> HIDE DEF IInv
  <2> QED BY <1>7, <2>1 DEF AttendanceRow
<1>9. /\ size \in Nat /\ i \in Nat \ {0} /\ i \in 1 .. size
      /\ \A j \in 1 .. size : j \in 1 .. n \/ (j = i /\ i = n + 1)
      /\ \A j \in 1 .. n : j \in 1 .. size
  <2> HIDE DEF IInv
  <2>1. CASE i <= n
      BY <1>6, <1>7, <2>1
  <2>2. CASE i = n + 1
      BY <1>6, <1>7, <2>2
  <2> QED BY <1>6, <2>1, <2>2
<1>10. /\ link'[m] = i /\ \A k \in Inbound \ {m} : link'[k] = link[k]
      /\ \A k \in Inbound : link[k] \in 0 .. n
    BY <1>3, <1>4 DEF TypeOK
<1>11. /\ inbox' \in Seq(Inbound) /\ Len(inbox') = Len(inbox) + 1 /\ Len(inbox) \in Nat
       /\ DOMAIN inbox = 1 .. Len(inbox) /\ DOMAIN inbox' = 1 .. Len(inbox) + 1
       /\ inbox'[Len(inbox) + 1] = m /\ \A j \in 1 .. Len(inbox) : inbox'[j] = inbox[j]
  <2>1. inbox \in Seq(Inbound)
      BY DEF TypeOK
  <2> HIDE DEF IInv
  <2> QED BY <1>4, <2>1, AppendProperties, LenProperties
<1>12. conversation.unread \in Nat /\ conversation'.unread = conversation.unread + 1
    BY <1>4, FS_CardinalityType, FiniteAssumption DEF TypeOK
<1>13. MessagesAreLinked'
  <2>1. \A j, k \in DOMAIN inbox' : inbox'[j] = inbox'[k] => j = k
      BY <1>5, <1>11 DEF MessagesAreLinked
  <2>2. \A k \in Inbound : link'[k] # 0 <=> \E j \in DOMAIN inbox' : inbox'[j] = k
    <3>1. ASSUME NEW k \in Inbound, k # m
          PROVE  link'[k] # 0 <=> \E j \in DOMAIN inbox' : inbox'[j] = k
      <4>1. link[k] # 0 <=> \E j \in DOMAIN inbox : inbox[j] = k
          BY DEF MessagesAreLinked
      <4> QED BY <1>10, <1>11, <3>1, <4>1
    <3>2. link'[m] # 0 /\ \E j \in DOMAIN inbox' : inbox'[j] = m
        BY <1>9, <1>10, <1>11
    <3> QED BY <3>1, <3>2
  <2>3. \A j \in DOMAIN inbox' : inbox'[j] \in seen'
      BY <1>4, <1>5, <1>11 DEF MessagesAreLinked
  <2>4. \A j \in 1 .. size : \E k \in Inbound : link'[k] = j
    <3>1. ASSUME NEW j \in 1 .. n PROVE \E k \in Inbound : link'[k] = j
      <4>1. PICK k \in Inbound : link[k] = j
          BY <1>5 DEF MessagesAreLinked
      <4>2. k # m
          BY <1>5, <4>1
      <4> QED BY <1>10, <4>1, <4>2
    <3> HIDE DEF IInv
    <3> QED BY <1>9, <1>10, <3>1
  <2>5. conversation'.unread <= Len(inbox')
      BY <1>11, <1>12 DEF MessagesAreLinked
  <2> QED BY <1>7, <2>1, <2>2, <2>3, <2>4, <2>5 DEF MessagesAreLinked
<1>14. TypeOK'
  <2>1. link' \in [Inbound -> 0 .. size]
    <3>1. \A k \in Inbound : link'[k] \in 0 .. size
        BY <1>7, <1>10, <1>9
    <3> QED BY <1>4, <3>1 DEF TypeOK
  <2>2. size <= Cardinality(Inbound)
    <3>1. link' \in [Inbound -> Nat]
        BY <1>9, <2>1
    <3>2. \A j \in 1 .. size : \E k \in Inbound : link'[k] = j
        BY <1>7, <1>13 DEF MessagesAreLinked
    <3> QED BY <1>9, <3>1, <3>2, EachHasAMessage
  <2>3. conversation' \in [status : {"OPEN", "RESOLVED"}, unread : 0 .. Cardinality(Inbound)]
    <3>1. Len(inbox') <= Cardinality(Inbound) /\ Cardinality(Inbound) \in Nat
        BY <1>11, <1>13, EachIsStoredOnce, FS_CardinalityType, FiniteAssumption
           DEF MessagesAreLinked
    <3>2. conversation.unread + 1 \in 0 .. Cardinality(Inbound)
        BY <1>11, <1>12, <1>13, <3>1 DEF MessagesAreLinked
    <3> QED BY <1>4, <3>2
  <2>4. \A p \in Rows : row'[p].attendance <= size
    <3>1. \A p \in Rows : row[p].attendance \in Nat /\ row[p].attendance <= n
        BY <1>3 DEF TypeOK, MessageRow
    <3> QED BY <1>4, <1>7, <3>1
  <2>5. session' \in [Sessions -> SessionState]
      BY <1>4 DEF TypeOK, SessionState
  <2> QED BY <1>4, <1>7, <1>11, <2>1, <2>2, <2>3, <2>4, <2>5 DEF TypeOK
<1>15. EpisodesInTime'
  <2>1. ASSUME NEW j \in 1 .. n PROVE EpisodeInTime(attendances[j])'
      BY <1>4, <1>5, <1>8 DEF EpisodesInTime, EpisodeInTime
  <2>2. i = n + 1 => EpisodeInTime(attendances[i])'
      BY <1>4, <1>5, <1>7 DEF Opened, EpisodeInTime
  <2> SUFFICES ASSUME NEW j \in 1 .. size PROVE EpisodeInTime(attendances[j])'
      BY <1>7 DEF EpisodesInTime
  <2> HIDE DEF IInv
  <2> QED BY <1>9, <2>1, <2>2
<1>16. EpisodesAreDisjoint'
  <2> SUFFICES ASSUME NEW j \in 1 .. size, NEW k \in 1 .. size, j < k
               PROVE  /\ attendances'[j].status = "RESOLVED"
                      /\ attendances'[j].resolvedAt + Grace <= attendances'[k].openedAt
      BY <1>7 DEF EpisodesAreDisjoint
  <2>1. j \in 1 .. n
      BY <1>9
  <2>2. CASE k \in 1 .. n
      BY <1>5, <1>8, <2>1, <2>2 DEF EpisodesAreDisjoint
  <2>3. CASE k \notin 1 .. n
    <3>1. k = i /\ i = n + 1 /\ n # 0
        BY <1>9, <2>1, <2>3
    <3>2. PICK l \in 1 .. n :
              /\ l = LastResolved(attendances) /\ ~(attendances[l].resolvedAt + Grace > at)
              /\ attendances[j].resolvedAt <= attendances[l].resolvedAt
        BY <1>6, <2>1, <3>1
    <3>3. attendances[j].status = "RESOLVED" /\ attendances[l].status = "RESOLVED"
        BY <1>5, <1>6, <2>1, <3>1 DEF Active
    <3>4. attendances[j].resolvedAt \in Nat /\ attendances[l].resolvedAt \in Nat
        BY <1>5, <2>1, <3>3, AttendanceShape DEF EpisodeInTime, AttendanceRow
    <3>5. attendances'[k].openedAt = at
        BY <1>7, <3>1 DEF Opened
    <3>6. attendances[j].resolvedAt + Grace <= at
        BY <1>5, <3>2, <3>4, GraceAssumption
    <3> QED BY <1>8, <2>1, <3>3, <3>5, <3>6
  <2> QED BY <2>2, <2>3
<1>17. ReplyIsWithin'
  <2> SUFFICES ASSUME NEW j \in 1 .. size
               PROVE  LET x == attendances'[j]
                      IN  /\ (x.status = "IN_PROGRESS") => x.firstAgentReplyAt # None
                          /\ x.firstAgentReplyAt # None =>
                               /\ x.outbound > 0 /\ x.openedAt <= x.firstAgentReplyAt
                               /\ x.resolvedAt # None => x.firstAgentReplyAt <= x.resolvedAt
      BY <1>7 DEF ReplyIsWithin
  <2>1. CASE j \in 1 .. n
      BY <1>5, <1>8, <2>1 DEF ReplyIsWithin
  <2>2. CASE j = i /\ i = n + 1
      BY <1>7, <2>2 DEF Opened
  <2> QED BY <1>9, <2>1, <2>2
<1>18. CountersMatch'
  <2>1. \A j : RepliesOf(j)' = RepliesOf(j)
      BY <1>4 DEF RepliesOf
  <2>2. \A j \in (1 .. n) \ {i} : MessagesOf(j)' = MessagesOf(j)
      BY <1>5, <1>10 DEF MessagesOf
  <2>3. MessagesOf(i)' = MessagesOf(i) \cup {m} /\ m \notin MessagesOf(i)
      BY <1>5, <1>9, <1>10 DEF MessagesOf
  <2>4. IsFiniteSet(MessagesOf(i))
      BY FS_Subset, FiniteAssumption DEF MessagesOf
  <2>5. Cardinality(MessagesOf(i)') = Cardinality(MessagesOf(i)) + 1
      BY <2>3, <2>4, FS_AddElement
  <2>6. i = n + 1 => MessagesOf(i) = {} /\ RepliesOf(i) = {}
    <3>1. \A p \in Rows : row[p].attendance \in Nat /\ row[p].attendance <= n
        BY <1>3 DEF TypeOK, MessageRow
    <3> QED BY <1>10, <3>1 DEF MessagesOf, RepliesOf
  <2> SUFFICES ASSUME NEW j \in 1 .. size
               PROVE  /\ attendances'[j].inbound = Cardinality(MessagesOf(j)')
                      /\ attendances'[j].outbound = Cardinality(RepliesOf(j)')
      BY <1>7 DEF CountersMatch
  <2>7. CASE j \in 1 .. n
    <3>1. attendances[j].inbound = Cardinality(MessagesOf(j))
          /\ attendances[j].outbound = Cardinality(RepliesOf(j))
        BY <1>5, <2>7 DEF CountersMatch
    <3> HIDE DEF IInv
    <3> QED BY <1>8, <2>1, <2>2, <2>5, <2>7, <3>1
  <2>8. CASE j = i /\ i = n + 1
    <3>1. Cardinality(MessagesOf(i)') = 1 /\ Cardinality(RepliesOf(i)') = 0
      <4>1. Cardinality(MessagesOf(i)) = 0 /\ Cardinality(RepliesOf(i)) = 0
          BY <2>6, <2>8, FS_EmptySet
      <4> HIDE DEF IInv
      <4> QED BY <2>1, <2>5, <4>1
    <3> QED BY <1>7, <2>8, <3>1 DEF Opened
  <2> QED BY <1>9, <2>7, <2>8
<1>19. RowsInTime'
    BY <1>4 DEF RowsInTime, RowInTime, AcceptedSince, Since
<1>20. RequestsFit'
  <2>1. session'[s] = Idle /\ \A r \in Sessions \ {s} : session'[r] = session[r]
      BY <1>4 DEF TypeOK
  <2>2. ASSUME NEW r \in Sessions \ {s} PROVE Fits(r)'
    <3>1. Fits(r) /\ clock <= clock'
        BY <1>4, <1>5 DEF RequestsFit
    <3>2. Receiving(r) => link'[session[r].message] = 0
      <4>1. Receiving(r) => session[r].message # m
          BY <1>1, <1>2 DEF RequestsFit, Apart
      <4>2. Receiving(r) => session[r].message \in Inbound /\ link[session[r].message] = 0
          BY <3>1, SessionShape DEF TypeOK, Fits
      <4> QED BY <1>10, <4>1, <4>2
    <3>3. Marking(r) => session[r].count <= conversation'.unread
      <4>1. Marking(r) => session[r].count \in Nat /\ session[r].count <= conversation.unread
          BY <3>1, SessionShape DEF TypeOK, Fits
      <4> QED BY <1>12, <4>1
    <3>4. /\ HasRow(r) => row'[session[r].row].status # "none"
          /\ InFlight(r) => row'[session[r].row].status # "FAILED"
        BY <1>4, <3>1 DEF Fits
    <3> QED BY <1>4, <1>14, <2>1, <3>1, <3>2, <3>3, <3>4, StaysFit
  <2>3. RequestsFit /\ session \in [Sessions -> SessionState] /\ \A r \in Sessions : Fits(r)'
      BY <2>1, <2>2, IdleFits DEF TypeOK
  <2>4. Idle \in SessionState
      BY DEF SessionState
  <2> HIDE DEF IInv
  <2> QED BY <1>4, <2>1, <2>3, <2>4, IdleFits, OthersApart
<1> QED BY <1>13, <1>14, <1>15, <1>16, <1>17, <1>18, <1>19, <1>20

(***************************************************************************)
(* The theorems.                                                           *)
(***************************************************************************)
LEMMA InitHasInvariant == Init => IInv
<1> SUFFICES ASSUME Init PROVE IInv
    OBVIOUS
<1> USE DEF Init
<1>1. /\ attendances = <<>> /\ inbox = <<>>
      /\ Len(attendances) = 0 /\ Len(inbox) = 0 /\ DOMAIN attendances = {} /\ DOMAIN inbox = {}
      /\ attendances \in Seq(AttendanceRow) /\ inbox \in Seq(Inbound)
    OBVIOUS
<1>2. NoRow \in MessageRow /\ 0 \in Times /\ Idle \in SessionState /\ Cardinality(Inbound) \in Nat
    BY JobsAssumption, FS_CardinalityType, FiniteAssumption DEF NoRow, MessageRow, Times, SessionState
<1>3. TypeOK
    BY <1>1, <1>2 DEF TypeOK, NoRow
<1>4. RowsInTime
    BY <1>2 DEF RowsInTime, RowInTime, NoRow
<1>5. RequestsFit
    BY DEF RequestsFit, Fits, Apart, Idle, Receiving, HasRow, InFlight, Sending, Doing, Marking
<1>6. EpisodesInTime /\ EpisodesAreDisjoint /\ ReplyIsWithin /\ CountersMatch
    BY <1>1 DEF EpisodesInTime, EpisodesAreDisjoint, ReplyIsWithin, CountersMatch
<1>7. MessagesAreLinked
    BY <1>1 DEF MessagesAreLinked
<1> QED BY <1>3, <1>4, <1>5, <1>6, <1>7 DEF IInv

LEMMA RequestKeeps == ASSUME IInv, NEW s \in Sessions, Request(s) PROVE IInv'
<1>1. ASSUME NEW m \in Inbound, NEW t \in 0 .. clock, ReceiveWebhook(s, m, t) PROVE IInv'
    BY <1>1, ReceiveWebhookKeeps
<1>2. ASSUME NEW p \in Rows, NEW a \in Attempts, SendConversationTextMessage(s, p, a) PROVE IInv'
    BY <1>2, SendConversationTextMessageKeeps
<1>3. ASSUME NEW p \in Rows, RetryConversationMessage(s, p) PROVE IInv'
    BY <1>3, RetryConversationMessageKeeps
<1>4. ASSUME NEW a \in Attempts, FindEchoed(s, a) PROVE IInv'
    BY <1>4, FindEchoedKeeps
<1>5. ASSUME NEW a \in Attempts, NEW state \in {"DELIVERED", "READ"}, ReadReceipt(s, a, state)
      PROVE  IInv'
    BY <1>5, ReadReceiptKeeps
<1> QED BY <1>1, <1>2, <1>3, <1>4, <1>5, LockForResolutionKeeps, MarkConversationAsReadKeeps
        DEF Request

LEMMA StepKeeps == ASSUME IInv, NEW s \in Sessions, Step(s) PROVE IInv'
<1>1. ASSUME NEW a \in Attempts, ClaimRetry(s, a) PROVE IInv'
    BY <1>1, ClaimRetryKeeps
<1>2. ASSUME NEW answer \in Answers, NEW taken \in BOOLEAN, ProviderAnswers(s, answer, taken)
      PROVE  IInv'
    BY <1>2, ProviderAnswersKeeps
<1>3. ASSUME NEW r \in Sessions, Deadlock(s, r) PROVE IInv'
    BY <1>3, DeadlockKeeps
<1> QED BY <1>1, <1>2, <1>3, ProcessConversationWebhookKeeps, FailPendingConversationMessageKeeps,
           ProviderFailedKeeps, RememberProviderConfirmationKeeps, ConfirmSentKeeps,
           ReconcileOutgoingKeeps, WriteReceiptKeeps, RefuseResolutionKeeps,
           ResolveActiveAttendanceKeeps, ConfirmReadKeeps, MarkReadFailsKeeps, DecrementUnreadKeeps
        DEF Step

LEMMA NextKeepsInvariant == IInv /\ [Next]_vars => IInv'
<1> SUFFICES ASSUME IInv, [Next]_vars PROVE IInv'
    OBVIOUS
<1>1. ASSUME NEW a \in Attempts, NEW state \in {"delivered", "read"}, DeviceReceives(a, state)
      PROVE  IInv'
    BY <1>1, DeviceReceivesKeeps
<1>2. ASSUME NEW a \in Attempts, CreateEchoed(a) PROVE IInv'
    BY <1>2, CreateEchoedKeeps
<1>3. ASSUME NEW s \in Sessions, Request(s) \/ Step(s) \/ Crash(s) PROVE IInv'
    BY <1>3, RequestKeeps, StepKeeps, CrashKeeps
<1>4. CASE UNCHANGED vars
  <2>1. TypeOK'
      BY <1>4 DEF vars, IInv, TypeOK
  <2> QED BY <1>4, <2>1, AsideKeeps DEF vars
<1> QED BY <1>1, <1>2, <1>3, <1>4, TickKeeps DEF Next, Environment

LEMMA InvariantHolds == Spec => []IInv
BY InitHasInvariant, NextKeepsInvariant, PTL DEF Spec

\* Whatever requests, repetitions and crashes do, the state keeps its shape:
\* in particular the count of unread messages never falls below zero
\* (markConversationAsReadOnce decrements what it read before its call).
THEOREM ConversationIsTyped == Spec => []TypeOK
<1>1. IInv => TypeOK
    BY DEF IInv
<1> QED BY <1>1, InvariantHolds, PTL

\* The claim of a retry (updateMany ... status: 'FAILED') leaves a text to one
\* request at a time.
THEOREM TextsHaveOneSender == Spec => []OneSenderPerRow
<1>1. IInv => OneSenderPerRow
    BY DEF IInv, RequestsFit, Apart, InFlight, OneSenderPerRow
<1> QED BY <1>1, InvariantHolds, PTL

\* Attendances never overlap, however late and out of order the webhooks of the
\* messages come, and are a grace period apart (recordInboundMessage).
THEOREM AttendancesAreDisjoint == Spec => []EpisodesAreDisjoint
<1>1. IInv => EpisodesAreDisjoint
    BY DEF IInv
<1> QED BY <1>1, InvariantHolds, PTL

\* The first reply of an attendance lies between its opening and its resolution
\* (recordManualOutboundMessage), whichever of the confirmation, the echo and
\* their repetitions records it.
THEOREM RepliesAreWithin == Spec => []ReplyIsWithin
<1>1. IInv => ReplyIsWithin
    BY DEF IInv
<1> QED BY <1>1, InvariantHolds, PTL

\* The counters of each attendance are the numbers of the messages linked to it.
THEOREM CountersAreRight == Spec => []CountersMatch
<1>1. IInv => CountersMatch
    BY DEF IInv
<1> QED BY <1>1, InvariantHolds, PTL
==============================================================================
