---------------------------- MODULE ChargeProofs ----------------------------
(***************************************************************************)
(* An account is booked from a payment with what the payer was charged for *)
(* it, as long as accounts keep their value and no reconciliation meets    *)
(* the reservation of a group.                                             *)
(***************************************************************************)
EXTENDS PixSettlementProofs

\* No account changes its value, and reconciliations and PIX of groups do
\* not occur together.
ChargesStand ==
    /\ "updateReference" \notin Requests
    /\ \/ "createReceivablesPix" \notin Requests
       \/ "reconcileReceivablePix" \notin Requests

\* A payment of t charges r its value: as its share, or by itself.
Charges(t, r) == amount[r] \in {provider[t].share[r], Total(provider[t].share)}

Pays(t, i) == provider[t].status # "NONE" /\ \A r \in Covers(i) : Charges(t, r)

\* The transaction of an intent charges every account the intent collects.
LinkedPays == \A i \in Intents : intent[i].ptx # None => Pays(intent[i].ptx, i)

Grouped == \A i \in Intents : intent[i].grp # None => "createReceivablesPix" \in Requests

\* What a request remembers charges the accounts its intent collects.
Knows(s) ==
    LET q == session[s]
    IN  /\ q.pc \in {"reserved", "replacing"} =>
              \A r \in Covers(q.int) : r \in q.target /\ q.share[r] = amount[r]
        /\ q.pc \in OnTransaction => provider[q.ptx].status # "NONE"
        /\ q.pc \in OnTransaction /\ q.pc # "fetched" => Pays(q.ptx, q.int)
        /\ q.pc \in {"settling", "settlingGroup"} =>
              \A r \in q.target : q.share[r] = amount[r]
        /\ q.pc = "fetched" => "reconcileReceivablePix" \in Requests
        /\ q.pc = "repricing" => "updateReference" \in Requests

ChargeInv == LinkedPays /\ Grouped /\ BookedIsCharged /\ \A s \in Sessions : Knows(s)

\* What no step takes back while accounts keep their value.
Lasting ==
    /\ amount' = amount
    /\ \A i \in Intents : IsUsed(i) => Covers(i)' = Covers(i)
    /\ \A t \in Txs : provider[t].status # "NONE" =>
          provider'[t].status # "NONE" /\ provider'[t].share = provider[t].share

(***************************************************************************)
(* What a step keeps.                                                      *)
(***************************************************************************)
LEMMA LinkedIsUsed ==
    ASSUME IInv, NEW i \in Intents, intent[i].ptx # None
    PROVE  IsUsed(i) /\ intent[i].ptx \in Txs
BY DEF IInv, TypeOK, RowsLinked, IsUsed, NoIntent

\* An intent that keeps what it names keeps what it collects.
LEMMA CoversKept ==
    ASSUME IInv, SharesKept, NEW i \in Intents, IsUsed(i),
           intent'[i].grp = intent[i].grp,
           intent[i].grp = None => intent'[i].rec = intent[i].rec
    PROVE  Covers(i)' = Covers(i)
<1>1. CASE intent[i].grp = None
  BY <1>1 DEF Covers
<1>2. CASE intent[i].grp # None
  <2>1. intent[i].grp \in Groups /\ group[intent[i].grp].status # "NONE"
    BY <1>2 DEF IInv, TypeOK, RowsLinked
  <2> QED
    BY <1>2, <2>1 DEF SharesKept, Covers, Items
<1> QED
  BY <1>1, <1>2

LEMMA LastingCharges ==
    ASSUME Lasting, NEW t \in Txs, provider[t].status # "NONE", NEW r, Charges(t, r)
    PROVE  Charges(t, r)'
BY DEF Lasting, Charges

LEMMA LastingPays ==
    ASSUME Lasting, NEW t \in Txs, NEW i \in Intents, IsUsed(i), Pays(t, i)
    PROVE  Pays(t, i)'
BY LastingCharges DEF Lasting, Pays

LEMMA LastingKnows ==
    ASSUME IInv, ChargeInv, Lasting, NEW q \in Sessions, session'[q] = session[q]
    PROVE  Knows(q)'
<1> DEFINE c == session[q]
<1>1. Knows(q) /\ Fits(q) /\ c \in RequestRecord
  BY DEF ChargeInv, IInv, TypeOK
<1>2. c.pc \in OnIntent => c.int \in Intents /\ IsUsed(c.int)
  BY <1>1 DEF Fits, IsUsed
<1>3. c.pc \in OnTransaction => c.ptx \in Txs /\ provider'[c.ptx].status # "NONE"
  BY <1>1 DEF Fits, Knows, Lasting
<1>4. c.pc \in OnTransaction /\ c.pc # "fetched" => Pays(c.ptx, c.int)'
  <2> SUFFICES ASSUME c.pc \in OnTransaction, c.pc # "fetched" PROVE Pays(c.ptx, c.int)'
    OBVIOUS
  <2>1. c.pc \in OnIntent
    BY DEF OnTransaction, OnIntent
  <2>2. Pays(c.ptx, c.int) /\ c.ptx \in Txs /\ c.int \in Intents /\ IsUsed(c.int)
    BY <1>1, <1>2, <1>3, <2>1 DEF Knows
  <2>3. PICK t \in Txs, i \in Intents : t = c.ptx /\ i = c.int
    BY <2>2
  <2>4. Pays(t, i)'
    BY <2>2, <2>3, LastingPays
  <2> QED
    BY <2>3, <2>4 DEF Pays, Charges, Covers, Items
<1>5. c.pc \in {"reserved", "replacing"} =>
        \A r \in Covers(c.int)' : r \in c.target /\ c.share[r] = amount'[r]
  BY <1>1, <1>2 DEF Knows, Lasting, OnIntent
<1>6. c.pc \in {"settling", "settlingGroup"} => \A r \in c.target : c.share[r] = amount'[r]
  BY <1>1 DEF Knows, Lasting
<1> QED
  BY <1>1, <1>3, <1>4, <1>5, <1>6 DEF Knows

LEMMA StepKeepsCharges ==
    ASSUME IInv, ChargeInv, NEW s \in Sessions, Others(s), Lasting,
           LinkedPays', Grouped', BookedIsCharged', Knows(s)'
    PROVE  ChargeInv'
<1>1. ASSUME NEW q \in Sessions PROVE Knows(q)'
  <2>1. CASE q = s
    BY <2>1
  <2>2. CASE q # s
    BY <2>2, LastingKnows DEF Others
  <2> QED
    BY <2>1, <2>2
<1> QED
  BY <1>1 DEF ChargeInv

\* What was booked from a payment keeps being what it charged.
LEMMA NothingBookedCharges ==
    ASSUME IInv, ChargeInv, Lasting, UNCHANGED revenue
    PROVE  BookedIsCharged'
<1> SUFFICES ASSUME NEW r \in Receivables, NEW t \in Txs, revenue[r] # None,
                    revenue[r].source = t
             PROVE  revenue[r].value \in {provider'[t].share[r], Total(provider'[t].share)}
  BY DEF BookedIsCharged
<1>1. provider[t].status # "NONE"
  BY DEF IInv, Safe, RevenueIsBacked
<1>2. provider'[t].share = provider[t].share
  BY <1>1 DEF Lasting
<1> QED
  BY <1>2 DEF ChargeInv, BookedIsCharged

LEMMA LinkKept ==
    ASSUME IInv, ChargeInv, Lasting, NEW j \in Intents, intent'[j].ptx = intent[j].ptx
    PROVE  intent'[j].ptx # None => Pays(intent[j].ptx, j)'
<1> SUFFICES ASSUME intent[j].ptx # None PROVE Pays(intent[j].ptx, j)'
  OBVIOUS
<1>1. PICK t \in Txs : t = intent[j].ptx
  BY LinkedIsUsed
<1>2. Pays(t, j) /\ IsUsed(j)
  BY <1>1, LinkedIsUsed DEF ChargeInv, LinkedPays
<1>3. Pays(t, j)'
  BY <1>2, LastingPays
<1>4. (intent[j].ptx)' = t
  BY <1>1
<1> QED
  BY <1>1, <1>3, <1>4 DEF Pays, Charges

\* Intents that keep what they name, with groups that keep their items.
LEMMA RowsKept ==
    ASSUME IInv, ChargeInv, SharesKept, UNCHANGED <<amount, provider>>,
           \A j \in Intents : /\ intent'[j].ptx = intent[j].ptx
                              /\ intent'[j].grp = intent[j].grp
                              /\ intent'[j].rec = intent[j].rec
    PROVE  Lasting /\ LinkedPays' /\ Grouped'
<1>1. Lasting
  BY CoversKept DEF Lasting
<1>2. LinkedPays'
  <2> SUFFICES ASSUME NEW j \in Intents, intent'[j].ptx # None
               PROVE  Pays(intent[j].ptx, j)'
    BY DEF LinkedPays
  <2> QED
    BY <1>1, LinkKept
<1>3. Grouped'
  BY DEF ChargeInv, Grouped
<1> QED
  BY <1>1, <1>2, <1>3

(***************************************************************************)
(* Steps that only move a request.                                         *)
(***************************************************************************)
LEMMA RequestMovesCharges ==
    ASSUME IInv, ChargeInv, NEW s \in Sessions, Others(s), Knows(s)',
           UNCHANGED <<amount, revenue, intent, group, provider>>
    PROVE  ChargeInv'
<1>1. SharesKept
  BY DEF SharesKept
<1> QED
  BY <1>1, RowsKept, NothingBookedCharges, StepKeepsCharges

\* A request with nothing to remember about a payment.
LEMMA KnowsNothing ==
    ASSUME NEW s, session'[s].pc \in {"idle", "paying", "payingGroup", "canceling"}
    PROVE  Knows(s)'
BY DEF Knows, OnTransaction

LEMMA FinishedKnows ==
    ASSUME TypeOK, NEW s \in Sessions, Finish(s)
    PROVE  Others(s) /\ Knows(s)'
<1>1. Others(s) /\ session'[s] = Idle
  BY Advances DEF Finish, Continue
<1> QED
  BY <1>1, KnowsNothing DEF Idle

LEMMA FinishKeepsCharges ==
    ASSUME IInv, ChargeInv, NEW s \in Sessions, Finish(s),
           UNCHANGED <<amount, revenue, intent, group, provider>>
    PROVE  ChargeInv'
BY FinishedKnows, RequestMovesCharges DEF IInv

LEMMA EndingKeepsCharges ==
    ASSUME IInv, ChargeInv, NEW s \in Sessions,
           \/ RefuseReconciliation(s) \/ UniqueViolation(s) \/ ProviderRefusesPix(s)
           \/ DeadlockVictim(s) \/ Abandon(s) \/ CancelReceivable(s)
    PROVE  ChargeInv'
BY FinishKeepsCharges
DEF RefuseReconciliation, UniqueViolation, ProviderRefusesPix, DeadlockVictim, Abandon,
    CancelReceivable

\* A request that starts on an intent, with what the intent collects.
LEMMA InspectionKnows ==
    ASSUME NEW s \in Sessions, NEW i \in Intents, NEW R \in SUBSET Receivables,
           session'[s].pc \in {"reserved", "replacing"}, session'[s].int = i,
           session'[s].target = R, session'[s].share = ShareOf(R),
           Covers(i)' \subseteq R, amount' = amount
    PROVE  Knows(s)'
BY DEF Knows, ShareOf, OnTransaction

LEMMA InspectReplacementKeepsCharges ==
    ASSUME IInv, ChargeInv, NEW s \in Sessions, NEW r \in Receivables, NEW i \in Intents,
           InspectReplacement(s, r, i)
    PROVE  ChargeInv'
<1> DEFINE q == [Idle EXCEPT !.pc = "replacing", !.target = {r},
                             !.share = ShareOf({r}), !.int = i]
<1>1. Others(s) /\ session'[s] = q
  BY Advances DEF InspectReplacement, Start, IInv
<1>2. UNCHANGED <<amount, revenue, intent, group, provider>> /\ i \in CurrentPix(r)
  BY DEF InspectReplacement
<1>3. Covers(i)' \subseteq {r}
  BY <1>2 DEF CurrentPix, IsIndividual, Covers
<1>4. q.pc = "replacing" /\ q.int = i /\ q.target = {r} /\ q.share = ShareOf({r})
  BY DEF Idle
<1> HIDE DEF q
<1>5. Knows(s)'
  BY <1>1, <1>2, <1>3, <1>4, InspectionKnows
<1> QED
  BY <1>1, <1>2, <1>5, RequestMovesCharges

LEMMA InspectGroupReplacementKeepsCharges ==
    ASSUME IInv, ChargeInv, NEW s \in Sessions, NEW i \in Intents,
           InspectGroupReplacement(s, i)
    PROVE  ChargeInv'
<1> DEFINE R == Items(intent[i].grp)
           q == [Idle EXCEPT !.pc = "replacing", !.target = R, !.share = ShareOf(R),
                             !.int = i, !.grp = intent[i].grp]
<1>1. Others(s) /\ session'[s] = q
  BY Advances DEF InspectGroupReplacement, Start, IInv
<1>2. UNCHANGED <<amount, revenue, intent, group, provider>> /\ intent[i].grp # None
  BY DEF InspectGroupReplacement
<1>3. Covers(i)' \subseteq R /\ R \in SUBSET Receivables
  BY <1>2 DEF Covers, Items
<1>4. q.pc = "replacing" /\ q.int = i /\ q.target = R /\ q.share = ShareOf(R)
  BY DEF Idle
<1> HIDE DEF q, R
<1>5. Knows(s)'
  BY <1>1, <1>2, <1>3, <1>4, InspectionKnows
<1> QED
  BY <1>1, <1>2, <1>5, RequestMovesCharges

LEMMA FetchReconciliationKeepsCharges ==
    ASSUME IInv, ChargeInv, NEW s \in Sessions, NEW r \in Receivables, NEW t \in Txs,
           FetchReconciliation(s, r, t), "reconcileReceivablePix" \in Requests
    PROVE  ChargeInv'
<1> DEFINE q == [Idle EXCEPT !.pc = "fetched", !.target = {r}, !.ptx = t,
                             !.seen = NormalizeStatus(provider[t].status)]
<1>1. Others(s) /\ session'[s] = q
  BY Advances DEF FetchReconciliation, Start, IInv
<1>2. /\ UNCHANGED <<amount, revenue, intent, group, provider>>
      /\ provider[t].status # "NONE"
  BY DEF FetchReconciliation
<1>3. q.pc = "fetched" /\ q.ptx = t
  BY DEF Idle
<1> HIDE DEF q
<1>4. Knows(s)'
  BY <1>1, <1>2, <1>3 DEF Knows
<1> QED
  BY <1>1, <1>2, <1>4, RequestMovesCharges

LEMMA ReadsKeepCharges ==
    ASSUME IInv, ChargeInv, NEW s \in Sessions, NEW R, NEW grouped \in BOOLEAN, NEW r,
           \/ ReadPayment(s, R, grouped) \/ ReadCancellation(s, r)
           \/ "updateReference" \in Requests /\ ReadReprice(s, r)
    PROVE  ChargeInv'
<1>1. CASE ReadPayment(s, R, grouped)
  <2>1. PICK pc \in {"paying", "payingGroup"} :
          Start(s, [Idle EXCEPT !.pc = pc, !.target = R, !.share = ShareOf(R)])
    BY <1>1 DEF ReadPayment
  <2> DEFINE q == [Idle EXCEPT !.pc = pc, !.target = R, !.share = ShareOf(R)]
  <2>2. Others(s) /\ session'[s] = q
    BY <2>1, Advances DEF Start, IInv
  <2>3. q.pc = pc
    BY DEF Idle
  <2> HIDE DEF q
  <2>4. Knows(s)'
    BY <2>2, <2>3, KnowsNothing
  <2> QED
    BY <1>1, <2>2, <2>4, RequestMovesCharges DEF ReadPayment
<1>2. CASE ReadCancellation(s, r)
  <2> DEFINE q == [Idle EXCEPT !.pc = "canceling", !.target = {r}]
  <2>1. Others(s) /\ session'[s] = q
    BY <1>2, Advances DEF ReadCancellation, Start, IInv
  <2>2. q.pc = "canceling"
    BY DEF Idle
  <2> HIDE DEF q
  <2>3. Knows(s)'
    BY <2>1, <2>2, KnowsNothing
  <2> QED
    BY <1>2, <2>1, <2>3, RequestMovesCharges DEF ReadCancellation
<1>3. CASE "updateReference" \in Requests /\ ReadReprice(s, r)
  <2> DEFINE q == [Idle EXCEPT !.pc = "repricing", !.target = {r}]
  <2>1. Others(s) /\ session'[s] = q
    BY <1>3, Advances DEF ReadReprice, Start, IInv
  <2>2. Knows(s)'
    BY <1>3, <2>1 DEF Knows, OnTransaction, Idle
  <2> QED
    BY <1>3, <2>1, <2>2, RequestMovesCharges DEF ReadReprice
<1> QED
  BY <1>1, <1>2, <1>3

\* A request that learns the transaction of an intent.
LEMMA ReportedKnows ==
    ASSUME NEW s \in Sessions, NEW i, NEW t, NEW st,
           session'[s] = Reported(i, t, st), Pays(t, i)'
    PROVE  Knows(s)'
<1> DEFINE q == Reported(i, t, st)
<1>1. q.pc = "reported" /\ q.int = i /\ q.ptx = t
  BY DEF Reported, Idle
<1> HIDE DEF q
<1>2. session'[s].pc = "reported" /\ session'[s].int = i /\ session'[s].ptx = t
  BY <1>1 DEF q
<1> QED
  BY <1>2 DEF Knows, Pays, Charges, Covers, Items

LEMMA SyncPaymentIntentKeepsCharges ==
    ASSUME IInv, ChargeInv, NEW s \in Sessions, NEW i \in Intents, SyncPaymentIntent(s, i)
    PROVE  ChargeInv'
<1> DEFINE st == NormalizeStatus(provider[intent[i].ptx].status)
<1>1. PICK t \in Txs : t = intent[i].ptx
  BY DEF SyncPaymentIntent, IInv, TypeOK
<1>2. Others(s) /\ session'[s] = Reported(i, t, st)
  BY <1>1, Advances DEF SyncPaymentIntent, Start, IInv
<1>3. UNCHANGED <<amount, revenue, intent, group, provider>>
  BY DEF SyncPaymentIntent
<1>4. Pays(t, i)
  BY <1>1 DEF SyncPaymentIntent, ChargeInv, LinkedPays
<1>5. Pays(t, i)'
  BY <1>3, <1>4 DEF Pays, Charges, Covers, Items
<1> QED
  BY <1>2, <1>3, <1>5, ReportedKnows, RequestMovesCharges

LEMMA ProcessPaymentWebhookKeepsCharges ==
    ASSUME IInv, ChargeInv, NEW s \in Sessions, NEW i \in Intents, NEW external,
           ProcessPaymentWebhook(s, i, external)
    PROVE  ChargeInv'
<1> DEFINE st == NormalizeStatus(external)
<1>1. PICK t \in Txs : t = intent[i].ptx
  BY DEF ProcessPaymentWebhook, IInv, TypeOK
<1>2. Others(s) /\ session'[s] = Reported(i, t, st)
  BY <1>1, Advances DEF ProcessPaymentWebhook, Start, IInv
<1>3. UNCHANGED <<amount, revenue, intent, group, provider>>
  BY DEF ProcessPaymentWebhook
<1>4. Pays(t, i)
  BY <1>1 DEF ProcessPaymentWebhook, ChargeInv, LinkedPays
<1>5. Pays(t, i)'
  BY <1>3, <1>4 DEF Pays, Charges, Covers, Items
<1> QED
  BY <1>2, <1>3, <1>5, ReportedKnows, RequestMovesCharges

\* A transaction at the provider that gets another status.
LEMMA TransactionMoves ==
    ASSUME IInv, ChargeInv, UNCHANGED <<amount, revenue, intent, group>>,
           NEW t \in Txs, NEW st, st # "NONE",
           provider' = [provider EXCEPT ![t].status = st]
    PROVE  Lasting /\ LinkedPays' /\ Grouped' /\ BookedIsCharged'
<1>1. \A u \in Txs : /\ provider'[u].share = provider[u].share
                     /\ provider[u].status # "NONE" => provider'[u].status # "NONE"
  BY DEF IInv, TypeOK
<1>2. \A i \in Intents : Covers(i)' = Covers(i)
  BY DEF Covers, Items
<1>3. Lasting
  BY <1>1, <1>2 DEF Lasting
<1>4. LinkedPays'
  BY <1>3, LinkKept DEF LinkedPays
<1> QED
  BY <1>3, <1>4, NothingBookedCharges DEF ChargeInv, Grouped

LEMMA CancelPaymentIntentKeepsCharges ==
    ASSUME IInv, ChargeInv, NEW s \in Sessions, NEW i \in Intents, CancelPaymentIntent(s, i)
    PROVE  ChargeInv'
<1>1. PICK t \in Txs : t = intent[i].ptx
  BY DEF CancelPaymentIntent, IInv, TypeOK
<1>2. Others(s) /\ session'[s] = Reported(i, t, "CANCELED")
  BY <1>1, Advances DEF CancelPaymentIntent, Start, IInv
<1>3. /\ UNCHANGED <<amount, revenue, intent, group>>
      /\ provider' = [provider EXCEPT ![t].status = "cancelled"]
  BY <1>1 DEF CancelPaymentIntent
<1>4. Lasting /\ LinkedPays' /\ Grouped' /\ BookedIsCharged'
  BY <1>3, TransactionMoves
<1>5. Pays(t, i) /\ IsUsed(i)
  BY <1>1, LinkedIsUsed DEF CancelPaymentIntent, ChargeInv, LinkedPays
<1>6. Pays(t, i)'
  BY <1>4, <1>5, LastingPays
<1> QED
  BY <1>2, <1>4, <1>6, ReportedKnows, StepKeepsCharges

LEMMA RecoverReplacementKeepsCharges ==
    ASSUME IInv, ChargeInv, NEW s \in Sessions, NEW t \in Txs, RecoverReplacement(s, t)
    PROVE  ChargeInv'
<1> DEFINE q == [session[s] EXCEPT !.pc = "replacement", !.ptx = t,
                                   !.seen = NormalizeStatus(provider[t].status)]
<1>1. /\ session[s].pc = "replacing" /\ provider[t].status # "NONE"
      /\ \A r \in session[s].target : Total(provider[t].share) = session[s].share[r]
      /\ UNCHANGED <<amount, revenue, intent, group, provider>>
  BY DEF RecoverReplacement
<1>2. Others(s) /\ session'[s] = q
  BY Advances DEF RecoverReplacement, Continue, IInv
<1>3. PICK i \in Intents : i = session[s].int
  BY <1>1 DEF IInv, Fits, OnIntent
<1>4. q.pc = "replacement" /\ q.ptx = t /\ q.int = i
  BY <1>3 DEF IInv, TypeOK, RequestRecord
<1> HIDE DEF q
<1>5. \A r \in Covers(i) : Charges(t, r)
  BY <1>1, <1>3 DEF ChargeInv, Knows, Charges
<1>6. Pays(t, i)'
  BY <1>1, <1>5 DEF Pays, Charges, Covers, Items
<1>7. Knows(s)'
  BY <1>2, <1>4, <1>6 DEF Knows, Pays, Charges, Covers, Items
<1> QED
  BY <1>1, <1>2, <1>7, RequestMovesCharges

LEMMA AdoptExistingKeepsCharges ==
    ASSUME IInv, ChargeInv, NEW s \in Sessions, AdoptExisting(s)
    PROVE  ChargeInv'
<1>1. UNCHANGED <<amount, revenue, intent, group, provider>>
  BY DEF AdoptExisting
<1>2. PICK i \in IntentsOf(session[s].ptx) : ThenSettle(s, i, intent[i].status = "PAID")
  BY DEF AdoptExisting
<1>3. PICK t \in Txs : t = session[s].ptx
  BY DEF AdoptExisting, IInv, Fits, OnTransaction
<1>4. i \in Intents /\ intent[i].ptx = t /\ t # None
  BY <1>3, NoneAssumption DEF IntentsOf
<1>5. CASE session' = [session EXCEPT ![s] = Reported(i, t, "PAID")]
  <2>1. Others(s) /\ session'[s] = Reported(i, t, "PAID")
    BY <1>5, Advances DEF IInv
  <2>2. Pays(t, i)'
    BY <1>1, <1>4 DEF ChargeInv, LinkedPays, Pays, Charges, Covers, Items
  <2> QED
    BY <1>1, <2>1, <2>2, ReportedKnows, RequestMovesCharges
<1>6. CASE Finish(s)
  BY <1>1, <1>6, FinishKeepsCharges
<1> QED
  BY <1>2, <1>3, <1>5, <1>6 DEF ThenSettle, Continue

\* A request that keeps its intent and transaction still knows what it pays.
LEMMA StillKnows ==
    ASSUME IInv, ChargeInv, NEW s \in Sessions, NEW q,
           UNCHANGED <<amount, intent, group, provider>>, session'[s] = q,
           session[s].pc \in {"reported", "read"},
           q.pc \in {"read", "settling", "settlingGroup"},
           q.int = session[s].int, q.ptx = session[s].ptx,
           q.pc \in {"settling", "settlingGroup"} =>
               \A r \in q.target : q.share[r] = amount[r]
    PROVE  Knows(s)'
<1>1. PICK i \in Intents, t \in Txs : i = session[s].int /\ t = session[s].ptx
  BY DEF IInv, Fits, OnIntent, OnTransaction
<1>2. Pays(t, i)
  BY <1>1 DEF ChargeInv, Knows, OnTransaction
<1>3. Pays(t, i)'
  BY <1>2 DEF Pays, Charges, Covers, Items
<1> QED
  BY <1>1, <1>3 DEF Knows, Pays, Charges, Covers, Items

LEMMA ReadIntentKeepsCharges ==
    ASSUME IInv, ChargeInv, NEW s \in Sessions, ReadIntent(s)
    PROVE  ChargeInv'
<1> DEFINE i == session[s].int
           q == [session[s] EXCEPT !.pc = "read", !.grp = intent[i].grp,
                                   !.cur = intent[i].status]
<1>1. /\ session[s].pc = "reported" /\ session[s] \in RequestRecord
      /\ UNCHANGED <<amount, revenue, intent, group, provider>>
  BY DEF ReadIntent, IInv, TypeOK
<1>2. CASE session' = [session EXCEPT ![s] = q]
  <2>1. q.pc = "read" /\ q.int = session[s].int /\ q.ptx = session[s].ptx
    BY <1>1 DEF RequestRecord
  <2>2. Others(s) /\ session'[s] = q
    BY <1>2, Advances DEF IInv
  <2> HIDE DEF q, i
  <2>3. Knows(s)'
    BY <1>1, <2>1, <2>2, StillKnows
  <2> QED
    BY <1>1, <2>2, <2>3, RequestMovesCharges
<1>3. CASE Finish(s)
  BY <1>1, <1>3, FinishKeepsCharges
<1> QED
  BY <1>2, <1>3 DEF ReadIntent, Continue

LEMMA AcquireIntentKeepsCharges ==
    ASSUME IInv, ChargeInv, NEW s \in Sessions, AcquireIntent(s)
    PROVE  ChargeInv'
<1> DEFINE r == intent[session[s].int].rec
           q == [session[s] EXCEPT
                    !.pc = "settling", !.target = {r}, !.share = ShareOf({r}),
                    !.account = receivable[r], !.booking = revenue[r]]
<1>1. /\ session[s].pc = "read" /\ session[s].grp = None /\ session[s] \in RequestRecord
      /\ UNCHANGED <<amount, revenue, intent, group, provider>>
  BY DEF AcquireIntent, IInv, TypeOK
<1>2. r \in Receivables
  <2>1. Fits(s) /\ RowsLinked /\ TypeOK
    BY DEF IInv
  <2> QED
    BY <1>1, <2>1 DEF Fits, OnIntent, OnGroup, RowsLinked, TypeOK
<1>3. CASE session' = [session EXCEPT ![s] = q]
  <2>1. /\ q.pc = "settling" /\ q.int = session[s].int /\ q.ptx = session[s].ptx
        /\ q.target = {r} /\ q.share = ShareOf({r})
    BY <1>1 DEF RequestRecord
  <2>2. Others(s) /\ session'[s] = q
    BY <1>3, Advances DEF IInv
  <2> HIDE DEF q, r
  <2>3. \A x \in q.target : q.share[x] = amount[x]
    BY <1>2, <2>1 DEF ShareOf
  <2>4. Knows(s)'
    BY <1>1, <2>1, <2>2, <2>3, StillKnows
  <2> QED
    BY <1>1, <2>2, <2>4, RequestMovesCharges
<1>4. CASE Finish(s)
  BY <1>1, <1>4, FinishKeepsCharges
<1> QED
  BY <1>3, <1>4 DEF AcquireIntent, Continue

LEMMA AcquireGroupKeepsCharges ==
    ASSUME IInv, ChargeInv, NEW s \in Sessions, AcquireGroup(s)
    PROVE  ChargeInv'
<1> DEFINE R == Items(session[s].grp)
           q == [session[s] EXCEPT !.pc = "settlingGroup", !.target = R,
                                   !.share = ShareOf(R)]
<1>1. /\ session[s].pc = "read" /\ session[s] \in RequestRecord
      /\ UNCHANGED <<amount, revenue, intent, group, provider>>
  BY DEF AcquireGroup, IInv, TypeOK
<1>2. CASE session' = [session EXCEPT ![s] = q]
  <2>1. /\ q.pc = "settlingGroup" /\ q.int = session[s].int /\ q.ptx = session[s].ptx
        /\ q.target = R /\ q.share = ShareOf(R)
    BY <1>1 DEF RequestRecord
  <2>2. Others(s) /\ session'[s] = q
    BY <1>2, Advances DEF IInv
  <2> HIDE DEF q
  <2>3. \A x \in q.target : q.share[x] = amount[x]
    BY <2>1 DEF ShareOf, Items
  <2>4. Knows(s)'
    BY <1>1, <2>1, <2>2, <2>3, StillKnows
  <2> QED
    BY <1>1, <2>2, <2>4, RequestMovesCharges
<1>3. CASE Finish(s)
  BY <1>1, <1>3, FinishKeepsCharges
<1> QED
  BY <1>2, <1>3 DEF AcquireGroup, Continue
(***************************************************************************)
(* Steps that write rows.                                                  *)
(***************************************************************************)
\* A new reservation names no transaction yet.
LEMMA RowReserved ==
    ASSUME IInv, ChargeInv, NEW i \in Intents, ~IsUsed(i), OnlyRow(i), SharesKept,
           intent'[i].ptx = None, UNCHANGED <<amount, revenue, provider>>,
           intent'[i].grp # None => "createReceivablesPix" \in Requests
    PROVE  Lasting /\ LinkedPays' /\ Grouped' /\ BookedIsCharged'
<1>1. Lasting
  BY CoversKept DEF Lasting, OnlyRow
<1>2. LinkedPays'
  <2> SUFFICES ASSUME NEW j \in Intents, intent'[j].ptx # None
               PROVE  Pays(intent[j].ptx, j)' 
    BY DEF LinkedPays
  <2>1. intent'[j] = intent[j]
    BY DEF OnlyRow
  <2>2. Pays(intent[j].ptx, j)' 
    BY <1>1, <2>1, LinkKept
  <2> QED
    BY <2>2
<1>3. Grouped'
  BY DEF ChargeInv, Grouped, OnlyRow
<1> QED
  BY <1>1, <1>2, <1>3, NothingBookedCharges

LEMMA ReservePixKeepsCharges ==
    ASSUME IInv, ChargeInv, NEW s \in Sessions, NEW r \in Receivables, ReservePix(s, r)
    PROVE  ChargeInv'
<1>1. PICK i \in Intents :
        /\ UnusedIntent(i)
        /\ intent' = [intent EXCEPT ![i] = [NoIntent EXCEPT !.status = "CREATED", !.rec = r]]
        /\ Start(s, [Idle EXCEPT !.pc = "reserved", !.target = {r},
                                 !.share = ShareOf({r}), !.int = i])
  BY DEF ReservePix
<1> DEFINE q == [Idle EXCEPT !.pc = "reserved", !.target = {r},
                             !.share = ShareOf({r}), !.int = i]
<1>2. UNCHANGED <<amount, revenue, group, provider>> /\ ~IsUsed(i) /\ SharesKept
  BY <1>1 DEF ReservePix, IsUsed, UnusedIntent, SharesKept
<1>3. /\ intent'[i].ptx = None /\ intent'[i].rec = r /\ intent'[i].grp = None
      /\ OnlyRow(i)
  BY <1>1 DEF IInv, TypeOK, NoIntent, OnlyRow
<1>4. Lasting /\ LinkedPays' /\ Grouped' /\ BookedIsCharged'
  BY <1>2, <1>3, RowReserved
<1>5. Others(s) /\ session'[s] = q
  BY <1>1, Advances DEF Start, IInv
<1>6. q.pc = "reserved" /\ q.int = i /\ q.target = {r} /\ q.share = ShareOf({r})
  BY DEF Idle
<1> HIDE DEF q
<1>7. Covers(i)' \subseteq {r}
  BY <1>3 DEF Covers
<1>8. Knows(s)'
  BY <1>2, <1>5, <1>6, <1>7, InspectionKnows
<1> QED
  BY <1>4, <1>5, <1>8, StepKeepsCharges

LEMMA ReserveGroupPixKeepsCharges ==
    ASSUME IInv, ChargeInv, NEW s \in Sessions, NEW R \in SUBSET Receivables,
           ReserveGroupPix(s, R), "createReceivablesPix" \in Requests
    PROVE  ChargeInv'
<1>1. PICK i \in Intents, g \in Groups :
        /\ UnusedIntent(i) /\ UnusedGroup(g)
        /\ intent' = [intent EXCEPT ![i] = [NoIntent EXCEPT !.status = "CREATED", !.grp = g]]
        /\ group' = [group EXCEPT ![g] = [status |-> "CREATED", share |-> ShareOf(R)]]
        /\ Start(s, [Idle EXCEPT !.pc = "reserved", !.target = R,
                                 !.share = ShareOf(R), !.int = i, !.grp = g])
  BY DEF ReserveGroupPix
<1> DEFINE q == [Idle EXCEPT !.pc = "reserved", !.target = R,
                             !.share = ShareOf(R), !.int = i, !.grp = g]
<1>2. UNCHANGED <<amount, revenue, provider>> /\ ~IsUsed(i)
  BY <1>1 DEF ReserveGroupPix, IsUsed, UnusedIntent
<1>3. intent'[i].ptx = None /\ intent'[i].grp = g /\ OnlyRow(i)
  BY <1>1 DEF IInv, TypeOK, NoIntent, OnlyRow
<1>4. group'[g].share = ShareOf(R) /\ SharesKept
  BY <1>1 DEF IInv, TypeOK, UnusedGroup, SharesKept
<1>5. Lasting /\ LinkedPays' /\ Grouped' /\ BookedIsCharged'
  BY <1>2, <1>3, <1>4, RowReserved
<1>6. Others(s) /\ session'[s] = q
  BY <1>1, Advances DEF Start, IInv
<1>7. q.pc = "reserved" /\ q.int = i /\ q.target = R /\ q.share = ShareOf(R)
  BY DEF Idle
<1> HIDE DEF q
<1>8. Covers(i)' \subseteq R
  <2>1. \A r \in Receivables : ShareOf(R)[r] # 0 => r \in R
    BY SharesOfAccounts DEF IInv
  <2>2. Covers(i)' = {r \in Receivables : group'[g].share[r] # 0}
    BY <1>3, NoneAssumption DEF Covers, Items
  <2> QED
    BY <1>4, <2>1, <2>2
<1>9. Knows(s)'
  BY <1>2, <1>6, <1>7, <1>8, InspectionKnows
<1> QED
  BY <1>5, <1>6, <1>9, StepKeepsCharges

LEMMA ProviderCreatePixKeepsCharges ==
    ASSUME IInv, ChargeInv, NEW s \in Sessions, ProviderCreatePix(s)
    PROVE  ChargeInv'
<1>1. PICK t \in Txs :
        /\ provider[t].status = "NONE"
        /\ provider' = [provider EXCEPT ![t] =
               [status |-> "pending", share |-> session[s].share]]
        /\ Continue(s, [session[s] EXCEPT
               !.pc = IF session[s].pc = "reserved" THEN "created" ELSE "replacement",
               !.ptx = t, !.seen = "WAITING_PAYMENT"])
  BY DEF ProviderCreatePix
<1>2. /\ session[s].pc \in {"reserved", "replacing"} /\ session[s] \in RequestRecord
      /\ UNCHANGED <<amount, revenue, intent, group>>
  BY DEF ProviderCreatePix, IInv, TypeOK
<1>3. PICK i \in Intents : i = session[s].int /\ IsUsed(i)
  BY <1>2 DEF IInv, Fits, OnIntent, IsUsed
<1>4. PICK pc \in {"created", "replacement"} :
        session' = [session EXCEPT ![s] = [session[s] EXCEPT
                       !.pc = pc, !.ptx = t, !.seen = "WAITING_PAYMENT"]]
  BY <1>1 DEF Continue
<1> DEFINE q == [session[s] EXCEPT !.pc = pc, !.ptx = t, !.seen = "WAITING_PAYMENT"]
<1>5. q.pc \in {"created", "replacement"} /\ q.int = i /\ q.ptx = t
  BY <1>2, <1>3 DEF RequestRecord
<1>6. Others(s) /\ session'[s] = q
  BY <1>4, Advances DEF IInv
<1> HIDE DEF q
<1>7. /\ provider'[t].status = "pending" /\ provider'[t].share = session[s].share
      /\ \A u \in Txs \ {t} : provider'[u] = provider[u]
  BY <1>1 DEF IInv, TypeOK
<1>8. Lasting
  <2>1. \A j \in Intents : Covers(j)' = Covers(j)
    BY <1>2 DEF Covers, Items
  <2> QED
    BY <1>1, <1>2, <1>7, <2>1 DEF Lasting
<1>9. LinkedPays' /\ Grouped'
  BY <1>2, <1>8, LinkKept DEF LinkedPays, ChargeInv, Grouped
<1>10. BookedIsCharged'
  BY <1>2, <1>8, NothingBookedCharges
<1>11. Pays(t, i)'
  <2>1. \A r \in Covers(i) : session[s].share[r] = amount[r]
    BY <1>2, <1>3 DEF ChargeInv, Knows
  <2>2. \A r \in Covers(i)' : Charges(t, r)'
    BY <1>2, <1>3, <1>7, <1>8, <2>1 DEF Charges, Lasting
  <2> QED
    BY <1>7, <2>2 DEF Pays
<1>12. Knows(s)'
  BY <1>5, <1>6, <1>11 DEF Knows, Pays, Charges, Covers, Items
<1> QED
  BY <1>6, <1>8, <1>9, <1>10, <1>12, StepKeepsCharges

\* An intent in use that keeps what it collects may name a transaction that
\* charges it.
LEMMA RowLinked ==
    ASSUME IInv, ChargeInv, SharesKept, UNCHANGED <<amount, revenue, provider>>,
           NEW i \in Intents, IsUsed(i), OnlyRow(i),
           intent'[i].grp = intent[i].grp, intent'[i].rec = intent[i].rec,
           NEW t \in Txs, intent'[i].ptx = t, Pays(t, i)
    PROVE  Lasting /\ LinkedPays' /\ Grouped' /\ BookedIsCharged'
<1>1. Lasting
  BY CoversKept DEF Lasting, OnlyRow
<1>2. Pays(t, i)'
  BY <1>1, LastingPays
<1>3. LinkedPays'
  <2> SUFFICES ASSUME NEW j \in Intents, intent'[j].ptx # None
               PROVE  Pays(intent[j].ptx, j)'
    BY DEF LinkedPays
  <2>1. CASE j = i
    <3>1. (intent[j].ptx)' = t
      BY <2>1
    <3> QED
      BY <1>2, <2>1, <3>1 DEF Pays, Charges
  <2>2. CASE j # i
    <3>1. intent'[j] = intent[j]
      BY <2>2 DEF OnlyRow
    <3> QED
      BY <1>1, <3>1, LinkKept
  <2> QED
    BY <2>1, <2>2
<1>4. Grouped'
  BY DEF ChargeInv, Grouped, OnlyRow
<1> QED
  BY <1>1, <1>3, <1>4, NothingBookedCharges

LEMMA FinishPixKeepsCharges ==
    ASSUME IInv, ChargeInv, NEW s \in Sessions, FinishPix(s)
    PROVE  ChargeInv'
<1>1. session[s].pc = "created" /\ Fits(s)
  BY DEF FinishPix, IInv
<1>2. PICK i \in Intents, t \in Txs :
        i = session[s].int /\ t = session[s].ptx /\ IsUsed(i)
  BY <1>1 DEF Fits, OnIntent, OnTransaction, IsUsed
<1> DEFINE row == [intent[i] EXCEPT !.status = "WAITING_PAYMENT", !.ptx = t]
<1>3. /\ intent' = [intent EXCEPT ![i] = row] /\ Finish(s)
      /\ UNCHANGED <<amount, revenue, provider>>
  BY <1>2 DEF FinishPix
<1>4. row.ptx = t /\ row.grp = intent[i].grp /\ row.rec = intent[i].rec
  BY DEF IInv, TypeOK
<1> HIDE DEF row
<1>5. intent'[i] = row /\ OnlyRow(i)
  BY <1>3 DEF IInv, TypeOK, OnlyRow
<1>6. SharesKept
  BY GroupStatusKeepsShares DEF FinishPix, IInv
<1>7. Pays(t, i)
  BY <1>1, <1>2 DEF ChargeInv, Knows, OnTransaction
<1>8. Lasting /\ LinkedPays' /\ Grouped' /\ BookedIsCharged'
  BY <1>2, <1>3, <1>4, <1>5, <1>6, <1>7, RowLinked
<1>9. Others(s) /\ Knows(s)'
  BY <1>3, FinishedKnows DEF IInv
<1> QED
  BY <1>8, <1>9, StepKeepsCharges

LEMMA ApplyUnpaidStatusKeepsCharges ==
    ASSUME IInv, ChargeInv, NEW s \in Sessions, ApplyUnpaidStatus(s)
    PROVE  ChargeInv'
<1>1. session[s].pc = "read" /\ Fits(s)
  BY DEF ApplyUnpaidStatus, IInv
<1>2. PICK i \in Intents : i = session[s].int
  BY <1>1 DEF Fits, OnIntent
<1> DEFINE row == UnpaidRow(s)
<1>3. /\ intent' = [intent EXCEPT ![i] = row] /\ Finish(s)
      /\ UNCHANGED <<amount, revenue, provider>>
  BY <1>2 DEF ApplyUnpaidStatus
<1>4. row.ptx = intent[i].ptx /\ row.grp = intent[i].grp /\ row.rec = intent[i].rec
  BY <1>2 DEF UnpaidRow, IInv, TypeOK
<1> HIDE DEF row
<1>5. \A j \in Intents : /\ intent'[j].ptx = intent[j].ptx
                         /\ intent'[j].grp = intent[j].grp
                         /\ intent'[j].rec = intent[j].rec
  BY <1>3, <1>4 DEF IInv, TypeOK
<1>6. SharesKept
  BY GroupStatusKeepsShares DEF ApplyUnpaidStatus, IInv
<1>7. Lasting /\ LinkedPays' /\ Grouped'
  BY <1>3, <1>5, <1>6, RowsKept
<1>8. BookedIsCharged'
  BY <1>3, <1>7, NothingBookedCharges
<1>9. Others(s) /\ Knows(s)'
  BY <1>3, FinishedKnows DEF IInv
<1> QED
  BY <1>7, <1>8, <1>9, StepKeepsCharges

LEMMA CommitReplacementKeepsCharges ==
    ASSUME IInv, ChargeInv, NEW s \in Sessions, CommitReplacement(s)
    PROVE  ChargeInv'
<1>1. session[s].pc = "replacement" /\ Fits(s)
  BY DEF CommitReplacement, IInv
<1>2. PICK i \in Intents, t \in Txs :
        /\ i = session[s].int /\ t = session[s].ptx /\ IsUsed(i)
        /\ session[s].grp = intent[i].grp
  BY <1>1 DEF Fits, OnIntent, OnTransaction, OnGroup, IsUsed
<1> DEFINE old == [intent[i] EXCEPT !.status = "SUPERSEDED"]
           new == [status |-> "WAITING_PAYMENT", rec |-> intent[i].rec,
                   grp |-> intent[i].grp, ptx |-> t]
<1>3. PICK j \in Intents :
        /\ UnusedIntent(j) /\ intent' = [intent EXCEPT ![i] = old, ![j] = new]
        /\ \/ Continue(s, Reported(j, t, "PAID"))
           \/ Finish(s)
  BY <1>2 DEF CommitReplacement
<1>4. UNCHANGED <<amount, revenue, group, provider>> /\ j # i /\ ~IsUsed(j)
  BY <1>2, <1>3 DEF CommitReplacement, IsUsed, UnusedIntent
<1>5. /\ intent'[i].ptx = intent[i].ptx /\ intent'[i].grp = intent[i].grp
      /\ intent'[i].rec = intent[i].rec /\ intent'[j] = new
      /\ \A k \in Intents \ {i, j} : intent'[k] = intent[k]
  BY <1>3, <1>4 DEF IInv, TypeOK
<1>6. SharesKept
  BY <1>4 DEF SharesKept
<1>7. Lasting
  <2>1. ASSUME NEW k \in Intents, IsUsed(k) PROVE Covers(k)' = Covers(k)
    <3>1. intent'[k].grp = intent[k].grp /\ intent'[k].rec = intent[k].rec
      BY <1>4, <1>5, <2>1
    <3> QED
      BY <1>6, <2>1, <3>1, CoversKept
  <2> QED
    BY <1>4, <2>1 DEF Lasting
<1>8. Covers(j)' = Covers(i)
  <2>1. intent'[j].grp = intent[i].grp /\ intent'[j].rec = intent[i].rec
    BY <1>5
  <2> QED
    BY <1>4, <2>1 DEF Covers, Items
<1>9. Pays(t, j)'
  <2>1. Pays(t, i)
    BY <1>1, <1>2 DEF ChargeInv, Knows, OnTransaction
  <2> QED
    BY <1>4, <1>8, <2>1 DEF Pays, Charges
<1>10. LinkedPays'
  <2> SUFFICES ASSUME NEW k \in Intents, intent'[k].ptx # None
               PROVE  Pays(intent[k].ptx, k)'
    BY DEF LinkedPays
  <2>1. CASE k = j
    <3>1. (intent[k].ptx)' = t
      BY <1>5, <2>1
    <3> QED
      BY <1>9, <2>1, <3>1 DEF Pays, Charges
  <2>2. CASE k # j
    <3>1. intent'[k].ptx = intent[k].ptx
      BY <1>5, <2>2
    <3>2. (intent[k].ptx)' = intent[k].ptx
      BY <3>1
    <3>3. Pays(intent[k].ptx, k)'
      BY <1>7, <3>1, LinkKept
    <3> QED
      BY <3>3
  <2> QED
    BY <2>1, <2>2
<1>11. Grouped'
  BY <1>4, <1>5 DEF ChargeInv, Grouped
<1>12. BookedIsCharged'
  BY <1>4, <1>7, NothingBookedCharges
<1>13. Others(s) /\ Knows(s)'
  <2>1. CASE Continue(s, Reported(j, t, "PAID"))
    BY <1>9, <2>1, Advances, ReportedKnows DEF Continue, IInv
  <2>2. CASE Finish(s)
    BY <2>2, FinishedKnows DEF IInv
  <2> QED
    BY <1>3, <2>1, <2>2
<1> QED
  BY <1>7, <1>10, <1>11, <1>12, <1>13, StepKeepsCharges

LEMMA AdoptReconciliationKeepsCharges ==
    ASSUME IInv, ChargeInv, ChargesStand, NEW s \in Sessions, AdoptReconciliation(s)
    PROVE  ChargeInv'
<1>1. session[s].pc = "fetched" /\ UNCHANGED <<amount, revenue, group, provider>>
  BY DEF AdoptReconciliation
<1>2. PICK t \in Txs : t = session[s].ptx /\ provider[t].status # "NONE"
  BY <1>1 DEF IInv, Fits, OnTransaction, ChargeInv, Knows
<1>3. PICK r \in session[s].target, i \in Intents :
        /\ CanAdopt(s, r, i)
        /\ intent' = [intent EXCEPT ![i] = AdoptedRow(s, r, i)]
        /\ ThenSettle(s, i, FALSE)
  BY DEF AdoptReconciliation
<1>4. r \in Receivables /\ amount[r] = Total(provider[t].share)
  BY <1>2, <1>3 DEF IInv, TypeOK, RequestRecord, CanAdopt
\* Where transactions are reconciled there are no group PIX.
<1>5. \A j \in Intents : intent[j].grp = None
  BY <1>1 DEF ChargeInv, Knows, Grouped, ChargesStand
<1>6. IsUsed(i) => intent[i].rec = r
  BY <1>3, <1>5 DEF CanAdopt, ActivePix, UnusedIntent, IsUsed
<1> DEFINE row == AdoptedRow(s, r, i)
<1>7. row.rec = r /\ row.ptx = t /\ row.grp = None
  BY <1>2, <1>5 DEF AdoptedRow, IInv, TypeOK
<1> HIDE DEF row
<1>8. intent'[i] = row /\ OnlyRow(i)
  BY <1>3 DEF IInv, TypeOK, OnlyRow, row
<1>9. SharesKept
  BY <1>1 DEF SharesKept
<1>10. Lasting
  <2>1. ASSUME NEW k \in Intents, IsUsed(k) PROVE Covers(k)' = Covers(k)
    <3>1. intent'[k].grp = intent[k].grp /\ intent'[k].rec = intent[k].rec
      BY <1>5, <1>6, <1>7, <1>8, <2>1 DEF OnlyRow
    <3> QED
      BY <1>9, <2>1, <3>1, CoversKept
  <2> QED
    BY <1>1, <2>1 DEF Lasting
<1>11. Pays(t, i)'
  <2>1. Covers(i)' = {r}
    BY <1>4, <1>7, <1>8 DEF Covers
  <2> QED
    BY <1>1, <1>2, <1>4, <2>1 DEF Pays, Charges
<1>12. LinkedPays'
  <2> SUFFICES ASSUME NEW k \in Intents, intent'[k].ptx # None
               PROVE  Pays(intent[k].ptx, k)'
    BY DEF LinkedPays
  <2>1. CASE k = i
    <3>1. (intent[k].ptx)' = t
      BY <1>7, <1>8, <2>1
    <3> QED
      BY <1>11, <2>1, <3>1 DEF Pays, Charges
  <2>2. CASE k # i
    <3>1. intent'[k].ptx = intent[k].ptx
      BY <1>8, <2>2 DEF OnlyRow
    <3> QED
      BY <1>10, <3>1, LinkKept
  <2> QED
    BY <2>1, <2>2
<1>13. Grouped'
  BY <1>5, <1>7, <1>8 DEF Grouped, OnlyRow
<1>14. BookedIsCharged'
  BY <1>1, <1>10, NothingBookedCharges
<1>15. Others(s) /\ Knows(s)'
  <2>1. CASE session' = [session EXCEPT ![s] = Reported(i, t, "PAID")]
    BY <1>11, <2>1, Advances, ReportedKnows DEF IInv
  <2>2. CASE Finish(s)
    BY <2>2, FinishedKnows DEF IInv
  <2> QED
    BY <1>2, <1>3, <2>1, <2>2 DEF ThenSettle, Continue
<1> QED
  BY <1>10, <1>12, <1>13, <1>14, <1>15, StepKeepsCharges

(***************************************************************************)
(* Settlements.                                                            *)
(***************************************************************************)
\* A settlement books the accounts of a request at their values from a
\* payment that charges them.
LEMMA BookingCharges ==
    ASSUME IInv, ChargeInv, Lasting, NEW s \in Sessions, NEW t \in Txs,
           provider[t].status # "NONE", provider' = provider,
           \A r \in session[s].target : Charges(t, r) /\ session[s].share[r] = amount[r],
           revenue' = Booked(s, t)
    PROVE  BookedIsCharged'
<1> SUFFICES ASSUME NEW r \in Receivables, NEW u \in Txs, revenue'[r] # None,
                    revenue'[r].source = u
             PROVE  revenue'[r].value \in {provider[u].share[r], Total(provider[u].share)}
  BY DEF BookedIsCharged
<1>1. CASE r \in session[s].target
  <2>1. revenue'[r] = [source |-> t, value |-> session[s].share[r]]
    BY <1>1 DEF Booked
  <2> QED
    BY <1>1, <2>1 DEF Charges
<1>2. CASE r \notin session[s].target
  <2>1. revenue'[r] = revenue[r]
    BY <1>2 DEF Booked
  <2> QED
    BY <2>1 DEF ChargeInv, BookedIsCharged
<1> QED
  BY <1>1, <1>2

LEMMA SettleReceivableKeepsCharges ==
    ASSUME IInv, ChargeInv, NEW s \in Sessions, SettleReceivable(s)
    PROVE  ChargeInv'
<1>1. session[s].pc = "settling" /\ Fits(s) /\ Knows(s)
  BY DEF SettleReceivable, IInv, ChargeInv
<1>2. PICK i \in Intents, t \in Txs : i = session[s].int /\ t = session[s].ptx
  BY <1>1 DEF Fits, OnIntent, OnTransaction
<1>3. /\ Finish(s) /\ UNCHANGED <<amount, group, provider>>
      /\ revenue' = revenue \/ revenue' = Booked(s, t)
  BY <1>2 DEF SettleReceivable
<1>4. \A j \in Intents : /\ intent'[j].ptx = intent[j].ptx
                         /\ intent'[j].grp = intent[j].grp
                         /\ intent'[j].rec = intent[j].rec
  <2>1. intent' = [j \in Intents |->
               IF j = i THEN [intent[j] EXCEPT !.status = "PAID"]
               ELSE IF j \in OpenSiblings(i)
                    THEN [intent[j] EXCEPT !.status = "SUPERSEDED"]
                    ELSE intent[j]]
    BY <1>2 DEF SettleReceivable
  <2> QED
    BY <2>1 DEF IInv, TypeOK
<1>5. SharesKept
  BY <1>3 DEF SharesKept
<1>6. Lasting /\ LinkedPays' /\ Grouped'
  BY <1>3, <1>4, <1>5, RowsKept
<1>7. Pays(t, i) /\ \A r \in session[s].target : session[s].share[r] = amount[r]
  BY <1>1, <1>2 DEF Knows, OnTransaction
<1>8. session[s].target \subseteq Covers(i)
  <2>1. intent[i].grp = None /\ session[s].target = {intent[i].rec}
    BY <1>1, <1>2 DEF Fits
  <2>2. session[s].target \subseteq Receivables
    BY DEF IInv, TypeOK, RequestRecord
  <2> QED
    BY <2>1, <2>2 DEF Covers
<1>9. BookedIsCharged'
  BY <1>3, <1>6, <1>7, <1>8, NothingBookedCharges, BookingCharges DEF Pays
<1>10. Others(s) /\ Knows(s)'
  BY <1>3, FinishedKnows DEF IInv
<1> QED
  BY <1>6, <1>9, <1>10, StepKeepsCharges

LEMMA SettleGroupKeepsCharges ==
    ASSUME IInv, ChargeInv, NEW s \in Sessions, SettleGroup(s)
    PROVE  ChargeInv'
<1>1. session[s].pc = "settlingGroup" /\ Fits(s) /\ Knows(s)
  BY DEF SettleGroup, IInv, ChargeInv
<1>2. PICK i \in Intents, t \in Txs : i = session[s].int /\ t = session[s].ptx
  BY <1>1 DEF Fits, OnIntent, OnTransaction
<1>3. /\ Finish(s) /\ UNCHANGED <<amount, provider>> /\ revenue' = Booked(s, t)
      /\ intent' = [intent EXCEPT ![i].status = "PAID"]
  BY <1>2 DEF SettleGroup
<1>4. \A j \in Intents : /\ intent'[j].ptx = intent[j].ptx
                         /\ intent'[j].grp = intent[j].grp
                         /\ intent'[j].rec = intent[j].rec
  BY <1>3 DEF IInv, TypeOK
<1>5. SharesKept
  BY GroupStatusKeepsShares DEF SettleGroup, IInv
<1>6. Lasting /\ LinkedPays' /\ Grouped'
  BY <1>3, <1>4, <1>5, RowsKept
<1>7. Pays(t, i) /\ \A r \in session[s].target : session[s].share[r] = amount[r]
  BY <1>1, <1>2 DEF Knows, OnTransaction
<1>8. session[s].target \subseteq Covers(i)
  BY <1>1, <1>2 DEF Fits, OnGroup, Covers
<1>9. BookedIsCharged'
  BY <1>3, <1>6, <1>7, <1>8, BookingCharges DEF Pays
<1>10. Others(s) /\ Knows(s)'
  BY <1>3, FinishedKnows DEF IInv
<1> QED
  BY <1>6, <1>9, <1>10, StepKeepsCharges

\* A settlement by hand names no payment.
LEMMA PayKeepsCharges ==
    ASSUME IInv, ChargeInv, NEW s \in Sessions, PayReceivable(s) \/ PayReceivables(s)
    PROVE  ChargeInv'
<1>1. /\ UNCHANGED <<amount, intent, provider>> /\ Finish(s)
      /\ revenue' = Booked(s, Manual)
  BY DEF PayReceivable, PayReceivables
<1>2. SharesKept
  BY DEF PayReceivable, PayReceivables, UnusedGroup, SharesKept, IInv, TypeOK
<1>3. Lasting /\ LinkedPays' /\ Grouped'
  BY <1>1, <1>2, RowsKept
<1>4. BookedIsCharged'
  <2> SUFFICES ASSUME NEW r \in Receivables, NEW u \in Txs, revenue'[r] # None,
                      revenue'[r].source = u
               PROVE  revenue'[r].value \in {provider[u].share[r], Total(provider[u].share)}
    BY <1>1 DEF BookedIsCharged
  <2>1. r \notin session[s].target
    BY <1>1, ManualAssumption DEF Booked
  <2>2. revenue'[r] = revenue[r]
    BY <1>1, <2>1 DEF Booked
  <2> QED
    BY <2>2 DEF ChargeInv, BookedIsCharged
<1>5. Others(s) /\ Knows(s)'
  BY <1>1, FinishedKnows DEF IInv
<1> QED
  BY <1>3, <1>4, <1>5, StepKeepsCharges

(***************************************************************************)
(* The invariant.                                                          *)
(***************************************************************************)
LEMMA EnvironmentKeepsCharges ==
    ASSUME IInv, ChargeInv, Environment
    PROVE  ChargeInv'
<1>1. PICK t \in Txs, to \in ExternalStatus :
        /\ provider' = [provider EXCEPT ![t].status = to]
        /\ UNCHANGED <<amount, revenue, intent, group, session>>
  BY OutcomesAssumption
  DEF Environment, PayerPays, ProviderTurns, ProviderMoves, ExternalStatus
<1>2. to # "NONE"
  BY DEF ExternalStatus
<1>3. Lasting /\ LinkedPays' /\ Grouped' /\ BookedIsCharged'
  BY <1>1, <1>2, TransactionMoves
<1>4. \A q \in Sessions : Knows(q)'
  BY <1>1, <1>3, LastingKnows
<1> QED
  BY <1>3, <1>4 DEF ChargeInv

LEMMA InitEstablishesCharges == Init => ChargeInv
<1> SUFFICES ASSUME Init PROVE ChargeInv
  OBVIOUS
<1>1. LinkedPays /\ Grouped
  BY DEF Init, NoIntent, LinkedPays, Grouped
<1>2. BookedIsCharged
  BY DEF Init, BookedIsCharged
<1>3. \A s \in Sessions : Knows(s)
  BY DEF Init, Idle, Knows, OnTransaction
<1> QED
  BY <1>1, <1>2, <1>3 DEF ChargeInv

LEMMA RequestKeepsCharges ==
    ASSUME IInv, ChargeInv, NEW s \in Sessions, NEW kind \in Requests, Request(s, kind)
    PROVE  ChargeInv'
<1>1. ASSUME NEW R \in Selections,
             \/ kind = "createReceivablesPix" /\ ReserveGroupPix(s, R)
             \/ ReadPayment(s, R, TRUE)
      PROVE  ChargeInv'
  BY <1>1, ReserveGroupPixKeepsCharges, ReadsKeepCharges DEF Selections
<1>2. ASSUME NEW r \in Receivables,
             \/ ReadPayment(s, {r}, FALSE) \/ ReadCancellation(s, r)
             \/ kind = "updateReference" /\ ReadReprice(s, r)
      PROVE  ChargeInv'
  BY <1>2, ReadsKeepCharges
<1>3. ASSUME NEW r \in Receivables, NEW t \in Txs, kind = "reconcileReceivablePix",
             FetchReconciliation(s, r, t)
      PROVE  ChargeInv'
  BY <1>3, FetchReconciliationKeepsCharges
<1>4. CASE Webhook(s)
  BY <1>4, ProcessPaymentWebhookKeepsCharges DEF Webhook
<1> QED
  BY <1>1, <1>2, <1>3, <1>4, ReservePixKeepsCharges, InspectReplacementKeepsCharges,
     InspectGroupReplacementKeepsCharges, SyncPaymentIntentKeepsCharges,
     CancelPaymentIntentKeepsCharges
  DEF Request

LEMMA ServingKeepsCharges ==
    ASSUME IInv, ChargeInv, ChargesStand, NEW s \in Sessions, Step(s)
    PROVE  ChargeInv'
<1>1. ~RepriceReceivable(s)
  BY DEF RepriceReceivable, ChargeInv, Knows, ChargesStand
<1> QED
  BY <1>1, ProviderCreatePixKeepsCharges, EndingKeepsCharges, FinishPixKeepsCharges,
     RecoverReplacementKeepsCharges, CommitReplacementKeepsCharges,
     AdoptExistingKeepsCharges, AdoptReconciliationKeepsCharges, ReadIntentKeepsCharges,
     ApplyUnpaidStatusKeepsCharges, AcquireIntentKeepsCharges,
     SettleReceivableKeepsCharges, AcquireGroupKeepsCharges, SettleGroupKeepsCharges,
     PayKeepsCharges
  DEF Step

LEMMA NextKeepsCharges ==
    ASSUME IInv, ChargeInv, ChargesStand, [Next]_vars
    PROVE  ChargeInv'
<1>1. ASSUME NEW s \in Sessions, Abandon(s)
      PROVE  ChargeInv'
  BY <1>1, EndingKeepsCharges
<1>2. CASE UNCHANGED vars
  <2>1. UNCHANGED <<amount, revenue, intent, group, provider, session>>
    BY <1>2 DEF vars
  <2>2. SharesKept
    BY <2>1 DEF SharesKept
  <2>3. Lasting /\ LinkedPays' /\ Grouped' /\ BookedIsCharged'
    BY <2>1, <2>2, RowsKept, NothingBookedCharges
  <2>4. \A q \in Sessions : Knows(q)'
    BY <2>1, <2>3, LastingKnows
  <2> QED
    BY <2>3, <2>4 DEF ChargeInv
<1> QED
  BY <1>1, <1>2, EnvironmentKeepsCharges, RequestKeepsCharges, ServingKeepsCharges DEF Next

\* As long as no account changes its value, and reconciliations do not meet
\* reservations of groups, an account is booked from a payment with what the
\* payer was charged for it: no stale status, late answer, orphan or
\* replacement books another value.
THEOREM BookingsAreCharged == ChargesStand => (Spec => []BookedIsCharged)
<1> SUFFICES ASSUME ChargesStand PROVE Spec => []BookedIsCharged
  OBVIOUS
<1>1. Init => IInv /\ ChargeInv
  BY InitEstablishesInvariant, InitEstablishesCharges
<1>2. (IInv /\ ChargeInv) /\ [Next]_vars => (IInv /\ ChargeInv)'
  BY NextKeepsInvariant, NextKeepsCharges
<1>3. IInv /\ ChargeInv => BookedIsCharged
  BY DEF ChargeInv
<1> QED
  BY <1>1, <1>2, <1>3, PTL DEF Spec
==============================================================================
