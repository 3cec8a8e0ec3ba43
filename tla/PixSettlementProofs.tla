------------------------ MODULE PixSettlementProofs ------------------------
(***************************************************************************)
(* Proofs about PixSettlement, for every number of accounts, intents,      *)
(* groups, transactions and concurrent requests.                           *)
(***************************************************************************)
EXTENDS PixSettlement, TLAPS

tables == <<receivable, amount, revenue, intent, group, provider, webhookEvents>>

\* What no step takes back: a row in use keeps its identity, a booking is
\* final, and money received was received.
Stable ==
    /\ \A i \in Intents : intent[i].status # "NONE" =>
          /\ intent'[i].status # "NONE"
          /\ intent'[i].grp = intent[i].grp
          /\ intent[i].grp = None => intent'[i].rec = intent[i].rec
    /\ \A r \in Receivables : revenue[r] # None => revenue'[r] = revenue[r]
    /\ \A t \in Txs : provider[t].status \in {"paid", "refunded"} =>
          provider'[t].status \in {"paid", "refunded"}
    /\ \A g \in Groups : group[g].status # "NONE" =>
          group'[g].status # "NONE" /\ group'[g].share = group[g].share

Others(s) == \A q \in Sessions \ {s} : session'[q] = session[q]

(***************************************************************************)
(* The operators.                                                          *)
(***************************************************************************)
LEMMA Normalized ==
    ASSUME NEW external
    PROVE  /\ NormalizeStatus(external) \in ProviderStatus
           /\ NormalizeStatus(external) = "PAID" <=> external = "paid"
    BY DEF NormalizeStatus, ProviderStatus

LEMMA SharesOfAccounts ==
    ASSUME TypeOK, NEW R \in SUBSET Receivables
    PROVE  /\ ShareOf(R) \in Shares
           /\ \A r \in R : ShareOf(R)[r] \in Amounts
           /\ \A r \in Receivables \ R : ShareOf(R)[r] = 0
    BY DEF TypeOK, ShareOf, Shares

LEMMA IdleIsRequest == Idle \in RequestRecord
    BY DEF Idle, RequestRecord, NoShare, Shares, PcLabels, Bookings

(***************************************************************************)
(* A request that others leave alone keeps fitting the tables.             *)
(***************************************************************************)
LEMMA StableFits ==
    ASSUME IInv, Stable, NEW q \in Sessions, session'[q] = session[q]
    PROVE  Fits(q)'
<1> DEFINE c == session[q]
<1>1. c \in RequestRecord /\ Fits(q) /\ RowsLinked /\ TypeOK
  BY DEF IInv, TypeOK
<1>2. c.pc \in OnIntent =>
        /\ c.int \in Intents /\ intent'[c.int].status # "NONE"
        /\ intent'[c.int].grp = intent[c.int].grp
        /\ intent[c.int].grp = None => intent'[c.int].rec = intent[c.int].rec
  BY <1>1 DEF Fits, Stable
<1>3. c.pc = "settlingGroup" =>
        /\ c.grp \in Groups /\ group[c.grp].status # "NONE"
        /\ group'[c.grp].share = group[c.grp].share
  BY <1>1 DEF Fits, Stable, RowsLinked, RequestRecord, OnIntent, OnGroup
<1>4. c.pc = "settling" /\ c.booking # None => \A r \in c.target : revenue'[r] # None
  BY <1>1 DEF Fits, Stable, RequestRecord
<1>5. c.pc \in OnTransaction /\ c.seen = "PAID" =>
        provider'[c.ptx].status \in {"paid", "refunded"}
  BY <1>1 DEF Fits, Stable
<1> QED
  BY <1>1, <1>2, <1>3, <1>4, <1>5
  DEF Fits, OnIntent, OnGroup, OnTransaction, Items

LEMMA StepKeepsInvariant ==
    ASSUME IInv, NEW s \in Sessions, Others(s), Stable,
           TypeOK', RowsLinked', Fits(s)', Safe'
    PROVE  IInv'
<1>1. ASSUME NEW q \in Sessions PROVE Fits(q)'
  <2>1. CASE q = s
    BY <2>1
  <2>2. CASE q # s
    BY <2>2, StableFits DEF Others
  <2> QED
    BY <2>1, <2>2
<1> QED
  BY <1>1 DEF IInv

(***************************************************************************)
(* Steps that only move a request.                                         *)
(***************************************************************************)
LEMMA UnchangedTables ==
    ASSUME IInv, UNCHANGED tables
    PROVE  Stable /\ RowsLinked' /\ Safe'
<1>1. Stable
  BY DEF Stable, tables
<1>2. RowsLinked'
  BY DEF IInv, RowsLinked, tables
<1>3. Safe'
  BY DEF IInv, Safe, tables, PaidReceivableIsBooked, PaidIntentIsSettled,
         RevenueIsBacked, PaidGroupIsWhole, Covers, Items
<1> QED
  BY <1>1, <1>2, <1>3

LEMMA RequestMoves ==
    ASSUME IInv, NEW s \in Sessions, UNCHANGED tables, Others(s),
           session' \in [Sessions -> RequestRecord], Fits(s)'
    PROVE  IInv'
<1>1. TypeOK'
  BY DEF IInv, TypeOK, tables
<1> QED
  BY <1>1, UnchangedTables, StepKeepsInvariant

\* A request that has ended fits any tables.
LEMMA Finished ==
    ASSUME TypeOK, NEW s \in Sessions, Finish(s)
    PROVE  /\ Others(s) /\ Fits(s)'
           /\ session' \in [Sessions -> RequestRecord]
<1>1. session' = [session EXCEPT ![s] = Idle] /\ session'[s] = Idle
  BY DEF Finish, Continue, TypeOK
<1>2. Fits(s)'
  BY <1>1 DEF Fits, Idle, OnIntent, OnTransaction, OnGroup, Booking
<1> QED
  BY <1>1, <1>2, IdleIsRequest DEF TypeOK, Others

LEMMA FinishKeepsInvariant ==
    ASSUME IInv, NEW s \in Sessions, Finish(s), UNCHANGED tables
    PROVE  IInv'
BY Finished, RequestMoves DEF IInv

LEMMA ProviderRefusesPixKeeps ==
    ASSUME IInv, NEW s \in Sessions, ProviderRefusesPix(s)
    PROVE  IInv'
BY FinishKeepsInvariant DEF ProviderRefusesPix, tables

LEMMA InspectReplacementKeeps ==
    ASSUME IInv, NEW s \in Sessions, NEW r \in Receivables, NEW i \in Intents,
           InspectReplacement(s, r, i)
    PROVE  IInv'
<1> DEFINE q == [Idle EXCEPT !.pc = "replacing", !.target = {r},
                             !.share = ShareOf({r}), !.int = i]
<1>1. session' = [session EXCEPT ![s] = q] /\ UNCHANGED tables
  BY DEF InspectReplacement, Start, tables
<1>2. intent[i].status = "WAITING_PAYMENT" /\ intent[i].grp = None
  BY DEF InspectReplacement, CurrentPix, IsIndividual
<1>3. q \in RequestRecord
  BY SharesOfAccounts, IdleIsRequest DEF IInv, RequestRecord, Idle, PcLabels
<1>4. session'[s] = q /\ Others(s) /\ session' \in [Sessions -> RequestRecord]
  BY <1>1, <1>3 DEF IInv, TypeOK, Others
<1>5. Fits(s)'
  BY <1>1, <1>2, <1>4
  DEF Fits, Idle, tables, OnIntent, OnTransaction, OnGroup, Booking
<1> QED
  BY <1>1, <1>4, <1>5, RequestMoves

LEMMA InspectGroupReplacementKeeps ==
    ASSUME IInv, NEW s \in Sessions, NEW i \in Intents, InspectGroupReplacement(s, i)
    PROVE  IInv'
<1> DEFINE g == intent[i].grp
           q == [Idle EXCEPT !.pc = "replacing", !.target = Items(g),
                             !.share = ShareOf(Items(g)), !.int = i, !.grp = g]
<1>1. session' = [session EXCEPT ![s] = q] /\ UNCHANGED tables
  BY DEF InspectGroupReplacement, Start, tables
<1>2. intent[i].status = "WAITING_PAYMENT" /\ g \in Groups
  BY DEF InspectGroupReplacement, IInv, TypeOK
<1>3. q \in RequestRecord
  BY <1>2, SharesOfAccounts, IdleIsRequest
  DEF IInv, RequestRecord, Idle, PcLabels, Items
<1>4. session'[s] = q /\ Others(s) /\ session' \in [Sessions -> RequestRecord]
  BY <1>1, <1>3 DEF IInv, TypeOK, Others
<1>5. Fits(s)'
  BY <1>1, <1>2, <1>4
  DEF Fits, Idle, tables, OnIntent, OnTransaction, OnGroup, Booking
<1> QED
  BY <1>1, <1>4, <1>5, RequestMoves

LEMMA RecoverReplacementKeeps ==
    ASSUME IInv, NEW s \in Sessions, NEW t \in Txs, RecoverReplacement(s, t)
    PROVE  IInv'
<1> DEFINE st == NormalizeStatus(provider[t].status)
           q == [session[s] EXCEPT !.pc = "replacement", !.ptx = t, !.seen = st]
<1>1. session' = [session EXCEPT ![s] = q] /\ UNCHANGED tables
  BY DEF RecoverReplacement, Continue, tables
<1>2. session[s].pc = "replacing" /\ session[s] \in RequestRecord /\ Fits(s)
  BY DEF RecoverReplacement, IInv, TypeOK
<1>3. st \in ProviderStatus /\ (st = "PAID" <=> provider[t].status = "paid")
  BY Normalized
<1>4. q \in RequestRecord
  BY <1>2, <1>3 DEF RequestRecord, PcLabels
<1>5. session'[s] = q /\ Others(s) /\ session' \in [Sessions -> RequestRecord]
  BY <1>1, <1>4 DEF IInv, TypeOK, Others
<1>6. Fits(s)'
  BY <1>1, <1>2, <1>3, <1>5
  DEF Fits, tables, OnIntent, OnTransaction, OnGroup, Booking, RequestRecord
<1> QED
  BY <1>1, <1>5, <1>6, RequestMoves

LEMMA FetchReconciliationKeeps ==
    ASSUME IInv, NEW s \in Sessions, NEW r \in Receivables, NEW t \in Txs,
           FetchReconciliation(s, r, t)
    PROVE  IInv'
<1> DEFINE st == NormalizeStatus(provider[t].status)
           q == [Idle EXCEPT !.pc = "fetched", !.target = {r}, !.ptx = t, !.seen = st]
<1>1. session' = [session EXCEPT ![s] = q] /\ UNCHANGED tables
  BY DEF FetchReconciliation, Start, tables
<1>2. st \in ProviderStatus /\ (st = "PAID" <=> provider[t].status = "paid")
  BY Normalized
<1>3. q \in RequestRecord
  BY <1>2, IdleIsRequest DEF RequestRecord, Idle, PcLabels
<1>4. session'[s] = q /\ Others(s) /\ session' \in [Sessions -> RequestRecord]
  BY <1>1, <1>3 DEF IInv, TypeOK, Others
<1>5. Fits(s)'
  BY <1>1, <1>2, <1>4
  DEF Fits, Idle, tables, OnIntent, OnTransaction, OnGroup, Booking
<1> QED
  BY <1>1, <1>4, <1>5, RequestMoves

\* A status reported for a row in use starts applyProviderStatus.
LEMMA ReportedFits ==
    ASSUME IInv, NEW s \in Sessions, NEW i \in Intents, NEW t \in Txs,
           NEW st \in ProviderStatus,
           session' = [session EXCEPT ![s] = Reported(i, t, st)],
           intent'[i].status # "NONE",
           st = "PAID" => provider'[t].status \in {"paid", "refunded"}
    PROVE  Others(s) /\ Fits(s)' /\ session' \in [Sessions -> RequestRecord]
<1>1. Reported(i, t, st) \in RequestRecord
  BY IdleIsRequest DEF Reported, RequestRecord, Idle, PcLabels
<1>2. /\ session'[s] = Reported(i, t, st) /\ Others(s)
      /\ session' \in [Sessions -> RequestRecord]
  BY <1>1 DEF IInv, TypeOK, Others
<1>3. Fits(s)'
  BY <1>2 DEF Fits, Reported, Idle, OnIntent, OnTransaction, OnGroup, Booking
<1> QED
  BY <1>2, <1>3

LEMMA SyncPaymentIntentKeeps ==
    ASSUME IInv, NEW s \in Sessions, NEW i \in Intents, SyncPaymentIntent(s, i)
    PROVE  IInv'
<1> DEFINE t == intent[i].ptx
           st == NormalizeStatus(provider[t].status)
<1>1. session' = [session EXCEPT ![s] = Reported(i, t, st)] /\ UNCHANGED tables
  BY DEF SyncPaymentIntent, Start, tables
<1>2. t \in Txs
  BY DEF SyncPaymentIntent, IInv, TypeOK
<1>3. st \in ProviderStatus /\ (st = "PAID" <=> provider[t].status = "paid")
  BY Normalized
<1>4. intent'[i].status # "NONE" /\ provider' = provider
  BY <1>1, <1>2, NoneAssumption DEF tables, IInv, RowsLinked, NoIntent
<1>5. Others(s) /\ Fits(s)' /\ session' \in [Sessions -> RequestRecord]
  BY <1>1, <1>2, <1>3, <1>4, ReportedFits
<1> QED
  BY <1>1, <1>5, RequestMoves

\* ThenSettle reports the paid transaction of a row in use, or ends.
LEMMA ThenSettleFits ==
    ASSUME IInv, NEW s \in Sessions, NEW i \in Intents, NEW wasPaid,
           session[s].pc = "fetched", ThenSettle(s, i, wasPaid),
           intent'[i].status # "NONE", provider' = provider
    PROVE  Others(s) /\ Fits(s)' /\ session' \in [Sessions -> RequestRecord]
<1>1. CASE session[s].seen = "PAID" /\ ~wasPaid
  <2>1. session' = [session EXCEPT ![s] = Reported(i, session[s].ptx, "PAID")]
    BY <1>1 DEF ThenSettle, Continue
  <2>2. /\ session[s].ptx \in Txs
        /\ provider[session[s].ptx].status \in {"paid", "refunded"}
    BY <1>1 DEF IInv, Fits, OnTransaction
  <2>3. "PAID" \in ProviderStatus
    BY DEF ProviderStatus
  <2> QED
    BY <2>1, <2>2, <2>3, ReportedFits
<1>2. CASE ~(session[s].seen = "PAID" /\ ~wasPaid)
  BY <1>2, Finished DEF ThenSettle, IInv
<1> QED
  BY <1>1, <1>2

LEMMA AdoptExistingKeeps ==
    ASSUME IInv, NEW s \in Sessions, AdoptExisting(s)
    PROVE  IInv'
<1>1. session[s].pc = "fetched" /\ UNCHANGED tables
  BY DEF AdoptExisting, tables
<1>2. PICK i \in IntentsOf(session[s].ptx) : ThenSettle(s, i, intent[i].status = "PAID")
  BY DEF AdoptExisting
<1>3. i \in Intents /\ intent[i].ptx \in Txs
  BY <1>1, <1>2 DEF IntentsOf, IInv, Fits, OnTransaction
<1>4. intent'[i].status # "NONE" /\ provider' = provider
  BY <1>1, <1>3, NoneAssumption DEF tables, IInv, RowsLinked, NoIntent
<1>5. Others(s) /\ Fits(s)' /\ session' \in [Sessions -> RequestRecord]
  BY <1>1, <1>2, <1>3, <1>4, ThenSettleFits
<1> QED
  BY <1>1, <1>5, RequestMoves

LEMMA ReadIntentKeeps ==
    ASSUME IInv, NEW s \in Sessions, ReadIntent(s)
    PROVE  IInv'
<1> DEFINE i == session[s].int
           q == [session[s] EXCEPT !.pc = "read", !.grp = intent[i].grp,
                                   !.cur = intent[i].status]
<1>1. session[s].pc = "reported" /\ UNCHANGED tables
  BY DEF ReadIntent, tables
<1>2. session[s] \in RequestRecord /\ Fits(s) /\ i \in Intents
  BY <1>1 DEF IInv, TypeOK, Fits, OnIntent
<1>3. CASE session' = [session EXCEPT ![s] = q]
  <2>1. q \in RequestRecord
    BY <1>2 DEF IInv, TypeOK, RequestRecord, PcLabels
  <2>2. session'[s] = q /\ Others(s) /\ session' \in [Sessions -> RequestRecord]
    BY <1>3, <2>1 DEF IInv, TypeOK, Others
  <2>3. Fits(s)'
    BY <1>1, <1>2, <2>2
    DEF Fits, tables, OnIntent, OnTransaction, OnGroup, Booking, RequestRecord
  <2> QED
    BY <1>1, <2>2, <2>3, RequestMoves
<1>4. CASE Finish(s)
  BY <1>1, <1>4, FinishKeepsInvariant
<1> QED
  BY <1>3, <1>4 DEF ReadIntent, Continue

LEMMA AcquireIntentKeeps ==
    ASSUME IInv, NEW s \in Sessions, AcquireIntent(s)
    PROVE  IInv'
<1>1. /\ session[s].pc = "read" /\ session[s].seen = "PAID" /\ session[s].grp = None
      /\ UNCHANGED tables
  BY DEF AcquireIntent, tables
<1>2. session[s] \in RequestRecord /\ Fits(s) /\ session[s].int \in Intents
  BY <1>1 DEF IInv, TypeOK, Fits, OnIntent
<1>3. PICK i \in Intents, r \in Receivables :
        i = session[s].int /\ r = intent[i].rec /\ intent[i].grp = None
  BY <1>1, <1>2 DEF IInv, TypeOK, RowsLinked, Fits, OnIntent, OnGroup
<1>4. receivable[r] \in ReceivableStatus /\ revenue[r] \in Bookings
  BY <1>3 DEF IInv, TypeOK
<1> DEFINE q == [session[s] EXCEPT
                    !.pc = "settling", !.target = {r}, !.share = ShareOf({r}),
                    !.account = receivable[r], !.booking = revenue[r]]
<1>5. CASE session' = [session EXCEPT ![s] = q]
  <2>1. /\ ShareOf({r}) \in Shares /\ ShareOf({r})[r] \in Amounts
        /\ \A x \in Receivables \ {r} : ShareOf({r})[x] = 0
    BY <1>3, SharesOfAccounts DEF IInv
  <2>2. q \in RequestRecord
    <3>1. /\ "settling" \in PcLabels /\ {r} \in SUBSET Receivables
          /\ receivable[r] \in ReceivableStatus \cup {None}
      BY <1>4 DEF PcLabels
    <3> QED
      BY <1>2, <1>4, <2>1, <3>1 DEF RequestRecord
  <2>3. session'[s] = q /\ Others(s) /\ session' \in [Sessions -> RequestRecord]
    BY <1>5, <2>2 DEF IInv, TypeOK, Others
  <2>4. /\ q.pc = "settling" /\ q.target = {r} /\ q.share = ShareOf({r})
        /\ q.booking = revenue[r] /\ q.int = i /\ q.ptx = session[s].ptx
        /\ q.seen = "PAID"
    BY <1>1, <1>2, <1>3 DEF RequestRecord
  <2>5. /\ intent[i].status # "NONE" /\ q.ptx \in Txs /\ q.seen \in ProviderStatus
        /\ provider[q.ptx].status \in {"paid", "refunded"}
    BY <1>1, <1>2, <1>3, <2>4 DEF Fits, OnIntent, OnTransaction
  <2>6. Fits(s)'
    <3> HIDE DEF q
    <3> QED
      BY <1>1, <1>3, <2>1, <2>3, <2>4, <2>5
      DEF Fits, tables, OnIntent, OnTransaction, OnGroup, Booking
  <2> QED
    BY <1>1, <2>3, <2>6, RequestMoves
<1>6. CASE Finish(s)
  BY <1>1, <1>6, FinishKeepsInvariant
<1> QED
  BY <1>3, <1>4, <1>5, <1>6 DEF AcquireIntent, Continue

LEMMA AcquireGroupKeeps ==
    ASSUME IInv, NEW s \in Sessions, AcquireGroup(s)
    PROVE  IInv'
<1>1. /\ session[s].pc = "read" /\ session[s].seen = "PAID" /\ session[s].grp # None
      /\ UNCHANGED tables
  BY DEF AcquireGroup, tables
<1>2. session[s] \in RequestRecord /\ Fits(s) /\ session[s].int \in Intents
  BY <1>1 DEF IInv, TypeOK, Fits, OnIntent
<1>3. PICK g \in Groups : g = session[s].grp
  BY <1>1, <1>2 DEF RequestRecord
<1> DEFINE q == [session[s] EXCEPT !.pc = "settlingGroup", !.target = Items(g),
                                   !.share = ShareOf(Items(g))]
<1>4. CASE /\ session' = [session EXCEPT ![s] = q]
           /\ ShareOf(Items(g)) = group[g].share
  <2>1. Items(g) \in SUBSET Receivables
    BY DEF Items
  <2>2. /\ ShareOf(Items(g)) \in Shares
        /\ \A x \in Items(g) : ShareOf(Items(g))[x] \in Amounts
        /\ \A x \in Receivables \ Items(g) : ShareOf(Items(g))[x] = 0
    BY <2>1, SharesOfAccounts DEF IInv
  <2>3. q \in RequestRecord
    BY <1>2, <2>1, <2>2 DEF RequestRecord, PcLabels
  <2>4. session'[s] = q /\ Others(s) /\ session' \in [Sessions -> RequestRecord]
    BY <1>4, <2>3 DEF IInv, TypeOK, Others
  <2>5. Items(g)' = Items(g) /\ group' = group /\ intent' = intent /\ provider' = provider
    BY <1>1 DEF Items, tables
  <2>6. Fits(s)'
    BY <1>1, <1>2, <1>3, <1>4, <2>2, <2>4, <2>5
    DEF Fits, OnIntent, OnTransaction, OnGroup, Booking, RequestRecord, Items
  <2> QED
    BY <1>1, <2>4, <2>6, RequestMoves
<1>5. CASE Finish(s)
  BY <1>1, <1>5, FinishKeepsInvariant
<1> QED
  BY <1>3, <1>4, <1>5 DEF AcquireGroup, Continue, UnchangedItems

LEMMA ReadPaymentKeeps ==
    ASSUME IInv, NEW s \in Sessions, NEW R \in SUBSET Receivables, NEW grouped \in BOOLEAN,
           ReadPayment(s, R, grouped)
    PROVE  IInv'
<1> DEFINE pc == IF grouped THEN "payingGroup" ELSE "paying"
           q == [Idle EXCEPT !.pc = pc, !.target = R, !.share = ShareOf(R)]
<1>1. session' = [session EXCEPT ![s] = q] /\ UNCHANGED tables
  BY DEF ReadPayment, Start, tables
<1>2. /\ ShareOf(R) \in Shares
      /\ \A x \in R : ShareOf(R)[x] \in Amounts
      /\ \A x \in Receivables \ R : ShareOf(R)[x] = 0
  BY SharesOfAccounts DEF IInv
<1>3. q \in RequestRecord
  BY <1>2, IdleIsRequest DEF RequestRecord, Idle, PcLabels
<1>4. session'[s] = q /\ Others(s) /\ session' \in [Sessions -> RequestRecord]
  BY <1>1, <1>3 DEF IInv, TypeOK, Others
<1>5. Fits(s)'
  BY <1>2, <1>4
  DEF Fits, Idle, OnIntent, OnTransaction, OnGroup, Booking
<1> QED
  BY <1>1, <1>4, <1>5, RequestMoves

\* A request to cancel or to change the value of an account remembers only
\* which one.
LEMMA TargetOnlyKeeps ==
    ASSUME IInv, NEW s \in Sessions, NEW r \in Receivables,
           ReadCancellation(s, r) \/ ReadReprice(s, r)
    PROVE  IInv'
<1>1. PICK pc \in {"canceling", "repricing"} :
        session' = [session EXCEPT ![s] = [Idle EXCEPT !.pc = pc, !.target = {r}]]
  BY DEF ReadCancellation, ReadReprice, Start
<1> DEFINE q == [Idle EXCEPT !.pc = pc, !.target = {r}]
<1>2. UNCHANGED tables
  BY DEF ReadCancellation, ReadReprice, tables
<1>3. q \in RequestRecord
  BY IdleIsRequest DEF RequestRecord, Idle, PcLabels
<1>4. session'[s] = q /\ Others(s) /\ session' \in [Sessions -> RequestRecord]
  BY <1>1, <1>3 DEF IInv, TypeOK, Others
<1>5. Fits(s)'
  BY <1>4 DEF Fits, Idle, OnIntent, OnTransaction, OnGroup, Booking
<1> QED
  BY <1>2, <1>4, <1>5, RequestMoves

\* Requests that end without an effect.
LEMMA EndingKeeps ==
    ASSUME IInv, NEW s \in Sessions,
           \/ RefuseReconciliation(s) \/ UniqueViolation(s)
           \/ DeadlockVictim(s) \/ Abandon(s)
    PROVE  IInv'
BY FinishKeepsInvariant
DEF RefuseReconciliation, UniqueViolation, DeadlockVictim, Abandon, tables

(***************************************************************************)
(* Steps that write rows but book nothing.                                 *)
(***************************************************************************)
LEMMA NothingBooked ==
    ASSUME IInv, Stable, UNCHANGED <<receivable, revenue>>,
           \A i \in Intents : intent'[i].status = "PAID" => intent'[i] = intent[i],
           \A g \in Groups : group'[g].status = "PAID" => group'[g] = group[g]
    PROVE  Safe'
<1>1. PaidReceivableIsBooked'
  BY DEF IInv, Safe, PaidReceivableIsBooked
<1>2. PaidIntentIsSettled'
  <2> SUFFICES ASSUME NEW i \in Intents, intent'[i].status = "PAID",
                      NEW r \in Covers(i)'
               PROVE  revenue[r] # None
    BY DEF PaidIntentIsSettled
  <2>1. intent'[i] = intent[i] /\ intent[i].status = "PAID"
    OBVIOUS
  <2>2. intent[i].grp # None =>
          intent[i].grp \in Groups /\ group'[intent[i].grp].share = group[intent[i].grp].share
    BY DEF IInv, TypeOK, RowsLinked, Stable
  <2>3. r \in Covers(i)
    BY <2>1, <2>2 DEF Covers, Items
  <2> QED
    BY <2>1, <2>3 DEF IInv, Safe, PaidIntentIsSettled
<1>3. RevenueIsBacked'
  BY DEF IInv, Safe, RevenueIsBacked, Stable
<1>4. PaidGroupIsWhole'
  <2> SUFFICES ASSUME NEW g \in Groups, group'[g].status = "PAID"
               PROVE  \E from \in Txs \cup {Manual} : \A r \in Items(g)' :
                        revenue'[r] = [source |-> from, value |-> group'[g].share[r]]
    BY DEF PaidGroupIsWhole
  <2>1. group'[g] = group[g] /\ Items(g)' = Items(g) /\ revenue' = revenue
    BY DEF Items
  <2> QED
    BY <2>1 DEF IInv, Safe, PaidGroupIsWhole
<1> QED
  BY <1>1, <1>2, <1>3, <1>4 DEF Safe

LEMMA RowsStayLinked ==
    ASSUME IInv, Stable,
           \A i \in Intents : \/ intent'[i] = intent[i]
                             \/ /\ intent'[i].status # "NONE"
                                /\ intent'[i].grp = None => intent'[i].rec # None
                                /\ intent'[i].grp # None => group'[intent'[i].grp].status # "NONE"
    PROVE  RowsLinked'
<1> SUFFICES ASSUME NEW i \in Intents, intent'[i] = intent[i]
             PROVE  intent[i].grp # None => group'[intent[i].grp].status # "NONE"
  BY DEF IInv, RowsLinked
<1> QED
  BY DEF IInv, TypeOK, RowsLinked, Stable

\* Giving a group the status of an unpaid intent leaves its items alone.
LEMMA GroupFollows ==
    ASSUME TypeOK, NEW g \in Groups \cup {None}, NEW st \in ProviderStatus \ {"PAID"},
           group' = IF g = None THEN group
                    ELSE [group EXCEPT ![g].status = GroupStatusFromIntent(st)]
    PROVE  /\ group' \in [Groups -> [status : IntentStatus \cup {"NONE"}, share : Shares]]
           /\ \A h \in Groups : /\ group'[h].share = group[h].share
                                /\ \/ group'[h] = group[h]
                                   \/ group'[h].status \in IntentStatus \ {"PAID", "NONE"}
<1> DEFINE new == GroupStatusFromIntent(st)
<1>1. new \in IntentStatus \ {"PAID", "NONE"}
  BY DEF GroupStatusFromIntent, ProviderStatus, IntentStatus
<1>2. CASE g = None
  BY <1>2 DEF TypeOK
<1>3. CASE g # None
  <2> HIDE DEF new
  <2>1. group' = [group EXCEPT ![g].status = new]
    BY <1>3 DEF new
  <2> QED
    BY <1>1, <2>1 DEF TypeOK
<1> QED
  BY <1>2, <1>3

LEMMA ReservePixKeeps ==
    ASSUME IInv, NEW s \in Sessions, NEW r \in Receivables, ReservePix(s, r)
    PROVE  IInv'
<1>1. PICK i \in Intents :
        /\ UnusedIntent(i)
        /\ intent' = [intent EXCEPT ![i] = [NoIntent EXCEPT !.status = "CREATED", !.rec = r]]
        /\ Start(s, [Idle EXCEPT !.pc = "reserved", !.target = {r},
                                 !.share = ShareOf({r}), !.int = i])
  BY DEF ReservePix
<1> DEFINE q == [Idle EXCEPT !.pc = "reserved", !.target = {r},
                             !.share = ShareOf({r}), !.int = i]
           row == [NoIntent EXCEPT !.status = "CREATED", !.rec = r]
<1>2. UNCHANGED <<receivable, amount, revenue, group, provider, webhookEvents>>
  BY DEF ReservePix
<1>3. /\ intent'[i] = row /\ row.status = "CREATED" /\ row.rec = r /\ row.grp = None
      /\ row.ptx = None /\ \A j \in Intents \ {i} : intent'[j] = intent[j]
  BY <1>1 DEF IInv, TypeOK, NoIntent
<1>4. q \in RequestRecord
  BY SharesOfAccounts, IdleIsRequest DEF IInv, RequestRecord, Idle, PcLabels
<1>5. session'[s] = q /\ Others(s) /\ session' \in [Sessions -> RequestRecord]
  BY <1>1, <1>4 DEF IInv, TypeOK, Others, Start
<1>6. TypeOK'
  BY <1>1, <1>2, <1>5 DEF IInv, TypeOK, NoIntent, IntentStatus
<1>7. Stable
  BY <1>1, <1>2, <1>3 DEF Stable, UnusedIntent
<1>8. RowsLinked'
  BY <1>2, <1>3, NoneAssumption DEF IInv, RowsLinked
<1>9. Fits(s)'
  BY <1>3, <1>5 DEF Fits, Idle, OnIntent, OnTransaction, OnGroup, Booking
<1>10. Safe'
  BY <1>2, <1>3, <1>7, NothingBooked
<1> QED
  BY <1>5, <1>6, <1>7, <1>8, <1>9, <1>10, StepKeepsInvariant

LEMMA ReserveGroupPixKeeps ==
    ASSUME IInv, NEW s \in Sessions, NEW R \in SUBSET Receivables, ReserveGroupPix(s, R)
    PROVE  IInv'
<1>1. PICK i \in Intents, g \in Groups :
        /\ UnusedIntent(i) /\ UnusedGroup(g)
        /\ intent' = [intent EXCEPT ![i] = [NoIntent EXCEPT !.status = "CREATED", !.grp = g]]
        /\ group' = [group EXCEPT ![g] = [status |-> "CREATED", share |-> ShareOf(R)]]
        /\ Start(s, [Idle EXCEPT !.pc = "reserved", !.target = R,
                                 !.share = ShareOf(R), !.int = i, !.grp = g])
  BY DEF ReserveGroupPix
<1> DEFINE q == [Idle EXCEPT !.pc = "reserved", !.target = R,
                             !.share = ShareOf(R), !.int = i, !.grp = g]
           row == [NoIntent EXCEPT !.status = "CREATED", !.grp = g]
<1>2. UNCHANGED <<receivable, amount, revenue, provider, webhookEvents>>
  BY DEF ReserveGroupPix
<1>3. /\ intent'[i] = row /\ row.status = "CREATED" /\ row.rec = None /\ row.grp = g
      /\ row.ptx = None /\ \A j \in Intents \ {i} : intent'[j] = intent[j]
  BY <1>1 DEF IInv, TypeOK, NoIntent
<1>4. /\ group'[g].status = "CREATED" /\ group[g].status = "NONE"
      /\ \A h \in Groups \ {g} : group'[h] = group[h]
  BY <1>1 DEF IInv, TypeOK, UnusedGroup
<1>5. ShareOf(R) \in Shares
  BY SharesOfAccounts DEF IInv
<1>6. q \in RequestRecord
  BY <1>5, IdleIsRequest DEF RequestRecord, Idle, PcLabels
<1>7. session'[s] = q /\ Others(s) /\ session' \in [Sessions -> RequestRecord]
  BY <1>1, <1>6 DEF IInv, TypeOK, Others, Start
<1>8. TypeOK'
  BY <1>1, <1>2, <1>5, <1>7 DEF IInv, TypeOK, NoIntent, IntentStatus
<1>9. Stable
  BY <1>1, <1>2, <1>3, <1>4 DEF Stable, UnusedIntent
<1>10. RowsLinked'
  <2>1. /\ intent'[i].status = "CREATED" /\ intent'[i].grp = g /\ g # None
        /\ group'[g].status # "NONE"
    BY <1>3, <1>4, NoneAssumption
  <2> QED
    BY <1>3, <1>9, <2>1, RowsStayLinked
<1>11. Fits(s)'
  BY <1>3, <1>7 DEF Fits, Idle, OnIntent, OnTransaction, OnGroup, Booking
<1>12. Safe'
  BY <1>2, <1>3, <1>4, <1>9, NothingBooked
<1> QED
  BY <1>7, <1>8, <1>9, <1>10, <1>11, <1>12, StepKeepsInvariant

LEMMA ProviderCreatePixKeeps ==
    ASSUME IInv, NEW s \in Sessions, ProviderCreatePix(s)
    PROVE  IInv'
<1>1. PICK t \in Txs :
        /\ provider[t].status = "NONE"
        /\ provider' = [provider EXCEPT ![t] =
               [status |-> "pending", share |-> session[s].share]]
        /\ Continue(s, [session[s] EXCEPT
               !.pc = IF session[s].pc = "reserved" THEN "created" ELSE "replacement",
               !.ptx = t, !.seen = "WAITING_PAYMENT"])
  BY DEF ProviderCreatePix
<1>2. /\ session[s].pc \in {"reserved", "replacing"}
      /\ UNCHANGED <<receivable, amount, revenue, intent, group, webhookEvents>>
  BY DEF ProviderCreatePix
<1>3. session[s] \in RequestRecord /\ Fits(s)
  BY DEF IInv, TypeOK
<1>4. PICK pc \in {"created", "replacement"} :
        session' = [session EXCEPT ![s] = [session[s] EXCEPT
                       !.pc = pc, !.ptx = t, !.seen = "WAITING_PAYMENT"]]
  BY <1>1 DEF Continue
<1> DEFINE q == [session[s] EXCEPT !.pc = pc, !.ptx = t, !.seen = "WAITING_PAYMENT"]
<1>5. q \in RequestRecord
  BY <1>3 DEF RequestRecord, PcLabels, ProviderStatus
<1>6. session'[s] = q /\ Others(s) /\ session' \in [Sessions -> RequestRecord]
  BY <1>4, <1>5 DEF IInv, TypeOK, Others
<1>7. TypeOK'
  BY <1>1, <1>2, <1>3, <1>6 DEF IInv, TypeOK, RequestRecord, ExternalStatus
<1>8. Stable
  BY <1>1, <1>2 DEF Stable, IInv, TypeOK
<1>9. RowsLinked'
  BY <1>2 DEF IInv, RowsLinked
<1>10. Fits(s)'
  BY <1>2, <1>3, <1>6
  DEF Fits, OnIntent, OnTransaction, OnGroup, Booking, RequestRecord, ProviderStatus
<1>11. Safe'
  BY <1>2, <1>8, NothingBooked
<1> QED
  BY <1>6, <1>7, <1>8, <1>9, <1>10, <1>11, StepKeepsInvariant

\* Steps that give an intent another row, keeping what identifies it.
LEMMA FinishPixKeeps ==
    ASSUME IInv, NEW s \in Sessions, FinishPix(s)
    PROVE  IInv'
<1>1. session[s].pc = "created" /\ session[s] \in RequestRecord /\ Fits(s)
  BY DEF FinishPix, IInv, TypeOK
<1>2. PICK i \in Intents, t \in Txs :
        /\ i = session[s].int /\ t = session[s].ptx
        /\ intent[i].status # "NONE" /\ session[s].grp = intent[i].grp
  BY <1>1 DEF Fits, OnIntent, OnTransaction, OnGroup
<1> DEFINE row == [intent[i] EXCEPT !.status = "WAITING_PAYMENT", !.ptx = t]
<1>3. /\ intent' = [intent EXCEPT ![i] = row] /\ Finish(s)
      /\ UNCHANGED <<receivable, amount, revenue, provider, webhookEvents>>
  BY <1>2 DEF FinishPix
<1>4. /\ row \in [status : IntentStatus \cup {"NONE"}, rec : Receivables \cup {None},
                   grp : Groups \cup {None}, ptx : Txs \cup {None}]
      /\ row.status = "WAITING_PAYMENT" /\ row.grp = intent[i].grp
      /\ row.rec = intent[i].rec
  BY DEF IInv, TypeOK, IntentStatus, ProviderStatus
<1>5. intent'[i] = row /\ \A j \in Intents \ {i} : intent'[j] = intent[j]
  BY <1>3 DEF IInv, TypeOK
<1>6. /\ group' \in [Groups -> [status : IntentStatus \cup {"NONE"}, share : Shares]]
      /\ \A g \in Groups : /\ group'[g].share = group[g].share
                           /\ \/ group'[g] = group[g]
                              \/ group'[g].status \in IntentStatus \ {"PAID", "NONE"}
  <2>1. group' = IF session[s].grp = None THEN group
                 ELSE [group EXCEPT ![session[s].grp].status =
                          GroupStatusFromIntent("WAITING_PAYMENT")]
    BY DEF FinishPix
  <2>2. session[s].grp \in Groups \cup {None}
    BY <1>1 DEF RequestRecord
  <2>3. "WAITING_PAYMENT" \in ProviderStatus \ {"PAID"}
    BY DEF ProviderStatus
  <2> QED
    BY <2>1, <2>2, <2>3, GroupFollows DEF IInv
<1>7. Others(s) /\ Fits(s)' /\ session' \in [Sessions -> RequestRecord]
  BY <1>3, Finished DEF IInv
<1>8. TypeOK'
  BY <1>3, <1>4, <1>6, <1>7 DEF IInv, TypeOK
<1>9. Stable
  BY <1>2, <1>3, <1>4, <1>5, <1>6 DEF Stable
<1>10. RowsLinked'
  <2>1. intent'[i].grp = None => intent'[i].rec # None
    BY <1>2, <1>4, <1>5 DEF IInv, RowsLinked
  <2>2. intent'[i].grp # None => group'[intent'[i].grp].status # "NONE"
    BY <1>2, <1>4, <1>5, <1>9 DEF IInv, RowsLinked, TypeOK, Stable
  <2> QED
    BY <1>4, <1>5, <1>9, <2>1, <2>2, RowsStayLinked
<1>11. Safe'
  BY <1>3, <1>4, <1>5, <1>6, <1>9, NothingBooked
<1> QED
  BY <1>7, <1>8, <1>9, <1>10, <1>11, StepKeepsInvariant

IntentRow == [status : IntentStatus \cup {"NONE"}, rec : Receivables \cup {None},
              grp : Groups \cup {None}, ptx : Txs \cup {None}]

LEMMA CommitReplacementKeeps ==
    ASSUME IInv, NEW s \in Sessions, CommitReplacement(s)
    PROVE  IInv'
<1>1. session[s].pc = "replacement" /\ session[s] \in RequestRecord /\ Fits(s)
  BY DEF CommitReplacement, IInv, TypeOK
<1>2. PICK i \in Intents, t \in Txs :
        /\ i = session[s].int /\ t = session[s].ptx
        /\ intent[i].status # "NONE" /\ session[s].grp = intent[i].grp
  BY <1>1 DEF Fits, OnIntent, OnTransaction, OnGroup
<1> DEFINE old == [intent[i] EXCEPT !.status = "SUPERSEDED"]
           new == [status |-> "WAITING_PAYMENT", rec |-> intent[i].rec,
                   grp |-> intent[i].grp, ptx |-> t]
<1>3. PICK j \in Intents :
        /\ intent[j].status = "NONE"
        /\ intent' = [intent EXCEPT ![i] = old, ![j] = new]
        /\ IF session[s].seen = "PAID" THEN Continue(s, Reported(j, t, "PAID")) ELSE Finish(s)
  BY <1>2 DEF CommitReplacement, UnusedIntent
<1>4. UNCHANGED <<receivable, amount, revenue, group, provider, webhookEvents>>
  BY DEF CommitReplacement
<1>5. old \in IntentRow /\ new \in IntentRow
  BY DEF IInv, TypeOK, IntentStatus, IntentRow, ProviderStatus
<1>6. /\ old.status = "SUPERSEDED" /\ old.grp = intent[i].grp /\ old.rec = intent[i].rec
      /\ new.status = "WAITING_PAYMENT" /\ new.grp = intent[i].grp /\ new.rec = intent[i].rec
  BY DEF IInv, TypeOK
<1> HIDE DEF old, new
<1>7. /\ intent'[i] = old /\ intent'[j] = new /\ i # j
      /\ \A k \in Intents \ {i, j} : intent'[k] = intent[k]
  BY <1>2, <1>3 DEF IInv, TypeOK
<1>8. Others(s) /\ Fits(s)' /\ session' \in [Sessions -> RequestRecord]
  <2>1. CASE session[s].seen = "PAID"
    <3>1. provider'[t].status \in {"paid", "refunded"} /\ "PAID" \in ProviderStatus
      BY <1>1, <1>2, <1>4, <2>1 DEF Fits, OnTransaction, ProviderStatus
    <3>2. session' = [session EXCEPT ![s] = Reported(j, t, "PAID")]
      BY <1>3, <2>1 DEF Continue
    <3>3. intent'[j].status # "NONE"
      BY <1>6, <1>7
    <3> QED
      BY <3>1, <3>2, <3>3, ReportedFits
  <2>2. CASE session[s].seen # "PAID"
    BY <1>3, <2>2, Finished DEF IInv
  <2> QED
    BY <2>1, <2>2
<1>9. TypeOK'
  BY <1>3, <1>4, <1>5, <1>8 DEF IInv, TypeOK, IntentRow
<1>10. Stable
  BY <1>2, <1>3, <1>4, <1>6, <1>7 DEF Stable
<1>11. RowsLinked'
  <2>1. /\ intent[i].grp = None => intent[i].rec # None
        /\ intent[i].grp # None => group'[intent[i].grp].status # "NONE"
    BY <1>2, <1>4 DEF IInv, RowsLinked
  <2> QED
    BY <1>6, <1>7, <1>10, <2>1, RowsStayLinked
<1>12. Safe'
  BY <1>4, <1>6, <1>7, <1>10, NothingBooked
<1> QED
  BY <1>8, <1>9, <1>10, <1>11, <1>12, StepKeepsInvariant

\* A reservation keeps its group when it is taken over, and its account too.
LEMMA AdoptReconciliationKeeps ==
    ASSUME IInv, NEW s \in Sessions, AdoptReconciliation(s)
    PROVE  IInv'
<1>1. session[s].pc = "fetched" /\ session[s] \in RequestRecord /\ Fits(s)
  BY DEF AdoptReconciliation, IInv, TypeOK
<1>2. PICK r \in session[s].target, i \in Intents :
        /\ CanAdopt(s, r, i)
        /\ intent' = [intent EXCEPT ![i] = AdoptedRow(s, r, i)]
        /\ ThenSettle(s, i, FALSE)
  BY DEF AdoptReconciliation
<1>3. UNCHANGED <<receivable, amount, revenue, group, provider, webhookEvents>>
  BY DEF AdoptReconciliation
<1>4. r \in Receivables /\ session[s].ptx \in Txs /\ session[s].seen \in ProviderStatus
  BY <1>1 DEF RequestRecord, Fits, OnTransaction
<1> DEFINE st == IF session[s].seen = "PAID" THEN "WAITING_PAYMENT" ELSE session[s].seen
           row == AdoptedRow(s, r, i)
<1>5. st \in IntentStatus \ {"PAID", "NONE"}
  BY <1>4 DEF ProviderStatus, IntentStatus
<1>6. /\ row \in IntentRow /\ row.status = st /\ row.rec = r
      /\ row.grp = intent[i].grp
  <2>1. row = [intent[i] EXCEPT !.status = st, !.rec = r, !.ptx = session[s].ptx]
    BY DEF AdoptedRow
  <2> HIDE DEF st, row
  <2> QED
    BY <1>4, <1>5, <2>1 DEF IInv, TypeOK, IntentRow
<1>7. intent[i].status = "NONE" \/ (intent[i].status = "CREATED" /\ i \in ActivePix({r}))
  BY <1>2 DEF CanAdopt, UnusedIntent
<1>8. intent[i].status # "NONE" /\ intent[i].grp = None => intent[i].rec = r
  BY <1>4, <1>7 DEF ActivePix
<1> HIDE DEF row, st
<1>9. intent' = [intent EXCEPT ![i] = row]
  BY <1>2 DEF row
<1>10. intent'[i] = row /\ \A k \in Intents \ {i} : intent'[k] = intent[k]
  BY <1>9 DEF IInv, TypeOK
<1>11. Others(s) /\ Fits(s)' /\ session' \in [Sessions -> RequestRecord]
  BY <1>1, <1>2, <1>3, <1>5, <1>6, <1>10, ThenSettleFits
<1>12. TypeOK'
  BY <1>3, <1>6, <1>9, <1>11 DEF IInv, TypeOK, IntentRow
<1>13. Stable
  BY <1>3, <1>5, <1>6, <1>8, <1>10 DEF Stable
<1>14. RowsLinked'
  <2>1. row.grp # None => group'[row.grp].status # "NONE"
    BY <1>3, <1>6 DEF IInv, RowsLinked
  <2>2. row.status # "NONE" /\ row.rec # None
    BY <1>4, <1>5, <1>6, NoneAssumption
  <2> QED
    BY <1>10, <1>13, <2>1, <2>2, RowsStayLinked
<1>15. Safe'
  BY <1>3, <1>5, <1>6, <1>10, <1>13, NothingBooked
<1> QED
  BY <1>11, <1>12, <1>13, <1>14, <1>15, StepKeepsInvariant

LEMMA CancelPaymentIntentKeeps ==
    ASSUME IInv, NEW s \in Sessions, NEW i \in Intents, CancelPaymentIntent(s, i)
    PROVE  IInv'
<1>1. PICK t \in Txs : t = intent[i].ptx
  BY DEF CancelPaymentIntent, IInv, TypeOK
<1>2. /\ provider[t].status = "pending"
      /\ provider' = [provider EXCEPT ![t].status = "cancelled"]
      /\ session' = [session EXCEPT ![s] = Reported(i, t, "CANCELED")]
      /\ UNCHANGED <<receivable, amount, revenue, intent, group, webhookEvents>>
  BY <1>1 DEF CancelPaymentIntent, Start
<1>3. intent'[i].status # "NONE"
  BY <1>1, <1>2, NoneAssumption DEF IInv, RowsLinked, NoIntent
<1>4. Others(s) /\ Fits(s)' /\ session' \in [Sessions -> RequestRecord]
  <2>1. "CANCELED" \in ProviderStatus
    BY DEF ProviderStatus
  <2> QED
    BY <1>2, <1>3, <2>1, ReportedFits
<1>5. TypeOK'
  BY <1>2, <1>4 DEF IInv, TypeOK, ExternalStatus
<1>6. Stable
  BY <1>2 DEF Stable, IInv, TypeOK
<1>7. RowsLinked'
  BY <1>2, <1>6, RowsStayLinked
<1>8. Safe'
  BY <1>2, <1>6, NothingBooked
<1> QED
  BY <1>4, <1>5, <1>6, <1>7, <1>8, StepKeepsInvariant

LEMMA ProcessPaymentWebhookKeeps ==
    ASSUME IInv, NEW s \in Sessions, NEW i \in Intents, NEW external \in ExternalStatus,
           ProcessPaymentWebhook(s, i, external)
    PROVE  IInv'
<1>1. PICK t \in Txs : t = intent[i].ptx
  BY DEF ProcessPaymentWebhook, IInv, TypeOK
<1> DEFINE st == NormalizeStatus(external)
<1>2. /\ external \in Notified(t)
      /\ webhookEvents' = webhookEvents \cup {<<t, external>>}
      /\ session' = [session EXCEPT ![s] = Reported(i, t, st)]
      /\ UNCHANGED <<receivable, amount, revenue, intent, group, provider>>
  BY <1>1 DEF ProcessPaymentWebhook, Start
<1>3. st \in ProviderStatus /\ (st = "PAID" <=> external = "paid")
  BY Normalized
<1>4. intent'[i].status # "NONE"
  BY <1>1, <1>2, NoneAssumption DEF IInv, RowsLinked, NoIntent
<1>5. external = "paid" => provider'[t].status \in {"paid", "refunded"}
  <2>1. CASE provider[t].status = "NONE"
    BY <1>2, <2>1 DEF Notified
  <2>2. CASE provider[t].status \in {"cancelled", "failed"}
    BY <1>2, <2>2 DEF Notified
  <2>3. CASE provider[t].status = "refunded"
    BY <1>2, <2>3
  <2>4. CASE provider[t].status \notin {"NONE", "cancelled", "failed", "refunded"}
    <3>1. Notified(t) = {"pending", provider[t].status}
      BY <2>4 DEF Notified
    <3> QED
      BY <1>2, <3>1
  <2> QED
    BY <2>1, <2>2, <2>3, <2>4
<1>6. Others(s) /\ Fits(s)' /\ session' \in [Sessions -> RequestRecord]
  BY <1>2, <1>3, <1>4, <1>5, ReportedFits
<1>7. TypeOK'
  BY <1>2, <1>6 DEF IInv, TypeOK
<1>8. Stable
  BY <1>2 DEF Stable
<1>9. RowsLinked'
  BY <1>2, <1>8, RowsStayLinked
<1>10. Safe'
  BY <1>2, <1>8, NothingBooked
<1> QED
  BY <1>6, <1>7, <1>8, <1>9, <1>10, StepKeepsInvariant

LEMMA ApplyUnpaidStatusKeeps ==
    ASSUME IInv, NEW s \in Sessions, ApplyUnpaidStatus(s)
    PROVE  IInv'
<1>1. /\ session[s].pc = "read" /\ session[s].seen # "PAID"
      /\ session[s] \in RequestRecord /\ Fits(s)
  BY DEF ApplyUnpaidStatus, IInv, TypeOK
<1>2. PICK i \in Intents, st \in ProviderStatus \ {"PAID"} :
        /\ i = session[s].int /\ st = session[s].seen
        /\ intent[i].status # "NONE" /\ session[s].grp = intent[i].grp
  BY <1>1 DEF Fits, OnIntent, OnTransaction, OnGroup
<1> DEFINE row == UnpaidRow(s)
<1>3. /\ row \in IntentRow /\ row.status \in IntentStatus \ {"PAID", "NONE"}
      /\ row.rec = intent[i].rec /\ row.grp = intent[i].grp
  <2> DEFINE next == IF session[s].cur = "SUPERSEDED" /\ session[s].seen \in ActivePixStatuses
                     THEN "SUPERSEDED" ELSE session[s].seen
  <2>1. next \in IntentStatus \ {"PAID", "NONE"}
    BY <1>2 DEF IntentStatus, ProviderStatus
  <2>2. row = [intent[i] EXCEPT !.status = next]
    BY <1>2 DEF UnpaidRow
  <2> HIDE DEF next, row
  <2> QED
    BY <2>1, <2>2 DEF IInv, TypeOK, IntentRow
<1>4. /\ intent' = [intent EXCEPT ![i] = row] /\ Finish(s)
      /\ UNCHANGED <<receivable, amount, revenue, provider, webhookEvents>>
  BY <1>2 DEF ApplyUnpaidStatus
<1> HIDE DEF row
<1>5. intent'[i] = row /\ \A j \in Intents \ {i} : intent'[j] = intent[j]
  BY <1>4 DEF IInv, TypeOK
<1>6. /\ group' \in [Groups -> [status : IntentStatus \cup {"NONE"}, share : Shares]]
      /\ \A g \in Groups : /\ group'[g].share = group[g].share
                           /\ \/ group'[g] = group[g]
                              \/ group'[g].status \in IntentStatus \ {"PAID", "NONE"}
  <2>1. group' = IF session[s].grp = None THEN group
                 ELSE [group EXCEPT ![session[s].grp].status = GroupStatusFromIntent(st)]
    BY <1>2 DEF ApplyUnpaidStatus
  <2>2. session[s].grp \in Groups \cup {None}
    BY <1>1 DEF RequestRecord
  <2> QED
    BY <2>1, <2>2, GroupFollows DEF IInv
<1>7. Others(s) /\ Fits(s)' /\ session' \in [Sessions -> RequestRecord]
  BY <1>4, Finished DEF IInv
<1>8. TypeOK'
  BY <1>3, <1>4, <1>6, <1>7 DEF IInv, TypeOK, IntentRow
<1>9. Stable
  BY <1>2, <1>3, <1>4, <1>5, <1>6 DEF Stable
<1>10. RowsLinked'
  <2>1. intent'[i].grp = None => intent'[i].rec # None
    BY <1>2, <1>3, <1>5 DEF IInv, RowsLinked
  <2>2. intent'[i].grp # None => group'[intent'[i].grp].status # "NONE"
    BY <1>2, <1>3, <1>5, <1>9 DEF IInv, RowsLinked, TypeOK, Stable
  <2>3. intent'[i].status # "NONE"
    BY <1>3, <1>5
  <2> QED
    BY <1>5, <1>9, <2>1, <2>2, <2>3, RowsStayLinked
<1>11. Safe'
  BY <1>3, <1>4, <1>5, <1>6, <1>9, NothingBooked
<1> QED
  BY <1>7, <1>8, <1>9, <1>10, <1>11, StepKeepsInvariant

(***************************************************************************)
(* Steps that book.                                                        *)
(***************************************************************************)
LEMMA Books ==
    ASSUME IInv, NEW s \in Sessions, session[s].pc \in Booking,
           NEW from \in Txs \cup {Manual},
           RevenueIndexAllows(s), revenue' = Booked(s, from)
    PROVE  /\ revenue' \in [Receivables -> Bookings]
           /\ \A r \in session[s].target :
                 /\ revenue'[r] = [source |-> from, value |-> session[s].share[r]]
                 /\ revenue'[r] # None
           /\ \A r \in Receivables \ session[s].target : revenue'[r] = revenue[r]
           /\ \A r \in Receivables : revenue[r] # None => revenue'[r] = revenue[r]
<1>1. session[s] \in RequestRecord /\ Fits(s)
  BY DEF IInv, TypeOK
<1>2. \A r \in session[s].target : r \in Receivables /\ session[s].share[r] \in Amounts
  BY <1>1 DEF Fits, RequestRecord
<1>3. \A r \in session[s].target :
        [source |-> from, value |-> session[s].share[r]] \in Bookings \ {None}
  BY <1>2, NoneAssumption DEF Bookings, Manual
<1>4. \A r \in Receivables :
        revenue'[r] = IF r \in session[s].target
                      THEN [source |-> from, value |-> session[s].share[r]]
                      ELSE revenue[r]
  BY DEF Booked
<1>5. revenue' \in [Receivables -> Bookings]
  BY <1>3 DEF Booked, IInv, TypeOK
<1> QED
  BY <1>2, <1>3, <1>4, <1>5 DEF RevenueIndexAllows

LEMMA SomethingBooked ==
    ASSUME IInv, Stable, NEW from \in Txs \cup {Manual},
           \A r \in Receivables : revenue'[r] = revenue[r] \/ revenue'[r].source = from,
           from \in Txs => provider'[from].status \in {"paid", "refunded"},
           \A r \in Receivables :
               receivable'[r] = "PAGO" => receivable[r] = "PAGO" \/ revenue'[r] # None,
           \A i \in Intents : intent'[i].status = "PAID" =>
               intent'[i] = intent[i] \/ \A r \in Covers(i)' : revenue'[r] # None,
           \A g \in Groups : group'[g].status = "PAID" =>
               \/ group'[g] = group[g]
               \/ \E f \in Txs \cup {Manual} : \A r \in Items(g)' :
                     revenue'[r] = [source |-> f, value |-> group'[g].share[r]]
    PROVE  Safe'
<1>1. \A r \in Receivables : revenue[r] # None => revenue'[r] # None
  BY DEF Stable
<1>2. PaidReceivableIsBooked'
  BY <1>1 DEF IInv, Safe, PaidReceivableIsBooked
<1>3. PaidIntentIsSettled'
  <2> SUFFICES ASSUME NEW i \in Intents, intent'[i].status = "PAID",
                      intent'[i] = intent[i], NEW r \in Covers(i)'
               PROVE  revenue'[r] # None
    BY DEF PaidIntentIsSettled
  <2>1. intent[i].grp # None =>
          intent[i].grp \in Groups /\ group'[intent[i].grp].share = group[intent[i].grp].share
    BY DEF IInv, TypeOK, RowsLinked, Stable
  <2>2. r \in Covers(i) /\ r \in Receivables
    BY <2>1 DEF Covers, Items
  <2> QED
    BY <1>1, <2>2 DEF IInv, Safe, PaidIntentIsSettled
<1>4. RevenueIsBacked'
  <2> SUFFICES ASSUME NEW r \in Receivables, NEW t \in Txs,
                      revenue'[r] # None, revenue'[r].source = t
               PROVE  provider'[t].status \in {"paid", "refunded"}
    BY DEF RevenueIsBacked
  <2>1. CASE revenue'[r] = revenue[r]
    BY <2>1 DEF IInv, Safe, RevenueIsBacked, Stable
  <2>2. CASE revenue'[r].source = from
    BY <2>2
  <2> QED
    BY <2>1, <2>2
<1>5. PaidGroupIsWhole'
  <2> SUFFICES ASSUME NEW g \in Groups, group'[g].status = "PAID", group'[g] = group[g]
               PROVE  \E f \in Txs \cup {Manual} : \A r \in Items(g)' :
                        revenue'[r] = [source |-> f, value |-> group'[g].share[r]]
    BY DEF PaidGroupIsWhole
  <2>1. PICK f \in Txs \cup {Manual} : \A r \in Items(g) :
          revenue[r] = [source |-> f, value |-> group[g].share[r]]
    BY DEF IInv, Safe, PaidGroupIsWhole
  <2>2. \A r \in Items(g) : r \in Receivables /\ group[g].share[r] \in Amounts
    BY DEF IInv, TypeOK, Items, Shares
  <2>3. \A r \in Items(g) : revenue[r] # None
    <3> SUFFICES ASSUME NEW r \in Items(g) PROVE revenue[r] # None
      OBVIOUS
    <3>1. [source |-> f, value |-> group[g].share[r]]
             \in [source : Txs \cup {"MANUAL"}, value : Amounts]
      BY <2>2 DEF Manual
    <3> QED
      BY <2>1, <3>1, NoneAssumption
  <2>4. Items(g)' = Items(g)
    BY DEF Items
  <2>5. \A r \in Items(g) : revenue'[r] = revenue[r]
    BY <2>2, <2>3 DEF Stable
  <2> QED
    BY <2>1, <2>4, <2>5
<1> QED
  BY <1>2, <1>3, <1>4, <1>5 DEF Safe

LEMMA SettleReceivableKeeps ==
    ASSUME IInv, NEW s \in Sessions, SettleReceivable(s)
    PROVE  IInv'
<1>1. /\ session[s].pc = "settling" /\ session[s] \in RequestRecord /\ Fits(s)
      /\ Finish(s) /\ UNCHANGED <<amount, group, provider, webhookEvents>>
  BY DEF SettleReceivable, IInv, TypeOK
<1>2. PICK i \in Intents, t \in Txs, r \in Receivables :
        /\ i = session[s].int /\ t = session[s].ptx
        /\ intent[i].status # "NONE" /\ intent[i].grp = None /\ intent[i].rec = r
        /\ session[s].target = {r}
        /\ provider[t].status \in {"paid", "refunded"}
  BY <1>1 DEF Fits, OnIntent, OnTransaction, RequestRecord
<1>3. /\ intent' \in [Intents -> IntentRow]
      /\ \A j \in Intents :
            \/ intent'[j] = intent[j]
            \/ /\ intent[j].status # "NONE" /\ intent'[j].status \in {"PAID", "SUPERSEDED"}
               /\ intent'[j].rec = intent[j].rec /\ intent'[j].grp = intent[j].grp
               /\ intent'[j].status = "PAID" => j = i
  <2>1. intent' = [j \in Intents |->
               IF j = i THEN [intent[j] EXCEPT !.status = "PAID"]
               ELSE IF j \in OpenSiblings(i)
                    THEN [intent[j] EXCEPT !.status = "SUPERSEDED"]
                    ELSE intent[j]]
    BY <1>2 DEF SettleReceivable
  <2>2. \A j \in OpenSiblings(i) : intent[j].status # "NONE"
    BY DEF OpenSiblings, IsActive, ActivePixStatuses
  <2>3. ASSUME NEW j \in Intents
        PROVE  /\ [intent[j] EXCEPT !.status = "PAID"] \in IntentRow
               /\ [intent[j] EXCEPT !.status = "SUPERSEDED"] \in IntentRow
               /\ intent[j] \in IntentRow
    BY DEF IInv, TypeOK, IntentRow, IntentStatus, ProviderStatus
  <2>4. intent' \in [Intents -> IntentRow]
    BY <2>1, <2>3
  <2>5. ASSUME NEW j \in Intents
        PROVE  \/ intent'[j] = intent[j]
               \/ /\ intent[j].status # "NONE" /\ intent'[j].status \in {"PAID", "SUPERSEDED"}
                  /\ intent'[j].rec = intent[j].rec /\ intent'[j].grp = intent[j].grp
                  /\ intent'[j].status = "PAID" => j = i
    <3>1. CASE j = i
      BY <1>2, <2>1, <3>1 DEF IInv, TypeOK
    <3>2. CASE j # i /\ j \in OpenSiblings(i)
      BY <2>1, <2>2, <3>2 DEF IInv, TypeOK
    <3>3. CASE j # i /\ j \notin OpenSiblings(i)
      BY <2>1, <3>3
    <3> QED
      BY <3>1, <3>2, <3>3
  <2> QED
    BY <2>4, <2>5
<1>4. /\ revenue' \in [Receivables -> Bookings] /\ revenue'[r] # None
      /\ \A x \in Receivables : revenue[x] # None => revenue'[x] = revenue[x]
      /\ \A x \in Receivables : revenue'[x] = revenue[x] \/ revenue'[x].source = t
  <2>1. CASE session[s].booking # None
    BY <1>1, <1>2, <2>1 DEF SettleReceivable, Fits, IInv, TypeOK
  <2>2. CASE session[s].booking = None
    <3>1. RevenueIndexAllows(s) /\ revenue' = Booked(s, t) /\ session[s].pc \in Booking
      BY <1>1, <1>2, <2>2 DEF SettleReceivable, Booking
    <3>2. /\ revenue' \in [Receivables -> Bookings]
          /\ \A x \in session[s].target :
                revenue'[x] = [source |-> t, value |-> session[s].share[x]] /\ revenue'[x] # None
          /\ \A x \in Receivables \ session[s].target : revenue'[x] = revenue[x]
          /\ \A x \in Receivables : revenue[x] # None => revenue'[x] = revenue[x]
      BY <3>1, Books
    <3>3. revenue'[r] = [source |-> t, value |-> session[s].share[r]]
      BY <1>2, <3>2
    <3>4. revenue'[r].source = t
      BY <3>3
    <3> QED
      BY <1>2, <3>2, <3>4
  <2> QED
    BY <2>1, <2>2
<1>5. /\ receivable' \in [Receivables -> ReceivableStatus]
      /\ \A x \in Receivables : receivable'[x] = receivable[x] \/ x = r
  BY <1>2 DEF SettleReceivable, Marked, IInv, TypeOK, ReceivableStatus
<1>6. Others(s) /\ Fits(s)' /\ session' \in [Sessions -> RequestRecord]
  BY <1>1, Finished DEF IInv
<1>7. TypeOK'
  BY <1>1, <1>3, <1>4, <1>5, <1>6 DEF IInv, TypeOK, IntentRow
<1>8. Stable
  BY <1>1, <1>3, <1>4 DEF Stable
<1>9. RowsLinked'
  <2> SUFFICES ASSUME NEW j \in Intents, intent'[j] # intent[j]
               PROVE  /\ intent'[j].status # "NONE"
                      /\ intent'[j].grp = None => intent'[j].rec # None
                      /\ intent'[j].grp # None => group'[intent'[j].grp].status # "NONE"
    BY <1>8, RowsStayLinked
  <2> QED
    BY <1>1, <1>3 DEF IInv, RowsLinked
<1>10. Safe'
  <2>1. \A x \in Covers(i)' : revenue'[x] # None
    <3>1. intent'[i].rec = r /\ intent'[i].grp = None
      BY <1>2, <1>3
    <3> QED
      BY <1>4, <3>1 DEF Covers
  <2>2. \A j \in Intents : intent'[j].status = "PAID" =>
          intent'[j] = intent[j] \/ \A x \in Covers(j)' : revenue'[x] # None
    BY <1>3, <2>1
  <2> QED
    BY <1>1, <1>2, <1>4, <1>5, <1>8, <2>2, SomethingBooked
<1> QED
  BY <1>6, <1>7, <1>8, <1>9, <1>10, StepKeepsInvariant

LEMMA SettleGroupKeeps ==
    ASSUME IInv, NEW s \in Sessions, SettleGroup(s)
    PROVE  IInv'
<1>1. /\ session[s].pc = "settlingGroup" /\ session[s] \in RequestRecord /\ Fits(s)
      /\ Finish(s) /\ UNCHANGED <<amount, provider, webhookEvents>>
      /\ RevenueIndexAllows(s) /\ receivable' = Marked(s, "PAGO")
  BY DEF SettleGroup, IInv, TypeOK
<1>2. PICK i \in Intents, t \in Txs, g \in Groups :
        /\ i = session[s].int /\ t = session[s].ptx /\ g = session[s].grp
        /\ intent[i].status # "NONE" /\ intent[i].grp = g
        /\ session[s].target = Items(g) /\ session[s].share = group[g].share
        /\ provider[t].status \in {"paid", "refunded"}
  BY <1>1 DEF Fits, OnIntent, OnTransaction, OnGroup, RequestRecord
<1>3. /\ intent' = [intent EXCEPT ![i].status = "PAID"]
      /\ group' = [group EXCEPT ![g].status = "PAID"]
      /\ revenue' = Booked(s, t) /\ session[s].pc \in Booking
  BY <1>1, <1>2 DEF SettleGroup, Booking
<1>4. /\ intent'[i].status = "PAID" /\ intent'[i].rec = intent[i].rec
      /\ intent'[i].grp = g /\ \A j \in Intents \ {i} : intent'[j] = intent[j]
      /\ intent' \in [Intents -> IntentRow]
  <2>1. /\ intent[i].grp = g /\ intent[i] \in IntentRow /\ intent \in [Intents -> IntentRow]
        /\ "PAID" \in IntentStatus
    BY <1>2 DEF IInv, TypeOK, IntentRow, IntentStatus, ProviderStatus
  <2> QED
    BY <1>3, <2>1 DEF IntentRow
<1>5. /\ group'[g].status = "PAID" /\ group'[g].share = group[g].share
      /\ \A h \in Groups \ {g} : group'[h] = group[h]
      /\ group' \in [Groups -> [status : IntentStatus \cup {"NONE"}, share : Shares]]
  BY <1>3 DEF IInv, TypeOK, IntentStatus, ProviderStatus
<1>6. Items(g)' = Items(g)
  BY <1>5 DEF Items
<1>7. /\ revenue' \in [Receivables -> Bookings]
      /\ \A r \in Items(g) : /\ revenue'[r] = [source |-> t, value |-> group[g].share[r]]
                             /\ revenue'[r] # None
      /\ \A r \in Receivables \ Items(g) : revenue'[r] = revenue[r]
      /\ \A r \in Receivables : revenue[r] # None => revenue'[r] = revenue[r]
  <2>1. /\ revenue' \in [Receivables -> Bookings]
        /\ \A x \in session[s].target :
              revenue'[x] = [source |-> t, value |-> session[s].share[x]] /\ revenue'[x] # None
        /\ \A x \in Receivables \ session[s].target : revenue'[x] = revenue[x]
        /\ \A x \in Receivables : revenue[x] # None => revenue'[x] = revenue[x]
    BY <1>1, <1>3, Books
  <2> QED
    BY <1>2, <2>1
<1>8. /\ receivable' \in [Receivables -> ReceivableStatus]
      /\ \A r \in Receivables : receivable'[r] = receivable[r] \/ r \in Items(g)
  BY <1>1, <1>2 DEF Marked, IInv, TypeOK, ReceivableStatus
<1>9. Others(s) /\ Fits(s)' /\ session' \in [Sessions -> RequestRecord]
  BY <1>1, Finished DEF IInv
<1>10. TypeOK'
  BY <1>1, <1>4, <1>5, <1>7, <1>8, <1>9 DEF IInv, TypeOK, IntentRow
<1>11. Stable
  BY <1>1, <1>2, <1>4, <1>5, <1>7 DEF Stable
<1>12. RowsLinked'
  <2>1. g # None
    BY NoneAssumption
  <2> QED
    BY <1>4, <1>5, <1>11, <2>1, RowsStayLinked
<1>13. Safe'
  <2>1. \A r \in Covers(i)' : revenue'[r] # None
    BY <1>4, <1>6, <1>7, NoneAssumption DEF Covers
  <2>2. \A r \in Items(g)' : revenue'[r] = [source |-> t, value |-> group'[g].share[r]]
    BY <1>5, <1>6, <1>7
  <2>3. \A h \in Groups : group'[h].status = "PAID" =>
          \/ group'[h] = group[h]
          \/ \E f \in Txs \cup {Manual} : \A r \in Items(h)' :
                revenue'[r] = [source |-> f, value |-> group'[h].share[r]]
    BY <1>5, <2>2
  <2>4. \A r \in Receivables : revenue'[r] = revenue[r] \/ revenue'[r].source = t
    <3>1. ASSUME NEW r \in Items(g) PROVE revenue'[r].source = t
      <4>1. revenue'[r] = [source |-> t, value |-> group[g].share[r]]
        BY <1>7
      <4> QED
        BY <4>1
    <3> QED
      BY <1>7, <3>1
  <2>5. \A j \in Intents : intent'[j].status = "PAID" =>
          intent'[j] = intent[j] \/ \A x \in Covers(j)' : revenue'[x] # None
    BY <1>4, <2>1
  <2>6. \A r \in Receivables :
          receivable'[r] = "PAGO" => receivable[r] = "PAGO" \/ revenue'[r] # None
    BY <1>7, <1>8
  <2> QED
    BY <1>1, <1>2, <1>11, <2>3, <2>4, <2>5, <2>6, SomethingBooked
<1> QED
  BY <1>9, <1>10, <1>11, <1>12, <1>13, StepKeepsInvariant

LEMMA PayReceivableKeeps ==
    ASSUME IInv, NEW s \in Sessions, PayReceivable(s)
    PROVE  IInv'
<1>1. /\ session[s].pc = "paying" /\ RevenueIndexAllows(s)
      /\ revenue' = Booked(s, Manual) /\ receivable' = Marked(s, "PAGO") /\ Finish(s)
      /\ UNCHANGED <<amount, intent, group, provider, webhookEvents>>
  BY DEF PayReceivable
<1>2. /\ revenue' \in [Receivables -> Bookings]
      /\ \A x \in session[s].target :
            revenue'[x] = [source |-> Manual, value |-> session[s].share[x]] /\ revenue'[x] # None
      /\ \A x \in Receivables \ session[s].target : revenue'[x] = revenue[x]
      /\ \A x \in Receivables : revenue[x] # None => revenue'[x] = revenue[x]
  <2>1. Manual \in Txs \cup {Manual} /\ session[s].pc \in Booking
    BY <1>1 DEF Booking
  <2> QED
    BY <1>1, <2>1, Books
<1>3. \A x \in Receivables : revenue'[x] = revenue[x] \/ revenue'[x].source = Manual
  <2>1. ASSUME NEW x \in session[s].target PROVE revenue'[x].source = Manual
    <3>1. revenue'[x] = [source |-> Manual, value |-> session[s].share[x]]
      BY <1>2
    <3> QED
      BY <3>1
  <2> QED
    BY <1>2, <2>1
<1>4. /\ receivable' \in [Receivables -> ReceivableStatus]
      /\ \A x \in Receivables : receivable'[x] = receivable[x] \/ revenue'[x] # None
  BY <1>1, <1>2 DEF Marked, IInv, TypeOK, ReceivableStatus
<1>5. Others(s) /\ Fits(s)' /\ session' \in [Sessions -> RequestRecord]
  BY <1>1, Finished DEF IInv
<1>6. TypeOK'
  BY <1>1, <1>2, <1>4, <1>5 DEF IInv, TypeOK
<1>7. Stable
  BY <1>1, <1>2 DEF Stable
<1>8. RowsLinked'
  BY <1>1, <1>7, RowsStayLinked
<1>9. Safe'
  BY <1>1, <1>3, <1>4, <1>7, SomethingBooked, ManualAssumption
<1> QED
  BY <1>5, <1>6, <1>7, <1>8, <1>9, StepKeepsInvariant

\* The PaymentGroup of a grouped settlement by hand is new and holds exactly
\* the accounts that were read.
LEMMA PayReceivablesKeeps ==
    ASSUME IInv, NEW s \in Sessions, PayReceivables(s)
    PROVE  IInv'
<1>1. /\ session[s].pc = "payingGroup" /\ RevenueIndexAllows(s)
      /\ revenue' = Booked(s, Manual) /\ receivable' = Marked(s, "PAGO") /\ Finish(s)
      /\ UNCHANGED <<amount, intent, provider, webhookEvents>>
  BY DEF PayReceivables
<1>2. /\ revenue' \in [Receivables -> Bookings]
      /\ \A x \in session[s].target :
            revenue'[x] = [source |-> Manual, value |-> session[s].share[x]] /\ revenue'[x] # None
      /\ \A x \in Receivables \ session[s].target : revenue'[x] = revenue[x]
      /\ \A x \in Receivables : revenue[x] # None => revenue'[x] = revenue[x]
  <2>1. Manual \in Txs \cup {Manual} /\ session[s].pc \in Booking
    BY <1>1 DEF Booking
  <2> QED
    BY <1>1, <2>1, Books
<1>3. \A x \in Receivables : revenue'[x] = revenue[x] \/ revenue'[x].source = Manual
  <2>1. ASSUME NEW x \in session[s].target PROVE revenue'[x].source = Manual
    <3>1. revenue'[x] = [source |-> Manual, value |-> session[s].share[x]]
      BY <1>2
    <3> QED
      BY <3>1
  <2> QED
    BY <1>2, <2>1
<1>4. /\ receivable' \in [Receivables -> ReceivableStatus]
      /\ \A x \in Receivables : receivable'[x] = receivable[x] \/ revenue'[x] # None
  BY <1>1, <1>2 DEF Marked, IInv, TypeOK, ReceivableStatus
<1>5. Others(s) /\ Fits(s)' /\ session' \in [Sessions -> RequestRecord]
  BY <1>1, Finished DEF IInv
<1>6. PICK g \in Groups :
        /\ group[g].status = "NONE"
        /\ group' = [group EXCEPT ![g] = [status |-> "PAID", share |-> session[s].share]]
  BY DEF PayReceivables, UnusedGroup
<1>7. /\ group'[g] = [status |-> "PAID", share |-> session[s].share]
      /\ group'[g].status = "PAID" /\ group'[g].share = session[s].share
      /\ \A h \in Groups \ {g} : group'[h] = group[h]
  BY <1>6 DEF IInv, TypeOK
<1>8. TypeOK'
  <2>1. session[s].share \in Shares /\ "PAID" \in IntentStatus
    BY DEF IInv, TypeOK, RequestRecord, IntentStatus, ProviderStatus
  <2> QED
    BY <1>1, <1>2, <1>4, <1>5, <1>6, <2>1 DEF IInv, TypeOK
<1>9. Stable
  BY <1>1, <1>2, <1>6, <1>7 DEF Stable
<1>10. RowsLinked'
  BY <1>1, <1>9, RowsStayLinked
<1>11. Safe'
  <2>1. \A x \in Items(g)' : x \in session[s].target
    BY <1>1, <1>7 DEF Items, IInv, Fits, Booking
  <2>2. \A x \in Items(g)' : revenue'[x] = [source |-> Manual, value |-> group'[g].share[x]]
    BY <1>2, <1>7, <2>1
  <2>3. \A h \in Groups : group'[h].status = "PAID" =>
          \/ group'[h] = group[h]
          \/ \E f \in Txs \cup {Manual} : \A x \in Items(h)' :
                revenue'[x] = [source |-> f, value |-> group'[h].share[x]]
    BY <1>7, <2>2
  <2> QED
    BY <1>1, <1>3, <1>4, <1>9, <2>3, SomethingBooked, ManualAssumption
<1> QED
  BY <1>5, <1>8, <1>9, <1>10, <1>11, StepKeepsInvariant

(***************************************************************************)
(* The remaining steps.                                                    *)
(***************************************************************************)
LEMMA CancelReceivableKeeps ==
    ASSUME IInv, NEW s \in Sessions, CancelReceivable(s)
    PROVE  IInv'
<1>1. /\ receivable' = Marked(s, "CANCELADO") /\ Finish(s)
      /\ UNCHANGED <<amount, revenue, intent, group, provider, webhookEvents>>
  BY DEF CancelReceivable
<1>2. /\ receivable' \in [Receivables -> ReceivableStatus]
      /\ \A r \in Receivables : receivable'[r] = receivable[r] \/ receivable'[r] = "CANCELADO"
  BY <1>1 DEF Marked, IInv, TypeOK, ReceivableStatus
<1>3. Others(s) /\ Fits(s)' /\ session' \in [Sessions -> RequestRecord]
  BY <1>1, Finished DEF IInv
<1>4. TypeOK'
  BY <1>1, <1>2, <1>3 DEF IInv, TypeOK
<1>5. Stable
  BY <1>1 DEF Stable
<1>6. RowsLinked'
  BY <1>1, <1>5, RowsStayLinked
<1>7. Safe'
  <2>1. \A r \in Receivables : receivable'[r] = "PAGO" => receivable[r] = "PAGO"
    BY <1>2
  <2> QED
    BY <1>1, <1>5, <2>1, SomethingBooked, ManualAssumption
<1> QED
  BY <1>3, <1>4, <1>5, <1>6, <1>7, StepKeepsInvariant

LEMMA RepriceReceivableKeeps ==
    ASSUME IInv, NEW s \in Sessions, RepriceReceivable(s)
    PROVE  IInv'
<1>1. /\ Finish(s)
      /\ UNCHANGED <<receivable, revenue, intent, group, provider, webhookEvents>>
      /\ \E r \in session[s].target, value \in Amounts :
            amount' = [amount EXCEPT ![r] = value]
  BY DEF RepriceReceivable
<1>2. Others(s) /\ Fits(s)' /\ session' \in [Sessions -> RequestRecord]
  BY <1>1, Finished DEF IInv
<1>3. TypeOK'
  BY <1>1, <1>2 DEF IInv, TypeOK
<1>4. Stable
  BY <1>1 DEF Stable
<1>5. RowsLinked'
  BY <1>1, <1>4, RowsStayLinked
<1>6. Safe'
  BY <1>1, <1>4, NothingBooked
<1> QED
  BY <1>2, <1>3, <1>4, <1>5, <1>6, StepKeepsInvariant

LEMMA EnvironmentKeeps ==
    ASSUME IInv, Environment
    PROVE  IInv'
<1>1. PICK t \in Txs, from \in ExternalStatus, to \in ExternalStatus :
        /\ ProviderMoves(t, from, to)
        /\ from \in {"paid", "refunded"} => to \in {"paid", "refunded"}
  <2> PICK t \in Txs : PayerPays(t) \/ ProviderTurns(t)
    BY DEF Environment
  <2>1. CASE PayerPays(t)
    BY <2>1 DEF PayerPays, ExternalStatus
  <2>2. CASE ProviderTurns(t)
    BY <2>2, OutcomesAssumption DEF ProviderTurns, ExternalStatus
  <2> QED
    BY <2>1, <2>2
<1>2. /\ provider' = [provider EXCEPT ![t].status = to] /\ provider[t].status = from
      /\ UNCHANGED <<receivable, amount, revenue, intent, group, webhookEvents, session>>
  BY <1>1 DEF ProviderMoves
<1>3. TypeOK'
  BY <1>2 DEF IInv, TypeOK
<1>4. Stable
  BY <1>1, <1>2 DEF Stable, IInv, TypeOK
<1>5. RowsLinked'
  BY <1>2, <1>4, RowsStayLinked
<1>6. Safe'
  BY <1>2, <1>4, NothingBooked
<1>7. \A q \in Sessions : Fits(q)'
  BY <1>2, <1>4, StableFits
<1> QED
  BY <1>3, <1>5, <1>6, <1>7 DEF IInv

(***************************************************************************)
(* The invariant.                                                          *)
(***************************************************************************)
LEMMA InitEstablishesInvariant == Init => IInv
<1> SUFFICES ASSUME Init PROVE IInv
  OBVIOUS
<1>1. TypeOK
  <2>1. /\ receivable \in [Receivables -> ReceivableStatus]
        /\ amount \in [Receivables -> Amounts] /\ revenue \in [Receivables -> Bookings]
        /\ webhookEvents \subseteq Txs \X ExternalStatus
    BY DEF Init, ReceivableStatus, Bookings
  <2>2. intent \in [Intents -> [status : IntentStatus \cup {"NONE"},
                               rec : Receivables \cup {None},
                               grp : Groups \cup {None}, ptx : Txs \cup {None}]]
    BY DEF Init, NoIntent
  <2>3. /\ group \in [Groups -> [status : IntentStatus \cup {"NONE"}, share : Shares]]
        /\ provider \in [Txs -> [status : ExternalStatus \cup {"NONE"}, share : Shares]]
    BY DEF Init, NoGroup, NoTx, NoShare, Shares
  <2>4. session \in [Sessions -> RequestRecord]
    BY IdleIsRequest DEF Init
  <2> QED
    BY <2>1, <2>2, <2>3, <2>4 DEF TypeOK
<1>2. RowsLinked
  BY DEF Init, RowsLinked, NoIntent
<1>3. ASSUME NEW s \in Sessions PROVE Fits(s)
  BY DEF Init, Fits, Idle, OnIntent, OnTransaction, OnGroup, Booking
<1>4. Safe
  BY DEF Init, Safe, PaidReceivableIsBooked, PaidIntentIsSettled, RevenueIsBacked,
         PaidGroupIsWhole, NoIntent, NoGroup
<1> QED
  BY <1>1, <1>2, <1>3, <1>4 DEF IInv

LEMMA RequestKeepsInvariant ==
    ASSUME IInv, NEW s \in Sessions, NEW kind \in Requests, Request(s, kind)
    PROVE  IInv'
<1>1. ASSUME NEW R \in Selections, ReserveGroupPix(s, R) \/ ReadPayment(s, R, TRUE)
      PROVE  IInv'
  BY <1>1, ReserveGroupPixKeeps, ReadPaymentKeeps DEF Selections
<1>2. ASSUME NEW r \in Receivables, ReadPayment(s, {r}, FALSE)
      PROVE  IInv'
  BY <1>2, ReadPaymentKeeps
<1>3. CASE Webhook(s)
  BY <1>3, ProcessPaymentWebhookKeeps DEF Webhook
<1> QED
  BY <1>1, <1>2, <1>3, ReservePixKeeps, InspectReplacementKeeps,
     InspectGroupReplacementKeeps, FetchReconciliationKeeps, SyncPaymentIntentKeeps,
     CancelPaymentIntentKeeps, TargetOnlyKeeps
  DEF Request

LEMMA StepKeeps ==
    ASSUME IInv, NEW s \in Sessions, Step(s)
    PROVE  IInv'
BY ProviderCreatePixKeeps, ProviderRefusesPixKeeps, FinishPixKeeps,
   RecoverReplacementKeeps, CommitReplacementKeeps, AdoptExistingKeeps,
   AdoptReconciliationKeeps, EndingKeeps, ReadIntentKeeps, ApplyUnpaidStatusKeeps,
   AcquireIntentKeeps, SettleReceivableKeeps, AcquireGroupKeeps, SettleGroupKeeps,
   PayReceivableKeeps, PayReceivablesKeeps, CancelReceivableKeeps, RepriceReceivableKeeps
DEF Step

LEMMA NextKeepsInvariant ==
    ASSUME IInv, [Next]_vars
    PROVE  IInv'
<1>1. CASE Environment
  BY <1>1, EnvironmentKeeps
<1>2. ASSUME NEW s \in Sessions, NEW kind \in Requests, Request(s, kind)
      PROVE  IInv'
  BY <1>2, RequestKeepsInvariant
<1>3. ASSUME NEW s \in Sessions, Step(s)
      PROVE  IInv'
  BY <1>3, StepKeeps
<1>4. ASSUME NEW s \in Sessions, Abandon(s)
      PROVE  IInv'
  BY <1>4, EndingKeeps
<1>5. CASE UNCHANGED vars
  <2>1. UNCHANGED tables /\ session' = session
    BY <1>5 DEF vars, tables
  <2>2. TypeOK'
    BY <2>1 DEF IInv, TypeOK, tables
  <2>3. \A q \in Sessions : Fits(q)'
    BY <2>1, StableFits, UnchangedTables
  <2> QED
    BY <2>1, <2>2, <2>3, UnchangedTables DEF IInv
<1> QED
  BY <1>1, <1>2, <1>3, <1>4, <1>5 DEF Next

\* The inductive invariant holds in every reachable state.
THEOREM InvariantHolds == Spec => []IInv
<1>1. Init => IInv
  BY InitEstablishesInvariant
<1>2. IInv /\ [Next]_vars => IInv'
  BY NextKeepsInvariant
<1> QED
  BY <1>1, <1>2, PTL DEF Spec

\* Rows stay well formed in every reachable state.
THEOREM TypeCorrect == Spec => []TypeOK
<1>1. IInv => TypeOK
  BY DEF IInv
<1> QED
  BY <1>1, InvariantHolds, PTL

\* Every PAGO account has its FinancialTransaction.
THEOREM PaidAccountsAreBooked == Spec => []PaidReceivableIsBooked
<1>1. IInv => PaidReceivableIsBooked
  BY DEF IInv, Safe
<1> QED
  BY <1>1, InvariantHolds, PTL

\* A PAID intent has booked every account it collects.
THEOREM PaidIntentsAreSettled == Spec => []PaidIntentIsSettled
<1>1. IInv => PaidIntentIsSettled
  BY DEF IInv, Safe
<1> QED
  BY <1>1, InvariantHolds, PTL

\* What is booked from a provider transaction was received by the provider.
THEOREM BookedRevenueIsBacked == Spec => []RevenueIsBacked
<1>1. IInv => RevenueIsBacked
  BY DEF IInv, Safe
<1> QED
  BY <1>1, InvariantHolds, PTL

\* A PAID group has booked each of its items, at its price, from one source.
THEOREM PaidGroupsAreWhole == Spec => []PaidGroupIsWhole
<1>1. IInv => PaidGroupIsWhole
  BY DEF IInv, Safe
<1> QED
  BY <1>1, InvariantHolds, PTL

(***************************************************************************)
(* The settlement implements the ledger: every step books accounts that    *)
(* were not booked, receives a payment, or leaves the ledger alone.        *)
(***************************************************************************)
LedgerStep == [Ledger!LedgerNext]_<<Source, Received>>

LEMMA NoLedgerStep ==
    ASSUME UNCHANGED revenue,
           \A t \in Txs : provider'[t].status \in {"paid", "refunded"}
                             <=> provider[t].status \in {"paid", "refunded"}
    PROVE  LedgerStep
<1>1. Source' = Source /\ Received' = Received
  BY DEF Source, Received
<1> QED
  BY <1>1 DEF LedgerStep

LEMMA BookingStep ==
    ASSUME IInv, NEW s \in Sessions, session[s].pc \in Booking,
           NEW from \in Txs \cup {Manual}, from \in Txs => from \in Received,
           RevenueIndexAllows(s), revenue' = Booked(s, from), provider' = provider
    PROVE  LedgerStep
<1> DEFINE R == session[s].target
<1>1. /\ \A r \in R : /\ revenue'[r] = [source |-> from, value |-> session[s].share[r]]
                      /\ revenue'[r] # None
      /\ \A r \in Receivables \ R : revenue'[r] = revenue[r]
  BY Books
<1>2. R \in SUBSET Receivables
  BY DEF IInv, TypeOK, RequestRecord
<1>3. Received' = Received
  BY DEF Received
<1>4. \A r \in R : Source[r] = None
  BY <1>2 DEF RevenueIndexAllows, Source
<1>5. Source' = [r \in Receivables |-> IF r \in R THEN from ELSE Source[r]]
  <2> DEFINE after(r) == IF revenue'[r] = None THEN None ELSE revenue'[r].source
             goal(r) == IF r \in R THEN from ELSE Source[r]
  <2>1. ASSUME NEW r \in Receivables PROVE after(r) = goal(r)
    <3>1. CASE r \in R
      <4>1. revenue'[r] = [source |-> from, value |-> session[s].share[r]] /\ revenue'[r] # None
        BY <1>1, <3>1
      <4>2. revenue'[r].source = from
        BY <4>1
      <4> QED
        BY <3>1, <4>1, <4>2
    <3>2. CASE r \notin R
      BY <1>1, <3>2 DEF Source
    <3> QED
      BY <3>1, <3>2
  <2>2. Source' = [r \in Receivables |-> after(r)]
    BY DEF Source
  <2> HIDE DEF after, goal
  <2>3. [r \in Receivables |-> after(r)] = [r \in Receivables |-> goal(r)]
    BY <2>1
  <2> QED
    BY <2>2, <2>3 DEF goal
<1>6. Ledger!Book(R, from)
  BY <1>3, <1>4, <1>5 DEF Ledger!Book
<1>7. CASE R = {}
  <2>1. Source' = Source
    BY <1>5, <1>7 DEF Source
  <2> QED
    BY <1>3, <2>1 DEF LedgerStep
<1>8. CASE R # {}
  <2>1. Ledger!BookByHand(R) \/ \E t \in Txs : Ledger!BookPayment(R, t)
    BY <1>6 DEF Ledger!BookByHand, Ledger!BookPayment
  <2>2. R \in (SUBSET Receivables) \ {{}}
    BY <1>2, <1>8
  <2> HIDE DEF R
  <2>3. Ledger!LedgerNext
    BY <2>1, <2>2 DEF Ledger!LedgerNext
  <2> QED
    BY <2>3 DEF LedgerStep
<1> QED
  BY <1>7, <1>8

LEMMA SettleReceivableStep ==
    ASSUME IInv, NEW s \in Sessions, SettleReceivable(s)
    PROVE  LedgerStep
<1>1. /\ session[s].pc = "settling" /\ provider' = provider /\ session[s].pc \in Booking
      /\ session[s].ptx \in Txs /\ session[s].ptx \in Received
  BY DEF SettleReceivable, IInv, Fits, OnTransaction, Received, Booking
<1>2. CASE session[s].booking # None
  BY <1>1, <1>2, NoLedgerStep DEF SettleReceivable
<1>3. CASE session[s].booking = None
  <2>1. RevenueIndexAllows(s) /\ revenue' = Booked(s, session[s].ptx)
    BY <1>3 DEF SettleReceivable
  <2>2. PICK t \in Txs : t = session[s].ptx
    BY <1>1
  <2> QED
    BY <1>1, <2>1, <2>2, BookingStep
<1> QED
  BY <1>2, <1>3

LEMMA SettleGroupStep ==
    ASSUME IInv, NEW s \in Sessions, SettleGroup(s)
    PROVE  LedgerStep
<1>1. /\ provider' = provider /\ session[s].pc \in Booking
      /\ RevenueIndexAllows(s) /\ revenue' = Booked(s, session[s].ptx)
      /\ session[s].ptx \in Txs /\ session[s].ptx \in Received
  BY DEF SettleGroup, IInv, Fits, OnTransaction, Received, Booking
<1>2. PICK t \in Txs : t = session[s].ptx
  BY <1>1
<1> QED
  BY <1>1, <1>2, BookingStep

LEMMA PayStep ==
    ASSUME IInv, NEW s \in Sessions, PayReceivable(s) \/ PayReceivables(s)
    PROVE  LedgerStep
<1>1. /\ provider' = provider /\ session[s].pc \in Booking
      /\ RevenueIndexAllows(s) /\ revenue' = Booked(s, Manual)
  BY DEF PayReceivable, PayReceivables, Booking
<1> QED
  BY <1>1, BookingStep, ManualAssumption

LEMMA ProviderStep ==
    ASSUME IInv, Environment
    PROVE  LedgerStep
<1> PICK t \in Txs : PayerPays(t) \/ ProviderTurns(t)
  BY DEF Environment
<1>1. CASE PayerPays(t)
  <2>1. /\ provider[t].status \in {"pending", "approved"}
        /\ provider' = [provider EXCEPT ![t].status = "paid"] /\ UNCHANGED revenue
    BY <1>1 DEF PayerPays, ProviderMoves
  <2>2. provider'[t].status = "paid" /\ \A u \in Txs \ {t} : provider'[u] = provider[u]
    BY <2>1 DEF IInv, TypeOK
  <2>3. t \notin Received /\ Received' = Received \cup {t} /\ Source' = Source
    BY <2>1, <2>2 DEF Received, Source
  <2> QED
    BY <2>3 DEF LedgerStep, Ledger!LedgerNext, Ledger!Receive
<1>2. CASE ProviderTurns(t)
  <2>1. PICK outcome \in Outcomes :
          /\ provider[t].status = IF outcome = "refunded" THEN "paid" ELSE "pending"
          /\ provider' = [provider EXCEPT ![t].status = outcome] /\ UNCHANGED revenue
    BY <1>2 DEF ProviderTurns, ProviderMoves
  <2>2. provider'[t].status = outcome /\ \A u \in Txs \ {t} : provider'[u] = provider[u]
    BY <2>1 DEF IInv, TypeOK
  <2> QED
    BY <2>1, <2>2, OutcomesAssumption, NoLedgerStep
<1> QED
  BY <1>1, <1>2

LEMMA RequestStep ==
    ASSUME IInv, NEW s \in Sessions, NEW kind \in Requests, Request(s, kind)
    PROVE  LedgerStep
<1>1. ASSUME NEW i \in Intents, CancelPaymentIntent(s, i)
      PROVE  LedgerStep
  <2>1. PICK t \in Txs : t = intent[i].ptx
    BY <1>1 DEF CancelPaymentIntent, IInv, TypeOK
  <2>2. /\ provider[t].status = "pending" /\ UNCHANGED revenue
        /\ provider' = [provider EXCEPT ![t].status = "cancelled"]
    BY <1>1, <2>1 DEF CancelPaymentIntent
  <2>3. /\ provider'[t].status = "cancelled"
        /\ \A u \in Txs \ {t} : provider'[u] = provider[u]
    BY <2>2 DEF IInv, TypeOK
  <2> QED
    BY <2>2, <2>3, NoLedgerStep
<1>2. CASE UNCHANGED <<revenue, provider>>
  BY <1>2, NoLedgerStep
<1>3. UNCHANGED <<revenue, provider>> \/ \E i \in Intents : CancelPaymentIntent(s, i)
  BY DEF Request, ReservePix, ReserveGroupPix, InspectReplacement, InspectGroupReplacement,
         FetchReconciliation, SyncPaymentIntent, Webhook, ProcessPaymentWebhook,
         ReadPayment, ReadCancellation, ReadReprice
<1> QED
  BY <1>1, <1>2, <1>3

LEMMA SessionStep ==
    ASSUME IInv, NEW s \in Sessions, Step(s) \/ Abandon(s)
    PROVE  LedgerStep
<1>1. CASE ProviderCreatePix(s)
  <2>1. PICK t \in Txs :
          /\ provider[t].status = "NONE" /\ UNCHANGED revenue
          /\ provider' = [provider EXCEPT ![t] =
                 [status |-> "pending", share |-> session[s].share]]
    BY <1>1 DEF ProviderCreatePix
  <2>2. provider'[t].status = "pending" /\ \A u \in Txs \ {t} : provider'[u] = provider[u]
    BY <2>1 DEF IInv, TypeOK
  <2> QED
    BY <2>1, <2>2, NoLedgerStep
<1>2. CASE UNCHANGED <<revenue, provider>>
  BY <1>2, NoLedgerStep
<1>3. \/ UNCHANGED <<revenue, provider>>
      \/ ProviderCreatePix(s) \/ SettleReceivable(s) \/ SettleGroup(s)
      \/ PayReceivable(s) \/ PayReceivables(s)
  BY DEF Step, Abandon, ProviderRefusesPix, FinishPix, RecoverReplacement,
         CommitReplacement, AdoptExisting, AdoptReconciliation, RefuseReconciliation,
         ReadIntent, ApplyUnpaidStatus, AcquireIntent, AcquireGroup, CancelReceivable,
         RepriceReceivable, UniqueViolation, DeadlockVictim
<1> QED
  BY <1>1, <1>2, <1>3, SettleReceivableStep, SettleGroupStep, PayStep

LEMMA StepsImplementLedger ==
    ASSUME IInv, [Next]_vars
    PROVE  LedgerStep
<1>1. CASE UNCHANGED vars
  BY <1>1, NoLedgerStep DEF vars
<1> QED
  BY <1>1, ProviderStep, RequestStep, SessionStep DEF Next

\* For any number of accounts, payments and concurrent requests, settlement
\* implements the ledger: nothing is booked twice, unbooked, or booked from
\* money that was never received.
THEOREM SettlementImplementsLedger == Spec => LedgerSpec
<1>1. Init => Ledger!LedgerInit
  <2> SUFFICES ASSUME Init PROVE Ledger!LedgerInit
    OBVIOUS
  <2>1. Source = [r \in Receivables |-> None]
    BY DEF Init, Source
  <2>2. Received = {}
    BY DEF Init, Received, NoTx
  <2> QED
    BY <2>1, <2>2 DEF Ledger!LedgerInit
<1>2. IInv /\ [Next]_vars => [Ledger!LedgerNext]_<<Source, Received>>
  BY StepsImplementLedger DEF LedgerStep
<1> QED
  BY <1>1, <1>2, InvariantHolds, PTL DEF Spec, LedgerSpec, Ledger!LedgerSpec

(***************************************************************************)
(* What the proofs of further invariants need of the rows.                 *)
(***************************************************************************)
IsUsed(i) == intent[i].status # "NONE"

SharesKept ==
    \A g \in Groups : group[g].status # "NONE" => group'[g].share = group[g].share

OnlyRow(i) == \A j \in Intents \ {i} : intent'[j] = intent[j]

LEMMA CoversAccounts ==
    ASSUME NEW i \in Intents
    PROVE  Covers(i) \subseteq Receivables
BY DEF Covers, Items

\* An unused intent collects nothing, so what collects an account is used.
LEMMA CollectorIsUsed ==
    ASSUME IInv, NEW i \in Intents, Covers(i) # {}
    PROVE  IsUsed(i)
BY NoneAssumption DEF IInv, RowsLinked, Covers, IsUsed, NoIntent

LEMMA Advances ==
    ASSUME TypeOK, NEW s \in Sessions, NEW q, session' = [session EXCEPT ![s] = q]
    PROVE  Others(s) /\ session'[s] = q
BY DEF TypeOK, Others

\* Giving a group another status leaves its items alone.
LEMMA GroupStatusKeepsShares ==
    ASSUME TypeOK, NEW g, NEW st,
           group' = group \/ group' = [group EXCEPT ![g].status = st]
    PROVE  SharesKept
BY DEF TypeOK, SharesKept
=============================================================================
