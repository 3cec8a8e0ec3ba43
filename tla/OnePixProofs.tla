---------------------------- MODULE OnePixProofs ----------------------------
(***************************************************************************)
(* At most one PIX collects an account at a time, as long as every PIX     *)
(* stays open until it is paid: none expires, fails, is refunded or is     *)
(* canceled.  Once a PIX may lapse, the status that two requests read      *)
(* before can bring it back beside a newer one, and the property fails.    *)
(***************************************************************************)
EXTENDS PixSettlementProofs

\* No PIX lapses at the provider, and no operator cancels one.
NoPixLapses ==
    Outcomes \subseteq {"approved"} /\ "cancelPaymentIntent" \notin Requests

IsOpen(r) == receivable[r] = "PENDENTE"

\* Two intents collect the same thing: one group, or one account by itself.
SameTarget(i, j) ==
    /\ intent[i].grp = intent[j].grp
    /\ intent[i].grp = None => intent[i].rec = intent[j].rec

\* Intents that collect a common account, in whatever status, have the same
\* target: once something collects an account, nothing else ever does.
OneTarget ==
    \A i, j \in Intents :
        IsUsed(i) /\ IsUsed(j) /\ Covers(i) \cap Covers(j) # {} => SameTarget(i, j)

\* A closed intent has a successor, or its accounts are settled or canceled.
OpenIsCollected ==
    \A i \in Intents : \A r \in Covers(i) :
        IsUsed(i) /\ IsOpen(r) => \E j \in Intents : IsActive(j) /\ SameTarget(i, j)

\* The partial unique indexes.
OneActive ==
    \A i, j \in Intents : i # j /\ IsActive(i) /\ IsActive(j) => ~SameTarget(i, j)

\* A reconciliation names an account only in a group that holds it.
AccountOfGroup ==
    \A i \in Intents :
        intent[i].grp # None /\ intent[i].rec # None => intent[i].rec \in Items(intent[i].grp)

NothingLapsed ==
    \A t \in Txs : provider[t].status \in {"NONE", "pending", "approved", "paid"}

\* What a request remembers: no status that closes an unpaid PIX, and a
\* superseded intent comes back only when its accounts are closed.
Recent(s) ==
    LET q == session[s]
    IN  /\ q.pc \in OnTransaction => q.seen \in {"WAITING_PAYMENT", "PAID"}
        /\ q.pc = "settling" => q.account = "PENDENTE" \/ \A r \in q.target : ~IsOpen(r)
        /\ q.pc = "read" /\ q.cur = "SUPERSEDED" /\ IsActive(q.int) =>
              \A r \in Covers(q.int) : ~IsOpen(r)

Rows == OneTarget /\ OpenIsCollected /\ OneActive /\ AccountOfGroup

OneInv == Rows /\ NothingLapsed /\ \A s \in Sessions : Recent(s)

\* What no step takes back while no PIX lapses: rows keep their identity, a
\* settled account stays so, and a closed intent with an open account stays
\* closed.
Settled ==
    /\ \A i \in Intents : IsUsed(i) =>
          /\ intent'[i].status # "NONE"
          /\ intent'[i].grp = intent[i].grp
          /\ intent[i].grp = None => intent'[i].rec = intent[i].rec
    /\ \A g \in Groups : group[g].status # "NONE" => group'[g].share = group[g].share
    /\ \A r \in Receivables : IsOpen(r)' => IsOpen(r)
    /\ \A i \in Intents : IsUsed(i) /\ IsActive(i)' =>
          IsActive(i) \/ \A r \in Covers(i) : ~IsOpen(r)

(***************************************************************************)
(* The operators.                                                          *)
(***************************************************************************)
LEMMA ActiveIsUsed ==
    ASSUME NEW i \in Intents, IsActive(i)
    PROVE  IsUsed(i)
BY DEF IsActive, IsUsed, ActivePixStatuses

LEMMA SameTargetCovers ==
    ASSUME NEW i \in Intents, NEW j \in Intents, SameTarget(i, j)
    PROVE  Covers(i) = Covers(j)
BY DEF SameTarget, Covers

LEMMA SameTargetIsEquivalence ==
    ASSUME NEW i \in Intents, NEW j \in Intents, NEW k \in Intents,
           SameTarget(i, j), SameTarget(i, k)
    PROVE  SameTarget(j, i) /\ SameTarget(j, k)
BY DEF SameTarget

\* The active PIX of some accounts are the active intents that cover one.
LEMMA ActivePixCovers ==
    ASSUME IInv, OneInv, NEW R \in SUBSET Receivables, NEW i \in Intents
    PROVE  i \in ActivePix(R) <=> IsActive(i) /\ Covers(i) \cap R # {}
<1>1. CASE intent[i].grp = None
  BY <1>1, NoneAssumption DEF ActivePix, Covers, IInv, TypeOK
<1>2. CASE intent[i].grp # None
  <2>1. intent[i].rec \in R => Items(intent[i].grp) \cap R # {}
    BY <1>2, NoneAssumption DEF OneInv, Rows, AccountOfGroup
  <2> QED
    BY <1>2, <2>1 DEF ActivePix, Covers
<1> QED
  BY <1>1, <1>2

\* Nothing has ever collected an open account that has no active PIX.
LEMMA Uncollected ==
    ASSUME IInv, OneInv, NEW R \in SUBSET Receivables,
           ActivePix(R) = {}, \A r \in R : IsOpen(r),
           NEW i \in Intents, IsUsed(i)
    PROVE  Covers(i) \cap R = {}
<1> SUFFICES ASSUME NEW r \in R, r \in Covers(i) PROVE FALSE
  OBVIOUS
<1>1. PICK j \in Intents : IsActive(j) /\ SameTarget(i, j)
  BY DEF OneInv, Rows, OpenIsCollected
<1>2. r \in Covers(j)
  BY <1>1, SameTargetCovers
<1> QED
  BY <1>1, <1>2, ActivePixCovers

\* An index that lets an intent become active again found no other active
\* intent of its target.
LEMMA AllowedIsAlone ==
    ASSUME IInv, NEW i \in Intents, NEW row, ActiveIndexAllows(i, row),
           row.status \in ActivePixStatuses, IsUsed(i),
           row.grp = intent[i].grp, row.rec = intent[i].rec,
           NEW j \in Intents, j # i, IsActive(j)
    PROVE  ~SameTarget(i, j)
<1>1. /\ row.rec # None => intent[j].rec # row.rec
      /\ row.grp # None => intent[j].grp # row.grp
  BY DEF ActiveIndexAllows
<1>2. intent[i].grp = None => intent[i].rec # None
  BY DEF IInv, RowsLinked, IsUsed
<1> QED
  BY <1>1, <1>2 DEF SameTarget

(***************************************************************************)
(* What a step keeps.                                                      *)
(***************************************************************************)
LEMMA SettledCovers ==
    ASSUME IInv, Settled, NEW i \in Intents, IsUsed(i)
    PROVE  Covers(i)' = Covers(i)
<1>1. CASE intent[i].grp = None
  BY <1>1 DEF Settled, Covers
<1>2. CASE intent[i].grp # None
  <2>1. intent[i].grp \in Groups /\ group[intent[i].grp].status # "NONE"
    BY <1>2 DEF IInv, TypeOK, RowsLinked
  <2> QED
    BY <1>2, <2>1 DEF Settled, Covers, Items
<1> QED
  BY <1>1, <1>2

LEMMA SettledTargets ==
    ASSUME Settled, NEW i \in Intents, NEW j \in Intents, IsUsed(i), IsUsed(j)
    PROVE  SameTarget(i, j)' <=> SameTarget(i, j)
BY DEF Settled, SameTarget

LEMMA SettledRecent ==
    ASSUME IInv, OneInv, Settled, NEW q \in Sessions, session'[q] = session[q]
    PROVE  Recent(q)'
<1> DEFINE c == session[q]
<1>1. Recent(q) /\ Fits(q) /\ c \in RequestRecord
  BY DEF OneInv, IInv, TypeOK
<1>2. c.pc = "settling" => c.account = "PENDENTE" \/ \A r \in c.target : ~IsOpen(r)'
  BY <1>1 DEF Recent, RequestRecord, Settled
<1>3. ASSUME c.pc = "read", c.cur = "SUPERSEDED", IsActive(c.int)'
      PROVE  \A r \in Covers(c.int)' : ~IsOpen(r)'
  <2>1. c.int \in Intents /\ IsUsed(c.int)
    BY <1>1, <1>3 DEF Fits, OnIntent, IsUsed
  <2>2. \A r \in Covers(c.int) : ~IsOpen(r)
    BY <1>1, <1>3, <2>1 DEF Settled, Recent
  <2> QED
    BY <2>1, <2>2, SettledCovers, CoversAccounts DEF Settled
<1> QED
  BY <1>1, <1>2, <1>3 DEF Recent

LEMMA StepKeepsOne ==
    ASSUME IInv, OneInv, NEW s \in Sessions, Others(s), Settled,
           Rows', NothingLapsed', Recent(s)'
    PROVE  OneInv'
<1>1. ASSUME NEW q \in Sessions PROVE Recent(q)'
  <2>1. CASE q = s
    BY <2>1
  <2>2. CASE q # s
    BY <2>2, SettledRecent DEF Others
  <2> QED
    BY <2>1, <2>2
<1> QED
  BY <1>1 DEF OneInv
(***************************************************************************)
(* What a step does to the table of intents.                               *)
(***************************************************************************)
LEMMA RowsUntouched ==
    ASSUME IInv, OneInv, UNCHANGED intent, SharesKept,
           \A r \in Receivables : IsOpen(r)' => IsOpen(r)
    PROVE  Settled /\ Rows'
<1>1. Settled
  BY DEF Settled, SharesKept, IsUsed, IsActive
<1>2. \A i \in Intents : IsUsed(i)' = IsUsed(i) /\ IsActive(i)' = IsActive(i)
  BY DEF IsUsed, IsActive
<1>3. \A i, j \in Intents : SameTarget(i, j)' <=> SameTarget(i, j)
  BY DEF SameTarget
<1>4. \A i \in Intents : IsUsed(i) => Covers(i)' = Covers(i)
  BY <1>1, SettledCovers
<1>5. OneTarget'
  BY <1>2, <1>3, <1>4 DEF OneTarget, OneInv, Rows
<1>6. OpenIsCollected'
  BY <1>1, <1>2, <1>3, <1>4, CoversAccounts
  DEF OpenIsCollected, OneInv, Rows, Settled
<1>7. OneActive'
  BY <1>2, <1>3 DEF OneActive, OneInv, Rows
<1>8. AccountOfGroup'
  <2> SUFFICES ASSUME NEW i \in Intents, intent[i].grp # None, intent[i].rec # None
               PROVE  intent[i].rec \in Items(intent[i].grp)'
    BY DEF AccountOfGroup
  <2>1. intent[i].grp \in Groups /\ group[intent[i].grp].status # "NONE"
    BY DEF IInv, TypeOK, RowsLinked
  <2>2. intent[i].rec \in Items(intent[i].grp)
    BY DEF OneInv, Rows, AccountOfGroup
  <2> QED
    BY <2>1, <2>2 DEF SharesKept, Items
<1> QED
  BY <1>1, <1>5, <1>6, <1>7, <1>8 DEF Rows

\* An intent gets another status and keeps what it collects.
LEMMA RowRewritten ==
    ASSUME IInv, OneInv, NEW i \in Intents, IsUsed(i), OnlyRow(i), SharesKept,
           intent'[i].status # "NONE", intent'[i].grp = intent[i].grp,
           \/ intent'[i].rec = intent[i].rec
           \/ intent[i].grp # None /\ intent'[i].rec \in Items(intent[i].grp),
           receivable' = receivable,
           IsActive(i)' /\ ~IsActive(i) =>
              \A j \in Intents : IsActive(j) => ~SameTarget(i, j),
           IsActive(i) /\ ~IsActive(i)' => \A r \in Covers(i) : ~IsOpen(r)
    PROVE  Settled /\ Rows'
<1>1. \A j \in Intents : IsUsed(j)' = IsUsed(j)
  BY DEF IsUsed, OnlyRow
<1>2. \A j \in Intents \ {i} : IsActive(j)' = IsActive(j)
  BY DEF IsActive, OnlyRow
<1>3. IsActive(i)' /\ ~IsActive(i) => \A r \in Covers(i) : ~IsOpen(r)
  BY DEF OneInv, Rows, OpenIsCollected
<1>4. Settled
  BY <1>1, <1>2, <1>3 DEF Settled, OnlyRow, SharesKept, IsOpen, IsUsed
<1>5. \A j, k \in Intents : IsUsed(j) /\ IsUsed(k) => (SameTarget(j, k)' <=> SameTarget(j, k))
  BY <1>4, SettledTargets
<1>6. \A j \in Intents : IsUsed(j) => Covers(j)' = Covers(j)
  BY <1>4, SettledCovers
<1>7. OneTarget'
  BY <1>1, <1>5, <1>6 DEF OneTarget, OneInv, Rows
<1>8. OpenIsCollected'
  <2> SUFFICES ASSUME NEW k \in Intents, NEW r \in Covers(k)', IsUsed(k)', IsOpen(r)'
               PROVE  \E j \in Intents : IsActive(j)' /\ SameTarget(k, j)'
    BY DEF OpenIsCollected
  <2>1. IsUsed(k) /\ r \in Covers(k) /\ IsOpen(r)
    BY <1>1, <1>6 DEF IsOpen
  <2>2. PICK j \in Intents : IsActive(j) /\ SameTarget(k, j)
    BY <2>1 DEF OneInv, Rows, OpenIsCollected
  <2>3. IsActive(j)'
    <3>1. r \in Covers(j)
      BY <2>1, <2>2, SameTargetCovers
    <3> QED
      BY <1>2, <2>1, <2>2, <3>1
  <2> QED
    BY <1>5, <2>1, <2>2, <2>3, ActiveIsUsed
<1>9. OneActive'
  <2> SUFFICES ASSUME NEW j \in Intents, NEW k \in Intents, j # k,
                      IsActive(j)', IsActive(k)', SameTarget(j, k)'
               PROVE  FALSE
    BY DEF OneActive
  <2>1. IsUsed(j) /\ IsUsed(k)
    <3>1. IsUsed(j)' /\ IsUsed(k)'
      BY DEF IsActive, IsUsed, ActivePixStatuses
    <3> QED
      BY <1>1, <3>1
  <2>2. SameTarget(j, k) /\ SameTarget(k, j)
    BY <1>5, <2>1 DEF SameTarget
  <2>3. CASE j = i /\ ~IsActive(i)
    BY <1>2, <2>2, <2>3
  <2>4. CASE k = i /\ ~IsActive(i)
    BY <1>2, <2>2, <2>4
  <2>5. CASE IsActive(j) /\ IsActive(k)
    BY <2>2, <2>5 DEF OneInv, Rows, OneActive
  <2> QED
    BY <1>2, <2>3, <2>4, <2>5
<1>10. AccountOfGroup'
  <2> SUFFICES ASSUME NEW j \in Intents, intent'[j].grp # None, intent'[j].rec # None
               PROVE  intent'[j].rec \in Items(intent[j].grp)'
    BY DEF AccountOfGroup
  <2>1. intent'[j].grp = intent[j].grp
    BY DEF OnlyRow
  <2>2. intent[j].grp \in Groups /\ group[intent[j].grp].status # "NONE"
    BY <2>1 DEF IInv, TypeOK, RowsLinked
  <2>3. intent'[j].rec \in Items(intent[j].grp)
    BY <2>1 DEF OnlyRow, OneInv, Rows, AccountOfGroup
  <2> QED
    BY <2>1, <2>2, <2>3 DEF SharesKept, Items
<1> QED
  BY <1>4, <1>7, <1>8, <1>9, <1>10 DEF Rows
\* A first intent for open accounts that have no active PIX.
LEMMA RowAdded ==
    ASSUME IInv, IInv', OneInv, NEW i \in Intents, ~IsUsed(i), OnlyRow(i), SharesKept,
           receivable' = receivable, NEW R \in SUBSET Receivables,
           IsActive(i)', Covers(i)' = R, R # {}, ActivePix(R) = {},
           \A r \in R : IsOpen(r),
           intent'[i].grp = None \/ intent'[i].rec = None
    PROVE  Settled /\ Rows'
<1>1. \A j \in Intents : IsUsed(j)' <=> IsUsed(j) \/ j = i
  BY ActiveIsUsed DEF IsUsed, OnlyRow, IsActive, ActivePixStatuses
<1>2. \A j \in Intents \ {i} : IsActive(j)' = IsActive(j)
  BY DEF IsActive, OnlyRow
<1>3. Settled
  BY <1>1, <1>2 DEF Settled, OnlyRow, SharesKept, IsOpen, IsUsed
<1>4. \A j, k \in Intents : IsUsed(j) /\ IsUsed(k) => (SameTarget(j, k)' <=> SameTarget(j, k))
  BY <1>3, SettledTargets
<1>5. \A j \in Intents : IsUsed(j) => Covers(j)' = Covers(j)
  BY <1>3, SettledCovers
<1>6. \A j \in Intents : IsUsed(j) => Covers(j)' \cap R = {}
  BY <1>5, Uncollected
<1>7. \A j \in Intents : IsUsed(j) => ~SameTarget(i, j)' /\ ~SameTarget(j, i)'
  <2> SUFFICES ASSUME NEW j \in Intents, IsUsed(j),
                      SameTarget(i, j)' \/ SameTarget(j, i)'
               PROVE  FALSE
    OBVIOUS
  <2>1. Covers(i)' = Covers(j)'
    BY DEF SameTarget, Covers
  <2> QED
    BY <1>6, <2>1
<1>8. OneTarget'
  <2> SUFFICES ASSUME NEW j \in Intents, NEW k \in Intents, IsUsed(j)', IsUsed(k)',
                      Covers(j)' \cap Covers(k)' # {}
               PROVE  SameTarget(j, k)'
    BY DEF OneTarget
  <2>1. CASE IsUsed(j) /\ IsUsed(k)
    BY <1>4, <1>5, <2>1 DEF OneTarget, OneInv, Rows
  <2>2. CASE j = i /\ k = i
    BY <2>2 DEF SameTarget
  <2>3. CASE (j = i /\ k # i) \/ (k = i /\ j # i)
    BY <1>1, <1>6, <2>3
  <2> QED
    BY <1>1, <2>1, <2>2, <2>3
<1>9. OpenIsCollected'
  <2> SUFFICES ASSUME NEW k \in Intents, NEW r \in Covers(k)', IsUsed(k)', IsOpen(r)'
               PROVE  \E j \in Intents : IsActive(j)' /\ SameTarget(k, j)'
    BY DEF OpenIsCollected
  <2>1. CASE k = i
    BY <2>1 DEF SameTarget
  <2>2. CASE k # i
    <3>1. IsUsed(k) /\ r \in Covers(k) /\ IsOpen(r)
      BY <1>1, <1>5, <2>2 DEF IsOpen
    <3>2. PICK j \in Intents : IsActive(j) /\ SameTarget(k, j)
      BY <3>1 DEF OneInv, Rows, OpenIsCollected
    <3>3. IsUsed(j) /\ j # i
      BY <3>2, ActiveIsUsed
    <3> QED
      BY <1>2, <1>4, <3>1, <3>2, <3>3
  <2> QED
    BY <2>1, <2>2
<1>10. OneActive'
  <2> SUFFICES ASSUME NEW j \in Intents, NEW k \in Intents, j # k,
                      IsActive(j)', IsActive(k)', SameTarget(j, k)'
               PROVE  FALSE
    BY DEF OneActive
  <2>1. CASE j # i /\ k # i
    <3>1. IsActive(j) /\ IsActive(k) /\ IsUsed(j) /\ IsUsed(k)
      BY <1>2, <2>1, ActiveIsUsed
    <3> QED
      BY <1>4, <3>1 DEF OneActive, OneInv, Rows
  <2>2. CASE j = i \/ k = i
    <3>1. (j = i /\ IsUsed(k)) \/ (k = i /\ IsUsed(j))
      BY <1>2, <2>2, ActiveIsUsed
    <3> QED
      BY <1>7, <3>1
  <2> QED
    BY <2>1, <2>2
<1>11. AccountOfGroup'
  <2> SUFFICES ASSUME NEW j \in Intents, intent'[j].grp # None, intent'[j].rec # None
               PROVE  intent'[j].rec \in Items(intent[j].grp)'
    BY DEF AccountOfGroup
  <2>1. j # i /\ intent'[j] = intent[j]
    BY DEF OnlyRow
  <2>2. intent[j].grp \in Groups /\ group[intent[j].grp].status # "NONE"
    BY <2>1 DEF IInv, TypeOK, RowsLinked
  <2>3. intent[j].rec \in Items(intent[j].grp)
    BY <2>1 DEF OneInv, Rows, AccountOfGroup
  <2> QED
    BY <2>1, <2>2, <2>3 DEF SharesKept, Items
<1> QED
  BY <1>3, <1>8, <1>9, <1>10, <1>11 DEF Rows

\* A replacement: an intent is superseded by a new one of the same target.
LEMMA RowReplaced ==
    ASSUME IInv, OneInv, NEW i \in Intents, NEW j \in Intents, IsUsed(i), ~IsUsed(j),
           UNCHANGED <<receivable, group>>,
           \A k \in Intents \ {i, j} : intent'[k] = intent[k],
           intent'[i] = [intent[i] EXCEPT !.status = "SUPERSEDED"],
           intent'[j].status = "WAITING_PAYMENT",
           intent'[j].grp = intent[i].grp, intent'[j].rec = intent[i].rec,
           ActiveIndexAllows(i, intent'[j])
    PROVE  Settled /\ Rows'
<1>1. /\ i # j /\ intent'[i].status = "SUPERSEDED"
      /\ intent'[i].grp = intent[i].grp /\ intent'[i].rec = intent[i].rec
  BY DEF IInv, TypeOK
<1>2. \A k \in Intents : IsUsed(k)' <=> IsUsed(k) \/ k = j
  BY <1>1 DEF IsUsed
<1>3. /\ \A k \in Intents \ {i, j} : IsActive(k)' = IsActive(k)
      /\ ~IsActive(i)' /\ IsActive(j)'
  BY <1>1 DEF IsActive, ActivePixStatuses
<1>4. Settled
  BY <1>1, <1>2, <1>3 DEF Settled, IsOpen, IsUsed
<1>5. \A k, l \in Intents : IsUsed(k) /\ IsUsed(l) => (SameTarget(k, l)' <=> SameTarget(k, l))
  BY <1>4, SettledTargets
<1>6. \A k \in Intents : IsUsed(k) => Covers(k)' = Covers(k)
  BY <1>4, SettledCovers
<1>7. /\ SameTarget(i, j)' /\ SameTarget(j, i)' /\ Covers(j)' = Covers(i)
      /\ \A k \in Intents : IsUsed(k) =>
            /\ SameTarget(j, k)' <=> SameTarget(i, k)
            /\ SameTarget(k, j)' <=> SameTarget(k, i)
  <2>1. SameTarget(i, j)' /\ SameTarget(j, i)'
    BY <1>1 DEF SameTarget
  <2>2. Covers(j)' = Covers(i)'
    BY <1>1 DEF Covers, Items
  <2>3. \A k \in Intents : IsUsed(k) =>
            /\ SameTarget(j, k)' <=> SameTarget(i, k)'
            /\ SameTarget(k, j)' <=> SameTarget(k, i)'
    BY <1>1 DEF SameTarget
  <2> QED
    BY <1>5, <1>6, <2>1, <2>2, <2>3
<1>8. OneTarget'
  <2> SUFFICES ASSUME NEW k \in Intents, NEW l \in Intents, IsUsed(k)', IsUsed(l)',
                      Covers(k)' \cap Covers(l)' # {}
               PROVE  SameTarget(k, l)'
    BY DEF OneTarget
  <2>1. CASE k # j /\ l # j
    BY <1>2, <1>5, <1>6, <2>1 DEF OneTarget, OneInv, Rows
  <2>2. CASE k = j /\ l # j
    BY <1>2, <1>6, <1>7, <2>2 DEF OneTarget, OneInv, Rows
  <2>3. CASE k # j /\ l = j
    BY <1>2, <1>6, <1>7, <2>3 DEF OneTarget, OneInv, Rows
  <2>4. CASE k = j /\ l = j
    BY <2>4 DEF SameTarget
  <2> QED
    BY <2>1, <2>2, <2>3, <2>4
<1>9. OpenIsCollected'
  <2> SUFFICES ASSUME NEW k \in Intents, NEW r \in Covers(k)', IsUsed(k)', IsOpen(r)'
               PROVE  \E l \in Intents : IsActive(l)' /\ SameTarget(k, l)'
    BY DEF OpenIsCollected
  <2>1. CASE k = j
    BY <1>3, <2>1 DEF SameTarget
  <2>2. CASE k # j
    <3>1. IsUsed(k) /\ r \in Covers(k) /\ IsOpen(r)
      BY <1>2, <1>6, <2>2 DEF IsOpen
    <3>2. PICK l \in Intents : IsActive(l) /\ SameTarget(k, l)
      BY <3>1 DEF OneInv, Rows, OpenIsCollected
    <3>3. CASE l = i
      BY <1>3, <1>7, <3>1, <3>2, <3>3
    <3>4. CASE l # i
      BY <1>3, <1>5, <3>1, <3>2, <3>4, ActiveIsUsed
    <3> QED
      BY <3>3, <3>4
  <2> QED
    BY <2>1, <2>2
<1>10. OneActive'
  <2>1. \A k \in Intents \ {i, j} : IsActive(k) => ~SameTarget(i, k)
    <3> SUFFICES ASSUME NEW k \in Intents \ {i, j}, IsActive(k)
                 PROVE  ~SameTarget(i, k)
      OBVIOUS
    <3>1. /\ intent'[j].rec # None => intent[k].rec # intent'[j].rec
          /\ intent'[j].grp # None => intent[k].grp # intent'[j].grp
      BY DEF ActiveIndexAllows, ActivePixStatuses
    <3>2. intent[i].grp = None => intent[i].rec # None
      BY DEF IInv, RowsLinked, IsUsed
    <3> QED
      BY <3>1, <3>2 DEF SameTarget
  <2> SUFFICES ASSUME NEW k \in Intents, NEW l \in Intents, k # l,
                      IsActive(k)', IsActive(l)', SameTarget(k, l)'
               PROVE  FALSE
    BY DEF OneActive
  <2>2. k # i /\ l # i
    BY <1>3
  <2>3. CASE k # j /\ l # j
    BY <1>3, <1>5, <2>2, <2>3, ActiveIsUsed DEF OneActive, OneInv, Rows
  <2>4. CASE k = j
    BY <1>3, <1>7, <2>1, <2>2, <2>4, ActiveIsUsed
  <2>5. CASE l = j
    <3>1. SameTarget(k, i)
      BY <1>3, <1>7, <2>2, <2>5, ActiveIsUsed
    <3> QED
      BY <1>3, <2>1, <2>2, <2>5, <3>1 DEF SameTarget
  <2> QED
    BY <2>3, <2>4, <2>5
<1>11. AccountOfGroup'
  <2>1. \A g \in Groups : Items(g)' = Items(g)
    BY DEF Items
  <2> QED
    BY <1>1, <2>1 DEF AccountOfGroup, OneInv, Rows, IInv, TypeOK
<1> QED
  BY <1>4, <1>8, <1>9, <1>10, <1>11 DEF Rows
\* Intents of accounts that are closed by the step stop collecting them.
LEMMA RowsClosed ==
    ASSUME IInv, OneInv, SharesKept,
           \A r \in Receivables : IsOpen(r)' => IsOpen(r),
           \A i \in Intents :
              \/ intent'[i] = intent[i]
              \/ /\ IsUsed(i) /\ intent'[i].status # "NONE" /\ ~IsActive(i)'
                 /\ intent'[i].grp = intent[i].grp /\ intent'[i].rec = intent[i].rec
                 /\ \A r \in Covers(i) : ~IsOpen(r)'
    PROVE  Settled /\ Rows'
<1>1. \A i \in Intents :
        /\ IsUsed(i)' = IsUsed(i)
        /\ IsActive(i)' => IsActive(i)
        /\ intent'[i].grp = intent[i].grp /\ intent'[i].rec = intent[i].rec
  BY DEF IsUsed, IsActive
<1>2. Settled
  BY <1>1 DEF Settled, SharesKept, IsUsed
<1>3. \A i, j \in Intents : SameTarget(i, j)' <=> SameTarget(i, j)
  BY <1>1 DEF SameTarget
<1>4. \A i \in Intents : IsUsed(i) => Covers(i)' = Covers(i)
  BY <1>2, SettledCovers
<1>5. OneTarget'
  BY <1>1, <1>3, <1>4 DEF OneTarget, OneInv, Rows
<1>6. OpenIsCollected'
  <2> SUFFICES ASSUME NEW i \in Intents, NEW r \in Covers(i)', IsUsed(i)', IsOpen(r)'
               PROVE  \E j \in Intents : IsActive(j)' /\ SameTarget(i, j)'
    BY DEF OpenIsCollected
  <2>1. IsUsed(i) /\ r \in Covers(i) /\ r \in Receivables /\ IsOpen(r)
    BY <1>1, <1>4, CoversAccounts
  <2>2. PICK j \in Intents : IsActive(j) /\ SameTarget(i, j)
    BY <2>1 DEF OneInv, Rows, OpenIsCollected
  <2>3. r \in Covers(j)
    BY <2>1, <2>2, SameTargetCovers
  <2>4. IsActive(j)'
    BY <2>2, <2>3 DEF IsActive
  <2> QED
    BY <1>3, <2>2, <2>4
<1>7. OneActive'
  BY <1>1, <1>3 DEF OneActive, OneInv, Rows
<1>8. AccountOfGroup'
  <2> SUFFICES ASSUME NEW i \in Intents, intent[i].grp # None, intent[i].rec # None
               PROVE  intent[i].rec \in Items(intent[i].grp)'
    BY <1>1 DEF AccountOfGroup
  <2>1. intent[i].grp \in Groups /\ group[intent[i].grp].status # "NONE"
    BY DEF IInv, TypeOK, RowsLinked
  <2>2. intent[i].rec \in Items(intent[i].grp)
    BY DEF OneInv, Rows, AccountOfGroup
  <2> QED
    BY <2>1, <2>2 DEF SharesKept, Items
<1> QED
  BY <1>2, <1>5, <1>6, <1>7, <1>8 DEF Rows

(***************************************************************************)
(* What a request remembers.                                               *)
(***************************************************************************)
LEMMA ReportsNoLapse ==
    ASSUME NEW external \in {"NONE", "pending", "approved", "paid"}
    PROVE  NormalizeStatus(external) \in {"WAITING_PAYMENT", "PAID"}
BY DEF NormalizeStatus

LEMMA ReportedIsRecent ==
    ASSUME NEW s \in Sessions, NEW i, NEW t, NEW st \in {"WAITING_PAYMENT", "PAID"},
           session'[s] = Reported(i, t, st)
    PROVE  Recent(s)'
<1>1. session'[s].pc = "reported" /\ session'[s].seen = st
  BY DEF Reported, Idle
<1> QED
  BY <1>1 DEF Recent

LEMMA FinishedIsRecent ==
    ASSUME TypeOK, NEW s \in Sessions, Finish(s)
    PROVE  Others(s) /\ Recent(s)'
<1>1. Others(s) /\ session'[s] = Idle
  BY Advances DEF Finish, Continue
<1> QED
  BY <1>1 DEF Recent, Idle, OnTransaction

\* Steps that only move a request.
LEMMA RequestMovesOne ==
    ASSUME IInv, OneInv, NEW s \in Sessions, Others(s), Recent(s)',
           UNCHANGED <<receivable, intent, group, provider>>
    PROVE  OneInv'
<1>1. Settled /\ Rows'
  BY RowsUntouched DEF SharesKept, IsOpen
<1>2. NothingLapsed'
  BY DEF OneInv, NothingLapsed
<1> QED
  BY <1>1, <1>2, StepKeepsOne

LEMMA StartsOne ==
    ASSUME IInv, OneInv, NEW s \in Sessions, NEW q, Start(s, q),
           q.pc \notin OnTransaction,
           UNCHANGED <<receivable, intent, group, provider>>
    PROVE  OneInv'
<1>1. Others(s) /\ session'[s] = q
  BY Advances DEF Start, IInv
<1>2. Recent(s)'
  BY <1>1 DEF Recent, OnTransaction
<1> QED
  BY <1>1, <1>2, RequestMovesOne

LEMMA EndingKeepsOne ==
    ASSUME IInv, OneInv, NEW s \in Sessions,
           \/ RefuseReconciliation(s) \/ UniqueViolation(s) \/ ProviderRefusesPix(s)
           \/ DeadlockVictim(s) \/ Abandon(s)
    PROVE  OneInv'
<1>1. Finish(s) /\ UNCHANGED <<receivable, intent, group, provider>>
  BY DEF RefuseReconciliation, UniqueViolation, ProviderRefusesPix, DeadlockVictim, Abandon
<1> QED
  BY <1>1, FinishedIsRecent, RequestMovesOne DEF IInv

LEMMA InspectReplacementKeepsOne ==
    ASSUME IInv, OneInv, NEW s \in Sessions, NEW r, NEW i, InspectReplacement(s, r, i)
    PROVE  OneInv'
BY StartsOne DEF InspectReplacement, Idle, OnTransaction

LEMMA InspectGroupReplacementKeepsOne ==
    ASSUME IInv, OneInv, NEW s \in Sessions, NEW i, InspectGroupReplacement(s, i)
    PROVE  OneInv'
BY StartsOne DEF InspectGroupReplacement, Idle, OnTransaction

LEMMA ReadsKeepOne ==
    ASSUME IInv, OneInv, NEW s \in Sessions, NEW R, NEW grouped \in BOOLEAN, NEW r,
           ReadPayment(s, R, grouped) \/ ReadCancellation(s, r) \/ ReadReprice(s, r)
    PROVE  OneInv'
<1>1. CASE ReadPayment(s, R, grouped)
  BY <1>1, StartsOne DEF ReadPayment, Idle, OnTransaction
<1>2. CASE ReadCancellation(s, r) \/ ReadReprice(s, r)
  BY <1>2, StartsOne DEF ReadCancellation, ReadReprice, Idle, OnTransaction
<1> QED
  BY <1>1, <1>2

LEMMA FetchReconciliationKeepsOne ==
    ASSUME IInv, OneInv, NEW s \in Sessions, NEW r \in Receivables, NEW t \in Txs,
           FetchReconciliation(s, r, t)
    PROVE  OneInv'
<1> DEFINE st == NormalizeStatus(provider[t].status)
           q == [Idle EXCEPT !.pc = "fetched", !.target = {r}, !.ptx = t, !.seen = st]
<1>1. session' = [session EXCEPT ![s] = q] /\ UNCHANGED <<receivable, intent, group, provider>>
  BY DEF FetchReconciliation, Start
<1>2. st \in {"WAITING_PAYMENT", "PAID"}
  BY ReportsNoLapse DEF OneInv, NothingLapsed
<1>3. Others(s) /\ session'[s] = q
  BY <1>1, Advances DEF IInv
<1>4. Recent(s)'
  BY <1>2, <1>3 DEF Recent, Idle
<1> QED
  BY <1>1, <1>3, <1>4, RequestMovesOne

LEMMA SyncPaymentIntentKeepsOne ==
    ASSUME IInv, OneInv, NEW s \in Sessions, NEW i \in Intents, SyncPaymentIntent(s, i)
    PROVE  OneInv'
<1> DEFINE t == intent[i].ptx
           st == NormalizeStatus(provider[t].status)
<1>1. /\ session' = [session EXCEPT ![s] = Reported(i, t, st)]
      /\ UNCHANGED <<receivable, intent, group, provider>>
  BY DEF SyncPaymentIntent, Start
<1>2. t \in Txs
  BY DEF SyncPaymentIntent, IInv, TypeOK
<1>3. st \in {"WAITING_PAYMENT", "PAID"}
  BY <1>2, ReportsNoLapse DEF OneInv, NothingLapsed
<1>4. Others(s) /\ session'[s] = Reported(i, t, st)
  BY <1>1, Advances DEF IInv
<1> QED
  BY <1>1, <1>3, <1>4, ReportedIsRecent, RequestMovesOne

LEMMA ProcessPaymentWebhookKeepsOne ==
    ASSUME IInv, OneInv, NEW s \in Sessions, NEW i \in Intents, NEW external,
           ProcessPaymentWebhook(s, i, external)
    PROVE  OneInv'
<1> DEFINE t == intent[i].ptx
           st == NormalizeStatus(external)
<1>1. /\ session' = [session EXCEPT ![s] = Reported(i, t, st)]
      /\ UNCHANGED <<receivable, intent, group, provider>>
      /\ external \in Notified(t)
  BY DEF ProcessPaymentWebhook, Start
<1>2. t \in Txs
  BY DEF ProcessPaymentWebhook, IInv, TypeOK
<1>3. external \in {"NONE", "pending", "approved", "paid"}
  BY <1>1, <1>2 DEF Notified, OneInv, NothingLapsed
<1>4. st \in {"WAITING_PAYMENT", "PAID"}
  BY <1>3, ReportsNoLapse
<1>5. Others(s) /\ session'[s] = Reported(i, t, st)
  BY <1>1, Advances DEF IInv
<1> QED
  BY <1>1, <1>4, <1>5, ReportedIsRecent, RequestMovesOne

LEMMA RecoverReplacementKeepsOne ==
    ASSUME IInv, OneInv, NEW s \in Sessions, NEW t \in Txs, RecoverReplacement(s, t)
    PROVE  OneInv'
<1> DEFINE st == NormalizeStatus(provider[t].status)
           q == [session[s] EXCEPT !.pc = "replacement", !.ptx = t, !.seen = st]
<1>1. session' = [session EXCEPT ![s] = q] /\ UNCHANGED <<receivable, intent, group, provider>>
  BY DEF RecoverReplacement, Continue
<1>2. st \in {"WAITING_PAYMENT", "PAID"}
  BY ReportsNoLapse DEF OneInv, NothingLapsed
<1>3. session[s] \in RequestRecord
  BY DEF IInv, TypeOK
<1>4. Others(s) /\ session'[s] = q
  BY <1>1, Advances DEF IInv
<1>5. q.pc = "replacement" /\ q.seen = st
  BY <1>3 DEF RequestRecord
<1> HIDE DEF q, st
<1>6. Recent(s)'
  BY <1>2, <1>4, <1>5 DEF Recent
<1> QED
  BY <1>1, <1>4, <1>6, RequestMovesOne

LEMMA AdoptExistingKeepsOne ==
    ASSUME IInv, OneInv, NEW s \in Sessions, AdoptExisting(s)
    PROVE  OneInv'
<1>1. UNCHANGED <<receivable, intent, group, provider>>
  BY DEF AdoptExisting
<1>2. PICK i \in IntentsOf(session[s].ptx) : ThenSettle(s, i, intent[i].status = "PAID")
  BY DEF AdoptExisting
<1>3. CASE session' = [session EXCEPT ![s] = Reported(i, session[s].ptx, "PAID")]
  <2>1. Others(s) /\ session'[s] = Reported(i, session[s].ptx, "PAID")
    BY <1>3, Advances DEF IInv
  <2> QED
    BY <1>1, <2>1, ReportedIsRecent, RequestMovesOne
<1>4. CASE Finish(s)
  BY <1>1, <1>4, FinishedIsRecent, RequestMovesOne DEF IInv
<1> QED
  BY <1>2, <1>3, <1>4 DEF ThenSettle, Continue

LEMMA ReadIntentKeepsOne ==
    ASSUME IInv, OneInv, NEW s \in Sessions, ReadIntent(s)
    PROVE  OneInv'
<1> DEFINE i == session[s].int
           q == [session[s] EXCEPT !.pc = "read", !.grp = intent[i].grp,
                                   !.cur = intent[i].status]
<1>1. session[s].pc = "reported" /\ UNCHANGED <<receivable, intent, group, provider>>
  BY DEF ReadIntent
<1>2. session[s] \in RequestRecord /\ Recent(s)
  BY DEF IInv, TypeOK, OneInv
<1>3. CASE session' = [session EXCEPT ![s] = q]
  <2>1. /\ q.pc = "read" /\ q.seen = session[s].seen /\ q.int = i
        /\ q.cur = intent[i].status
    BY <1>2 DEF RequestRecord
  <2>2. q.seen \in {"WAITING_PAYMENT", "PAID"}
    BY <1>1, <1>2, <2>1 DEF Recent, OnTransaction
  <2>3. q.cur = "SUPERSEDED" => ~IsActive(i)
    BY <2>1 DEF IsActive, ActivePixStatuses
  <2>4. Others(s) /\ session'[s] = q
    BY <1>3, Advances DEF IInv
  <2> HIDE DEF q, i
  <2>5. Recent(s)'
    BY <1>1, <2>1, <2>2, <2>3, <2>4 DEF Recent, IsActive
  <2> QED
    BY <1>1, <2>4, <2>5, RequestMovesOne
<1>4. CASE Finish(s)
  BY <1>1, <1>4, FinishedIsRecent, RequestMovesOne DEF IInv
<1> QED
  BY <1>3, <1>4 DEF ReadIntent, Continue

LEMMA AcquireIntentKeepsOne ==
    ASSUME IInv, OneInv, NEW s \in Sessions, AcquireIntent(s)
    PROVE  OneInv'
<1> DEFINE r == intent[session[s].int].rec
           q == [session[s] EXCEPT
                    !.pc = "settling", !.target = {r}, !.share = ShareOf({r}),
                    !.account = receivable[r], !.booking = revenue[r]]
<1>1. /\ session[s].seen = "PAID" /\ UNCHANGED <<receivable, intent, group, provider>>
      /\ session[s] \in RequestRecord
  BY DEF AcquireIntent, IInv, TypeOK
<1>2. CASE session' = [session EXCEPT ![s] = q]
  <2>1. q.pc = "settling" /\ q.seen = "PAID" /\ q.target = {r} /\ q.account = receivable[r]
    BY <1>1 DEF RequestRecord
  <2>2. Others(s) /\ session'[s] = q
    BY <1>2, Advances DEF IInv
  <2> HIDE DEF q, r
  <2>3. Recent(s)'
    BY <1>1, <2>1, <2>2 DEF Recent, IsOpen
  <2> QED
    BY <1>1, <2>2, <2>3, RequestMovesOne
<1>3. CASE Finish(s)
  BY <1>1, <1>3, FinishedIsRecent, RequestMovesOne DEF IInv
<1> QED
  BY <1>2, <1>3 DEF AcquireIntent, Continue

LEMMA AcquireGroupKeepsOne ==
    ASSUME IInv, OneInv, NEW s \in Sessions, AcquireGroup(s)
    PROVE  OneInv'
<1> DEFINE R == Items(session[s].grp)
           q == [session[s] EXCEPT !.pc = "settlingGroup", !.target = R,
                                   !.share = ShareOf(R)]
<1>1. /\ session[s].seen = "PAID" /\ UNCHANGED <<receivable, intent, group, provider>>
      /\ session[s] \in RequestRecord
  BY DEF AcquireGroup, IInv, TypeOK
<1>2. CASE session' = [session EXCEPT ![s] = q]
  <2>1. q.pc = "settlingGroup" /\ q.seen = "PAID"
    BY <1>1 DEF RequestRecord
  <2>2. Others(s) /\ session'[s] = q
    BY <1>2, Advances DEF IInv
  <2> HIDE DEF q
  <2>3. Recent(s)'
    BY <2>1, <2>2 DEF Recent
  <2> QED
    BY <1>1, <2>2, <2>3, RequestMovesOne
<1>3. CASE Finish(s)
  BY <1>1, <1>3, FinishedIsRecent, RequestMovesOne DEF IInv
<1> QED
  BY <1>2, <1>3 DEF AcquireGroup, Continue
(***************************************************************************)
(* Steps that write rows.                                                  *)
(***************************************************************************)
LEMMA ReservePixKeepsOne ==
    ASSUME IInv, OneInv, NEW s \in Sessions, NEW r \in Receivables, ReservePix(s, r)
    PROVE  OneInv'
<1>1. PICK i \in Intents :
        /\ UnusedIntent(i)
        /\ intent' = [intent EXCEPT ![i] = [NoIntent EXCEPT !.status = "CREATED", !.rec = r]]
        /\ Start(s, [Idle EXCEPT !.pc = "reserved", !.target = {r},
                                 !.share = ShareOf({r}), !.int = i])
  BY DEF ReservePix
<1>2. /\ UNCHANGED <<receivable, group, provider>> /\ IsOpen(r) /\ ActivePix({r}) = {}
      /\ ~IsUsed(i)
  BY <1>1 DEF ReservePix, IsOpen, IsUsed, UnusedIntent
<1>3. /\ intent'[i].status = "CREATED" /\ intent'[i].rec = r /\ intent'[i].grp = None
      /\ OnlyRow(i)
  BY <1>1 DEF IInv, TypeOK, NoIntent, OnlyRow
<1>4. IsActive(i)' /\ Covers(i)' = {r}
  BY <1>3 DEF IsActive, ActivePixStatuses, Covers
<1>5. IInv'
  BY ReservePixKeeps
<1>6. Settled /\ Rows'
  <2>1. SharesKept /\ {r} \in SUBSET Receivables /\ {r} # {} /\ \A x \in {r} : IsOpen(x)
    BY <1>2 DEF SharesKept
  <2> QED
    BY <1>2, <1>3, <1>4, <1>5, <2>1, RowAdded
<1> DEFINE q == [Idle EXCEPT !.pc = "reserved", !.target = {r},
                             !.share = ShareOf({r}), !.int = i]
<1>7. Others(s) /\ session'[s] = q
  BY <1>1, Advances DEF Start, IInv
<1>8. Recent(s)'
  BY <1>7 DEF Recent, Idle, OnTransaction
<1>9. NothingLapsed'
  BY <1>2 DEF OneInv, NothingLapsed
<1> QED
  BY <1>6, <1>7, <1>8, <1>9, StepKeepsOne

LEMMA ReserveGroupPixKeepsOne ==
    ASSUME IInv, OneInv, NEW s \in Sessions, NEW R \in SUBSET Receivables, R # {},
           ReserveGroupPix(s, R)
    PROVE  OneInv'
<1>1. PICK i \in Intents, g \in Groups :
        /\ UnusedIntent(i) /\ UnusedGroup(g)
        /\ intent' = [intent EXCEPT ![i] = [NoIntent EXCEPT !.status = "CREATED", !.grp = g]]
        /\ group' = [group EXCEPT ![g] = [status |-> "CREATED", share |-> ShareOf(R)]]
        /\ Start(s, [Idle EXCEPT !.pc = "reserved", !.target = R,
                                 !.share = ShareOf(R), !.int = i, !.grp = g])
  BY DEF ReserveGroupPix
<1>2. /\ UNCHANGED <<receivable, provider>> /\ ActivePix(R) = {} /\ ~IsUsed(i)
      /\ \A r \in R : IsOpen(r)
  BY <1>1 DEF ReserveGroupPix, Payable, IsOpen, IsUsed, UnusedIntent
<1>3. /\ intent'[i].status = "CREATED" /\ intent'[i].rec = None /\ intent'[i].grp = g
      /\ OnlyRow(i)
  BY <1>1 DEF IInv, TypeOK, NoIntent, OnlyRow
<1>4. /\ group'[g].share = ShareOf(R) /\ SharesKept
  BY <1>1 DEF IInv, TypeOK, UnusedGroup, SharesKept
<1>5. IsActive(i)' /\ Covers(i)' = R
  <2>1. \A r \in Receivables : ShareOf(R)[r] # 0 <=> r \in R
    BY SharesOfAccounts, AmountsAssumption DEF IInv
  <2>2. Covers(i)' = {r \in Receivables : group'[g].share[r] # 0}
    BY <1>3, NoneAssumption DEF Covers, Items
  <2> QED
    BY <1>3, <1>4, <2>1, <2>2 DEF IsActive, ActivePixStatuses
<1>6. IInv'
  BY ReserveGroupPixKeeps
<1>7. Settled /\ Rows'
  BY <1>2, <1>3, <1>4, <1>5, <1>6, RowAdded
<1> DEFINE q == [Idle EXCEPT !.pc = "reserved", !.target = R,
                             !.share = ShareOf(R), !.int = i, !.grp = g]
<1>8. Others(s) /\ session'[s] = q
  BY <1>1, Advances DEF Start, IInv
<1>9. Recent(s)'
  BY <1>8 DEF Recent, Idle, OnTransaction
<1>10. NothingLapsed'
  BY <1>2 DEF OneInv, NothingLapsed
<1> QED
  BY <1>7, <1>8, <1>9, <1>10, StepKeepsOne

LEMMA ProviderCreatePixKeepsOne ==
    ASSUME IInv, OneInv, NEW s \in Sessions, ProviderCreatePix(s)
    PROVE  OneInv'
<1>1. PICK t \in Txs :
        /\ provider' = [provider EXCEPT ![t] =
               [status |-> "pending", share |-> session[s].share]]
        /\ Continue(s, [session[s] EXCEPT
               !.pc = IF session[s].pc = "reserved" THEN "created" ELSE "replacement",
               !.ptx = t, !.seen = "WAITING_PAYMENT"])
  BY DEF ProviderCreatePix
<1>2. UNCHANGED <<receivable, intent, group>> /\ session[s] \in RequestRecord
  BY DEF ProviderCreatePix, IInv, TypeOK
<1>3. PICK pc \in {"created", "replacement"} :
        session' = [session EXCEPT ![s] = [session[s] EXCEPT
                       !.pc = pc, !.ptx = t, !.seen = "WAITING_PAYMENT"]]
  BY <1>1 DEF Continue
<1> DEFINE q == [session[s] EXCEPT !.pc = pc, !.ptx = t, !.seen = "WAITING_PAYMENT"]
<1>4. q.pc \in {"created", "replacement"} /\ q.seen = "WAITING_PAYMENT"
  BY <1>2 DEF RequestRecord
<1>5. Others(s) /\ session'[s] = q
  BY <1>3, Advances DEF IInv
<1> HIDE DEF q
<1>6. Recent(s)'
  BY <1>4, <1>5 DEF Recent
<1>7. NothingLapsed'
  BY <1>1 DEF OneInv, NothingLapsed, IInv, TypeOK
<1>8. Settled /\ Rows'
  BY <1>2, RowsUntouched DEF SharesKept, IsOpen
<1> QED
  BY <1>5, <1>6, <1>7, <1>8, StepKeepsOne

LEMMA FinishPixKeepsOne ==
    ASSUME IInv, OneInv, NEW s \in Sessions, FinishPix(s)
    PROVE  OneInv'
<1>1. session[s].pc = "created" /\ Fits(s)
  BY DEF FinishPix, IInv
<1>2. PICK i \in Intents, t \in Txs :
        i = session[s].int /\ t = session[s].ptx /\ IsUsed(i)
  BY <1>1 DEF Fits, OnIntent, OnTransaction, IsUsed
<1> DEFINE row == [intent[i] EXCEPT !.status = "WAITING_PAYMENT", !.ptx = t]
<1>3. /\ intent' = [intent EXCEPT ![i] = row] /\ Finish(s)
      /\ UNCHANGED <<receivable, provider>> /\ ActiveIndexAllows(i, row)
  BY <1>2 DEF FinishPix
<1>4. row.status = "WAITING_PAYMENT" /\ row.grp = intent[i].grp /\ row.rec = intent[i].rec
  BY DEF IInv, TypeOK
<1> HIDE DEF row
<1>5. intent'[i] = row /\ OnlyRow(i)
  BY <1>3 DEF IInv, TypeOK, OnlyRow
<1>6. SharesKept
  BY GroupStatusKeepsShares DEF FinishPix, IInv
<1>7. \A j \in Intents : IsActive(j) => j = i \/ ~SameTarget(i, j)
  BY <1>2, <1>3, <1>4, AllowedIsAlone DEF ActivePixStatuses
<1>8. Settled /\ Rows'
  BY <1>2, <1>3, <1>4, <1>5, <1>6, <1>7, RowRewritten DEF IsActive, ActivePixStatuses
<1>9. Others(s) /\ Recent(s)' /\ NothingLapsed'
  BY <1>3, FinishedIsRecent DEF IInv, OneInv, NothingLapsed
<1> QED
  BY <1>8, <1>9, StepKeepsOne

LEMMA ApplyUnpaidStatusKeepsOne ==
    ASSUME IInv, OneInv, NEW s \in Sessions, ApplyUnpaidStatus(s)
    PROVE  OneInv'
<1>1. /\ session[s].pc = "read" /\ session[s].seen = "WAITING_PAYMENT"
      /\ Fits(s) /\ Recent(s)
  BY DEF ApplyUnpaidStatus, IInv, OneInv, Recent, OnTransaction
<1>2. PICK i \in Intents : i = session[s].int /\ IsUsed(i)
  BY <1>1 DEF Fits, OnIntent, IsUsed
<1> DEFINE row == UnpaidRow(s)
<1>3. /\ intent' = [intent EXCEPT ![i] = row] /\ Finish(s)
      /\ UNCHANGED <<receivable, provider>> /\ ActiveIndexAllows(i, row)
  BY <1>2 DEF ApplyUnpaidStatus
<1>4. /\ row.status = IF session[s].cur = "SUPERSEDED" THEN "SUPERSEDED" ELSE "WAITING_PAYMENT"
      /\ row.grp = intent[i].grp /\ row.rec = intent[i].rec
  BY <1>1, <1>2 DEF UnpaidRow, IInv, TypeOK, ActivePixStatuses
<1> HIDE DEF row
<1>5. intent'[i] = row /\ OnlyRow(i)
  BY <1>3 DEF IInv, TypeOK, OnlyRow
<1>6. SharesKept
  BY GroupStatusKeepsShares DEF ApplyUnpaidStatus, IInv
<1>7. IsActive(i)' => \A j \in Intents : IsActive(j) => j = i \/ ~SameTarget(i, j)
  BY <1>2, <1>3, <1>4, <1>5, AllowedIsAlone DEF IsActive
<1>8. IsActive(i) /\ ~IsActive(i)' => \A r \in Covers(i) : ~IsOpen(r)
  BY <1>1, <1>2, <1>4, <1>5 DEF Recent, IsActive, ActivePixStatuses
<1>9. intent'[i].status # "NONE" /\ receivable' = receivable
  BY <1>3, <1>4, <1>5
<1>10. Settled /\ Rows'
  BY <1>2, <1>4, <1>5, <1>6, <1>7, <1>8, <1>9, RowRewritten
<1>11. Others(s) /\ Recent(s)' /\ NothingLapsed'
  BY <1>3, FinishedIsRecent DEF IInv, OneInv, NothingLapsed
<1> QED
  BY <1>10, <1>11, StepKeepsOne

LEMMA CommitReplacementKeepsOne ==
    ASSUME IInv, OneInv, NEW s \in Sessions, CommitReplacement(s)
    PROVE  OneInv'
<1>1. session[s].pc = "replacement" /\ Fits(s)
  BY DEF CommitReplacement, IInv
<1>2. PICK i \in Intents, t \in Txs :
        /\ i = session[s].int /\ t = session[s].ptx
        /\ IsUsed(i) /\ session[s].grp = intent[i].grp
  BY <1>1 DEF Fits, OnIntent, OnTransaction, OnGroup, IsUsed
<1> DEFINE old == [intent[i] EXCEPT !.status = "SUPERSEDED"]
           new == [status |-> "WAITING_PAYMENT", rec |-> intent[i].rec,
                   grp |-> intent[i].grp, ptx |-> t]
<1>3. PICK j \in Intents :
        /\ ~IsUsed(j) /\ ActiveIndexAllows(i, new)
        /\ intent' = [intent EXCEPT ![i] = old, ![j] = new]
        /\ IF session[s].seen = "PAID" THEN Continue(s, Reported(j, t, "PAID")) ELSE Finish(s)
  BY <1>2 DEF CommitReplacement, UnusedIntent, IsUsed
<1>4. UNCHANGED <<receivable, group, provider>>
  BY DEF CommitReplacement
<1>5. i # j
  BY <1>2, <1>3
<1>6. /\ intent'[i] = old /\ intent'[j] = new
      /\ \A k \in Intents \ {i, j} : intent'[k] = intent[k]
  BY <1>3, <1>5 DEF IInv, TypeOK
<1>7. Settled /\ Rows'
  <2>1. /\ intent'[j].status = "WAITING_PAYMENT" /\ intent'[j].grp = intent[i].grp
        /\ intent'[j].rec = intent[i].rec /\ ActiveIndexAllows(i, intent'[j])
    BY <1>3, <1>6
  <2> QED
    BY <1>2, <1>3, <1>4, <1>6, <2>1, RowReplaced
<1>8. Others(s) /\ Recent(s)'
  <2>1. CASE session[s].seen = "PAID"
    <3>1. Others(s) /\ session'[s] = Reported(j, t, "PAID")
      BY <1>3, <2>1, Advances DEF Continue, IInv
    <3> QED
      BY <3>1, ReportedIsRecent
  <2>2. CASE session[s].seen # "PAID"
    BY <1>3, <2>2, FinishedIsRecent DEF IInv
  <2> QED
    BY <2>1, <2>2
<1>9. NothingLapsed'
  BY <1>4 DEF OneInv, NothingLapsed
<1> QED
  BY <1>7, <1>8, <1>9, StepKeepsOne
LEMMA AdoptReconciliationKeepsOne ==
    ASSUME IInv, OneInv, NEW s \in Sessions, AdoptReconciliation(s)
    PROVE  OneInv'
<1>1. session[s].pc = "fetched" /\ session[s] \in RequestRecord /\ Recent(s)
  BY DEF AdoptReconciliation, IInv, TypeOK, OneInv
<1>2. PICK r \in session[s].target, i \in Intents :
        /\ CanAdopt(s, r, i)
        /\ ActiveIndexAllows(i, AdoptedRow(s, r, i))
        /\ intent' = [intent EXCEPT ![i] = AdoptedRow(s, r, i)]
        /\ ThenSettle(s, i, FALSE)
  BY DEF AdoptReconciliation
<1>3. UNCHANGED <<receivable, group, provider>>
  BY DEF AdoptReconciliation
<1>4. r \in Receivables /\ session[s].seen \in {"WAITING_PAYMENT", "PAID"}
  BY <1>1 DEF RequestRecord, Recent, OnTransaction
<1> DEFINE row == AdoptedRow(s, r, i)
<1>5. row.status = "WAITING_PAYMENT" /\ row.rec = r /\ row.grp = intent[i].grp
  BY <1>4 DEF AdoptedRow, IInv, TypeOK
<1> HIDE DEF row
<1>6. intent'[i] = row /\ OnlyRow(i)
  BY <1>2 DEF row, IInv, TypeOK, OnlyRow
<1>7. IsActive(i)' /\ intent'[i].status # "NONE" /\ SharesKept
  BY <1>3, <1>5, <1>6 DEF IsActive, ActivePixStatuses, SharesKept
<1>8. IInv'
  BY AdoptReconciliationKeeps
<1>9. Settled /\ Rows'
  <2>1. CASE ActivePix({r}) = {} /\ UnusedIntent(i)
    <3>1. ~IsUsed(i) /\ intent[i].grp = None /\ IsOpen(r)
      BY <1>2, <2>1 DEF UnusedIntent, IsUsed, IInv, RowsLinked, NoIntent, CanAdopt, IsOpen
    <3>2. Covers(i)' = {r}
      BY <1>4, <1>5, <1>6, <3>1 DEF Covers
    <3>3. {r} \in SUBSET Receivables /\ {r} # {} /\ \A x \in {r} : IsOpen(x)
      BY <1>4, <3>1
    <3>4. intent'[i].grp = None \/ intent'[i].rec = None
      BY <1>5, <1>6, <3>1
    <3> QED
      BY <1>3, <1>6, <1>7, <1>8, <2>1, <3>1, <3>2, <3>3, <3>4, RowAdded
  <2>2. CASE i \in ActivePix({r}) /\ intent[i].status = "CREATED"
    <3>1. IsActive(i) /\ IsUsed(i) /\ Covers(i) \cap {r} # {}
      BY <1>4, <2>2, ActivePixCovers, ActiveIsUsed
    <3>2. \/ intent'[i].rec = intent[i].rec
          \/ intent[i].grp # None /\ intent'[i].rec \in Items(intent[i].grp)
      BY <1>5, <1>6, <3>1 DEF Covers
    <3> QED
      BY <1>3, <1>5, <1>6, <1>7, <3>1, <3>2, RowRewritten
  <2> QED
    BY <1>2, <2>1, <2>2 DEF CanAdopt
<1>10. Others(s) /\ Recent(s)'
  <2>1. CASE session' = [session EXCEPT ![s] = Reported(i, session[s].ptx, "PAID")]
    BY <2>1, Advances, ReportedIsRecent DEF IInv
  <2>2. CASE Finish(s)
    BY <2>2, FinishedIsRecent DEF IInv
  <2> QED
    BY <1>2, <2>1, <2>2 DEF ThenSettle, Continue
<1>11. NothingLapsed'
  BY <1>3 DEF OneInv, NothingLapsed
<1> QED
  BY <1>9, <1>10, <1>11, StepKeepsOne

\* Marking the accounts of a request opens none.
LEMMA MarkedOpensNone ==
    ASSUME NEW s \in Sessions, NEW status \in {"PAGO", "CANCELADO"},
           receivable' = Marked(s, status)
    PROVE  /\ \A r \in Receivables : IsOpen(r)' => IsOpen(r)
           /\ \A r \in Receivables \cap session[s].target : ~IsOpen(r)'
BY DEF Marked, IsOpen

\* Steps that close accounts and leave the intents alone.
LEMMA ClosingKeepsOne ==
    ASSUME IInv, OneInv, NEW s \in Sessions,
           \/ PayReceivable(s) \/ PayReceivables(s)
           \/ CancelReceivable(s) \/ RepriceReceivable(s)
    PROVE  OneInv'
<1>1. UNCHANGED <<intent, provider>> /\ Finish(s)
  BY DEF PayReceivable, PayReceivables, CancelReceivable, RepriceReceivable
<1>2. \A r \in Receivables : IsOpen(r)' => IsOpen(r)
  <2>1. \/ receivable' = Marked(s, "PAGO") \/ receivable' = Marked(s, "CANCELADO")
        \/ receivable' = receivable
    BY DEF PayReceivable, PayReceivables, CancelReceivable, RepriceReceivable
  <2> QED
    BY <2>1, MarkedOpensNone DEF IsOpen
<1>3. SharesKept
  <2>1. \/ group' = group
        \/ \E g \in Groups : /\ UnusedGroup(g)
                             /\ group' = [group EXCEPT ![g] = [status |-> "PAID",
                                                               share |-> session[s].share]]
    BY DEF PayReceivable, PayReceivables, CancelReceivable, RepriceReceivable
  <2> QED
    BY <2>1 DEF SharesKept, UnusedGroup, IInv, TypeOK
<1>4. Settled /\ Rows'
  BY <1>1, <1>2, <1>3, RowsUntouched
<1>5. Others(s) /\ Recent(s)' /\ NothingLapsed'
  BY <1>1, FinishedIsRecent DEF IInv, OneInv, NothingLapsed
<1> QED
  BY <1>4, <1>5, StepKeepsOne

\* The siblings that a settlement supersedes collect the settled account by
\* itself: a group that holds it would have another target.
LEMMA SettleReceivableKeepsOne ==
    ASSUME IInv, OneInv, NEW s \in Sessions, SettleReceivable(s)
    PROVE  OneInv'
<1>1. /\ session[s].pc = "settling" /\ session[s] \in RequestRecord
      /\ Fits(s) /\ Recent(s)
  BY DEF SettleReceivable, IInv, TypeOK, OneInv
<1>2. PICK i \in Intents, r \in Receivables :
        /\ i = session[s].int /\ IsUsed(i) /\ intent[i].grp = None
        /\ r = intent[i].rec /\ session[s].target = {r}
  BY <1>1 DEF Fits, OnIntent, IsUsed, IInv, RowsLinked, RequestRecord
<1>3. /\ intent' = [j \in Intents |->
               IF j = i THEN [intent[j] EXCEPT !.status = "PAID"]
               ELSE IF j \in OpenSiblings(i)
                    THEN [intent[j] EXCEPT !.status = "SUPERSEDED"]
                    ELSE intent[j]]
      /\ receivable' = IF session[s].account = "PENDENTE" THEN Marked(s, "PAGO")
                       ELSE receivable
      /\ Finish(s) /\ UNCHANGED <<group, provider>>
  BY <1>2 DEF SettleReceivable
<1>4. (\A x \in Receivables : IsOpen(x)' => IsOpen(x)) /\ ~IsOpen(r)'
  <2>1. CASE session[s].account = "PENDENTE"
    BY <1>2, <1>3, <2>1, MarkedOpensNone
  <2>2. CASE session[s].account # "PENDENTE"
    BY <1>1, <1>2, <1>3, <2>2 DEF Recent, IsOpen
  <2> QED
    BY <2>1, <2>2
<1>5. Covers(i) = {r}
  BY <1>2 DEF Covers
<1>6. \A j \in OpenSiblings(i) : j \in Intents /\ IsUsed(j) /\ Covers(j) = {r}
  <2> SUFFICES ASSUME NEW j \in OpenSiblings(i)
               PROVE  j \in Intents /\ IsUsed(j) /\ Covers(j) = {r}
    OBVIOUS
  <2>1. j \in Intents /\ IsActive(j) /\ intent[j].rec = r
    BY <1>2 DEF OpenSiblings
  <2>2. IsUsed(j)
    BY <2>1, ActiveIsUsed
  <2>3. r \in Covers(j)
    BY <1>2, <2>1, NoneAssumption DEF Covers, OneInv, Rows, AccountOfGroup
  <2>4. SameTarget(i, j)
    BY <1>2, <1>5, <2>1, <2>2, <2>3 DEF OneInv, Rows, OneTarget
  <2> QED
    BY <1>5, <2>1, <2>2, <2>4, SameTargetCovers
<1>7. \A j \in Intents :
        \/ intent'[j] = intent[j]
        \/ /\ IsUsed(j) /\ intent'[j].status # "NONE" /\ ~IsActive(j)'
           /\ intent'[j].grp = intent[j].grp /\ intent'[j].rec = intent[j].rec
           /\ \A x \in Covers(j) : ~IsOpen(x)'
  <2> SUFFICES ASSUME NEW j \in Intents, j = i \/ j \in OpenSiblings(i)
               PROVE  /\ IsUsed(j) /\ intent'[j].status # "NONE" /\ ~IsActive(j)'
                      /\ intent'[j].grp = intent[j].grp /\ intent'[j].rec = intent[j].rec
                      /\ \A x \in Covers(j) : ~IsOpen(x)'
    BY <1>3
  <2>1. /\ intent'[j].status \in {"PAID", "SUPERSEDED"}
        /\ intent'[j].grp = intent[j].grp /\ intent'[j].rec = intent[j].rec
    BY <1>3 DEF IInv, TypeOK
  <2>2. IsUsed(j) /\ Covers(j) = {r}
    BY <1>2, <1>5, <1>6
  <2> QED
    BY <1>4, <2>1, <2>2 DEF IsActive, ActivePixStatuses
<1>8. SharesKept
  BY <1>3 DEF SharesKept
<1>9. Settled /\ Rows'
  BY <1>4, <1>7, <1>8, RowsClosed
<1>10. Others(s) /\ Recent(s)' /\ NothingLapsed'
  BY <1>3, FinishedIsRecent DEF IInv, OneInv, NothingLapsed
<1> QED
  BY <1>9, <1>10, StepKeepsOne

LEMMA SettleGroupKeepsOne ==
    ASSUME IInv, OneInv, NEW s \in Sessions, SettleGroup(s)
    PROVE  OneInv'
<1>1. session[s].pc = "settlingGroup" /\ Fits(s)
  BY DEF SettleGroup, IInv
<1>2. PICK i \in Intents :
        /\ i = session[s].int /\ IsUsed(i) /\ intent[i].grp # None
        /\ session[s].target = Items(intent[i].grp)
  BY <1>1 DEF Fits, OnIntent, OnGroup, IsUsed
<1>3. /\ intent' = [intent EXCEPT ![i].status = "PAID"]
      /\ receivable' = Marked(s, "PAGO")
      /\ Finish(s) /\ UNCHANGED provider
  BY <1>2 DEF SettleGroup
<1>4. SharesKept
  BY GroupStatusKeepsShares DEF SettleGroup, IInv
<1>5. /\ \A r \in Receivables : IsOpen(r)' => IsOpen(r)
      /\ \A r \in Covers(i) : ~IsOpen(r)'
  BY <1>2, <1>3, MarkedOpensNone DEF Covers, Items
<1>6. /\ intent'[i].status = "PAID" /\ intent'[i].grp = intent[i].grp
      /\ intent'[i].rec = intent[i].rec /\ OnlyRow(i)
  BY <1>3 DEF IInv, TypeOK, OnlyRow
<1>7. \A j \in Intents :
        \/ intent'[j] = intent[j]
        \/ /\ IsUsed(j) /\ intent'[j].status # "NONE" /\ ~IsActive(j)'
           /\ intent'[j].grp = intent[j].grp /\ intent'[j].rec = intent[j].rec
           /\ \A r \in Covers(j) : ~IsOpen(r)'
  BY <1>2, <1>5, <1>6 DEF OnlyRow, IsActive, ActivePixStatuses
<1>8. Settled /\ Rows'
  BY <1>4, <1>5, <1>7, RowsClosed
<1>9. Others(s) /\ Recent(s)' /\ NothingLapsed'
  BY <1>3, FinishedIsRecent DEF IInv, OneInv, NothingLapsed
<1> QED
  BY <1>8, <1>9, StepKeepsOne

(***************************************************************************)
(* The invariant.                                                          *)
(***************************************************************************)
LEMMA EnvironmentKeepsOne ==
    ASSUME IInv, OneInv, NoPixLapses, Environment
    PROVE  OneInv'
<1>1. PICK t \in Txs, to \in {"paid", "approved"} :
        /\ provider' = [provider EXCEPT ![t].status = to]
        /\ UNCHANGED <<receivable, intent, group, session>>
  BY DEF Environment, PayerPays, ProviderTurns, ProviderMoves, NoPixLapses
<1>2. NothingLapsed'
  BY <1>1 DEF OneInv, NothingLapsed, IInv, TypeOK
<1>3. Settled /\ Rows'
  BY <1>1, RowsUntouched DEF SharesKept, IsOpen
<1>4. \A q \in Sessions : Recent(q)'
  BY <1>1, <1>3, SettledRecent
<1> QED
  BY <1>2, <1>3, <1>4 DEF OneInv

LEMMA InitEstablishesOne == Init => OneInv
<1> SUFFICES ASSUME Init PROVE OneInv
  OBVIOUS
<1>1. \A i \in Intents : ~IsUsed(i) /\ ~IsActive(i) /\ intent[i].grp = None
  BY DEF Init, NoIntent, IsUsed, IsActive, ActivePixStatuses
<1>2. Rows
  BY <1>1 DEF Rows, OneTarget, OpenIsCollected, OneActive, AccountOfGroup
<1>3. NothingLapsed
  BY DEF Init, NoTx, NothingLapsed
<1>4. \A s \in Sessions : Recent(s)
  BY DEF Init, Idle, Recent, OnTransaction
<1> QED
  BY <1>2, <1>3, <1>4 DEF OneInv

LEMMA RequestKeepsOne ==
    ASSUME IInv, OneInv, NoPixLapses, NEW s \in Sessions, NEW kind \in Requests,
           Request(s, kind)
    PROVE  OneInv'
<1>1. kind # "cancelPaymentIntent"
  BY DEF NoPixLapses
<1>2. ASSUME NEW R \in Selections, ReserveGroupPix(s, R) \/ ReadPayment(s, R, TRUE)
      PROVE  OneInv'
  BY <1>2, ReserveGroupPixKeepsOne, ReadsKeepOne DEF Selections
<1>3. ASSUME NEW r \in Receivables,
             ReadPayment(s, {r}, FALSE) \/ ReadCancellation(s, r) \/ ReadReprice(s, r)
      PROVE  OneInv'
  BY <1>3, ReadsKeepOne
<1>4. CASE Webhook(s)
  BY <1>4, ProcessPaymentWebhookKeepsOne DEF Webhook
<1> QED
  BY <1>1, <1>2, <1>3, <1>4, ReservePixKeepsOne, InspectReplacementKeepsOne,
     InspectGroupReplacementKeepsOne, FetchReconciliationKeepsOne, SyncPaymentIntentKeepsOne
  DEF Request

LEMMA ServingKeepsOne ==
    ASSUME IInv, OneInv, NEW s \in Sessions, Step(s)
    PROVE  OneInv'
BY ProviderCreatePixKeepsOne, EndingKeepsOne, FinishPixKeepsOne,
   RecoverReplacementKeepsOne, CommitReplacementKeepsOne, AdoptExistingKeepsOne,
   AdoptReconciliationKeepsOne, ReadIntentKeepsOne, ApplyUnpaidStatusKeepsOne,
   AcquireIntentKeepsOne, SettleReceivableKeepsOne, AcquireGroupKeepsOne,
   SettleGroupKeepsOne, ClosingKeepsOne
DEF Step

LEMMA NextKeepsOne ==
    ASSUME IInv, OneInv, NoPixLapses, [Next]_vars
    PROVE  OneInv'
<1>1. ASSUME NEW s \in Sessions, Abandon(s)
      PROVE  OneInv'
  BY <1>1, EndingKeepsOne
<1>2. CASE UNCHANGED vars
  <2>1. UNCHANGED <<receivable, intent, group, provider, session>>
    BY <1>2 DEF vars
  <2>2. Settled /\ Rows'
    BY <2>1, RowsUntouched DEF SharesKept, IsOpen
  <2>3. \A q \in Sessions : Recent(q)'
    BY <2>1, <2>2, SettledRecent
  <2> QED
    BY <2>1, <2>2, <2>3 DEF OneInv, NothingLapsed
<1> QED
  BY <1>1, <1>2, EnvironmentKeepsOne, RequestKeepsOne, ServingKeepsOne DEF Next

LEMMA OneInvariant == OneInv => OneOperationalPix
<1> SUFFICES ASSUME OneInv, NEW i \in Intents, NEW j \in Intents, i # j,
                    IsActive(i), IsActive(j), Covers(i) \cap Covers(j) # {}
             PROVE  FALSE
  BY DEF OneOperationalPix
<1>1. SameTarget(i, j)
  BY ActiveIsUsed DEF OneInv, Rows, OneTarget
<1> QED
  BY <1>1 DEF OneInv, Rows, OneActive

\* As long as no PIX lapses, at most one PIX a payer can be asked to pay
\* covers an account, however creations, replacements, reconciliations,
\* webhooks, syncs and settlements interleave and die.
THEOREM AccountsHaveOnePix == NoPixLapses => (Spec => []OneOperationalPix)
<1> SUFFICES ASSUME NoPixLapses PROVE Spec => []OneOperationalPix
  OBVIOUS
<1>1. Init => IInv /\ OneInv
  BY InitEstablishesInvariant, InitEstablishesOne
<1>2. (IInv /\ OneInv) /\ [Next]_vars => (IInv /\ OneInv)'
  BY NextKeepsInvariant, NextKeepsOne
<1>3. IInv /\ OneInv => OneOperationalPix
  BY OneInvariant
<1> QED
  BY <1>1, <1>2, <1>3, PTL DEF Spec
==============================================================================
