---------------------------- MODULE RecoveryProofs ----------------------------
(***************************************************************************)
(* Proofs about recovery, for any campaigns, steps and requests.  When no  *)
(* reconciliation runs together with another request, recovery implements  *)
(* its promise: what a request has acquired is its own until it is done    *)
(* with it, and a message that the provider may have taken is never        *)
(* acquired again.                                                         *)
(***************************************************************************)
EXTENDS Recovery, TLAPS

(***************************************************************************)
(* What every request relies on, also when requests overlap.               *)
(***************************************************************************)
\* Reconciling, and holding a message.
Reconciles == {"reconciling", "starting", "dispatching", "linking", "campaign"}
Holds == {"acquired", "sending", "retry", "refused", "confirmed", "uncertain"}

\* A row that was there is not removed, and what was accepted stays accepted.
Fits(x) ==
    /\ x.job = "idle" <=> x.at = "idle"
    /\ x.at = "idle" => x = Idle
    /\ x.at \in {"starting", "dispatching", "linking", "campaign"} => x.campaign \in Campaigns
    /\ x.at \in {"dispatching", "linking"} => x.message \in Messages /\ step[x.message] # "none"
    /\ x.at \in Holds => x.message \in Messages /\ dispatch[x.message].status # "none"
    /\ x.at = "refused" => x.outcome # "none"
    /\ x.at = "confirmed" => accepted[x.message] > 0

IInv == TypeOK /\ \A s \in Sessions : Fits(session[s])

(***************************************************************************)
(* What holds when no reconciliation runs together with another request.   *)
(***************************************************************************)
\* Nothing else is in progress during a reconciliation.
Alone == \A r, s \in Sessions :
    session[s].at \in Reconciles /\ r # s => session[r] = Idle

\* What a request has acquired is in process, and no other request has it.
Owned == \A s \in Sessions : session[s].at \in Holds =>
    /\ dispatch[session[s].message].status = "PROCESSING"
    /\ \A r \in Sessions :
           session[r].at \in Holds /\ session[r].message = session[s].message => r = s

\* Nothing was accepted of a message that is still to be sent.
Unsent == \A s \in Sessions :
    session[s].at \in {"acquired", "sending", "retry"} => accepted[session[s].message] = 0

\* What the provider accepted is out of the queue.
Untaken(d) == d.status \in {"none", "SCHEDULED"} \/ (d.status = "FAILED" /\ ~d.uncertain)
Queued == \A x \in Messages : Untaken(dispatch[x]) => accepted[x] = 0

\* What a reconciliation may bring back to the queue was not accepted.
Recalled == \A s \in Sessions, x \in Messages :
    session[s].at \in Reconciles /\ session[s].seen[x].dispatch \in Live
        /\ ~session[s].seen[x].uncertain => accepted[x] = 0

XInv == Alone /\ Owned /\ Unsent /\ Queued /\ Recalled

(***************************************************************************)
(* The rows.                                                               *)
(***************************************************************************)
RowsOK ==
    /\ account \in AccountStatus /\ reference \in ReferenceStatus
    /\ settings \in Plans
    /\ campaign \in [Campaigns -> CampaignStatus]
    /\ step \in [Messages -> StepStatus]
    /\ dispatch \in [Messages -> Dispatch]
    /\ accepted \in [Messages -> Nat] /\ crashes \in 0 .. MaxCrashes
    /\ \A x \in Messages :
           /\ dispatch[x].status # "none" => step[x] # "none"
           /\ dispatch[x].uncertain => dispatch[x].status = "FAILED"
           /\ dispatch[x].status = "SENT" => accepted[x] > 0

\* No row is removed, and what was accepted stays accepted.
Grows == \A x \in Messages :
    /\ step[x] # "none" => step'[x] # "none"
    /\ dispatch[x].status # "none" => dispatch'[x].status # "none"
    /\ accepted[x] > 0 => accepted'[x] > 0

\* An attempt in process stays so, and nothing comes back to the queue.
Kept(x) ==
    /\ dispatch[x].status = "PROCESSING" => dispatch'[x].status = "PROCESSING"
    /\ Untaken(dispatch'[x]) => Untaken(dispatch[x])

LEMMA TypeIs == TypeOK <=> RowsOK /\ session \in [Sessions -> SessionState]
<1> QED BY DEF TypeOK, RowsOK

LEMMA TypeIsNext == TypeOK' <=> RowsOK' /\ session' \in [Sessions -> SessionState]
<1> QED BY DEF TypeOK, RowsOK

LEMMA SessionIs ==
    ASSUME IInv, NEW s \in Sessions
    PROVE  session[s] \in SessionState /\ Fits(session[s])
<1> QED BY DEF IInv, TypeOK

LEMMA IdleIs == Idle \in SessionState
<1> QED BY DEF Idle, SessionState, JobKinds, NothingSeen, Unseen, Enabled, StepStatus,
           DispatchStatus, StepSettings, Outcomes, maxAttempts,
           AccountStatus, ReferenceStatus, SeenRows, Plans, Places

LEMMA IdleFits == Fits(Idle) /\ Fits(Idle)'
<1> QED BY DEF Idle, Fits, Holds

LEMMA SameRows ==
    ASSUME RowsOK, UNCHANGED <<Tables, Outside>>
    PROVE  RowsOK' /\ Grows /\ \A x \in Messages : Kept(x)
<1>1. /\ account' = account /\ reference' = reference /\ settings' = settings
      /\ campaign' = campaign /\ step' = step /\ dispatch' = dispatch
      /\ accepted' = accepted /\ crashes' = crashes
    BY DEF Tables, Outside, Facts
<1> QED BY <1>1 DEF RowsOK, Grows, Kept

LEMMA EndedIs ==
    ASSUME NEW d \in Dispatch, NEW status \in DispatchStatus
    PROVE  /\ [d EXCEPT !.status = status, !.uncertain = FALSE] \in Dispatch
           /\ [d EXCEPT !.status = status, !.uncertain = FALSE].status = status
           /\ [d EXCEPT !.status = status, !.uncertain = FALSE].uncertain = FALSE
<1> QED BY DEF Dispatch

\* The end of campaigns takes messages out of the queue.
LEMMA EndCampaignsKeeps ==
    ASSUME RowsOK, NEW which, NEW status \in CampaignStatus, EndCampaigns(which, status),
           account' \in AccountStatus, reference' \in ReferenceStatus,
           UNCHANGED <<settings, accepted, crashes>>
    PROVE  RowsOK' /\ Grows /\ \A x \in Messages : Kept(x)
<1>1. campaign' \in [Campaigns -> CampaignStatus]
    BY DEF EndCampaigns, RowsOK
<1>2. step' \in [Messages -> StepStatus]
    BY DEF EndCampaigns, RowsOK, StepStatus
<1> DEFINE Out(x) == x[1] \in which /\ dispatch[x].status \in Live
<1>3. \A x \in Messages :
          dispatch[x] \in Dispatch /\ Ended(x, "CANCELED") \in Dispatch
          /\ Ended(x, "CANCELED").status = "CANCELED" /\ Ended(x, "CANCELED").uncertain = FALSE
    BY EndedIs DEF RowsOK, Ended, DispatchStatus, StepStatus
<1>4. dispatch' = [x \in Messages |-> IF Out(x) THEN Ended(x, "CANCELED") ELSE dispatch[x]]
    BY DEF EndCampaigns
<1> HIDE DEF Out
<1>5. /\ dispatch' \in [Messages -> Dispatch]
      /\ \A x \in Messages :
             \/ Out(x) /\ dispatch'[x].status = "CANCELED" /\ dispatch'[x].uncertain = FALSE
             \/ dispatch'[x] = dispatch[x]
    BY <1>3, <1>4
<1>6. \A x \in Messages : step[x] # "none" => step'[x] # "none"
    BY DEF EndCampaigns, RowsOK
<1>7. \A x \in Messages : Out(x) => dispatch[x].status \in Live
    BY DEF Out
<1>8. Grows
    BY <1>5, <1>6 DEF Grows
<1>9. \A x \in Messages : Kept(x)
    BY <1>5, <1>7 DEF Kept, Untaken, Live
<1>10. ASSUME NEW x \in Messages
       PROVE  /\ dispatch'[x].status # "none" => step'[x] # "none"
              /\ dispatch'[x].uncertain => dispatch'[x].status = "FAILED"
              /\ dispatch'[x].status = "SENT" => accepted'[x] > 0
    BY <1>5, <1>6, <1>7 DEF RowsOK, Live
<1> QED BY <1>1, <1>2, <1>5, <1>8, <1>9, <1>10 DEF RowsOK

\* The rows of one message are written.
Written(x, status, d) ==
    step' = [step EXCEPT ![x] = status] /\ dispatch' = [dispatch EXCEPT ![x] = d]

LEMMA WrittenIs ==
    ASSUME RowsOK, NEW x \in Messages, NEW status \in StepStatus, NEW d \in Dispatch,
           Written(x, status, d), campaign' \in [Campaigns -> CampaignStatus],
           UNCHANGED Outside,
           d.status # "none" => status # "none",
           d.uncertain => d.status = "FAILED", d.status = "SENT" => accepted[x] > 0,
           step[x] # "none" => status # "none",
           dispatch[x].status # "none" => d.status # "none"
    PROVE  /\ RowsOK' /\ Grows /\ dispatch'[x] = d
           /\ \A y \in Messages : y # x => dispatch'[y] = dispatch[y]
<1>1. /\ account' = account /\ reference' = reference /\ settings' = settings
      /\ accepted' = accepted /\ crashes' = crashes
    BY DEF Outside, Facts
<1>2. /\ step' \in [Messages -> StepStatus] /\ dispatch' \in [Messages -> Dispatch]
      /\ step'[x] = status /\ dispatch'[x] = d
      /\ \A y \in Messages : y # x => step'[y] = step[y] /\ dispatch'[y] = dispatch[y]
    BY DEF Written, RowsOK
<1>3. Grows
    BY <1>1, <1>2 DEF Grows
<1>4. \A y \in Messages :
          /\ dispatch'[y].status # "none" => step'[y] # "none"
          /\ dispatch'[y].uncertain => dispatch'[y].status = "FAILED"
          /\ dispatch'[y].status = "SENT" => accepted'[y] > 0
    BY <1>1, <1>2 DEF RowsOK
<1> QED BY <1>1, <1>2, <1>3, <1>4 DEF RowsOK

\* A row that is written as it was.
LEMMA StepStays == ASSUME RowsOK, NEW x \in Messages, UNCHANGED step
                   PROVE  step' = [step EXCEPT ![x] = step[x]] /\ step[x] \in StepStatus
<1> QED BY DEF RowsOK

LEMMA DispatchStays == ASSUME RowsOK, NEW x \in Messages, UNCHANGED dispatch
                       PROVE  /\ dispatch' = [dispatch EXCEPT ![x] = dispatch[x]]
                              /\ dispatch[x] \in Dispatch
<1> QED BY DEF RowsOK

(***************************************************************************)
(* A request moves.                                                        *)
(***************************************************************************)
LEMMA StillFits ==
    ASSUME NEW x \in SessionState, Fits(x), RowsOK, Grows
    PROVE  Fits(x)'
<1> QED BY DEF Fits, Grows, Holds

LEMMA OthersFit ==
    ASSUME IInv, Grows, NEW s \in Sessions, NEW y \in SessionState, Fits(y)',
           session' = [session EXCEPT ![s] = y], RowsOK'
    PROVE  IInv'
<1>1. session' \in [Sessions -> SessionState] /\ session'[s] = y
      /\ \A r \in Sessions : r # s => session'[r] = session[r]
    BY DEF IInv, TypeOK
<1>2. RowsOK
    BY TypeIs DEF IInv
<1>3. ASSUME NEW r \in Sessions PROVE Fits(session[r])'
  <2>1. PICK x \in SessionState : x = session'[r]
      BY <1>1
  <2>2. Fits(x)'
    <3>1. CASE r = s
        BY <1>1, <2>1, <3>1
    <3>2. CASE r # s
        BY <1>1, <1>2, <2>1, <3>2, SessionIs, StillFits
    <3> QED BY <3>1, <3>2
  <2> QED BY <2>1, <2>2 DEF Fits
<1> QED BY <1>1, <1>3, TypeIsNext DEF IInv

LEMMA RowsMove ==
    ASSUME IInv, Grows, RowsOK', UNCHANGED session
    PROVE  IInv'
<1>1. RowsOK /\ session \in [Sessions -> SessionState]
    BY TypeIs DEF IInv
<1>2. ASSUME NEW r \in Sessions PROVE Fits(session[r])'
  <2>1. PICK x \in SessionState : x = session[r]
      BY <1>1
  <2>2. Fits(x)'
      BY <1>1, <2>1, SessionIs, StillFits
  <2> QED BY <2>1, <2>2 DEF Fits
<1> QED BY <1>1, <1>2, TypeIsNext DEF IInv

(***************************************************************************)
(* The steps of a reconciliation.                                          *)
(***************************************************************************)
\* A reconciliation goes on or ends, accepts nothing, and brings back to the
\* queue only what it may recall.
ReconcilesTo(s, y) ==
    /\ session' = [session EXCEPT ![s] = y] /\ accepted' = accepted
    /\ session[s].at \in Reconciles /\ y.at \in Reconciles \cup {"idle", "due"}
    /\ y.at \in Reconciles => y.seen \in {session[s].seen, NothingSeen}
    /\ \A x \in Messages : Untaken(dispatch'[x]) =>
           \/ Untaken(dispatch[x])
           \/ session[s].seen[x].dispatch \in Live /\ ~session[s].seen[x].uncertain

LEMMA ReconcilesSameRows ==
    ASSUME IInv, NEW s \in Sessions, session[s].at \in Reconciles,
           UNCHANGED <<Tables, Outside>>, NEW y \in SessionState, Fits(y),
           session' = [session EXCEPT ![s] = y], y.at \in Reconciles \cup {"idle", "due"},
           y.at \in Reconciles => y.seen \in {session[s].seen, NothingSeen}
    PROVE  IInv' /\ ReconcilesTo(s, y)
<1>1. RowsOK /\ RowsOK' /\ Grows /\ \A x \in Messages : Kept(x)
    BY TypeIs, SameRows DEF IInv
<1>2. Fits(y)'
    BY <1>1, StillFits
<1>3. accepted' = accepted
    BY DEF Outside
<1> QED BY <1>1, <1>2, <1>3, OthersFit DEF ReconcilesTo, Kept

LEMMA ReconcilesKept ==
    ASSUME IInv, NEW s \in Sessions, session[s].at \in Reconciles,
           RowsOK', Grows, \A x \in Messages : Kept(x), accepted' = accepted,
           NEW y \in SessionState, Fits(y)',
           session' = [session EXCEPT ![s] = y], y.at \in Reconciles \cup {"idle", "due"},
           y.at \in Reconciles => y.seen \in {session[s].seen, NothingSeen}
    PROVE  IInv' /\ ReconcilesTo(s, y)
<1> QED BY OthersFit DEF ReconcilesTo, Kept

\* The lemmas on the steps of a reconciliation.
Moves(s) == IInv' /\ \E y : ReconcilesTo(s, y)

LEMMA SkipStartMoves ==
    ASSUME IInv, NEW s \in Sessions, SkipStart(s)
    PROVE  Moves(s)
<1>1. PICK x \in SessionState : x = session[s] /\ Fits(x) /\ x.at = "reconciling"
    BY SessionIs DEF SkipStart, At
<1>2. PICK y : y = [x EXCEPT !.overdue = FALSE]
    OBVIOUS
<1>3. y \in SessionState /\ Fits(y)
    BY <1>1, <1>2 DEF SessionState, Fits, Holds
<1>4. y.at = "reconciling" /\ y.seen = x.seen /\ session' = [session EXCEPT ![s] = y]
    BY <1>1, <1>2 DEF SkipStart, Become, SessionState
<1>5. UNCHANGED <<Tables, Outside>>
    BY DEF SkipStart
<1> QED BY <1>1, <1>3, <1>4, <1>5, ReconcilesSameRows DEF Moves, Reconciles

LEMMA StartCampaignMoves ==
    ASSUME IInv, NEW s \in Sessions, NEW c \in Campaigns, StartCampaign(s, c)
    PROVE  Moves(s)
<1>1. PICK x \in SessionState : x = session[s] /\ Fits(x) /\ x.at = "reconciling"
    BY SessionIs DEF StartCampaign, At
<1>2. PICK expected, y :
          /\ expected \in SUBSET Steps
          /\ y = [x EXCEPT !.at = "starting", !.overdue = FALSE,
                           !.campaign = c, !.steps = expected, !.plan = settings]
          /\ session' = [session EXCEPT ![s] = y]
    BY <1>1 DEF StartCampaign, Become
<1>3. RowsOK
    BY TypeIs DEF IInv
<1>4. /\ y \in SessionState /\ y.at = "starting" /\ y.campaign = c /\ y.job = x.job
      /\ y.seen = x.seen
    BY <1>1, <1>2, <1>3 DEF SessionState, Places, RowsOK
<1>5. Fits(y)
    BY <1>1, <1>4 DEF Fits, Holds
<1>6. /\ account' = account /\ reference' = reference /\ settings' = settings
      /\ step' = step /\ dispatch' = dispatch /\ accepted' = accepted /\ crashes' = crashes
      /\ campaign' = [campaign EXCEPT ![c] = "ATIVA"]
    BY DEF StartCampaign, Outside, Facts
<1>7. RowsOK' /\ Grows /\ \A m \in Messages : Kept(m)
    BY <1>3, <1>6 DEF RowsOK, Grows, Kept, CampaignStatus
<1>8. Fits(y)'
    BY <1>3, <1>4, <1>5, <1>7, StillFits
<1> QED BY <1>1, <1>2, <1>4, <1>6, <1>7, <1>8, ReconcilesKept DEF Moves, Reconciles

LEMMA CreateStepMoves ==
    ASSUME IInv, NEW s \in Sessions, NEW n \in Steps, CreateStep(s, n)
    PROVE  Moves(s)
<1>1. PICK x \in SessionState : x = session[s] /\ Fits(x) /\ x.at = "starting"
    BY SessionIs DEF CreateStep, At
<1>2. RowsOK /\ x.campaign \in Campaigns /\ <<x.campaign, n>> \in Messages
    BY <1>1, TypeIs DEF IInv, Fits, Messages
<1>3. CASE step[<<x.campaign, n>>] # "none"
  <2>1. session' = [session EXCEPT ![s] = Idle] /\ UNCHANGED <<Tables, Outside>>
      BY <1>1, <1>3 DEF CreateStep, End, Become, Tables
  <2>2. Idle.at = "idle"
      BY DEF Idle
  <2> QED BY <1>1, <2>1, <2>2, IdleIs, IdleFits, ReconcilesSameRows DEF Moves, Reconciles
<1>4. CASE step[<<x.campaign, n>>] = "none"
  <2>1. PICK m \in Messages : m = <<x.campaign, n>>
      BY <1>2
  <2>2. PICK ignored \in BOOLEAN : ignored = (x.plan[n] = "inactive")
      OBVIOUS
  <2>3. PICK at \in {"starting", "dispatching"}, to \in {m, None} :
            /\ at = "dispatching" => to = m
            /\ session' = [session EXCEPT ![s] =
                   [x EXCEPT !.steps = @ \ {n}, !.at = at, !.message = to]]
      BY <1>1, <1>4, <2>1, <2>2 DEF CreateStep, Become
  <2>4. PICK y : /\ y = [x EXCEPT !.steps = @ \ {n}, !.at = at, !.message = to]
                 /\ session' = [session EXCEPT ![s] = y]
                 /\ at = "dispatching" => to = m
      BY <2>3
  <2>5. PICK status \in {"IGNORED", "SCHEDULED"} : step' = [step EXCEPT ![m] = status]
      BY <1>1, <1>4, <2>1, <2>2 DEF CreateStep
  <2>6. /\ y \in SessionState /\ y.at \in {"starting", "dispatching"}
        /\ y.campaign = x.campaign /\ y.job = x.job /\ y.seen = x.seen
        /\ y.at = "dispatching" => y.message = m
      BY <1>1, <2>4 DEF SessionState, Places
  <2>7. campaign' = campaign /\ dispatch' = dispatch /\ UNCHANGED Outside
      BY DEF CreateStep
  <2>8. dispatch[m] \in Dispatch /\ Written(m, status, dispatch[m])
      BY <1>2, <2>5, <2>7, DispatchStays DEF Written
  <2>9. RowsOK' /\ Grows
      BY <1>2, <1>4, <2>1, <2>7, <2>8, WrittenIs DEF RowsOK, StepStatus
  <2>10. Fits(y)'
    <3>1. step'[m] # "none"
        BY <1>2, <2>5 DEF RowsOK
    <3> QED BY <1>1, <1>2, <2>1, <2>6, <3>1 DEF Fits, Holds
  <2>11. accepted' = accepted /\ \A z \in Messages : Kept(z)
      BY <2>7 DEF Outside, Kept
  <2> QED BY <1>1, <2>4, <2>6, <2>9, <2>10, <2>11, ReconcilesKept DEF Moves, Reconciles
<1> QED BY <1>3, <1>4

LEMMA NewDispatchIs ==
    ASSUME NEW linked \in BOOLEAN, NEW named \in BOOLEAN
    PROVE  /\ NewDispatch(linked, named) \in Dispatch
           /\ NewDispatch(linked, named).status = "SCHEDULED"
           /\ NewDispatch(linked, named).uncertain = FALSE
           /\ NoDispatch \in Dispatch /\ NoDispatch.status = "none" /\ Untaken(NoDispatch)
<1>1. NoDispatch \in Dispatch /\ NoDispatch.status = "none" /\ NoDispatch.uncertain = FALSE
    BY DEF NoDispatch, Dispatch, DispatchStatus, StepStatus, maxAttempts
<1>2. PICK d \in Dispatch : d = NoDispatch
    BY <1>1
<1>3. NewDispatch(linked, named)
          = [d EXCEPT !.status = "SCHEDULED", !.linked = linked, !.named = named]
    BY <1>2 DEF NewDispatch
<1>4. /\ NewDispatch(linked, named) \in Dispatch
      /\ NewDispatch(linked, named).status = "SCHEDULED"
      /\ NewDispatch(linked, named).uncertain = d.uncertain
    BY <1>3 DEF Dispatch, DispatchStatus, StepStatus
<1> QED BY <1>1, <1>2, <1>4 DEF Untaken

LEMMA CreateDispatchMoves ==
    ASSUME IInv, NEW s \in Sessions, CreateDispatch(s)
    PROVE  Moves(s)
<1>1. PICK x \in SessionState : x = session[s] /\ Fits(x) /\ x.at = "dispatching"
    BY SessionIs DEF CreateDispatch, At
<1>2. PICK m \in Messages : m = x.message /\ step[m] # "none"
    BY <1>1 DEF Fits
<1>3. RowsOK
    BY TypeIs DEF IInv
<1>4. CASE dispatch[m] # NoDispatch
  <2>1. session' = [session EXCEPT ![s] = Idle] /\ UNCHANGED <<Tables, Outside>>
      BY <1>1, <1>2, <1>4 DEF CreateDispatch, End, Become, Tables
  <2>2. Idle.at = "idle"
      BY DEF Idle
  <2> QED BY <1>1, <2>1, <2>2, IdleIs, IdleFits, ReconcilesSameRows DEF Moves, Reconciles
<1>5. CASE dispatch[m] = NoDispatch
  <2>1. PICK d \in Dispatch : d = NewDispatch(FALSE, TRUE) /\ d.status = "SCHEDULED" /\ ~d.uncertain
      BY NewDispatchIs
  <2>2. PICK y : y = [x EXCEPT !.at = "linking"] /\ session' = [session EXCEPT ![s] = y]
      BY <1>1, <1>2, <1>5 DEF CreateDispatch, GoTo, Become
  <2>3. dispatch' = [dispatch EXCEPT ![m] = d]
      BY <1>1, <1>2, <1>5, <2>1 DEF CreateDispatch
  <2>4. /\ y \in SessionState /\ y.at = "linking" /\ y.message = m
        /\ y.campaign = x.campaign /\ y.job = x.job /\ y.seen = x.seen
      BY <1>1, <1>2, <2>2 DEF SessionState, Places
  <2>5. campaign' = campaign /\ step' = step /\ UNCHANGED Outside
      BY DEF CreateDispatch
  <2>6. step[m] \in StepStatus /\ Written(m, step[m], d)
      BY <1>3, <2>3, <2>5, StepStays DEF Written
  <2>7. /\ RowsOK' /\ Grows /\ \A z \in Messages : z # m => dispatch'[z] = dispatch[z]
      BY <1>2, <1>3, <2>1, <2>5, <2>6, WrittenIs DEF RowsOK
  <2>8. Fits(y)'
      BY <1>1, <1>2, <2>4, <2>5 DEF Fits, Holds
  <2>9. \A z \in Messages : Kept(z)
      BY <1>5, <2>7, NewDispatchIs DEF Kept
  <2>10. accepted' = accepted
      BY <2>5 DEF Outside
  <2> QED BY <1>1, <2>2, <2>4, <2>7, <2>8, <2>9, <2>10, ReconcilesKept DEF Moves, Reconciles
<1> QED BY <1>4, <1>5

LEMMA LinkDispatchMoves ==
    ASSUME IInv, NEW s \in Sessions, LinkDispatch(s)
    PROVE  Moves(s)
<1>1. PICK x \in SessionState : x = session[s] /\ Fits(x) /\ x.at = "linking"
    BY SessionIs DEF LinkDispatch, At
<1>2. PICK m \in Messages : m = x.message /\ step[m] # "none"
    BY <1>1 DEF Fits
<1>3. RowsOK
    BY TypeIs DEF IInv
<1>4. PICK old \in Dispatch : old = dispatch[m]
    BY <1>3 DEF RowsOK
<1>5. PICK d : d = [old EXCEPT !.linked = TRUE]
    OBVIOUS
<1>6. d \in Dispatch /\ d.status = old.status /\ d.uncertain = old.uncertain
    BY <1>5 DEF Dispatch
<1>7. PICK y : /\ y = [x EXCEPT !.at = "starting", !.message = None]
               /\ session' = [session EXCEPT ![s] = y]
    BY <1>1 DEF LinkDispatch, Become
<1>8. /\ y \in SessionState /\ y.at = "starting"
      /\ y.campaign = x.campaign /\ y.job = x.job /\ y.seen = x.seen
    BY <1>1, <1>7 DEF SessionState, Places
<1>9. campaign' = campaign /\ step' = step /\ UNCHANGED Outside
    BY DEF LinkDispatch
<1>10. dispatch' = [dispatch EXCEPT ![m] = d]
    BY <1>1, <1>2, <1>4, <1>5 DEF LinkDispatch
<1>11. step[m] \in StepStatus /\ Written(m, step[m], d)
    BY <1>3, <1>9, <1>10, StepStays DEF Written
<1>12. /\ RowsOK' /\ Grows /\ dispatch'[m] = d
       /\ \A z \in Messages : z # m => dispatch'[z] = dispatch[z]
    BY <1>2, <1>3, <1>4, <1>6, <1>9, <1>11, WrittenIs DEF RowsOK
<1>13. Fits(y)'
    BY <1>1, <1>8 DEF Fits, Holds
<1>14. \A z \in Messages : Kept(z)
    BY <1>4, <1>6, <1>12 DEF Kept, Untaken
<1>15. accepted' = accepted
    BY <1>9 DEF Outside
<1> QED BY <1>1, <1>7, <1>8, <1>12, <1>13, <1>14, <1>15, ReconcilesKept DEF Moves, Reconciles

\* What reconciling the rest of the campaigns begins with.
LEMMA ReconciledIs ==
    ASSUME NEW x \in SessionState, Fits(x), x.at \in Reconciles, NEW left \in SUBSET Campaigns,
           NEW s \in Sessions, x = session[s], Reconciled(s, left)
    PROVE  \E y \in SessionState :
               /\ session' = [session EXCEPT ![s] = y]
               /\ Fits(y) /\ Fits(y)' /\ y.at = "reconciling" /\ y.seen \in {x.seen, NothingSeen}
<1>1. PICK job \in JobKinds \cup {"tick"} : job = x.job
    BY DEF SessionState, Fits, Reconciles
<1>2. CASE left = {}
  <2>1. PICK i \in SessionState : i = Idle /\ i.seen = NothingSeen
      BY IdleIs DEF Idle
  <2>2. PICK y : y = [i EXCEPT !.job = job, !.at = "reconciling"]
      OBVIOUS
  <2>3. /\ y \in SessionState /\ y.at = "reconciling" /\ y.seen = NothingSeen
        /\ y.job # "idle"
    <3>1. y \in SessionState /\ y.at = "reconciling" /\ y.seen = i.seen /\ y.job = job
        BY <2>2 DEF SessionState, Places
    <3> QED BY <2>1, <3>1 DEF JobKinds
  <2>4. session' = [session EXCEPT ![s] = y]
      BY <1>1, <1>2, <2>1, <2>2 DEF Reconciled, Become
  <2> QED BY <2>3, <2>4 DEF Fits, Holds
<1>3. CASE left # {}
  <2>1. PICK plan \in Plans : plan = Enabled
      BY DEF Enabled, Plans, StepSettings
  <2>2. PICK y : y = [x EXCEPT !.at = "reconciling", !.left = left,
                               !.campaign = None, !.plan = plan]
      OBVIOUS
  <2>3. /\ y \in SessionState /\ y.at = "reconciling" /\ y.seen = x.seen
        /\ y.job = job
    <3>1. /\ y \in SessionState /\ y.at = "reconciling" /\ y.seen = x.seen
          /\ y.job = x.job
        BY <2>2 DEF SessionState, Places
    <3> QED BY <1>1, <3>1
  <2>4. session' = [session EXCEPT ![s] = y]
      BY <1>3, <2>1, <2>2 DEF Reconciled, Become
  <2> QED BY <2>3, <2>4 DEF Fits, Holds, JobKinds
<1> QED BY <1>2, <1>3

\* A campaign is left, and the rows changed as they may.
LEMMA LeavesCampaign ==
    ASSUME IInv, NEW s \in Sessions, session[s].at \in Reconciles, NEW left \in SUBSET Campaigns,
           Reconciled(s, left), UNCHANGED Outside,
           RowsOK', Grows, \A x \in Messages : Kept(x)
    PROVE  Moves(s)
<1>1. PICK x \in SessionState : x = session[s] /\ Fits(x) /\ x.at \in Reconciles
    BY SessionIs
<1>2. PICK y \in SessionState :
          /\ session' = [session EXCEPT ![s] = y]
          /\ Fits(y) /\ Fits(y)' /\ y.at = "reconciling" /\ y.seen \in {x.seen, NothingSeen}
    BY <1>1, ReconciledIs
<1>3. accepted' = accepted
    BY DEF Outside
<1> QED BY <1>1, <1>2, <1>3, ReconcilesKept DEF Moves, Reconciles

LEMMA FinishMoves ==
    ASSUME IInv, NEW s \in Sessions, FinishStart(s) \/ FinishCampaign(s)
    PROVE  Moves(s)
<1>1. session[s].at \in Reconciles /\ Reconciled(s, session[s].left)
    BY DEF FinishStart, FinishCampaign, At, Reconciles
<1>2. session[s].left \in SUBSET Campaigns
    BY SessionIs DEF SessionState, Places
<1>3. UNCHANGED <<Tables, Outside>>
    BY DEF FinishStart, FinishCampaign
<1>4. RowsOK' /\ Grows /\ \A x \in Messages : Kept(x)
    BY <1>3, SameRows, TypeIs DEF IInv
<1> QED BY <1>1, <1>2, <1>3, <1>4, LeavesCampaign

LEMMA DropMoves ==
    ASSUME IInv, NEW s \in Sessions, NEW c \in Campaigns, EndReasonless(s, c) \/ BlockCampaign(s, c)
    PROVE  Moves(s)
<1>1. session[s].at \in Reconciles /\ Reconciled(s, session[s].left \ {c}) /\ UNCHANGED Outside
    BY DEF EndReasonless, BlockCampaign, Reconcilable, NextCampaign, Dropping, At, Reconciles
<1>2. session[s].left \ {c} \in SUBSET Campaigns
    BY SessionIs DEF SessionState, Places
<1>3. RowsOK /\ account' = account /\ reference' = reference
      /\ UNCHANGED <<settings, accepted, crashes>>
    BY <1>1, TypeIs DEF IInv, Outside, Facts
<1>4. RowsOK' /\ Grows /\ \A x \in Messages : Kept(x)
  <2>1. CASE UNCHANGED Tables
      BY <1>1, <1>3, <2>1, SameRows
  <2>2. ASSUME NEW which, NEW status \in CampaignStatus, EndCampaigns(which, status)
        PROVE  RowsOK' /\ Grows /\ \A x \in Messages : Kept(x)
      BY <1>3, <2>2, EndCampaignsKeeps DEF RowsOK
  <2>3. \A receivable : ClosingStatus(receivable) \in CampaignStatus
      BY DEF ClosingStatus, CampaignStatus
  <2>4. "CANCELADA" \in CampaignStatus
      BY DEF CampaignStatus
  <2> QED BY <2>1, <2>2, <2>3, <2>4 DEF EndReasonless, BlockCampaign
<1> QED BY <1>1, <1>2, <1>4, LeavesCampaign

LEMMA ReconcileCampaignMoves ==
    ASSUME IInv, NEW s \in Sessions, NEW c \in Campaigns, ReconcileCampaign(s, c)
    PROVE  Moves(s)
<1>1. PICK x \in SessionState : x = session[s] /\ Fits(x) /\ x.at = "reconciling"
    BY SessionIs DEF ReconcileCampaign, Reconcilable, NextCampaign, At
<1>2. PICK y : y = [x EXCEPT !.at = "campaign", !.left = @ \ {c}, !.campaign = c,
                             !.steps = Steps, !.plan = settings]
    OBVIOUS
<1>3. session' = [session EXCEPT ![s] = y] /\ UNCHANGED <<Tables, Outside>>
    BY <1>1, <1>2 DEF ReconcileCampaign, Become
<1>4. settings \in Plans
    BY TypeIs DEF IInv, RowsOK
<1>5. /\ y \in SessionState /\ y.at = "campaign" /\ y.campaign = c /\ y.job = x.job
      /\ y.seen = x.seen
    BY <1>1, <1>2, <1>4 DEF SessionState, Places
<1>6. Fits(y)
    BY <1>1, <1>5 DEF Fits, Holds
<1> QED BY <1>1, <1>3, <1>5, <1>6, ReconcilesSameRows DEF Moves, Reconciles

LEMMA EndReconcileMoves ==
    ASSUME IInv, NEW s \in Sessions, EndReconcile(s)
    PROVE  Moves(s)
<1>1. session[s].at \in Reconciles /\ UNCHANGED <<Tables, Outside>>
    BY DEF EndReconcile, At, Reconciles
<1>2. CASE session' = [session EXCEPT ![s] = Idle]
  <2>1. Idle.at = "idle"
      BY DEF Idle
  <2> QED BY <1>1, <1>2, <2>1, IdleIs, IdleFits, ReconcilesSameRows DEF Moves, Reconciles
<1>3. CASE session' = [session EXCEPT ![s] = [Idle EXCEPT !.job = "tick", !.at = "due"]]
  <2>1. PICK i \in SessionState : i = Idle
      BY IdleIs
  <2>2. PICK y : y = [i EXCEPT !.job = "tick", !.at = "due"]
      OBVIOUS
  <2>3. y \in SessionState /\ y.at = "due" /\ y.job = "tick"
      BY <2>2 DEF SessionState, Places
  <2>4. Fits(y)
      BY <2>3 DEF Fits, Holds
  <2> QED BY <1>1, <1>3, <2>1, <2>2, <2>3, <2>4, ReconcilesSameRows DEF Moves, Reconciles
<1> QED BY <1>2, <1>3 DEF EndReconcile, End, Become

\* The rows of one step of a campaign, whatever was read of it and is wanted.
StepChanges(m, seen) ==
    /\ RowsOK' /\ Grows
    /\ \A z \in Messages : Untaken(dispatch'[z]) =>
           Untaken(dispatch[z]) \/ (z = m /\ seen.dispatch \in Live /\ ~seen.uncertain)

LEMMA StepRowsStay ==
    ASSUME RowsOK, NEW m, NEW seen, UNCHANGED <<step, dispatch, campaign, Outside>>
    PROVE  StepChanges(m, seen)
<1>1. RowsOK' /\ Grows /\ \A x \in Messages : Kept(x)
    BY SameRows DEF Tables
<1> QED BY <1>1 DEF StepChanges, Kept

LEMMA StepRowsChange ==
    ASSUME RowsOK, NEW m \in Messages, NEW seen, UNCHANGED <<campaign, Outside>>,
           NEW status \in StepStatus, status # "none", NEW d \in Dispatch,
           Written(m, status, d),
           \/ d = dispatch[m]
           \/ d.status \in {"CANCELED", "IGNORED"} /\ ~d.uncertain
           \/ d.status = "SCHEDULED" /\ ~d.uncertain /\ dispatch[m] = NoDispatch
           \/ d.status = "SCHEDULED" /\ ~d.uncertain /\ seen.dispatch \in Live /\ ~seen.uncertain
    PROVE  StepChanges(m, seen)
<1>1. /\ RowsOK' /\ Grows /\ dispatch'[m] = d
      /\ \A z \in Messages : z # m => dispatch'[z] = dispatch[z]
    BY WrittenIs DEF RowsOK
<1>2. Untaken(NoDispatch)
    BY NewDispatchIs
<1>3. \A z \in Messages : Untaken(dispatch'[z]) =>
          Untaken(dispatch[z]) \/ (z = m /\ seen.dispatch \in Live /\ ~seen.uncertain)
    BY <1>1, <1>2 DEF Untaken
<1> QED BY <1>1, <1>3 DEF StepChanges

LEMMA CancelStepChanges ==
    ASSUME RowsOK, NEW m \in Messages, NEW seen, UNCHANGED <<campaign, Outside>>,
           NEW status \in {"IGNORED", "CANCELED"}, CancelStepAndDispatch(m, seen, status)
    PROVE  StepChanges(m, seen)
<1>1. dispatch[m] \in Dispatch /\ status \in StepStatus /\ status \in DispatchStatus
    BY DEF RowsOK, StepStatus, DispatchStatus
<1>2. CASE seen.dispatch \in Live
  <2>1. PICK d \in Dispatch : d = Ended(m, status) /\ d.status = status /\ ~d.uncertain
      BY <1>1, EndedIs DEF Ended
  <2>2. Written(m, status, d)
      BY <1>2, <2>1 DEF CancelStepAndDispatch, Written
  <2> QED BY <1>1, <2>1, <2>2, StepRowsChange
<1>3. CASE seen.dispatch \notin Live
  <2>1. Written(m, status, dispatch[m])
      BY <1>3, DispatchStays DEF CancelStepAndDispatch, Written
  <2> QED BY <1>1, <2>1, StepRowsChange
<1> QED BY <1>2, <1>3

LEMMA UnwantedStepChanges ==
    ASSUME RowsOK, NEW m \in Messages, NEW seen, NEW wanted, UNCHANGED <<campaign, Outside>>,
           UnwantedStep(m, seen, wanted)
    PROVE  StepChanges(m, seen)
<1>1. CASE seen.step # "none"
  <2>1. PICK status \in {"IGNORED", "CANCELED"} : CancelStepAndDispatch(m, seen, status)
      BY <1>1 DEF UnwantedStep
  <2> QED BY <2>1, CancelStepChanges
<1>2. CASE seen.step = "none" /\ wanted = "inactive" /\ step[m] = "none"
  <2>1. step' = [step EXCEPT ![m] = "IGNORED"] /\ UNCHANGED dispatch
      BY <1>2 DEF UnwantedStep
  <2>2. Written(m, "IGNORED", dispatch[m]) /\ dispatch[m] \in Dispatch
      BY <2>1, DispatchStays DEF Written
  <2>3. "IGNORED" \in StepStatus
      BY DEF StepStatus
  <2> QED BY <2>2, <2>3, StepRowsChange
<1>3. CASE seen.step = "none" /\ ~(wanted = "inactive" /\ step[m] = "none")
  <2>1. UNCHANGED <<step, dispatch>>
      BY <1>3 DEF UnwantedStep
  <2> QED BY <2>1, StepRowsStay
<1> QED BY <1>1, <1>2, <1>3

LEMMA WantedStepChanges ==
    ASSUME RowsOK, NEW m \in Messages, NEW seen, UNCHANGED <<campaign, Outside>>,
           WantedStep(m, seen)
    PROVE  StepChanges(m, seen)
<1>1. CASE UNCHANGED <<step, dispatch>>
    BY <1>1, StepRowsStay
<1>2. "SCHEDULED" \in StepStatus
    BY DEF StepStatus
<1>3. CASE /\ dispatch[m] = NoDispatch /\ step' = [step EXCEPT ![m] = "SCHEDULED"]
           /\ dispatch' = [dispatch EXCEPT ![m] = NewDispatch(TRUE, FALSE)]
  <2>1. PICK d \in Dispatch : d = NewDispatch(TRUE, FALSE) /\ d.status = "SCHEDULED" /\ ~d.uncertain
      BY NewDispatchIs
  <2>2. Written(m, "SCHEDULED", d)
      BY <1>3, <2>1 DEF Written
  <2> QED BY <1>2, <1>3, <2>1, <2>2, StepRowsChange
<1>4. CASE CanReschedule(seen) /\ Reschedule(m)
  <2>1. PICK old \in Dispatch : old = dispatch[m]
      BY DEF RowsOK
  <2>2. PICK d \in Dispatch : /\ d = [old EXCEPT !.status = "SCHEDULED", !.uncertain = FALSE]
                              /\ d.status = "SCHEDULED" /\ ~d.uncertain
      BY EndedIs DEF DispatchStatus, StepStatus
  <2>3. Written(m, "SCHEDULED", d)
      BY <1>4, <2>1, <2>2 DEF Reschedule, Written
  <2>4. seen.dispatch \in Live /\ ~seen.uncertain
      BY <1>4 DEF CanReschedule
  <2> QED BY <1>2, <2>2, <2>3, <2>4, StepRowsChange
<1> QED BY <1>1, <1>3, <1>4 DEF WantedStep, AddDispatch

LEMMA ReconcileStepMoves ==
    ASSUME IInv, NEW s \in Sessions, NEW n \in Steps, ReconcileStep(s, n)
    PROVE  Moves(s)
<1>1. PICK x \in SessionState : x = session[s] /\ Fits(x) /\ x.at = "campaign"
    BY SessionIs DEF ReconcileStep, At
<1>2. PICK m \in Messages : m = <<x.campaign, n>>
    BY <1>1 DEF Fits, Messages
<1>3. RowsOK /\ UNCHANGED <<campaign, Outside>>
    BY TypeIs DEF IInv, ReconcileStep
<1>4. StepChanges(m, x.seen[m])
  <2>1. WantedStep(m, x.seen[m]) \/ UnwantedStep(m, x.seen[m], x.plan[n])
      BY <1>1, <1>2 DEF ReconcileStep
  <2> QED BY <1>3, <2>1, WantedStepChanges, UnwantedStepChanges
<1>5. PICK y \in SessionState : /\ session' = [session EXCEPT ![s] = y] /\ Fits(y)
                                /\ y.at \in {"campaign", "idle"}
                                /\ y.at = "campaign" => y.seen = x.seen
  <2>1. CASE session' = [session EXCEPT ![s] = Idle]
      BY <2>1, IdleIs, IdleFits DEF Idle
  <2>2. CASE session' = [session EXCEPT ![s] = [x EXCEPT !.steps = @ \ {n}]]
    <3>1. PICK y : y = [x EXCEPT !.steps = @ \ {n}]
        OBVIOUS
    <3>2. y \in SessionState /\ y.at = "campaign" /\ y.campaign = x.campaign /\ y.job = x.job
          /\ y.seen = x.seen
        BY <1>1, <3>1 DEF SessionState
    <3>3. Fits(y)
        BY <1>1, <3>2 DEF Fits, Holds
    <3> QED BY <2>2, <3>1, <3>2, <3>3
  <2> QED BY <1>1, <2>1, <2>2 DEF ReconcileStep, End, Become
<1>6. RowsOK' /\ Grows
    BY <1>4 DEF StepChanges
<1>7. Fits(y)'
    BY <1>3, <1>5, <1>6, StillFits
<1>8. IInv'
    BY <1>5, <1>6, <1>7, OthersFit
<1>9. ReconcilesTo(s, y)
    BY <1>1, <1>3, <1>4, <1>5 DEF ReconcilesTo, StepChanges, Outside, Reconciles
<1> QED BY <1>8, <1>9 DEF Moves

LEMMA ReconcilingMoves ==
    ASSUME IInv, NEW s \in Sessions, Reconciling(s)
    PROVE  Moves(s)
<1> QED BY SkipStartMoves, FinishMoves, CreateDispatchMoves, LinkDispatchMoves,
           StartCampaignMoves, CreateStepMoves, DropMoves, ReconcileCampaignMoves,
           ReconcileStepMoves, EndReconcileMoves DEF Reconciling

(***************************************************************************)
(* A request begins.                                                       *)
(***************************************************************************)
\* A request that is not held by anything becomes y, and the rows stay.
Begins(s, y) ==
    /\ session' = [session EXCEPT ![s] = y]
    /\ UNCHANGED <<Tables, Outside>>

LEMMA BeginsKeeps ==
    ASSUME IInv, NEW s \in Sessions, NEW y \in SessionState, Fits(y), Begins(s, y)
    PROVE  IInv'
<1>1. RowsOK /\ RowsOK' /\ Grows
    BY TypeIs, SameRows DEF IInv, Begins
<1>2. Fits(y)'
    BY <1>1, StillFits
<1> QED BY <1>1, <1>2, OthersFit DEF Begins

LEMMA SeenIs ==
    ASSUME RowsOK
    PROVE  /\ Seen \in SeenRows
           /\ \A x \in Messages : Seen[x].dispatch \in Live /\ ~Seen[x].uncertain =>
                  Untaken(dispatch[x])
<1> DEFINE Row == [step : StepStatus, dispatch : DispatchStatus, uncertain : BOOLEAN]
           row(x) == IF x[1] \notin Active THEN Unseen
                     ELSE [step |-> step[x],
                           dispatch |-> IF dispatch[x].linked THEN dispatch[x].status ELSE "none",
                           uncertain |-> dispatch[x].linked /\ dispatch[x].uncertain]
<1>1. Unseen \in Row /\ Unseen.dispatch = "none"
    BY DEF Unseen, StepStatus, DispatchStatus
<1>2. ASSUME NEW x \in Messages
      PROVE  /\ row(x) \in Row
             /\ row(x).dispatch \in Live /\ ~row(x).uncertain => Untaken(dispatch[x])
  <2>1. CASE x[1] \notin Active
      BY <1>1, <2>1 DEF Live
  <2>2. CASE x[1] \in Active
    <3>1. /\ dispatch[x].status \in DispatchStatus /\ dispatch[x].uncertain \in BOOLEAN
          /\ dispatch[x].linked \in BOOLEAN /\ step[x] \in StepStatus
        BY DEF RowsOK, Dispatch
    <3>2. "none" \in DispatchStatus
        BY DEF StepStatus, DispatchStatus
    <3>3. row(x) = [step |-> step[x],
                    dispatch |-> IF dispatch[x].linked THEN dispatch[x].status ELSE "none",
                    uncertain |-> dispatch[x].linked /\ dispatch[x].uncertain]
        BY <2>2
    <3> HIDE DEF row
    <3>4. CASE dispatch[x].linked
        BY <3>1, <3>3, <3>4 DEF Untaken, Live
    <3>5. CASE ~dispatch[x].linked
        BY <3>1, <3>2, <3>3, <3>5 DEF Live
    <3> QED BY <3>1, <3>4, <3>5
  <2> QED BY <2>1, <2>2
<1>3. Seen = [x \in Messages |-> row(x)]
    BY DEF Seen
<1> HIDE DEF row
<1> QED BY <1>2, <1>3 DEF SeenRows

LEMMA BeginReconcileBegins ==
    ASSUME IInv, NEW s \in Sessions, NEW job \in {"tick", "reconcile"}, BeginReconcile(s, job)
    PROVE  /\ IInv' /\ session[s] = Idle /\ MayReconcile(s)
           /\ \E y : /\ Begins(s, y) /\ y.at = "reconciling"
                     /\ \A x \in Messages : y.seen[x].dispatch \in Live /\ ~y.seen[x].uncertain
                            => Untaken(dispatch[x])
<1>1. session[s] = Idle /\ MayReconcile(s) /\ UNCHANGED <<Tables, Outside>>
    BY DEF BeginReconcile
<1>2. RowsOK
    BY TypeIs DEF IInv
<1>3. PICK i \in SessionState : i = Idle /\ i.seen = NothingSeen
    BY IdleIs DEF Idle
<1>4. PICK begun : begun = [i EXCEPT !.job = job, !.at = "reconciling"]
    OBVIOUS
<1>5. /\ begun \in SessionState /\ begun.at = "reconciling" /\ begun.job = job
      /\ begun.seen = NothingSeen
  <2>1. job \in JobKinds \cup {"tick", "idle"}
      BY DEF JobKinds
  <2> QED BY <1>3, <1>4, <2>1 DEF SessionState, Places
<1>6. PICK overdue \in BOOLEAN : overdue = (account = "PENDENTE" /\ reference = "ATIVO")
    OBVIOUS
<1>7. PICK y \in SessionState :
          /\ session' = [session EXCEPT ![s] = y]
          /\ y.at = "reconciling" /\ y.job = job /\ y.seen \in {NothingSeen, Seen}
  <2>1. CASE Active = {}
    <3>1. PICK y : y = [begun EXCEPT !.overdue = overdue]
        OBVIOUS
    <3>2. y \in SessionState /\ y.at = "reconciling" /\ y.job = job /\ y.seen = NothingSeen
        BY <1>5, <3>1 DEF SessionState
    <3>3. session' = [session EXCEPT ![s] = y]
        BY <1>3, <1>4, <1>6, <2>1, <3>1 DEF BeginReconcile, Become
    <3> QED BY <3>2, <3>3
  <2>2. CASE Active # {}
    <3>1. PICK left \in SUBSET Campaigns, seen \in SeenRows : left = Active /\ seen = Seen
        BY <1>2, SeenIs DEF Active
    <3>2. PICK y : y = [begun EXCEPT !.account = account, !.reference = reference,
                                     !.left = left, !.seen = seen]
        OBVIOUS
    <3>3. y \in SessionState /\ y.at = "reconciling" /\ y.job = job /\ y.seen = seen
        BY <1>2, <1>5, <3>2 DEF SessionState, RowsOK
    <3>4. session' = [session EXCEPT ![s] = y]
        BY <1>3, <1>4, <2>2, <3>1, <3>2 DEF BeginReconcile, Become
    <3> QED BY <3>1, <3>3, <3>4
  <2> QED BY <2>1, <2>2
<1>8. Fits(y)
    BY <1>7 DEF Fits, Holds
<1>9. \A x \in Messages : y.seen[x].dispatch \in Live /\ ~y.seen[x].uncertain
                              => Untaken(dispatch[x])
  <2>1. \A x \in Messages : NothingSeen[x].dispatch \notin Live
      BY DEF NothingSeen, Unseen, Live
  <2> QED BY <1>2, <1>7, <2>1, SeenIs
<1>10. Begins(s, y)
    BY <1>1, <1>7 DEF Begins
<1> QED BY <1>1, <1>7, <1>8, <1>9, <1>10, BeginsKeeps

\* processDue, and the rest of a tick, look for the next message.
LEMMA DueIs ==
    ASSUME NEW job \in JobKinds \cup {"tick"}, NEW y, y = [Idle EXCEPT !.job = job, !.at = "due"]
    PROVE  y \in SessionState /\ Fits(y) /\ y.at = "due"
<1>1. PICK i \in SessionState : i = Idle
    BY IdleIs
<1>2. y = [i EXCEPT !.job = job, !.at = "due"]
    BY <1>1
<1>3. y \in SessionState /\ y.at = "due" /\ y.job = job
    BY <1>2 DEF SessionState, Places
<1> QED BY <1>3 DEF Fits, Holds, JobKinds

LEMMA BeginProcessDueBegins ==
    ASSUME IInv, NEW s \in Sessions, BeginProcessDue(s)
    PROVE  /\ IInv' /\ session[s] = Idle
           /\ \E y : Begins(s, y) /\ y.at = "due"
<1>1. PICK y : y = [Idle EXCEPT !.job = "processDue", !.at = "due"]
    OBVIOUS
<1>2. y \in SessionState /\ Fits(y) /\ y.at = "due"
    BY <1>1, DueIs DEF JobKinds
<1>3. Begins(s, y) /\ session[s] = Idle
    BY <1>1 DEF BeginProcessDue, Become, Begins
<1> QED BY <1>2, <1>3, BeginsKeeps

(***************************************************************************)
(* The steps of a request that holds a message.                            *)
(***************************************************************************)
Early == {"acquired", "sending", "retry"}

\* Only its own message changes for others to see.  It comes back to the queue
\* only from a retry, and is accepted only while it is sent.
HoldsTo(s, y) ==
    LET m == session[s].message
    IN  /\ session' = [session EXCEPT ![s] = y]
        /\ session[s].at \in Holds /\ y.at \in Holds \cup {"idle", "due"}
        /\ \A x \in Messages : x # m => Kept(x) /\ accepted'[x] = accepted[x]
        /\ y.at \in Holds => y.message = m /\ Kept(m)
        /\ y.at \in Early => session[s].at \in Early /\ accepted'[m] = accepted[m]
        /\ y.at \notin Holds /\ Untaken(dispatch'[m])
               => Untaken(dispatch[m]) \/ session[s].at = "retry"
        /\ session[s].at # "sending" => accepted' = accepted
        /\ y.at = "sending" => session[s].at = "acquired" /\ Eligible(m)
        /\ session[s].at = "sending" \/ y.at = "sending" => UNCHANGED <<campaign, account, reference>>

Handles(s) == IInv' /\ \E y : HoldsTo(s, y)

LEMMA HoldsSameRows ==
    ASSUME IInv, NEW s \in Sessions, NEW x \in SessionState, x = session[s], x.at \in Holds,
           NEW y \in SessionState, Fits(y), session' = [session EXCEPT ![s] = y],
           UNCHANGED <<Tables, Outside>>,
           y.at \in Holds, y.message = x.message,
           y.at \in Early => x.at \in Early,
           y.at = "sending" => x.at = "acquired" /\ Eligible(x.message)
    PROVE  Handles(s)
<1>1. RowsOK /\ RowsOK' /\ Grows /\ \A z \in Messages : Kept(z)
    BY TypeIs, SameRows DEF IInv
<1>2. Fits(y)' /\ x.message \in Messages
    BY <1>1, StillFits, SessionIs DEF Fits
<1>3. accepted' = accepted /\ UNCHANGED <<campaign, account, reference>>
    BY DEF Outside, Tables, Facts
<1>4. HoldsTo(s, y)
    BY <1>1, <1>2, <1>3 DEF HoldsTo
<1> QED BY <1>1, <1>2, <1>4, OthersFit DEF Handles

LEMMA CheckHandles ==
    ASSUME IInv, NEW s \in Sessions, PassCheck(s) \/ CannotSend(s) \/ LoseConfirmation(s)
    PROVE  Handles(s)
<1>1. PICK x \in SessionState : x = session[s] /\ Fits(x) /\ x.at \in Holds
    BY SessionIs DEF PassCheck, CannotSend, LoseConfirmation, At, Holds
<1>2. PICK m \in Messages : m = x.message /\ dispatch[m].status # "none"
    BY <1>1 DEF Fits
<1>3. PICK attempts \in 0 .. maxAttempts : attempts = dispatch[m].attempts
    BY <1>2, TypeIs DEF IInv, RowsOK, Dispatch
<1>4. UNCHANGED <<Tables, Outside>>
    BY DEF PassCheck, CannotSend, LoseConfirmation
<1>5. CASE PassCheck(s)
  <2>1. PICK y : y = [x EXCEPT !.at = "sending", !.attempts = attempts]
      OBVIOUS
  <2>2. /\ y \in SessionState /\ y.at = "sending" /\ y.message = m /\ y.job = x.job
      BY <1>1, <1>2, <2>1 DEF SessionState, Places
  <2>3. session' = [session EXCEPT ![s] = y] /\ x.at = "acquired" /\ Eligible(m)
      BY <1>1, <1>2, <1>3, <1>5, <2>1 DEF PassCheck, Become, At
  <2>4. Fits(y)
      BY <1>1, <1>2, <2>2, <2>3 DEF Fits, Holds
  <2> QED BY <1>1, <1>2, <1>4, <2>2, <2>3, <2>4, HoldsSameRows DEF Holds, Early
<1>6. CASE CannotSend(s)
  <2>1. PICK y : y = [x EXCEPT !.at = "retry", !.attempts = attempts]
      OBVIOUS
  <2>2. /\ y \in SessionState /\ y.at = "retry" /\ y.message = m /\ y.job = x.job
      BY <1>1, <1>2, <2>1 DEF SessionState, Places
  <2>3. session' = [session EXCEPT ![s] = y] /\ x.at \in {"acquired", "sending"}
      BY <1>1, <1>2, <1>3, <1>6, <2>1 DEF CannotSend, Become, At
  <2>4. Fits(y)
      BY <1>1, <1>2, <2>2, <2>3 DEF Fits, Holds
  <2> QED BY <1>1, <1>2, <1>4, <2>2, <2>3, <2>4, HoldsSameRows DEF Holds, Early
<1>7. CASE LoseConfirmation(s)
  <2>1. PICK y : y = [x EXCEPT !.at = "uncertain"]
      OBVIOUS
  <2>2. /\ y \in SessionState /\ y.at = "uncertain" /\ y.message = m /\ y.job = x.job
      BY <1>1, <1>2, <2>1 DEF SessionState, Places
  <2>3. session' = [session EXCEPT ![s] = y] /\ x.at = "confirmed"
      BY <1>1, <1>7, <2>1 DEF LoseConfirmation, GoTo, Become, At
  <2>4. Fits(y)
      BY <1>1, <1>2, <2>2, <2>3 DEF Fits, Holds
  <2> QED BY <1>1, <1>2, <1>4, <2>2, <2>3, <2>4, HoldsSameRows DEF Holds, Early
<1> QED BY <1>5, <1>6, <1>7

LEMMA FailCheckHandles ==
    ASSUME IInv, NEW s \in Sessions, FailCheck(s)
    PROVE  Handles(s)
<1>1. PICK x \in SessionState : x = session[s] /\ Fits(x) /\ x.at = "acquired"
    BY SessionIs DEF FailCheck, At
<1>2. PICK m \in Messages : m = x.message
    BY <1>1 DEF Fits, Holds
<1>3. RowsOK /\ UNCHANGED Outside
    BY TypeIs DEF IInv, FailCheck
<1>4. account' = account /\ reference' = reference /\ UNCHANGED <<settings, accepted, crashes>>
    BY <1>3 DEF Outside, Facts
<1>5. RowsOK' /\ Grows /\ \A z \in Messages : Kept(z)
  <2>1. CASE UNCHANGED Tables
      BY <1>3, <2>1, SameRows
  <2>2. CASE EndCampaigns(Active, "CANCELADA") \/ EndCampaigns(Active, ClosingStatus(account))
    <3>1. PICK status \in CampaignStatus : EndCampaigns(Active, status)
        BY <2>2 DEF ClosingStatus, CampaignStatus
    <3> QED BY <1>3, <1>4, <3>1, EndCampaignsKeeps DEF RowsOK
  <2> QED BY <2>1, <2>2 DEF FailCheck
<1>6. PICK outcome \in {"CANCELED", "IGNORED"} :
           session' = [session EXCEPT ![s] = [x EXCEPT !.at = "refused", !.outcome = outcome]]
    BY <1>1 DEF FailCheck, Become
<1>7. PICK y : /\ y = [x EXCEPT !.at = "refused", !.outcome = outcome]
               /\ session' = [session EXCEPT ![s] = y]
    BY <1>6
<1>8. /\ y \in SessionState /\ y.at = "refused" /\ y.message = m /\ y.job = x.job
      /\ y.outcome = outcome
    BY <1>1, <1>2, <1>7 DEF SessionState, Places, Outcomes
<1>9. Fits(y)'
  <2>1. dispatch'[m].status # "none"
      BY <1>1, <1>2, <1>5 DEF Fits, Holds, Grows
  <2> QED BY <1>1, <1>2, <1>7, <1>8, <2>1 DEF Fits, Holds
<1>10. HoldsTo(s, y)
    BY <1>1, <1>2, <1>4, <1>5, <1>7, <1>8 DEF HoldsTo, Holds, Early
<1> QED BY <1>5, <1>7, <1>8, <1>9, <1>10, OthersFit DEF Handles

LEMMA ProviderAnswersHandles ==
    ASSUME IInv, NEW s \in Sessions, NEW answer \in Answers, NEW taken \in BOOLEAN,
           ProviderAnswers(s, answer, taken)
    PROVE  Handles(s)
<1>1. PICK x \in SessionState : x = session[s] /\ Fits(x) /\ x.at = "sending"
    BY SessionIs DEF ProviderAnswers, At
<1>2. PICK m \in Messages : m = x.message /\ dispatch[m].status # "none"
    BY <1>1 DEF Fits, Holds
<1>3. /\ RowsOK /\ account' = account /\ reference' = reference /\ settings' = settings
      /\ campaign' = campaign /\ step' = step /\ dispatch' = dispatch /\ crashes' = crashes
    BY TypeIs DEF IInv, ProviderAnswers, Tables, Facts
<1>4. accepted' = [accepted EXCEPT ![m] = IF taken THEN @ + 1 ELSE @]
    BY <1>1, <1>2 DEF ProviderAnswers
<1>5. /\ accepted' \in [Messages -> Nat]
      /\ taken => accepted'[m] > 0
      /\ ~taken => accepted'[m] = accepted[m]
      /\ accepted[m] > 0 => accepted'[m] > 0
      /\ \A z \in Messages : z # m => accepted'[z] = accepted[z]
    BY <1>3, <1>4 DEF RowsOK
<1>6. \A z \in Messages : accepted[z] > 0 => accepted'[z] > 0
    BY <1>5
<1>7. RowsOK' /\ Grows /\ \A z \in Messages : Kept(z)
  <2>1. RowsOK'
      BY <1>3, <1>5, <1>6 DEF RowsOK
  <2>2. Grows /\ \A z \in Messages : Kept(z)
      BY <1>3, <1>6 DEF Grows, Kept
  <2> QED BY <2>1, <2>2
<1>8. PICK at \in {"confirmed", "retry", "uncertain"} :
          /\ session' = [session EXCEPT ![s] = [x EXCEPT !.at = at]]
          /\ at = "confirmed" => taken
          /\ at = "retry" => ~taken
  <2>1. /\ answer = "identified" => taken
        /\ answer = "rejected" => ~taken
      BY DEF ProviderAnswers
  <2> QED BY <1>1, <2>1 DEF ProviderAnswers, GoTo, Become
<1>9. PICK y : /\ y = [x EXCEPT !.at = at] /\ session' = [session EXCEPT ![s] = y]
               /\ at = "confirmed" => taken
               /\ at = "retry" => ~taken
    BY <1>8
<1>10. y \in SessionState /\ y.at = at /\ y.message = m /\ y.job = x.job
    BY <1>1, <1>2, <1>9 DEF SessionState, Places
<1>11. Fits(y)'
    BY <1>1, <1>2, <1>3, <1>5, <1>9, <1>10 DEF Fits, Holds
<1>12. HoldsTo(s, y)
    BY <1>1, <1>2, <1>3, <1>5, <1>7, <1>9, <1>10 DEF HoldsTo, Holds, Early
<1> QED BY <1>7, <1>9, <1>10, <1>11, <1>12, OthersFit DEF Handles

\* The request is done with its message, whose rows it writes last.
LEMMA DoneHandles ==
    ASSUME IInv, NEW s \in Sessions, NEW x \in SessionState, x = session[s], x.at \in Holds,
           x.at # "sending", NEW m \in Messages, m = x.message,
           Continue(s), NEW status \in StepStatus, status # "none", NEW d \in Dispatch,
           Written(m, status, d), campaign' \in [Campaigns -> CampaignStatus],
           UNCHANGED Outside, d.status # "none",
           d.uncertain => d.status = "FAILED", d.status = "SENT" => accepted[m] > 0,
           Untaken(d) => x.at = "retry"
    PROVE  Handles(s)
<1>1. RowsOK
    BY TypeIs DEF IInv
<1>2. /\ RowsOK' /\ Grows /\ dispatch'[m] = d
      /\ \A z \in Messages : z # m => dispatch'[z] = dispatch[z]
    BY <1>1, WrittenIs
<1>3. accepted' = accepted
    BY DEF Outside
<1>4. PICK y \in SessionState : /\ session' = [session EXCEPT ![s] = y] /\ Fits(y)
                                /\ y.at \in {"idle", "due"}
  <2>1. CASE session' = [session EXCEPT ![s] = Idle]
      BY <2>1, IdleIs, IdleFits DEF Idle
  <2>2. CASE session' = [session EXCEPT ![s] = [Idle EXCEPT !.job = x.job, !.at = "due"]]
    <3>1. PICK job \in JobKinds \cup {"tick"} : job = x.job
        BY SessionIs DEF SessionState, Fits, Holds
    <3>2. PICK y : y = [Idle EXCEPT !.job = job, !.at = "due"]
        OBVIOUS
    <3> QED BY <2>2, <3>1, <3>2, DueIs
  <2> QED BY <2>1, <2>2 DEF Continue, End, Become
<1>5. Fits(y)'
    BY <1>1, <1>2, <1>4, StillFits
<1>6. \A z \in Messages : z # m => Kept(z)
    BY <1>2 DEF Kept
<1>7. HoldsTo(s, y)
    BY <1>2, <1>3, <1>4, <1>6 DEF HoldsTo, Holds, Early
<1> QED BY <1>2, <1>4, <1>5, <1>7, OthersFit DEF Handles

LEMMA MarkIneligibleHandles ==
    ASSUME IInv, NEW s \in Sessions, MarkIneligible(s)
    PROVE  Handles(s)
<1>1. PICK x \in SessionState : x = session[s] /\ Fits(x) /\ x.at = "refused"
    BY SessionIs DEF MarkIneligible, At
<1>2. PICK m \in Messages : m = x.message /\ dispatch[m].status # "none"
    BY <1>1 DEF Fits, Holds
<1>3. PICK outcome \in {"CANCELED", "IGNORED"} : outcome = x.outcome
    BY <1>1 DEF Fits, SessionState, Outcomes
<1>4. RowsOK
    BY TypeIs DEF IInv
<1>5. PICK d \in Dispatch : d = Ended(m, outcome) /\ d.status = outcome /\ ~d.uncertain
    BY <1>4, EndedIs DEF Ended, RowsOK, StepStatus, DispatchStatus
<1>6. PICK status \in {outcome, step[m]} : step' = [step EXCEPT ![m] = status]
  <2>1. CASE step' = [step EXCEPT ![m] = outcome]
      BY <2>1
  <2>2. CASE step' = step
      BY <1>4, <2>2, StepStays
  <2> QED BY <1>1, <1>2, <1>3, <2>1, <2>2 DEF MarkIneligible
<1>7. status \in StepStatus /\ status # "none"
    BY <1>2, <1>3, <1>4, <1>6 DEF RowsOK, StepStatus
<1>8. Written(m, status, d)
    BY <1>1, <1>2, <1>3, <1>5, <1>6 DEF MarkIneligible, Written
<1>9. Continue(s) /\ UNCHANGED Outside /\ campaign' \in [Campaigns -> CampaignStatus]
    BY <1>4 DEF MarkIneligible, RowsOK
<1>10. d.status # "none" /\ ~Untaken(d) /\ d.status # "SENT"
    BY <1>3, <1>5 DEF Untaken
<1> QED BY <1>1, <1>2, <1>5, <1>7, <1>8, <1>9, <1>10, DoneHandles DEF Holds

LEMMA MarkRetryHandles ==
    ASSUME IInv, NEW s \in Sessions, MarkRetry(s)
    PROVE  Handles(s)
<1>1. PICK x \in SessionState : x = session[s] /\ Fits(x) /\ x.at = "retry"
    BY SessionIs DEF MarkRetry, At
<1>2. PICK m \in Messages : m = x.message /\ dispatch[m].status # "none"
    BY <1>1 DEF Fits, Holds
<1>3. RowsOK
    BY TypeIs DEF IInv
<1>4. PICK old \in Dispatch : old = dispatch[m]
    BY <1>3 DEF RowsOK
<1>5. PICK d \in Dispatch : /\ d = [old EXCEPT !.status = "FAILED", !.uncertain = FALSE]
                            /\ d.status = "FAILED" /\ ~d.uncertain
    BY EndedIs DEF StepStatus, DispatchStatus
<1>6. PICK status \in {"FAILED", step[m]} : step' = [step EXCEPT ![m] = status]
  <2>1. CASE step' = [step EXCEPT ![m] = "FAILED"]
      BY <2>1
  <2>2. CASE step' = step
      BY <1>3, <2>2, StepStays
  <2> QED BY <1>1, <1>2, <2>1, <2>2 DEF MarkRetry
<1>7. status \in StepStatus /\ status # "none"
    BY <1>2, <1>3, <1>6 DEF RowsOK, StepStatus
<1>8. Written(m, status, d)
  <2>1. dispatch' = [dispatch EXCEPT ![m] = d]
      BY <1>1, <1>2, <1>4, <1>5 DEF MarkRetry
  <2> QED BY <1>6, <2>1 DEF Written
<1>9. Continue(s) /\ UNCHANGED Outside /\ campaign' \in [Campaigns -> CampaignStatus]
    BY <1>3 DEF MarkRetry, RowsOK
<1> QED BY <1>1, <1>2, <1>5, <1>7, <1>8, <1>9, DoneHandles DEF Holds

LEMMA ConfirmSentHandles ==
    ASSUME IInv, NEW s \in Sessions, ConfirmSent(s)
    PROVE  Handles(s)
<1>1. PICK x \in SessionState : x = session[s] /\ Fits(x) /\ x.at = "confirmed"
    BY SessionIs DEF ConfirmSent, At
<1>2. PICK m \in Messages : m = x.message /\ accepted[m] > 0
    BY <1>1 DEF Fits, Holds
<1>3. RowsOK
    BY TypeIs DEF IInv
<1>4. PICK d \in Dispatch : d = Ended(m, "SENT") /\ d.status = "SENT" /\ ~d.uncertain
    BY <1>3, EndedIs DEF Ended, RowsOK, StepStatus, DispatchStatus
<1>5. Written(m, "SENT", d)
    BY <1>1, <1>2, <1>4 DEF ConfirmSent, Written
<1>6. campaign' \in [Campaigns -> CampaignStatus]
  <2>1. campaign' = campaign \/ campaign' = [campaign EXCEPT ![m[1]] = "CONCLUIDA"]
      BY <1>1, <1>2 DEF ConfirmSent
  <2> QED BY <1>3, <2>1 DEF RowsOK, CampaignStatus
<1>7. Continue(s) /\ UNCHANGED Outside /\ "SENT" \in StepStatus /\ ~Untaken(d)
    BY <1>4 DEF ConfirmSent, StepStatus, Untaken
<1> QED BY <1>1, <1>2, <1>4, <1>5, <1>6, <1>7, DoneHandles DEF Holds

LEMMA MarkProviderOutcomeUncertainHandles ==
    ASSUME IInv, NEW s \in Sessions, MarkProviderOutcomeUncertain(s)
    PROVE  Handles(s)
<1>1. PICK x \in SessionState : x = session[s] /\ Fits(x) /\ x.at = "uncertain"
    BY SessionIs DEF MarkProviderOutcomeUncertain, At
<1>2. PICK m \in Messages : m = x.message /\ dispatch[m].status # "none"
    BY <1>1 DEF Fits, Holds
<1>3. RowsOK
    BY TypeIs DEF IInv
<1>4. PICK old \in Dispatch : old = dispatch[m]
    BY <1>3 DEF RowsOK
<1>5. PICK d : d = [old EXCEPT !.status = "FAILED", !.uncertain = TRUE]
    OBVIOUS
<1>6. d \in Dispatch /\ d.status = "FAILED" /\ d.uncertain = TRUE
    BY <1>5 DEF Dispatch, StepStatus, DispatchStatus
<1>7. step' = step /\ step[m] \in StepStatus /\ step[m] # "none"
    BY <1>2, <1>3 DEF MarkProviderOutcomeUncertain, RowsOK
<1>8. Written(m, step[m], d)
  <2>1. dispatch' = [dispatch EXCEPT ![m] = d]
      BY <1>1, <1>2, <1>4, <1>5 DEF MarkProviderOutcomeUncertain
  <2> QED BY <1>3, <1>7, <2>1, StepStays DEF Written
<1>9. /\ Continue(s) /\ UNCHANGED Outside /\ campaign' \in [Campaigns -> CampaignStatus]
      /\ ~Untaken(d)
    BY <1>3, <1>6 DEF MarkProviderOutcomeUncertain, RowsOK, Untaken
<1> QED BY <1>1, <1>2, <1>6, <1>7, <1>8, <1>9, DoneHandles DEF Holds

LEMMA AcquireDispatchAcquires ==
    ASSUME IInv, NEW s \in Sessions, NEW m \in Messages, AcquireDispatch(s, m)
    PROVE  /\ IInv' /\ session[s].at = "due" /\ Untaken(dispatch[m])
           /\ accepted' = accepted
           /\ dispatch'[m].status = "PROCESSING" /\ dispatch[m].status # "PROCESSING"
           /\ \A z \in Messages : z # m => dispatch'[z] = dispatch[z]
           /\ \E y : /\ session' = [session EXCEPT ![s] = y]
                     /\ y.at = "acquired" /\ y.message = m
<1>1. PICK x \in SessionState : x = session[s] /\ Fits(x) /\ x.at = "due"
    BY SessionIs DEF AcquireDispatch, At
<1>2. RowsOK /\ UNCHANGED Outside /\ step' = step /\ campaign' = campaign
    BY TypeIs DEF IInv, AcquireDispatch
<1>3. PICK old \in Dispatch : old = dispatch[m]
    BY <1>2 DEF RowsOK
<1>4. old.status \in Live /\ old.attempts + 1 \in 0 .. maxAttempts /\ ~old.uncertain
    BY <1>3 DEF AcquireDispatch, CanAcquire, Dispatch, maxAttempts
<1>5. PICK d : d = [dispatch[m] EXCEPT !.status = "PROCESSING",
                                         !.attempts = dispatch[m].attempts + 1]
    OBVIOUS
<1>6. d \in Dispatch /\ d.status = "PROCESSING" /\ ~d.uncertain
    BY <1>3, <1>4, <1>5 DEF Dispatch, DispatchStatus
<1>7. Written(m, step[m], d) /\ step[m] \in StepStatus
  <2>1. dispatch' = [dispatch EXCEPT ![m] = d]
      BY <1>5 DEF AcquireDispatch
  <2> QED BY <1>2, <2>1, StepStays DEF Written
<1>8. step[m] # "none"
    BY <1>2, <1>3, <1>4 DEF RowsOK, Live
<1>9. /\ RowsOK' /\ Grows /\ dispatch'[m] = d
      /\ \A z \in Messages : z # m => dispatch'[z] = dispatch[z]
    BY <1>2, <1>6, <1>7, <1>8, WrittenIs DEF RowsOK
<1>10. PICK y : y = [x EXCEPT !.at = "acquired", !.message = m]
    OBVIOUS
<1>11. y \in SessionState /\ y.at = "acquired" /\ y.message = m /\ y.job = x.job
    BY <1>10 DEF SessionState, Places
<1>12. session' = [session EXCEPT ![s] = y]
    BY <1>1, <1>10 DEF AcquireDispatch, Become
<1>13. Fits(y)'
    BY <1>1, <1>6, <1>9, <1>11 DEF Fits, Holds
<1>14. IInv'
    BY <1>9, <1>11, <1>12, <1>13, OthersFit
<1>15. accepted' = accepted
    BY <1>2 DEF Outside
<1>16. Untaken(dispatch[m]) /\ dispatch[m].status # "PROCESSING"
    BY <1>3, <1>4 DEF Untaken, Live
<1> QED BY <1>1, <1>6, <1>9, <1>11, <1>12, <1>14, <1>15, <1>16

\* A request stops, or its process dies.
LEMMA StopKeeps ==
    ASSUME IInv, NEW s \in Sessions, StopProcessing(s) \/ Crash(s)
    PROVE  /\ IInv' /\ session' = [session EXCEPT ![s] = Idle]
           /\ UNCHANGED <<dispatch, campaign, account, reference, accepted>>
<1>1. session' = [session EXCEPT ![s] = Idle]
    BY DEF StopProcessing, Crash, End, Become
<1>2. /\ RowsOK /\ account' = account /\ reference' = reference /\ settings' = settings
      /\ campaign' = campaign /\ step' = step /\ dispatch' = dispatch
      /\ accepted' = accepted
    BY TypeIs DEF IInv, StopProcessing, Crash, Tables, Outside, Facts
<1>3. crashes' \in 0 .. MaxCrashes
    BY <1>2, ConstantsAssumption DEF StopProcessing, Crash, Outside, RowsOK
<1>4. RowsOK' /\ Grows
    BY <1>2, <1>3 DEF RowsOK, Grows
<1>5. IInv'
    BY <1>1, <1>4, IdleIs, IdleFits, OthersFit
<1> QED BY <1>1, <1>2, <1>5

\* The account, its reference, operators and settings change.
Elsewhere ==
    \/ \E status \in Endings : LeavePending(status)
    \/ CancelReference \/ ReturnReference
    \/ \E c \in Campaigns : CancelCampaign(c)
    \/ \E n \in Configurable, value \in StepSettings : Configure(n, value)

LEMMA ElsewhereKeeps ==
    ASSUME IInv, Elsewhere
    PROVE  /\ IInv' /\ session' = session /\ accepted' = accepted
           /\ \A x \in Messages : Kept(x)
<1>1. RowsOK
    BY TypeIs DEF IInv
<1> DEFINE Goal == /\ RowsOK' /\ Grows /\ \A x \in Messages : Kept(x)
                   /\ session' = session /\ accepted' = accepted
<1>2. ASSUME NEW status \in Endings, LeavePending(status) PROVE Goal
  <2>1. status \in AccountStatus /\ ClosingStatus(status) \in CampaignStatus
      BY ConstantsAssumption DEF AccountStatus, ClosingStatus, CampaignStatus
  <2> QED BY <1>1, <1>2, <2>1, EndCampaignsKeeps DEF LeavePending, RowsOK
<1>3. ASSUME CancelReference PROVE Goal
  <2>1. /\ EndCampaigns(Active, "CANCELADA")
        /\ account' = account /\ session' = session /\ accepted' = accepted
        /\ UNCHANGED <<settings, accepted, crashes>>
      BY <1>3 DEF CancelReference
  <2>2. account' \in AccountStatus /\ reference' \in ReferenceStatus
      BY <1>1, <1>3, <2>1 DEF CancelReference, ReferenceStatus, RowsOK
  <2>3. "CANCELADA" \in CampaignStatus
      BY DEF CampaignStatus
  <2>4. RowsOK' /\ Grows /\ \A x \in Messages : Kept(x)
      BY <1>1, <2>1, <2>2, <2>3, EndCampaignsKeeps
  <2> QED BY <2>1, <2>4
<1>4. ASSUME ReturnReference PROVE Goal
  <2>1. /\ account' = account /\ settings' = settings /\ campaign' = campaign
        /\ step' = step /\ dispatch' = dispatch /\ accepted' = accepted
        /\ crashes' = crashes /\ session' = session /\ reference' \in ReferenceStatus
      BY <1>4 DEF ReturnReference, Tables, ReferenceStatus
  <2>2. RowsOK'
      BY <1>1, <2>1 DEF RowsOK
  <2>3. Grows /\ \A x \in Messages : Kept(x)
      BY <2>1 DEF Grows, Kept
  <2> QED BY <2>1, <2>2, <2>3
<1>5. ASSUME NEW c \in Campaigns, CancelCampaign(c) PROVE Goal
  <2>1. "CANCELADA" \in CampaignStatus /\ account' = account /\ reference' = reference
        /\ UNCHANGED <<settings, accepted, crashes, session>>
      BY <1>5 DEF CancelCampaign, CampaignStatus, Outside, Facts
  <2> QED BY <1>1, <1>5, <2>1, EndCampaignsKeeps DEF CancelCampaign, RowsOK
<1>6. ASSUME NEW n \in Configurable, NEW value \in StepSettings, Configure(n, value) PROVE Goal
  <2>1. settings' \in Plans
      BY <1>1, <1>6 DEF Configure, RowsOK, Plans
  <2> QED BY <1>1, <1>6, <2>1 DEF Configure, Tables, RowsOK, Grows, Kept
<1> HIDE DEF Goal
<1>7. Goal
    BY <1>2, <1>3, <1>4, <1>5, <1>6 DEF Elsewhere
<1> QED BY <1>7, RowsMove DEF Goal

LEMMA ProcessingDoes ==
    ASSUME IInv, NEW s \in Sessions, Processing(s), ~StopProcessing(s),
           \A m \in Messages : ~AcquireDispatch(s, m)
    PROVE  Handles(s)
<1> QED BY CheckHandles, FailCheckHandles, MarkIneligibleHandles, ProviderAnswersHandles,
           MarkRetryHandles, ConfirmSentHandles, MarkProviderOutcomeUncertainHandles
        DEF Processing

LEMMA NextIs ==
    ASSUME Next
    PROVE  \/ Elsewhere
           \/ \E s \in Sessions, job \in {"tick", "reconcile"} : BeginReconcile(s, job)
           \/ \E s \in Sessions : BeginProcessDue(s)
           \/ \E s \in Sessions : Reconciling(s)
           \/ \E s \in Sessions, m \in Messages : AcquireDispatch(s, m)
           \/ \E s \in Sessions : /\ Processing(s) /\ ~StopProcessing(s)
                                  /\ \A m \in Messages : ~AcquireDispatch(s, m)
           \/ \E s \in Sessions : StopProcessing(s) \/ Crash(s)
<1> QED BY DEF Next, Elsewhere, Tick, Request, Step, Sessions

LEMMA InitHasInvariant == Init => IInv
<1> SUFFICES ASSUME Init PROVE IInv
    OBVIOUS
<1>1. RowsOK
  <2>1. NoDispatch \in Dispatch /\ NoDispatch.status = "none" /\ NoDispatch.uncertain = FALSE
      BY DEF NoDispatch, Dispatch, DispatchStatus, StepStatus, maxAttempts
  <2>2. settings \in Plans
      BY DEF Init, Enabled, Plans, StepSettings
  <2> QED BY <2>1, <2>2, ConstantsAssumption
          DEF Init, RowsOK, AccountStatus, ReferenceStatus, CampaignStatus, StepStatus
<1>2. session \in [Sessions -> SessionState] /\ \A s \in Sessions : session[s] = Idle
    BY IdleIs DEF Init
<1> QED BY <1>1, <1>2, IdleFits, TypeIs DEF IInv

LEMMA NextKeepsInvariant == IInv /\ [Next]_vars => IInv'
<1> SUFFICES ASSUME IInv, [Next]_vars PROVE IInv'
    OBVIOUS
<1>1. CASE UNCHANGED vars
  <2>1. /\ account' = account /\ reference' = reference /\ settings' = settings
        /\ campaign' = campaign /\ step' = step /\ dispatch' = dispatch
        /\ accepted' = accepted /\ crashes' = crashes /\ session' = session
      BY <1>1 DEF vars
  <2>2. RowsOK' /\ Grows
      BY <2>1, TypeIs DEF IInv, RowsOK, Grows
  <2> QED BY <2>1, <2>2, RowsMove
<1>2. CASE Next
    BY <1>2, NextIs, ElsewhereKeeps, BeginReconcileBegins, BeginProcessDueBegins,
       ReconcilingMoves, AcquireDispatchAcquires, ProcessingDoes, StopKeeps DEF Moves, Handles
<1> QED BY <1>1, <1>2

LEMMA InvariantHolds == Spec => []IInv
<1> QED BY InitHasInvariant, NextKeepsInvariant, PTL DEF Spec

\* Rows and requests keep their types, attempts stay within their limit, and
\* every dispatch has its step, for any requests and any overlap.
THEOREM RecoveryIsTyped == Spec => []TypeOK
<1>1. IInv => TypeOK
    BY DEF IInv
<1> QED BY <1>1, InvariantHolds, PTL

(***************************************************************************)
(* What a step keeps when no reconciliation runs together with another     *)
(* request.                                                                *)
(***************************************************************************)
LEMMA OnlyOneMoves ==
    ASSUME IInv, NEW s \in Sessions, NEW y, session' = [session EXCEPT ![s] = y]
    PROVE  session'[s] = y /\ \A r \in Sessions : r # s => session'[r] = session[r]
<1> QED BY DEF IInv, TypeOK

LEMMA HoldIs ==
    ASSUME IInv, NEW s \in Sessions, session[s].at \in Holds
    PROVE  session[s].message \in Messages
<1> QED BY SessionIs DEF Fits

LEMMA IdleHolds == Idle.at \notin Holds /\ Idle.at \notin Reconciles
<1> QED BY DEF Idle, Holds, Reconciles

\* While a request is in progress no other one reconciles.
LEMMA NobodyElseReconciles ==
    ASSUME Alone, NEW s \in Sessions, session[s] # Idle
    PROVE  \A r \in Sessions : r # s => session[r].at \notin Reconciles
<1> QED BY DEF Alone

LEMMA AloneStays ==
    ASSUME IInv, Alone, NEW s \in Sessions, NEW y, session' = [session EXCEPT ![s] = y],
           \A r \in Sessions : r # s => session[r].at \notin Reconciles,
           y.at \in Reconciles => \A r \in Sessions : r # s => session[r] = Idle
    PROVE  Alone'
<1>1. session'[s] = y /\ \A r \in Sessions : r # s => session'[r] = session[r]
    BY OnlyOneMoves
<1> QED BY <1>1 DEF Alone

LEMMA ReconcilesToKeeps ==
    ASSUME IInv, XInv, NEW s \in Sessions, NEW y, ReconcilesTo(s, y)
    PROVE  XInv'
<1>1. /\ session' = [session EXCEPT ![s] = y] /\ accepted' = accepted
      /\ session[s].at \in Reconciles /\ y.at \in Reconciles \cup {"idle", "due"}
      /\ y.at \in Reconciles => y.seen \in {session[s].seen, NothingSeen}
    BY DEF ReconcilesTo
<1>2. \A r \in Sessions : r # s => session[r] = Idle
    BY <1>1 DEF XInv, Alone
<1>3. session'[s] = y /\ \A r \in Sessions : r # s => session'[r] = Idle
    BY <1>1, <1>2, OnlyOneMoves
<1>4. y.at \notin Holds /\ \A r \in Sessions : session'[r].at \notin Holds
    BY <1>1, <1>3, IdleHolds DEF Holds, Reconciles
<1>5. Alone'
    BY <1>1, <1>2, AloneStays, IdleHolds DEF XInv
<1>6. Owned' /\ Unsent'
    BY <1>4 DEF Owned, Unsent, Holds
<1>7. Queued'
  <2> SUFFICES ASSUME NEW x \in Messages, Untaken(dispatch'[x]) PROVE accepted'[x] = 0
      BY DEF Queued, Untaken
  <2>1. \/ Untaken(dispatch[x])
        \/ session[s].seen[x].dispatch \in Live /\ ~session[s].seen[x].uncertain
      BY DEF ReconcilesTo
  <2> QED BY <1>1, <2>1 DEF XInv, Queued, Recalled
<1>8. Recalled'
  <2> SUFFICES ASSUME NEW r \in Sessions, NEW x \in Messages, session'[r].at \in Reconciles,
                      session'[r].seen[x].dispatch \in Live, ~session'[r].seen[x].uncertain
               PROVE  accepted'[x] = 0
      BY DEF Recalled
  <2>1. r = s
      BY <1>3, IdleHolds
  <2>2. NothingSeen[x].dispatch \notin Live
      BY DEF NothingSeen, Unseen, Live
  <2> QED BY <1>1, <1>3, <2>1, <2>2 DEF XInv, Recalled
<1> QED BY <1>5, <1>6, <1>7, <1>8 DEF XInv

LEMMA HoldsToKeeps ==
    ASSUME IInv, XInv, NEW s \in Sessions, NEW y, HoldsTo(s, y)
    PROVE  XInv'
<1>1. PICK m \in Messages : m = session[s].message
    BY HoldIs DEF HoldsTo
<1>2. /\ session' = [session EXCEPT ![s] = y]
      /\ session[s].at \in Holds /\ y.at \in Holds \cup {"idle", "due"}
      /\ \A x \in Messages : x # m => Kept(x) /\ accepted'[x] = accepted[x]
      /\ y.at \in Holds => y.message = m /\ Kept(m)
      /\ y.at \in Early => session[s].at \in Early /\ accepted'[m] = accepted[m]
      /\ y.at \notin Holds /\ Untaken(dispatch'[m])
             => Untaken(dispatch[m]) \/ session[s].at = "retry"
      /\ session[s].at # "sending" => accepted' = accepted
    BY <1>1 DEF HoldsTo
<1>3. session'[s] = y /\ \A r \in Sessions : r # s => session'[r] = session[r]
    BY <1>2, OnlyOneMoves
<1>4. /\ dispatch[m].status = "PROCESSING" /\ ~Untaken(dispatch[m])
      /\ \A r \in Sessions : session[r].at \in Holds /\ session[r].message = m => r = s
    BY <1>1, <1>2 DEF XInv, Owned, Untaken
<1>5. y.at \notin Reconciles /\ session[s] # Idle
    BY <1>2, IdleHolds DEF Holds, Reconciles
<1>6. \A r \in Sessions : session'[r].at \notin Reconciles
    BY <1>3, <1>5, NobodyElseReconciles DEF XInv
<1>7. Alone' /\ Recalled'
    BY <1>6 DEF Alone, Recalled
<1>8. Owned'
  <2> SUFFICES ASSUME NEW t \in Sessions, session'[t].at \in Holds
               PROVE  /\ dispatch'[session'[t].message].status = "PROCESSING"
                      /\ \A r \in Sessions : session'[r].at \in Holds
                             /\ session'[r].message = session'[t].message => r = t
      BY DEF Owned
  <2>1. CASE t = s
      BY <1>2, <1>3, <1>4, <2>1 DEF Kept
  <2>2. CASE t # s
    <3>1. PICK x \in Messages : x = session[t].message /\ x # m
        BY <1>3, <1>4, <2>2, HoldIs
    <3>2. /\ dispatch[x].status = "PROCESSING"
          /\ \A r \in Sessions : session[r].at \in Holds /\ session[r].message = x => r = t
        BY <1>3, <2>2, <3>1 DEF XInv, Owned
    <3>3. dispatch'[x].status = "PROCESSING"
        BY <1>2, <3>1, <3>2 DEF Kept
    <3> QED BY <1>2, <1>3, <2>2, <3>1, <3>2, <3>3
  <2> QED BY <2>1, <2>2
<1>9. Unsent'
  <2> SUFFICES ASSUME NEW t \in Sessions, session'[t].at \in Early
               PROVE  accepted'[session'[t].message] = 0
      BY DEF Unsent, Early
  <2>1. CASE t = s
      BY <1>1, <1>2, <1>3, <2>1 DEF XInv, Unsent, Early, Holds
  <2>2. CASE t # s
    <3>1. session[t].at \in Early /\ session[t].at \in Holds
        BY <1>3, <2>2 DEF Early, Holds
    <3>2. PICK x \in Messages : x = session[t].message /\ x # m
        BY <1>4, <2>2, <3>1, HoldIs
    <3> QED BY <1>2, <1>3, <2>2, <3>1, <3>2 DEF XInv, Unsent, Early
  <2> QED BY <2>1, <2>2
<1>10. Queued'
  <2> SUFFICES ASSUME NEW x \in Messages, Untaken(dispatch'[x]) PROVE accepted'[x] = 0
      BY DEF Queued, Untaken
  <2>1. CASE x # m
      BY <1>2, <2>1 DEF XInv, Queued, Kept
  <2>2. CASE x = m
    <3>1. session[s].at = "retry"
        BY <1>2, <1>4, <2>2 DEF Kept
    <3> QED BY <1>1, <1>2, <2>2, <3>1 DEF XInv, Unsent
  <2> QED BY <2>1, <2>2
<1> QED BY <1>7, <1>8, <1>9, <1>10 DEF XInv

\* A request that is not busy does nothing at all.
LEMMA NotBusy ==
    ASSUME IInv, NEW r \in Sessions, ~Busy(r)
    PROVE  session[r] = Idle
<1>1. PICK x \in SessionState : x = session[r] /\ Fits(x)
    BY SessionIs
<1>2. x.job = "idle"
    BY <1>1 DEF Busy, SessionState, JobKinds
<1> QED BY <1>1, <1>2 DEF Fits

LEMMA BeginReconcileKeeps ==
    ASSUME ~Overlap, IInv, XInv, NEW s \in Sessions, NEW job \in {"tick", "reconcile"},
           BeginReconcile(s, job)
    PROVE  XInv'
<1>1. PICK y : /\ Begins(s, y) /\ y.at = "reconciling"
               /\ \A x \in Messages : y.seen[x].dispatch \in Live /\ ~y.seen[x].uncertain
                      => Untaken(dispatch[x])
    BY BeginReconcileBegins
<1>2. /\ session' = [session EXCEPT ![s] = y]
      /\ dispatch' = dispatch /\ accepted' = accepted
    BY <1>1 DEF Begins, Tables, Outside
<1>3. \A r \in Sessions : r # s => session[r] = Idle
    BY BeginReconcileBegins, NotBusy DEF MayReconcile
<1>4. session'[s] = y /\ \A r \in Sessions : r # s => session'[r] = Idle
    BY <1>2, <1>3, OnlyOneMoves
<1>5. \A r \in Sessions : session'[r].at \notin Holds
    BY <1>1, <1>4, IdleHolds DEF Holds
<1>6. Alone'
    BY <1>2, <1>3, AloneStays, IdleHolds DEF XInv
<1>7. Owned' /\ Unsent'
    BY <1>5 DEF Owned, Unsent, Holds
<1>8. Queued'
    BY <1>2 DEF XInv, Queued, Untaken
<1>9. Recalled'
    BY <1>1, <1>2, <1>4, IdleHolds DEF XInv, Queued, Recalled
<1> QED BY <1>6, <1>7, <1>8, <1>9 DEF XInv

\* A request stops, or comes to the queue: the rows and the others are as before.
LEMMA LetsGoKeeps ==
    ASSUME IInv, XInv, NEW s \in Sessions, NEW y, session' = [session EXCEPT ![s] = y],
           y.at \in {"idle", "due"}, dispatch' = dispatch, accepted' = accepted,
           \A r \in Sessions : r # s => session[r].at \notin Reconciles
    PROVE  XInv'
<1>1. session'[s] = y /\ \A r \in Sessions : r # s => session'[r] = session[r]
    BY OnlyOneMoves
<1>2. y.at \notin Holds /\ y.at \notin Reconciles
    BY DEF Holds, Reconciles
<1>3. Alone' /\ Recalled'
    BY <1>1, <1>2 DEF Alone, Recalled
<1>4. Owned'
    BY <1>1, <1>2 DEF XInv, Owned
<1>5. Unsent'
    BY <1>1, <1>2 DEF XInv, Unsent, Holds
<1>6. Queued'
    BY DEF XInv, Queued, Untaken
<1> QED BY <1>3, <1>4, <1>5, <1>6 DEF XInv

LEMMA BeginProcessDueKeeps ==
    ASSUME ~Overlap, IInv, XInv, NEW s \in Sessions, BeginProcessDue(s)
    PROVE  XInv'
<1>1. PICK y : Begins(s, y) /\ y.at = "due"
    BY BeginProcessDueBegins
<1>2. session' = [session EXCEPT ![s] = y] /\ dispatch' = dispatch /\ accepted' = accepted
    BY <1>1 DEF Begins, Tables, Outside
<1>3. ASSUME NEW r \in Sessions, r # s PROVE session[r].at \notin Reconciles
  <2>1. CASE Busy(r)
      BY <1>3, <2>1 DEF BeginProcessDue, Reconciles
  <2>2. CASE ~Busy(r)
      BY <2>2, NotBusy, IdleHolds
  <2> QED BY <2>1, <2>2
<1> QED BY <1>1, <1>2, <1>3, LetsGoKeeps

LEMMA StopKeepsAll ==
    ASSUME IInv, XInv, NEW s \in Sessions, StopProcessing(s) \/ Crash(s)
    PROVE  XInv'
<1>1. session[s] # Idle
    BY DEF StopProcessing, Crash, At, Idle
<1>2. Idle.at = "idle"
    BY DEF Idle
<1> QED BY <1>1, <1>2, StopKeeps, LetsGoKeeps, NobodyElseReconciles DEF XInv

LEMMA AcquireDispatchKeeps ==
    ASSUME IInv, XInv, NEW s \in Sessions, NEW m \in Messages, AcquireDispatch(s, m)
    PROVE  XInv'
<1>1. /\ session[s].at = "due" /\ Untaken(dispatch[m]) /\ accepted' = accepted
      /\ dispatch'[m].status = "PROCESSING" /\ dispatch[m].status # "PROCESSING"
      /\ \A z \in Messages : z # m => dispatch'[z] = dispatch[z]
    BY AcquireDispatchAcquires
<1>2. PICK y : /\ session' = [session EXCEPT ![s] = y]
               /\ y.at = "acquired" /\ y.message = m
    BY AcquireDispatchAcquires
<1>3. session'[s] = y /\ \A r \in Sessions : r # s => session'[r] = session[r]
    BY <1>2, OnlyOneMoves
<1>4. \A r \in Sessions : session'[r].at \notin Reconciles
  <2>1. session[s] # Idle
      BY <1>1 DEF Idle
  <2> QED BY <1>2, <1>3, <2>1, NobodyElseReconciles DEF XInv, Reconciles
<1>5. Alone' /\ Recalled'
    BY <1>4 DEF Alone, Recalled
<1>6. \A t \in Sessions : session[t].at \in Holds => session[t].message # m
    BY <1>1 DEF XInv, Owned
<1>7. Owned'
  <2> SUFFICES ASSUME NEW t \in Sessions, session'[t].at \in Holds
               PROVE  /\ dispatch'[session'[t].message].status = "PROCESSING"
                      /\ \A r \in Sessions : session'[r].at \in Holds
                             /\ session'[r].message = session'[t].message => r = t
      BY DEF Owned
  <2>1. CASE t = s
      BY <1>1, <1>2, <1>3, <1>6, <2>1
  <2>2. CASE t # s
    <3>1. PICK x \in Messages : x = session[t].message /\ x # m
        BY <1>3, <1>6, <2>2, HoldIs
    <3>2. /\ dispatch[x].status = "PROCESSING"
          /\ \A r \in Sessions : session[r].at \in Holds /\ session[r].message = x => r = t
        BY <1>3, <2>2, <3>1 DEF XInv, Owned
    <3> QED BY <1>1, <1>2, <1>3, <2>2, <3>1, <3>2
  <2> QED BY <2>1, <2>2
<1>8. accepted[m] = 0
    BY <1>1 DEF XInv, Queued
<1>9. Unsent'
    BY <1>1, <1>2, <1>3, <1>8 DEF XInv, Unsent
<1>10. Queued'
  <2> SUFFICES ASSUME NEW x \in Messages, Untaken(dispatch'[x]) PROVE accepted'[x] = 0
      BY DEF Queued, Untaken
  <2>1. x # m
      BY <1>1 DEF Untaken
  <2> QED BY <1>1, <2>1 DEF XInv, Queued
<1> QED BY <1>5, <1>7, <1>9, <1>10 DEF XInv

LEMMA ElsewhereKeepsAll ==
    ASSUME IInv, XInv, session' = session, accepted' = accepted, \A x \in Messages : Kept(x)
    PROVE  XInv'
<1>1. Alone' /\ Unsent' /\ Recalled'
    BY DEF XInv, Alone, Unsent, Recalled
<1>2. Owned'
  <2>1. ASSUME NEW s \in Sessions, session[s].at \in Holds
        PROVE  dispatch'[session[s].message].status = "PROCESSING"
      BY <2>1, HoldIs DEF XInv, Owned, Kept
  <2> QED BY <2>1 DEF XInv, Owned
<1>3. Queued'
  <2> SUFFICES ASSUME NEW x \in Messages, Untaken(dispatch'[x]) PROVE accepted'[x] = 0
      BY DEF Queued, Untaken
  <2> QED BY DEF XInv, Queued, Kept
<1> QED BY <1>1, <1>2, <1>3 DEF XInv

LEMMA InitIsExclusive == Init => XInv
<1> SUFFICES ASSUME Init PROVE XInv
    OBVIOUS
<1>1. \A s \in Sessions : session[s].at \notin Holds /\ session[s].at \notin Reconciles
    BY IdleHolds DEF Init
<1> QED BY <1>1 DEF Init, XInv, Alone, Owned, Unsent, Queued, Recalled, Holds

LEMMA NextKeepsExclusive == ~Overlap /\ IInv /\ XInv /\ [Next]_vars => XInv'
<1> SUFFICES ASSUME ~Overlap, IInv, XInv, [Next]_vars PROVE XInv'
    OBVIOUS
<1>1. CASE UNCHANGED vars
    BY <1>1, ElsewhereKeepsAll DEF vars, Kept, Untaken
<1>2. CASE Next
  <2>1. CASE Elsewhere
      BY <2>1, ElsewhereKeeps, ElsewhereKeepsAll
  <2>2. CASE \E s \in Sessions : Reconciling(s)
      BY <2>2, ReconcilingMoves, ReconcilesToKeeps DEF Moves
  <2>3. CASE \E s \in Sessions : /\ Processing(s) /\ ~StopProcessing(s)
                                 /\ \A m \in Messages : ~AcquireDispatch(s, m)
      BY <2>3, ProcessingDoes, HoldsToKeeps DEF Handles
  <2> QED BY <1>2, <2>1, <2>2, <2>3, NextIs, BeginReconcileKeeps, BeginProcessDueKeeps,
             AcquireDispatchKeeps, StopKeepsAll
<1> QED BY <1>1, <1>2

(***************************************************************************)
(* Recovery keeps its promise.                                             *)
(***************************************************************************)
SInv == IInv /\ (~Overlap => XInv)

LEMMA SInvHolds == Spec => []SInv
<1>1. Init => SInv
    BY InitHasInvariant, InitIsExclusive DEF SInv
<1>2. SInv /\ [Next]_vars => SInv'
    BY NextKeepsInvariant, NextKeepsExclusive DEF SInv
<1> QED BY <1>1, <1>2, PTL DEF Spec

PromiseStep == [Promise!Next]_<<Open, Sending, Delivered>>

LEMMA QuietStep ==
    ASSUME accepted' = accepted, Sending' = Sending
    PROVE  PromiseStep
<1>1. Open' \in SUBSET Messages /\ Delivered' = Delivered
    BY DEF Open, Delivered
<1>2. Promise!OpenAndClose
    BY <1>1 DEF Promise!OpenAndClose
<1> QED BY <1>2 DEF PromiseStep, Promise!Next

\* Which messages are handed to the provider.
LEMMA SendingIs ==
    /\ \A m : m \in Sending <=> \E t \in Sessions : session[t].at = "sending" /\ session[t].message = m
    /\ \A m : m \in Sending' <=> \E t \in Sessions : session'[t].at = "sending" /\ session'[t].message = m
<1> QED BY DEF Sending, At

LEMMA NobodySends ==
    ASSUME IInv, NEW s \in Sessions, NEW y, session' = [session EXCEPT ![s] = y],
           session[s].at # "sending", y.at # "sending"
    PROVE  Sending' = Sending
<1>1. session'[s] = y /\ \A r \in Sessions : r # s => session'[r] = session[r]
    BY OnlyOneMoves
<1>2. \A m : m \in Sending' <=> m \in Sending
    BY <1>1, SendingIs
<1> QED BY <1>2

LEMMA SendingBegins ==
    ASSUME IInv, XInv, NEW s \in Sessions, NEW y, HoldsTo(s, y), y.at = "sending"
    PROVE  PromiseStep
<1>1. PICK m \in Messages : m = session[s].message
    BY HoldIs DEF HoldsTo
<1>2. /\ session' = [session EXCEPT ![s] = y] /\ y.message = m
      /\ session[s].at = "acquired" /\ Eligible(m) /\ accepted' = accepted
      /\ campaign' = campaign /\ account' = account /\ reference' = reference
    BY <1>1 DEF HoldsTo, Holds
<1>3. session'[s] = y /\ \A r \in Sessions : r # s => session'[r] = session[r]
    BY <1>2, OnlyOneMoves
<1>4. m \in Open /\ Open' = Open /\ Delivered' = Delivered
    BY <1>2 DEF Open, Delivered, Eligible
<1>5. m \notin Delivered
    BY <1>1, <1>2 DEF XInv, Unsent, Delivered
<1>6. m \notin Sending
    BY <1>1, <1>2, SendingIs DEF XInv, Owned, Holds
<1>7. Sending' = Sending \cup {m}
  <2>1. \A x : x \in Sending' <=> x \in Sending \/ x = m
      BY <1>2, <1>3, SendingIs
  <2> QED BY <2>1
<1>8. Promise!Start(m)
    BY <1>4, <1>5, <1>6, <1>7 DEF Promise!Start
<1> QED BY <1>8 DEF PromiseStep, Promise!Next

LEMMA SendingEnds ==
    ASSUME IInv, XInv, NEW s \in Sessions, NEW y, session' = [session EXCEPT ![s] = y],
           session[s].at = "sending", y.at # "sending", NEW m \in Messages,
           m = session[s].message,
           \A x \in Messages : x # m => accepted'[x] = accepted[x],
           campaign' = campaign, account' = account, reference' = reference
    PROVE  PromiseStep
<1>1. session'[s] = y /\ \A r \in Sessions : r # s => session'[r] = session[r]
    BY OnlyOneMoves
<1>2. \A r \in Sessions : session[r].at = "sending" /\ session[r].message = m => r = s
    BY DEF XInv, Owned, Holds
<1>3. m \in Sending
    BY SendingIs
<1>4. Sending' = Sending \ {m}
  <2>1. \A x : x \in Sending' <=> x \in Sending /\ x # m
      BY <1>1, <1>2, SendingIs
  <2> QED BY <2>1
<1>5. m \notin Delivered
    BY DEF XInv, Unsent, Delivered
<1>6. Delivered' \in {Delivered, Delivered \cup {m}}
  <2>1. CASE accepted'[m] > 0
      BY <2>1 DEF Delivered
  <2>2. CASE ~(accepted'[m] > 0)
      BY <1>5, <2>2 DEF Delivered
  <2> QED BY <2>1, <2>2
<1>7. Open' = Open
    BY DEF Open
<1>8. Promise!Finish(m)
    BY <1>3, <1>4, <1>6, <1>7 DEF Promise!Finish
<1> QED BY <1>8 DEF PromiseStep, Promise!Next

LEMMA HandlesPromised ==
    ASSUME IInv, XInv, NEW s \in Sessions, Handles(s)
    PROVE  PromiseStep
<1>1. PICK y : HoldsTo(s, y)
    BY DEF Handles
<1>2. session' = [session EXCEPT ![s] = y]
    BY <1>1 DEF HoldsTo
<1>3. CASE y.at = "sending"
    BY <1>1, <1>3, SendingBegins
<1>4. CASE session[s].at = "sending" /\ y.at # "sending"
  <2>1. PICK m \in Messages : m = session[s].message
      BY <1>1, HoldIs DEF HoldsTo
  <2>2. /\ \A x \in Messages : x # m => accepted'[x] = accepted[x]
        /\ campaign' = campaign /\ account' = account /\ reference' = reference
      BY <1>1, <1>4, <2>1 DEF HoldsTo
  <2> QED BY <1>2, <1>4, <2>1, <2>2, SendingEnds
<1>5. CASE session[s].at # "sending" /\ y.at # "sending"
  <2>1. accepted' = accepted
      BY <1>1, <1>5 DEF HoldsTo
  <2> QED BY <1>2, <1>5, <2>1, NobodySends, QuietStep
<1> QED BY <1>3, <1>4, <1>5

LEMMA StopPromised ==
    ASSUME IInv, XInv, NEW s \in Sessions, StopProcessing(s) \/ Crash(s)
    PROVE  PromiseStep
<1>1. /\ session' = [session EXCEPT ![s] = Idle] /\ campaign' = campaign
      /\ account' = account /\ reference' = reference /\ accepted' = accepted
    BY StopKeeps
<1>2. Idle.at # "sending"
    BY DEF Idle
<1>3. CASE session[s].at = "sending"
  <2>1. PICK m \in Messages : m = session[s].message
      BY <1>3, HoldIs DEF Holds
  <2> QED BY <1>1, <1>2, <1>3, <2>1, SendingEnds
<1>4. CASE session[s].at # "sending"
    BY <1>1, <1>2, <1>4, NobodySends, QuietStep
<1> QED BY <1>3, <1>4

LEMMA ReconcilingPromised ==
    ASSUME IInv, NEW s \in Sessions, Moves(s)
    PROVE  PromiseStep
<1>1. PICK y : ReconcilesTo(s, y)
    BY DEF Moves
<1>2. /\ session' = [session EXCEPT ![s] = y] /\ accepted' = accepted
      /\ session[s].at # "sending" /\ y.at # "sending"
    BY <1>1 DEF ReconcilesTo, Reconciles
<1> QED BY <1>2, NobodySends, QuietStep

LEMMA BeginPromised ==
    ASSUME IInv, NEW s \in Sessions, session[s] = Idle, NEW y, Begins(s, y), y.at # "sending"
    PROVE  PromiseStep
<1>1. session' = [session EXCEPT ![s] = y] /\ accepted' = accepted /\ Idle.at # "sending"
    BY DEF Begins, Outside, Idle
<1> QED BY <1>1, NobodySends, QuietStep

LEMMA AcquirePromised ==
    ASSUME IInv, NEW s \in Sessions, NEW m \in Messages, AcquireDispatch(s, m)
    PROVE  PromiseStep
<1>1. PICK y : /\ session' = [session EXCEPT ![s] = y] /\ y.at = "acquired"
               /\ session[s].at = "due" /\ accepted' = accepted
    BY AcquireDispatchAcquires
<1> QED BY <1>1, NobodySends, QuietStep

LEMMA NextIsPromised == ~Overlap /\ SInv /\ [Next]_vars => PromiseStep
<1> SUFFICES ASSUME ~Overlap, IInv, XInv, [Next]_vars PROVE PromiseStep
    BY DEF SInv
<1>1. CASE UNCHANGED vars
  <2>1. session' = session /\ accepted' = accepted
      BY <1>1 DEF vars
  <2> QED BY <2>1, QuietStep DEF Sending, At
<1>2. CASE Next
  <2>1. CASE Elsewhere
    <3>1. session' = session /\ accepted' = accepted
        BY <2>1, ElsewhereKeeps
    <3> QED BY <3>1, QuietStep DEF Sending, At
  <2>2. ASSUME NEW s \in Sessions, NEW job \in {"tick", "reconcile"}, BeginReconcile(s, job)
        PROVE  PromiseStep
    <3>1. PICK y : Begins(s, y) /\ y.at = "reconciling"
        BY <2>2, BeginReconcileBegins
    <3> QED BY <2>2, <3>1, BeginReconcileBegins, BeginPromised
  <2>3. ASSUME NEW s \in Sessions, BeginProcessDue(s) PROVE PromiseStep
    <3>1. PICK y : Begins(s, y) /\ y.at = "due"
        BY <2>3, BeginProcessDueBegins
    <3> QED BY <2>3, <3>1, BeginProcessDueBegins, BeginPromised
  <2>4. ASSUME NEW s \in Sessions, Reconciling(s) PROVE PromiseStep
      BY <2>4, ReconcilingMoves, ReconcilingPromised
  <2>5. ASSUME NEW s \in Sessions, Processing(s), ~StopProcessing(s),
               \A m \in Messages : ~AcquireDispatch(s, m)
        PROVE  PromiseStep
      BY <2>5, ProcessingDoes, HandlesPromised
  <2> QED BY <1>2, <2>1, <2>2, <2>3, <2>4, <2>5, NextIs, AcquirePromised, StopPromised
<1> QED BY <1>1, <1>2

\* For any campaigns, steps, operators, crashes and settings, recovery keeps
\* its promise as long as no reconciliation runs together with another request:
\* a message is sent only while its campaign and its account are open, by one
\* request at a time, and never again once the provider may have taken it.
THEOREM RecoveryKeepsItsPromise == ~Overlap => (Spec => PromiseSpec)
<1>1. Init => Promise!Init
  <2> SUFFICES ASSUME Init PROVE Promise!Init
      OBVIOUS
  <2>1. \A x \in Messages : campaign[x[1]] # "ATIVA" /\ ~(accepted[x] > 0)
      BY DEF Init, Messages
  <2>2. \A s \in Sessions : session[s].at # "sending"
      BY IdleHolds DEF Init, Holds
  <2>3. Sending = {}
      BY <2>2, SendingIs
  <2>4. Open = {} /\ Delivered = {}
      BY <2>1 DEF Open, Delivered
  <2> QED BY <2>3, <2>4 DEF Promise!Init
<1>2. ~Overlap /\ SInv /\ [Next]_vars => [Promise!Next]_Promise!vars
    BY NextIsPromised DEF PromiseStep, Promise!vars
<1>3. CASE ~Overlap
  <2>1. SInv /\ [Next]_vars => [Promise!Next]_Promise!vars
      BY <1>2, <1>3
  <2>2. Spec => PromiseSpec
      BY <1>1, <2>1, SInvHolds, PTL DEF Spec, PromiseSpec, Promise!Spec
  <2> QED BY <2>2
<1> QED BY <1>3
==============================================================================
