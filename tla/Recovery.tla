------------------------------- MODULE Recovery -------------------------------
(***************************************************************************)
(* Recovery campaigns about one overdue account (recovery.service.ts).     *)
(* reconcile starts a campaign for the account, ends the campaigns that    *)
(* lost their reason and brings the steps of the others in line with the   *)
(* settings; processDue sends one message after the other.  The scheduler  *)
(* does both in turn every minute; operators may ask for either, cancel a  *)
(* campaign or change the settings meanwhile.                              *)
(*                                                                         *)
(* A message is <<campaign, step number>>: its RecoveryCampaignStep and    *)
(* its MessageDispatch.  Whether the client's phone is allowed and a       *)
(* connection is there is read where it is needed and may be anything, and *)
(* so is the time: a message that waits may be due.  ATIVO and INATIVO are *)
(* alike for recovery.                                                     *)
(***************************************************************************)
EXTENDS Naturals, FiniteSets

CONSTANTS
    Campaigns,      \* identities of campaigns (bound)
    Steps,          \* step numbers
    Operators,      \* requests of operators in progress at the same time
    Scheduler,      \* the scheduler's tick
    None,
    Jobs,           \* what operators ask for
    Endings,        \* how the account may leave PENDENTE
    Configurations, \* what becomes of steps in the settings
    Configurable,   \* steps whose settings change (bound)
    Overlap,        \* whether a reconciliation runs together with other requests
    MaxCrashes      \* requests that die (bound)

JobKinds == {"reconcile", "processDue"}
StepSettings == {"enabled", "disabled", "inactive"}

ASSUME ConstantsAssumption ==
    /\ Jobs \subseteq JobKinds /\ Configurations \subseteq StepSettings
    /\ Configurable \subseteq Steps /\ Endings \subseteq {"PAGO", "CANCELADO"}
    /\ Overlap \in BOOLEAN /\ MaxCrashes \in Nat
    /\ Scheduler \notin Operators

VARIABLES
    account,    \* status of the receivable
    reference,  \* status of its reference
    settings,   \* of each step; "inactive" when its template is
    campaign,   \* status of each campaign
    step,       \* status of each RecoveryCampaignStep
    dispatch,   \* the MessageDispatch of each message
    accepted,   \* how often the provider accepted each message
    session,
    crashes

vars == <<account, reference, settings, campaign, step, dispatch, accepted, session, crashes>>

maxAttempts == 3

Messages == Campaigns \X Steps
Sessions == Operators \cup {Scheduler}
Live == {"SCHEDULED", "FAILED"}
AccountStatus == {"PENDENTE", "PAGO", "CANCELADO"}
ReferenceStatus == {"ATIVO", "CANCELADO"}
CampaignStatus == {"none", "ATIVA", "CONCLUIDA", "CANCELADA"}
StepStatus == {"none", "SCHEDULED", "SENT", "FAILED", "CANCELED", "IGNORED"}
DispatchStatus == StepStatus \cup {"PROCESSING"}
Outcomes == {"none", "CANCELED", "IGNORED"}

\* named: receivableId is set.  uncertain: the error code is one of
\* nonRetryableProviderErrorCodes.
Dispatch == [status : DispatchStatus, attempts : 0 .. maxAttempts, uncertain : BOOLEAN,
             linked : BOOLEAN, named : BOOLEAN]

NoDispatch == [status |-> "none", attempts |-> 0, uncertain |-> FALSE,
               linked |-> FALSE, named |-> FALSE]

Unseen == [step |-> "none", dispatch |-> "none", uncertain |-> FALSE]
NothingSeen == [x \in Messages |-> Unseen]
Enabled == [n \in Steps |-> "enabled"]

\* What a request has read (account to plan) and where it is (campaign on).
Idle == [job |-> "idle", at |-> "idle",
         account |-> "PENDENTE", reference |-> "ATIVO", seen |-> NothingSeen,
         overdue |-> FALSE, left |-> {}, plan |-> Enabled,
         campaign |-> None, steps |-> {}, message |-> None, attempts |-> 0,
         outcome |-> "none"]

Places == {"idle", "reconciling", "starting", "dispatching", "linking", "campaign", "due",
           "acquired", "sending", "retry", "refused", "confirmed", "uncertain"}
SeenRows ==
    [Messages -> [step : StepStatus, dispatch : DispatchStatus, uncertain : BOOLEAN]]
Plans == [Steps -> StepSettings]

SessionState ==
    [job : JobKinds \cup {"tick", "idle"}, at : Places,
     account : AccountStatus, reference : ReferenceStatus,
     seen : SeenRows, overdue : BOOLEAN, left : SUBSET Campaigns, plan : Plans,
     campaign : Campaigns \cup {None}, steps : SUBSET Steps,
     message : Messages \cup {None}, attempts : 0 .. maxAttempts, outcome : Outcomes]

TypeOK ==
    /\ account \in AccountStatus /\ reference \in ReferenceStatus
    /\ settings \in Plans
    /\ campaign \in [Campaigns -> CampaignStatus]
    /\ step \in [Messages -> StepStatus]
    /\ dispatch \in [Messages -> Dispatch]
    /\ accepted \in [Messages -> Nat] /\ crashes \in 0 .. MaxCrashes
    /\ \A x \in Messages :
           /\ dispatch[x].status # "none" => step[x] # "none"
           /\ dispatch[x].uncertain => dispatch[x].status = "FAILED"
           /\ dispatch[x].status = "SENT" => accepted[x] > 0
    /\ session \in [Sessions -> SessionState]

Init ==
    /\ account = "PENDENTE" /\ reference = "ATIVO"
    /\ settings = Enabled
    /\ campaign = [c \in Campaigns |-> "none"]
    /\ step = [x \in Messages |-> "none"]
    /\ dispatch = [x \in Messages |-> NoDispatch]
    /\ accepted = [x \in Messages |-> 0]
    /\ session = [s \in Sessions |-> Idle]
    /\ crashes = 0

At(s, at) == session[s].at = at
Become(s, record) == session' = [session EXCEPT ![s] = record]
GoTo(s, at) == Become(s, [session[s] EXCEPT !.at = at])
End(s) == Become(s, Idle)
Facts == <<account, reference, settings>>
Tables == <<campaign, step, dispatch>>
Outside == <<Facts, accepted, crashes>>

(***************************************************************************)
(* Ending campaigns.                                                       *)
(***************************************************************************)
Active == {c \in Campaigns : campaign[c] = "ATIVA"}

Ended(x, status) == [dispatch[x] EXCEPT !.status = status, !.uncertain = FALSE]

\* With cancelFutureDispatches.
EndCampaigns(which, status) ==
    /\ campaign' = [c \in Campaigns |-> IF c \in which THEN status ELSE campaign[c]]
    /\ step' = [x \in Messages |->
           IF x[1] \in which /\ step[x] \in Live THEN "CANCELED" ELSE step[x]]
    /\ dispatch' = [x \in Messages |->
           IF x[1] \in which /\ dispatch[x].status \in Live THEN Ended(x, "CANCELED")
                                                            ELSE dispatch[x]]

ClosingStatus(receivable) == IF receivable = "PAGO" THEN "CONCLUIDA" ELSE "CANCELADA"

\* A settlement or a cancellation of the account ends its campaigns in the
\* same transaction.
LeavePending(status) ==
    /\ account = "PENDENTE"
    /\ account' = status
    /\ EndCampaigns(Active, ClosingStatus(status))
    /\ UNCHANGED <<reference, settings, accepted, session, crashes>>

CancelReference ==
    /\ reference = "ATIVO"
    /\ reference' = "CANCELADO"
    /\ EndCampaigns(Active, "CANCELADA")
    /\ UNCHANGED <<account, settings, accepted, session, crashes>>

\* By way of INATIVO.
ReturnReference ==
    /\ reference = "CANCELADO"
    /\ reference' = "ATIVO"
    /\ UNCHANGED <<account, settings, Tables, accepted, session, crashes>>

\* The endpoint finds the campaign active and later cancels it by id, whatever
\* became of it meanwhile.
CancelCampaign(c) ==
    /\ campaign[c] # "none"
    /\ EndCampaigns({c}, "CANCELADA")
    /\ UNCHANGED <<session, Outside>>

(***************************************************************************)
(* reconcile.                                                              *)
(***************************************************************************)
Busy(s) == session[s].job \in {"tick", "reconcile", "processDue"}
MayReconcile(s) == Overlap \/ \A o \in Sessions \ {s} : ~Busy(o)

Seen == [x \in Messages |->
    IF x[1] \notin Active THEN Unseen
    ELSE [step |-> step[x],
          dispatch |-> IF dispatch[x].linked THEN dispatch[x].status ELSE "none",
          uncertain |-> dispatch[x].linked /\ dispatch[x].uncertain]]

\* The overdue accounts and the active campaigns with their steps.
BeginReconcile(s, job) ==
    /\ session[s] = Idle /\ MayReconcile(s)
    /\ LET begun == [Idle EXCEPT !.job = job, !.at = "reconciling"]
       IN  Become(s, IF Active = {}
                     THEN [begun EXCEPT !.overdue = account = "PENDENTE" /\ reference = "ATIVO"]
                     ELSE [begun EXCEPT !.account = account, !.reference = reference,
                                        !.left = Active, !.seen = Seen])
    /\ UNCHANGED <<Tables, Outside>>

\* The enabled steps in their order, then those that were disabled.
IsNext(s, n) ==
    LET disabled(m) == session[s].plan[m] = "disabled"
    IN  /\ n \in session[s].steps
        /\ \A m \in session[s].steps \ {n} :
               IF disabled(n) = disabled(m) THEN n < m ELSE disabled(m)

\* No allowed phone, no connection or no step.
SkipStart(s) ==
    /\ At(s, "reconciling") /\ session[s].overdue
    /\ Become(s, [session[s] EXCEPT !.overdue = FALSE])
    /\ UNCHANGED <<Tables, Outside>>

\* Each statement of startCampaign commits by itself.
StartCampaign(s, c) ==
    /\ At(s, "reconciling") /\ session[s].overdue
    /\ campaign[c] = "none" /\ Active = {}
    /\ LET expected == {n \in Steps : settings[n] # "disabled"}
       IN  /\ expected # {}
           /\ Become(s, [session[s] EXCEPT !.at = "starting", !.overdue = FALSE,
                             !.campaign = c, !.steps = expected, !.plan = settings])
    /\ campaign' = [campaign EXCEPT ![c] = "ATIVA"]
    /\ UNCHANGED <<step, dispatch, Outside>>

CreateStep(s, n) ==
    /\ At(s, "starting") /\ IsNext(s, n)
    /\ LET x == <<session[s].campaign, n>>
           ignored == session[s].plan[n] = "inactive"
       IN  IF step[x] # "none" THEN End(s) /\ UNCHANGED step
           ELSE /\ step' = [step EXCEPT ![x] = IF ignored THEN "IGNORED" ELSE "SCHEDULED"]
                /\ Become(s, [session[s] EXCEPT
                       !.steps = @ \ {n},
                       !.at = IF ignored THEN "starting" ELSE "dispatching",
                       !.message = IF ignored THEN None ELSE x])
    /\ UNCHANGED <<campaign, dispatch, Outside>>

NewDispatch(linked, named) ==
    [NoDispatch EXCEPT !.status = "SCHEDULED", !.linked = linked, !.named = named]

\* The idempotency key is unique.
CreateDispatch(s) ==
    /\ At(s, "dispatching")
    /\ LET x == session[s].message
       IN  IF dispatch[x] # NoDispatch THEN End(s) /\ UNCHANGED dispatch
           ELSE /\ dispatch' = [dispatch EXCEPT ![x] = NewDispatch(FALSE, TRUE)]
                /\ GoTo(s, "linking")
    /\ UNCHANGED <<campaign, step, Outside>>

LinkDispatch(s) ==
    /\ At(s, "linking")
    /\ dispatch' = [dispatch EXCEPT ![session[s].message].linked = TRUE]
    /\ Become(s, [session[s] EXCEPT !.at = "starting", !.message = None])
    /\ UNCHANGED <<campaign, step, Outside>>

\* What was read about campaigns matters until the last of them is done.
Reconciled(s, left) ==
    Become(s, IF left = {} THEN [Idle EXCEPT !.job = session[s].job, !.at = "reconciling"]
              ELSE [session[s] EXCEPT !.at = "reconciling", !.left = left,
                                      !.campaign = None, !.plan = Enabled])

FinishStart(s) ==
    /\ At(s, "starting") /\ session[s].steps = {}
    /\ Reconciled(s, session[s].left)
    /\ UNCHANGED <<Tables, Outside>>

NextCampaign(s, c) == /\ At(s, "reconciling") /\ ~session[s].overdue
                      /\ c \in session[s].left
Dropping(s, c) == Reconciled(s, session[s].left \ {c})

\* Mutant: only the reference ends a campaign.
EndReasonlessReference(s, c) ==
    /\ NextCampaign(s, c)
    /\ IF session[s].reference = "CANCELADO"
       THEN EndCampaigns(Active, "CANCELADA") ELSE UNCHANGED Tables
    /\ session[s].account # "PENDENTE" \/ session[s].reference = "CANCELADO"
    /\ Dropping(s, c)
    /\ UNCHANGED Outside

\* The account or its reference was settled or canceled when they were read.
EndReasonless(s, c) ==
    /\ NextCampaign(s, c)
    /\ \/ /\ session[s].account # "PENDENTE"
          /\ EndCampaigns(Active, ClosingStatus(session[s].account))
       \/ /\ session[s].account = "PENDENTE" /\ session[s].reference = "CANCELADO"
          /\ EndCampaigns(Active, "CANCELADA")
    /\ Dropping(s, c)
    /\ UNCHANGED Outside

Reconcilable(s, c) == /\ NextCampaign(s, c)
                      /\ session[s].account = "PENDENTE" /\ session[s].reference = "ATIVO"

\* The phone is not allowed: the campaign ends, whatever became of it.  No
\* connection: it is left as it is.
BlockCampaign(s, c) ==
    /\ Reconcilable(s, c)
    /\ EndCampaigns({c}, "CANCELADA") \/ UNCHANGED Tables
    /\ Dropping(s, c)
    /\ UNCHANGED Outside

ReconcileCampaign(s, c) ==
    /\ Reconcilable(s, c)
    /\ Become(s, [session[s] EXCEPT !.at = "campaign", !.left = @ \ {c}, !.campaign = c,
                                    !.steps = Steps, !.plan = settings])
    /\ UNCHANGED <<Tables, Outside>>

\* Both by id, whatever they are by now.
CancelStepAndDispatch(x, seen, status) ==
    /\ step' = [step EXCEPT ![x] = status]
    /\ dispatch' = IF seen.dispatch \in Live
                   THEN [dispatch EXCEPT ![x] = Ended(x, status)] ELSE dispatch

\* The settings no longer want the step.
UnwantedStep(x, seen, wanted) ==
    CASE seen.step # "none" ->
             CancelStepAndDispatch(x, seen, IF wanted = "inactive" THEN "IGNORED" ELSE "CANCELED")
      [] seen.step = "none" /\ wanted = "inactive" /\ step[x] = "none" ->
             step' = [step EXCEPT ![x] = "IGNORED"] /\ UNCHANGED dispatch
      [] OTHER -> UNCHANGED <<step, dispatch>>

\* Mutant: the settings bring a message of unknown outcome back.
CanRescheduleUncertain(seen) ==
    seen.step \in Live /\ seen.dispatch \in Live

CanReschedule(seen) ==
    /\ ~seen.uncertain
    /\ seen.step \in Live /\ seen.dispatch \in Live

\* The calculated time differs from the one the step has.
Reschedule(x) ==
    /\ step' = [step EXCEPT ![x] = "SCHEDULED"]
    /\ dispatch' = [dispatch EXCEPT ![x] =
           [@ EXCEPT !.status = "SCHEDULED", !.uncertain = FALSE]]

\* The dispatch that is missing does not name the account.
AddDispatch(x, seen) ==
    IF dispatch[x] # NoDispatch \/ (seen.step = "none" /\ step[x] # "none")
    THEN UNCHANGED <<step, dispatch>>
    ELSE /\ step' = [step EXCEPT ![x] = "SCHEDULED"]
         /\ dispatch' = [dispatch EXCEPT ![x] = NewDispatch(TRUE, FALSE)]

WantedStep(x, seen) ==
    IF seen.dispatch = "none" THEN AddDispatch(x, seen)
    ELSE UNCHANGED <<step, dispatch>> \/ (CanReschedule(seen) /\ Reschedule(x))

\* Another request created the ignored step meanwhile: the error ends this one.
Clashes(x, seen, wanted) ==
    wanted = "inactive" /\ seen.step = "none" /\ step[x] # "none"

ReconcileStep(s, n) ==
    /\ At(s, "campaign") /\ IsNext(s, n)
    /\ LET x == <<session[s].campaign, n>>
           seen == session[s].seen[x]
           wanted == session[s].plan[n]
       IN  /\ IF wanted = "enabled" THEN WantedStep(x, seen) ELSE UnwantedStep(x, seen, wanted)
           /\ IF Clashes(x, seen, wanted) THEN End(s)
              ELSE Become(s, [session[s] EXCEPT !.steps = @ \ {n}])
    /\ UNCHANGED <<campaign, Outside>>

FinishCampaign(s) ==
    /\ At(s, "campaign") /\ session[s].steps = {}
    /\ Reconciled(s, session[s].left)
    /\ UNCHANGED <<Tables, Outside>>

\* The scheduler goes on with processDue, unless the automation is disabled.
EndReconcile(s) ==
    /\ At(s, "reconciling") /\ ~session[s].overdue /\ session[s].left = {}
    /\ \/ End(s)
       \/ session[s].job = "tick" /\ Become(s, [Idle EXCEPT !.job = "tick", !.at = "due"])
    /\ UNCHANGED <<Tables, Outside>>

(***************************************************************************)
(* processDue.                                                             *)
(***************************************************************************)
BeginProcessDue(s) ==
    /\ session[s] = Idle /\ "processDue" \in Jobs
    /\ Overlap \/ \A o \in Sessions \ {s} : Busy(o) => session[o].at \notin
           {"reconciling", "starting", "dispatching", "linking", "campaign"}
    /\ Become(s, [Idle EXCEPT !.job = "processDue", !.at = "due"])
    /\ UNCHANGED <<Tables, Outside>>

\* The scheduler takes one message, an operator one after the other.
Continue(s) == IF session[s].job = "tick" THEN End(s)
               ELSE Become(s, [Idle EXCEPT !.job = session[s].job, !.at = "due"])

StopProcessing(s) ==
    /\ At(s, "due")
    /\ End(s)
    /\ UNCHANGED <<Tables, Outside>>

\* Mutant: nothing limits the attempts.
CanAcquireForEver(x) ==
    dispatch[x].status \in Live /\ ~dispatch[x].uncertain

CanAcquire(x) ==
    /\ dispatch[x].status \in Live
    /\ dispatch[x].attempts < maxAttempts
    /\ ~dispatch[x].uncertain

\* Candidates are taken in any order.
AcquireDispatch(s, x) ==
    /\ At(s, "due") /\ CanAcquire(x)
    /\ dispatch' = [dispatch EXCEPT ![x] =
           [@ EXCEPT !.status = "PROCESSING", !.attempts = dispatch[x].attempts + 1]]
    /\ Become(s, [session[s] EXCEPT !.at = "acquired", !.message = x])
    /\ UNCHANGED <<campaign, step, Outside>>

Template(x) == settings[x[2]] # "inactive"

Eligible(x) ==
    /\ dispatch[x].status = "PROCESSING"
    /\ reference = "ATIVO"
    /\ dispatch[x].named /\ account = "PENDENTE"
    /\ campaign[x[1]] = "ATIVA"
    /\ dispatch[x].linked /\ step[x] = "SCHEDULED"
    /\ Template(x)

\* The check is made twice, before and after the connection is looked up; the
\* second one decides.
PassCheck(s) ==
    /\ At(s, "acquired")
    /\ Eligible(session[s].message)
    /\ Become(s, [session[s] EXCEPT !.at = "sending",
                                    !.attempts = dispatch[session[s].message].attempts])
    /\ UNCHANGED <<Tables, Outside>>

\* No connection, or a token that cannot be decrypted.
CannotSend(s) ==
    /\ \/ At(s, "acquired") /\ Eligible(session[s].message)
       \/ At(s, "sending")
    /\ Become(s, [session[s] EXCEPT !.at = "retry",
                                    !.attempts = dispatch[session[s].message].attempts])
    /\ UNCHANGED <<Tables, Outside>>

\* Another phone refuses the message as well.
FailCheck(s) ==
    /\ At(s, "acquired")
    /\ LET x == session[s].message
           processing == dispatch[x].status = "PROCESSING"
           canceled == processing /\ reference = "CANCELADO"
           left == /\ processing /\ ~canceled
                   /\ dispatch[x].named /\ account # "PENDENTE"
           inactive == /\ processing /\ ~canceled /\ dispatch[x].named
                       /\ campaign[x[1]] # "ATIVA"
           outcome == IF canceled \/ left \/ inactive THEN "CANCELED" ELSE "IGNORED"
       IN  /\ CASE canceled -> EndCampaigns(Active, "CANCELADA")
                [] left -> EndCampaigns(Active, ClosingStatus(account))
                [] OTHER -> UNCHANGED Tables
           /\ Become(s, [session[s] EXCEPT !.at = "refused", !.outcome = outcome])
    /\ UNCHANGED Outside

MarkIneligible(s) ==
    /\ At(s, "refused")
    /\ LET x == session[s].message
           outcome == session[s].outcome
       IN  /\ dispatch' = [dispatch EXCEPT ![x] = Ended(x, outcome)]
           /\ step' = IF dispatch[x].linked THEN [step EXCEPT ![x] = outcome] ELSE step
    /\ Continue(s)
    /\ UNCHANGED <<campaign, Outside>>

\* The attempt that was just counted counts again.
MarkRetry(s) ==
    /\ At(s, "retry")
    /\ LET x == session[s].message
           exhausted == session[s].attempts + 1 >= maxAttempts
       IN  /\ dispatch' = [dispatch EXCEPT ![x] =
                  [@ EXCEPT !.status = "FAILED", !.uncertain = FALSE]]
           /\ step' = IF exhausted THEN [step EXCEPT ![x] = "FAILED"] ELSE step
    /\ Continue(s)
    /\ UNCHANGED <<campaign, Outside>>

Answers == {"identified", "unidentified", "rejected", "lost"}

ProviderAnswers(s, answer, taken) ==
    /\ At(s, "sending")
    /\ taken = (answer \in {"identified", "unidentified"}) \/ answer = "lost"
    /\ accepted' = [accepted EXCEPT ![session[s].message] = IF taken THEN @ + 1 ELSE @]
    /\ GoTo(s, CASE answer = "identified" -> "confirmed"
                 [] answer = "rejected" -> "retry"
                 [] OTHER -> "uncertain")
    /\ UNCHANGED <<Tables, Facts, crashes>>

\* completeIfFinished
Finished(c) == campaign[c] = "ATIVA" /\ \A n \in Steps : step'[<<c, n>>] \notin Live

ConfirmSent(s) ==
    /\ At(s, "confirmed")
    /\ LET x == session[s].message
       IN  /\ dispatch' = [dispatch EXCEPT ![x] = Ended(x, "SENT")]
           /\ step' = [step EXCEPT ![x] = "SENT"]
           /\ campaign' = IF Finished(x[1]) THEN [campaign EXCEPT ![x[1]] = "CONCLUIDA"]
                                            ELSE campaign
    /\ Continue(s)
    /\ UNCHANGED Outside

\* The transaction above fails.
LoseConfirmation(s) ==
    /\ At(s, "confirmed")
    /\ GoTo(s, "uncertain")
    /\ UNCHANGED <<Tables, Outside>>

MarkProviderOutcomeUncertain(s) ==
    /\ At(s, "uncertain")
    /\ dispatch' = [dispatch EXCEPT ![session[s].message] =
           [@ EXCEPT !.status = "FAILED", !.uncertain = TRUE]]
    /\ Continue(s)
    /\ UNCHANGED <<campaign, step, Outside>>

(***************************************************************************)
(* Settings and the end of a process.                                      *)
(***************************************************************************)
Configure(n, value) ==
    /\ value \in Configurations /\ settings[n] # value
    /\ settings' = [settings EXCEPT ![n] = value]
    /\ UNCHANGED <<account, reference, Tables, accepted, session, crashes>>

Crash(s) ==
    /\ crashes < MaxCrashes
    /\ session[s] # Idle
    /\ crashes' = crashes + 1
    /\ End(s)
    /\ UNCHANGED <<Tables, Facts, accepted>>

(***************************************************************************)
(* The system.                                                             *)
(***************************************************************************)
Tick == BeginReconcile(Scheduler, "tick")

Request(s) ==
    \/ "reconcile" \in Jobs /\ BeginReconcile(s, "reconcile")
    \/ BeginProcessDue(s)

Reconciling(s) ==
    \/ SkipStart(s) \/ FinishStart(s) \/ CreateDispatch(s) \/ LinkDispatch(s)
    \/ \E c \in Campaigns : StartCampaign(s, c)
    \/ \E n \in Steps : CreateStep(s, n)
    \/ \E c \in Campaigns : EndReasonless(s, c) \/ BlockCampaign(s, c) \/ ReconcileCampaign(s, c)
    \/ \E n \in Steps : ReconcileStep(s, n)
    \/ FinishCampaign(s) \/ EndReconcile(s)

Processing(s) ==
    \/ StopProcessing(s)
    \/ \E x \in Messages : AcquireDispatch(s, x)
    \/ PassCheck(s) \/ CannotSend(s) \/ FailCheck(s) \/ MarkIneligible(s)
    \/ \E answer \in Answers, taken \in BOOLEAN : ProviderAnswers(s, answer, taken)
    \/ MarkRetry(s) \/ ConfirmSent(s) \/ LoseConfirmation(s)
    \/ MarkProviderOutcomeUncertain(s)

Step(s) == Reconciling(s) \/ Processing(s)

Next ==
    \/ \E status \in Endings : LeavePending(status)
    \/ CancelReference \/ ReturnReference
    \/ \E c \in Campaigns : CancelCampaign(c)
    \/ \E n \in Configurable, value \in StepSettings : Configure(n, value)
    \/ Tick
    \/ \E s \in Operators : Request(s)
    \/ \E s \in Sessions : Step(s) \/ Crash(s)

Spec == Init /\ [][Next]_vars

\* The timer goes on, and a request that runs is served.  Strong for the
\* timer, because without Overlap it waits for a moment between requests.
FairSpec == Spec /\ SF_vars(Tick) /\ \A s \in Sessions : WF_vars(Step(s))

(***************************************************************************)
(* Properties.                                                             *)
(***************************************************************************)
Open == {x \in Messages : campaign[x[1]] = "ATIVA" /\ account = "PENDENTE"
                            /\ reference = "ATIVO"}
Sending == {session[s].message : s \in {t \in Sessions : At(t, "sending")}}
Delivered == {x \in Messages : accepted[x] > 0}

Promise == INSTANCE RecoveryPromise WITH
    open <- Open, sending <- Sending, delivered <- Delivered

\* Recovery keeps the promise: no message is sent twice, through rejections,
\* lost answers, crashes and changes of the settings, and none whose sending
\* begins after its campaign, its account or its reference ended.
PromiseSpec == Promise!Spec

\* The campaigns of an account that was settled or canceled come to their end,
\* also one that a reconciliation started from what it had read before.
SettledCampaignsEnd == account # "PENDENTE" ~> Active = {}

\* The same step is not sent twice to the client about one account.
StepSentOnce ==
    \A x, y \in Messages :
        x # y /\ x[2] = y[2] => accepted[x] = 0 \/ accepted[y] = 0
=============================================================================
