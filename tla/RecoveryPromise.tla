--------------------------- MODULE RecoveryPromise ---------------------------
(***************************************************************************)
(* What recovery promises about its messages: one goes out only if its     *)
(* sending began while it was open, and at most once.  Sending that began  *)
(* may still succeed after the message was closed.                         *)
(***************************************************************************)
CONSTANT Messages

VARIABLES
    open,      \* messages of an active campaign about a pending account
    sending,   \* messages handed to the provider, still without an outcome
    delivered

vars == <<open, sending, delivered>>

Init == open = {} /\ sending = {} /\ delivered = {}

OpenAndClose ==
    /\ open' \in SUBSET Messages
    /\ UNCHANGED <<sending, delivered>>

Start(x) ==
    /\ x \in open \ (sending \cup delivered)
    /\ sending' = sending \cup {x}
    /\ UNCHANGED <<open, delivered>>

\* The provider may have taken the message or not; nobody sends it meanwhile.
Finish(x) ==
    /\ x \in sending
    /\ sending' = sending \ {x}
    /\ delivered' \in {delivered, delivered \cup {x}}
    /\ UNCHANGED open

Next == OpenAndClose \/ \E x \in Messages : Start(x) \/ Finish(x)

Spec == Init /\ [][Next]_vars
=============================================================================
