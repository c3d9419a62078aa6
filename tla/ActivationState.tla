---------------------------- MODULE ActivationState ----------------------------
(***************************************************************************)
(* The activation state of one account (ActivationStateRepository): when   *)
(* it registered an app and a bridge and started its first session, from   *)
(* when its reminders count, and which were sent.  A state that does not   *)
(* exist yet and one that has just been created are the same here.         *)
(*                                                                         *)
(* An operator named Slip_X is X with one plausible mistake.               *)
(***************************************************************************)
EXTENDS Integers

CONSTANTS
  Bridge1Delay, Bridge2Delay, SessionDelay,
  MaxClock,   \* bound: the last clock reading
  None

\* An account is created at time 1: what is older is another account's.
Created == 1
Time == 0 .. MaxClock
Kinds == {"bridge_1", "bridge_2", "session"}
Milestones == {"mobile", "bridge", "session"}

ASSUME ActivationStateAssumption ==
  /\ {Bridge1Delay, Bridge2Delay, SessionDelay} \subseteq Nat /\ MaxClock \in Nat \ {0}
  /\ None \notin Nat

VARIABLES
  clock,
  doc         \* activationStates: the milestones, the baselines and the reminders sent

NoDoc == [mobile |-> None, bridge |-> None, session |-> None, bridgeBase |-> None, sessionBase |-> None,
          sent |-> {}, backfilled |-> FALSE]

IfNull(a, b) == IF a = None THEN b ELSE a
Later(a, b) == IF a >= b THEN a ELSE b
NoUpdate == [m \in Milestones |-> None]

FirstSession(at) == IF at = None \/ (doc.session # None /\ doc.session <= at) THEN doc.session ELSE at

\* recordMilestones: an update fills in what is missing when it is applied.
Recorded(update) ==
  LET mobile == IfNull(doc.mobile, update.mobile)
      bridge == IfNull(doc.bridge, update.bridge)
  IN [doc EXCEPT
       !.mobile = mobile, !.bridge = bridge, !.session = FirstSession(update.session),
       !.bridgeBase = IfNull(@, mobile),
       !.sessionBase = IfNull(@, IF None \in {mobile, bridge} THEN None ELSE Later(mobile, bridge))]

\* Slip: the evidence, which may be the day's, replaces what was recorded.
Slip_KeptSession(at) == IfNull(at, doc.session)

KeptSession(at) == IfNull(doc.session, at)

\* applyBackfill: it also moves the baselines of the reminders that are still to be sent.
Backfilled(evidence, base) ==
  LET mobile == IfNull(doc.mobile, evidence.mobile)
      bridge == IfNull(doc.bridge, evidence.bridge)
      session == KeptSession(evidence.session)
      moves == base # None /\ mobile # None
  IN [doc EXCEPT
       !.mobile = mobile, !.bridge = bridge, !.session = session, !.backfilled = TRUE,
       !.bridgeBase = IF moves /\ bridge = None /\ "bridge_2" \notin doc.sent THEN base ELSE @,
       !.sessionBase = IF moves /\ bridge # None /\ session = None /\ "session" \notin doc.sent
                       THEN base ELSE @]

Cutoff(kind, now) ==
  now - (CASE kind = "bridge_1" -> Bridge1Delay
           [] kind = "bridge_2" -> Bridge2Delay
           [] kind = "session" -> SessionDelay)

\* reminderEligibilityFilter
Eligible(kind, now) ==
  LET base == IF kind = "session" THEN doc.sessionBase ELSE doc.bridgeBase
  IN /\ kind \notin doc.sent
     /\ IF kind = "session" THEN doc.session = None ELSE doc.bridge = None
     /\ kind = "bridge_2" => "bridge_1" \in doc.sent
     /\ base # None => base <= Cutoff(kind, now)
     /\ base # None

=============================================================================
