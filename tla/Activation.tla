------------------------------- MODULE Activation -------------------------------
(***************************************************************************)
(* How the milestones of one account are recorded, by requests that also   *)
(* reconcile them with what is stored elsewhere and by a backfill that     *)
(* runs beside the server, and how the sweep of the reminders reads them,  *)
(* sends, and marks what it sent while the server is stopped or dies.      *)
(*                                                                         *)
(* Abstractions.  One account.  The evidence is the earliest time of each  *)
(* kind; the parallel reads of a request, and those of the backfill,       *)
(* answer at one time.  A call to the database is answered in the step     *)
(* that makes it; what it is decided on was read in earlier steps.         *)
(***************************************************************************)
EXTENDS ActivationState, Sequences

CONSTANTS
  Callers,    \* requests under way at once
  Sweeps,     \* runs of the sweep
  Jitter      \* the jitter of the account in the backfill

ASSUME ActivationAssumption == Jitter \in Nat

VARIABLES
  evidence,   \* the oldest device token, bridge and usage of the account
  requests,
  backfill,   \* the script
  sweeps,
  phase       \* of the ActivationReminderService

activationVars == <<clock, doc, evidence, requests, backfill, sweeps, phase>>

Stamp == Time \cup {None}
Baseline == 0 .. MaxClock + Jitter \cup {None}
NoRequest == [at |-> "idle", kind |-> None, observed |-> None, update |-> NoUpdate]
NoBackfill == [at |-> "idle", now |-> 0, mobile |-> FALSE, evidence |-> NoUpdate, base |-> None]
NoSweep == [at |-> "idle", next |-> 1, now |-> 0, sent |-> {}]

ReminderKinds == <<"bridge_2", "bridge_1", "session">>

ActivationTypeOK ==
  /\ clock \in Time
  /\ doc \in [mobile : Stamp, bridge : Stamp, session : Stamp, bridgeBase : Baseline,
              sessionBase : Baseline, sent : SUBSET Kinds, backfilled : BOOLEAN]
  /\ {doc.mobile, doc.bridge, doc.session} \cap 0 .. Created - 1 = {}
  /\ evidence \in [Milestones -> Stamp]
  /\ requests \in [Callers -> [at : {"idle", "read", "reconcile", "record", "use"}, kind : Milestones \cup {None},
                                observed : Stamp, update : [Milestones -> Stamp]]]
  /\ backfill \in [at : {"idle", "evidence", "apply"}, now : Time, mobile : BOOLEAN,
                   evidence : [Milestones -> Stamp], base : Baseline]
  /\ sweeps \in [Sweeps -> [at : {"idle", "find", "check", "tokens", "push", "stale", "mark"},
                            next : 1 .. Len(ReminderKinds), now : Time, sent : SUBSET Kinds]]
  /\ phase \in {"up", "disposing", "timed_out", "disposed"}

\* A device token may have been left behind by an earlier account.
ActivationInit ==
  /\ clock = Created
  /\ doc = NoDoc
  /\ evidence \in {NoUpdate, [NoUpdate EXCEPT !.mobile = 0]}
  /\ requests = [r \in Callers |-> NoRequest]
  /\ backfill = NoBackfill
  /\ sweeps = [s \in Sweeps |-> NoSweep]
  /\ phase = "up"

Tick ==
  /\ clock < MaxClock
  /\ clock' = clock + 1
  /\ UNCHANGED <<doc, evidence, requests, backfill, sweeps, phase>>

-----------------------------------------------------------------------------
(* Requests that reach a milestone. *)

\* Slip: a token that was left behind counts as this account's.
Slip_Guard(at) == at

Guard(at) == IF at # None /\ at < Created THEN None ELSE at

restOfRequest == <<clock, backfill, sweeps, phase>>

\* A token is stored, or a bridge registered, before its milestone is recorded; a
\* request for metadata is counted after it, on a day that may have begun before.
Arrive(r, kind) ==
  /\ requests[r].at = "idle" /\ phase = "up"
  /\ evidence' = IF kind = "session" THEN evidence ELSE [evidence EXCEPT ![kind] = IfNull(@, clock)]
  /\ requests' = [requests EXCEPT ![r] = [NoRequest EXCEPT !.at = "read", !.kind = kind,
                    !.observed = IF kind = "bridge" THEN evidence'.bridge ELSE clock]]
  /\ UNCHANGED <<doc, restOfRequest>>

\* A milestone is looked for elsewhere if it was missing from the state read first.
Read(r) ==
  /\ requests[r].at = "read"
  /\ requests' = [requests EXCEPT ![r].at = "reconcile",
                    ![r].update = [m \in Milestones |-> doc[m]]]
  /\ UNCHANGED <<doc, evidence, restOfRequest>>

Reconciled(r) ==
  [m \in Milestones |->
     LET had == requests[r].update[m]
         observed == IF requests[r].kind = m THEN requests[r].observed ELSE None
     IN IF had = None THEN IfNull(Guard(evidence[m]), observed)
        ELSE IF m = "session" /\ observed # None /\ observed < had THEN observed ELSE None]

After(r) == IF requests[r].kind = "session" THEN [NoRequest EXCEPT !.at = "use"] ELSE NoRequest

Reconcile(r) ==
  /\ requests[r].at = "reconcile"
  /\ requests' = [requests EXCEPT ![r] = IF Reconciled(r) = NoUpdate THEN After(r)
                                         ELSE [@ EXCEPT !.at = "record", !.update = Reconciled(r)]]
  /\ UNCHANGED <<doc, evidence, restOfRequest>>

Record(r) ==
  /\ requests[r].at = "record"
  /\ doc' = Recorded(requests[r].update)
  /\ requests' = [requests EXCEPT ![r] = After(r)]
  /\ UNCHANGED <<evidence, restOfRequest>>

\* The routes go on without a milestone that could not be recorded.
FailRecord(r) ==
  /\ requests[r].at \in {"read", "reconcile", "record"}
  /\ requests' = [requests EXCEPT ![r] = After(r)]
  /\ UNCHANGED <<doc, evidence, restOfRequest>>

Use(r) ==
  /\ requests[r].at = "use"
  /\ \E at \in Created .. clock : evidence' = [evidence EXCEPT !.session = IfNull(@, at)]
  /\ requests' = [requests EXCEPT ![r] = NoRequest]
  /\ UNCHANGED <<doc, restOfRequest>>

-----------------------------------------------------------------------------
(* The backfill. *)

restOfBackfill == <<clock, evidence, requests, sweeps, phase>>

StartBackfill ==
  /\ backfill.at = "idle" /\ ~doc.backfilled
  /\ backfill' = [NoBackfill EXCEPT !.at = "evidence", !.now = clock,
                    !.mobile = doc.mobile # None]
  /\ UNCHANGED <<doc, restOfBackfill>>

\* A reminder needs a device to reach and a milestone to count from.
ReadEvidence ==
  /\ backfill.at = "evidence"
  /\ LET reachable == evidence.mobile # None /\ (backfill.mobile \/ Guard(evidence.mobile) # None)
     IN backfill' = [backfill EXCEPT !.at = "apply", !.mobile = FALSE, !.now = 0,
                       !.evidence = [m \in Milestones |-> Guard(evidence[m])],
                       !.base = IF reachable THEN backfill.now + Jitter ELSE None]
  /\ UNCHANGED <<doc, restOfBackfill>>

ApplyBackfill ==
  /\ backfill.at = "apply"
  /\ doc' = IF doc.backfilled THEN doc ELSE Backfilled(backfill.evidence, backfill.base)
  /\ backfill' = NoBackfill
  /\ UNCHANGED restOfBackfill

-----------------------------------------------------------------------------
(* The sweep of the reminders. *)

disposed == phase # "up"
restOfSweep == <<clock, requests, backfill>>
kindOf(s) == ReminderKinds[sweeps[s].next]
due(s) == Eligible(kindOf(s), sweeps[s].now)
Go(s, at) == sweeps' = [sweeps EXCEPT ![s].at = at] /\ UNCHANGED phase

\* The next kind, if there is one and the service has not been disposed of.
Continue(s, sent) ==
  IF disposed \/ sweeps[s].next = Len(ReminderKinds)
  THEN /\ sweeps' = [sweeps EXCEPT ![s] = NoSweep]
       /\ phase' = IF phase = "disposing" THEN "disposed" ELSE phase
  ELSE /\ sweeps' = [sweeps EXCEPT ![s].at = "find", ![s].next = @ + 1, ![s].sent = @ \cup sent]
       /\ UNCHANGED phase

\* Slip: a sweep that is still under way is not waited for.
Slip_MayStart(s) == sweeps[s].at = "idle"

MayStart(s) == \A t \in Sweeps : sweeps[t].at = "idle"

StartSweep(s) ==
  /\ MayStart(s) /\ ~disposed
  /\ sweeps' = [sweeps EXCEPT ![s] = [NoSweep EXCEPT !.at = "find", !.now = clock]]
  /\ UNCHANGED <<doc, evidence, restOfSweep, phase>>

\* A query that fails leaves out its kind.
FindDue(s) ==
  /\ sweeps[s].at = "find"
  /\ IF ~disposed /\ due(s) THEN Go(s, "check") ELSE Continue(s, {})
  /\ UNCHANGED <<doc, evidence, restOfSweep>>

StillDue(s) ==
  /\ sweeps[s].at = "check"
  /\ IF ~disposed /\ due(s) THEN Go(s, "tokens") ELSE Continue(s, {})
  /\ UNCHANGED <<doc, evidence, restOfSweep>>

aborted == phase = "timed_out"

\* An account without devices, or whose devices want no such message, counts as reminded.
ReadTokens(s) ==
  /\ sweeps[s].at = "tokens"
  /\ IF disposed THEN Continue(s, {})
     ELSE \E at \in {"mark"} \cup IF evidence.mobile = None THEN {} ELSE {"push"} : Go(s, at)
  /\ UNCHANGED <<doc, evidence, restOfSweep>>

\* It reaches a device, or only tokens that are stale.
Push(s) ==
  /\ sweeps[s].at = "push" /\ ~aborted
  /\ \E at \in {"mark", "stale"} : Go(s, at)
  /\ UNCHANGED <<doc, evidence, restOfSweep>>

DeleteStale(s) ==
  /\ sweeps[s].at = "stale" /\ ~aborted
  /\ evidence' = [evidence EXCEPT !.mobile = None]
  /\ Go(s, "mark")
  /\ UNCHANGED <<doc, restOfSweep>>

Mark(s) ==
  /\ sweeps[s].at = "mark" /\ ~aborted
  /\ doc' = IF due(s) THEN [doc EXCEPT !.sent = @ \cup {kindOf(s)}] ELSE doc
  /\ Continue(s, IF due(s) THEN {kindOf(s)} ELSE {})
  /\ UNCHANGED <<evidence, restOfSweep>>

\* A call fails, every delivery may be tried again, or the disposal has timed out:
\* the reminder stays due.
FailReminder(s) ==
  /\ sweeps[s].at # "idle"
  /\ Continue(s, {})
  /\ UNCHANGED <<doc, evidence, restOfSweep>>

Dispose ==
  /\ ~disposed
  /\ phase' = IF MayStart(CHOOSE s \in Sweeps : TRUE) THEN "disposed" ELSE "disposing"
  /\ UNCHANGED <<clock, doc, evidence, requests, backfill, sweeps>>

DrainTimeout ==
  /\ phase = "disposing"
  /\ phase' = "timed_out"
  /\ UNCHANGED <<clock, doc, evidence, requests, backfill, sweeps>>

\* The server dies, or exits, and is started again; the backfill is another process.
Restart ==
  /\ phase' = "up"
  /\ sweeps' = [s \in Sweeps |-> NoSweep]
  /\ requests' = [r \in Callers |-> NoRequest]
  /\ UNCHANGED <<clock, doc, evidence, backfill>>

ActivationNext ==
  \/ Tick \/ StartBackfill \/ ReadEvidence \/ ApplyBackfill
  \/ Dispose \/ DrainTimeout \/ Restart
  \/ \E r \in Callers :
       \/ \E kind \in Milestones : Arrive(r, kind)
       \/ Read(r) \/ Reconcile(r) \/ Record(r) \/ FailRecord(r) \/ Use(r)
  \/ \E s \in Sweeps :
       \/ StartSweep(s) \/ FindDue(s) \/ StillDue(s) \/ ReadTokens(s)
       \/ Push(s) \/ DeleteStale(s) \/ Mark(s) \/ FailReminder(s)

ActivationSpec == ActivationInit /\ [][ActivationNext]_activationVars

-----------------------------------------------------------------------------
(* Properties. *)

\* A milestone that was recorded stays, whatever was read before it was; only a first
\* session may turn out to have been earlier (activation-state-repo.ts:176).
MilestonesStay ==
  [][/\ \A m \in {"mobile", "bridge"} : doc[m] # None => doc'[m] = doc[m]
     /\ doc.session # None => doc'.session # None /\ doc'.session <= doc.session]_activationVars

\* The two bridge reminders are never sent in one sweep, although the second becomes
\* due when the first is marked (activation-reminder-service.ts:11).
NotBackToBack == \A s \in Sweeps : ~({"bridge_1", "bridge_2"} \subseteq sweeps[s].sent)

\* A reminder that was marked is not sent again, however long a sweep takes
\* (activation-reminder-service.ts:127).
MarkedIsFinal == \A s \in Sweeps : sweeps[s].at = "push" /\ Push(s) => kindOf(s) \notin doc.sent

\* When its disposal has timed out, the service sends nothing and calls the database
\* no more: what it was doing only ends (activation-reminder-service.ts:242).
QuietAfterTimeout ==
  phase = "timed_out" => \A s \in Sweeps : sweeps'[s] \in {sweeps[s], NoSweep}

\* A sweep sends no reminder that is not due any more: because it was sent, because the
\* first of the bridge has just been sent, or because the service was disposed of
\* (activation-reminder-service.ts:127, 237).
RemindersAreDue == [][MarkedIsFinal /\ NotBackToBack' /\ QuietAfterTimeout]_activationVars
=============================================================================
