---------------------------- MODULE BridgeStatus ----------------------------
(***************************************************************************)
(* Bridge connectivity and the pushes about it: the relay's reports        *)
(* (POST /internal/bridge-status), BridgeService.recordStatusReport and    *)
(* recordConnectionObservation, the monotone update of                     *)
(* BridgeRepository.recordStatusChange, revocation, and the debounced      *)
(* pushes of BridgeStateTracker.                                           *)
(*                                                                         *)
(* A report is first applied by the database and then, when its reply has  *)
(* come back, handled by the tracker: between the two, other reports and a *)
(* revocation may pass it.  The relay's requests may arrive in any order.  *)
(*                                                                         *)
(* Abstractions.  A timer may fire at any moment after it is armed, so the *)
(* delays are left out; the generation counter is the identity of the      *)
(* pending push.  An entry the tracker has not created is the entry it     *)
(* would create.  The relay names the connection in every report.  Which   *)
(* device tokens a push goes to is left to the push service, except the    *)
(* devices it excludes.                                                    *)
(*                                                                         *)
(* An operator named Slip_X is X with one plausible mistake.               *)
(***************************************************************************)
EXTENDS FiniteSets, Integers

CONSTANTS
  Bridges,     \* bridges of one user
  Conns,       \* connections a bridge may have with the relay
  Devices,     \* the user's devices
  MaxReports,  \* bound: how many reports the relay sends
  MaxInFlight, \* bound: how many of them are under way at once
  None

ASSUME BridgeStatusAssumption ==
  /\ IsFiniteSet(Bridges)
  /\ None \notin Conns \cup Devices
  /\ MaxReports \in Nat
  /\ MaxInFlight \in Nat \ {0}

VARIABLES
  doc,        \* bridges collection: status, lastSeenAt and revokedAt
  link,       \* the relay: the connection of each bridge
  clock,      \* the relay's clock
  sent,       \* how many reports the relay has sent
  mail,       \* reports on their way to the database or back from it
  revoking,   \* revocations whose reply is on its way back
  entry,      \* BridgeStateTracker.#state
  orphans,    \* sends whose pending push has been cancelled or replaced
  disposal,   \* the tracker's dispose
  applied,    \* history: the reports that reached a live bridge
  handled,    \* history: the status the phones are to be told, from the last
              \* report that was not suppressed; a suppressed episode takes back
              \* an online push that has not begun
  newest,     \* history: the last report the database passed on, until it is handled
  current,    \* history: the last report the database passed on is also the one the
              \* tracker handled last, and it was not suppressed
  observers   \* history: who was seen to observe which connection

vars == <<doc, link, clock, sent, mail, revoking, entry, orphans, disposal,
          applied, newest, handled, current, observers>>
relay == <<link, clock, sent>>
tracker == <<entry, orphans, disposal, handled, observers>>
history == <<newest, current>>

Status == {"active", "inactive"}
Policy == {"normal", "suppress", "conservative"}

Report == [kind : {"change", "policy", "observed"}, b : Bridges, status : Status,
           policy : Policy, conn : Conns, dev : Devices \cup {None},
           at : 0 .. MaxReports, stage : {"sent", "applied"}]

ASSUME NoReportAssumption == None \notin Report

\* PendingNotification; sending says that its timer has fired.
Push == [status : Status, conn : Conns, policy : Policy,
         excluded : SUBSET Devices, sending : BOOLEAN]
NoPush == [status |-> "none"]
Early == [conn : Conns \cup {None}, devs : SUBSET Devices]
NoEarly == [conn |-> None, devs |-> {}]
Entry == [pending : Push \cup {NoPush}, early : Early, lastNotified : Status]
\* A computer counts as online until an offline push says otherwise.
NewEntry == [pending |-> NoPush, early |-> NoEarly, lastNotified |-> "active"]

TypeOK ==
  /\ doc \in [Bridges -> [status : Status, seen : 0 .. MaxReports, revoked : BOOLEAN]]
  /\ link \in [Bridges -> Conns \cup {None}]
  /\ clock \in 0 .. MaxReports
  /\ sent \in 0 .. MaxReports
  /\ mail \subseteq Report
  /\ revoking \subseteq SUBSET Bridges
  /\ entry \in [Bridges -> Entry]
  /\ orphans \in Nat
  /\ disposal \in {"no", "draining", "done", "timed out"}
  /\ applied \in [Bridges -> SUBSET [at : 0 .. MaxReports, status : Status]]
  /\ newest \in [Bridges -> Report \cup {None}]
  /\ handled \in [Bridges -> Status]
  /\ current \in [Bridges -> BOOLEAN]
  /\ observers \subseteq Bridges \X Conns \X Devices

Init ==
  /\ doc = [b \in Bridges |-> [status |-> "inactive", seen |-> 0, revoked |-> FALSE]]
  /\ link = [b \in Bridges |-> None]
  /\ clock = 0
  /\ sent = 0
  /\ mail = {}
  /\ revoking = {}
  /\ entry = [b \in Bridges |-> NewEntry]
  /\ orphans = 0
  /\ disposal = "no"
  /\ applied = [b \in Bridges |-> {}]
  /\ newest = [b \in Bridges |-> None]
  /\ handled = [b \in Bridges |-> "active"]
  /\ current = [b \in Bridges |-> FALSE]
  /\ observers = {}

-----------------------------------------------------------------------------
(* The relay. *)

\* A report leaves the relay, in the same millisecond as the last or later.
Send(kind, b, status, policy, conn, dev) ==
  /\ sent < MaxReports
  /\ Cardinality(mail) < MaxInFlight
  /\ sent' = sent + 1
  /\ clock' \in {clock, clock + 1}
  /\ mail' = mail \cup {[kind |-> kind, b |-> b, status |-> status, policy |-> policy,
                         conn |-> conn, dev |-> dev, at |-> clock', stage |-> "sent"]}
  /\ UNCHANGED <<doc, revoking, tracker, applied, history>>

BridgeConnects(b, c, policy) ==
  /\ link[b] = None
  /\ link' = [link EXCEPT ![b] = c]
  /\ Send("change", b, "active", policy, c, None)

BridgeDisconnects(b, policy) ==
  /\ link[b] # None
  /\ link' = [link EXCEPT ![b] = None]
  /\ Send("change", b, "inactive", policy, link[b], None)

\* A policy for the connection the bridge has.
PolicyChanges(b, policy) ==
  /\ link[b] # None
  /\ Send("policy", b, "active", policy, link[b], None)
  /\ UNCHANGED link

\* A device restores its end-to-end connection through the bridge's.
DeviceObserves(b, d) ==
  /\ link[b] # None
  /\ Send("observed", b, "active", "conservative", link[b], d)
  /\ UNCHANGED link

-----------------------------------------------------------------------------
(* The database. *)

\* The monotone guard; lastSeenAt is null (here 0) before the first report.
Newer(b, r) == doc[b].seen <= r.at

\* Slip: a policy only ever updates what is stored.
Slip_PassedOn(b, r) == doc[b].status # r.status /\ r.kind # "policy"

\* recordStatusReport: the tracker hears of a report that changed the status, and
\* of any policy.
PassedOn(b, r) == doc[b].status # r.status \/ r.kind = "policy"

\* recordStatusChange.  A report the database drops, or one that is not passed on,
\* is answered at once.
ApplyReport(r) ==
  LET b == r.b IN
  /\ r \in mail
  /\ r.stage = "sent"
  /\ r.kind # "observed"
  /\ \/ /\ ~doc[b].revoked
        /\ Newer(b, r)
        /\ doc' = [doc EXCEPT ![b].status = r.status, ![b].seen = r.at]
        /\ IF PassedOn(b, r)
           THEN LET reply == [r EXCEPT !.stage = "applied"] IN
                /\ mail' = (mail \ {r}) \cup {reply}
                /\ newest' = [newest EXCEPT ![b] = reply]
                /\ current' = [current EXCEPT ![b] = FALSE]
           ELSE mail' = mail \ {r} /\ UNCHANGED history
        /\ applied' = [applied EXCEPT ![b] = @ \cup {[at |-> r.at, status |-> r.status]}]
     \/ /\ ~doc[b].revoked
        /\ ~Newer(b, r)
        /\ applied' = [applied EXCEPT ![b] = @ \cup {[at |-> r.at, status |-> r.status]}]
        /\ mail' = mail \ {r}
        /\ UNCHANGED <<doc, history>>
     \/ /\ doc[b].revoked
        /\ mail' = mail \ {r}
        /\ UNCHANGED <<doc, applied, history>>
  /\ UNCHANGED <<relay, revoking, tracker>>

\* findByIdForUser for an observation.
FindObserved(r) ==
  /\ r \in mail
  /\ r.stage = "sent"
  /\ r.kind = "observed"
  /\ mail' = (mail \ {r}) \cup
       (IF doc[r.b].revoked THEN {} ELSE {[r EXCEPT !.stage = "applied"]})
  /\ UNCHANGED <<doc, relay, revoking, tracker, applied, history>>

\* revokeForUser (one bridge) and revokeAllForUser (every live one).
Revoke(B) ==
  /\ B # {}
  /\ \A b \in B : ~doc[b].revoked
  /\ doc' = [b \in Bridges |->
       IF b \in B THEN [doc[b] EXCEPT !.status = "inactive", !.revoked = TRUE] ELSE doc[b]]
  /\ revoking' = revoking \cup {B}
  /\ UNCHANGED <<relay, mail, tracker, applied, history>>

-----------------------------------------------------------------------------
(* The tracker.  The promise of a send is settled by the push service. *)

Accepting == disposal = "no"
Armed(b) == entry[b].pending # NoPush /\ ~entry[b].pending.sending
Sending(b) == entry[b].pending # NoPush /\ entry[b].pending.sending
\* #cancelPending: the timer is cleared, a send under way goes on by itself.
Abandoned(b) == IF Sending(b) THEN 1 ELSE 0

\* #schedule: who is left out of the push that report r schedules.
Excluded(b, r) ==
  LET p == entry[b].pending IN
  IF r.status = "inactive" THEN {}
  ELSE (IF p # NoPush /\ p.status = "active" /\ p.conn = r.conn THEN p.excluded ELSE {})
         \cup (IF entry[b].early.conn = r.conn THEN entry[b].early.devs ELSE {})

Schedule(b, r) ==
  /\ entry' = [entry EXCEPT
       ![b].pending = [status |-> r.status, conn |-> r.conn, policy |-> r.policy,
                       excluded |-> Excluded(b, r), sending |-> FALSE],
       ![b].early = IF r.status = "active" /\ @.conn = r.conn THEN NoEarly ELSE @]
  /\ orphans' = orphans + Abandoned(b)

Cancel(b) ==
  /\ entry' = [entry EXCEPT ![b].pending = NoPush]
  /\ orphans' = orphans + Abandoned(b)

\* The push that is pending already serves report r.
Serves(p, r) ==
  /\ p # NoPush
  /\ p.status = r.status
  /\ p.conn = r.conn
  /\ p.policy = "normal" \/ r.policy # "normal"

\* Whether nothing, or only a push for the other status, is pending for b.
Free(b, status) == entry[b].pending = NoPush \/ entry[b].pending.status # status

\* Slip: a pending push for the other status is left armed.
Slip_HandleChange(b, r) ==
  \/ entry[b].lastNotified = r.status /\ UNCHANGED <<entry, orphans>>
  \/ entry[b].lastNotified # r.status /\ Schedule(b, r)

\* handleStatusChangeForBridge with any policy but suppress: a pending push for
\* the other status is cancelled; nothing is said twice.
HandleChange(b, r) ==
  \/ Free(b, r.status) /\ entry[b].lastNotified = r.status /\ Cancel(b)
  \/ ~Free(b, r.status) /\ Serves(entry[b].pending, r) /\ UNCHANGED <<entry, orphans>>
  \/ Free(b, r.status) /\ entry[b].lastNotified # r.status /\ Schedule(b, r)
  \/ ~Free(b, r.status) /\ ~Serves(entry[b].pending, r) /\ Schedule(b, r)

\* A suppressed episode cancels an online push and leaves an offline one.
HandleSuppressed(b) ==
  IF entry[b].pending.status = "active" THEN Cancel(b) ELSE UNCHANGED <<entry, orphans>>

HandleReport(r) ==
  /\ r \in mail
  /\ r.stage = "applied"
  /\ r.kind # "observed"
  /\ mail' = mail \ {r}
  /\ newest' = [newest EXCEPT ![r.b] = IF @ = r THEN None ELSE @]
  /\ IF ~Accepting THEN UNCHANGED <<entry, orphans, handled, current>>
     ELSE IF r.policy = "suppress"
          THEN /\ HandleSuppressed(r.b)
               /\ current' = [current EXCEPT ![r.b] = FALSE]
               /\ handled' = IF entry[r.b].pending.status = "active"
                             THEN [handled EXCEPT ![r.b] = entry[r.b].lastNotified] ELSE handled
     ELSE /\ HandleChange(r.b, r)
          /\ handled' = [handled EXCEPT ![r.b] = r.status]
          /\ current' = [current EXCEPT ![r.b] = newest[r.b] = r]
  /\ UNCHANGED <<doc, relay, revoking, disposal, applied, observers>>

\* markConnectionObserved: the device is left out of the pending online push for
\* that connection, or remembered until one is scheduled.  Only the connection
\* observed last is remembered.
Observed(e, r) ==
  IF e.pending # NoPush /\ e.pending.status = "active" /\ e.pending.conn = r.conn
  THEN [e EXCEPT !.pending.excluded = @ \cup {r.dev}]
  ELSE [e EXCEPT !.early =
          [conn |-> r.conn, devs |-> (IF @.conn = r.conn THEN @.devs ELSE {}) \cup {r.dev}]]

MarkObserved(r) ==
  /\ r \in mail
  /\ r.stage = "applied"
  /\ r.kind = "observed"
  /\ mail' = mail \ {r}
  /\ IF ~Accepting THEN UNCHANGED <<entry, observers>>
     ELSE /\ entry' = [entry EXCEPT ![r.b] = Observed(@, r)]
          /\ observers' = observers \cup {<<r.b, r.conn, r.dev>>}
  /\ UNCHANGED <<doc, relay, revoking, orphans, disposal, applied, handled, history>>

\* Slip: the entries are forgotten but their timers stay armed.
Slip_CancelRevoked(B) ==
  /\ B \in revoking
  /\ revoking' = revoking \ {B}
  /\ handled' = [b \in Bridges |-> IF b \in B THEN "active" ELSE handled[b]]
  /\ current' = [b \in Bridges |-> b \notin B /\ current[b]]
  /\ UNCHANGED <<doc, relay, mail, disposal, applied, newest, observers, entry, orphans>>

\* cancelPendingForBridge, for every bridge of a revocation.
CancelRevoked(B) ==
  /\ B \in revoking
  /\ revoking' = revoking \ {B}
  /\ IF ~Accepting THEN UNCHANGED <<entry, orphans, handled, current>>
     ELSE /\ entry' = [b \in Bridges |-> IF b \in B THEN NewEntry ELSE entry[b]]
          /\ orphans' = orphans + Cardinality({b \in B : Sending(b)})
          /\ handled' = [b \in Bridges |-> IF b \in B THEN "active" ELSE handled[b]]
          /\ current' = [b \in Bridges |-> b \notin B /\ current[b]]
  /\ UNCHANGED <<doc, relay, mail, disposal, applied, newest, observers>>

\* The timer of the pending push: the status counts as notified from here on.
TimerFires(b) ==
  /\ Armed(b)
  /\ entry' = [entry EXCEPT ![b].pending.sending = TRUE,
                            ![b].lastNotified = entry[b].pending.status]
  /\ UNCHANGED <<doc, relay, mail, revoking, orphans, disposal, applied, handled,
                 observers, history>>

\* The send settles; a failure is only logged.
SendSettles(b) ==
  /\ Sending(b)
  /\ entry' = [entry EXCEPT ![b].pending = NoPush]
  /\ UNCHANGED <<doc, relay, mail, revoking, orphans, disposal, applied, handled,
                 observers, history>>

\* Slip: a settled send is counted again.
Slip_OrphanSettles ==
  /\ orphans' = orphans - 1
  /\ UNCHANGED <<doc, relay, mail, revoking, entry, disposal, applied, handled,
                 observers, history>>

OrphanSettles ==
  /\ orphans > 0
  /\ orphans' = orphans - 1
  /\ UNCHANGED <<doc, relay, mail, revoking, entry, disposal, applied, handled,
                 observers, history>>

\* Slip: timers survive dispose.
Slip_Dispose ==
  /\ disposal = "no"
  /\ disposal' = "draining"
  /\ UNCHANGED <<doc, relay, mail, revoking, entry, orphans, applied, handled,
                 observers, history>>

\* dispose: timers are cleared at once, sends under way are awaited.
Dispose ==
  /\ disposal = "no"
  /\ disposal' = "draining"
  /\ entry' = [b \in Bridges |-> NewEntry]
  /\ orphans' = orphans + Cardinality({b \in Bridges : Sending(b)})
  /\ UNCHANGED <<doc, relay, mail, revoking, applied, handled, observers, history>>

\* Every send that was under way at dispose has settled.
Drained == orphans = 0

DisposeEnds ==
  /\ disposal = "draining"
  /\ \/ Drained /\ disposal' = "done"
     \/ ~Drained /\ disposal' = "timed out"
  /\ UNCHANGED <<doc, relay, mail, revoking, entry, orphans, applied, handled,
                 observers, history>>

Next ==
  \/ \E b \in Bridges :
       \/ \E p \in Policy :
            \/ \E c \in Conns : BridgeConnects(b, c, p)
            \/ BridgeDisconnects(b, p) \/ PolicyChanges(b, p)
       \/ \E d \in Devices : DeviceObserves(b, d)
       \/ TimerFires(b) \/ SendSettles(b)
  \/ \E r \in mail :
       ApplyReport(r) \/ FindObserved(r) \/ HandleReport(r) \/ MarkObserved(r)
  \/ \E B \in SUBSET Bridges : Revoke(B) \/ CancelRevoked(B)
  \/ OrphanSettles \/ Dispose \/ DisposeEnds

Spec == Init /\ [][Next]_vars

\* Timers fire, sends settle.  The relay and the network owe nothing.
Fairness == \A b \in Bridges : WF_vars(TimerFires(b)) /\ WF_vars(SendSettles(b))
FairSpec == Spec /\ Fairness

-----------------------------------------------------------------------------
(* Properties *)

\* However the relay's reports are reordered, a live bridge's status is one that
\* was reported at its lastSeenAt, the newest report that reached it.
PersistedIsNewest ==
  \A b \in Bridges : ~doc[b].revoked /\ applied[b] # {} =>
    /\ \A r \in applied[b] : r.at <= doc[b].seen
    /\ \E r \in applied[b] : r.at = doc[b].seen /\ r.status = doc[b].status

\* Nothing pending outlives the report that was handled after it: what is pending
\* or being sent is the status of the report the tracker handled LAST, through
\* flapping, rescheduling and suppression.  Which report was applied last is
\* PendingIsNewest's matter.
PendingIsCurrent ==
  \A b \in Bridges : entry[b].pending # NoPush => entry[b].pending.status = handled[b]

\* Once the tracker has handled the newest report the database passed on, and none
\* after it, a push for a live bridge announces the status that is stored, also after
\* later reports that were not passed on.  Excepted are a newest report that is
\* suppressed, which leaves an offline push armed, and two reports handled in the
\* reverse of the order they were applied in, after which a push for a status the
\* bridge is not stored to have is armed: the tracker has no order of its own.
PendingIsNewest ==
  \A b \in Bridges : ~doc[b].revoked /\ current[b] /\ entry[b].pending # NoPush =>
    entry[b].pending.status = doc[b].status

\* A push leaves out only devices that observed the very connection it announces
\* (not all of them: of two connections observed early one is remembered), and an
\* offline push leaves out nobody.
ExcludedHaveObserved ==
  \A b \in Bridges : entry[b].pending # NoPush =>
    /\ entry[b].pending.status = "inactive" => entry[b].pending.excluded = {}
    /\ \A d \in entry[b].pending.excluded : <<b, entry[b].pending.conn, d>> \in observers

\* What is stored is of the newest report however reports are reordered; what is
\* pending is of the report handled last, and is what is stored if that report is also
\* the newest; who is left out was connected: bridge-repo.ts:205,
\* bridge-service.ts:179, bridge-state-tracker.ts:155.
AnnouncedIsTrue ==
  PersistedIsNewest /\ PendingIsCurrent /\ PendingIsNewest /\ ExcludedHaveObserved

\* After dispose no push can start, and a dispose that succeeded has seen every
\* push settle: the database may be closed.
DisposeIsFinal ==
  /\ ~Accepting => \A b \in Bridges : entry[b].pending = NoPush
  /\ disposal = "done" => orphans = 0

\* The phones are told in the end: if the last status to notify stays the same,
\* it becomes the status they were last told.
EventuallyTold ==
  \A b \in Bridges, s \in Status :
    <>[](handled[b] = s /\ Accepting) => <>[](entry[b].lastNotified = s)

\* An online push only ever answers an offline push.
OnlineAnswersOffline ==
  [][\A b \in Bridges :
       entry'[b].pending # NoPush /\ Armed(b) /\ Sending(b)'
         /\ entry[b].pending.status = "active"
       => entry[b].lastNotified = "inactive"]_vars
=============================================================================
