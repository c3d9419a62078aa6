------------------------- MODULE BridgeStatusProofs -------------------------
(***************************************************************************)
(* Proofs about BridgeStatus for any number of bridges, connections,       *)
(* devices and reports.                                                    *)
(*                                                                         *)
(* The inductive invariant has four parts: what the relay sends, what the  *)
(* database stores, the tracker, and how what the tracker heard last       *)
(* relates to what is stored.                                              *)
(***************************************************************************)
EXTENDS BridgeStatus, FiniteSetTheorems, TLAPS

RelayInv ==
  /\ link \in [Bridges -> Conns \cup {None}]
  /\ clock \in 0 .. MaxReports
  /\ sent \in 0 .. MaxReports
  /\ mail \subseteq Report
  \* The clock runs with the reports.
  /\ clock <= sent
  \* An observation names its device.
  /\ \A r \in mail : r.kind = "observed" => r.dev \in Devices

DocType ==
  /\ doc \in [Bridges -> [status : Status, seen : 0 .. MaxReports, revoked : BOOLEAN]]
  /\ revoking \subseteq SUBSET Bridges
  /\ applied \in [Bridges -> SUBSET [at : 0 .. MaxReports, status : Status]]

\* Before its first report a bridge has never been seen, so none is stale.
UnreportedIsUnseen ==
  \A b \in Bridges : ~doc[b].revoked /\ applied[b] = {} => doc[b].seen = 0

DocInv == DocType /\ UnreportedIsUnseen /\ PersistedIsNewest

TrackerType ==
  /\ entry \in [Bridges -> Entry]
  /\ orphans \in Nat
  /\ disposal \in {"no", "draining", "done", "timed out"}
  /\ handled \in [Bridges -> Status]
  /\ observers \subseteq Bridges \X Conns \X Devices

\* What is remembered for a later push was observed on that connection.
EarlyWasObserved ==
  \A b \in Bridges : \A d \in entry[b].early.devs : <<b, entry[b].early.conn, d>> \in observers

TrackerInv ==
  /\ TrackerType
  /\ PendingIsCurrent
  /\ EarlyWasObserved
  /\ ExcludedHaveObserved
  /\ DisposeIsFinal

HistoryType ==
  /\ newest \in [Bridges -> Report \cup {None}]
  /\ current \in [Bridges -> BOOLEAN]

\* No report is passed on after the newest one, so nothing has changed the status since.
NewestIsStored ==
  \A b \in Bridges : ~doc[b].revoked /\ newest[b] # None => newest[b].status = doc[b].status

\* What the tracker heard last and newest is what is stored.
CurrentIsStored ==
  \A b \in Bridges : ~doc[b].revoked /\ current[b] => handled[b] = doc[b].status

HistoryInv == HistoryType /\ NewestIsStored /\ CurrentIsStored

IInv == RelayInv /\ DocInv /\ TrackerInv /\ HistoryInv

-----------------------------------------------------------------------------
USE BridgeStatusAssumption, NoReportAssumption

(* The relay. *)

\* A report that leaves the relay is well formed and no later than the clock.
LEMMA SendKeeps ==
  ASSUME RelayInv,
         NEW kind \in {"change", "policy", "observed"}, NEW b \in Bridges,
         NEW status \in Status, NEW policy \in Policy, NEW conn \in Conns,
         NEW dev \in Devices \cup {None}, kind = "observed" => dev \in Devices,
         Send(kind, b, status, policy, conn, dev),
         link' \in [Bridges -> Conns \cup {None}]
  PROVE  RelayInv' /\ UNCHANGED <<doc, revoking, applied, tracker, history>>
<1>1. /\ sent' \in 0 .. MaxReports /\ clock' \in 0 .. MaxReports /\ clock' <= sent'
  BY DEF RelayInv, Send
<1>2. mail' \subseteq Report
  BY <1>1 DEF RelayInv, Send, Report
<1> QED BY <1>1, <1>2 DEF RelayInv, Send

\* What is left of the mail after a report has been taken from it is well formed,
\* and so is the report's second stage.
LEMMA MailKeeps ==
  ASSUME RelayInv, NEW r \in mail, UNCHANGED relay,
         mail' \subseteq (mail \ {r}) \cup {[r EXCEPT !.stage = "applied"]}
  PROVE  RelayInv'
<1>1. r \in Report
  BY DEF RelayInv
<1>2. [r EXCEPT !.stage = "applied"] \in Report
  BY <1>1 DEF Report
<1>3. \A q \in mail' : q.kind = "observed" => q.dev \in Devices
  BY <1>1 DEF RelayInv, Report
<1> QED BY <1>2, <1>3 DEF RelayInv, relay

-----------------------------------------------------------------------------
(* The database. *)

\* Applying a report keeps the newest one in the document.
LEMMA ApplyKeeps ==
  ASSUME RelayInv, DocInv, NEW r \in mail, ApplyReport(r)
  PROVE  DocInv'
<1> DEFINE b == r.b
           rec == [at |-> r.at, status |-> r.status]
<1>1. b \in Bridges /\ r.at \in 0 .. MaxReports /\ r.status \in Status
  BY DEF RelayInv, Report
<1>2. CASE ~doc[b].revoked /\ Newer(b, r)
  <2>1. doc' = [doc EXCEPT ![b].status = r.status, ![b].seen = r.at]
    BY <1>2, <1>1 DEF ApplyReport, Newer, DocInv, DocType
  <2>2. applied' = [applied EXCEPT ![b] = @ \cup {rec}]
    BY <1>2 DEF ApplyReport
  <2>3. DocType'
    BY <1>1, <2>1, <2>2 DEF DocInv, DocType, ApplyReport
  <2>4. UnreportedIsUnseen'
    BY <1>1, <2>1, <2>2 DEF DocInv, DocType, UnreportedIsUnseen
  <2>5. PersistedIsNewest'
    <3> SUFFICES ASSUME NEW c \in Bridges, (~doc[c].revoked)', (applied[c] # {})'
                 PROVE  /\ \A q \in applied'[c] : q.at <= doc'[c].seen
                        /\ \E q \in applied'[c] : q.at = doc'[c].seen /\ q.status = doc'[c].status
      BY DEF PersistedIsNewest
    <3>1. CASE c # b
      BY <3>1, <1>1, <2>1, <2>2 DEF DocInv, DocType, PersistedIsNewest
    <3>2. CASE c = b
      <4>1. doc'[c].seen = r.at /\ doc'[c].status = r.status /\ applied'[c] = applied[c] \cup {rec}
        BY <3>2, <1>1, <2>1, <2>2 DEF DocInv, DocType
      <4>2. \A q \in applied[c] : q.at <= doc[c].seen
        BY <3>2, <1>2 DEF DocInv, PersistedIsNewest
      <4>3. \A q \in applied[c] : q.at \in 0 .. MaxReports
        BY DEF DocInv, DocType
      <4>4. doc[c].seen \in 0 .. MaxReports /\ doc[c].seen <= r.at
        BY <1>2, <3>2 DEF DocInv, DocType, Newer
      <4>5. \A q \in applied'[c] : q.at <= doc'[c].seen
        BY <4>1, <4>2, <4>3, <4>4, <1>1
      <4>6. rec \in applied'[c] /\ rec.at = doc'[c].seen /\ rec.status = doc'[c].status
        BY <4>1
      <4> QED BY <4>5, <4>6
    <3> QED BY <3>1, <3>2
  <2> QED BY <2>3, <2>4, <2>5 DEF DocInv
<1>3. CASE ~doc[b].revoked /\ ~Newer(b, r)
  <2>1. UNCHANGED doc /\ applied' = [applied EXCEPT ![b] = @ \cup {rec}]
    BY <1>3 DEF ApplyReport
  <2>2. DocType' /\ UnreportedIsUnseen'
    BY <1>1, <2>1 DEF DocInv, DocType, UnreportedIsUnseen, ApplyReport
  <2>3. doc[b].seen \in 0 .. MaxReports /\ r.at < doc[b].seen
    BY <1>1, <1>3 DEF DocInv, DocType, Newer
  <2>4. applied[b] # {}
    BY <1>1, <1>3, <2>3 DEF DocInv, UnreportedIsUnseen
  <2>5. PersistedIsNewest'
    BY <1>1, <1>3, <2>1, <2>3, <2>4 DEF DocInv, DocType, PersistedIsNewest
  <2> QED BY <2>2, <2>5 DEF DocInv
<1>4. CASE doc[b].revoked
  BY <1>4 DEF ApplyReport, DocInv, DocType, UnreportedIsUnseen, PersistedIsNewest
<1> QED BY <1>1, <1>2, <1>3, <1>4 DEF DocInv, DocType

\* A revocation leaves what is said of the live bridges as it was.
LEMMA RevokeKeeps ==
  ASSUME DocInv, NEW B \in SUBSET Bridges, Revoke(B)
  PROVE  DocInv'
<1>1. revoking' \subseteq SUBSET Bridges /\ UNCHANGED applied
  BY DEF DocInv, DocType, Revoke
<1>2. \A b \in Bridges : /\ doc'[b] \in [status : Status, seen : 0 .. MaxReports, revoked : BOOLEAN]
                         /\ ~doc'[b].revoked => doc'[b] = doc[b]
  <2> SUFFICES ASSUME NEW b \in Bridges
               PROVE  /\ doc'[b] \in [status : Status, seen : 0 .. MaxReports, revoked : BOOLEAN]
                      /\ ~doc'[b].revoked => doc'[b] = doc[b]
    OBVIOUS
  <2>1. doc[b] \in [status : Status, seen : 0 .. MaxReports, revoked : BOOLEAN]
    BY DEF DocInv, DocType
  <2>2. CASE b \in B
    <3>1. doc'[b] = [doc[b] EXCEPT !.status = "inactive", !.revoked = TRUE]
      BY <2>2 DEF Revoke
    <3> QED BY <2>1, <3>1 DEF Status
  <2>3. CASE b \notin B
    BY <2>1, <2>3 DEF Revoke
  <2> QED BY <2>2, <2>3
<1>3. doc' \in [Bridges -> [status : Status, seen : 0 .. MaxReports, revoked : BOOLEAN]]
  <2>1. doc' = [b \in Bridges |-> doc'[b]]
    BY DEF Revoke
  <2> QED BY <1>2, <2>1
<1> QED BY <1>1, <1>2, <1>3 DEF DocInv, DocType, UnreportedIsUnseen, PersistedIsNewest

-----------------------------------------------------------------------------
(* The tracker. *)

\* What the tracker's invariant says of the entry e of bridge b, the status s
\* being the last one to notify and obs what was observed.
EntryInv(b, e, s, obs) ==
  /\ e \in Entry
  /\ e.pending # NoPush =>
       /\ e.pending.status = s
       /\ e.pending.status = "inactive" => e.pending.excluded = {}
       /\ \A d \in e.pending.excluded : <<b, e.pending.conn, d>> \in obs
  /\ \A d \in e.early.devs : <<b, e.early.conn, d>> \in obs

\* A push has a status, a connection and devices; no push has none of them.
LEMMA PushStatus ==
  /\ NoPush \notin Push
  /\ \A p \in Push : p # NoPush /\ p.status \in Status /\ p.conn \in Conns /\ p.excluded \subseteq Devices
  /\ NoPush.status = "none"
<1>1. \A p \in Push : p.status \in Status /\ p.conn \in Conns /\ p.excluded \subseteq Devices
  BY DEF Push
<1>2. NoPush.status \notin Status /\ NoPush.status = "none"
  BY DEF NoPush, Status
<1> QED BY <1>1, <1>2

\* A new entry has nothing to account for.
LEMMA NewEntryKeeps ==
  ASSUME NEW b \in Bridges, NEW s, NEW obs
  PROVE  EntryInv(b, NewEntry, s, obs)
BY DEF EntryInv, NewEntry, Entry, Early, NoEarly, Status, NoPush

\* The tracker's invariant, bridge by bridge.
LEMMA TrackerByEntry ==
  TrackerInv <=>
    /\ TrackerType
    /\ \A b \in Bridges : EntryInv(b, entry[b], handled[b], observers)
    /\ DisposeIsFinal
BY DEF TrackerInv, TrackerType, EntryInv, PendingIsCurrent, EarlyWasObserved, ExcludedHaveObserved

\* A step that replaces the entry of one bridge keeps the invariant if the new
\* entry does.
LEMMA OneEntry ==
  ASSUME TrackerInv, NEW b \in Bridges, NEW e,
         entry' = [entry EXCEPT ![b] = e],
         EntryInv(b, e, handled'[b], observers'),
         \A c \in Bridges \ {b} : handled'[c] = handled[c],
         handled' \in [Bridges -> Status],
         observers \subseteq observers',
         observers' \subseteq Bridges \X Conns \X Devices,
         orphans' \in Nat,
         UNCHANGED disposal,
         Accepting \/ (e.pending = NoPush /\ UNCHANGED orphans)
  PROVE  TrackerInv'
<1>1. TrackerType /\ DisposeIsFinal /\ \A c \in Bridges : EntryInv(c, entry[c], handled[c], observers)
  BY TrackerByEntry
<1>2. e \in Entry
  BY DEF EntryInv
<1>3. TrackerType'
  BY <1>1, <1>2 DEF TrackerType
<1>4. \A c \in Bridges : entry'[c] = IF c = b THEN e ELSE entry[c]
  BY <1>1 DEF TrackerType
<1>5. \A c \in Bridges : EntryInv(c, entry'[c], handled'[c], observers')
  <2> TAKE c \in Bridges
  <2>1. CASE c = b
    BY <1>4, <2>1
  <2>2. CASE c # b
    <3>1. EntryInv(c, entry[c], handled[c], observers) /\ entry'[c] = entry[c] /\ handled'[c] = handled[c]
      BY <1>1, <1>4, <2>2
    <3> QED BY <3>1 DEF EntryInv
  <2> QED BY <2>1, <2>2
<1>6. DisposeIsFinal'
  BY <1>1, <1>4 DEF DisposeIsFinal, Accepting
<1> QED BY <1>3, <1>5, <1>6 DEF TrackerInv, TrackerType, EntryInv, PendingIsCurrent,
                               EarlyWasObserved, ExcludedHaveObserved

\* A cancelled or replaced push that was being sent counts as one more orphan.
LEMMA AbandonedIsOne ==
  ASSUME TrackerInv, NEW b \in Bridges
  PROVE  orphans + Abandoned(b) \in Nat
<1>1. orphans \in Nat
  BY DEF TrackerInv, TrackerType
<1>2. Abandoned(b) \in {0, 1}
  BY DEF Abandoned
<1> QED BY <1>1, <1>2

\* A push scheduled for report r announces r's status and leaves out nobody who
\* did not observe r's connection.
LEMMA ScheduleKeeps ==
  ASSUME TrackerInv, Accepting, NEW b \in Bridges, NEW r \in Report, Schedule(b, r),
         handled' = [handled EXCEPT ![b] = r.status],
         UNCHANGED <<disposal, observers>>
  PROVE  TrackerInv'
<1> DEFINE push == [status |-> r.status, conn |-> r.conn, policy |-> r.policy,
                    excluded |-> Excluded(b, r), sending |-> FALSE]
           early == IF r.status = "active" /\ entry[b].early.conn = r.conn
                    THEN NoEarly ELSE entry[b].early
           e == [entry[b] EXCEPT !.pending = push, !.early = early]
<1>1. entry[b] \in Entry /\ EntryInv(b, entry[b], handled[b], observers)
  BY TrackerByEntry DEF TrackerType
<1>2. r.status \in Status /\ r.conn \in Conns /\ r.policy \in Policy
  BY DEF Report
<1>3. entry' = [entry EXCEPT ![b] = e]
  BY DEF Schedule
<1>4. /\ Excluded(b, r) \subseteq Devices
      /\ r.status = "inactive" => Excluded(b, r) = {}
      /\ \A d \in Excluded(b, r) : <<b, r.conn, d>> \in observers
  <2>1. entry[b].pending = NoPush \/ entry[b].pending \in Push
    BY <1>1 DEF Entry
  <2>2. entry[b].early.devs \subseteq Devices
    BY <1>1 DEF Entry, Early
  <2>3. entry[b].pending # NoPush =>
          /\ entry[b].pending.excluded \subseteq Devices
          /\ \A d \in entry[b].pending.excluded : <<b, entry[b].pending.conn, d>> \in observers
    BY <1>1, <2>1, PushStatus DEF EntryInv
  <2>4. \A d \in entry[b].early.devs : <<b, entry[b].early.conn, d>> \in observers
    BY <1>1 DEF EntryInv
  <2> QED BY <2>2, <2>3, <2>4 DEF Excluded
<1>5. push \in Push /\ early \in Early
  BY <1>1, <1>2, <1>4 DEF Push, Entry, Early, NoEarly
<1>6. EntryInv(b, e, r.status, observers)
  <2>1. e \in Entry /\ e.pending = push /\ e.early = early
    <3> HIDE DEF push, early
    <3> QED BY <1>1, <1>5 DEF Entry
  <2>2. \A d \in early.devs : <<b, early.conn, d>> \in observers
    BY <1>1 DEF EntryInv, NoEarly
  <2> QED BY <1>4, <2>1, <2>2 DEF EntryInv
<1>7. handled \in [Bridges -> Status] /\ observers \subseteq Bridges \X Conns \X Devices
  BY DEF TrackerInv, TrackerType
<1>8. orphans' \in Nat
  BY AbandonedIsOne DEF Schedule
<1>9. handled'[b] = r.status /\ handled' \in [Bridges -> Status]
      /\ \A c \in Bridges \ {b} : handled'[c] = handled[c]
  BY <1>2, <1>7
<1> HIDE DEF e
<1> QED BY <1>3, <1>6, <1>7, <1>8, <1>9, OneEntry

\* A cancelled push leaves nothing to account for, whatever is to be notified.
LEMMA CancelKeeps ==
  ASSUME TrackerInv, Accepting, NEW b \in Bridges, NEW s \in Status, Cancel(b),
         handled' = [handled EXCEPT ![b] = s],
         UNCHANGED <<disposal, observers>>
  PROVE  TrackerInv'
<1> DEFINE e == [entry[b] EXCEPT !.pending = NoPush]
<1>1. entry[b] \in Entry /\ EntryInv(b, entry[b], handled[b], observers)
  BY TrackerByEntry DEF TrackerType
<1>2. entry' = [entry EXCEPT ![b] = e]
  BY DEF Cancel
<1>3. e \in Entry /\ e.pending = NoPush /\ e.early = entry[b].early
  BY <1>1 DEF Entry
<1>4. EntryInv(b, e, s, observers)
  BY <1>1, <1>3 DEF EntryInv
<1>5. orphans' \in Nat
  BY AbandonedIsOne DEF Cancel
<1>6. /\ handled'[b] = s /\ handled' \in [Bridges -> Status]
      /\ \A c \in Bridges \ {b} : handled'[c] = handled[c]
      /\ observers \subseteq Bridges \X Conns \X Devices
  BY DEF TrackerInv, TrackerType
<1> HIDE DEF e
<1> QED BY <1>2, <1>4, <1>5, <1>6, OneEntry

\* handleStatusChangeForBridge: whichever way it goes, what stays pending is the
\* report's status.
LEMMA ReportKeeps ==
  ASSUME RelayInv, TrackerInv, NEW r \in mail, HandleReport(r)
  PROVE  TrackerInv'
<1> DEFINE b == r.b
<1>1. r \in Report /\ b \in Bridges /\ r.status \in Status
  BY DEF RelayInv, Report
<1>2. UNCHANGED <<disposal, observers>>
  BY DEF HandleReport
<1>3. entry[b] \in Entry /\ entry[b].lastNotified \in Status /\ handled \in [Bridges -> Status]
  BY <1>1 DEF TrackerInv, TrackerType, Entry
<1>4. CASE ~Accepting
  BY <1>2, <1>4 DEF HandleReport, TrackerInv, TrackerType, PendingIsCurrent, EarlyWasObserved,
                    ExcludedHaveObserved, DisposeIsFinal, Accepting
<1>5. CASE Accepting /\ r.policy = "suppress" /\ entry[b].pending.status = "active"
  <2>1. Cancel(b) /\ handled' = [handled EXCEPT ![b] = entry[b].lastNotified]
    BY <1>5 DEF HandleReport, HandleSuppressed
  <2> QED BY <1>1, <1>2, <1>3, <1>5, <2>1, CancelKeeps
<1>6. CASE Accepting /\ r.policy = "suppress" /\ entry[b].pending.status # "active"
  <2>1. UNCHANGED <<entry, orphans, handled>>
    BY <1>6 DEF HandleReport, HandleSuppressed
  <2> QED BY <1>2, <2>1 DEF TrackerInv, TrackerType, PendingIsCurrent, EarlyWasObserved,
                            ExcludedHaveObserved, DisposeIsFinal, Accepting
<1>7. CASE Accepting /\ r.policy # "suppress"
  <2>1. HandleChange(b, r) /\ handled' = [handled EXCEPT ![b] = r.status]
    BY <1>7 DEF HandleReport
  <2>2. CASE Cancel(b)
    BY <1>1, <1>2, <1>7, <2>1, <2>2, CancelKeeps
  <2>3. CASE Schedule(b, r)
    BY <1>1, <1>2, <1>7, <2>1, <2>3, ScheduleKeeps
  <2>4. CASE Serves(entry[b].pending, r) /\ UNCHANGED <<entry, orphans>>
    <3>1. handled[b] = r.status
      BY <1>1, <2>4 DEF Serves, TrackerInv, PendingIsCurrent
    <3>2. UNCHANGED handled
      BY <1>3, <2>1, <3>1
    <3> QED BY <1>2, <2>4, <3>2 DEF TrackerInv, TrackerType, PendingIsCurrent, EarlyWasObserved,
                                    ExcludedHaveObserved, DisposeIsFinal, Accepting
  <2> QED BY <2>1, <2>2, <2>3, <2>4 DEF HandleChange
<1> QED BY <1>4, <1>5, <1>6, <1>7

\* markConnectionObserved: the device did observe what it is left out of.
LEMMA ObservationKeeps ==
  ASSUME RelayInv, TrackerInv, NEW r \in mail, MarkObserved(r)
  PROVE  TrackerInv'
<1> DEFINE b == r.b
           old == entry[b]
           new == Observed(old, r)
<1>1. b \in Bridges /\ r.conn \in Conns /\ r.dev \in Devices
  BY DEF RelayInv, Report, MarkObserved
<1>2. UNCHANGED <<orphans, disposal, handled>>
  BY DEF MarkObserved
<1>3. old \in Entry /\ EntryInv(b, old, handled[b], observers)
  BY <1>1, TrackerByEntry DEF TrackerType
<1>4. /\ handled \in [Bridges -> Status]
      /\ orphans \in Nat
      /\ observers \subseteq Bridges \X Conns \X Devices
  BY DEF TrackerInv, TrackerType
<1>5. CASE ~Accepting
  BY <1>2, <1>5 DEF MarkObserved, TrackerInv, TrackerType, PendingIsCurrent, EarlyWasObserved,
                    ExcludedHaveObserved, DisposeIsFinal, Accepting
<1>6. CASE Accepting
  <2>1. observers' = observers \cup {<<b, r.conn, r.dev>>} /\ entry' = [entry EXCEPT ![b] = new]
    BY <1>6 DEF MarkObserved
  <2>2. observers \subseteq observers' /\ observers' \subseteq Bridges \X Conns \X Devices
    BY <1>1, <1>4, <2>1
  <2>3. EntryInv(b, new, handled[b], observers')
    <3> HIDE DEF old
    <3>1. CASE old.pending # NoPush /\ old.pending.status = "active" /\ old.pending.conn = r.conn
      <4>1. new = [old EXCEPT !.pending.excluded = old.pending.excluded \cup {r.dev}]
        BY <3>1 DEF Observed
      <4> HIDE DEF new
      <4>2. old.pending \in Push
        BY <1>3, <3>1 DEF Entry
      <4>3. /\ new \in Entry
            /\ new.early = old.early
            /\ new.pending = [old.pending EXCEPT !.excluded = old.pending.excluded \cup {r.dev}]
        BY <1>1, <1>3, <4>1, <4>2 DEF Entry, Push
      <4>4. /\ new.pending.status = old.pending.status
            /\ new.pending.conn = old.pending.conn
            /\ new.pending.excluded = old.pending.excluded \cup {r.dev}
        BY <4>2, <4>3 DEF Push
      <4>5. \A d \in new.pending.excluded : <<b, new.pending.conn, d>> \in observers'
        BY <1>3, <2>1, <3>1, <4>4 DEF EntryInv
      <4> QED BY <1>3, <2>2, <3>1, <4>3, <4>4, <4>5 DEF EntryInv
    <3>2. CASE ~(old.pending # NoPush /\ old.pending.status = "active" /\ old.pending.conn = r.conn)
      <4> DEFINE devs == (IF old.early.conn = r.conn THEN old.early.devs ELSE {}) \cup {r.dev}
      <4>1. new = [old EXCEPT !.early = [conn |-> r.conn, devs |-> devs]]
        BY <3>2 DEF Observed
      <4> HIDE DEF new
      <4>2. devs \subseteq Devices
        BY <1>1, <1>3 DEF Entry, Early
      <4>3. \A d \in devs : <<b, r.conn, d>> \in observers'
        BY <1>3, <2>1 DEF EntryInv
      <4> HIDE DEF devs
      <4>4. /\ new \in Entry
            /\ new.pending = old.pending
            /\ new.early.conn = r.conn
            /\ new.early.devs = devs
        BY <1>1, <1>3, <4>1, <4>2 DEF Entry, Early
      <4> QED BY <1>3, <2>2, <4>3, <4>4 DEF EntryInv
    <3> QED BY <3>1, <3>2
  <2> HIDE DEF new
  <2> QED BY <1>1, <1>2, <1>4, <1>6, <2>1, <2>2, <2>3, OneEntry
<1> QED BY <1>5, <1>6

\* The pushes under way among some bridges are finitely many.
LEMMA SendingIsFinite ==
  ASSUME NEW B \in SUBSET Bridges
  PROVE  Cardinality({b \in B : Sending(b)}) \in Nat
BY FS_Subset, FS_CardinalityType

\* cancelPendingForBridge: the bridges of a revocation start anew.
LEMMA CancelRevokedKeeps ==
  ASSUME TrackerInv, NEW B \in SUBSET Bridges, CancelRevoked(B)
  PROVE  TrackerInv'
<1>1. UNCHANGED <<disposal, observers>>
  BY DEF CancelRevoked
<1>2. CASE ~Accepting
  BY <1>1, <1>2 DEF CancelRevoked, TrackerInv, TrackerType, PendingIsCurrent, EarlyWasObserved,
                    ExcludedHaveObserved, DisposeIsFinal, Accepting
<1>3. CASE Accepting
  <2>1. /\ entry' = [b \in Bridges |-> IF b \in B THEN NewEntry ELSE entry[b]]
        /\ orphans' = orphans + Cardinality({b \in B : Sending(b)})
        /\ handled' = [b \in Bridges |-> IF b \in B THEN "active" ELSE handled[b]]
    BY <1>3 DEF CancelRevoked
  <2>2. TrackerType /\ \A b \in Bridges : EntryInv(b, entry[b], handled[b], observers)
    BY TrackerByEntry
  <2>3. \A b \in Bridges : EntryInv(b, entry'[b], handled'[b], observers')
    <3> TAKE b \in Bridges
    <3>1. CASE b \in B
      BY <2>1, <3>1, NewEntryKeeps
    <3>2. CASE b \notin B
      BY <1>1, <2>1, <2>2, <3>2
    <3> QED BY <3>1, <3>2
  <2>4. TrackerType'
    <3>1. \A b \in Bridges : entry'[b] \in Entry
      BY <2>3 DEF EntryInv
    <3>2. entry' \in [Bridges -> Entry]
      BY <2>1, <3>1
    <3>3. orphans' \in Nat
      <4>1. orphans \in Nat /\ Cardinality({b \in B : Sending(b)}) \in Nat
        BY <2>2, SendingIsFinite DEF TrackerType
      <4> QED BY <2>1, <4>1
    <3> QED BY <1>1, <2>1, <2>2, <3>2, <3>3 DEF TrackerType, Status
  <2>5. DisposeIsFinal'
    BY <1>1, <1>3 DEF DisposeIsFinal, Accepting
  <2> QED BY <2>3, <2>4, <2>5 DEF TrackerInv, TrackerType, EntryInv, PendingIsCurrent,
                                  EarlyWasObserved, ExcludedHaveObserved
<1> QED BY <1>2, <1>3

\* dispose: every entry starts anew, and what was being sent is counted.
LEMMA DisposeKeeps ==
  ASSUME TrackerInv, Dispose
  PROVE  TrackerInv'
<1>1. /\ disposal' = "draining"
      /\ entry' = [b \in Bridges |-> NewEntry]
      /\ orphans' = orphans + Cardinality({b \in Bridges : Sending(b)})
      /\ UNCHANGED <<handled, observers>>
  BY DEF Dispose
<1>2. \A b \in Bridges : EntryInv(b, entry'[b], handled'[b], observers') /\ entry'[b].pending = NoPush
  BY <1>1, NewEntryKeeps DEF NewEntry
<1>3. TrackerType'
  <2>1. entry' \in [Bridges -> Entry]
    BY <1>1, <1>2 DEF EntryInv
  <2>2. orphans' \in Nat
    <3>1. orphans \in Nat /\ Cardinality({b \in Bridges : Sending(b)}) \in Nat
      BY SendingIsFinite DEF TrackerInv, TrackerType
    <3> QED BY <1>1, <3>1
  <2> QED BY <1>1, <2>1, <2>2 DEF TrackerInv, TrackerType
<1>4. DisposeIsFinal'
  BY <1>1, <1>2 DEF DisposeIsFinal
<1> QED BY <1>2, <1>3, <1>4 DEF TrackerInv, TrackerType, EntryInv, PendingIsCurrent,
                                EarlyWasObserved, ExcludedHaveObserved

\* The timer announces what was pending, to whom it was pending for.
LEMMA TimerKeeps ==
  ASSUME TrackerInv, NEW b \in Bridges, TimerFires(b)
  PROVE  TrackerInv'
<1> DEFINE p == entry[b].pending
           e == [entry[b] EXCEPT !.pending.sending = TRUE, !.lastNotified = p.status]
<1>1. entry[b] \in Entry /\ EntryInv(b, entry[b], handled[b], observers)
  BY TrackerByEntry DEF TrackerType
<1>2. p # NoPush /\ p \in Push /\ p.status \in Status
  BY <1>1, PushStatus DEF TimerFires, Armed, Entry
<1>3. entry' = [entry EXCEPT ![b] = e]
  BY DEF TimerFires
<1>4. /\ e.pending = [p EXCEPT !.sending = TRUE]
      /\ e.early = entry[b].early
      /\ e \in Entry
  BY <1>1, <1>2 DEF Entry, Push
<1>5. e.pending.status = p.status /\ e.pending.conn = p.conn /\ e.pending.excluded = p.excluded
  BY <1>2, <1>4 DEF Push
<1>6. EntryInv(b, e, handled[b], observers)
  BY <1>1, <1>2, <1>4, <1>5 DEF EntryInv
<1>7. Accepting
  BY <1>2 DEF TrackerInv, DisposeIsFinal
<1>8. /\ UNCHANGED <<orphans, disposal, handled, observers>>
      /\ handled \in [Bridges -> Status]
      /\ orphans \in Nat
      /\ observers \subseteq Bridges \X Conns \X Devices
  BY DEF TimerFires, TrackerInv, TrackerType
<1> HIDE DEF e
<1> QED BY <1>3, <1>6, <1>7, <1>8, OneEntry

\* A settled send leaves nothing pending.
LEMMA SettleKeeps ==
  ASSUME TrackerInv, NEW b \in Bridges, SendSettles(b)
  PROVE  TrackerInv'
<1> DEFINE e == [entry[b] EXCEPT !.pending = NoPush]
<1>1. entry[b] \in Entry /\ EntryInv(b, entry[b], handled[b], observers)
  BY TrackerByEntry DEF TrackerType
<1>2. entry' = [entry EXCEPT ![b] = e]
  BY DEF SendSettles
<1>3. e \in Entry /\ e.pending = NoPush /\ e.early = entry[b].early
  BY <1>1 DEF Entry
<1>4. EntryInv(b, e, handled[b], observers)
  BY <1>1, <1>3 DEF EntryInv
<1>5. /\ UNCHANGED <<orphans, disposal, handled, observers>>
      /\ handled \in [Bridges -> Status]
      /\ orphans \in Nat
      /\ observers \subseteq Bridges \X Conns \X Devices
  BY DEF SendSettles, TrackerInv, TrackerType
<1>6. \/ Accepting
      \/ e.pending = NoPush /\ UNCHANGED orphans
  BY <1>3, <1>5
<1> HIDE DEF e
<1> QED BY <1>2, <1>4, <1>5, <1>6, OneEntry

\* Orphans settle one by one, and dispose succeeds when there is none.
LEMMA DrainKeeps ==
  ASSUME TrackerInv, OrphanSettles \/ DisposeEnds
  PROVE  TrackerInv'
<1>1. UNCHANGED <<entry, handled, observers>>
  BY DEF OrphanSettles, DisposeEnds
<1>2. CASE OrphanSettles
  <2>1. orphans \in Nat /\ orphans > 0 /\ orphans' = orphans - 1 /\ UNCHANGED disposal
    BY <1>2 DEF OrphanSettles, TrackerInv, TrackerType
  <2>2. TrackerType'
    <3>1. orphans' \in Nat
      BY <2>1
    <3> QED BY <1>1, <2>1, <3>1 DEF TrackerInv, TrackerType
  <2>3. DisposeIsFinal'
    BY <1>1, <2>1 DEF TrackerInv, DisposeIsFinal, Accepting
  <2> QED BY <1>1, <2>2, <2>3 DEF TrackerInv, PendingIsCurrent, EarlyWasObserved, ExcludedHaveObserved
<1>3. CASE DisposeEnds
  <2>1. disposal = "draining" /\ disposal' \in {"done", "timed out"} /\ UNCHANGED orphans
    BY <1>3 DEF DisposeEnds
  <2>2. disposal' = "done" => orphans = 0
    BY <1>3 DEF DisposeEnds, Drained
  <2> QED BY <1>1, <2>1, <2>2 DEF TrackerInv, TrackerType, PendingIsCurrent, EarlyWasObserved,
                                  ExcludedHaveObserved, DisposeIsFinal, Accepting
<1> QED BY <1>2, <1>3

-----------------------------------------------------------------------------
(* What the tracker heard, and what is stored. *)

\* A report that is passed on becomes the newest, with the status it stored; one that
\* is not has changed no status.
LEMMA ApplyKeepsHistory ==
  ASSUME RelayInv, DocInv, TrackerInv, HistoryInv, NEW r \in mail, ApplyReport(r)
  PROVE  HistoryInv'
<1> DEFINE b == r.b
           reply == [r EXCEPT !.stage = "applied"]
<1>1. b \in Bridges /\ r.status \in Status /\ reply \in Report /\ reply.status = r.status
  BY DEF RelayInv, Report
<1>2. UNCHANGED handled
  BY DEF ApplyReport, tracker
<1>3. CASE UNCHANGED doc /\ UNCHANGED history
  BY <1>2, <1>3 DEF history, HistoryInv, HistoryType, NewestIsStored, CurrentIsStored
<1>4. CASE doc' = [doc EXCEPT ![b].status = r.status, ![b].seen = r.at]
  <2>1. \A c \in Bridges : /\ doc'[c].revoked = doc[c].revoked
                           /\ doc'[c].status = IF c = b THEN r.status ELSE doc[c].status
    BY <1>1, <1>4 DEF DocInv, DocType
  <2>2. CASE PassedOn(b, r)
    <3>1. \/ /\ newest' = [newest EXCEPT ![b] = reply]
             /\ current' = [current EXCEPT ![b] = FALSE]
          \/ UNCHANGED doc /\ UNCHANGED history
      BY <2>2 DEF ApplyReport
    <3> HIDE DEF reply
    <3> QED BY <1>1, <1>2, <1>3, <2>1, <3>1 DEF HistoryInv, HistoryType, NewestIsStored,
                                                CurrentIsStored
  <2>3. CASE ~PassedOn(b, r)
    <3>1. doc[b].status = r.status
      BY <2>3 DEF PassedOn
    <3>2. UNCHANGED history
      BY <2>3 DEF ApplyReport
    <3> QED BY <1>2, <2>1, <3>1, <3>2 DEF history, HistoryInv, HistoryType, NewestIsStored,
                                          CurrentIsStored
  <2> QED BY <2>2, <2>3
<1> QED BY <1>3, <1>4 DEF ApplyReport

\* The tracker is current when it has handled the newest report, unless the report is
\* suppressed.
LEMMA ReportKeepsHistory ==
  ASSUME RelayInv, TrackerInv, HistoryInv, NEW r \in mail, HandleReport(r)
  PROVE  HistoryInv'
<1> DEFINE b == r.b
<1>1. b \in Bridges /\ r \in Report /\ r # None
  BY DEF RelayInv, Report
<1>2. UNCHANGED doc /\ newest' = [newest EXCEPT ![b] = IF @ = r THEN None ELSE @]
  BY DEF HandleReport
<1>3. /\ newest' \in [Bridges -> Report \cup {None}]
      /\ NewestIsStored'
  BY <1>1, <1>2 DEF HistoryInv, HistoryType, NewestIsStored
<1>4. handled \in [Bridges -> Status]
  BY DEF TrackerInv, TrackerType
<1>5. CASE UNCHANGED <<handled, current>>
  BY <1>2, <1>3, <1>5 DEF HistoryInv, HistoryType, CurrentIsStored
<1>6. CASE /\ current' = [current EXCEPT ![b] = FALSE]
           /\ \A c \in Bridges \ {b} : handled'[c] = handled[c]
  BY <1>1, <1>2, <1>3, <1>6 DEF HistoryInv, HistoryType, CurrentIsStored
<1>7. CASE /\ handled' = [handled EXCEPT ![b] = r.status]
           /\ current' = [current EXCEPT ![b] = newest[b] = r]
  <2>1. \A c \in Bridges : handled'[c] = IF c = b THEN r.status ELSE handled[c]
    BY <1>1, <1>4, <1>7
  <2>2. current \in [Bridges -> BOOLEAN] /\ (newest[b] = r) \in BOOLEAN
    BY DEF HistoryInv, HistoryType
  <2>3. current' \in [Bridges -> BOOLEAN] /\ (current'[b] <=> newest[b] = r)
    BY <1>1, <1>7, <2>2, Zenon
  <2>4. \A c \in Bridges \ {b} : current'[c] <=> current[c]
    BY <1>1, <1>7, <2>2, Zenon
  <2>5. CurrentIsStored'
    <3> SUFFICES ASSUME NEW c \in Bridges, ~doc[c].revoked, current'[c]
                 PROVE  handled'[c] = doc[c].status
      BY <1>2 DEF CurrentIsStored
    <3>1. CASE c = b
      BY <1>1, <2>1, <2>3, <3>1 DEF HistoryInv, NewestIsStored
    <3>2. CASE c # b
      BY <2>1, <2>4, <3>2 DEF HistoryInv, CurrentIsStored
    <3> QED BY <3>1, <3>2
  <2> QED BY <1>3, <2>3, <2>5 DEF HistoryInv, HistoryType
<1>8. CASE ~Accepting
  BY <1>5, <1>8 DEF HandleReport
<1>9. CASE Accepting /\ r.policy = "suppress"
  <2>1. /\ current' = [current EXCEPT ![b] = FALSE]
        /\ handled' = IF entry[b].pending.status = "active"
                      THEN [handled EXCEPT ![b] = entry[b].lastNotified] ELSE handled
    BY <1>9 DEF HandleReport
  <2>2. \A c \in Bridges \ {b} : handled'[c] = handled[c]
    BY <1>4, <2>1
  <2> QED BY <1>6, <2>1, <2>2
<1>10. CASE Accepting /\ r.policy # "suppress"
  BY <1>7, <1>10 DEF HandleReport
<1> QED BY <1>8, <1>9, <1>10

\* A revocation says nothing of the live bridges, and neither does its cancellation.
LEMMA RevocationKeepsHistory ==
  ASSUME DocInv, TrackerInv, HistoryInv, NEW B \in SUBSET Bridges,
         Revoke(B) \/ CancelRevoked(B)
  PROVE  HistoryInv'
<1>1. CASE Revoke(B)
  <2>1. UNCHANGED <<handled, history>>
    BY <1>1 DEF Revoke, tracker
  <2>2. \A b \in Bridges : ~doc'[b].revoked => doc'[b] = doc[b]
    <3> SUFFICES ASSUME NEW b \in Bridges, ~doc'[b].revoked
                 PROVE  doc'[b] = doc[b]
      OBVIOUS
    <3>1. doc[b] \in [status : Status, seen : 0 .. MaxReports, revoked : BOOLEAN]
      BY DEF DocInv, DocType
    <3>2. CASE b \in B
      <4>1. doc'[b] = [doc[b] EXCEPT !.status = "inactive", !.revoked = TRUE]
        BY <1>1, <3>2 DEF Revoke
      <4> QED BY <3>1, <4>1
    <3>3. CASE b \notin B
      BY <1>1, <3>3 DEF Revoke
    <3> QED BY <3>2, <3>3
  <2> QED BY <2>1, <2>2 DEF history, HistoryInv, HistoryType, NewestIsStored, CurrentIsStored
<1>2. CASE CancelRevoked(B)
  <2>1. UNCHANGED <<doc, newest>>
    BY <1>2 DEF CancelRevoked
  <2>2. CASE UNCHANGED <<handled, current>>
    BY <2>1, <2>2 DEF HistoryInv, HistoryType, NewestIsStored, CurrentIsStored
  <2>3. CASE /\ handled' = [b \in Bridges |-> IF b \in B THEN "active" ELSE handled[b]]
             /\ current' = [b \in Bridges |-> b \notin B /\ current[b]]
    BY <2>1, <2>3 DEF HistoryInv, HistoryType, NewestIsStored, CurrentIsStored
  <2> QED BY <1>2, <2>2, <2>3 DEF CancelRevoked
<1> QED BY <1>1, <1>2

-----------------------------------------------------------------------------
(* The invariant. *)

\* IInv holds initially.
LEMMA Initially == Init => IInv
<1> SUFFICES ASSUME Init PROVE IInv
  OBVIOUS
<1>1. RelayInv
  BY DEF Init, RelayInv
<1>2. DocInv
  BY DEF Init, DocInv, DocType, Status, UnreportedIsUnseen, PersistedIsNewest
<1>3. TrackerType /\ DisposeIsFinal
  BY DEF Init, TrackerType, DisposeIsFinal, Accepting, NewEntry, Entry, Early, NoEarly, Status
<1>4. \A b \in Bridges : EntryInv(b, entry[b], handled[b], observers)
  BY NewEntryKeeps DEF Init
<1>5. HistoryInv
  BY DEF Init, HistoryInv, HistoryType, NewestIsStored, CurrentIsStored
<1> QED BY <1>1, <1>2, <1>3, <1>4, <1>5, TrackerByEntry DEF IInv

\* What the database keeps is unchanged by a step that leaves its variables alone,
\* and so is what the tracker keeps.
LEMMA Untouched ==
  /\ DocInv /\ UNCHANGED <<doc, revoking, applied>> => DocInv'
  /\ TrackerInv /\ UNCHANGED tracker => TrackerInv'
  /\ RelayInv /\ UNCHANGED <<relay, mail>> => RelayInv'
  /\ HistoryInv /\ UNCHANGED <<doc, handled, history>> => HistoryInv'
<1>1. DocInv /\ UNCHANGED <<doc, revoking, applied>> => DocInv'
  BY DEF DocInv, DocType, UnreportedIsUnseen, PersistedIsNewest
<1>2. TrackerInv /\ UNCHANGED tracker => TrackerInv'
  BY DEF tracker, TrackerInv, TrackerType, PendingIsCurrent, EarlyWasObserved,
         ExcludedHaveObserved, DisposeIsFinal, Accepting
<1>3. RelayInv /\ UNCHANGED <<relay, mail>> => RelayInv'
  BY DEF RelayInv, relay
<1>4. HistoryInv /\ UNCHANGED <<doc, handled, history>> => HistoryInv'
  BY DEF history, HistoryInv, HistoryType, NewestIsStored, CurrentIsStored
<1> QED BY <1>1, <1>2, <1>3, <1>4

\* IInv is preserved by every step.
LEMMA Inductive == IInv /\ [Next]_vars => IInv'
<1> SUFFICES ASSUME IInv, [Next]_vars PROVE IInv'
  OBVIOUS
<1>1. RelayInv /\ DocInv /\ TrackerInv /\ HistoryInv
  BY DEF IInv
<1>2. ASSUME NEW b \in Bridges, NEW p \in Policy, NEW c \in Conns, BridgeConnects(b, c, p)
      PROVE  IInv'
  BY <1>1, <1>2, SendKeeps, Untouched DEF BridgeConnects, tracker, IInv, RelayInv, Status
<1>3. ASSUME NEW b \in Bridges, NEW p \in Policy, BridgeDisconnects(b, p)
      PROVE  IInv'
  BY <1>1, <1>3, SendKeeps, Untouched DEF BridgeDisconnects, tracker, IInv, RelayInv, Status
<1>4. ASSUME NEW b \in Bridges, NEW p \in Policy, PolicyChanges(b, p)
      PROVE  IInv'
  BY <1>1, <1>4, SendKeeps, Untouched DEF PolicyChanges, tracker, IInv, RelayInv, Status
<1>5. ASSUME NEW b \in Bridges, NEW d \in Devices, DeviceObserves(b, d)
      PROVE  IInv'
  BY <1>1, <1>5, SendKeeps, Untouched DEF DeviceObserves, tracker, IInv, RelayInv, Status, Policy
<1>6. ASSUME NEW b \in Bridges, TimerFires(b)
      PROVE  IInv'
  BY <1>1, <1>6, TimerKeeps, Untouched DEF TimerFires, IInv
<1>7. ASSUME NEW b \in Bridges, SendSettles(b)
      PROVE  IInv'
  BY <1>1, <1>7, SettleKeeps, Untouched DEF SendSettles, IInv
<1>8. ASSUME NEW r \in mail, ApplyReport(r)
      PROVE  IInv'
  <2>1. DocInv' /\ TrackerInv' /\ HistoryInv'
    BY <1>1, <1>8, ApplyKeeps, ApplyKeepsHistory, Untouched DEF ApplyReport
  <2>2. UNCHANGED relay /\ mail' \subseteq (mail \ {r}) \cup {[r EXCEPT !.stage = "applied"]}
    BY <1>8 DEF ApplyReport
  <2> QED BY <1>1, <2>1, <2>2, MailKeeps DEF IInv
<1>9. ASSUME NEW r \in mail, FindObserved(r)
      PROVE  IInv'
  <2>1. UNCHANGED relay /\ mail' \subseteq (mail \ {r}) \cup {[r EXCEPT !.stage = "applied"]}
    BY <1>9 DEF FindObserved
  <2> QED BY <1>1, <1>9, <2>1, MailKeeps, Untouched DEF FindObserved, tracker, IInv
<1>10. ASSUME NEW r \in mail, HandleReport(r)
       PROVE  IInv'
  <2>1. UNCHANGED relay /\ mail' \subseteq (mail \ {r}) \cup {[r EXCEPT !.stage = "applied"]}
    BY <1>10 DEF HandleReport
  <2> QED BY <1>1, <1>10, <2>1, MailKeeps, ReportKeeps, ReportKeepsHistory, Untouched
         DEF HandleReport, IInv
<1>11. ASSUME NEW r \in mail, MarkObserved(r)
       PROVE  IInv'
  <2>1. UNCHANGED relay /\ mail' \subseteq (mail \ {r}) \cup {[r EXCEPT !.stage = "applied"]}
    BY <1>11 DEF MarkObserved
  <2> QED BY <1>1, <1>11, <2>1, MailKeeps, ObservationKeeps, Untouched DEF MarkObserved, IInv
<1>12. ASSUME NEW B \in SUBSET Bridges, Revoke(B)
       PROVE  IInv'
  BY <1>1, <1>12, RevokeKeeps, RevocationKeepsHistory, Untouched DEF Revoke, IInv
<1>13. ASSUME NEW B \in SUBSET Bridges, CancelRevoked(B)
       PROVE  IInv'
  <2>1. DocInv'
    BY <1>1, <1>13 DEF CancelRevoked, DocInv, DocType, UnreportedIsUnseen, PersistedIsNewest
  <2> QED BY <1>1, <1>13, <2>1, CancelRevokedKeeps, RevocationKeepsHistory, Untouched
         DEF CancelRevoked, IInv
<1>14. CASE OrphanSettles \/ DisposeEnds
  BY <1>1, <1>14, DrainKeeps, Untouched DEF OrphanSettles, DisposeEnds, IInv
<1>15. CASE Dispose
  BY <1>1, <1>15, DisposeKeeps, Untouched DEF Dispose, IInv
<1>16. CASE UNCHANGED vars
  BY <1>1, <1>16, Untouched DEF vars, tracker, relay, history, IInv
<1> QED BY <1>2, <1>3, <1>4, <1>5, <1>6, <1>7, <1>8, <1>9, <1>10, <1>11, <1>12, <1>13,
           <1>14, <1>15, <1>16 DEF Next

\* IInv holds in every reachable state.
THEOREM Invariance == Spec => []IInv
BY Initially, Inductive, PTL DEF Spec

\* Every variable keeps its type: the counter of sends under way never goes below
\* zero, and a push excludes only devices.
THEOREM TypeCorrect == Spec => []TypeOK
<1>1. IInv => TypeOK
  BY DEF IInv, RelayInv, DocInv, DocType, TrackerInv, TrackerType, HistoryInv, HistoryType,
         TypeOK
<1> QED BY <1>1, Invariance, PTL

\* recordStatusChange: in whatever order the reports arrive, the stored status is
\* one of the newest report that reached the bridge.
THEOREM NewestReportWins == Spec => []PersistedIsNewest
<1>1. IInv => PersistedIsNewest
  BY DEF IInv, DocInv
<1> QED BY <1>1, Invariance, PTL

\* BridgeStateTracker: a push that is pending or being sent announces the status of
\* the report that was handled last.
THEOREM PushesAreCurrent == Spec => []PendingIsCurrent
<1>1. IInv => PendingIsCurrent
  BY DEF IInv, TrackerInv
<1> QED BY <1>1, Invariance, PTL

\* recordStatusReport: once the newest report the database passed on is also the one
\* handled last, and is not suppressed, a push for a live bridge announces the status
\* that is stored.
THEOREM PushesAreStored == Spec => []PendingIsNewest
<1>1. IInv => PendingIsNewest
  BY DEF IInv, TrackerInv, HistoryInv, PendingIsCurrent, CurrentIsStored, PendingIsNewest
<1> QED BY <1>1, Invariance, PTL

\* #schedule and markConnectionObserved: only devices that observed the announced
\* connection are left out of a push.
THEOREM ExclusionsAreObserved == Spec => []ExcludedHaveObserved
<1>1. IInv => ExcludedHaveObserved
  BY DEF IInv, TrackerInv
<1> QED BY <1>1, Invariance, PTL

\* What is stored is true of the newest report; what is pending, of the report handled
\* last, and of what is stored if that report is also the newest and is not suppressed;
\* who is left out was connected.
THEOREM AnnouncementsAreTrue == Spec => []AnnouncedIsTrue
BY NewestReportWins, PushesAreCurrent, PushesAreStored, ExclusionsAreObserved, PTL
   DEF AnnouncedIsTrue

\* dispose: nothing is pending afterwards, and a dispose that succeeds has waited
\* for every send.
THEOREM DisposalIsFinal == Spec => []DisposeIsFinal
<1>1. IInv => DisposeIsFinal
  BY DEF IInv, TrackerInv
<1> QED BY <1>1, Invariance, PTL
=============================================================================
