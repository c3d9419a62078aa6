---------------------------- MODULE AnalyticsEvents ----------------------------
(***************************************************************************)
(* The desktop events that are stored for product analytics: how they are  *)
(* recorded (ProductAnalyticsEventService) and how a deletion, after its   *)
(* tombstone, removes them and hands the account over to the warehouse     *)
(* (ProductAnalyticsDeletionService).                                      *)
(*                                                                         *)
(* Abstractions.  An event is who and which: its parameters, and the check *)
(* of the time it claims to have occurred at, are left out, and so is the  *)
(* TTL index.  A request has one run of the script at a time.              *)
(***************************************************************************)
EXTENDS AnalyticsConsent

CONSTANTS Recordings \* events that clients send

VARIABLES
  recordings, \* the POST /product-analytics/events of each event
  events,     \* productAnalyticsEvents
  targets,    \* product_analytics_deletion_targets, by request
  orphaned    \* history: users whose recordings failed after their insert

vars == <<consentVars, recordings, events, targets, orphaned>>

Event == [user : Users, id : Recordings]
NoRecording == [at |-> "idle", user |-> None]

TypeOK ==
  /\ ConsentTypeOK
  /\ recordings \in [Recordings -> [at : {"idle", "read", "insert", "recheck", "delete"}, user : Users \cup {None}]]
  /\ events \subseteq Event
  /\ targets \in [Requests -> [user : Users, suppressedAt : Time] \cup {None}]
  /\ orphaned \subseteq Users

Init ==
  /\ ConsentInit
  /\ recordings = [r \in Recordings |-> NoRecording]
  /\ events = {}
  /\ targets = [d \in Requests |-> None]
  /\ orphaned = {}

-----------------------------------------------------------------------------
(* The rest of the updates. *)

eventsRest == <<recordings, events, targets, orphaned>>
Answered(o) == updates' = [updates EXCEPT ![o].at = "answered", ![o].stamp = 0]

AnswerUpdate(o) == ApplyUpdate(o) /\ Answered(o) /\ UNCHANGED eventsRest

LoseUpdate(o) ==
  /\ updates[o].at = "write"
  /\ Answered(o)
  /\ UNCHANGED <<clock, users, deletions, eventsRest>>

\* A client that has no answer, or does not know it, sends the operation again.
ResendUpdate(o) ==
  /\ updates[o].at = "answered"
  /\ updates' = [updates EXCEPT ![o].at = "write", ![o].stamp = clock]
  /\ UNCHANGED <<clock, users, deletions, eventsRest>>

\* The batch is read before it is written: the write looks at each user again.
Backfill(u) ==
  /\ IsCandidate(u)
  /\ users' = [users EXCEPT ![u] = Created]
  /\ UNCHANGED <<clock, updates, deletions, eventsRest>>

-----------------------------------------------------------------------------
(* Events. *)

recordingRest == <<consentVars, targets>>
RecordingAt(r, at) == recordings' = [recordings EXCEPT ![r].at = at]
EndRecording(r) == recordings' = [recordings EXCEPT ![r] = NoRecording]

RecordArrives(r) ==
  /\ recordings[r].at = "idle"
  /\ \E u \in Users : recordings' = [recordings EXCEPT ![r] = [at |-> "read", user |-> u]]
  /\ UNCHANGED <<recordingRest, events, orphaned>>

\* getPreference: a suppressed account reads as disabled, one without a preference fails.
ReadPreference(r) ==
  /\ recordings[r].at = "read"
  /\ LET u == recordings[r].user IN
       IF users[u].preference = "enabled" /\ ~Suppressed(u) THEN RecordingAt(r, "insert") ELSE EndRecording(r)
  /\ UNCHANGED <<recordingRest, events, orphaned>>

\* An event that is stored already is a success that changes nothing.
InsertEvent(r) ==
  /\ recordings[r].at = "insert"
  /\ LET u == recordings[r].user IN
       events' = events \cup {[user |-> u, id |-> r]}
  /\ RecordingAt(r, "recheck")
  /\ UNCHANGED <<recordingRest, orphaned>>

\* Slip: the tombstone is not looked for after the insert.
Slip_Recheck(r) ==
  /\ recordings[r].at = "recheck"
  /\ EndRecording(r)
  /\ UNCHANGED <<recordingRest, events, orphaned>>

Recheck(r) ==
  /\ recordings[r].at = "recheck"
  /\ IF Suppressed(recordings[r].user) THEN RecordingAt(r, "delete") ELSE EndRecording(r)
  /\ UNCHANGED <<recordingRest, events, orphaned>>

EventsWithout(u) == {e \in events : e.user # u}

DeleteRecorded(r) ==
  /\ recordings[r].at = "delete"
  /\ events' = EventsWithout(recordings[r].user)
  /\ EndRecording(r)
  /\ UNCHANGED <<recordingRest, orphaned>>

\* The recording fails, or its process stops.
FailRecording(r) ==
  /\ recordings[r].at # "idle"
  /\ EndRecording(r)
  /\ orphaned' = IF recordings[r].at \in {"recheck", "delete"}
                 THEN orphaned \cup {recordings[r].user} ELSE orphaned
  /\ UNCHANGED <<recordingRest, events>>

-----------------------------------------------------------------------------
(* The rest of suppressAndHandoff. *)

deletionRest == <<clock, users, updates, recordings, orphaned>>

SuppressThenDelete(d) ==
  /\ Suppress(d)
  /\ deletions' = [deletions EXCEPT ![d].at = "written", ![d].suppressedAt = SuppressedSince(d)]
  /\ UNCHANGED eventsRest

DeleteEvents(d) ==
  /\ deletions[d].at = "written"
  /\ events' = EventsWithout(deletions[d].user)
  /\ DeletionAt(d, "find")
  /\ UNCHANGED <<deletionRest, targets>>

TargetOf(d) == [user |-> deletions[d].user, suppressedAt |-> deletions[d].suppressedAt]

\* A target of this request ends the run: returned if it is the same, refused if not.
FindTarget(d) ==
  /\ deletions[d].at = "find"
  /\ IF targets[d] = None THEN DeletionAt(d, "upsert") ELSE DeletionOver(d)
  /\ UNCHANGED <<deletionRest, events, targets>>

UpsertTarget(d) ==
  /\ deletions[d].at = "upsert"
  /\ targets' = IF targets[d] = None THEN [targets EXCEPT ![d] = TargetOf(d)] ELSE targets
  /\ DeletionAt(d, "confirm")
  /\ UNCHANGED <<deletionRest, events>>

\* Ends the run, successfully or not; FailDeletion at any other step.
EndDeletion(d) ==
  /\ deletions[d].at = "confirm"
  /\ DeletionOver(d)
  /\ UNCHANGED <<deletionRest, events, targets>>

\* The script fails, or its process stops.
FailDeletion(d) ==
  /\ deletions[d].at # "idle"
  /\ DeletionOver(d)
  /\ UNCHANGED <<clock, users, updates, eventsRest>>

Next ==
  \/ (Tick \/ ConsentArrivals) /\ UNCHANGED eventsRest
  \/ \E o \in Operations : AnswerUpdate(o) \/ LoseUpdate(o) \/ ResendUpdate(o)
  \/ \E u \in Users : Backfill(u)
  \/ \E r \in Recordings :
       \/ RecordArrives(r) \/ ReadPreference(r) \/ InsertEvent(r)
       \/ Recheck(r) \/ DeleteRecorded(r) \/ FailRecording(r)
  \/ \E d \in Requests :
       SuppressThenDelete(d) \/ DeleteEvents(d) \/ FindTarget(d)
       \/ UpsertTarget(d) \/ EndDeletion(d) \/ FailDeletion(d)

Spec == Init /\ [][Next]_vars

-----------------------------------------------------------------------------
(* Properties. *)

\* When a deletion has been handed over, its user is suppressed since the time of
\* the target, and no event of the user is stored, except by a recording that is
\* about to look for the tombstone or that failed before it could: the order of
\* suppressAndHandoff and of record (product-analytics-event-service.ts:59).
HandedOverIsClean ==
  \A d \in Requests : targets[d] # None =>
    LET u == targets[d].user IN
    /\ users[u].suppressedAt = targets[d].suppressedAt
    /\ EventsWithout(u) # events =>
         \/ u \in orphaned
         \/ \E r \in Recordings : recordings[r].user = u /\ recordings[r].at \in {"recheck", "delete"}

\* A deletion ends the analytics of its user for good (user-repo.ts:209,
\* product-analytics-event-service.ts:59).
DeletionIsFinal == [][SuppressionIsKept /\ HandedOverIsClean']_vars
=============================================================================
