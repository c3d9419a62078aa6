---------------------------- MODULE AnalyticsProofs ----------------------------
(***************************************************************************)
(* Proofs about AnalyticsEvents for any number of users, events, updates   *)
(* and deletions, and about AnalyticsExport for any number of runs.        *)
(*                                                                         *)
(* What is handed over is clean because the tombstone is written before    *)
(* the events are deleted: a recording that inserts after that will find   *)
(* the tombstone when it looks for it, and removes what it has inserted.   *)
(*                                                                         *)
(* What is published is reconciled because times only move on: a user who  *)
(* has changed after the cutoff stays a user to be reconciled, except      *)
(* where a tombstone with an earlier time is written late.                 *)
(***************************************************************************)
EXTENDS AnalyticsEvents, AnalyticsExport, FiniteSetTheorems, WellFoundedInduction, TLAPS

User == [preference : {"enabled", "disabled", "missing"}, updatedAt : Time, revision : Nat,
         lastOperation : Operations \cup {None}, suppressedAt : Time \cup {None}]
Update == [at : {"unsent", "write", "answered"}, user : Users \cup {None},
           to : {"enabled", "disabled"}, expected : Nat, stamp : Time]
Deletion == [at : {"idle", "write", "written", "find", "upsert", "confirm"},
             user : Users \cup {None}, stamp : Time, suppressedAt : Time \cup {None}]
Recording == [at : {"idle", "read", "insert", "recheck", "delete"}, user : Users \cup {None}]
Target == [user : Users, suppressedAt : Time]

\* What is under way is of a user.
UpdatesType ==
  /\ updates \in [Operations -> Update]
  /\ \A o \in Operations : updates[o].at # "unsent" => updates[o].user \in Users
DeletionsType ==
  /\ deletions \in [Requests -> Deletion]
  /\ \A d \in Requests : deletions[d].at # "idle" => deletions[d].user \in Users
RecordingsType ==
  /\ recordings \in [Recordings -> Recording]
  /\ \A r \in Recordings : recordings[r].at # "idle" => recordings[r].user \in Users
StoresType ==
  /\ events \subseteq Event
  /\ targets \in [Requests -> Target \cup {None}]
  /\ orphaned \subseteq Users

\* A user with a tombstone is disabled, and so never a candidate of the backfill.
UsersInv ==
  /\ clock \in Time
  /\ users \in [Users -> User]
  /\ \A u \in Users : Suppressed(u) => users[u].preference = "disabled"

\* A run that is past the tombstone carries its time, and so does a target.
TombstonesAreKnown ==
  \A d \in Requests :
    /\ deletions[d].at \in {"written", "find", "upsert", "confirm"} =>
         /\ Suppressed(deletions[d].user)
         /\ users[deletions[d].user].suppressedAt = deletions[d].suppressedAt
    /\ targets[d] # None => users[targets[d].user].suppressedAt = targets[d].suppressedAt

\* Whose events have been deleted, with a tombstone, by some run.
Deleted(u) ==
  \E d \in Requests :
    \/ deletions[d].at \in {"find", "upsert", "confirm"} /\ deletions[d].user = u
    \/ targets[d] # None /\ targets[d].user = u

Clean(u) ==
  \/ \A e \in events : e.user # u
  \/ u \in orphaned
  \/ \E r \in Recordings : recordings[r].user = u /\ recordings[r].at \in {"recheck", "delete"}

DeletedIsClean == \A u \in Users : Deleted(u) => Clean(u)

TypeInv == UsersInv /\ UpdatesType /\ DeletionsType /\ RecordingsType /\ StoresType
IInv == TypeInv /\ TombstonesAreKnown /\ DeletedIsClean

-----------------------------------------------------------------------------
(* Lemmas. *)

USE AnalyticsConsentAssumption

LEMMA NothingIsNoTime == None \notin Time
BY DEF Time

\* Whose events have been deleted is suppressed.
LEMMA DeletedIsSuppressed ==
  ASSUME TypeInv, TombstonesAreKnown, NEW u \in Users, Deleted(u)
  PROVE  Suppressed(u)
<1>1. PICK d \in Requests : \/ deletions[d].at \in {"find", "upsert", "confirm"} /\ deletions[d].user = u
                            \/ targets[d] # None /\ targets[d].user = u
  BY DEF Deleted
<1>2. CASE targets[d] # None /\ targets[d].user = u
  <2>1. targets[d].suppressedAt \in Time
    BY <1>2 DEF TypeInv, StoresType, Target
  <2> QED BY <1>2, <2>1, NothingIsNoTime DEF TombstonesAreKnown, Suppressed
<1> QED BY <1>1, <1>2 DEF TombstonesAreKnown

\* One user changes; a tombstone stays, with its time.
LEMMA UserMoves ==
  ASSUME UsersInv, NEW u \in Users, NEW r \in User, UNCHANGED clock,
         users' = [users EXCEPT ![u] = r],
         r.suppressedAt # None => r.preference = "disabled",
         Suppressed(u) => r.suppressedAt = users[u].suppressedAt
  PROVE  UsersInv' /\ SuppressionIsKept
<1>1. ASSUME NEW x \in Users PROVE users'[x] = IF x = u THEN r ELSE users[x]
  BY DEF UsersInv
<1>2. users' \in [Users -> User]
  BY DEF UsersInv
<1> QED BY <1>1, <1>2 DEF UsersInv, Suppressed, SuppressionIsKept

LEMMA UsersStay ==
  ASSUME UsersInv, clock' \in Time, UNCHANGED users
  PROVE  UsersInv' /\ SuppressionIsKept
BY DEF UsersInv, Suppressed, SuppressionIsKept

\* When every tombstone is kept, what is known of it stays true.
LEMMA TombstonesStay ==
  ASSUME TypeInv, TombstonesAreKnown, SuppressionIsKept, UNCHANGED <<deletions, targets>>
  PROVE  TombstonesAreKnown'
<1>1. ASSUME NEW u \in Users, Suppressed(u)
      PROVE  Suppressed(u)' /\ users'[u].suppressedAt = users[u].suppressedAt
  BY <1>1 DEF SuppressionIsKept, Suppressed
<1>2. ASSUME NEW d \in Requests, deletions[d].at \in {"written", "find", "upsert", "confirm"}
      PROVE  /\ Suppressed(deletions[d].user)'
             /\ users'[deletions[d].user].suppressedAt = deletions[d].suppressedAt
  <2>1. deletions[d].user \in Users
    BY <1>2 DEF TypeInv, DeletionsType
  <2>2. /\ Suppressed(deletions[d].user)
        /\ users[deletions[d].user].suppressedAt = deletions[d].suppressedAt
    BY <1>2 DEF TombstonesAreKnown
  <2> QED BY <1>1, <2>1, <2>2 DEF Suppressed
<1>3. ASSUME NEW d \in Requests, targets[d] # None
      PROVE  users'[targets[d].user].suppressedAt = targets[d].suppressedAt
  <2>1. targets[d].user \in Users /\ targets[d].suppressedAt \in Time
    BY <1>3 DEF TypeInv, StoresType, Target
  <2> QED BY <1>1, <1>3, <2>1, NothingIsNoTime DEF TombstonesAreKnown, Suppressed
<1> QED BY <1>2, <1>3 DEF TombstonesAreKnown, Suppressed

LEMMA DeletedStays ==
  ASSUME DeletedIsClean, UNCHANGED <<deletions, recordings, events, targets, orphaned>>
  PROVE  DeletedIsClean'
BY DEF DeletedIsClean, Deleted, Clean

LEMMA CreatedIsUser == Legacy \in User /\ Created \in User /\ Legacy.suppressedAt = None /\ Created.suppressedAt = None
<1>1. Legacy \in User /\ Legacy.suppressedAt = None
  BY DEF Legacy, User, Time
<1> QED BY <1>1 DEF Created, User

-----------------------------------------------------------------------------
(* Updates and the backfill. *)

\* An update is answered, or sent again.
LEMMA UpdateTurns ==
  ASSUME UpdatesType, NEW o \in Operations, updates[o].at # "unsent",
         NEW at \in {"write", "answered"}, NEW stamp \in Time,
         updates' = [updates EXCEPT ![o].at = at, ![o].stamp = stamp]
  PROVE  UpdatesType'
<1> DEFINE r == [updates[o] EXCEPT !.at = at, !.stamp = stamp]
<1>1. updates[o] \in Update /\ updates[o].user \in Users
  BY DEF UpdatesType
<1>2. r \in Update /\ r.user = updates[o].user
  BY <1>1 DEF Update
<1>3. updates' = [updates EXCEPT ![o] = r]
  BY DEF UpdatesType
<1> HIDE DEF r
<1> QED BY <1>1, <1>2, <1>3 DEF UpdatesType

LEMMA AnsweredIsTyped ==
  ASSUME UpdatesType, NEW o \in Operations, updates[o].at = "write", Answered(o)
  PROVE  UpdatesType'
<1>1. 0 \in Time
  BY DEF Time
<1> QED BY <1>1, UpdateTurns DEF Answered

LEMMA AnswerUpdateKeeps ==
  ASSUME TypeInv, NEW o \in Operations, AnswerUpdate(o)
  PROVE  UsersInv' /\ UpdatesType' /\ SuppressionIsKept
<1> USE DEF TypeInv
<1> DEFINE q == updates[o]
           u == q.user
<1>1. q \in Update /\ q.at = "write" /\ u \in Users /\ UNCHANGED clock
  BY DEF AnswerUpdate, ApplyUpdate, UpdatesType
<1>2. UpdatesType'
  BY <1>1, AnsweredIsTyped DEF AnswerUpdate
<1>3. users[u] \in User /\ (Suppressed(u) => users[u].preference = "disabled")
  BY <1>1 DEF UsersInv
<1>4. CASE Matches(o)
  <2>1. users' = [users EXCEPT ![u] = [users[u] EXCEPT !.preference = q.to, !.updatedAt = q.stamp,
                                                       !.revision = @ + 1, !.lastOperation = o]]
    BY <1>1, <1>3, <1>4 DEF AnswerUpdate, ApplyUpdate, UsersInv
  <2>2. q.to = "enabled" => users[u].suppressedAt = None
    BY <1>4 DEF Matches
  <2>3. q.to \in {"enabled", "disabled"} /\ q.stamp \in Time
    BY <1>1 DEF Update
  <2> HIDE DEF q, u
  <2> DEFINE r == [users[u] EXCEPT !.preference = q.to, !.updatedAt = q.stamp, !.revision = @ + 1, !.lastOperation = o]
  <2>4. r \in User /\ r.preference = q.to /\ r.suppressedAt = users[u].suppressedAt
    <3>1. users[u].revision + 1 \in Nat
      BY <1>3 DEF User
    <3> QED BY <1>3, <2>3, <3>1 DEF User
  <2>5. users' = [users EXCEPT ![u] = r]
    BY <2>1
  <2> HIDE DEF r
  <2>6. UsersInv' /\ SuppressionIsKept
    BY <1>1, <1>3, <2>2, <2>3, <2>4, <2>5, UserMoves DEF Suppressed
  <2> QED BY <1>2, <2>6
<1>5. CASE ~Matches(o)
  BY <1>1, <1>2, <1>5, UsersStay DEF AnswerUpdate, ApplyUpdate, UsersInv
<1> QED BY <1>4, <1>5

LEMMA BackfillKeeps ==
  ASSUME TypeInv, NEW u \in Users, Backfill(u)
  PROVE  UsersInv' /\ SuppressionIsKept
<1>1. ~Suppressed(u)
  BY DEF Backfill, IsCandidate, TypeInv, UsersInv
<1> QED BY <1>1, CreatedIsUser, UserMoves DEF Backfill, TypeInv

LEMMA SendKeeps ==
  ASSUME TypeInv, NEW o \in Operations, SendUpdate(o) \/ LoseUpdate(o) \/ ResendUpdate(o)
  PROVE  UsersInv' /\ UpdatesType' /\ SuppressionIsKept
<1> USE DEF TypeInv
<1>1. UNCHANGED <<clock, users>>
  BY DEF SendUpdate, LoseUpdate, ResendUpdate
<1>2. UsersInv' /\ SuppressionIsKept
  BY <1>1, UsersStay DEF UsersInv
<1>3. CASE SendUpdate(o)
  <2>1. PICK u \in Users, to \in {"enabled", "disabled"} :
          updates' = [updates EXCEPT ![o] =
            [at |-> "write", user |-> u, to |-> to, expected |-> users[u].revision, stamp |-> clock]]
    BY <1>3 DEF SendUpdate
  <2>2. users[u].revision \in Nat /\ clock \in Time
    BY DEF UsersInv, User
  <2>3. [at |-> "write", user |-> u, to |-> to, expected |-> users[u].revision, stamp |-> clock] \in Update
    BY <2>2 DEF Update
  <2>4. UpdatesType'
    BY <2>1, <2>3 DEF UpdatesType
  <2> QED BY <1>2, <2>4
<1>4. CASE LoseUpdate(o)
  <2>1. UpdatesType'
    BY <1>4, AnsweredIsTyped DEF LoseUpdate
  <2> QED BY <1>2, <2>1
<1>5. CASE ResendUpdate(o)
  <2>1. UpdatesType'
    BY <1>5, UpdateTurns DEF ResendUpdate, UsersInv
  <2> QED BY <1>2, <2>1
<1> QED BY <1>3, <1>4, <1>5

LEMMA UpdatesKeep ==
  ASSUME IInv,
         \/ Tick /\ UNCHANGED eventsRest
         \/ \E o \in Operations : \/ SendUpdate(o) /\ UNCHANGED eventsRest
                                  \/ AnswerUpdate(o) \/ LoseUpdate(o) \/ ResendUpdate(o)
         \/ \E u \in Users : Backfill(u)
  PROVE  IInv' /\ SuppressionIsKept
<1> USE DEF IInv
<1>1. UNCHANGED <<deletions, recordings, events, targets, orphaned>>
  BY DEF Tick, SendUpdate, AnswerUpdate, ApplyUpdate, LoseUpdate, ResendUpdate, Backfill, eventsRest
<1>2. DeletionsType' /\ RecordingsType' /\ StoresType'
  BY <1>1 DEF TypeInv, DeletionsType, RecordingsType, StoresType
<1>3. UsersInv' /\ UpdatesType' /\ SuppressionIsKept
  <2>1. CASE Tick
    BY <2>1, UsersStay DEF Tick, TypeInv, UsersInv, UpdatesType, Time
  <2>2. CASE \E u \in Users : Backfill(u)
    BY <2>2, BackfillKeeps DEF Backfill, TypeInv, UpdatesType
  <2> QED BY <2>1, <2>2, AnswerUpdateKeeps, SendKeeps DEF TypeInv
<1> QED BY <1>1, <1>2, <1>3, TombstonesStay, DeletedStays DEF TypeInv

-----------------------------------------------------------------------------
(* Recordings. *)

\* A recording moves on or ends; all else but the events and the failures stays.
LEMMA RecordingMoves ==
  ASSUME TypeInv, TombstonesAreKnown,
         NEW r \in Recordings, NEW q \in Recording, q.at # "idle" => q.user \in Users,
         recordings' = [recordings EXCEPT ![r] = q],
         events' \subseteq Event, orphaned' \subseteq Users, UNCHANGED recordingRest
  PROVE  /\ TypeInv' /\ TombstonesAreKnown' /\ SuppressionIsKept
         /\ \A x \in Recordings : recordings'[x] = IF x = r THEN q ELSE recordings[x]
         /\ \A u \in Users : Deleted(u)' <=> Deleted(u)
<1>1. UNCHANGED <<clock, users, updates, deletions, targets>>
  BY DEF recordingRest, consentVars
<1>2. \A x \in Recordings : recordings'[x] = IF x = r THEN q ELSE recordings[x]
  BY DEF TypeInv, RecordingsType
<1>3. RecordingsType'
  BY <1>2 DEF TypeInv, RecordingsType
<1>4. StoresType' /\ UpdatesType' /\ DeletionsType'
  BY <1>1 DEF TypeInv, StoresType, UpdatesType, DeletionsType
<1>5. UsersInv' /\ SuppressionIsKept
  BY <1>1, UsersStay DEF TypeInv, UsersInv
<1>6. TombstonesAreKnown'
  BY <1>1, <1>5, TombstonesStay
<1>7. \A u \in Users : Deleted(u)' <=> Deleted(u)
  BY <1>1 DEF Deleted
<1> QED BY <1>2, <1>3, <1>4, <1>5, <1>6, <1>7 DEF TypeInv

LEMMA RecordingEnds ==
  ASSUME TypeInv, NEW r \in Recordings
  PROVE  NoRecording \in Recording /\ NoRecording.at = "idle"
BY DEF NoRecording, Recording

LEMMA RecordingOf ==
  ASSUME TypeInv, NEW r \in Recordings, NEW at \in {"idle", "read", "insert", "recheck", "delete"}
  PROVE  /\ [recordings[r] EXCEPT !.at = at] \in Recording
         /\ [recordings[r] EXCEPT !.at = at].at = at
         /\ [recordings[r] EXCEPT !.at = at].user = recordings[r].user
BY DEF TypeInv, RecordingsType, Recording

\* A recording that gives up before its insert, or goes on to it, excuses nobody.
LEMMA BeforeInsertKeeps ==
  ASSUME IInv, NEW r \in Recordings, RecordArrives(r) \/ ReadPreference(r)
  PROVE  IInv' /\ SuppressionIsKept
<1> USE DEF IInv
<1>1. PICK q \in Recording : /\ recordings' = [recordings EXCEPT ![r] = q]
                             /\ q.at # "idle" => q.user \in Users
                             /\ recordings[r].at \in {"idle", "read"}
  <2>1. CASE RecordArrives(r)
    <3>1. PICK u \in Users : recordings' = [recordings EXCEPT ![r] = [at |-> "read", user |-> u]]
      BY <2>1 DEF RecordArrives
    <3>2. [at |-> "read", user |-> u] \in Recording
      BY DEF Recording
    <3> QED BY <2>1, <3>1, <3>2 DEF RecordArrives
  <2>2. CASE ReadPreference(r)
    <3>1. recordings[r].at = "read" /\ recordings[r].user \in Users
      BY <2>2 DEF ReadPreference, TypeInv, RecordingsType
    <3>2. \/ recordings' = [recordings EXCEPT ![r] = [recordings[r] EXCEPT !.at = "insert"]]
          \/ recordings' = [recordings EXCEPT ![r] = NoRecording]
      BY <2>2 DEF ReadPreference, RecordingAt, EndRecording, TypeInv, RecordingsType
    <3> QED BY <3>1, <3>2, RecordingOf, RecordingEnds
  <2> QED BY <2>1, <2>2
<1>2. UNCHANGED <<recordingRest, events, orphaned>>
  BY DEF RecordArrives, ReadPreference
<1>3. /\ TypeInv' /\ TombstonesAreKnown' /\ SuppressionIsKept
      /\ \A x \in Recordings : recordings'[x] = IF x = r THEN q ELSE recordings[x]
      /\ \A u \in Users : Deleted(u)' <=> Deleted(u)
  BY <1>1, <1>2, RecordingMoves DEF TypeInv, StoresType
<1>4. DeletedIsClean'
  BY <1>1, <1>2, <1>3 DEF DeletedIsClean, Clean
<1> QED BY <1>3, <1>4

\* The insert is followed by a look for the tombstone.
LEMMA InsertKeeps ==
  ASSUME IInv, NEW r \in Recordings, InsertEvent(r)
  PROVE  IInv' /\ SuppressionIsKept
<1> USE DEF IInv
<1> DEFINE q == [recordings[r] EXCEPT !.at = "recheck"]
           u == recordings[r].user
<1>1. /\ recordings[r].at = "insert" /\ u \in Users /\ UNCHANGED <<recordingRest, orphaned>>
      /\ events' = events \cup {[user |-> u, id |-> r]}
      /\ recordings' = [recordings EXCEPT ![r] = q]
  BY DEF InsertEvent, RecordingAt, TypeInv, RecordingsType
<1>2. q \in Recording /\ q.at = "recheck" /\ q.user = u
  BY RecordingOf
<1>3. [user |-> u, id |-> r] \in Event /\ [user |-> u, id |-> r].user = u
  BY <1>1 DEF Event
<1> HIDE DEF q, u
<1>4. /\ TypeInv' /\ TombstonesAreKnown' /\ SuppressionIsKept
      /\ \A x \in Recordings : recordings'[x] = IF x = r THEN q ELSE recordings[x]
      /\ \A x \in Users : Deleted(x)' <=> Deleted(x)
  BY <1>1, <1>2, <1>3, RecordingMoves DEF TypeInv, StoresType
<1>5. ASSUME NEW x \in Users, Clean(x) PROVE Clean(x)'
  <2>1. CASE x = u
    BY <1>2, <1>4, <2>1 DEF Clean
  <2>2. CASE x # u
    <3>1. recordings[r].user # x
      BY <2>2 DEF u
    <3> QED BY <1>1, <1>3, <1>4, <1>5, <2>2, <3>1 DEF Clean
  <2> QED BY <2>1, <2>2
<1> QED BY <1>4, <1>5 DEF DeletedIsClean

\* A recording that finds no tombstone is not of a user whose events are deleted; one
\* that finds it removes them.
LEMMA AfterInsertKeeps ==
  ASSUME IInv, NEW r \in Recordings, Recheck(r) \/ DeleteRecorded(r)
  PROVE  IInv' /\ SuppressionIsKept
<1> USE DEF IInv
<1> DEFINE u == recordings[r].user
<1>1. u \in Users /\ recordings[r] \in Recording
  BY DEF Recheck, DeleteRecorded, TypeInv, RecordingsType
<1>2. CASE Recheck(r) /\ Suppressed(u)
  <2> DEFINE q == [recordings[r] EXCEPT !.at = "delete"]
  <2>1. /\ UNCHANGED <<recordingRest, events, orphaned>>
        /\ recordings' = [recordings EXCEPT ![r] = q]
    BY <1>2 DEF Recheck, RecordingAt, TypeInv, RecordingsType
  <2>2. q \in Recording /\ q.at = "delete" /\ q.user = u
    BY RecordingOf
  <2> HIDE DEF q
  <2>3. /\ TypeInv' /\ TombstonesAreKnown' /\ SuppressionIsKept
        /\ \A x \in Recordings : recordings'[x] = IF x = r THEN q ELSE recordings[x]
        /\ \A x \in Users : Deleted(x)' <=> Deleted(x)
    BY <1>1, <2>1, <2>2, RecordingMoves DEF TypeInv, StoresType
  <2>4. ASSUME NEW x \in Users, Clean(x) PROVE Clean(x)'
    BY <2>1, <2>2, <2>3, <2>4 DEF Clean
  <2> QED BY <2>3, <2>4 DEF DeletedIsClean
<1>3. CASE Recheck(r) /\ ~Suppressed(u)
  <2>1. /\ UNCHANGED <<recordingRest, events, orphaned>>
        /\ recordings' = [recordings EXCEPT ![r] = NoRecording]
    BY <1>3 DEF Recheck, EndRecording
  <2>2. /\ TypeInv' /\ TombstonesAreKnown' /\ SuppressionIsKept
        /\ \A x \in Recordings : recordings'[x] = IF x = r THEN NoRecording ELSE recordings[x]
        /\ \A x \in Users : Deleted(x)' <=> Deleted(x)
    BY <2>1, RecordingEnds, RecordingMoves DEF TypeInv, StoresType
  <2>3. ASSUME NEW x \in Users, Deleted(x), Clean(x) PROVE Clean(x)'
    <3>1. x # u
      BY <1>3, <2>3, DeletedIsSuppressed
    <3> QED BY <2>1, <2>2, <2>3, <3>1 DEF Clean
  <2> QED BY <2>2, <2>3 DEF DeletedIsClean
<1>4. CASE DeleteRecorded(r)
  <2>1. /\ UNCHANGED <<recordingRest, orphaned>>
        /\ events' = EventsWithout(u)
        /\ recordings' = [recordings EXCEPT ![r] = NoRecording]
    BY <1>4 DEF DeleteRecorded, EndRecording
  <2>2. events' \subseteq events /\ \A e \in events' : e.user # u
    BY <2>1 DEF EventsWithout
  <2>3. /\ TypeInv' /\ TombstonesAreKnown' /\ SuppressionIsKept
        /\ \A x \in Recordings : recordings'[x] = IF x = r THEN NoRecording ELSE recordings[x]
        /\ \A x \in Users : Deleted(x)' <=> Deleted(x)
    BY <2>1, <2>2, RecordingEnds, RecordingMoves DEF TypeInv, StoresType
  <2>4. ASSUME NEW x \in Users, Clean(x) PROVE Clean(x)'
    <3>1. CASE x = u
      BY <2>2, <3>1 DEF Clean
    <3>2. CASE x # u
      BY <2>1, <2>2, <2>3, <2>4, <3>2 DEF Clean
    <3> QED BY <3>1, <3>2
  <2> QED BY <2>3, <2>4 DEF DeletedIsClean
<1> QED BY <1>2, <1>3, <1>4

\* A recording that fails after its insert is remembered.
LEMMA FailRecordingKeeps ==
  ASSUME IInv, NEW r \in Recordings, FailRecording(r)
  PROVE  IInv' /\ SuppressionIsKept
<1> USE DEF IInv
<1> DEFINE u == recordings[r].user
<1>1. u \in Users /\ UNCHANGED <<recordingRest, events>> /\ recordings' = [recordings EXCEPT ![r] = NoRecording]
  BY DEF FailRecording, EndRecording, TypeInv, RecordingsType
<1>2. /\ orphaned \subseteq orphaned' /\ orphaned' \subseteq orphaned \cup {u}
      /\ recordings[r].at \in {"recheck", "delete"} => u \in orphaned'
  BY DEF FailRecording
<1>3. /\ TypeInv' /\ TombstonesAreKnown' /\ SuppressionIsKept
      /\ \A x \in Recordings : recordings'[x] = IF x = r THEN NoRecording ELSE recordings[x]
      /\ \A x \in Users : Deleted(x)' <=> Deleted(x)
  BY <1>1, <1>2, RecordingEnds, RecordingMoves DEF TypeInv, StoresType
<1>4. ASSUME NEW x \in Users, Clean(x) PROVE Clean(x)'
  BY <1>1, <1>2, <1>3, <1>4 DEF Clean
<1> QED BY <1>3, <1>4 DEF DeletedIsClean

-----------------------------------------------------------------------------
(* Deletions. *)

\* A run moves on or ends; all else but the users, the events and the targets stays.
LEMMA DeletionMoves ==
  ASSUME IInv, NEW d \in Requests, NEW q \in Deletion, q.at # "idle" => q.user \in Users,
         deletions' = [deletions EXCEPT ![d] = q],
         UNCHANGED <<clock, updates, recordings, orphaned>>,
         UsersInv' /\ SuppressionIsKept, events' \subseteq events,
         \A x \in Requests \ {d} : targets'[x] = targets[x],
         targets' \in [Requests -> Target \cup {None}],
         q.at \in {"written", "find", "upsert", "confirm"} =>
           users'[q.user].suppressedAt = q.suppressedAt /\ q.suppressedAt # None,
         targets'[d] # None => users'[targets'[d].user].suppressedAt = targets'[d].suppressedAt,
         \A u \in Users : \/ q.at \in {"find", "upsert", "confirm"} /\ q.user = u
                          \/ targets'[d] # None /\ targets'[d].user = u
                         => Deleted(u) \/ Clean(u)'
  PROVE  IInv' /\ SuppressionIsKept
<1> USE DEF IInv
<1>1. \A x \in Requests : deletions'[x] = IF x = d THEN q ELSE deletions[x]
  BY DEF TypeInv, DeletionsType
<1>2. DeletionsType'
  BY <1>1 DEF TypeInv, DeletionsType
<1>3. UpdatesType' /\ RecordingsType' /\ StoresType'
  BY DEF TypeInv, UpdatesType, RecordingsType, StoresType
<1>4. ASSUME NEW u \in Users, Suppressed(u)
      PROVE  Suppressed(u)' /\ users'[u].suppressedAt = users[u].suppressedAt
  BY <1>4 DEF SuppressionIsKept, Suppressed
<1>5. TombstonesAreKnown'
  <2>1. ASSUME NEW x \in Requests, x # d, deletions[x].at \in {"written", "find", "upsert", "confirm"}
        PROVE  /\ Suppressed(deletions[x].user)'
               /\ users'[deletions[x].user].suppressedAt = deletions[x].suppressedAt
    <3>1. deletions[x].user \in Users
      BY <2>1 DEF TypeInv, DeletionsType
    <3> QED BY <1>4, <2>1, <3>1 DEF TombstonesAreKnown
  <2>2. ASSUME NEW x \in Requests, x # d, targets[x] # None
        PROVE  users'[targets[x].user].suppressedAt = targets[x].suppressedAt
    <3>1. targets[x].user \in Users /\ targets[x].suppressedAt \in Time
      BY <2>2 DEF TypeInv, StoresType, Target
    <3>2. Suppressed(targets[x].user)
      BY <2>2, <3>1, NothingIsNoTime DEF TombstonesAreKnown, Suppressed
    <3> QED BY <1>4, <2>2, <3>1, <3>2 DEF TombstonesAreKnown
  <2> QED BY <1>1, <2>1, <2>2 DEF TombstonesAreKnown, Suppressed
<1>6. ASSUME NEW u \in Users, Clean(u) PROVE Clean(u)'
  BY <1>6 DEF Clean
<1>7. ASSUME NEW u \in Users, Deleted(u)' PROVE Deleted(u) \/ Clean(u)'
  BY <1>1, <1>7 DEF Deleted
<1> QED BY <1>2, <1>3, <1>5, <1>6, <1>7 DEF TypeInv, DeletedIsClean

\* The same, of a run that leaves the targets alone.
LEMMA RunMoves ==
  ASSUME IInv, NEW d \in Requests, NEW q \in Deletion, q.at # "idle" => q.user \in Users,
         deletions' = [deletions EXCEPT ![d] = q],
         UNCHANGED <<clock, updates, recordings, targets, orphaned>>,
         UsersInv' /\ SuppressionIsKept, events' \subseteq events,
         q.at \in {"written", "find", "upsert", "confirm"} =>
           users'[q.user].suppressedAt = q.suppressedAt /\ q.suppressedAt # None,
         q.at \in {"find", "upsert", "confirm"} => Deleted(q.user) \/ Clean(q.user)'
  PROVE  IInv' /\ SuppressionIsKept
<1> USE DEF IInv
<1>1. /\ \A x \in Requests \ {d} : targets'[x] = targets[x]
      /\ targets' \in [Requests -> Target \cup {None}]
  BY DEF TypeInv, StoresType
<1>2. ASSUME targets'[d] # None PROVE users'[targets'[d].user].suppressedAt = targets'[d].suppressedAt
  <2>1. targets[d].user \in Users /\ targets[d].suppressedAt \in Time
    BY <1>2 DEF TypeInv, StoresType, Target
  <2> QED BY <1>2, <2>1, NothingIsNoTime DEF TombstonesAreKnown, SuppressionIsKept, Suppressed
<1>3. ASSUME NEW u \in Users, \/ q.at \in {"find", "upsert", "confirm"} /\ q.user = u
                              \/ targets'[d] # None /\ targets'[d].user = u
      PROVE  Deleted(u) \/ Clean(u)'
  <2>1. CASE q.at \in {"find", "upsert", "confirm"} /\ q.user = u
    BY <2>1
  <2>2. CASE targets'[d] # None /\ targets'[d].user = u
    BY <2>2 DEF Deleted
  <2> QED BY <1>3, <2>1, <2>2
<1> QED BY <1>1, <1>2, <1>3, DeletionMoves

LEMMA DeletionOf ==
  ASSUME TypeInv, NEW d \in Requests, NEW at \in {"idle", "write", "written", "find", "upsert", "confirm"}
  PROVE  /\ [deletions[d] EXCEPT !.at = at] \in Deletion
         /\ [deletions[d] EXCEPT !.at = at].at = at
         /\ [deletions[d] EXCEPT !.at = at].user = deletions[d].user
         /\ [deletions[d] EXCEPT !.at = at].suppressedAt = deletions[d].suppressedAt
BY DEF TypeInv, DeletionsType, Deletion

LEMMA DeletionEnds == NoDeletion \in Deletion /\ NoDeletion.at = "idle"
BY DEF NoDeletion, Deletion, Time

LEMMA ArrivalKeeps ==
  ASSUME IInv, NEW d \in Requests, SuppressionArrives(d), UNCHANGED eventsRest
  PROVE  IInv' /\ SuppressionIsKept
<1>1. PICK u \in Users :
        deletions' = [deletions EXCEPT ![d] = [at |-> "write", user |-> u, stamp |-> clock, suppressedAt |-> None]]
  BY DEF SuppressionArrives
<1>2. clock \in Time
  BY DEF IInv, TypeInv, UsersInv
<1>3. PICK q \in Deletion : deletions' = [deletions EXCEPT ![d] = q] /\ q.at = "write" /\ q.user = u
  <2>1. [at |-> "write", user |-> u, stamp |-> clock, suppressedAt |-> None] \in Deletion
    BY <1>2 DEF Deletion
  <2> QED BY <1>1, <2>1
<1>4. UNCHANGED <<clock, users, updates, recordings, events, targets, orphaned>>
  BY DEF SuppressionArrives, eventsRest
<1>5. UsersInv' /\ SuppressionIsKept
  BY <1>2, <1>4, UsersStay DEF IInv, TypeInv
<1> QED BY <1>3, <1>4, <1>5, RunMoves

\* The tombstone of the user is the first one.
LEMMA SuppressKeeps ==
  ASSUME IInv, NEW d \in Requests, SuppressThenDelete(d)
  PROVE  IInv' /\ SuppressionIsKept
<1> USE DEF IInv
<1> DEFINE stamp == deletions[d].stamp
           since == SuppressedSince(d)
<1>1. PICK u \in Users : u = deletions[d].user
  BY DEF SuppressThenDelete, Suppress, TypeInv, DeletionsType
<1>2. deletions[d] \in Deletion /\ stamp \in Time /\ users[u] \in User
  BY DEF TypeInv, DeletionsType, UsersInv, Deletion
<1>3. since \in Time /\ since = IF Suppressed(u) THEN users[u].suppressedAt ELSE stamp
  BY <1>1, <1>2 DEF SuppressedSince, Suppressed, User
<1>4. UNCHANGED <<clock, updates, recordings, events, targets, orphaned>>
  BY DEF SuppressThenDelete, Suppress, eventsRest
<1>5. PICK q \in Deletion : /\ deletions' = [deletions EXCEPT ![d] = q]
                            /\ q.at = "written" /\ q.user = u /\ q.suppressedAt = since
  <2> DEFINE r == [deletions[d] EXCEPT !.at = "written", !.suppressedAt = since]
  <2>1. r \in Deletion /\ r.at = "written" /\ r.user = u /\ r.suppressedAt = since
    BY <1>1, <1>2, <1>3 DEF Deletion
  <2>2. deletions' = [deletions EXCEPT ![d] = r]
    BY DEF SuppressThenDelete, TypeInv, DeletionsType
  <2> HIDE DEF r, since
  <2> QED BY <2>1, <2>2
<1>6. UsersInv' /\ SuppressionIsKept /\ users'[u].suppressedAt = since
  <2>1. CASE Suppressed(u)
    <3>1. UNCHANGED users /\ users[u].suppressedAt = since
      BY <1>1, <1>3, <2>1 DEF SuppressThenDelete, Suppress
    <3> QED BY <1>4, <3>1, UsersStay DEF TypeInv, UsersInv
  <2>2. CASE ~Suppressed(u)
    <3> DEFINE r == [preference |-> "disabled", updatedAt |-> stamp, revision |-> users[u].revision + 1,
                     lastOperation |-> None, suppressedAt |-> stamp]
    <3>1. users' = [users EXCEPT ![u] = r]
      BY <1>1, <2>2 DEF SuppressThenDelete, Suppress, TypeInv, UsersInv
    <3>2. users[u].revision + 1 \in Nat
      BY <1>2 DEF User
    <3>3. r \in User /\ r.preference = "disabled" /\ r.suppressedAt = since
      BY <1>2, <1>3, <2>2, <3>2 DEF User
    <3>4. users'[u] = r
      BY <1>1, <3>1 DEF TypeInv, UsersInv
    <3> HIDE DEF r, stamp, since
    <3> QED BY <1>4, <2>2, <3>1, <3>3, <3>4, UserMoves DEF TypeInv
  <2> QED BY <2>1, <2>2
<1> HIDE DEF since, stamp
<1>7. q.suppressedAt # None /\ users'[q.user].suppressedAt = q.suppressedAt
  BY <1>3, <1>5, <1>6, NothingIsNoTime
<1> QED BY <1>4, <1>5, <1>6, <1>7, RunMoves

\* After the events of the user have been deleted, the user is clean.
LEMMA DeleteEventsKeeps ==
  ASSUME IInv, NEW d \in Requests, DeleteEvents(d)
  PROVE  IInv' /\ SuppressionIsKept
<1> USE DEF IInv
<1>1. PICK u \in Users : u = deletions[d].user
  BY DEF DeleteEvents, TypeInv, DeletionsType
<1>2. PICK q \in Deletion : /\ deletions' = [deletions EXCEPT ![d] = q]
                            /\ q.at = "find" /\ q.user = u /\ q.suppressedAt = deletions[d].suppressedAt
  BY <1>1, DeletionOf DEF DeleteEvents, DeletionAt, TypeInv, DeletionsType
<1>3. /\ deletions[d].at = "written" /\ events' = EventsWithout(u)
      /\ UNCHANGED <<clock, users, updates, recordings, targets, orphaned>>
  BY <1>1 DEF DeleteEvents, deletionRest
<1>4. users'[u].suppressedAt = q.suppressedAt /\ q.suppressedAt # None
  BY <1>1, <1>2, <1>3 DEF TombstonesAreKnown, Suppressed
<1>5. events' \subseteq events /\ Clean(u)'
  BY <1>3 DEF EventsWithout, Clean
<1>6. UsersInv' /\ SuppressionIsKept
  BY <1>3, UsersStay DEF TypeInv, UsersInv
<1> QED BY <1>2, <1>3, <1>4, <1>5, <1>6, RunMoves

\* The target carries what the run does; a run that ends leaves it.
LEMMA HandOverKeeps ==
  ASSUME IInv, NEW d \in Requests, FindTarget(d) \/ UpsertTarget(d) \/ EndDeletion(d) \/ FailDeletion(d)
  PROVE  IInv' /\ SuppressionIsKept
<1> USE DEF IInv
<1>1. /\ UNCHANGED <<clock, users, updates, recordings, events, orphaned>>
      /\ deletions[d].at # "idle" /\ deletions[d].user \in Users
  BY DEF FindTarget, UpsertTarget, EndDeletion, FailDeletion, deletionRest, eventsRest, TypeInv, DeletionsType
<1>2. UsersInv' /\ SuppressionIsKept
  BY <1>1, UsersStay DEF TypeInv, UsersInv
<1>3. ASSUME UNCHANGED targets, DeletionOver(d)
      PROVE  IInv' /\ SuppressionIsKept
  BY <1>1, <1>2, <1>3, DeletionEnds, RunMoves DEF DeletionOver
<1>4. ASSUME NEW at \in {"upsert", "confirm"}, DeletionAt(d, at), deletions[d].at \in {"find", "upsert"}
      PROVE  \E q \in Deletion : /\ deletions' = [deletions EXCEPT ![d] = q]
                                 /\ q.at = at /\ q.user = deletions[d].user
                                 /\ users'[q.user].suppressedAt = q.suppressedAt
                                 /\ q.suppressedAt \in Time
                                 /\ q.suppressedAt = deletions[d].suppressedAt
                                 /\ Deleted(q.user)
  <2> DEFINE q == [deletions[d] EXCEPT !.at = at]
  <2>1. /\ q \in Deletion /\ q.at = at /\ q.user = deletions[d].user
        /\ q.suppressedAt = deletions[d].suppressedAt
    BY DEF TypeInv, DeletionsType, Deletion
  <2>2. deletions' = [deletions EXCEPT ![d] = q]
    BY <1>4 DEF DeletionAt, TypeInv, DeletionsType
  <2>3. /\ users'[q.user].suppressedAt = q.suppressedAt /\ q.suppressedAt # None
    BY <1>1, <1>4, <2>1 DEF TombstonesAreKnown, Suppressed
  <2>4. q.suppressedAt \in Time
    BY <2>1, <2>3 DEF Deletion
  <2>5. Deleted(q.user)
    BY <1>4, <2>1 DEF Deleted
  <2> HIDE DEF q
  <2> QED BY <2>1, <2>2, <2>3, <2>4, <2>5
<1>5. CASE FindTarget(d) /\ targets[d] = None
  <2>1. UNCHANGED targets /\ deletions[d].at = "find" /\ DeletionAt(d, "upsert")
    BY <1>5 DEF FindTarget
  <2>2. PICK q \in Deletion : /\ deletions' = [deletions EXCEPT ![d] = q]
                              /\ q.at = "upsert" /\ q.user = deletions[d].user
                              /\ users'[q.user].suppressedAt = q.suppressedAt
                              /\ q.suppressedAt \in Time
                              /\ Deleted(q.user)
    BY <1>4, <2>1
  <2> QED BY <1>1, <1>2, <2>1, <2>2, NothingIsNoTime, RunMoves
<1>6. CASE UpsertTarget(d)
  <2>1. deletions[d].at = "upsert" /\ DeletionAt(d, "confirm")
    BY <1>6 DEF UpsertTarget
  <2>2. PICK q \in Deletion : /\ deletions' = [deletions EXCEPT ![d] = q]
                              /\ q.at = "confirm" /\ q.user = deletions[d].user
                              /\ users'[q.user].suppressedAt = q.suppressedAt
                              /\ q.suppressedAt \in Time
                              /\ q.suppressedAt = deletions[d].suppressedAt
                              /\ Deleted(q.user)
    BY <1>4, <2>1
  <2>3. PICK t \in Target : /\ t.user = q.user /\ t.suppressedAt = q.suppressedAt
                            /\ targets' = IF targets[d] = None THEN [targets EXCEPT ![d] = t] ELSE targets
    <3>1. TargetOf(d) \in Target /\ TargetOf(d).user = q.user /\ TargetOf(d).suppressedAt = q.suppressedAt
      BY <1>1, <2>2 DEF TargetOf, Target
    <3> QED BY <1>6, <3>1 DEF UpsertTarget
  <2>4. /\ targets' \in [Requests -> Target \cup {None}]
        /\ \A x \in Requests \ {d} : targets'[x] = targets[x]
        /\ targets'[d] = t \/ UNCHANGED targets
    BY <2>3 DEF TypeInv, StoresType
  <2>5. targets'[d] # None => users'[targets'[d].user].suppressedAt = targets'[d].suppressedAt
    BY <1>1, <2>2, <2>3, <2>4 DEF TombstonesAreKnown
  <2>6. ASSUME NEW u \in Users, \/ q.at \in {"find", "upsert", "confirm"} /\ q.user = u
                                \/ targets'[d] # None /\ targets'[d].user = u
        PROVE  Deleted(u)
    BY <2>2, <2>3, <2>4, <2>6 DEF Deleted
  <2> QED BY <1>1, <1>2, <2>2, <2>4, <2>5, <2>6, NothingIsNoTime, DeletionMoves
<1> QED BY <1>3, <1>5, <1>6 DEF FindTarget, EndDeletion, FailDeletion, eventsRest

-----------------------------------------------------------------------------
(* Theorems. *)

LEMMA Initially == Init => IInv
<1> SUFFICES ASSUME Init PROVE IInv
  OBVIOUS
<1> USE DEF Init, ConsentInit
<1>1. \A u \in Users : users[u] \in User /\ users[u].suppressedAt = None
  BY CreatedIsUser
<1>2. UsersInv
  BY <1>1 DEF UsersInv, Suppressed, Time
<1>3. UpdatesType
  <2>1. Unsent \in Update /\ Unsent.at = "unsent"
    BY DEF Unsent, Update, Time
  <2> QED BY <2>1 DEF UpdatesType
<1>4. DeletionsType
  BY DeletionEnds DEF DeletionsType
<1>5. RecordingsType
  <2>1. NoRecording \in Recording /\ NoRecording.at = "idle"
    BY DEF NoRecording, Recording
  <2> QED BY <2>1 DEF RecordingsType
<1>6. StoresType
  BY DEF StoresType
<1>7. TombstonesAreKnown /\ DeletedIsClean
  BY DeletionEnds DEF TombstonesAreKnown, DeletedIsClean, Clean
<1> QED BY <1>2, <1>3, <1>4, <1>5, <1>6, <1>7 DEF IInv, TypeInv

\* Every step keeps the invariant, and every tombstone.
THEOREM Inductive == IInv /\ [Next]_vars => IInv' /\ SuppressionIsKept
<1> SUFFICES ASSUME IInv, [Next]_vars PROVE IInv' /\ SuppressionIsKept
  OBVIOUS
<1>1. CASE UNCHANGED vars
  <2>1. UNCHANGED <<clock, users, updates, deletions, recordings, events, targets, orphaned>>
    BY <1>1 DEF vars, consentVars
  <2>2. UsersInv' /\ SuppressionIsKept
    BY <2>1, UsersStay DEF IInv, TypeInv, UsersInv
  <2>3. TypeInv'
    BY <2>1, <2>2 DEF IInv, TypeInv, UpdatesType, DeletionsType, RecordingsType, StoresType
  <2> QED BY <2>1, <2>2, <2>3, TombstonesStay, DeletedStays DEF IInv
<1>2. CASE (Tick \/ ConsentArrivals) /\ UNCHANGED eventsRest
  BY <1>2, UpdatesKeep, ArrivalKeeps DEF ConsentArrivals
<1>3. CASE \/ \E o \in Operations : AnswerUpdate(o) \/ LoseUpdate(o) \/ ResendUpdate(o)
           \/ \E u \in Users : Backfill(u)
  BY <1>3, UpdatesKeep
<1>4. CASE \E r \in Recordings :
             \/ RecordArrives(r) \/ ReadPreference(r) \/ InsertEvent(r)
             \/ Recheck(r) \/ DeleteRecorded(r) \/ FailRecording(r)
  BY <1>4, BeforeInsertKeeps, InsertKeeps, AfterInsertKeeps, FailRecordingKeeps
<1>5. CASE \E d \in Requests :
             SuppressThenDelete(d) \/ DeleteEvents(d) \/ FindTarget(d)
             \/ UpsertTarget(d) \/ EndDeletion(d) \/ FailDeletion(d)
  BY <1>5, SuppressKeeps, DeleteEventsKeeps, HandOverKeeps
<1> QED BY <1>1, <1>2, <1>3, <1>4, <1>5 DEF Next

\* The inductive invariant holds however recordings, updates and deletions interleave.
THEOREM Invariance == Spec => []IInv
BY Initially, Inductive, PTL DEF Spec

\* Every variable keeps its type.
THEOREM TypeCorrect == Spec => []TypeOK
<1>1. IInv => TypeOK
  BY DEF IInv, TypeInv, UsersInv, UpdatesType, DeletionsType, RecordingsType, StoresType,
    User, Update, Deletion, Recording, Target, ConsentTypeOK, TypeOK
<1> QED BY <1>1, Invariance, PTL

\* A suppression is never undone, and what has been handed over is clean.
THEOREM DeletionStaysFinal == Spec => DeletionIsFinal
<1>1. IInv => HandedOverIsClean
  <2> SUFFICES ASSUME IInv, NEW d \in Requests, targets[d] # None
               PROVE  LET u == targets[d].user IN
                      /\ users[u].suppressedAt = targets[d].suppressedAt
                      /\ EventsWithout(u) # events =>
                           \/ u \in orphaned
                           \/ \E r \in Recordings : recordings[r].user = u /\ recordings[r].at \in {"recheck", "delete"}
    BY DEF HandedOverIsClean
  <2> DEFINE u == targets[d].user
  <2>1. u \in Users /\ Deleted(u)
    BY DEF IInv, TypeInv, StoresType, Target, Deleted
  <2>2. Clean(u) /\ users[u].suppressedAt = targets[d].suppressedAt
    BY <2>1 DEF IInv, DeletedIsClean, TombstonesAreKnown
  <2>3. (\A e \in events : e.user # u) => EventsWithout(u) = events
    BY DEF EventsWithout
  <2> QED BY <2>2, <2>3 DEF Clean
<1>2. IInv /\ IInv' /\ [Next]_vars => [SuppressionIsKept /\ HandedOverIsClean']_vars
  <2>1. IInv' => HandedOverIsClean'
    BY <1>1, PTL
  <2> QED BY <2>1, Inductive
<1> QED BY <1>2, Invariance, PTL DEF Spec, DeletionIsFinal
-----------------------------------------------------------------------------
(* The export.  What the reconciliation finds rests on the order of the      *)
(* times that the users carry: whoever has changed after the cutoff still    *)
(* has when the reconciliation gets there, but for a tombstone that was      *)
(* written late.                                                             *)

Run == [at : Phases, cutoff : Time, keys : SUBSET Users, updatedAt : Time, cursor : Users \cup {0},
        rows : SUBSET Users, external : Nat, enabled : Int, late : SUBSET Users, internal : SUBSET Users]
Publication == [cutoff : Time \cup {None}, rows : SUBSET Users, enabled : Nat,
                late : SUBSET Users, internal : SUBSET Users]

SentType ==
  /\ updates \in [Operations -> Update]
  /\ \A o \in Operations : updates[o].at = "write" => updates[o].user \in Users

StampsArePast ==
  /\ \A u \in Users : users[u].updatedAt <= clock
  /\ \A o \in Operations : updates[o].at = "write" => updates[o].stamp <= clock
  /\ \A d \in Requests : deletions[d].at = "write" => deletions[d].stamp <= clock

\* An update that would still be applied was sent after what it changes was.
UpdatesFollow ==
  \A o \in Operations : updates[o].at = "write" =>
    LET q == updates[o]
        user == users[q.user]
    IN /\ q.expected <= user.revision
       /\ q.expected = user.revision => user.updatedAt <= q.stamp

\* Suppressing a user is a change: it moves the time of the last one.
TombstonesAreDated ==
  \A u \in Users : Suppressed(u) => users[u].suppressedAt <= users[u].updatedAt

ConsentInv ==
  UsersInv /\ SentType /\ DeletionsType /\ StampsArePast /\ UpdatesFollow /\ TombstonesAreDated

ExportTypes ==
  /\ control \in [keys : SUBSET Users, updatedAt : Time]
  /\ lease \in [holder : Runs \cup {None}, expires : Nat \cup {None}, last : Time \cup {None}]
  /\ runs \in [Runs -> Run]
  /\ published \in Publication
  /\ changes \in 0 .. MaxChanges

\* A run has staged nobody twice and counted everybody whom it has staged.
RowsFit(run) ==
  /\ run.at \notin Staging => run.rows = {}
  /\ run.rows \cap run.keys = {}
  /\ run.enabled = Cardinality(run.rows) /\ Cardinality(run.rows) <= run.external
  /\ run.at = "users" => \A u \in run.rows : u <= run.cursor
  /\ run.at \in {"validate", "promote"} => run.internal = run.keys

\* The tombstone of u carries a time before the cutoff.
Excused(u, cutoff) == Suppressed(u) /\ users[u].suppressedAt <= cutoff

\* Whom the reconciliation has passed is excused; it will find the others.
LateFit(run) ==
  /\ run.at = "reconcile" => \A u \in run.rows \cap run.late :
       Excused(u, run.cutoff) \/ (u > run.cursor /\ users[u].updatedAt > run.cutoff)
  /\ run.at \in {"recheck", "validate", "promote"} =>
       \A u \in run.rows \cap run.late : Excused(u, run.cutoff)

RunsFit == \A r \in Runs : RowsFit(runs[r]) /\ LateFit(runs[r])

LeaseFits ==
  \A r \in Runs : runs[r].at \in Staging /\ clock < Expires(r) => lease.holder = r /\ lease.expires = Expires(r)

PublishedFits ==
  /\ \A u \in published.late : published.cutoff \in Time /\ Excused(u, published.cutoff)
  /\ published.internal = {}

ExportInv == ConsentInv /\ ExportTypes /\ RunsFit /\ LeaseFits /\ PublishedFits

-----------------------------------------------------------------------------
(* Finite sets of numbers. *)

USE AnalyticsExportAssumption

LEMMA UsersAreNumbers == Users \subseteq Nat /\ Users \cup {0} \subseteq Nat
OBVIOUS

\* A non-empty set of numbers has a least one.
LEMMA LeastElement ==
  ASSUME NEW S, S \subseteq Nat, S # {}
  PROVE  \E m \in S : \A n \in S : m <= n
<1> DEFINE R == OpToRel(<, Nat)
<1>1. IsWellFoundedOn(R, Nat)
  BY NatLessThanWellFounded
<1>2. \A x, y \in Nat : x < y => <<x, y>> \in R
  BY DEF OpToRel
<1> HIDE DEF R
<1>3. PICK m \in S : \A n \in S : ~(<<n, m>> \in R)
  BY <1>1, WFMin
<1>4. ASSUME NEW n \in S PROVE m <= n
  <2>1. m \in Nat /\ n \in Nat /\ ~(n < m)
    BY <1>2, <1>3
  <2> QED BY <2>1
<1> QED BY <1>4

\* A finite one has a greatest: otherwise let T be a smallest one that has none,
\* and take an element away.
LEMMA GreatestElement ==
  ASSUME NEW S, S \subseteq Nat, IsFiniteSet(S), S # {}
  PROVE  \E m \in S : \A n \in S : n <= m
<1> DEFINE Open == {T \in SUBSET S : T # {} /\ \A m \in T : \E n \in T : ~(n <= m)}
           Sizes == {Cardinality(T) : T \in Open}
<1> SUFFICES ASSUME S \in Open PROVE FALSE
  OBVIOUS
<1>1. \A T \in SUBSET S : IsFiniteSet(T) /\ Cardinality(T) \in Nat
  BY FS_Subset, FS_CardinalityType
<1>2. PICK k \in Sizes : \A n \in Sizes : k <= n
  <2>1. Sizes \subseteq Nat /\ Sizes # {}
    BY <1>1
  <2> HIDE DEF Sizes
  <2> QED BY <2>1, LeastElement
<1>3. PICK T \in Open : k = Cardinality(T) /\ k \in Nat
  BY <1>1, <1>2
<1>4. PICK x \in T : TRUE
  BY <1>3
<1>5. T \ {x} \in SUBSET S /\ Cardinality(T \ {x}) = Cardinality(T) - 1
  BY <1>1, <1>3, FS_RemoveElement
<1>6. T \ {x} \notin Open
  <2>1. ASSUME T \ {x} \in Open PROVE k <= k - 1
    <3>1. Cardinality(T \ {x}) \in Sizes
      BY <2>1
    <3> QED BY <1>2, <1>3, <1>5, <3>1
  <2> QED BY <1>3, <2>1
<1>7. CASE T \ {x} = {}
  BY <1>3, <1>4, <1>7
<1>8. CASE T \ {x} # {}
  <2>1. PICK m \in T \ {x} : \A n \in T \ {x} : n <= m
    BY <1>5, <1>6, <1>8
  <2>2. m \in Nat /\ x \in Nat
    BY <1>3, <1>4, <2>1
  <2>3. \A n \in T : n <= IF x <= m THEN m ELSE x
    BY <1>3, <1>4, <2>1, <2>2
  <2> QED BY <1>3, <1>4, <2>1, <2>3
<1> QED BY <1>7, <1>8

LEMMA DisjointUnion ==
  ASSUME NEW S, NEW T, IsFiniteSet(S), IsFiniteSet(T), S \cap T = {}
  PROVE  Cardinality(S \cup T) = Cardinality(S) + Cardinality(T)
<1>1. /\ Cardinality(S \cup T) = Cardinality(S) + Cardinality(T) - Cardinality(S \cap T)
      /\ Cardinality(S) \in Nat /\ Cardinality(T) \in Nat
  BY FS_Union, FS_CardinalityType
<1>2. Cardinality(S \cap T) = 0
  BY FS_EmptySet
<1> QED BY <1>1, <1>2

\* A batch of some users is not empty, and contains whoever is not after its last one.
LEMMA BatchIsPrefix ==
  ASSUME NEW S \in SUBSET Users
  PROVE  /\ Batch(S) \subseteq S
         /\ Batch(S) = {} => S = {}
         /\ Batch(S) # {} => /\ LastOf(Batch(S)) \in Batch(S)
                             /\ \A u \in S : u \in Batch(S) <=> u <= LastOf(Batch(S))
<1> DEFINE Before(u) == {v \in S : v < u}
<1>1. \A u \in S : IsFiniteSet(Before(u)) /\ Cardinality(Before(u)) \in Nat
  BY FS_Subset, FS_CardinalityType
<1>2. ASSUME S # {} PROVE Batch(S) # {}
  <2>1. PICK m \in S : \A n \in S : m <= n
    BY <1>2, LeastElement
  <2>2. Before(m) = {}
    <3>1. ASSUME NEW v \in S PROVE ~(v < m)
      <4>1. m \in Nat /\ v \in Nat /\ m <= v
        BY <2>1
      <4> QED BY <4>1
    <3> QED BY <3>1
  <2> QED BY <2>1, <2>2, FS_EmptySet DEF Batch
<1>3. ASSUME Batch(S) # {}
      PROVE  /\ LastOf(Batch(S)) \in Batch(S)
             /\ \A u \in Batch(S) : u <= LastOf(Batch(S))
  <2>1. Batch(S) \subseteq Nat /\ IsFiniteSet(Batch(S))
    BY FS_Subset DEF Batch
  <2>2. PICK m \in Batch(S) : \A n \in Batch(S) : n <= m
    BY <1>3, <2>1, GreatestElement
  <2>3. \A n \in Batch(S) : m >= n
    BY <2>1, <2>2
  <2>4. LastOf(Batch(S)) \in Batch(S) /\ \A n \in Batch(S) : LastOf(Batch(S)) >= n
    BY <2>3 DEF LastOf, Max
  <2> QED BY <2>1, <2>4
<1>4. ASSUME NEW u \in S, NEW l \in Batch(S), u <= l
      PROVE  u \in Batch(S)
  <2>1. l \in S /\ Cardinality(Before(l)) < BatchLimit
    BY DEF Batch
  <2>2. Before(u) \subseteq Before(l)
    <3>1. ASSUME NEW v \in S, v < u PROVE v < l
      <4>1. u \in Nat /\ v \in Nat /\ l \in Nat
        BY <2>1
      <4> QED BY <1>4, <3>1, <4>1
    <3> QED BY <3>1
  <2>3. Cardinality(Before(u)) <= Cardinality(Before(l))
    BY <1>1, <2>1, <2>2, FS_Subset
  <2>4. Cardinality(Before(u)) < BatchLimit
    BY <1>1, <2>1, <2>3
  <2> QED BY <2>4 DEF Batch
<1> QED BY <1>2, <1>3, <1>4 DEF Batch
-----------------------------------------------------------------------------
(* What happens to the users while they are exported. *)

\* What a run has learned of the users stays true of them.
TimesMoveOn ==
  \A u \in Users, c \in Time :
    /\ Excused(u, c) => Excused(u, c)'
    /\ users[u].updatedAt > c => users'[u].updatedAt > c \/ Excused(u, c)'

LEMMA TimesAreNumbers == Time \subseteq Nat
BY DEF Time

\* Requests arrive or end; what is under way stays as it was sent.
LEMMA UsersWait ==
  ASSUME ConsentInv, UNCHANGED users, clock' \in Time, clock <= clock', SentType', DeletionsType',
         \A o \in Operations : updates'[o].at = "write" =>
           \/ updates'[o] = updates[o]
           \/ updates'[o].stamp = clock' /\ updates'[o].expected = users[updates'[o].user].revision,
         \A d \in Requests : deletions'[d].at = "write" =>
           deletions'[d] = deletions[d] \/ deletions'[d].stamp = clock'
  PROVE  ConsentInv' /\ TimesMoveOn
<1> USE DEF ConsentInv
<1>1. UsersInv' /\ TombstonesAreDated' /\ TimesMoveOn
  BY UsersStay DEF TombstonesAreDated, TimesMoveOn, Excused, Suppressed
<1>2. clock \in Nat /\ clock' \in Nat /\ \A u \in Users : users[u].updatedAt \in Nat /\ users[u].revision \in Nat
  BY TimesAreNumbers DEF UsersInv, User
<1>3. ASSUME NEW u \in Users PROVE users[u].updatedAt <= clock'
  <2>1. users[u].updatedAt <= clock
    BY DEF StampsArePast
  <2> QED BY <1>2, <2>1
<1>4. ASSUME NEW o \in Operations, updates'[o].at = "write"
      PROVE  /\ updates'[o].stamp <= clock'
             /\ updates'[o].expected <= users[updates'[o].user].revision
             /\ updates'[o].expected = users[updates'[o].user].revision
                  => users[updates'[o].user].updatedAt <= updates'[o].stamp
  <2>1. updates'[o].user \in Users /\ updates'[o].stamp \in Nat
    BY <1>4 DEF SentType, Update, Time
  <2>2. CASE updates'[o] = updates[o]
    <3>1. updates[o].at = "write" /\ updates[o].user \in Users /\ updates[o].stamp \in Nat
      BY <1>4, <2>1, <2>2
    <3>2. /\ updates[o].stamp <= clock
          /\ updates[o].expected <= users[updates[o].user].revision
          /\ updates[o].expected = users[updates[o].user].revision
               => users[updates[o].user].updatedAt <= updates[o].stamp
      BY <3>1 DEF StampsArePast, UpdatesFollow
    <3>3. updates[o].stamp <= clock'
      BY <1>2, <3>1, <3>2
    <3> QED BY <2>2, <3>2, <3>3
  <2>3. CASE updates'[o].stamp = clock' /\ updates'[o].expected = users[updates'[o].user].revision
    <3>1. /\ users[updates'[o].user].revision \in Nat /\ clock' \in Nat
          /\ users[updates'[o].user].updatedAt <= clock'
      BY <1>2, <1>3, <2>1
    <3>2. clock' <= clock' /\ users[updates'[o].user].revision <= users[updates'[o].user].revision
      BY <3>1
    <3> QED BY <2>3, <3>1, <3>2, Zenon
  <2> QED BY <1>4, <2>2, <2>3
<1>5. ASSUME NEW d \in Requests, deletions'[d].at = "write" PROVE deletions'[d].stamp <= clock'
  <2>1. deletions'[d].stamp \in Nat
    BY DEF DeletionsType, Deletion, Time
  <2> QED BY <1>2, <1>5, <2>1 DEF StampsArePast
<1> QED BY <1>1, <1>3, <1>4, <1>5 DEF StampsArePast, UpdatesFollow

\* One user changes, with a time that is not before the last one or is that of a
\* tombstone; no update that was sent before still applies.
LEMMA UserTurns ==
  ASSUME ConsentInv, UNCHANGED clock, SentType', DeletionsType',
         \A o \in Operations : updates'[o].at = "write" => updates'[o] = updates[o],
         \A d \in Requests : deletions'[d].at = "write" => deletions'[d] = deletions[d],
         NEW u \in Users, NEW r \in User, users' = [users EXCEPT ![u] = r],
         r.suppressedAt # None => r.preference = "disabled",
         Suppressed(u) => r.suppressedAt = users[u].suppressedAt,
         r.updatedAt <= clock, users[u].revision < r.revision,
         users[u].updatedAt <= r.updatedAt \/ r.suppressedAt = r.updatedAt,
         r.suppressedAt # None => r.suppressedAt <= r.updatedAt
  PROVE  ConsentInv' /\ TimesMoveOn
<1> USE DEF ConsentInv
<1>1. UsersInv'
  BY UserMoves
<1>2. \A x \in Users : users'[x] = IF x = u THEN r ELSE users[x]
  BY DEF UsersInv
<1>3. \A x \in Users : users[x] \in User
  BY DEF UsersInv
<1>4. r.updatedAt \in Nat /\ r.revision \in Nat /\ clock \in Nat
  BY DEF UsersInv, User, Time
<1>5. \A x \in Users : users[x].updatedAt \in Nat /\ users[x].revision \in Nat
  BY <1>3 DEF User, Time
<1>6. TimesMoveOn
  <2> SUFFICES ASSUME NEW c \in Time
               PROVE  /\ Excused(u, c) => Excused(u, c)'
                      /\ users[u].updatedAt > c => r.updatedAt > c \/ Excused(u, c)'
    BY <1>2 DEF TimesMoveOn, Excused, Suppressed
  <2>1. Excused(u, c)' <=> r.suppressedAt # None /\ r.suppressedAt <= c
    BY <1>2 DEF Excused, Suppressed
  <2>2. Excused(u, c) => Excused(u, c)'
    BY <2>1 DEF Excused, Suppressed
  <2>3. ASSUME users[u].updatedAt > c, ~(r.updatedAt > c) PROVE Excused(u, c)'
    <3>1. c \in Nat /\ None \notin Nat
      BY DEF Time
    <3> QED BY <1>4, <1>5, <2>1, <2>3, <3>1
  <2> QED BY <2>2, <2>3
<1>7. StampsArePast'
  BY <1>2 DEF StampsArePast
<1>8. UpdatesFollow'
  <2> SUFFICES ASSUME NEW o \in Operations, updates'[o].at = "write"
               PROVE  /\ updates[o].expected <= users'[updates[o].user].revision
                      /\ updates[o].expected = users'[updates[o].user].revision
                           => users'[updates[o].user].updatedAt <= updates[o].stamp
    BY DEF UpdatesFollow
  <2>1. updates[o].user \in Users /\ updates[o].expected \in Nat
    BY DEF SentType, Update
  <2>2. CASE updates[o].user = u
    BY <1>2, <1>4, <1>5, <2>1, <2>2 DEF UpdatesFollow
  <2>3. CASE updates[o].user # u
    BY <1>2, <2>1, <2>3 DEF UpdatesFollow
  <2> QED BY <2>2, <2>3
<1>9. TombstonesAreDated'
  BY <1>2 DEF TombstonesAreDated, Suppressed
<1> QED BY <1>1, <1>6, <1>7, <1>8, <1>9

\* The clock and the requests that arrive leave the users as they are.
LEMMA ArrivalsKeep ==
  ASSUME ConsentInv, Tick \/ ConsentArrivals
  PROVE  ConsentInv' /\ TimesMoveOn
<1> USE DEF ConsentInv
<1>1. clock \in Time /\ clock <= clock /\ \A u \in Users : users[u].revision \in Nat
  BY TimesAreNumbers DEF UsersInv, User
<1>2. CASE Tick
  <2>1. clock' \in Time /\ clock <= clock' /\ UNCHANGED <<users, updates, deletions>>
    BY <1>1, <1>2 DEF Tick, Time
  <2> QED BY <2>1, UsersWait DEF SentType, DeletionsType
<1>3. ASSUME NEW o \in Operations, SendUpdate(o) PROVE ConsentInv' /\ TimesMoveOn
  <2>1. PICK u \in Users, to \in {"enabled", "disabled"} :
          updates' = [updates EXCEPT ![o] =
            [at |-> "write", user |-> u, to |-> to, expected |-> users[u].revision, stamp |-> clock]]
    BY <1>3 DEF SendUpdate
  <2> DEFINE q == [at |-> "write", user |-> u, to |-> to, expected |-> users[u].revision, stamp |-> clock]
  <2>2. q \in Update /\ q.user = u /\ q.stamp = clock /\ q.expected = users[u].revision
    BY <1>1 DEF Update
  <2>3. updates' \in [Operations -> Update] /\ \A x \in Operations : updates'[x] = IF x = o THEN q ELSE updates[x]
    BY <2>1, <2>2 DEF SentType
  <2>4. UNCHANGED <<clock, users, deletions>>
    BY <1>3 DEF SendUpdate
  <2> HIDE DEF q
  <2>5. SentType' /\ DeletionsType'
    BY <2>2, <2>3, <2>4 DEF SentType, DeletionsType
  <2> QED BY <1>1, <2>2, <2>3, <2>4, <2>5, UsersWait
<1>4. ASSUME NEW d \in Requests, SuppressionArrives(d) PROVE ConsentInv' /\ TimesMoveOn
  <2>1. PICK u \in Users :
          deletions' = [deletions EXCEPT ![d] = [at |-> "write", user |-> u, stamp |-> clock, suppressedAt |-> None]]
    BY <1>4 DEF SuppressionArrives
  <2> DEFINE q == [at |-> "write", user |-> u, stamp |-> clock, suppressedAt |-> None]
  <2>2. q \in Deletion /\ q.user = u /\ q.stamp = clock
    BY <1>1 DEF Deletion
  <2>3. deletions' \in [Requests -> Deletion] /\ \A x \in Requests : deletions'[x] = IF x = d THEN q ELSE deletions[x]
    BY <2>1, <2>2 DEF DeletionsType
  <2>4. UNCHANGED <<clock, users, updates>>
    BY <1>4 DEF SuppressionArrives
  <2> HIDE DEF q
  <2>5. SentType' /\ DeletionsType'
    BY <2>2, <2>3, <2>4 DEF SentType, DeletionsType
  <2> QED BY <1>1, <2>2, <2>3, <2>4, <2>5, UsersWait
<1> QED BY <1>2, <1>3, <1>4 DEF ConsentArrivals

\* An update that matches was sent after what it changes.
LEMMA UpdateAndEndKeeps ==
  ASSUME ConsentInv, NEW o \in Operations, UpdateAndEnd(o)
  PROVE  ConsentInv' /\ TimesMoveOn
<1> USE DEF ConsentInv
<1> DEFINE q == updates[o]
           u == q.user
<1>1. q \in Update /\ q.at = "write" /\ u \in Users /\ UNCHANGED <<clock, deletions>>
  BY DEF UpdateAndEnd, ApplyUpdate, SentType
<1>2. users[u] \in User /\ (Suppressed(u) => users[u].preference = "disabled")
  BY <1>1 DEF UsersInv
<1>3. /\ SentType' /\ DeletionsType'
      /\ \A x \in Operations : updates'[x].at = "write" => updates'[x] = updates[x]
  <2>1. [Unsent EXCEPT !.at = "answered"] \in Update /\ [Unsent EXCEPT !.at = "answered"].at # "write"
    BY DEF Unsent, Update, Time
  <2>2. updates' = [updates EXCEPT ![o] = [Unsent EXCEPT !.at = "answered"]]
    BY DEF UpdateAndEnd
  <2> QED BY <1>1, <2>1, <2>2 DEF SentType, DeletionsType
<1>4. CASE Matches(o)
  <2>1. users' = [users EXCEPT ![u] = [users[u] EXCEPT !.preference = q.to, !.updatedAt = q.stamp,
                                                       !.revision = @ + 1, !.lastOperation = o]]
    BY <1>1, <1>2, <1>4 DEF UpdateAndEnd, ApplyUpdate, UsersInv
  <2>2. q.to = "enabled" => users[u].suppressedAt = None
    BY <1>4 DEF Matches
  <2>3. q.to \in {"enabled", "disabled"} /\ q.stamp \in Time
    BY <1>1 DEF Update
  <2>4. users[u].updatedAt <= q.stamp /\ q.stamp <= clock
    BY <1>1, <1>4 DEF Matches, UpdatesFollow, StampsArePast
  <2>0. u \in Users
    BY <1>1
  <2> HIDE DEF q, u
  <2> DEFINE r == [users[u] EXCEPT !.preference = q.to, !.updatedAt = q.stamp, !.revision = @ + 1, !.lastOperation = o]
  <2>5. /\ r \in User /\ r.preference = q.to /\ r.suppressedAt = users[u].suppressedAt
        /\ r.updatedAt = q.stamp /\ users[u].revision < r.revision
    <3>1. users[u].revision + 1 \in Nat /\ users[u].revision < users[u].revision + 1
      BY <1>2 DEF User
    <3> QED BY <1>2, <2>3, <3>1 DEF User
  <2>6. users' = [users EXCEPT ![u] = r]
    BY <2>1
  <2> HIDE DEF r
  <2>7. r.suppressedAt # None => r.preference = "disabled"
    BY <2>2, <2>3, <2>5
  <2>8. ASSUME r.suppressedAt # None PROVE r.suppressedAt <= r.updatedAt
    <3>1. r.suppressedAt <= users[u].updatedAt /\ users[u].updatedAt <= r.updatedAt
      BY <1>1, <2>0, <2>4, <2>5, <2>8 DEF TombstonesAreDated, Suppressed
    <3>2. r.suppressedAt \in Nat /\ users[u].updatedAt \in Nat /\ r.updatedAt \in Nat
      BY <1>2, <2>5, <2>8, TimesAreNumbers DEF User
    <3> QED BY <3>1, <3>2
  <2> QED BY <1>1, <1>3, <2>4, <2>5, <2>6, <2>7, <2>8, UserTurns
<1>5. CASE ~Matches(o)
  <2>1. UNCHANGED users
    BY <1>5 DEF UpdateAndEnd, ApplyUpdate
  <2>2. clock \in Time /\ clock <= clock
    BY TimesAreNumbers DEF UsersInv
  <2> QED BY <1>1, <1>3, <2>1, <2>2, UsersWait
<1> QED BY <1>4, <1>5

\* A tombstone carries the time at which its request arrived, which may be long ago.
LEMMA SuppressAndEndKeeps ==
  ASSUME ConsentInv, NEW d \in Requests, SuppressAndEnd(d)
  PROVE  ConsentInv' /\ TimesMoveOn
<1> USE DEF ConsentInv
<1> DEFINE stamp == deletions[d].stamp
<1>1. PICK u \in Users : u = deletions[d].user
  BY DEF SuppressAndEnd, Suppress, DeletionsType
<1>2. deletions[d] \in Deletion /\ stamp \in Time /\ users[u] \in User /\ deletions[d].at = "write"
  BY DEF SuppressAndEnd, Suppress, DeletionsType, UsersInv, Deletion
<1>3. UNCHANGED <<clock, updates>> /\ clock \in Time /\ clock <= clock /\ stamp <= clock
  BY <1>2, TimesAreNumbers DEF SuppressAndEnd, Suppress, UsersInv, StampsArePast
<1>4. /\ SentType' /\ DeletionsType'
      /\ \A x \in Requests : deletions'[x].at = "write" => deletions'[x] = deletions[x]
  BY <1>3, DeletionEnds DEF SuppressAndEnd, DeletionOver, DeletionsType, SentType
<1>5. CASE Suppressed(u)
  <2>1. UNCHANGED users
    BY <1>1, <1>5 DEF SuppressAndEnd, Suppress
  <2> QED BY <1>3, <1>4, <2>1, UsersWait
<1>6. CASE ~Suppressed(u)
  <2> DEFINE r == [preference |-> "disabled", updatedAt |-> stamp, revision |-> users[u].revision + 1,
                   lastOperation |-> None, suppressedAt |-> stamp]
  <2>1. users' = [users EXCEPT ![u] = r]
    BY <1>1, <1>6 DEF SuppressAndEnd, Suppress, UsersInv
  <2>2. users[u].revision + 1 \in Nat /\ users[u].revision < users[u].revision + 1
    BY <1>2 DEF User
  <2>3. /\ r \in User /\ r.preference = "disabled" /\ r.suppressedAt = r.updatedAt /\ r.updatedAt = stamp
        /\ users[u].revision < r.revision
    BY <1>2, <2>2 DEF User
  <2>4. stamp \in Nat
    BY <1>2, TimesAreNumbers
  <2> HIDE DEF r, stamp
  <2>5. r.suppressedAt <= r.updatedAt
    BY <2>3, <2>4
  <2> QED BY <1>3, <1>4, <1>6, <2>1, <2>3, <2>5, UserTurns
<1> QED BY <1>5, <1>6

-----------------------------------------------------------------------------
(* The runs. *)

LEMMA NewRunIsRun ==
  /\ NewRun \in Run
  /\ \A at \in Phases \ Staging : LET n == [NewRun EXCEPT !.at = at] IN
       n \in Run /\ n.at = at /\ RowsFit(n) /\ LateFit(n)
<1>1. NewRun \in Run
  BY DEF NewRun, Run, Phases, Time
<1>2. ASSUME NEW at \in Phases \ Staging
      PROVE  LET n == [NewRun EXCEPT !.at = at] IN n \in Run /\ n.at = at /\ RowsFit(n) /\ LateFit(n)
  <2> DEFINE n == [NewRun EXCEPT !.at = at]
  <2>1. /\ n \in Run /\ n.at = at /\ n.rows = {} /\ n.keys = {} /\ n.enabled = 0 /\ n.external = 0
        /\ at \notin {"users", "reconcile", "recheck", "validate", "promote"}
    BY DEF NewRun, Run, Phases, Time, Staging
  <2> HIDE DEF n
  <2>2. RowsFit(n)
    BY <2>1, FS_EmptySet DEF RowsFit
  <2>3. LateFit(n)
    BY <2>1 DEF LateFit
  <2>4. n \in Run /\ n.at = at /\ RowsFit(n) /\ LateFit(n)
    BY <2>1, <2>2, <2>3
  <2> QED BY <2>4 DEF n
<1> QED BY <1>1, <1>2
\* One run moves on, and the lease changes only if it is its own or may be taken.
LEMMA ExportMoves ==
  ASSUME ExportInv, NEW r \in Runs, NEW n \in Run, runs' = [runs EXCEPT ![r] = n],
         UNCHANGED <<consentVars, control, changes>>, RowsFit(n), LateFit(n),
         lease' \in [holder : Runs \cup {None}, expires : Nat \cup {None}, last : Time \cup {None}],
         lease' = lease \/ lease.holder = r \/ lease.holder = None \/ LeaseOver,
         n.at \in Staging => \/ runs[r].at \in Staging /\ n.cutoff = runs[r].cutoff /\ UNCHANGED lease
                             \/ lease'.holder = r /\ lease'.expires = n.cutoff + Lifetime,
         published' \in Publication /\ PublishedFits'
  PROVE  ExportInv'
<1> USE DEF ExportInv
<1>1. UNCHANGED <<clock, users, updates, deletions>>
  BY DEF consentVars
<1>2. ConsentInv'
  BY <1>1 DEF ConsentInv, UsersInv, Suppressed, SentType, DeletionsType, StampsArePast, UpdatesFollow,
         TombstonesAreDated
<1>3. \A x \in Runs : runs'[x] = IF x = r THEN n ELSE runs[x]
  BY DEF ExportTypes
<1>4. ExportTypes'
  BY DEF ExportTypes
<1>5. RunsFit'
  <2>1. ASSUME NEW x \in Runs, x # r PROVE RowsFit(runs[x]) /\ LateFit(runs[x])'
    BY <1>1, <2>1, <1>3 DEF RunsFit, LateFit, Excused, Suppressed
  <2>2. LateFit(n)'
    BY <1>1 DEF LateFit, Excused, Suppressed
  <2> QED BY <1>1, <1>3, <2>1, <2>2 DEF RunsFit, LateFit, RowsFit, Excused, Suppressed
<1>6. ASSUME NEW x \in Runs, runs'[x].at \in Staging, (clock < Expires(x))'
      PROVE  (lease.holder = x /\ lease.expires = Expires(x))'
  <2>1. CASE x = r
    <3>1. runs'[x] = n
      BY <1>3, <2>1
    <3>2. CASE lease'.holder = r /\ lease'.expires = n.cutoff + Lifetime
      BY <2>1, <3>1, <3>2 DEF Expires
    <3>3. CASE runs[r].at \in Staging /\ n.cutoff = runs[r].cutoff /\ UNCHANGED lease
      BY <1>1, <1>6, <2>1, <3>1, <3>3 DEF Expires, LeaseFits
    <3> QED BY <1>6, <3>1, <3>2, <3>3
  <2>2. CASE x # r
    <3>1. runs'[x] = runs[x]
      BY <1>3, <2>2
    <3>2. runs[x].at \in Staging /\ clock < Expires(x)
      BY <1>1, <1>6, <3>1 DEF Expires
    <3>3. lease.holder = x /\ lease.expires = Expires(x)
      BY <3>2 DEF LeaseFits
    <3>4. ~LeaseOver /\ x # None
      <4>1. clock \in Nat /\ runs[x].cutoff \in Nat
        BY TimesAreNumbers DEF ConsentInv, UsersInv, ExportTypes, Run
      <4>2. Expires(x) \in Nat
        BY <4>1 DEF Expires
      <4> QED BY <3>2, <3>3, <4>1, <4>2 DEF LeaseOver
    <3>5. UNCHANGED lease
      BY <2>2, <3>3, <3>4
    <3> QED BY <3>1, <3>3, <3>5 DEF Expires
  <2> QED BY <2>1, <2>2
<1> QED BY <1>2, <1>4, <1>5, <1>6 DEF LeaseFits

\* The same, of a run that leaves the lease and what is published alone.
LEMMA StagingMoves ==
  ASSUME ExportInv, NEW r \in Runs, NEW n \in Run, runs' = [runs EXCEPT ![r] = n],
         UNCHANGED stagingRest, RowsFit(n), LateFit(n),
         n.at \in Staging => runs[r].at \in Staging /\ n.cutoff = runs[r].cutoff
  PROVE  ExportInv'
<1>1. UNCHANGED <<consentVars, control, changes, lease, published>>
  BY DEF stagingRest, runRest
<1>2. UNCHANGED users
  BY <1>1 DEF consentVars
<1>3. published' \in Publication /\ PublishedFits'
  BY <1>1, <1>2 DEF ExportInv, ExportTypes, PublishedFits, Excused, Suppressed
<1> QED BY <1>1, <1>3, ExportMoves DEF ExportInv, ExportTypes

LEMMA RunOver ==
  ASSUME ExportInv, NEW r \in Runs, End(r) \/ GoToCleanUp(r), UNCHANGED <<consentVars, control, changes>>,
         lease' \in [holder : Runs \cup {None}, expires : Nat \cup {None}, last : Time \cup {None}],
         lease' = lease \/ lease.holder = r \/ lease.holder = None \/ LeaseOver,
         published' \in Publication /\ PublishedFits'
  PROVE  ExportInv'
<1>1. PICK at \in {"done", "cleanup"} : runs' = [runs EXCEPT ![r] = [NewRun EXCEPT !.at = at]]
  BY DEF End, GoToCleanUp
<1>2. at \in Phases \ Staging
  BY DEF Phases, Staging
<1>3. PICK n \in Run : runs' = [runs EXCEPT ![r] = n] /\ n.at = at /\ RowsFit(n) /\ LateFit(n)
  BY <1>1, <1>2, NewRunIsRun
<1>4. n.at \notin Staging
  BY <1>2, <1>3
<1> QED BY <1>3, <1>4, ExportMoves

\* A run that ends leaves the lease and what is published alone.
LEMMA RunGivesUp ==
  ASSUME ExportInv, NEW r \in Runs, End(r) \/ GoToCleanUp(r), UNCHANGED stagingRest
  PROVE  ExportInv'
<1>1. UNCHANGED <<consentVars, control, changes, lease, published>>
  BY DEF stagingRest, runRest
<1>2. UNCHANGED users
  BY <1>1 DEF consentVars
<1>3. published' \in Publication /\ PublishedFits'
  BY <1>1, <1>2 DEF ExportInv, ExportTypes, PublishedFits, Excused, Suppressed
<1> QED BY <1>1, <1>3, RunOver DEF ExportInv, ExportTypes
LEMMA AdvanceOf ==
  ASSUME ExportInv, NEW r \in Runs, NEW at \in Phases, Advance(r, at)
  PROVE  \E n \in Run :
           /\ runs' = [runs EXCEPT ![r] = n] /\ n.at = at /\ n.cutoff = runs[r].cutoff
           /\ n.keys = runs[r].keys /\ n.cursor = runs[r].cursor /\ n.rows = runs[r].rows
           /\ n.external = runs[r].external /\ n.enabled = runs[r].enabled
           /\ n.late = runs[r].late /\ n.internal = runs[r].internal
<1> DEFINE n == [runs[r] EXCEPT !.at = at]
<1>1. runs[r] \in Run
  BY DEF ExportInv, ExportTypes
<1>2. /\ n \in Run /\ n.at = at /\ n.cutoff = runs[r].cutoff
      /\ n.keys = runs[r].keys /\ n.cursor = runs[r].cursor /\ n.rows = runs[r].rows
      /\ n.external = runs[r].external /\ n.enabled = runs[r].enabled
      /\ n.late = runs[r].late /\ n.internal = runs[r].internal
  BY <1>1 DEF Run
<1>3. runs' = [runs EXCEPT ![r] = n]
  BY DEF Advance, ExportInv, ExportTypes
<1> HIDE DEF n
<1> QED BY <1>2, <1>3

LEMMA StartKeeps ==
  ASSUME ExportInv, NEW r \in Runs, StartRun(r)
  PROVE  ExportInv'
<1> DEFINE n == [runs[r] EXCEPT !.at = "lease", !.cutoff = clock, !.keys = control.keys, !.updatedAt = control.updatedAt]
<1>1. runs[r] \in Run /\ runs[r].at = "idle" /\ UNCHANGED stagingRest /\ RowsFit(runs[r])
  BY DEF ExportInv, ExportTypes, StartRun, RunsFit
<1>2. clock \in Time /\ control.keys \in SUBSET Users /\ control.updatedAt \in Time
  BY DEF ExportInv, ExportTypes, ConsentInv, UsersInv
<1>3. /\ n \in Run /\ n.at = "lease" /\ n.rows = runs[r].rows
      /\ n.enabled = runs[r].enabled /\ n.external = runs[r].external
  BY <1>1, <1>2 DEF Run, Phases
<1>4. runs' = [runs EXCEPT ![r] = n]
  BY DEF StartRun, ExportInv, ExportTypes
<1> HIDE DEF n
<1>5. RowsFit(n) /\ LateFit(n) /\ n.at \notin Staging
  BY <1>1, <1>3 DEF RowsFit, LateFit, Staging
<1> QED BY <1>1, <1>3, <1>4, <1>5, StagingMoves

LEMMA PublishedStays ==
  ASSUME ExportInv, UNCHANGED <<published, users>>
  PROVE  published' \in Publication /\ PublishedFits'
BY DEF ExportInv, ExportTypes, PublishedFits, Excused, Suppressed

LEMMA TakenIsLease ==
  ASSUME ExportInv, NEW r \in Runs
  PROVE  /\ TakenBy(r) \in [holder : Runs \cup {None}, expires : Nat \cup {None}, last : Time \cup {None}]
         /\ TakenBy(r).holder = r /\ TakenBy(r).expires = runs[r].cutoff + Lifetime
<1>1. runs[r].cutoff \in Nat
  BY TimesAreNumbers DEF ExportInv, ExportTypes, Run
<1>2. Expires(r) \in Nat
  BY <1>1 DEF Expires
<1> QED BY <1>2 DEF TakenBy, Expires, ExportInv, ExportTypes

LEMMA AcquireKeeps ==
  ASSUME ExportInv, NEW r \in Runs, AcquireLease(r) \/ LoseLease(r)
  PROVE  ExportInv'
<1>1. UNCHANGED <<consentVars, control, changes, published, users>> /\ runs[r].at = "lease" /\ RowsFit(runs[r])
  BY DEF AcquireLease, LoseLease, runRest, consentVars, ExportInv, RunsFit
<1>2. published' \in Publication /\ PublishedFits'
  BY <1>1, PublishedStays
<1>3. CASE UNCHANGED lease /\ End(r)
  BY <1>1, <1>2, <1>3, RunOver DEF ExportInv, ExportTypes
<1>4. CASE MayAcquire(r) /\ lease' = TakenBy(r) /\ End(r)
  BY <1>1, <1>2, <1>4, TakenIsLease, RunOver DEF MayAcquire
<1>5. CASE MayAcquire(r) /\ lease' = TakenBy(r) /\ Advance(r, "users")
  <2>1. PICK n \in Run : /\ runs' = [runs EXCEPT ![r] = n] /\ n.at = "users" /\ n.cutoff = runs[r].cutoff
                         /\ n.keys = runs[r].keys /\ n.rows = runs[r].rows
                         /\ n.external = runs[r].external /\ n.enabled = runs[r].enabled
    BY <1>5, AdvanceOf DEF Phases, Staging
  <2>2. RowsFit(n) /\ LateFit(n)
    BY <1>1, <2>1 DEF RowsFit, LateFit, Staging
  <2>3. /\ lease' \in [holder : Runs \cup {None}, expires : Nat \cup {None}, last : Time \cup {None}]
        /\ lease'.holder = r /\ lease'.expires = n.cutoff + Lifetime
    BY <1>5, <2>1, TakenIsLease
  <2>4. lease' = lease \/ lease.holder = r \/ lease.holder = None \/ LeaseOver
    BY <1>5 DEF MayAcquire
  <2>5. UNCHANGED <<consentVars, control, changes>>
    BY <1>1
  <2> QED BY <1>2, <2>1, <2>2, <2>3, <2>4, <2>5, ExportMoves
<1> QED BY <1>3, <1>4, <1>5 DEF AcquireLease, LoseLease

\* A batch of users whom the run has not come to: those staged are new.
LEMMA ScanKeeps ==
  ASSUME ExportInv, NEW r \in Runs, ScanUsers(r)
  PROVE  ExportInv'
<1> DEFINE run == runs[r]
           batch == Batch(After(r))
           out == External(r, batch)
           in == EnabledAtCutoff(r, batch)
           last == LastOf(batch)
           n == [Staged(Counted(r, batch), in) EXCEPT !.cursor = last]
<1>1. run \in Run /\ RowsFit(run) /\ run.at = "users" /\ UNCHANGED stagingRest /\ batch # {}
  BY DEF ExportInv, ExportTypes, RunsFit, ScanUsers
<1>2. After(r) \in SUBSET Users
  BY DEF After
<1>3. batch \subseteq After(r) /\ last \in batch /\ \A u \in batch : u <= last
  BY <1>1, <1>2, BatchIsPrefix
<1>4. in \subseteq out /\ out \subseteq batch /\ in \cap run.keys = {} /\ in \subseteq Users /\ out \subseteq Users
  BY <1>2, <1>3 DEF EnabledAtCutoff, External
<1>5. /\ IsFiniteSet(in) /\ IsFiniteSet(out) /\ IsFiniteSet(run.rows)
      /\ Cardinality(in) \in Nat /\ Cardinality(out) \in Nat /\ Cardinality(run.rows) \in Nat
      /\ Cardinality(in) <= Cardinality(out)
  <2>1. run.rows \subseteq Users
    BY <1>1 DEF Run
  <2> QED BY <1>4, <2>1, FS_Subset, FS_CardinalityType
<1>6. ASSUME NEW u \in run.rows PROVE u \in Users /\ u < last /\ u \notin in
  <2>1. u \in Nat /\ u <= run.cursor /\ run.cursor \in Nat /\ u \in Users
    <3>1. run.cursor \in Users \cup {0} /\ run.rows \in SUBSET Users
      BY <1>1 DEF Run
    <3>2. u <= run.cursor
      BY <1>1 DEF RowsFit
    <3>3. u \in Users
      BY <1>6, <3>1
    <3>4. u \in Nat /\ run.cursor \in Nat
      BY <3>1, <3>3, UsersAreNumbers
    <3> QED BY <3>2, <3>3, <3>4
  <2>2. ASSUME NEW v \in batch PROVE v \in Nat /\ run.cursor < v
    BY <1>3 DEF After
  <2> QED BY <1>3, <1>4, <2>1, <2>2
<1>7. Cardinality(run.rows \cup in) = Cardinality(run.rows) + Cardinality(in)
  <2>1. run.rows \cap in = {}
    BY <1>6
  <2> QED BY <1>5, <2>1, DisjointUnion
<1>8. runs' = [runs EXCEPT ![r] = n]
  BY DEF ScanUsers
<1>9. /\ n \in Run /\ n.at = "users" /\ n.cutoff = run.cutoff /\ n.keys = run.keys /\ n.cursor = last
      /\ n.rows = run.rows \cup in
      /\ n.external = run.external + Cardinality(out) /\ n.enabled = run.enabled + Cardinality(in)
  <2>1. run.external + Cardinality(out) \in Nat /\ run.enabled + Cardinality(in) \in Int
    BY <1>1, <1>5 DEF Run
  <2>2. last \in Users /\ run.rows \cup in \in SUBSET Users
    BY <1>1, <1>3, <1>4 DEF Run, After
  <2> HIDE DEF in, out, last
  <2> QED BY <1>1, <2>1, <2>2 DEF Run, Staged, Counted, in, out
<1> HIDE DEF n, in, out, last, batch
<1>10. RowsFit(n)
  <2>1. n.rows \cap n.keys = {}
    BY <1>1, <1>4, <1>9 DEF RowsFit
  <2>2. n.enabled = Cardinality(n.rows) /\ Cardinality(n.rows) <= n.external
    BY <1>1, <1>5, <1>7, <1>9 DEF RowsFit, Run
  <2>3. ASSUME NEW u \in n.rows PROVE u <= n.cursor
    <3>1. CASE u \in in
      BY <1>3, <1>4, <1>9, <3>1
    <3>2. CASE u \in run.rows
      <4>1. u \in Nat /\ last \in Nat /\ u < last
        BY <1>3, <1>6, <3>2 DEF After
      <4> QED BY <1>9, <4>1
    <3> QED BY <1>9, <2>3, <3>1, <3>2
  <2> QED BY <1>9, <2>1, <2>2, <2>3 DEF RowsFit, Staging
<1>11. LateFit(n)
  BY <1>9 DEF LateFit
<1> QED BY <1>1, <1>8, <1>9, <1>10, <1>11, StagingMoves DEF Staging
\* The scan is over: it will be looked again at whoever has changed since the cutoff.
LEMMA BeginReconcileKeeps ==
  ASSUME ExportInv, NEW r \in Runs, BeginReconcile(r)
  PROVE  ExportInv'
<1> DEFINE run == runs[r]
           late == Outdated(r)
           n == [run EXCEPT !.at = "reconcile", !.cursor = 0, !.late = late]
<1>1. run \in Run /\ RowsFit(run) /\ run.at = "users" /\ UNCHANGED stagingRest
  BY DEF ExportInv, ExportTypes, RunsFit, BeginReconcile
<1>2. runs' = [runs EXCEPT ![r] = n]
  BY DEF BeginReconcile, ExportInv, ExportTypes
<1>3. /\ late \subseteq Users /\ late \subseteq run.rows
      /\ \A u \in late : users[u].updatedAt > run.cutoff \/ Excused(u, run.cutoff)
  <2>1. late \subseteq Users /\ late \subseteq run.rows
    BY <1>1 DEF Outdated, Run
  <2>2. ASSUME NEW u \in late, Suppressed(u), ~(users[u].suppressedAt <= run.cutoff)
        PROVE  users[u].updatedAt > run.cutoff
    <3>1. u \in Users /\ users[u] \in User /\ users[u].suppressedAt <= users[u].updatedAt
      BY <2>1, <2>2 DEF ExportInv, ConsentInv, UsersInv, TombstonesAreDated
    <3>2. users[u].suppressedAt \in Nat /\ users[u].updatedAt \in Nat /\ run.cutoff \in Nat
      BY <1>1, <2>2, <3>1, TimesAreNumbers DEF User, Suppressed, Run
    <3> QED BY <2>2, <3>1, <3>2
  <2> QED BY <2>1, <2>2 DEF Outdated, ChangedAfter, Excused
<1> HIDE DEF late
<1>4. /\ n \in Run /\ n.at = "reconcile" /\ n.cursor = 0 /\ n.late = late
      /\ n.cutoff = run.cutoff /\ n.keys = run.keys /\ n.rows = run.rows
      /\ n.external = run.external /\ n.enabled = run.enabled
  BY <1>1, <1>3 DEF Run, Phases, Staging
<1> HIDE DEF n
<1>5. RowsFit(n)
  BY <1>1, <1>4 DEF RowsFit, Staging
<1>6. LateFit(n)
  <2>1. \A u \in late : u > 0
    BY <1>3
  <2> QED BY <1>3, <1>4, <2>1 DEF LateFit
<1> QED BY <1>1, <1>2, <1>4, <1>5, <1>6, StagingMoves DEF Staging

\* What a run has staged but for some of it.
LEMMA RemovedFits ==
  ASSUME NEW run \in Run, RowsFit(run), NEW S \in SUBSET Users
  PROVE  /\ Removed(run, S) \in Run
         /\ Removed(run, S).enabled = Cardinality(run.rows \ S)
         /\ Cardinality(run.rows \ S) <= run.external
<1>1. run.rows \subseteq Users /\ run.enabled = Cardinality(run.rows) /\ Cardinality(run.rows) <= run.external
  BY DEF Run, RowsFit
<1> DEFINE gone == run.rows \cap S
           kept == run.rows \ S
<1>2. /\ IsFiniteSet(run.rows) /\ IsFiniteSet(gone) /\ IsFiniteSet(kept)
      /\ Cardinality(run.rows) \in Nat /\ Cardinality(gone) \in Nat /\ Cardinality(kept) \in Nat
  BY <1>1, FS_Subset, FS_CardinalityType
<1>3. Cardinality(kept) + Cardinality(gone) = Cardinality(run.rows)
  <2>1. kept \cap gone = {} /\ kept \cup gone = run.rows
    OBVIOUS
  <2> HIDE DEF kept, gone
  <2> QED BY <1>2, <2>1, DisjointUnion
<1>4. Removed(run, S).enabled = run.enabled - Cardinality(gone) /\ run.external \in Nat
  BY DEF Removed, Run
<1> HIDE DEF gone, kept
<1>5. /\ Removed(run, S).enabled = Cardinality(kept) /\ Removed(run, S).enabled \in Int
      /\ Cardinality(kept) <= run.external
  BY <1>1, <1>2, <1>3, <1>4
<1>6. Removed(run, S) \in Run
  BY <1>1, <1>5 DEF Removed, Run
<1> QED BY <1>5, <1>6 DEF kept

\* Whom a batch of changes passes without removing has not changed after the cutoff any
\* more, and so is excused.
LEMMA ReconcileKeeps ==
  ASSUME ExportInv, NEW r \in Runs, Reconcile(r)
  PROVE  ExportInv'
<1> DEFINE run == runs[r]
           changed == After(r) \cap ChangedAfter(run.cutoff)
           batch == Changes(r)
           last == LastOf(batch)
           n == [Removed(run, batch) EXCEPT !.cursor = last]
<1>1. /\ run \in Run /\ RowsFit(run) /\ LateFit(run) /\ run.at = "reconcile"
      /\ UNCHANGED stagingRest /\ batch # {}
  BY DEF ExportInv, ExportTypes, RunsFit, Reconcile
<1>2. runs' = [runs EXCEPT ![r] = n]
  BY DEF Reconcile, ExportInv, ExportTypes
<1>3. changed \in SUBSET Users /\ batch = Batch(changed)
  BY DEF Changes, After
<1> HIDE DEF changed, batch
<1>4. /\ batch \in SUBSET Users /\ batch \subseteq changed /\ last \in batch
      /\ \A u \in changed : u \in batch <=> u <= last
  BY <1>1, <1>3, BatchIsPrefix
<1>5. /\ Removed(run, batch) \in Run
      /\ Removed(run, batch).enabled = Cardinality(run.rows \ batch)
      /\ Cardinality(run.rows \ batch) <= run.external
  BY <1>1, <1>4, RemovedFits
<1>6. /\ n \in Run /\ n.at = "reconcile" /\ n.cursor = last /\ n.late = run.late
      /\ n.cutoff = run.cutoff /\ n.keys = run.keys /\ n.rows = run.rows \ batch
      /\ n.external = run.external /\ n.enabled = Cardinality(run.rows \ batch)
  <2>1. last \in Users
    BY <1>4
  <2> HIDE DEF last, batch
  <2> QED BY <1>1, <1>5, <2>1 DEF Removed, Run
<1> HIDE DEF n
<1>7. RowsFit(n)
  BY <1>1, <1>5, <1>6 DEF RowsFit, Staging
<1>8. ASSUME NEW u \in n.rows \cap n.late
      PROVE  Excused(u, n.cutoff) \/ (u > n.cursor /\ users[u].updatedAt > n.cutoff)
  <2>1. u \in Users /\ u \notin batch /\ (Excused(u, run.cutoff) \/ (u > run.cursor /\ users[u].updatedAt > run.cutoff))
    BY <1>1, <1>6 DEF Run, LateFit
  <2>2. CASE u > run.cursor /\ users[u].updatedAt > run.cutoff
    <3>1. u \in changed
      BY <2>1, <2>2 DEF After, ChangedAfter, changed
    <3>2. ~(u <= last)
      BY <1>4, <2>1, <3>1
    <3>3. u > last
      <4>1. u \in Nat /\ last \in Nat
        BY <1>4, <2>1, UsersAreNumbers
      <4> QED BY <3>2, <4>1
    <3> QED BY <1>6, <2>2, <3>3
  <2> QED BY <1>6, <2>1, <2>2
<1>9. LateFit(n)
  BY <1>6, <1>8 DEF LateFit
<1> QED BY <1>1, <1>2, <1>6, <1>7, <1>9, StagingMoves DEF Staging

\* Nobody is left who has changed after the cutoff: all the others are excused.
LEMMA EndReconcileKeeps ==
  ASSUME ExportInv, NEW r \in Runs, EndReconcile(r)
  PROVE  ExportInv'
<1> DEFINE run == runs[r]
           changed == After(r) \cap ChangedAfter(run.cutoff)
<1>1. /\ run \in Run /\ RowsFit(run) /\ LateFit(run) /\ run.at = "reconcile" /\ UNCHANGED stagingRest
      /\ Advance(r, "recheck") /\ Batch(changed) = {}
  BY DEF ExportInv, ExportTypes, RunsFit, EndReconcile, Changes
<1>2. PICK n \in Run : /\ runs' = [runs EXCEPT ![r] = n] /\ n.at = "recheck" /\ n.cutoff = run.cutoff
                       /\ n.keys = run.keys /\ n.rows = run.rows /\ n.late = run.late
                       /\ n.external = run.external /\ n.enabled = run.enabled
  BY <1>1, AdvanceOf DEF Phases, Staging
<1>3. changed = {}
  BY <1>1, BatchIsPrefix DEF After
<1>4. RowsFit(n)
  BY <1>1, <1>2 DEF RowsFit, Staging
<1>5. ASSUME NEW u \in n.rows \cap n.late PROVE Excused(u, n.cutoff)
  <2>1. u \in Users /\ (Excused(u, run.cutoff) \/ (u > run.cursor /\ users[u].updatedAt > run.cutoff))
    BY <1>1, <1>2 DEF Run, LateFit
  <2>2. ~(u > run.cursor /\ users[u].updatedAt > run.cutoff)
    BY <1>3, <2>1 DEF After, ChangedAfter
  <2> QED BY <1>2, <2>1, <2>2
<1>6. LateFit(n)
  BY <1>2, <1>5 DEF LateFit
<1> QED BY <1>1, <1>2, <1>4, <1>6, StagingMoves DEF Staging
\* The list of internal users has not changed: it is the one that the rows leave out.
LEMMA ReloadKeeps ==
  ASSUME ExportInv, NEW r \in Runs, ReloadControl(r)
  PROVE  ExportInv'
<1> DEFINE run == runs[r]
           n == [run EXCEPT !.at = "validate", !.internal = control.keys]
<1>1. run \in Run /\ RowsFit(run) /\ LateFit(run) /\ run.at = "recheck" /\ UNCHANGED stagingRest
  BY DEF ExportInv, ExportTypes, RunsFit, ReloadControl
<1>2. CASE SameControl(r)
  <2>1. runs' = [runs EXCEPT ![r] = n]
    BY <1>2 DEF ReloadControl, ExportInv, ExportTypes
  <2>2. control.keys = run.keys /\ control.keys \in SUBSET Users
    BY <1>2 DEF SameControl, ExportInv, ExportTypes
  <2>3. /\ n \in Run /\ n.at = "validate" /\ n.internal = n.keys /\ n.cutoff = run.cutoff
        /\ n.keys = run.keys /\ n.rows = run.rows /\ n.late = run.late
        /\ n.external = run.external /\ n.enabled = run.enabled
    BY <1>1, <2>2 DEF Run, Phases, Staging
  <2> HIDE DEF n
  <2>4. RowsFit(n)
    BY <1>1, <2>3 DEF RowsFit, Staging
  <2>5. LateFit(n)
    BY <1>1, <2>3 DEF LateFit
  <2> QED BY <1>1, <2>1, <2>3, <2>4, <2>5, StagingMoves DEF Staging
<1>3. CASE ~SameControl(r)
  BY <1>1, <1>3, RunGivesUp DEF ReloadControl
<1> QED BY <1>2, <1>3

LEMMA ValidateKeeps ==
  ASSUME ExportInv, NEW r \in Runs, Validate(r)
  PROVE  ExportInv'
<1>1. /\ RowsFit(runs[r]) /\ LateFit(runs[r]) /\ runs[r].at = "validate" /\ UNCHANGED stagingRest
      /\ Advance(r, "promote") \/ GoToCleanUp(r)
  BY DEF ExportInv, RunsFit, Validate
<1>2. ASSUME Advance(r, "promote") PROVE ExportInv'
  <2>1. PICK n \in Run : /\ runs' = [runs EXCEPT ![r] = n] /\ n.at = "promote" /\ n.cutoff = runs[r].cutoff
                         /\ n.keys = runs[r].keys /\ n.rows = runs[r].rows /\ n.late = runs[r].late
                         /\ n.external = runs[r].external /\ n.enabled = runs[r].enabled
                         /\ n.internal = runs[r].internal
    BY <1>2, AdvanceOf DEF Phases, Staging
  <2>2. RowsFit(n)
    BY <1>1, <2>1 DEF RowsFit, Staging
  <2>3. LateFit(n)
    BY <1>1, <2>1 DEF LateFit
  <2> QED BY <1>1, <2>1, <2>2, <2>3, StagingMoves DEF Staging
<1> QED BY <1>1, <1>2, RunGivesUp

\* What is published is what has been staged.
LEMMA PromoteKeeps ==
  ASSUME ExportInv, NEW r \in Runs, Promote(r)
  PROVE  ExportInv'
<1> DEFINE run == runs[r]
<1>1. /\ run \in Run /\ RowsFit(run) /\ LateFit(run) /\ run.at = "promote" /\ GoToCleanUp(r)
      /\ UNCHANGED <<consentVars, control, changes, users>>
  BY DEF ExportInv, ExportTypes, RunsFit, Promote, consentVars
<1>2. CASE HoldsLease(r)
  <2> DEFINE p == [cutoff |-> run.cutoff, rows |-> run.rows, enabled |-> run.enabled,
                   late |-> run.rows \cap run.late, internal |-> run.rows \cap run.internal]
             l == [holder |-> None, expires |-> None, last |-> run.cutoff]
  <2>1. published' = p /\ lease' = l
    BY <1>2 DEF Promote
  <2>2. run.enabled \in Nat
    <3>1. run.rows \in SUBSET Users /\ run.enabled = Cardinality(run.rows)
      BY <1>1 DEF Run, RowsFit
    <3> QED BY <3>1, FS_Subset, FS_CardinalityType
  <2>3. p \in Publication
    <3>1. run.cutoff \in Time /\ run.rows \in SUBSET Users /\ run.late \in SUBSET Users /\ run.internal \in SUBSET Users
      BY <1>1 DEF Run
    <3> QED BY <2>2, <3>1 DEF Publication
  <2>4. l \in [holder : Runs \cup {None}, expires : Nat \cup {None}, last : Time \cup {None}]
    BY <1>1 DEF Run
  <2>5. PublishedFits'
    <3>1. ASSUME NEW u \in run.rows \cap run.late
          PROVE  run.cutoff \in Time /\ users'[u].suppressedAt # None /\ users'[u].suppressedAt <= run.cutoff
      BY <1>1 DEF LateFit, Run, Excused, Suppressed
    <3>2. run.rows \cap run.internal = {}
      BY <1>1 DEF RowsFit
    <3>3. published'.late = run.rows \cap run.late /\ published'.internal = {} /\ published'.cutoff = run.cutoff
      BY <2>1, <3>2
    <3> QED BY <3>1, <3>3 DEF PublishedFits, Excused, Suppressed
  <2>6. lease.holder = r
    BY <1>2 DEF HoldsLease
  <2> HIDE DEF p, l
  <2> QED BY <1>1, <2>1, <2>3, <2>4, <2>5, <2>6, RunOver
<1>3. CASE ~HoldsLease(r)
  <2>1. UNCHANGED <<published, lease>>
    BY <1>3 DEF Promote
  <2> QED BY <1>1, <2>1, PublishedStays, RunOver DEF ExportInv, ExportTypes
<1> QED BY <1>2, <1>3

LEMMA EndsKeep ==
  ASSUME ExportInv, NEW r \in Runs, SuppressionAborts(r) \/ FailRun(r) \/ CleanUp(r) \/ Crash(r)
  PROVE  ExportInv'
<1>1. CASE SuppressionAborts(r) \/ FailRun(r) \/ Crash(r)
  BY <1>1, RunGivesUp DEF SuppressionAborts, FailRun, Crash
<1>2. CASE CleanUp(r)
  <2>1. End(r) /\ lease' = ReleasedBy(r) /\ UNCHANGED <<consentVars, control, changes, published, users>>
    BY <1>2 DEF CleanUp, runRest, consentVars
  <2>2. /\ lease' \in [holder : Runs \cup {None}, expires : Nat \cup {None}, last : Time \cup {None}]
        /\ lease' = lease \/ lease.holder = r
    BY <2>1 DEF ReleasedBy, ExportInv, ExportTypes
  <2> QED BY <2>1, <2>2, PublishedStays, RunOver
<1> QED BY <1>1, <1>2

\* The users change: what the runs know of them stays true.
LEMMA ConsentKeeps ==
  ASSUME ExportInv, ConsentInv', TimesMoveOn, clock <= clock',
         UNCHANGED <<control, lease, runs, published>>, changes' \in 0 .. MaxChanges
  PROVE  ExportInv'
<1> USE DEF ExportInv
<1>1. ExportTypes'
  BY DEF ExportTypes
<1>2. \A r \in Runs : runs[r] \in Run /\ runs[r].rows \cap runs[r].late \subseteq Users /\ runs[r].cutoff \in Time
  BY DEF ExportTypes, Run
<1>3. RunsFit'
  <2>1. ASSUME NEW r \in Runs PROVE LateFit(runs[r])'
    <3>1. LateFit(runs[r])
      BY DEF RunsFit
    <3>2. ASSUME NEW u \in runs[r].rows \cap runs[r].late
          PROVE  /\ Excused(u, runs[r].cutoff) => Excused(u, runs[r].cutoff)'
                 /\ users[u].updatedAt > runs[r].cutoff =>
                      users'[u].updatedAt > runs[r].cutoff \/ Excused(u, runs[r].cutoff)'
      BY <1>2 DEF TimesMoveOn
    <3>3. ASSUME NEW u \in runs[r].rows \cap runs[r].late, runs[r].at = "reconcile"
          PROVE  Excused(u, runs[r].cutoff)' \/ (u > runs[r].cursor /\ users'[u].updatedAt > runs[r].cutoff)
      BY <3>1, <3>2, <3>3 DEF LateFit
    <3>4. ASSUME NEW u \in runs[r].rows \cap runs[r].late, runs[r].at \in {"recheck", "validate", "promote"}
          PROVE  Excused(u, runs[r].cutoff)'
      BY <3>1, <3>2, <3>4 DEF LateFit
    <3> QED BY <3>3, <3>4 DEF LateFit, Excused, Suppressed
  <2> QED BY <2>1 DEF RunsFit, RowsFit
<1>4. LeaseFits'
  <2>1. ASSUME NEW r \in Runs, clock' < Expires(r) PROVE clock < Expires(r)
    <3>1. clock \in Nat /\ clock' \in Nat /\ runs[r].cutoff \in Nat
      BY <1>2, TimesAreNumbers DEF ConsentInv, UsersInv
    <3>2. Expires(r) \in Nat
      BY <3>1 DEF Expires
    <3> QED BY <2>1, <3>1, <3>2
  <2> QED BY <2>1 DEF LeaseFits, Expires
<1>5. PublishedFits'
  <2>1. published.late \subseteq Users
    BY DEF ExportTypes, Publication
  <2>2. ASSUME NEW u \in published.late PROVE published.cutoff \in Time /\ Excused(u, published.cutoff)'
    BY <2>1 DEF PublishedFits, TimesMoveOn
  <2> QED BY <2>2 DEF PublishedFits, Excused, Suppressed
<1> QED BY <1>1, <1>3, <1>4, <1>5
-----------------------------------------------------------------------------
(* Theorems about the export. *)

LEMMA ExportBegins == ExportInit => ExportInv
<1> SUFFICES ASSUME ExportInit PROVE ExportInv
  OBVIOUS
<1> USE DEF ExportInit, ConsentInit
<1>1. 0 \in Time /\ Created \in User /\ Created.suppressedAt = None /\ Created.updatedAt = 0
  BY CreatedIsUser DEF Created, Legacy, Time
<1>2. UsersInv
  BY <1>1 DEF UsersInv, Suppressed
<1>3. SentType
  <2>1. Unsent \in Update /\ Unsent.at = "unsent"
    BY DEF Unsent, Update, Time
  <2> QED BY <2>1 DEF SentType
<1>4. DeletionsType
  BY DeletionEnds DEF DeletionsType
<1>5. StampsArePast /\ UpdatesFollow /\ TombstonesAreDated
  BY <1>1, DeletionEnds DEF StampsArePast, UpdatesFollow, TombstonesAreDated, Suppressed, Unsent
<1>6. ExportTypes
  BY <1>1, NewRunIsRun DEF ExportTypes, Nothing, Publication
<1>7. RunsFit /\ LeaseFits
  <2>1. NewRun.at = "idle" /\ NewRun.rows = {} /\ NewRun.keys = {} /\ NewRun.enabled = 0 /\ NewRun.external = 0
    BY DEF NewRun
  <2>2. RowsFit(NewRun) /\ LateFit(NewRun)
    BY <2>1, FS_EmptySet DEF RowsFit, LateFit
  <2> QED BY <2>1, <2>2 DEF RunsFit, LeaseFits, Staging
<1>8. PublishedFits
  BY DEF PublishedFits, Nothing
<1> QED BY <1>2, <1>3, <1>4, <1>5, <1>6, <1>7, <1>8 DEF ExportInv, ConsentInv

\* Every step of the runs, of the users and of the list keeps the invariant.
THEOREM ExportInductive == ExportInv /\ [ExportNext]_<<consentVars, exportVars>> => ExportInv'
<1> SUFFICES ASSUME ExportInv, [ExportNext]_<<consentVars, exportVars>> PROVE ExportInv'
  OBVIOUS
<1>1. ConsentInv /\ clock \in Nat /\ clock <= clock /\ changes \in 0 .. MaxChanges /\ changes \in Nat
  BY TimesAreNumbers DEF ExportInv, ConsentInv, UsersInv, ExportTypes
<1>2. CASE UNCHANGED <<consentVars, exportVars>>
  <2>1. UNCHANGED <<clock, users, updates, deletions, control, lease, runs, published, changes>>
    BY <1>2 DEF consentVars, exportVars
  <2>2. ConsentInv' /\ TimesMoveOn
    BY <1>1, <2>1, UsersWait DEF ConsentInv, UsersInv, SentType, DeletionsType
  <2> QED BY <1>1, <2>1, <2>2, ConsentKeeps
<1>3. CASE /\ Tick \/ (\E o \in Operations : UpdateAndEnd(o)) \/ (\E d \in Requests : SuppressAndEnd(d))
           /\ UNCHANGED exportVars
  <2>1. UNCHANGED <<control, lease, runs, published, changes>>
    BY <1>3 DEF exportVars
  <2>2. clock <= clock'
    <3>1. CASE Tick
      BY <1>1, <3>1 DEF Tick
    <3>2. ASSUME NEW o \in Operations, UpdateAndEnd(o) PROVE clock' = clock
      BY <3>2 DEF UpdateAndEnd, ApplyUpdate
    <3>3. ASSUME NEW d \in Requests, SuppressAndEnd(d) PROVE clock' = clock
      BY <3>3 DEF SuppressAndEnd, Suppress
    <3> QED BY <1>1, <1>3, <3>1, <3>2, <3>3
  <2>3. ConsentInv' /\ TimesMoveOn
    BY <1>1, <1>3, ArrivalsKeep, UpdateAndEndKeeps, SuppressAndEndKeeps
  <2> QED BY <1>1, <2>1, <2>2, <2>3, ConsentKeeps
<1>4. CASE ConsentArrivals /\ OneMoreChange /\ UNCHANGED <<control, lease, runs, published>>
  <2>1. clock <= clock' /\ changes' \in 0 .. MaxChanges
    BY <1>1, <1>4 DEF ConsentArrivals, SendUpdate, SuppressionArrives, OneMoreChange
  <2>2. ConsentInv' /\ TimesMoveOn
    BY <1>1, <1>4, ArrivalsKeep
  <2> QED BY <1>4, <2>1, <2>2, ConsentKeeps
<1>5. CASE ControlChanges
  <2>1. UNCHANGED <<clock, users, updates, deletions, lease, runs, published>> /\ changes' \in 0 .. MaxChanges
    BY <1>1, <1>5 DEF ControlChanges, OneMoreChange, consentVars
  <2>2. control' \in [keys : SUBSET Users, updatedAt : Time]
    BY <1>1, <1>5 DEF ControlChanges, ConsentInv, UsersInv
  <2>3. ExportTypes'
    BY <2>1, <2>2 DEF ExportInv, ExportTypes
  <2>4. ConsentInv'
    BY <1>1, <2>1 DEF ConsentInv, UsersInv, Suppressed, SentType, DeletionsType, StampsArePast, UpdatesFollow,
         TombstonesAreDated
  <2>5. RunsFit' /\ LeaseFits' /\ PublishedFits'
    BY <2>1 DEF ExportInv, RunsFit, RowsFit, LateFit, LeaseFits, Expires, PublishedFits, Excused, Suppressed
  <2> QED BY <2>3, <2>4, <2>5 DEF ExportInv
<1>6. ASSUME NEW r \in Runs,
             \/ StartRun(r) \/ AcquireLease(r) \/ LoseLease(r)
             \/ ScanUsers(r) \/ BeginReconcile(r)
             \/ Reconcile(r) \/ SuppressionAborts(r) \/ EndReconcile(r)
             \/ ReloadControl(r) \/ Validate(r) \/ Promote(r)
             \/ FailRun(r) \/ CleanUp(r) \/ Crash(r)
      PROVE  ExportInv'
  BY <1>6, StartKeeps, AcquireKeeps, ScanKeeps, BeginReconcileKeeps, ReconcileKeeps, EndReconcileKeeps,
     ReloadKeeps, ValidateKeeps, PromoteKeeps, EndsKeep
<1> QED BY <1>2, <1>3, <1>4, <1>5, <1>6 DEF ExportNext

\* The invariant of the export holds however many runs overlap and however the users change.
THEOREM ExportInvariance == ExportSpec => []ExportInv
BY ExportBegins, ExportInductive, PTL DEF ExportSpec

\* Every variable keeps its type.
THEOREM ExportTypeCorrect == ExportSpec => []ExportTypeOK
<1>1. ExportInv => ExportTypeOK
  <2>1. ExportInv => ConsentTypeOK
    BY DEF ExportInv, ConsentInv, UsersInv, SentType, DeletionsType, User, Update, Deletion, ConsentTypeOK
  <2> QED BY <2>1 DEF ExportInv, ExportTypes, Run, Publication, ExportTypeOK
<1> QED BY <1>1, ExportInvariance, PTL

\* A run that has the lease keeps it until it publishes, ends or expires.
THEOREM LeaseStaysKept == ExportSpec => []LeaseIsKept
<1>1. ExportInv => LeaseIsKept
  BY DEF ExportInv, LeaseFits, LeaseIsKept
<1> QED BY <1>1, ExportInvariance, PTL

\* What is published has been reconciled with the changes dated after the cutoff and with
\* the list of internal users, and validation rejects no run that went well.
THEOREM ExportStaysSound == ExportSpec => []ExportIsSound
<1>1. ExportInv => PublishedIsEligible
  BY DEF ExportInv, PublishedFits, PublishedIsEligible, Excused
<1>2. ASSUME ExportInv PROVE CountsAgree
  <2> SUFFICES ASSUME NEW r \in Runs, runs[r].at = "validate" PROVE Valid(r)
    BY DEF CountsAgree
  <2>1. /\ runs[r].rows \in SUBSET Users /\ runs[r].external \in Nat
        /\ runs[r].enabled = Cardinality(runs[r].rows) /\ Cardinality(runs[r].rows) <= runs[r].external
    BY <1>2 DEF ExportInv, ExportTypes, Run, RunsFit, RowsFit
  <2>2. Cardinality(runs[r].rows) \in Nat
    BY <2>1, FS_Subset, FS_CardinalityType
  <2> QED BY <2>1, <2>2 DEF Valid, Cohorts
<1> QED BY <1>1, <1>2, ExportInvariance, PTL DEF ExportIsSound
===============================================================================
