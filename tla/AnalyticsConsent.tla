--------------------------- MODULE AnalyticsConsent ---------------------------
(***************************************************************************)
(* Whose data may be used for product analytics: the preference of each    *)
(* user and the permanent tombstone of a deletion (UserRepository, behind  *)
(* ProductAnalyticsPreferenceService).  AnalyticsEvents and                *)
(* AnalyticsExport extend it.                                              *)
(*                                                                         *)
(* Each step is one database call, with the code up to the next one.  A    *)
(* request reads the clock when it arrives: what it writes carries that    *)
(* time, however late it is written.                                       *)
(*                                                                         *)
(* Abstractions.  The keys derived from a user are the user.  The answer   *)
(* to an update is left out: an update that changes nothing is told so.    *)
(*                                                                         *)
(* An operator named Slip_X is X with one plausible mistake.               *)
(***************************************************************************)
EXTENDS FiniteSets, Integers

CONSTANTS
  Users,       \* user ids, in order
  Operations,  \* operationIds of preference updates
  Requests,    \* requestIds of deletions
  MaxClock,    \* bound: the last clock reading
  None

ASSUME AnalyticsConsentAssumption ==
  /\ Users \subseteq Nat \ {0} /\ IsFiniteSet(Users)
  /\ MaxClock \in Nat
  /\ None \notin Nat

VARIABLES
  clock,
  users,     \* users: the preference of each user
  updates,   \* the PUT /product-analytics/preference of each operation
  deletions  \* the run of the suppression script for each request

consentVars == <<clock, users, updates, deletions>>

Time == 0 .. MaxClock

\* A user from before the preference existed has none of its fields.
Legacy == [preference |-> "missing", updatedAt |-> 0, revision |-> 0, lastOperation |-> None, suppressedAt |-> None]
Created == [Legacy EXCEPT !.preference = "enabled", !.revision = 1]

\* What is kept of a request that is not under way.
Unsent == [at |-> "unsent", user |-> None, to |-> "disabled", expected |-> 0, stamp |-> 0]
NoDeletion == [at |-> "idle", user |-> None, stamp |-> 0, suppressedAt |-> None]

ConsentTypeOK ==
  /\ clock \in Time
  /\ users \in [Users -> [preference : {"enabled", "disabled", "missing"}, updatedAt : Time, revision : Nat,
                          lastOperation : Operations \cup {None}, suppressedAt : Time \cup {None}]]
  /\ updates \in [Operations -> [at : {"unsent", "write", "answered"}, user : Users \cup {None},
                                 to : {"enabled", "disabled"}, expected : Nat, stamp : Time]]
  \* The steps after "write" are those of AnalyticsEvents.
  /\ deletions \in [Requests -> [at : {"idle", "write", "written", "find", "upsert", "confirm"},
                                 user : Users \cup {None}, stamp : Time, suppressedAt : Time \cup {None}]]

ConsentInit ==
  /\ clock = 0
  /\ users \in [Users -> {Legacy, Created}]
  /\ updates = [o \in Operations |-> Unsent]
  /\ deletions = [d \in Requests |-> NoDeletion]

Tick ==
  /\ clock < MaxClock
  /\ clock' = clock + 1
  /\ UNCHANGED <<users, updates, deletions>>

Suppressed(u) == users[u].suppressedAt # None
\* productAnalyticsPreferenceBackfillCandidateFilter
IsCandidate(u) == users[u].preference = "missing"

-----------------------------------------------------------------------------
(* Preferences. *)

\* A client changes a preference that it has read.  One that has become stale
\* before it is sent will change nothing.
SendUpdate(o) ==
  /\ updates[o].at = "unsent"
  /\ \E u \in Users, to \in {"enabled", "disabled"} :
       /\ ~IsCandidate(u)
       /\ updates' = [updates EXCEPT ![o] =
            [at |-> "write", user |-> u, to |-> to, expected |-> users[u].revision, stamp |-> clock]]
  /\ UNCHANGED <<clock, users, deletions>>

\* isNewOperationAtExpectedRevision, and the filter on the tombstone.  A duplicate
\* matches too, and changes nothing.
Matches(o) ==
  LET q == updates[o]
      user == users[q.user]
  IN /\ user.lastOperation # o
     /\ user.revision = q.expected
     /\ q.to = "enabled" => user.suppressedAt = None

\* The modules that extend this one say what is kept of the update.
ApplyUpdate(o) ==
  LET q == updates[o] IN
  /\ q.at = "write"
  /\ users' = IF Matches(o)
              THEN [users EXCEPT ![q.user].preference = q.to, ![q.user].updatedAt = q.stamp,
                                 ![q.user].revision = @ + 1, ![q.user].lastOperation = o]
              ELSE users
  /\ UNCHANGED <<clock, deletions>>

-----------------------------------------------------------------------------
(* The tombstone of a deletion. *)

DeletionAt(d, at) == deletions' = [deletions EXCEPT ![d].at = at]
DeletionOver(d) == deletions' = [deletions EXCEPT ![d] = NoDeletion]

\* An operator runs the script, again with the same request if it has failed.  The
\* complete preference must be valid: it is read before the permanent write.
SuppressionArrives(d) ==
  /\ deletions[d].at = "idle"
  /\ \E u \in Users :
       /\ ~IsCandidate(u)
       /\ deletions' = [deletions EXCEPT ![d] = [at |-> "write", user |-> u, stamp |-> clock, suppressedAt |-> None]]
  /\ UNCHANGED <<clock, users, updates>>

\* Slip: the time is read before the user is written.
Slip_SuppressedSince(d) == users[deletions[d].user].suppressedAt

\* The first suppression wins: a later one returns its time.
SuppressedSince(d) ==
  IF Suppressed(deletions[d].user) THEN users[deletions[d].user].suppressedAt ELSE deletions[d].stamp

\* The modules that extend this one say what the script does next.
Suppress(d) ==
  LET u == deletions[d].user
      stamp == deletions[d].stamp
  IN
  /\ deletions[d].at = "write"
  /\ users' = IF Suppressed(u) THEN users ELSE [users EXCEPT ![u] =
       [preference |-> "disabled", updatedAt |-> stamp, revision |-> @.revision + 1,
        lastOperation |-> None, suppressedAt |-> stamp]]
  /\ UNCHANGED <<clock, updates>>

ConsentArrivals ==
  \/ \E o \in Operations : SendUpdate(o)
  \/ \E d \in Requests : SuppressionArrives(d)

-----------------------------------------------------------------------------
(* Properties. *)

\* A suppression is permanent: neither an update, however it was delayed or sent
\* again, nor a second request ever enables the user or moves the time of the
\* suppression, which the deletion target carries (user-repo.ts:209).
SuppressionIsKept ==
  \A u \in Users : Suppressed(u) =>
    users'[u].suppressedAt = users[u].suppressedAt /\ users'[u].preference = "disabled"
=============================================================================
