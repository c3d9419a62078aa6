--------------------------- MODULE AnalyticsExport ---------------------------
(***************************************************************************)
(* The daily export of ProductAnalyticsExportService, through the staging  *)
(* tables and the lease of ProductAnalyticsExportRepository, while users   *)
(* change what AnalyticsConsent keeps.  A run reads users in batches at    *)
(* many different times: at the end it looks again for what has changed    *)
(* since its cutoff, and gives up if a suppression or the list of internal *)
(* users has.                                                              *)
(*                                                                         *)
(* Each step is one database or BigQuery call with the code up to the next *)
(* one; two calls are one step where only the run itself sees what is      *)
(* between them.  A run may fail at any step, and reaches its cleanup, or  *)
(* its process may stop.                                                   *)
(*                                                                         *)
(* Abstractions.  Users are created before the cutoffs.  A run reads the   *)
(* clock for its cutoff and for its lease at one time.  The milestones of  *)
(* a row and the staged events are left out, and so is how the cohorts     *)
(* divide the accounts: they are the totals over all weeks.                *)
(***************************************************************************)
EXTENDS AnalyticsConsent, FiniteSetsExt

CONSTANTS
  Runs,
  BatchLimit,     \* PRODUCT_ANALYTICS_EXPORT_BATCH_LIMIT
  Lifetime,       \* stagingLifetimeMs: how long staging tables and the lease last
  MaxChanges      \* bound: updates, deletions and changes of the list of internal users

ASSUME AnalyticsExportAssumption ==
  /\ {BatchLimit, Lifetime} \subseteq Nat \ {0}
  /\ MaxChanges \in Nat
  /\ None \notin Runs

VARIABLES
  control,   \* the internal-exclusion view: keys, control_updated_at
  lease,     \* product_analytics_export_state: holder, expiry, last published cutoff
  runs,      \* the runs, with their staging tables
  published, \* the published tables, with history of the run they come from
  changes    \* bound: how many there were so far

exportVars == <<control, lease, runs, published, changes>>

\* The phases in which a run has its lease and its staging tables.
Staging == {"users", "reconcile", "recheck", "validate", "promote"}
Phases == Staging \cup {"idle", "lease", "cleanup", "done"}

\* rows: the users with a staged row.  external, enabled: the accounts counted.
\* History: late, the users staged who, when the reconciliation began, had changed after
\* the cutoff or were suppressed; internal, the list of internal users as last read;
\* what is published keeps those of them that it contains.
NewRun == [at |-> "idle", cutoff |-> 0, keys |-> {}, updatedAt |-> 0, cursor |-> 0, rows |-> {},
           external |-> 0, enabled |-> 0, late |-> {}, internal |-> {}]
Nothing == [cutoff |-> None, rows |-> {}, enabled |-> 0, late |-> {}, internal |-> {}]

ExportTypeOK ==
  /\ ConsentTypeOK
  /\ control \in [keys : SUBSET Users, updatedAt : Time]
  /\ lease \in [holder : Runs \cup {None}, expires : Nat \cup {None}, last : Time \cup {None}]
  /\ runs \in [Runs -> [at : Phases, cutoff : Time, keys : SUBSET Users, updatedAt : Time,
                        cursor : Users \cup {0}, rows : SUBSET Users, external : Nat, enabled : Int,
                        late : SUBSET Users, internal : SUBSET Users]]
  /\ published \in [cutoff : Time \cup {None}, rows : SUBSET Users, enabled : Nat,
                    late : SUBSET Users, internal : SUBSET Users]
  /\ changes \in 0 .. MaxChanges

\* The preferences are complete: see StartRun.
ExportInit ==
  /\ ConsentInit
  /\ users = [u \in Users |-> Created]
  /\ control = [keys |-> {}, updatedAt |-> 0]
  /\ lease = [holder |-> None, expires |-> None, last |-> None]
  /\ runs = [r \in Runs |-> NewRun]
  /\ published = Nothing
  /\ changes = 0

OneMoreChange == changes < MaxChanges /\ changes' = changes + 1

\* The list of internal users is kept by others.
ControlChanges ==
  /\ OneMoreChange
  /\ \E keys \in SUBSET Users \ {control.keys} : control' = [keys |-> keys, updatedAt |-> clock]
  /\ UNCHANGED <<consentVars, lease, runs, published>>

Expires(r) == runs[r].cutoff + Lifetime
\* The staging tables expire with the lease.
CanStage(r) == runs[r].at \in Staging /\ clock < Expires(r)
Advance(r, at) == runs' = [runs EXCEPT ![r].at = at]
End(r) == runs' = [runs EXCEPT ![r] = [NewRun EXCEPT !.at = "done"]]
GoToCleanUp(r) == runs' = [runs EXCEPT ![r] = [NewRun EXCEPT !.at = "cleanup"]]
runRest == <<consentVars, control, published, changes>>
stagingRest == <<runRest, lease>>

-----------------------------------------------------------------------------
(* The beginning of a run. *)

\* The script refuses to export while users without a preference exist.  The list
\* of internal users is read when the run has its cutoff.
StartRun(r) ==
  /\ runs[r].at = "idle"
  /\ \A u \in Users : ~IsCandidate(u)
  /\ runs' = [runs EXCEPT ![r].at = "lease", ![r].cutoff = clock,
                          ![r].keys = control.keys, ![r].updatedAt = control.updatedAt]
  /\ UNCHANGED stagingRest

\* lease_expires_at <= CURRENT_TIMESTAMP(), and the promotion's opposite.
LeaseOver == lease.expires # None /\ lease.expires <= clock
IsNewer(r) == lease.last # None => lease.last < runs[r].cutoff

MayAcquire(r) == (lease.holder = None \/ LeaseOver) /\ IsNewer(r)

TakenBy(r) == [lease EXCEPT !.holder = r, !.expires = Expires(r)]

\* beginRun: takes the lease and creates the staging tables.  A run that has not
\* got its lease does not reach its cleanup.
AcquireLease(r) ==
  /\ runs[r].at = "lease"
  /\ IF MayAcquire(r)
     THEN lease' = TakenBy(r) /\ Advance(r, "users")
     ELSE UNCHANGED lease /\ End(r)
  /\ UNCHANGED runRest

\* The answer to the statement that takes the lease is lost: so is the run.
LoseLease(r) ==
  /\ runs[r].at = "lease"
  /\ MayAcquire(r)
  /\ lease' = TakenBy(r)
  /\ End(r)
  /\ UNCHANGED runRest

-----------------------------------------------------------------------------
(* What a run reads. *)

\* The first BatchLimit users of S, in order.
Batch(S) == {u \in S : Cardinality({v \in S : v < u}) < BatchLimit}
After(r) == {u \in Users : u > runs[r].cursor}

External(r, S) == {u \in S : ~Suppressed(u) /\ u \notin runs[r].keys}
EnabledAtCutoff(r, S) ==
  {u \in External(r, S) : users[u].preference = "enabled" /\ users[u].updatedAt <= runs[r].cutoff}

\* Slip: a batch begins after the user that the next one begins with.
Slip_LastOf(batch) == Max(batch) + 1

LastOf(batch) == Max(batch)

\* incrementCohort for each account of a batch.
Counted(r, batch) ==
  [runs[r] EXCEPT !.external = @ + Cardinality(External(r, batch)),
                  !.enabled = @ + Cardinality(EnabledAtCutoff(r, batch))]

\* appendMilestones: a row for each enabled account.
Staged(run, rows) == [run EXCEPT !.rows = @ \cup rows]

ScanUsers(r) ==
  LET batch == Batch(After(r)) IN
  /\ CanStage(r) /\ runs[r].at = "users"
  /\ batch # {}
  /\ runs' = [runs EXCEPT ![r] =
       [Staged(Counted(r, batch), EnabledAtCutoff(r, batch)) EXCEPT !.cursor = LastOf(batch)]]
  /\ UNCHANGED stagingRest

ChangedAfter(cutoff) == {u \in Users : users[u].updatedAt > cutoff}

\* Whom the reconciliation is there to keep from being published.
Outdated(r) == {u \in runs[r].rows : u \in ChangedAfter(runs[r].cutoff) \/ Suppressed(u)}

\* The end of the scan; then the events are staged as they are, and the
\* reconciliation begins.
BeginReconcile(r) ==
  /\ CanStage(r) /\ runs[r].at = "users"
  /\ After(r) = {}
  /\ runs' = [runs EXCEPT ![r].at = "reconcile", ![r].cursor = 0,
                          ![r].late = Outdated(r)]
  /\ UNCHANGED stagingRest

\* Slip: only those who have opted out are looked for.
Slip_Changes(r) ==
  Batch({u \in After(r) \cap ChangedAfter(runs[r].cutoff) : users[u].preference = "disabled"})

\* findProductAnalyticsPreferenceChangeBatch: without an upper bound.
Changes(r) == Batch(After(r) \cap ChangedAfter(runs[r].cutoff))

\* removeUserKeys: the rows of S, as many as there are.
Removed(run, S) == [run EXCEPT !.rows = @ \ S, !.enabled = @ - Cardinality(run.rows \cap S)]

Reconcile(r) ==
  /\ CanStage(r) /\ runs[r].at = "reconcile"
  /\ Changes(r) # {} /\ \A u \in Changes(r) : ~Suppressed(u)
  /\ runs' = [runs EXCEPT ![r] = [Removed(runs[r], Changes(r)) EXCEPT !.cursor = LastOf(Changes(r))]]
  /\ UNCHANGED stagingRest

SuppressionAborts(r) ==
  /\ CanStage(r) /\ runs[r].at = "reconcile"
  /\ \E u \in Changes(r) : Suppressed(u)
  /\ GoToCleanUp(r)
  /\ UNCHANGED stagingRest

EndReconcile(r) ==
  /\ CanStage(r) /\ runs[r].at = "reconcile"
  /\ Changes(r) = {}
  /\ Advance(r, "recheck")
  /\ UNCHANGED stagingRest

-----------------------------------------------------------------------------
(* Publication. *)

\* The time alone does not tell two changes of one moment apart.
SameControl(r) == control.updatedAt = runs[r].updatedAt /\ control.keys = runs[r].keys

ReloadControl(r) ==
  /\ CanStage(r) /\ runs[r].at = "recheck"
  /\ IF SameControl(r)
     THEN runs' = [runs EXCEPT ![r].at = "validate", ![r].internal = control.keys]
     ELSE GoToCleanUp(r)
  /\ UNCHANGED stagingRest

\* writeCohorts.
Cohorts(r) == [total |-> runs[r].external, enabled |-> runs[r].enabled]

\* What validateAndPromote counts in the staging tables.
Valid(r) ==
  /\ Cardinality(runs[r].rows) = runs[r].enabled
  /\ Cohorts(r).enabled \in 0 .. Cohorts(r).total

Validate(r) ==
  /\ CanStage(r) /\ runs[r].at = "validate"
  /\ IF Valid(r) THEN Advance(r, "promote") ELSE GoToCleanUp(r)
  /\ UNCHANGED stagingRest

HoldsLease(r) == lease.holder = r /\ ~LeaseOver /\ IsNewer(r)

\* The transaction replaces what is published; the days before the window of the
\* events stay.
Promote(r) ==
  /\ CanStage(r) /\ runs[r].at = "promote"
  /\ IF HoldsLease(r)
     THEN /\ published' =
               [cutoff |-> runs[r].cutoff, rows |-> runs[r].rows, enabled |-> runs[r].enabled,
                late |-> runs[r].rows \cap runs[r].late, internal |-> runs[r].rows \cap runs[r].internal]
          /\ lease' = [holder |-> None, expires |-> None, last |-> runs[r].cutoff]
     ELSE UNCHANGED <<published, lease>>
  /\ GoToCleanUp(r)
  /\ UNCHANGED <<consentVars, control, changes>>

\* A step fails, whether or not it has had its effect.
FailRun(r) ==
  /\ runs[r].at \in Staging \cup {"lease"}
  /\ IF runs[r].at = "lease" THEN End(r) ELSE GoToCleanUp(r)
  /\ UNCHANGED stagingRest

\* Slip: whoever holds the lease loses it.
Slip_ReleasedBy(r) == [lease EXCEPT !.holder = None, !.expires = None]

ReleasedBy(r) == IF lease.holder = r THEN [lease EXCEPT !.holder = None, !.expires = None] ELSE lease

\* cleanup, and what beginRun does when a table cannot be created.  The tables are
\* deleted, or expire.
CleanUp(r) ==
  /\ runs[r].at = "cleanup"
  /\ lease' = ReleasedBy(r)
  /\ End(r)
  /\ UNCHANGED runRest

\* The process stops, or the release fails: the lease is held until it expires.
Crash(r) ==
  /\ runs[r].at \notin {"idle", "done"}
  /\ End(r)
  /\ UNCHANGED stagingRest

\* The export sees of an update or a deletion only what it does to the users.
UpdateAndEnd(o) == ApplyUpdate(o) /\ updates' = [updates EXCEPT ![o] = [Unsent EXCEPT !.at = "answered"]]
SuppressAndEnd(d) == Suppress(d) /\ DeletionOver(d)

ExportNext ==
  \/ /\ Tick \/ (\E o \in Operations : UpdateAndEnd(o)) \/ (\E d \in Requests : SuppressAndEnd(d))
     /\ UNCHANGED exportVars
  \/ /\ ConsentArrivals
     /\ OneMoreChange
     /\ UNCHANGED <<control, lease, runs, published>>
  \/ ControlChanges
  \/ \E r \in Runs :
       \/ StartRun(r) \/ AcquireLease(r) \/ LoseLease(r)
       \/ ScanUsers(r) \/ BeginReconcile(r)
       \/ Reconcile(r) \/ SuppressionAborts(r) \/ EndReconcile(r)
       \/ ReloadControl(r) \/ Validate(r) \/ Promote(r)
       \/ FailRun(r) \/ CleanUp(r) \/ Crash(r)

ExportSpec == ExportInit /\ [][ExportNext]_<<consentVars, exportVars>>

-----------------------------------------------------------------------------
(* Properties. *)

\* A run that has taken the lease holds it until it publishes, ends or expires: a
\* run that was overtaken when its own lease had expired cleans up after itself
\* without releasing the lease of the run that overtook it
\* (product-analytics-export-repo.ts:681).
LeaseIsKept ==
  \A r \in Runs : runs[r].at \in Staging /\ clock < Expires(r) => lease.holder = r

\* Of the users staged who, when the reconciliation began, carried a change from after
\* the cutoff or a tombstone, none is published, however often they have changed again
\* since, but for those whose tombstone is dated at or before the cutoff; nor is anybody
\* who was internal when the list was read last
\* (product-analytics-export-service.ts:397, 410, 434).
\* The reconciliation knows a change by its date alone: it does not see an opt-out or a
\* tombstone that is dated at or before the cutoff and was written after its user was
\* scanned.  Such a user is published; of the opt-outs this property says nothing.
PublishedIsEligible ==
  /\ \A u \in published.late : Suppressed(u) /\ users[u].suppressedAt <= published.cutoff
  /\ published.internal = {}

\* The counts that a run keeps while users change agree with what it has staged:
\* validation rejects no run that went well (product-analytics-export-service.ts:420).
CountsAgree ==
  \A r \in Runs : runs[r].at = "validate" => Valid(r)

\* What a run publishes has been reconciled with the changes dated after its cutoff and
\* with the list of internal users, and the validation rejects no run that went well.
ExportIsSound == PublishedIsEligible /\ CountsAgree
=============================================================================
