------------------------- MODULE VoiceUploadsProofs -------------------------
(***************************************************************************)
(* Proofs about VoiceUploads for any number of uploads, any quota and any  *)
(* size of a batch.                                                        *)
(*                                                                         *)
(* The inductive invariant says, beside the types, what is known of each   *)
(* request and of what it has at the provider, and how far a purge has     *)
(* come.  What it says of a request is not disturbed when something is     *)
(* deleted at the provider, or when a call that was given up is forgotten. *)
(***************************************************************************)
EXTENDS VoiceUploads, FiniteSetTheorems, TLAPS

Stages == {"idle", "precheck", "record", "reply", "over"} \cup Calls
Request ==
  [at : Stages, call : {"none", "issued", "landed"}, client : {"open", "gone"},
   file : BOOLEAN, job : BOOLEAN,
   result : {"none", "text", "quota", "cancelled", "failed", "crashed"},
   seconds : 0..MaxSeconds, causes : SUBSET Causes]

RequestType ==
  /\ req \in [Requests -> Request]
  /\ \A q \in Requests : req[q].call # "none" <=> req[q].at \in Calls
ProviderType ==
  /\ files \subseteq Requests /\ jobs \subseteq Requests
  /\ late \subseteq Calls \X Requests
Sweep ==
  [at : {"none", "jobs", "files", "report"}, todo : SUBSET Requests, batch : SUBSET Requests,
   apply : BOOLEAN, cleared : BOOLEAN, failed : BOOLEAN]
PurgeType ==
  /\ purge \in Sweep
  /\ IsFiniteSet(purge.batch) /\ Cardinality(purge.batch) <= Batch

Late(call, q) == <<call, q>> \in late

\* A request that has not called the provider yet has nothing there.
Unbegun(q) ==
  req[q].at \in {"idle", "precheck"} => q \notin files /\ \A call \in Calls : ~Late(call, q)

\* A job that its request can name is the only one it will ever have: its creation is
\* not under way any more.
JobIsKnown(q) ==
  /\ req[q].at \in {"wait", "deleteJob", "deleteFile"} => req[q].job
  /\ req[q].job => req[q].at \notin {"idle", "precheck", "upload", "create"}
  /\ Late("create", q) => ~req[q].job /\ req[q].at \notin {"upload", "create"}

\* No job of q exists, nor will one.
NoJob(q) ==
  /\ q \notin jobs /\ ~Late("create", q)
  /\ req[q].at \notin {"idle", "precheck", "upload", "create"}

\* A file is deleted only when no job needs it.
DeletedInOrder(q) ==
  /\ req[q].at = "deleteJob" /\ req[q].call = "landed" => q \notin jobs
  /\ req[q].at = "deleteFile" \/ Late("deleteFile", q) => NoJob(q)

\* Without a failure or a crash, what has been created is deleted in the end; and of
\* the failures only some leave a job.
CauselessIsClean(q) ==
  /\ req[q].causes = {} =>
       /\ ~Late("upload", q)
       /\ req[q].at = "deleteFile" /\ req[q].call = "landed" => q \notin files
       /\ req[q].at \in {"record", "reply", "over"} => q \notin files
  /\ req[q].causes \cap {"create", "deleteJob", "crash"} = {} =>
       /\ ~Late("create", q)
       /\ req[q].at \in {"idle", "precheck", "upload", "record", "reply", "over"} => q \notin jobs

Sound(q) == Unbegun(q) /\ JobIsKnown(q) /\ DeletedInOrder(q) /\ CauselessIsClean(q)
RequestsAreSound == \A q \in Requests : Sound(q)

\* While the command runs nothing else does.
PurgeIsQuiet ==
  purge.at # "none" =>
    /\ \A q \in Requests : ~active(q)
    /\ \A call \in Signalled, q \in Requests : ~Late(call, q)

\* What it has not deleted is still to come, unless something has failed.
PurgeProceeds ==
  /\ purge.batch # {} => purge.apply
  /\ ~purge.failed => purge.cleared
  /\ sweeping => purge.todo \cup purge.batch \subseteq {q \in Requests : req[q].at = "over"}
  /\ purge.at = "jobs" /\ purge.apply /\ purge.cleared => jobs \subseteq purge.todo \cup purge.batch
  /\ purge.at = "files" =>
       /\ purge.batch # {} => purge.cleared
       /\ purge.apply /\ purge.cleared => jobs = {}
       /\ purge.apply /\ ~purge.failed => files \subseteq purge.todo \cup purge.batch

IInv ==
  /\ RequestType /\ ProviderType /\ PurgeType /\ usage \in Nat
  /\ RequestsAreSound
  /\ PurgeIsQuiet /\ PurgeProceeds /\ PurgeLeavesNothing
  /\ JobsHaveAudio

-----------------------------------------------------------------------------
(* Lemmas. *)

USE VoiceAssumption

\* The next stage of a request, and the call that it issues there.
LEMMA AtFields ==
  ASSUME NEW r \in Request, NEW stage \in Stages
  PROVE  /\ At(r, stage) \in Request
         /\ At(r, stage).at = stage
         /\ At(r, stage).call = IF stage \in Calls THEN "issued" ELSE "none"
         /\ At(r, stage).client = r.client
         /\ At(r, stage).job = r.job
         /\ At(r, stage).causes = r.causes
BY DEF At, Request

\* What is known of a request stays true when the provider loses something.
LEMMA Shrinks ==
  ASSUME NEW q \in Requests, Sound(q), req'[q] = req[q],
         q \in files' => q \in files, q \in jobs' => q \in jobs,
         \A call \in Calls : <<call, q>> \in late' => <<call, q>> \in late
  PROVE  Sound(q)'
BY DEF Sound, Unbegun, JobIsKnown, NoJob, DeletedInOrder, CauselessIsClean, Late, Calls, Signalled

\* What a request that is under way does leaves no purge to be disturbed.
LEMMA NoPurgeRuns ==
  ASSUME IInv, NEW q \in Requests, active(q)
  PROVE  purge.at = "none"
BY DEF IInv, PurgeIsQuiet

\* A step of one request, which need not touch the provider: what it must respect.
LEMMA RequestStep ==
  ASSUME IInv, purge.at = "none", UNCHANGED purge, usage' \in Nat,
         NEW q \in Requests, NEW r \in Request, Becomes(q, r),
         r.call # "none" <=> r.at \in Calls,
         ProviderType', jobs' \subseteq files',
         \A p \in Requests \ {q} :
           /\ p \in files' => p \in files
           /\ p \in jobs' => p \in jobs
           /\ \A call \in Calls : <<call, p>> \in late' => <<call, p>> \in late,
         Sound(q)'
  PROVE  IInv'
<1> USE DEF IInv
<1>1. RequestType'
  BY DEF RequestType, Becomes
<1>2. \A p \in Requests \ {q} : req'[p] = req[p]
  BY DEF RequestType, Becomes
<1>3. RequestsAreSound'
  BY <1>2, Shrinks DEF RequestsAreSound
<1>4. PurgeType' /\ PurgeIsQuiet' /\ PurgeProceeds' /\ PurgeLeavesNothing'
  BY DEF PurgeType, Sweep, PurgeIsQuiet, PurgeProceeds, PurgeLeavesNothing, sweeping
<1> QED BY <1>1, <1>3, <1>4 DEF JobsHaveAudio

\* The same for a step that leaves the provider alone.
LEMMA LocalStep ==
  ASSUME IInv, purge.at = "none", UNCHANGED <<provider, purge>>, usage' \in Nat,
         NEW q \in Requests, NEW r \in Request, Becomes(q, r),
         r.call # "none" <=> r.at \in Calls,
         Sound(q)'
  PROVE  IInv'
<1>1. ProviderType' /\ jobs' \subseteq files'
  BY DEF IInv, ProviderType, provider, JobsHaveAudio
<1> QED BY <1>1, RequestStep DEF provider

-----------------------------------------------------------------------------
(* The actions of a request. *)

LEMMA BeginKeeps ==
  ASSUME IInv, NEW q \in Requests, Begin(q) PROVE IInv'
<1> DEFINE r == [NoRequest EXCEPT !.at = "precheck"]
<1>1. /\ r \in Request /\ r.at = "precheck" /\ r.call = "none" /\ ~r.job /\ r.causes = {}
  <2>1. 0 \in 0..MaxSeconds
    OBVIOUS
  <2> QED BY <2>1 DEF NoRequest, Request, Stages
<1>2. /\ req[q].at = "idle" /\ purge.at = "none" /\ Becomes(q, r)
      /\ UNCHANGED <<provider, usage, purge>>
  BY DEF Begin
<1> HIDE DEF r
<1>3. req'[q] = r
  BY <1>2 DEF Becomes, IInv, RequestType
<1>4. Sound(q)'
  BY <1>1, <1>2, <1>3 DEF provider, IInv, RequestsAreSound, Sound, Unbegun, JobIsKnown, NoJob,
       DeletedInOrder, CauselessIsClean, Late, Calls, Signalled, JobsHaveAudio
<1> QED BY <1>1, <1>2, <1>4, LocalStep DEF Calls, Signalled, IInv

LEMMA PrecheckKeeps ==
  ASSUME IInv, NEW q \in Requests, Precheck(q) \/ PrecheckFails(q) PROVE IInv'
<1>1. /\ req[q].at = "precheck" /\ req[q] \in Request /\ ~req[q].job
      /\ UNCHANGED <<provider, usage, purge>>
  BY DEF Precheck, PrecheckFails, IInv, RequestType, RequestsAreSound, Sound, JobIsKnown
<1>2. PICK stage \in {"reply", "upload"}, r \in Request :
        /\ r.job = req[q].job /\ r.causes = req[q].causes
        /\ Becomes(q, At(r, stage))
  <2>1. \A res \in {"quota", "cancelled", "failed"} :
          LET s == [req[q] EXCEPT !.result = res] IN
          s \in Request /\ s.job = req[q].job /\ s.causes = req[q].causes /\ s.result = res
    BY <1>1 DEF Request
  <2>2. CASE Precheck(q)
    BY <1>1, <2>1, <2>2 DEF Precheck, Settled
  <2>3. CASE PrecheckFails(q)
    BY <2>1, <2>3 DEF PrecheckFails
  <2> QED BY <2>2, <2>3
<1>3. /\ At(r, stage) \in Request /\ At(r, stage).at = stage /\ ~At(r, stage).job
      /\ At(r, stage).causes = req[q].causes
      /\ At(r, stage).call # "none" <=> stage \in Calls
      /\ At(r, stage).call # "landed"
  BY <1>1, <1>2, AtFields DEF Stages, Calls, Signalled
<1>4. req'[q] = At(r, stage)
  BY <1>2 DEF Becomes, IInv, RequestType
<1>5. Sound(q)'
  BY <1>1, <1>2, <1>3, <1>4 DEF provider, IInv, RequestsAreSound, Sound, Unbegun, JobIsKnown, NoJob,
       DeletedInOrder, CauselessIsClean, Late, Calls, Signalled, JobsHaveAudio
<1> QED BY <1>1, <1>2, <1>3, <1>5, LocalStep, NoPurgeRuns DEF active, IInv

LEMMA ReturnKeeps ==
  ASSUME IInv, NEW q \in Requests, Return(q) PROVE IInv'
<1> USE DEF IInv
<1>1. /\ req[q] \in Request /\ req[q].call = "landed" /\ req[q].at \in Calls /\ Sound(q)
      /\ UNCHANGED <<provider, usage, purge>> /\ purge.at = "none"
  BY NoPurgeRuns DEF Return, RequestType, RequestsAreSound, active, Calls, Signalled
<1>2. PICK stage \in {"create", "wait", "deleteJob", "deleteFile", "record", "reply"}, r \in Request :
        /\ Becomes(q, At(r, stage))
        /\ r.causes = req[q].causes
        /\ r.job = (req[q].job \/ req[q].at = "create")
        /\ \/ req[q].at = "upload" /\ stage = "create"
           \/ req[q].at = "create" /\ stage = "wait"
           \/ req[q].at = "wait" /\ stage = "deleteJob"
           \/ req[q].at = "deleteJob" /\ stage = "deleteFile"
           \/ req[q].at = "deleteFile" /\ stage \in {"record", "reply"}
  <2>1. CASE req[q].at = "upload" /\ Becomes(q, At([req[q] EXCEPT !.file = TRUE], "create"))
    BY <1>1, <2>1 DEF Request
  <2>2. CASE req[q].at = "create" /\ Becomes(q, At([req[q] EXCEPT !.job = TRUE], "wait"))
    BY <1>1, <2>2 DEF Request
  <2>3. CASE /\ req[q].at = "wait"
             /\ \E n \in 1..MaxSeconds : Becomes(q, Cleanup([req[q] EXCEPT !.result = "text", !.seconds = n]))
    <3>1. PICK n \in 1..MaxSeconds : Becomes(q, Cleanup([req[q] EXCEPT !.result = "text", !.seconds = n]))
      BY <2>3
    <3> DEFINE r == [req[q] EXCEPT !.result = "text", !.seconds = n]
    <3>2. n \in 0..MaxSeconds
      OBVIOUS
    <3>3. r \in Request /\ r.causes = req[q].causes /\ r.job = req[q].job /\ r.job
      BY <1>1, <2>3, <3>2 DEF Request, Sound, JobIsKnown
    <3>4. Becomes(q, At(r, "deleteJob"))
      BY <3>1, <3>3 DEF Cleanup
    <3> HIDE DEF r
    <3> QED BY <2>3, <3>3, <3>4
  <2>4. CASE req[q].at = "deleteJob" /\ Becomes(q, At(req[q], "deleteFile"))
    BY <1>1, <2>4 DEF Request
  <2>5. CASE req[q].at = "deleteFile" /\ Becomes(q, Settled(req[q]))
    BY <1>1, <2>5 DEF Settled, Request
  <2> QED BY <2>1, <2>2, <2>3, <2>4, <2>5 DEF Return
<1>3. /\ At(r, stage) \in Request /\ At(r, stage).at = stage
      /\ At(r, stage).job = (req[q].job \/ req[q].at = "create")
      /\ At(r, stage).causes = req[q].causes
      /\ At(r, stage).call # "none" <=> stage \in Calls
      /\ At(r, stage).call # "landed"
  BY <1>2, AtFields DEF Stages, Calls, Signalled
<1>4. req'[q] = At(r, stage)
  BY <1>2 DEF Becomes, RequestType
<1>5. Sound(q)'
  BY <1>1, <1>2, <1>3, <1>4 DEF provider, Sound, Unbegun, JobIsKnown, NoJob,
       DeletedInOrder, CauselessIsClean, Late, Calls, Signalled
<1> QED BY <1>1, <1>2, <1>3, <1>5, LocalStep

LEMMA FinishKeeps ==
  ASSUME IInv, NEW q \in Requests, Record(q) \/ Reply(q) \/ Leave(q) PROVE IInv'
<1> USE DEF IInv
<1>1. /\ req[q] \in Request /\ Sound(q) /\ (req[q].call # "none" <=> req[q].at \in Calls)
      /\ UNCHANGED <<provider, purge>> /\ purge.at = "none" /\ usage' \in Nat
  <2>1. active(q) /\ UNCHANGED <<provider, purge>>
    BY DEF Record, Reply, Leave, active
  <2>2. req[q] \in Request /\ req[q].seconds \in Nat
    BY DEF RequestType, Request
  <2>3. usage' \in Nat
    BY <2>2 DEF Record, Reply, Leave
  <2> QED BY <2>1, <2>2, <2>3, NoPurgeRuns DEF RequestType, RequestsAreSound
<1>2. PICK r \in Request :
        /\ Becomes(q, r) /\ r.job = req[q].job /\ r.causes = req[q].causes
        /\ r.call # "none" <=> r.at \in Calls
        /\ \/ req[q].at \in {"record", "reply"} /\ r.at \in {"reply", "over"}
           \/ r.at = req[q].at /\ r.call = req[q].call
  <2>1. CASE Record(q)
    BY <1>1, <2>1, AtFields DEF Record, Stages, Calls, Signalled
  <2>2. CASE Reply(q)
    BY <1>1, <2>2, AtFields DEF Reply, Stages, Calls, Signalled
  <2>3. CASE Leave(q)
    <3> DEFINE r == [req[q] EXCEPT !.client = "gone"]
    <3>1. r \in Request /\ r.job = req[q].job /\ r.causes = req[q].causes /\ r.at = req[q].at /\ r.call = req[q].call
      BY <1>1 DEF Request
    <3> QED BY <1>1, <2>3, <3>1 DEF Leave
  <2> QED BY <2>1, <2>2, <2>3
<1>3. req'[q] = r
  BY <1>2 DEF Becomes, RequestType
<1>4. Sound(q)'
  BY <1>1, <1>2, <1>3 DEF provider, Sound, Unbegun, JobIsKnown, NoJob,
       DeletedInOrder, CauselessIsClean, Late, Calls, Signalled
<1> QED BY <1>1, <1>2, <1>4, LocalStep

-----------------------------------------------------------------------------
(* The provider, failures and crashes. *)

LEMMA LandKeeps ==
  ASSUME IInv, NEW q \in Requests, Land(q) PROVE IInv'
<1> USE DEF IInv
<1>1. /\ req[q] \in Request /\ req[q].call = "issued" /\ req[q].at \in Calls /\ Sound(q)
      /\ UNCHANGED <<late, usage, purge>> /\ purge.at = "none"
  <2>1. req[q] \in Request /\ req[q].call = "issued" /\ req[q].at \in Calls
    BY DEF Land, RequestType
  <2>2. active(q)
    BY <2>1 DEF active, Calls, Signalled
  <2> QED BY <2>1, <2>2, NoPurgeRuns DEF Land, RequestsAreSound
<1> DEFINE r == [req[q] EXCEPT !.call = "landed"]
<1>2. /\ r \in Request /\ r.call = "landed" /\ r.at = req[q].at
      /\ r.job = req[q].job /\ r.causes = req[q].causes
  BY <1>1 DEF Request
<1>3. Becomes(q, r) /\ Arrive(req[q].at, q) /\ (req[q].at = "create" => q \in files)
  BY DEF Land
<1> HIDE DEF r
<1>4. req'[q] = r
  BY <1>3 DEF Becomes, RequestType
<1>5. /\ req[q].at = "upload" => files' = files \cup {q} /\ jobs' = jobs
      /\ req[q].at = "create" => files' = files /\ jobs' = jobs \cup {q}
      /\ req[q].at = "wait" => files' = files /\ jobs' = jobs
      /\ req[q].at = "deleteJob" => files' = files /\ jobs' = jobs \ {q}
      /\ req[q].at = "deleteFile" => files' = files \ {q} /\ jobs' = jobs
  BY <1>3 DEF Arrive
<1>6. ProviderType' /\ jobs' \subseteq files'
  BY <1>1, <1>3, <1>5 DEF ProviderType, JobsHaveAudio, Calls, Signalled, Sound, DeletedInOrder, NoJob
<1>7. \A p \in Requests \ {q} : (p \in files' => p \in files) /\ (p \in jobs' => p \in jobs)
  BY <1>1, <1>5 DEF Calls, Signalled
<1>8. Sound(q)'
  BY <1>1, <1>2, <1>4, <1>5 DEF Sound, Unbegun, JobIsKnown, NoJob,
       DeletedInOrder, CauselessIsClean, Late, Calls, Signalled
<1> QED BY <1>1, <1>2, <1>3, <1>6, <1>7, <1>8, RequestStep

\* A late call to create can only be of a request that has not named its job, and a
\* late deletion of a file of one that has none any more.
LEMMA LandLateKeeps ==
  ASSUME IInv, NEW call \in Calls, NEW q \in Requests, LandLate(call, q) PROVE IInv'
<1> USE DEF IInv
<1>1. /\ Late(call, q) /\ late' = late \ {<<call, q>>} /\ UNCHANGED <<req, usage, purge>>
      /\ Sound(q)
  BY DEF LandLate, Late, RequestsAreSound
<1>2. \/ UNCHANGED <<files, jobs>>
      \/ call = "upload" /\ files' = files \cup {q} /\ jobs' = jobs
      \/ call = "create" /\ files' = files /\ jobs' = jobs \cup ({q} \cap files)
      \/ call = "deleteJob" /\ files' = files /\ jobs' = jobs \ {q}
      \/ call = "deleteFile" /\ files' = files \ {q} /\ jobs' = jobs
  BY DEF LandLate, Arrive, Calls, Signalled
<1>3. ProviderType' /\ jobs' \subseteq files'
  BY <1>1, <1>2 DEF ProviderType, JobsHaveAudio, Sound, DeletedInOrder, NoJob
<1>4. Sound(q)'
  BY <1>1, <1>2 DEF Sound, Unbegun, JobIsKnown, NoJob,
       DeletedInOrder, CauselessIsClean, Late, Calls, Signalled
<1>5. RequestsAreSound'
  <2>1. \A p \in Requests \ {q} : Sound(p)'
    BY <1>1, <1>2, Shrinks DEF RequestsAreSound
  <2> QED BY <1>4, <2>1 DEF RequestsAreSound
<1>6. purge.at # "none" => files' \subseteq files /\ jobs' \subseteq jobs
  BY <1>1, <1>2 DEF PurgeIsQuiet, Signalled
<1>7. PurgeIsQuiet'
  BY <1>1 DEF PurgeIsQuiet, Late, active
<1>8. PurgeProceeds' /\ PurgeLeavesNothing'
  BY <1>1, <1>6 DEF PurgeProceeds, PurgeLeavesNothing, sweeping
<1> QED BY <1>1, <1>3, <1>5, <1>7, <1>8 DEF RequestType, PurgeType, JobsHaveAudio

LEMMA FailKeeps ==
  ASSUME IInv, NEW q \in Requests, Fail(q) PROVE IInv'
<1> USE DEF IInv
<1> DEFINE m == [req[q] EXCEPT !.causes = @ \cup ({req[q].at} \cap Causes)]
<1>1. /\ req[q] \in Request /\ req[q].at \in Calls /\ Sound(q)
      /\ UNCHANGED <<files, jobs, usage, purge>> /\ purge.at = "none"
  <2>1. req[q] \in Request /\ req[q].at \in Calls
    BY DEF Fail, Fails, RequestType
  <2>2. active(q)
    BY <2>1 DEF active, Calls, Signalled
  <2> QED BY <2>1, <2>2, NoPurgeRuns DEF Fail, RequestsAreSound
<1>2. /\ m \in Request /\ m.at = req[q].at /\ m.job = req[q].job
      /\ m.causes = req[q].causes \cup ({req[q].at} \cap Causes)
      /\ m.result = req[q].result
  BY <1>1 DEF Request
<1>3. /\ late' \in {late, late \cup GivenUp({q})}
      /\ Becomes(q, IF m.at \in Signalled THEN Cleanup([m EXCEPT !.result = Failure(m)]) ELSE Settled(m))
  BY DEF Fail
<1> HIDE DEF m
<1> DEFINE f == [m EXCEPT !.result = Failure(m)]
<1>4. /\ f \in Request /\ f.at = m.at /\ f.job = m.job /\ f.causes = m.causes
      /\ f.result # "text"
  BY <1>2 DEF Request, Failure
<1>5. PICK stage \in {"deleteJob", "record", "reply"}, r \in Request :
        /\ Becomes(q, At(r, stage))
        /\ r.job = m.job /\ r.causes = m.causes
        /\ m.at \in Signalled => stage = IF m.job THEN "deleteJob" ELSE "reply"
        /\ m.at \notin Signalled => stage # "deleteJob"
  <2>1. CASE m.at \in Signalled
    <3>1. Becomes(q, Cleanup(f))
      BY <1>3, <2>1
    <3> HIDE DEF f
    <3> QED BY <1>2, <1>4, <2>1, <3>1 DEF Cleanup, Settled
  <2>2. CASE m.at \notin Signalled
    <3>1. Becomes(q, Settled(m))
      BY <1>3, <2>2
    <3> QED BY <1>2, <2>2, <3>1 DEF Settled
  <2> QED BY <2>1, <2>2
<1>6. /\ At(r, stage) \in Request /\ At(r, stage).at = stage
      /\ At(r, stage).job = req[q].job
      /\ At(r, stage).causes = req[q].causes \cup ({req[q].at} \cap Causes)
      /\ At(r, stage).call # "none" <=> stage \in Calls
      /\ At(r, stage).call # "landed"
  BY <1>2, <1>5, AtFields DEF Stages, Calls, Signalled
<1>7. req'[q] = At(r, stage)
  BY <1>5 DEF Becomes, RequestType
<1>8. \A call \in Calls, p \in Requests :
        Late(call, p)' => Late(call, p) \/ (p = q /\ call = req[q].at)
  BY <1>3 DEF GivenUp, Late
<1>9. ProviderType' /\ jobs' \subseteq files'
  BY <1>1, <1>3 DEF ProviderType, JobsHaveAudio, GivenUp
<1>10. Sound(q)'
  BY <1>1, <1>2, <1>5, <1>6, <1>7, <1>8 DEF Sound, Unbegun, JobIsKnown, NoJob,
       DeletedInOrder, CauselessIsClean, Late, Calls, Signalled, Causes
<1>11. \A p \in Requests \ {q}, call \in Calls : <<call, p>> \in late' => <<call, p>> \in late
  BY <1>8 DEF Late
<1> QED BY <1>1, <1>5, <1>6, <1>9, <1>10, <1>11, RequestStep

LEMMA CrashKeeps ==
  ASSUME IInv, Crash PROVE IInv'
<1> USE DEF IInv
<1>1. PICK left \in SUBSET GivenUp(Requests) : late' = late \cup left
  BY DEF Crash
<1>2. /\ UNCHANGED <<files, jobs, usage, purge>> /\ purge.at = "none"
      /\ req' = [q \in Requests |->
               IF active(q)
               THEN At([req[q] EXCEPT !.result = "crashed", !.causes = @ \cup {"crash"}], "over")
               ELSE req[q]]
  BY NoPurgeRuns DEF Crash
<1>3. ASSUME NEW q \in Requests, active(q)
      PROVE  /\ req'[q] \in Request /\ req'[q].at = "over" /\ req'[q].call = "none"
             /\ req'[q].job = req[q].job /\ "crash" \in req'[q].causes
  <2> DEFINE r == [req[q] EXCEPT !.result = "crashed", !.causes = @ \cup {"crash"}]
  <2>1. r \in Request /\ r.job = req[q].job /\ "crash" \in r.causes
    BY DEF RequestType, Request, Causes
  <2>2. req'[q] = At(r, "over")
    BY <1>2, <1>3
  <2> HIDE DEF r
  <2> QED BY <2>1, <2>2, AtFields DEF Stages, Calls, Signalled
<1>4. ASSUME NEW q \in Requests, ~active(q)
      PROVE  /\ req'[q] = req[q] /\ req[q].call = "none"
             /\ \A call \in Calls : <<call, q>> \in late' => <<call, q>> \in late
  <2>1. req'[q] = req[q]
    BY <1>2, <1>4
  <2>2. req[q].call = "none"
    BY <1>4 DEF RequestType, active, Calls, Signalled
  <2> QED BY <1>1, <2>1, <2>2 DEF GivenUp
<1>5. RequestType'
  <2>1. \A q \in Requests : req'[q] \in Request /\ (req'[q].call # "none" <=> req'[q].at \in Calls)
    BY <1>3, <1>4 DEF RequestType, Calls, Signalled
  <2> QED BY <1>2, <2>1 DEF RequestType
<1>6. ProviderType' /\ JobsHaveAudio'
  <2>1. GivenUp(Requests) \subseteq Calls \X Requests
    BY DEF GivenUp, RequestType
  <2> QED BY <1>1, <1>2, <2>1 DEF ProviderType, JobsHaveAudio
<1>7. RequestsAreSound'
  <2> SUFFICES ASSUME NEW q \in Requests PROVE Sound(q)'
    BY DEF RequestsAreSound
  <2>1. CASE active(q)
    <3>1. \A call \in Calls : Late(call, q)' => Late(call, q) \/ call = req[q].at
      BY <1>1 DEF GivenUp, Late
    <3> QED BY <1>2, <1>3, <2>1, <3>1 DEF RequestsAreSound, Sound, Unbegun, JobIsKnown, NoJob,
       DeletedInOrder, CauselessIsClean, Late, Calls, Signalled
  <2>2. CASE ~active(q)
    BY <1>2, <1>4, <2>2, Shrinks DEF RequestsAreSound
  <2> QED BY <2>1, <2>2
<1>8. PurgeType' /\ PurgeIsQuiet' /\ PurgeProceeds' /\ PurgeLeavesNothing'
  BY <1>2 DEF PurgeType, Sweep, PurgeIsQuiet, PurgeProceeds, PurgeLeavesNothing, sweeping
<1> QED BY <1>2, <1>5, <1>6, <1>7, <1>8

-----------------------------------------------------------------------------
(* The purge. *)

\* A step of the command, which deletes at the provider and issues deletions only.
LEMMA PurgeStep ==
  ASSUME IInv, UNCHANGED <<req, usage>>, PurgeType', PurgeProceeds', PurgeLeavesNothing',
         ProviderType', jobs' \subseteq files', jobs' \subseteq jobs, files' \subseteq files,
         \A q \in Requests : ~active(q),
         \A call \in Calls, q \in Requests : <<call, q>> \in late' =>
           \/ <<call, q>> \in late
           \/ call = "deleteJob" /\ req[q].at = "over"
           \/ call = "deleteFile" /\ req[q].at = "over" /\ NoJob(q),
         \A call \in Signalled, q \in Requests : ~Late(call, q)
  PROVE  IInv'
<1> USE DEF IInv
<1>1. PurgeIsQuiet'
  BY DEF PurgeIsQuiet, active, Late, Calls, Signalled
<1>2. RequestsAreSound'
  <2> SUFFICES ASSUME NEW q \in Requests PROVE Sound(q)'
    BY DEF RequestsAreSound
  <2> QED BY DEF RequestsAreSound, Sound, Unbegun, JobIsKnown, NoJob,
       DeletedInOrder, CauselessIsClean, Late, Calls, Signalled
<1> QED BY <1>1, <1>2 DEF RequestType, JobsHaveAudio

\* The same when it leaves the provider alone.
LEMMA SweepStep ==
  ASSUME IInv, NEW p, Purge(p), UNCHANGED provider, PurgeType', PurgeProceeds', PurgeLeavesNothing',
         \A q \in Requests : ~active(q),
         \A call \in Signalled, q \in Requests : ~Late(call, q)
  PROVE  IInv'
<1>1. ProviderType' /\ jobs' \subseteq files'
  BY DEF IInv, ProviderType, JobsHaveAudio, provider
<1> QED BY <1>1, PurgeStep DEF provider, Purge

\* Nothing else runs while the command does.
LEMMA Quiet ==
  ASSUME IInv, purge.at # "none"
  PROVE  /\ \A q \in Requests : ~active(q)
         /\ \A call \in Signalled, q \in Requests : ~Late(call, q)
BY DEF IInv, PurgeIsQuiet

\* What is stored then is of requests that are over.
LEMMA StoredAreOver ==
  ASSUME IInv, \A q \in Requests : ~active(q)
  PROVE  \A q \in files \cup jobs : req[q].at = "over"
BY DEF IInv, ProviderType, JobsHaveAudio, RequestsAreSound, Sound, Unbegun, active

\* There is always room for nothing.
LEMMA EmptyBatch == IsFiniteSet({}) /\ Cardinality({}) <= Batch
BY FS_EmptySet

LEMMA PurgeBeginsKeeps ==
  ASSUME IInv, NEW apply \in BOOLEAN, PurgeBegins(apply) PROVE IInv'
<1> DEFINE p == [NoPurge EXCEPT !.at = "jobs", !.todo = jobs, !.apply = apply]
<1>1. /\ Purge(p) /\ UNCHANGED provider /\ late = {} /\ \A q \in Requests : ~active(q)
  BY DEF PurgeBegins
<1>2. /\ p.at = "jobs" /\ p.todo = jobs /\ p.batch = {} /\ p.apply = apply /\ p.cleared /\ ~p.failed
      /\ p \in Sweep /\ jobs \subseteq Requests
  BY DEF NoPurge, Sweep, IInv, ProviderType
<1> HIDE DEF p
<1>4. \A q \in jobs : req[q].at = "over"
  BY <1>1, StoredAreOver
<1>3. PurgeType' /\ PurgeProceeds' /\ PurgeLeavesNothing'
  BY <1>1, <1>2, <1>4, EmptyBatch DEF Purge, provider, PurgeType, Sweep, PurgeProceeds, PurgeLeavesNothing, sweeping
<1> QED BY <1>1, <1>3, SweepStep DEF Late

LEMMA ListKeeps ==
  ASSUME IInv, NEW q \in Requests, List(q) PROVE IInv'
<1> USE DEF IInv
<1> DEFINE rest == [purge EXCEPT !.todo = @ \ {q}]
           batched == [rest EXCEPT !.batch = @ \cup {q}]
<1>1. /\ sweeping /\ q \in purge.todo /\ Cardinality(purge.batch) < Batch /\ UNCHANGED provider
      /\ \/ Purge(Marked(rest))
         \/ purge.apply /\ (purge.at = "files" => purge.cleared) /\ Purge(batched)
         \/ ~(purge.apply /\ (purge.at = "files" => purge.cleared)) /\ Purge(rest)
  BY DEF List
<1>2. purge.at \in {"jobs", "files"} /\ UNCHANGED <<req, files, jobs, late, usage>>
  BY <1>1 DEF sweeping, Purge, provider
<1>3. PICK marked \in BOOLEAN, taken \in BOOLEAN :
        /\ purge' = [at |-> purge.at, todo |-> purge.todo \ {q},
                     batch |-> IF taken THEN purge.batch \cup {q} ELSE purge.batch,
                     apply |-> purge.apply,
                     cleared |-> IF marked /\ purge.at = "jobs" THEN FALSE ELSE purge.cleared,
                     failed |-> IF marked THEN TRUE ELSE purge.failed]
        /\ taken => purge.apply /\ (purge.at = "files" => purge.cleared)
        /\ ~taken => marked \/ ~purge.apply \/ (purge.at = "files" /\ ~purge.cleared)
  BY <1>1, <1>2 DEF Purge, Marked, PurgeType, Sweep
<1>4. /\ IsFiniteSet(purge.batch \cup {q})
      /\ Cardinality(purge.batch \cup {q}) <= Batch
  <2>1. /\ IsFiniteSet(purge.batch) /\ Cardinality(purge.batch) \in Nat
        /\ Cardinality(purge.batch) < Batch
    BY <1>1, FS_CardinalityType DEF PurgeType
  <2>2. /\ IsFiniteSet(purge.batch \cup {q})
        /\ Cardinality(purge.batch \cup {q}) \in {Cardinality(purge.batch), Cardinality(purge.batch) + 1}
    BY <2>1, FS_AddElement
  <2> QED BY <2>1, <2>2
<1>5. PurgeType'
  BY <1>3, <1>4 DEF PurgeType, Sweep
<1>6. PurgeProceeds' /\ PurgeLeavesNothing'
  BY <1>1, <1>2, <1>3 DEF PurgeType, Sweep, PurgeProceeds, PurgeLeavesNothing, sweeping
<1> QED BY <1>1, <1>2, <1>5, <1>6, Quiet, SweepStep

LEMMA ListFailsKeeps ==
  ASSUME IInv, ListFails PROVE IInv'
<1> USE DEF IInv
<1> DEFINE p == Marked([purge EXCEPT !.todo = {}])
<1>1. sweeping /\ Purge(p) /\ UNCHANGED provider
  BY DEF ListFails
<1>2. /\ p.at = purge.at /\ p.todo = {} /\ p.batch = purge.batch /\ p.apply = purge.apply
      /\ p.failed /\ p.cleared = (purge.cleared /\ purge.at # "jobs")
      /\ p \in Sweep
  BY DEF PurgeType, Sweep, Marked
<1> HIDE DEF p
<1>3. PurgeType' /\ PurgeProceeds' /\ PurgeLeavesNothing'
  BY <1>1, <1>2 DEF Purge, provider, PurgeType, Sweep, PurgeProceeds, PurgeLeavesNothing, sweeping
<1> QED BY <1>1, <1>3, Quiet, SweepStep DEF sweeping

LEMMA FlushKeeps ==
  ASSUME IInv, Flush PROVE IInv'
<1> USE DEF IInv
<1>1. PICK deleted \in SUBSET purge.batch,
           arrived \in SUBSET purge.batch, mode \in {"lost", "late"} :
       LET gone == deleted \cup arrived
           after == [purge EXCEPT !.batch = {}]
           call == IF purge.at = "jobs" THEN "deleteJob" ELSE "deleteFile" IN
       /\ jobs' = IF purge.at = "jobs" THEN jobs \ gone ELSE jobs
       /\ files' = IF purge.at = "files" THEN files \ gone ELSE files
       /\ late' = late \cup (IF mode = "late" THEN {call} \X (purge.batch \ gone) ELSE {})
       /\ Purge(IF deleted = purge.batch THEN after ELSE Marked(after))
  BY DEF Flush
<1>2. /\ purge.at \in {"jobs", "files"} /\ purge.batch # {} /\ UNCHANGED <<req, usage>>
      /\ purge.batch \subseteq {q \in Requests : req[q].at = "over"}
  BY <1>1 DEF Flush, sweeping, Purge, PurgeProceeds
<1>3. PICK marked \in BOOLEAN :
        /\ purge' = [at |-> purge.at, todo |-> purge.todo, batch |-> {}, apply |-> purge.apply,
                     cleared |-> IF marked /\ purge.at = "jobs" THEN FALSE ELSE purge.cleared,
                     failed |-> IF marked THEN TRUE ELSE purge.failed]
        /\ ~marked => deleted = purge.batch
  BY <1>1, <1>2 DEF Purge, Marked, PurgeType, Sweep
<1>4. /\ jobs' \subseteq jobs /\ files' \subseteq files
      /\ purge.at = "jobs" => files' = files /\ (~marked => jobs' = jobs \ purge.batch)
      /\ purge.at = "files" => jobs = {} /\ jobs' = {} /\ (~marked => files' = files \ purge.batch)
  BY <1>1, <1>2, <1>3 DEF PurgeProceeds
<1>5. PurgeType'
  BY <1>3, EmptyBatch DEF PurgeType, Sweep
<1>6. PurgeProceeds' /\ PurgeLeavesNothing'
  BY <1>2, <1>3, <1>4 DEF PurgeType, Sweep, PurgeProceeds, PurgeLeavesNothing, sweeping
<1>7. jobs' \subseteq files'
  BY <1>2, <1>4 DEF JobsHaveAudio
<1>8. \A call \in Calls, q \in Requests : <<call, q>> \in late' =>
        \/ <<call, q>> \in late
        \/ q \in purge.batch /\ call = IF purge.at = "jobs" THEN "deleteJob" ELSE "deleteFile"
  BY <1>1
<1>9. \A q \in purge.batch : purge.at = "files" => NoJob(q)
  BY <1>2, <1>4, Quiet DEF NoJob, Signalled, Late
<1>10. ProviderType'
  <2>1. purge.batch \subseteq Requests
    BY <1>2
  <2>2. late' \subseteq Calls \X Requests
    BY <1>1, <2>1 DEF ProviderType, Calls
  <2> QED BY <1>4, <2>2 DEF ProviderType
<1> QED BY <1>2, <1>5, <1>6, <1>7, <1>4, <1>8, <1>9, <1>10, Quiet, PurgeStep

LEMMA NextSweepKeeps ==
  ASSUME IInv, NextSweep \/ PurgeEnds PROVE IInv'
<1> USE DEF IInv
<1>1. UNCHANGED <<req, files, jobs, late, usage>> /\ purge.at # "none"
  BY DEF NextSweep, PurgeEnds, swept, sweeping, Purge, provider
<1>2. \A q \in files : req[q].at = "over"
  BY <1>1, Quiet, StoredAreOver
<1>3. ASSUME NextSweep
      PROVE  /\ purge.at \in {"jobs", "files"} /\ purge.todo = {} /\ purge.batch = {}
             /\ purge' = [at |-> IF purge.at = "jobs" THEN "files" ELSE "report",
                          todo |-> IF purge.at = "jobs" THEN files ELSE {}, batch |-> {},
                          apply |-> purge.apply, cleared |-> purge.cleared, failed |-> purge.failed]
  BY <1>3 DEF NextSweep, swept, sweeping, Purge, PurgeType, Sweep
<1>4. ASSUME PurgeEnds PROVE purge' = NoPurge
  BY <1>4 DEF PurgeEnds, Purge
<1>5. PurgeType'
  <2>1. CASE NextSweep
    <3>1. purge' \in Sweep
      BY <1>3, <2>1 DEF PurgeType, Sweep, ProviderType
    <3> QED BY <1>3, <2>1, <3>1, EmptyBatch DEF PurgeType
  <2>2. CASE PurgeEnds
    <3>1. NoPurge \in Sweep /\ NoPurge.batch = {}
      BY DEF Sweep, NoPurge
    <3> QED BY <1>4, <2>2, <3>1, EmptyBatch DEF PurgeType
  <2> QED BY <2>1, <2>2
<1>6. PurgeProceeds' /\ PurgeLeavesNothing'
  BY <1>1, <1>2, <1>3, <1>4 DEF PurgeType, Sweep, PurgeProceeds, PurgeLeavesNothing, sweeping, NoPurge, ProviderType
<1>7. ProviderType' /\ jobs' \subseteq files'
  BY <1>1 DEF ProviderType, JobsHaveAudio
<1> QED BY <1>1, <1>5, <1>6, <1>7, Quiet, PurgeStep

-----------------------------------------------------------------------------
(* The invariant. *)

LEMMA Initially == Init => IInv
<1> SUFFICES ASSUME Init PROVE IInv
  OBVIOUS
<1>1. NoRequest \in Request /\ NoRequest.at = "idle" /\ NoRequest.call = "none" /\ ~NoRequest.job
  <2>1. 0 \in 0..MaxSeconds
    OBVIOUS
  <2> QED BY <2>1 DEF NoRequest, Request, Stages
<1>2. \A q \in Requests : req[q] = NoRequest
  BY DEF Init
<1>3. RequestType /\ ProviderType
  BY <1>1, <1>2 DEF Init, RequestType, ProviderType, Calls, Signalled
<1>4. PurgeType /\ PurgeIsQuiet /\ PurgeProceeds /\ PurgeLeavesNothing
  BY EmptyBatch DEF Init, NoPurge, PurgeType, Sweep, PurgeIsQuiet, PurgeProceeds, PurgeLeavesNothing, sweeping
<1>5. RequestsAreSound
  BY <1>1, <1>2 DEF Init, RequestsAreSound, Sound, Unbegun, JobIsKnown, DeletedInOrder, NoJob,
     CauselessIsClean, Late, Calls, Signalled
<1> QED BY <1>3, <1>4, <1>5 DEF Init, IInv, JobsHaveAudio

\* One step at a time.
THEOREM Inductive == IInv /\ [Next]_vars => IInv'
<1> SUFFICES ASSUME IInv, [Next]_vars PROVE IInv'
  OBVIOUS
<1>1. ASSUME NEW q \in Requests,
             \/ Begin(q) \/ Precheck(q) \/ PrecheckFails(q) \/ Return(q) \/ Fail(q)
             \/ Record(q) \/ Reply(q) \/ Leave(q)
      PROVE  IInv'
  BY <1>1, BeginKeeps, PrecheckKeeps, ReturnKeeps, FailKeeps, FinishKeeps
<1>2. ASSUME NEW q \in Requests, Land(q) \/ List(q) \/ \E call \in Calls : LandLate(call, q)
      PROVE  IInv'
  BY <1>2, LandKeeps, LandLateKeeps, ListKeeps
<1>3. CASE Crash
  BY <1>3, CrashKeeps
<1>4. CASE \E apply \in BOOLEAN : PurgeBegins(apply)
  BY <1>4, PurgeBeginsKeeps
<1>5. CASE ListFails \/ Flush \/ NextSweep \/ PurgeEnds
  BY <1>5, ListFailsKeeps, FlushKeeps, NextSweepKeeps
<1>6. CASE UNCHANGED vars
  BY <1>6 DEF vars, IInv, RequestType, ProviderType, PurgeType, RequestsAreSound, Sound, Unbegun,
     JobIsKnown, DeletedInOrder, NoJob, CauselessIsClean, Late, PurgeIsQuiet, active, PurgeProceeds,
     sweeping, PurgeLeavesNothing, JobsHaveAudio
<1> QED BY <1>1, <1>2, <1>3, <1>4, <1>5, <1>6 DEF Next

\* IInv is an invariant: the theorems below are its consequences.
THEOREM Invariance == Spec => []IInv
BY Initially, Inductive, PTL DEF Spec

\* Every variable keeps its type; in particular no batch of the purge outgrows
\* DELETE_CONCURRENCY.
THEOREM TypeCorrect == Spec => []TypeOK
<1>1. IInv => TypeOK
  BY DEF IInv, RequestType, ProviderType, PurgeType, Sweep, TypeOK, Request, Stages
<1> QED BY <1>1, Invariance, PTL

\* No job is ever left without its audio, whatever its request, the calls that were
\* given up, a crash or the purge do (#cleanup, purge-soniox-transcription).
THEOREM AudioOutlivesItsJob == Spec => []JobsHaveAudio
<1>1. IInv => JobsHaveAudio
  BY DEF IInv
<1> QED BY <1>1, Invariance, PTL

\* What a request leaves at the provider has the failure of one of its calls behind it,
\* its client's leaving and timeouts among them, or a crash, and a purge that reports
\* success has deleted it.
THEOREM ResidueStaysAccounted == Spec => []ResidueIsAccounted
<1>1. IInv => ResidueIsAccounted
  BY DEF IInv, ProviderType, RequestsAreSound, Sound, CauselessIsClean, ResidueIsAccounted, ResidueHasCause
<1> QED BY <1>1, Invariance, PTL
=============================================================================
