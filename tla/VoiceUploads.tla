----------------------------- MODULE VoiceUploads -----------------------------
(***************************************************************************)
(* POST /voice/transcribe: the daily quota, the file and the job that an   *)
(* upload creates at the transcription provider and deletes again          *)
(* (SonioxTranscriptionClient), the billing (VoiceService), clients that   *)
(* leave, crashes, and the operator's command that purges what was left    *)
(* there (purge-soniox-transcription).                                     *)
(*                                                                         *)
(* Abstractions.  One user and one day.  A request stands for its file and *)
(* its job.  Waiting for the job and fetching the transcript are one call. *)
(* A call that is given up may still reach the provider later, or never.   *)
(* The provider does not accept a job whose file it does not have.  What   *)
(* is told of a failure and the seconds that remain are left out.          *)
(*                                                                         *)
(* An operator named Slip_X is X with one plausible mistake.               *)
(***************************************************************************)
EXTENDS Naturals, FiniteSets

CONSTANTS
  Requests,     \* uploads, each made once
  DailyLimit,   \* #dailyLimitSeconds
  MaxSeconds,   \* the longest recording
  Batch         \* DELETE_CONCURRENCY

ASSUME VoiceAssumption == DailyLimit \in Nat \ {0} /\ MaxSeconds \in Nat \ {0} /\ Batch \in Nat \ {0}

VARIABLES
  req,     \* the requests
  files,   \* the files that the provider has
  jobs,    \* the jobs that it has
  late,    \* calls that their caller has given up, and that may still arrive
  usage,   \* transcriptionSeconds of the day
  purge    \* the command

vars == <<req, files, jobs, late, usage, purge>>
provider == <<files, jobs, late>>

Signalled == {"upload", "create", "wait"}      \* calls that the request's signal ends
Calls == Signalled \cup {"deleteJob", "deleteFile"}
\* What may leave something at the provider: the failure of a call that changes it,
\* and the end of the process.
Causes == (Calls \ {"wait"}) \cup {"crash"}

NoRequest == [at |-> "idle", call |-> "none", client |-> "open", file |-> FALSE, job |-> FALSE,
              result |-> "none", seconds |-> 0, causes |-> {}]
NoPurge == [at |-> "none", todo |-> {}, batch |-> {}, apply |-> FALSE, cleared |-> TRUE, failed |-> FALSE]

TypeOK ==
  /\ req \in [Requests ->
       [at : {"idle", "precheck", "record", "reply", "over"} \cup Calls,
        call : {"none", "issued", "landed"}, client : {"open", "gone"},
        file : BOOLEAN, job : BOOLEAN,   \* fileId, transcriptionId
        result : {"none", "text", "quota", "cancelled", "failed", "crashed"},
        seconds : 0..MaxSeconds,
        causes : SUBSET Causes]]         \* history: which of them there have been
  /\ \A q \in Requests : req[q].call # "none" <=> req[q].at \in Calls
  /\ files \subseteq Requests /\ jobs \subseteq Requests
  /\ late \subseteq Calls \X Requests
  /\ usage \in Nat
  /\ purge \in [at : {"none", "jobs", "files", "report"}, todo : SUBSET Requests, batch : SUBSET Requests,
                apply : BOOLEAN, cleared : BOOLEAN, failed : BOOLEAN]
  /\ Cardinality(purge.batch) <= Batch

Init ==
  /\ req = [q \in Requests |-> NoRequest]
  /\ files = {} /\ jobs = {} /\ late = {}
  /\ usage = 0
  /\ purge = NoPurge

Becomes(q, r) == req' = [req EXCEPT ![q] = r]
At(r, stage) == [r EXCEPT !.at = stage, !.call = IF stage \in Calls THEN "issued" ELSE "none"]
active(q) == req[q].at \notin {"idle", "over"}

-----------------------------------------------------------------------------
(* The provider. *)

\* A call takes effect.
Arrive(call, q) ==
  /\ files' = CASE call = "upload" -> files \cup {q} [] call = "deleteFile" -> files \ {q} [] OTHER -> files
  /\ jobs' = CASE call = "create" -> jobs \cup ({q} \cap files) [] call = "deleteJob" -> jobs \ {q} [] OTHER -> jobs

Land(q) ==
  /\ req[q].call = "issued"
  /\ req[q].at = "create" => q \in files
  /\ Arrive(req[q].at, q)
  /\ Becomes(q, [req[q] EXCEPT !.call = "landed"])
  /\ UNCHANGED <<late, usage, purge>>

LandLate(call, q) ==
  /\ <<call, q>> \in late
  /\ late' = late \ {<<call, q>>}
  /\ Arrive(call, q) \/ UNCHANGED <<files, jobs>>
  /\ UNCHANGED <<req, usage, purge>>

-----------------------------------------------------------------------------
(* An upload. *)

\* Slip: what is left of the signal is not awaited, so the call stays open.
Slip_Settled(r) == [r EXCEPT !.at = IF r.result = "text" THEN "record" ELSE "reply"]

\* transcribe() returns, or throws.
Settled(r) == At(r, IF r.result = "text" THEN "record" ELSE "reply")

\* Slip: an unknown outcome of the creation is taken for a failure.
Slip_Cleanup(r) ==
  IF r.job THEN At(r, "deleteJob") ELSE IF r.file THEN At(r, "deleteFile") ELSE Settled(r)

\* Slip: what failed is not cleaned up.
Slip_CleanupOfTexts(r) == IF r.job /\ r.result = "text" THEN At(r, "deleteJob") ELSE Settled(r)

\* The creation is attempted as soon as there is a file: a file without a job is a job
\* that the client cannot name, and both are left for the purge.
Cleanup(r) == IF r.job THEN At(r, "deleteJob") ELSE Settled(r)

\* No upload while the command runs: README.md:712.
Begin(q) ==
  /\ req[q].at = "idle" /\ purge.at = "none"
  /\ Becomes(q, [NoRequest EXCEPT !.at = "precheck"])
  /\ UNCHANGED <<provider, usage, purge>>

Admitted(total) == total < DailyLimit

\* The precheck and the words of the glossary; the signal of a client that has left
\* lets no upload begin.
Precheck(q) ==
  /\ req[q].at = "precheck"
  /\ Becomes(q, IF ~Admitted(usage) THEN At([req[q] EXCEPT !.result = "quota"], "reply")
                ELSE IF req[q].client = "gone" THEN Settled([req[q] EXCEPT !.result = "cancelled"])
                ELSE At(req[q], "upload"))
  /\ UNCHANGED <<provider, usage, purge>>

PrecheckFails(q) ==
  /\ req[q].at = "precheck"
  /\ Becomes(q, At([req[q] EXCEPT !.result = "failed"], "reply"))
  /\ UNCHANGED <<provider, usage, purge>>

\* The answer to a call that the signal has not ended.
Return(q) ==
  LET r == req[q] IN
  /\ r.call = "landed"
  /\ r.at \in Signalled => r.client = "open"
  /\ \/ r.at = "upload" /\ Becomes(q, At([r EXCEPT !.file = TRUE], "create"))
     \/ r.at = "create" /\ Becomes(q, At([r EXCEPT !.job = TRUE], "wait"))
     \/ /\ r.at = "wait"
        /\ \E n \in 1..MaxSeconds : Becomes(q, Cleanup([r EXCEPT !.result = "text", !.seconds = n]))
     \/ r.at = "deleteJob" /\ Becomes(q, At(r, "deleteFile"))
     \/ r.at = "deleteFile" /\ Becomes(q, Settled(r))
  /\ UNCHANGED <<provider, usage, purge>>

\* The calls that a failure or a crash leaves under way: they may still arrive.
GivenUp(qs) == {<<req[q].at, q>> : q \in {p \in qs : req[p].call = "issued"}}

\* Slip: the cleanup has no time limit.
Slip_Fails(q) == req[q].at \in Signalled

\* An error, an answer that does not parse, the client's leaving, or the end of the
\* time that the call has.
Fails(q) == req[q].at \in Calls

\* The reason, of which only the client's leaving is told apart.
Failure(r) == IF r.client = "gone" THEN "cancelled" ELSE "failed"

Fail(q) ==
  LET r == [req[q] EXCEPT !.causes = @ \cup ({req[q].at} \cap Causes)] IN
  /\ Fails(q)
  /\ late' \in {late, late \cup GivenUp({q})}
  /\ Becomes(q, IF r.at \in Signalled
                THEN Cleanup([r EXCEPT !.result = Failure(r)])
                ELSE Settled(r))
  /\ UNCHANGED <<files, jobs, usage, purge>>

\* The write may fail, or its answer may be lost: the text is returned all the same.
Record(q) ==
  /\ req[q].at = "record"
  /\ usage' \in {usage, usage + req[q].seconds}
  /\ Becomes(q, At(req[q], "reply"))
  /\ UNCHANGED <<provider, purge>>

\* A request that was cancelled gets no answer: its client has gone.
Reply(q) ==
  /\ req[q].at = "reply"
  /\ Becomes(q, At(req[q], "over"))
  /\ UNCHANGED <<provider, usage, purge>>

\* The client closes its connection; what cleans up has a signal of its own.
Leave(q) ==
  /\ active(q) /\ req[q].client = "open"
  /\ Becomes(q, [req[q] EXCEPT !.client = "gone"])
  /\ UNCHANGED <<provider, usage, purge>>

Crash ==
  /\ \E q \in Requests : active(q)
  /\ req' = [q \in Requests |->
               IF active(q)
               THEN At([req[q] EXCEPT !.result = "crashed", !.causes = @ \cup {"crash"}], "over")
               ELSE req[q]]
  /\ \E left \in SUBSET GivenUp(Requests) : late' = late \cup left
  /\ UNCHANGED <<files, jobs, usage, purge>>

-----------------------------------------------------------------------------
(* purge-soniox-transcription. *)

Purge(p) == purge' = p /\ UNCHANGED <<req, usage>>

\* To be run only when nothing is in flight (README.md:711).
PurgeBegins(apply) ==
  /\ purge.at = "none"
  /\ late = {} /\ \A q \in Requests : ~active(q)
  /\ Purge([NoPurge EXCEPT !.at = "jobs", !.todo = jobs, !.apply = apply])
  /\ UNCHANGED provider

sweeping == purge.at \in {"jobs", "files"}

\* Whatever goes wrong with a job, its file stays.
Marked(p) == [p EXCEPT !.failed = TRUE, !.cleared = @ /\ p.at # "jobs"]

\* An item of the list; it may not parse.
List(q) ==
  /\ sweeping /\ q \in purge.todo /\ Cardinality(purge.batch) < Batch
  /\ LET rest == [purge EXCEPT !.todo = @ \ {q}] IN
     \E p \in {Marked(rest), IF purge.apply /\ (purge.at = "files" => purge.cleared)
                             THEN [rest EXCEPT !.batch = @ \cup {q}] ELSE rest} : Purge(p)
  /\ UNCHANGED provider

\* The rest of the list does not come.
ListFails ==
  /\ sweeping /\ Cardinality(purge.batch) < Batch
  /\ Purge(Marked([purge EXCEPT !.todo = {}]))
  /\ UNCHANGED provider

\* A batch is deleted at once; a call that fails may have arrived, arrive later, or never.
Flush ==
  /\ sweeping /\ purge.batch # {}
  /\ Cardinality(purge.batch) = Batch \/ purge.todo = {}
  /\ \E deleted \in SUBSET purge.batch :
     \E arrived \in SUBSET (purge.batch \ deleted), mode \in {"lost", "late"} :
       LET gone == deleted \cup arrived
           after == [purge EXCEPT !.batch = {}]
           call == IF purge.at = "jobs" THEN "deleteJob" ELSE "deleteFile" IN
       /\ jobs' = IF purge.at = "jobs" THEN jobs \ gone ELSE jobs
       /\ files' = IF purge.at = "files" THEN files \ gone ELSE files
       /\ late' = late \cup (IF mode = "late" THEN {call} \X (purge.batch \ gone) ELSE {})
       /\ Purge(IF deleted = purge.batch THEN after ELSE Marked(after))

swept == sweeping /\ purge.todo = {} /\ purge.batch = {}

\* The files are listed when the jobs have been swept.
NextSweep ==
  /\ swept
  /\ Purge(IF purge.at = "jobs" THEN [purge EXCEPT !.at = "files", !.todo = files]
           ELSE [purge EXCEPT !.at = "report"])
  /\ UNCHANGED provider

\* The report is printed, or the command is stopped.
PurgeEnds == purge.at # "none" /\ Purge(NoPurge) /\ UNCHANGED provider

-----------------------------------------------------------------------------

Next ==
  \/ \E q \in Requests :
       \/ Begin(q) \/ Precheck(q) \/ PrecheckFails(q) \/ Return(q) \/ Fail(q) \/ Record(q) \/ Reply(q) \/ Leave(q)
       \/ Land(q) \/ \E call \in Calls : LandLate(call, q)
       \/ List(q)
  \/ Crash
  \/ \E apply \in BOOLEAN : PurgeBegins(apply)
  \/ ListFails \/ Flush \/ NextSweep \/ PurgeEnds

Spec == Init /\ [][Next]_vars

\* The database answers, and AbortSignal.timeout() ends every call.
Fairness ==
  \A q \in Requests :
    WF_vars(Precheck(q) \/ PrecheckFails(q) \/ Return(q) \/ Fail(q) \/ Record(q) \/ Reply(q))

FairSpec == Spec /\ Fairness

-----------------------------------------------------------------------------
(* Properties. *)

\* No job is left without its audio, by the requests that clean up in the middle of
\* anything, or by the purge: the order of the deletions, and what is not deleted, see
\* to it (soniox-transcription-client.ts:137, purge-soniox-transcription.ts:139).
JobsHaveAudio == jobs \subseteq files

\* A purge that reports success has left nothing (src/README.md:720).
PurgeLeavesNothing ==
  purge.at = "report" /\ purge.apply /\ ~purge.failed => files = {} /\ jobs = {}

\* What a request leaves at the provider has a cause among its own calls, or a crash: a
\* job, that its creation or its deletion failed; a file, that one of these, the upload
\* or its own deletion did.  A client that leaves while its job runs, a timeout then, or
\* a transcript that cannot be used leaves nothing; a client that leaves, or a timeout,
\* during the upload or the creation is such a failure and may leave the audio, although
\* soniox-transcription-client.ts:118 says that neither can strand it.
ResidueHasCause ==
  \A q \in Requests : req[q].at = "over" =>
    /\ q \in jobs => req[q].causes \cap {"create", "deleteJob", "crash"} # {}
    /\ q \in files => req[q].causes # {}

\* What is at the provider when its request is over is there for a cause, and the next
\* purge that succeeds deletes it.
ResidueIsAccounted == ResidueHasCause /\ PurgeLeavesNothing

\* Every upload ends: neither the provider nor the cleanup keeps its client waiting
\* (soniox-transcription-client.ts:67).
EveryUploadEnds == \A q \in Requests : active(q) ~> req[q].at = "over"
=============================================================================
