------------------------------ MODULE EmailSends ------------------------------
(***************************************************************************)
(* One optional email: its send (OptionalEmailSendRepository), the quota   *)
(* of the day, and the webhooks that report what became of it.  A send has *)
(* a lease, which a sender may outlive; whoever reclaims it repeats the    *)
(* request to the provider with the same key, which the provider collapses *)
(* into one email for a limited time.                                      *)
(*                                                                         *)
(* The repository has no sender yet: a sender here is any caller that      *)
(* reserves, asks for quota, marks the send in flight, and marks its       *)
(* outcome.  It reads the clock before each call; only reserve() makes two *)
(* calls to the database with one reading.  The provider is external.      *)
(*                                                                         *)
(* Abstractions.  One send key: sends with different keys share only the   *)
(* quota.  A suppression keeps its first time, which is left out; whether  *)
(* the user has also unsubscribed makes no difference to it.               *)
(*                                                                         *)
(* An operator named Slip_X is X with one plausible mistake.               *)
(***************************************************************************)
EXTENDS Integers

CONSTANTS
  Senders,        \* runs of a sender: each is one lease at a time
  Deliveries,     \* deliveries of the webhook that reports a bounce
  Lease,          \* OPTIONAL_EMAIL_RESERVATION_LEASE_MS
  Window,         \* OPTIONAL_EMAIL_PROVIDER_IDEMPOTENCY_SAFETY_WINDOW_MS
  CallLimit,      \* how long a request may take to reach the provider
  ProviderWindow, \* how long the provider collapses requests
  Day,            \* a day of the quota
  Cap,            \* dailyCap
  MaxClock,       \* bound: the last clock reading
  None

\* The safety window leaves room for a request that was sent at its end.
ASSUME EmailSendsAssumption ==
  /\ {Lease, Window, Day, Cap} \subseteq Nat \ {0} /\ {CallLimit, ProviderWindow, MaxClock} \subseteq Nat
  /\ Window + CallLimit <= ProviderWindow
  /\ None \notin Senders \cup Nat

VARIABLES
  clock,
  send,       \* the document of the send, if there is one
  senders,
  used,       \* optionalEmailDailyQuota: by day
  provider,   \* what the provider has sent, and until when it collapses
  webhooks,   \* POST /webhooks/resend
  suppressed, \* whether the user's optionalEmailPreferences are suppressed
  processed   \* whether the event is in optionalEmailWebhookEvents

vars == <<clock, send, senders, used, provider, webhooks, suppressed, processed>>

Time == 0 .. MaxClock
Statuses == {"reserved", "in_flight", "failed", "deferred", "accepted", "blocked"}
\* A document of optionalEmailSends.
Document == [status : Statuses, lease : Senders \cup {None}, updatedAt : Time, first : Time \cup {None},
             emailId : Nat]
Idle == [at |-> "idle", time |-> 0, seen |-> None]

\* No document is not a document.
ASSUME NoDocument == None \notin Document

TypeOK ==
  /\ clock \in Time
  /\ send \in Document \cup {None}
  /\ senders \in [Senders -> [at : {"idle", "insert", "find", "reclaim", "reserved", "allowed", "over", "calling",
                                    "orphan", "answered", "refused"},
                              time : Time, seen : [status : Statuses, updatedAt : Time] \cup {None}]]
  /\ used \in [0 .. MaxClock \div Day -> 0 .. Cap]
  /\ provider \in [since : Time \cup {None}, emails : Nat]
  /\ webhooks \in [Deliveries -> {"idle", "check", "find", "suppress", "record"}]
  /\ suppressed \in BOOLEAN
  /\ processed \in BOOLEAN

Init ==
  /\ clock = 0
  /\ send = None
  /\ senders = [s \in Senders |-> Idle]
  /\ used = [d \in 0 .. MaxClock \div Day |-> 0]
  /\ provider = [since |-> None, emails |-> 0]
  /\ webhooks = [w \in Deliveries |-> "idle"]
  /\ suppressed = FALSE
  /\ processed = FALSE

Tick ==
  /\ clock < MaxClock
  /\ clock' = clock + 1
  /\ UNCHANGED <<send, senders, used, provider, webhooks, suppressed, processed>>

-----------------------------------------------------------------------------
(* reserve. *)

At(s, at) == senders' = [senders EXCEPT ![s] = [Idle EXCEPT !.at = at]]
restOfSender == <<clock, used, provider, webhooks, suppressed, processed>>

Arrive(s) ==
  /\ senders[s].at = "idle"
  /\ senders' = [senders EXCEPT ![s].at = "insert", ![s].time = clock]
  /\ UNCHANGED <<send, restOfSender>>

Insert(s) ==
  /\ senders[s].at = "insert"
  /\ IF send = None
     THEN /\ send' = [status |-> "reserved", lease |-> s, updatedAt |-> senders[s].time, first |-> None, emailId |-> 0]
          /\ At(s, "reserved")
     ELSE /\ senders' = [senders EXCEPT ![s].at = "find"]
          /\ UNCHANGED send
  /\ UNCHANGED restOfSender

StaleLease(at) == at - send.updatedAt > Lease

\* Slip: a retry does not end with the provider's window.
Slip_RetryExpired(at) == send.first # None /\ at < send.first

RetryExpired(at) == send.first # None /\ (at < send.first \/ at - send.first > Window)

Reclaimable(at) ==
  /\ \/ send.status \in {"reserved", "in_flight"} /\ StaleLease(at)
     \/ send.status \in {"failed", "deferred"}
  /\ send.status \in {"in_flight", "failed"} => send.first # None
  /\ ~RetryExpired(at)

\* Otherwise the answer is a duplicate, or that it is too late to retry.
Find(s) ==
  /\ senders[s].at = "find"
  /\ senders' = [senders EXCEPT ![s] =
       IF Reclaimable(senders[s].time)
       THEN [@ EXCEPT !.at = "reclaim", !.seen = [status |-> send.status, updatedAt |-> send.updatedAt]]
       ELSE Idle]
  /\ UNCHANGED <<send, restOfSender>>

\* A lease is compared by its time, a settled send by its status alone.
AsSeen(s) ==
  /\ send.status = senders[s].seen.status
  /\ send.status \in {"reserved", "in_flight"} => send.updatedAt = senders[s].seen.updatedAt

Reclaim(s) ==
  /\ senders[s].at = "reclaim"
  /\ IF AsSeen(s)
     THEN /\ send' = [send EXCEPT !.status = "reserved", !.lease = s, !.updatedAt = senders[s].time]
          /\ At(s, "reserved")
     ELSE /\ At(s, "idle")
          /\ UNCHANGED send
  /\ UNCHANGED restOfSender

-----------------------------------------------------------------------------
(* What a sender does with its lease. *)

today == clock \div Day

\* Slip: the use is counted after it has been compared.
Slip_MayUse == used[today] <= Cap

MayUse == used[today] < Cap

\* OptionalEmailDailyQuotaRepository.reserve
ReserveQuota(s) ==
  /\ senders[s].at = "reserved"
  /\ used' = IF MayUse THEN [used EXCEPT ![today] = @ + 1] ELSE used
  /\ At(s, IF MayUse THEN "allowed" ELSE "over")
  /\ UNCHANGED <<clock, send, provider, webhooks, suppressed, processed>>

\* Another send uses the quota.
OthersUseQuota ==
  /\ MayUse
  /\ used' = [used EXCEPT ![today] = @ + 1]
  /\ UNCHANGED <<clock, send, senders, provider, webhooks, suppressed, processed>>

Holds(s, status) == send.status = status /\ send.lease = s
\* A sender that does not hold its lease any more changes nothing.
Settle(s, from, to) ==
  /\ send' = IF Holds(s, from) THEN [send EXCEPT !.status = to, !.lease = None, !.updatedAt = clock] ELSE send
  /\ At(s, "idle")
  /\ UNCHANGED restOfSender

MarkBlocked(s) == senders[s].at = "reserved" /\ Settle(s, "reserved", "blocked")
MarkDeferred(s) == senders[s].at = "over" /\ Settle(s, "reserved", "deferred")
MarkFailed(s) == senders[s].at = "refused" /\ Settle(s, "in_flight", "failed")

MayCall(s) == Holds(s, "reserved") /\ ~StaleLease(clock) /\ ~RetryExpired(clock)

MarkInFlight(s) ==
  /\ senders[s].at = "allowed"
  /\ IF MayCall(s)
     THEN /\ send' = [send EXCEPT !.status = "in_flight", !.updatedAt = clock,
                                  !.first = IF @ = None THEN clock ELSE @]
          /\ senders' = [senders EXCEPT ![s].at = "calling", ![s].time = clock]
     ELSE /\ At(s, "idle")
          /\ UNCHANGED send
  /\ UNCHANGED restOfSender

MarkAccepted(s) ==
  /\ senders[s].at = "answered"
  /\ send' = IF Holds(s, "in_flight")
             THEN [send EXCEPT !.status = "accepted", !.lease = None, !.updatedAt = clock, !.emailId = provider.emails]
             ELSE send
  /\ At(s, "idle")
  /\ UNCHANGED restOfSender

\* A request that is still under way outlives its sender.
Crash(s) ==
  /\ senders[s].at \notin {"idle", "orphan"}
  /\ senders' = [senders EXCEPT ![s] = IF @.at = "calling" THEN [@ EXCEPT !.at = "orphan"] ELSE Idle]
  /\ UNCHANGED <<send, restOfSender>>

-----------------------------------------------------------------------------
(* The provider. *)

Collapses == provider.since # None /\ clock - provider.since <= ProviderWindow

\* The request is received; its answer may be lost.
Receive(s) ==
  /\ senders[s].at \in {"calling", "orphan"}
  /\ clock - senders[s].time <= CallLimit
  /\ provider' = IF Collapses THEN provider ELSE [since |-> clock, emails |-> provider.emails + 1]
  /\ \E at \in {"answered", "refused"} : At(s, IF senders[s].at = "calling" THEN at ELSE "idle")
  /\ UNCHANGED <<clock, send, used, webhooks, suppressed, processed>>

\* It is refused, or does not arrive.
Refuse(s) ==
  /\ senders[s].at \in {"calling", "orphan"}
  /\ At(s, IF senders[s].at = "calling" THEN "refused" ELSE "idle")
  /\ UNCHANGED <<send, restOfSender>>

-----------------------------------------------------------------------------
(* Webhooks. *)

WebhookAt(w, at) == webhooks' = [webhooks EXCEPT ![w] = at]
restOfWebhook == <<clock, send, senders, used, provider>>

\* The email has bounced.  The event is delivered again while it is answered with
\* an error, and may be delivered more than once.
Deliver(w) ==
  /\ webhooks[w] = "idle" /\ provider.emails > 0
  /\ WebhookAt(w, "check")
  /\ UNCHANGED <<restOfWebhook, suppressed, processed>>

CheckProcessed(w) ==
  /\ webhooks[w] = "check"
  /\ WebhookAt(w, IF processed THEN "idle" ELSE "find")
  /\ UNCHANGED <<restOfWebhook, suppressed, processed>>

\* Slip: an event whose send is not found is acknowledged.
Slip_FindUser(w) ==
  /\ webhooks[w] = "find"
  /\ WebhookAt(w, IF send.status = "accepted" THEN "suppress" ELSE "record")
  /\ UNCHANGED <<restOfWebhook, suppressed, processed>>

\* A bounce that overtakes the acceptance of its send is to be delivered again.
FindUser(w) ==
  /\ webhooks[w] = "find"
  /\ WebhookAt(w, IF send.status = "accepted" /\ send.emailId = provider.emails THEN "suppress" ELSE "idle")
  /\ UNCHANGED <<restOfWebhook, suppressed, processed>>

Suppress(w) ==
  /\ webhooks[w] = "suppress"
  /\ suppressed' = TRUE
  /\ WebhookAt(w, "record")
  /\ UNCHANGED <<restOfWebhook, processed>>

RecordProcessed(w) ==
  /\ webhooks[w] = "record"
  /\ processed' = TRUE
  /\ WebhookAt(w, "idle")
  /\ UNCHANGED <<restOfWebhook, suppressed>>

FailWebhook(w) ==
  /\ webhooks[w] # "idle"
  /\ WebhookAt(w, "idle")
  /\ UNCHANGED <<restOfWebhook, suppressed, processed>>

Next ==
  \/ Tick \/ OthersUseQuota
  \/ \E s \in Senders :
       \/ Arrive(s) \/ Insert(s) \/ Find(s) \/ Reclaim(s)
       \/ ReserveQuota(s) \/ MarkBlocked(s) \/ MarkDeferred(s)
       \/ MarkInFlight(s) \/ Receive(s) \/ Refuse(s) \/ MarkAccepted(s) \/ MarkFailed(s)
       \/ Crash(s)
  \/ \E w \in Deliveries :
       \/ Deliver(w) \/ CheckProcessed(w) \/ FindUser(w) \/ Suppress(w) \/ RecordProcessed(w)
       \/ FailWebhook(w)

Spec == Init /\ [][Next]_vars

-----------------------------------------------------------------------------
(* Properties. *)

\* However often a send is reclaimed, from senders that have stopped, are slow or
\* have lost an answer, the user gets one email, and a send that is accepted knows
\* which (optional-email-send-repo.ts:105).
OneEmail ==
  /\ provider.emails <= 1
  /\ send # None => (send.status = "accepted" <=> send.emailId = 1)

\* A bounce is acknowledged only when it has suppressed its user: it is delivered
\* again if it came before its send was marked accepted, or if its handling failed
\* half-way (optional-email-webhook-service.ts:113).
AcknowledgedIsSuppressed == processed => suppressed
=============================================================================
