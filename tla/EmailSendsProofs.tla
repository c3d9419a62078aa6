-------------------------- MODULE EmailSendsProofs --------------------------
(***************************************************************************)
(* Proofs about EmailSends for any number of senders and deliveries, and   *)
(* any lease, windows, quota and clock that its assumptions allow.         *)
(*                                                                         *)
(* One email is sent because every request to the provider is made within  *)
(* Window of the first, and arrives within CallLimit of being made, while  *)
(* the provider collapses requests for at least both together.             *)
(***************************************************************************)
EXTENDS EmailSends, TLAPS

Sender == [at : {"idle", "insert", "find", "reclaim", "reserved", "allowed", "over", "calling",
                "orphan", "answered", "refused"},
           time : Time, seen : [status : Statuses, updatedAt : Time] \cup {None}]
SenderType == senders \in [Senders -> Sender]
ProviderType == provider \in [since : Time \cup {None}, emails : Nat]
QuotaType == used \in [0 .. MaxClock \div Day -> 0 .. Cap]
WebhookType ==
  /\ webhooks \in [Deliveries -> {"idle", "check", "find", "suppress", "record"}]
  /\ suppressed \in BOOLEAN
  /\ processed \in BOOLEAN

\* Whoever has got past the insert has seen a document, and there is one for good; a
\* sender reclaims it only from one of the four statuses that can be retried.
SendersKnowSend ==
  \A s \in Senders :
    /\ senders[s].at \notin {"idle", "insert"} => send \in Document
    /\ senders[s].at = "reclaim" => senders[s].seen.status \in {"reserved", "in_flight", "failed", "deferred"}

\* A request to the provider is made within Window of the first one.
CallsAreTimely ==
  \A s \in Senders : senders[s].at \in {"calling", "orphan"} =>
    /\ send.first \in Time
    /\ senders[s].time \in send.first .. send.first + Window
    /\ senders[s].time <= clock

\* What the provider has sent, it has sent since the first request.
ProviderIsLate ==
  IF provider.since = None
  THEN provider.emails = 0
  ELSE /\ provider.emails = 1
       /\ send \in Document /\ send.first \in Time
       /\ provider.since \in Time /\ send.first <= provider.since

\* Who has an answer has an email; a document that is accepted has its id, and no
\* other has.
AnswersAreEmails ==
  /\ \A s \in Senders : senders[s].at = "answered" => provider.emails = 1
  /\ send \in Document => (send.status = "accepted" <=> send.emailId = 1)

\* A bounce is recorded after its user has been suppressed.
RecordsAreSuppressed ==
  /\ \A w \in Deliveries : webhooks[w] = "record" => suppressed
  /\ processed => suppressed

SendInv ==
  /\ clock \in Time
  /\ send \in Document \cup {None}
  /\ SenderType
  /\ ProviderType
  /\ SendersKnowSend
  /\ CallsAreTimely
  /\ ProviderIsLate
  /\ AnswersAreEmails
WebhookInv == WebhookType /\ RecordsAreSuppressed
IInv == SendInv /\ QuotaType /\ WebhookInv

-----------------------------------------------------------------------------
(* Lemmas. *)

USE EmailSendsAssumption, NoDocument

\* A day of the clock is a day of the quota.
LEMMA DaysAreCounted ==
  ASSUME clock \in Time
  PROVE  today \in 0 .. MaxClock \div Day
BY DEF Time, today

LEMMA IdleSender ==
  ASSUME NEW at \in {"idle", "insert", "find", "reclaim", "reserved", "allowed", "over", "calling",
                     "orphan", "answered", "refused"}
  PROVE  /\ [Idle EXCEPT !.at = at] \in Sender
         /\ [Idle EXCEPT !.at = at].at = at
BY DEF Idle, Sender, Time

\* A sender moves on, and nothing else changes.
LEMMA SenderMoves ==
  ASSUME SendInv, UNCHANGED <<clock, send, provider>>,
         NEW s \in Senders, NEW r \in Sender, senders' = [senders EXCEPT ![s] = r],
         r.at \notin {"idle", "insert"} => send \in Document,
         r.at = "reclaim" => r.seen.status \in {"reserved", "in_flight", "failed", "deferred"},
         r.at \in {"calling", "orphan"} => /\ send.first \in Time
                                           /\ r.time \in send.first .. send.first + Window
                                           /\ r.time <= clock,
         r.at = "answered" => provider.emails = 1
  PROVE  SendInv'
BY DEF SendInv, SenderType, ProviderType, SendersKnowSend, CallsAreTimely, ProviderIsLate, AnswersAreEmails

\* A sender changes the document as well: it keeps the time of its first request, and
\* whether it is accepted.
LEMMA SendMoves ==
  ASSUME SendInv, UNCHANGED <<clock, provider>>,
         NEW s \in Senders, NEW r \in Sender, senders' = [senders EXCEPT ![s] = r],
         send' \in Document,
         send \in Document => send.first = None \/ send'.first = send.first,
         send = None => send'.first = None,
         send'.status = "accepted" <=> send'.emailId = 1,
         r.at \notin {"reclaim", "answered", "orphan"},
         r.at = "calling" => /\ send'.first \in Time
                             /\ r.time \in send'.first .. send'.first + Window
                             /\ r.time <= clock
  PROVE  SendInv'
<1> USE DEF SendInv
<1>1. SenderType' /\ ProviderType' /\ SendersKnowSend'
  BY DEF SenderType, ProviderType, SendersKnowSend
<1>2. CallsAreTimely'
  BY DEF SenderType, SendersKnowSend, CallsAreTimely, Document, Time
<1>3. ProviderIsLate'
  BY DEF ProviderIsLate, Time
<1>4. AnswersAreEmails'
  BY DEF SenderType, AnswersAreEmails
<1> QED BY <1>1, <1>2, <1>3, <1>4

-----------------------------------------------------------------------------
(* The actions of a sender. *)

LEMMA ReserveKeeps ==
  ASSUME SendInv, NEW s \in Senders, Arrive(s) \/ Insert(s) \/ Find(s) \/ Reclaim(s)
  PROVE  SendInv'
<1> USE DEF SendInv
<1>1. senders[s] \in Sender /\ UNCHANGED <<clock, provider>>
  BY DEF SenderType, Arrive, Insert, Find, Reclaim, restOfSender
<1>2. CASE Arrive(s)
  <2> DEFINE r == [senders[s] EXCEPT !.at = "insert", !.time = clock]
  <2>1. r \in Sender /\ r.at = "insert"
    BY <1>1 DEF Sender
  <2>2. senders' = [senders EXCEPT ![s] = r] /\ UNCHANGED send
    BY <1>2 DEF Arrive, SenderType
  <2> HIDE DEF r
  <2> QED BY <1>1, <2>1, <2>2, SenderMoves
<1>3. CASE Insert(s) /\ send = None
  <2> DEFINE d == [status |-> "reserved", lease |-> s, updatedAt |-> senders[s].time, first |-> None, emailId |-> 0]
             r == [Idle EXCEPT !.at = "reserved"]
  <2>1. send' = d /\ senders' = [senders EXCEPT ![s] = r]
    BY <1>3 DEF Insert, At
  <2>2. d \in Document /\ d.first = None /\ d.status # "accepted" /\ d.emailId # 1
    BY <1>1 DEF Document, Statuses, Sender
  <2>3. r \in Sender /\ r.at = "reserved"
    BY IdleSender
  <2> HIDE DEF d, r
  <2> QED BY <1>1, <1>3, <2>1, <2>2, <2>3, SendMoves
<1>4. CASE Insert(s) /\ send # None
  <2> DEFINE r == [senders[s] EXCEPT !.at = "find"]
  <2>1. r \in Sender /\ r.at = "find"
    BY <1>1 DEF Sender
  <2>2. senders' = [senders EXCEPT ![s] = r] /\ UNCHANGED send
    BY <1>4 DEF Insert, SenderType
  <2> HIDE DEF r
  <2> QED BY <1>1, <1>4, <2>1, <2>2, SenderMoves
<1>5. CASE Find(s)
  <2>1. send \in Document /\ UNCHANGED send
    BY <1>5 DEF Find, SendersKnowSend, SenderType
  <2>2. CASE Reclaimable(senders[s].time)
    <3> DEFINE r == [senders[s] EXCEPT !.at = "reclaim",
                                       !.seen = [status |-> send.status, updatedAt |-> send.updatedAt]]
    <3>1. r \in Sender /\ r.at = "reclaim" /\ r.seen.status = send.status
      BY <1>1, <2>1 DEF Sender, Document
    <3>2. send.status \in {"reserved", "in_flight", "failed", "deferred"}
      BY <2>2 DEF Reclaimable
    <3>3. senders' = [senders EXCEPT ![s] = r]
      BY <1>5, <2>2 DEF Find, SenderType
    <3> HIDE DEF r
    <3> QED BY <1>1, <2>1, <3>1, <3>2, <3>3, SenderMoves
  <2>3. CASE ~Reclaimable(senders[s].time)
    <3>1. Idle \in Sender /\ Idle.at = "idle" /\ senders' = [senders EXCEPT ![s] = Idle]
      BY <1>5, <2>3 DEF Find, Idle, Sender, Time
    <3> QED BY <1>1, <2>1, <3>1, SenderMoves
  <2> QED BY <2>2, <2>3
<1>6. CASE Reclaim(s)
  <2>1. send \in Document
    BY <1>6 DEF Reclaim, SendersKnowSend, SenderType
  <2>2. CASE AsSeen(s)
    <3> DEFINE d == [send EXCEPT !.status = "reserved", !.lease = s, !.updatedAt = senders[s].time]
               r == [Idle EXCEPT !.at = "reserved"]
    <3>1. send' = d /\ senders' = [senders EXCEPT ![s] = r]
      BY <1>6, <2>2 DEF Reclaim, At
    <3>2. send.status # "accepted"
      BY <1>6, <2>2 DEF Reclaim, AsSeen, SendersKnowSend
    <3>3. /\ d \in Document /\ d.first = send.first /\ d.status = "reserved" /\ d.emailId = send.emailId
          /\ d.emailId # 1
      BY <1>1, <2>1, <3>2 DEF Document, Statuses, Sender, AnswersAreEmails
    <3>4. r \in Sender /\ r.at = "reserved"
      BY IdleSender
    <3> HIDE DEF d, r
    <3> QED BY <1>1, <2>1, <3>1, <3>3, <3>4, SendMoves
  <2>3. CASE ~AsSeen(s)
    <3>1. senders' = [senders EXCEPT ![s] = [Idle EXCEPT !.at = "idle"]] /\ UNCHANGED send
      BY <1>6, <2>3 DEF Reclaim, At
    <3> QED BY <1>1, <2>1, <3>1, IdleSender, SenderMoves
  <2> QED BY <2>2, <2>3
<1> QED BY <1>2, <1>3, <1>4, <1>5, <1>6

\* A mark of a lease that the sender may have lost.
LEMMA SettleKeeps ==
  ASSUME SendInv, NEW s \in Senders, senders[s].at \notin {"idle", "insert"},
         NEW from, NEW to \in {"blocked", "deferred", "failed"}, from # "accepted", Settle(s, from, to)
  PROVE  SendInv'
<1> USE DEF SendInv
<1> DEFINE r == [Idle EXCEPT !.at = "idle"]
<1>1. /\ senders' = [senders EXCEPT ![s] = r] /\ UNCHANGED <<clock, provider>>
      /\ r \in Sender /\ r.at = "idle" /\ send \in Document
  BY IdleSender DEF Settle, At, restOfSender, SendersKnowSend
<1> HIDE DEF r
<1>2. CASE Holds(s, from)
  <2> DEFINE d == [send EXCEPT !.status = to, !.lease = None, !.updatedAt = clock]
  <2>1. d \in Document /\ d.first = send.first /\ d.status = to /\ d.emailId = send.emailId
    BY <1>1 DEF Document, Statuses
  <2>2. send.emailId # 1 /\ send' = d
    BY <1>1, <1>2 DEF Holds, AnswersAreEmails, Settle
  <2> HIDE DEF d
  <2> QED BY <1>1, <2>1, <2>2, SendMoves
<1>3. CASE ~Holds(s, from)
  <2>1. send' = send
    BY <1>3 DEF Settle
  <2> QED BY <1>1, <2>1, SenderMoves
<1> QED BY <1>2, <1>3

LEMMA LeaseKeeps ==
  ASSUME SendInv, NEW s \in Senders,
         \/ ReserveQuota(s) \/ MarkBlocked(s) \/ MarkDeferred(s) \/ MarkFailed(s)
         \/ MarkInFlight(s) \/ MarkAccepted(s)
  PROVE  SendInv'
<1> USE DEF SendInv
<1>1. CASE ReserveQuota(s)
  <2>1. PICK at \in {"allowed", "over"} : senders' = [senders EXCEPT ![s] = [Idle EXCEPT !.at = at]]
    BY <1>1 DEF ReserveQuota, At
  <2>2. send \in Document /\ UNCHANGED <<clock, send, provider>>
    BY <1>1 DEF ReserveQuota, SendersKnowSend
  <2> QED BY <2>1, <2>2, IdleSender, SenderMoves
<1>2. CASE MarkBlocked(s) \/ MarkDeferred(s) \/ MarkFailed(s)
  BY <1>2, SettleKeeps DEF MarkBlocked, MarkDeferred, MarkFailed
<1>3. CASE MarkInFlight(s) /\ MayCall(s)
  <2> DEFINE d == [send EXCEPT !.status = "in_flight", !.updatedAt = clock,
                               !.first = IF @ = None THEN clock ELSE @]
             r == [senders[s] EXCEPT !.at = "calling", !.time = clock]
  <2>1. send \in Document /\ senders[s] \in Sender
    BY <1>3 DEF MarkInFlight, SendersKnowSend, SenderType
  <2>2. /\ send' = d /\ senders' = [senders EXCEPT ![s] = r] /\ UNCHANGED <<clock, provider>>
    BY <1>3 DEF MarkInFlight, SenderType, restOfSender
  <2>3. /\ d \in Document /\ d.status = "in_flight" /\ d.emailId = send.emailId
        /\ d.first = IF send.first = None THEN clock ELSE send.first
    BY <2>1 DEF Document, Statuses
  <2>4. r \in Sender /\ r.at = "calling" /\ r.time = clock
    BY <2>1 DEF Sender
  <2>5. send.emailId # 1
    BY <1>3, <2>1 DEF MayCall, Holds, AnswersAreEmails
  <2>6. d.first \in Time /\ clock \in d.first .. d.first + Window /\ clock <= clock
    BY <1>3, <2>1, <2>3 DEF MayCall, RetryExpired, Document, Time
  <2> HIDE DEF d, r
  <2> QED BY <2>1, <2>2, <2>3, <2>4, <2>5, <2>6, SendMoves
<1>4. CASE MarkInFlight(s) /\ ~MayCall(s)
  <2>1. /\ senders' = [senders EXCEPT ![s] = [Idle EXCEPT !.at = "idle"]]
        /\ UNCHANGED <<clock, send, provider>>
    BY <1>4 DEF MarkInFlight, At, restOfSender
  <2> QED BY <2>1, IdleSender, SenderMoves
<1>5. CASE MarkAccepted(s)
  <2> DEFINE r == [Idle EXCEPT !.at = "idle"]
  <2>1. /\ senders' = [senders EXCEPT ![s] = r] /\ r \in Sender /\ r.at = "idle"
        /\ UNCHANGED <<clock, provider>> /\ send \in Document /\ provider.emails = 1
    BY <1>5, IdleSender DEF MarkAccepted, At, restOfSender, SendersKnowSend, AnswersAreEmails
  <2> HIDE DEF r
  <2>2. CASE Holds(s, "in_flight")
    <3> DEFINE d == [send EXCEPT !.status = "accepted", !.lease = None, !.updatedAt = clock,
                                 !.emailId = 1]
    <3>1. d \in Document /\ d.status = "accepted" /\ d.emailId = 1 /\ d.first = send.first
      BY <2>1 DEF Document, Statuses
    <3>2. send' = d
      BY <1>5, <2>1, <2>2 DEF MarkAccepted
    <3> HIDE DEF d
    <3> QED BY <2>1, <3>1, <3>2, SendMoves
  <2>3. CASE ~Holds(s, "in_flight")
    <3>1. send' = send
      BY <1>5, <2>3 DEF MarkAccepted
    <3> QED BY <2>1, <3>1, SenderMoves
  <2> QED BY <2>2, <2>3
<1> QED BY <1>1, <1>2, <1>3, <1>4, <1>5

\* The request arrives while the provider still collapses it, unless it is the first.
LEMMA ProviderKeeps ==
  ASSUME SendInv, NEW s \in Senders, Receive(s) \/ Refuse(s)
  PROVE  SendInv'
<1> USE DEF SendInv
<1>1. /\ senders[s] \in Sender /\ senders[s].at \in {"calling", "orphan"} /\ send \in Document
      /\ UNCHANGED <<clock, send>>
      /\ send.first \in Time /\ senders[s].time \in send.first .. send.first + Window
      /\ senders[s].time <= clock
  BY DEF Receive, Refuse, SendersKnowSend, CallsAreTimely, SenderType, restOfSender
<1>2. PICK at \in {"answered", "refused", "idle"} :
        /\ senders' = [senders EXCEPT ![s] = [Idle EXCEPT !.at = at]]
        /\ Refuse(s) => at # "answered"
  BY DEF Receive, Refuse, At
<1> DEFINE r == [Idle EXCEPT !.at = at]
<1>3. r \in Sender /\ r.at = at /\ senders' = [senders EXCEPT ![s] = r]
  BY <1>2, IdleSender
<1> HIDE DEF r
<1>4. CASE Receive(s)
  <2>1. /\ clock - senders[s].time <= CallLimit
        /\ provider' = IF Collapses THEN provider ELSE [since |-> clock, emails |-> provider.emails + 1]
    BY <1>4 DEF Receive
  <2>2. provider.since # None => Collapses
    BY <1>1, <2>1 DEF Collapses, ProviderIsLate, Time, Sender
  <2>3. ProviderIsLate' /\ provider'.emails = 1 /\ (provider.emails = 1 => provider' = provider)
    <3>1. CASE provider.since # None
      BY <1>1, <2>1, <2>2, <3>1 DEF ProviderIsLate
    <3>2. CASE provider.since = None
      <4>1. provider' = [since |-> clock, emails |-> 1] /\ provider.emails = 0
        BY <2>1, <3>2 DEF Collapses, ProviderIsLate
      <4>2. send.first <= clock /\ clock # None
        BY <1>1, <2>1 DEF Sender, Time
      <4> QED BY <1>1, <4>1, <4>2 DEF ProviderIsLate
    <3> QED BY <3>1, <3>2
  <2>4. ProviderType'
    BY <2>1, <2>3 DEF ProviderType
  <2>5. SenderType' /\ SendersKnowSend' /\ CallsAreTimely'
    BY <1>1, <1>2, <1>3 DEF SenderType, SendersKnowSend, CallsAreTimely
  <2>6. AnswersAreEmails'
    BY <1>1, <1>3, <2>3 DEF AnswersAreEmails, SenderType
  <2> QED BY <1>1, <2>3, <2>4, <2>5, <2>6
<1>5. CASE Refuse(s)
  BY <1>1, <1>2, <1>3, <1>5, SenderMoves DEF Refuse, restOfSender
<1> QED BY <1>4, <1>5

LEMMA CrashKeeps ==
  ASSUME SendInv, NEW s \in Senders, Crash(s)
  PROVE  SendInv'
<1> USE DEF SendInv
<1>1. senders[s] \in Sender /\ UNCHANGED <<clock, send, provider>> /\ send \in Document \cup {None}
  BY DEF Crash, SenderType, restOfSender
<1>2. CASE senders[s].at = "calling"
  <2> DEFINE r == [senders[s] EXCEPT !.at = "orphan"]
  <2>1. r \in Sender /\ r.at = "orphan" /\ r.time = senders[s].time
    BY <1>1 DEF Sender
  <2>2. senders' = [senders EXCEPT ![s] = r]
    BY <1>2 DEF Crash, SenderType
  <2>3. /\ send \in Document /\ send.first \in Time /\ senders[s].time \in send.first .. send.first + Window
        /\ senders[s].time <= clock
    BY <1>2 DEF SendersKnowSend, CallsAreTimely
  <2> HIDE DEF r
  <2> QED BY <1>1, <2>1, <2>2, <2>3, SenderMoves
<1>3. CASE senders[s].at # "calling"
  <2>1. senders' = [senders EXCEPT ![s] = Idle] /\ Idle \in Sender /\ Idle.at = "idle"
    BY <1>3 DEF Crash, Idle, Sender, Time
  <2> QED BY <1>1, <2>1, SenderMoves
<1> QED BY <1>2, <1>3

\* Time passes: what has been sent stays in the past.
LEMMA TickKeeps ==
  ASSUME SendInv, Tick
  PROVE  SendInv'
<1> USE DEF SendInv
<1>1. clock' \in Time /\ clock' = clock + 1 /\ UNCHANGED <<send, senders, provider>>
  BY DEF Tick, Time
<1>2. CallsAreTimely'
  BY <1>1 DEF CallsAreTimely, SenderType, Sender, Time
<1>3. SenderType' /\ ProviderType' /\ SendersKnowSend' /\ ProviderIsLate' /\ AnswersAreEmails'
  BY <1>1 DEF SenderType, ProviderType, SendersKnowSend, ProviderIsLate, AnswersAreEmails
<1> QED BY <1>1, <1>2, <1>3

LEMMA SendStutters ==
  ASSUME SendInv, UNCHANGED <<clock, send, senders, provider>>
  PROVE  SendInv'
BY DEF SendInv, SenderType, ProviderType, SendersKnowSend, CallsAreTimely, ProviderIsLate, AnswersAreEmails

-----------------------------------------------------------------------------
(* The quota and the webhooks. *)

\* A use is compared with the cap before it is counted.
LEMMA UseIsCounted ==
  ASSUME clock \in Time, QuotaType, MayUse
  PROVE  [used EXCEPT ![today] = @ + 1] \in [0 .. MaxClock \div Day -> 0 .. Cap]
BY DaysAreCounted DEF QuotaType, MayUse

\* The other steps of a sender leave the quota and the webhooks alone.
LEMMA OtherSteps ==
  ASSUME NEW s \in Senders,
         \/ Arrive(s) \/ Insert(s) \/ Find(s) \/ Reclaim(s)
         \/ MarkBlocked(s) \/ MarkDeferred(s) \/ MarkInFlight(s)
         \/ Receive(s) \/ Refuse(s) \/ MarkAccepted(s) \/ MarkFailed(s) \/ Crash(s)
  PROVE  UNCHANGED <<used, webhooks, suppressed, processed>>
<1>1. CASE Receive(s)
  BY <1>1 DEF Receive
<1>2. CASE UNCHANGED restOfSender
  BY <1>2 DEF restOfSender
<1>3. CASE Arrive(s) \/ Insert(s) \/ Find(s) \/ Reclaim(s) \/ Refuse(s) \/ Crash(s)
  BY <1>2, <1>3 DEF Arrive, Insert, Find, Reclaim, Refuse, Crash
<1>4. CASE MarkBlocked(s) \/ MarkDeferred(s) \/ MarkInFlight(s) \/ MarkAccepted(s) \/ MarkFailed(s)
  BY <1>2, <1>4 DEF MarkBlocked, MarkDeferred, MarkInFlight, MarkAccepted, MarkFailed, Settle
<1> QED BY <1>1, <1>3, <1>4

LEMMA WebhookKeeps ==
  ASSUME WebhookInv, NEW w \in Deliveries,
         \/ Deliver(w) \/ CheckProcessed(w) \/ FindUser(w) \/ Suppress(w) \/ RecordProcessed(w)
         \/ FailWebhook(w)
  PROVE  WebhookInv'
<1> USE DEF WebhookInv, WebhookType, RecordsAreSuppressed, WebhookAt
<1>1. CASE Deliver(w) \/ FailWebhook(w)
  BY <1>1 DEF Deliver, FailWebhook
<1>2. CASE CheckProcessed(w)
  BY <1>2 DEF CheckProcessed
<1>3. CASE FindUser(w)
  BY <1>3 DEF FindUser
<1>4. CASE Suppress(w)
  BY <1>4 DEF Suppress
<1>5. CASE RecordProcessed(w)
  BY <1>5 DEF RecordProcessed
<1> QED BY <1>1, <1>2, <1>3, <1>4, <1>5

-----------------------------------------------------------------------------
(* Theorems. *)

LEMMA Initially == Init => IInv
<1> SUFFICES ASSUME Init PROVE IInv
  OBVIOUS
<1> USE DEF Init
<1>1. clock \in Time /\ Idle \in Sender /\ Idle.at = "idle"
  BY DEF Time, Idle, Sender
<1>2. SendInv
  BY <1>1 DEF SendInv, SenderType, ProviderType, SendersKnowSend, CallsAreTimely, ProviderIsLate, AnswersAreEmails
<1>3. QuotaType
  BY DEF QuotaType
<1>4. WebhookType
  BY Zenon DEF WebhookType
<1>5. RecordsAreSuppressed
  BY DEF RecordsAreSuppressed
<1> QED BY <1>2, <1>3, <1>4, <1>5 DEF IInv, WebhookInv

\* Every step keeps the invariant.
THEOREM Inductive == IInv /\ [Next]_vars => IInv'
<1> SUFFICES ASSUME SendInv, QuotaType, WebhookInv, [Next]_vars
             PROVE  SendInv' /\ QuotaType' /\ WebhookInv'
  BY DEF IInv
<1>1. CASE Tick
  <2>1. UNCHANGED <<used, webhooks, suppressed, processed>>
    BY <1>1 DEF Tick
  <2> QED BY <1>1, <2>1, TickKeeps DEF QuotaType, WebhookInv, WebhookType, RecordsAreSuppressed
<1>2. CASE OthersUseQuota
  <2>1. UNCHANGED <<clock, send, senders, provider, webhooks, suppressed, processed>>
    BY <1>2 DEF OthersUseQuota
  <2>2. QuotaType'
    BY <1>2, UseIsCounted DEF OthersUseQuota, QuotaType, SendInv
  <2> QED BY <2>1, <2>2, SendStutters DEF WebhookInv, WebhookType, RecordsAreSuppressed
<1>3. ASSUME NEW s \in Senders,
             \/ Arrive(s) \/ Insert(s) \/ Find(s) \/ Reclaim(s)
             \/ ReserveQuota(s) \/ MarkBlocked(s) \/ MarkDeferred(s)
             \/ MarkInFlight(s) \/ Receive(s) \/ Refuse(s) \/ MarkAccepted(s) \/ MarkFailed(s)
             \/ Crash(s)
      PROVE  SendInv' /\ QuotaType' /\ WebhookInv'
  <2>1. SendInv'
    BY <1>3, ReserveKeeps, LeaseKeeps, ProviderKeeps, CrashKeeps
  <2>2. CASE ReserveQuota(s)
    <3>1. QuotaType'
      BY <2>2, UseIsCounted DEF ReserveQuota, QuotaType, SendInv
    <3>2. UNCHANGED <<webhooks, suppressed, processed>>
      BY <2>2 DEF ReserveQuota
    <3> QED BY <2>1, <3>1, <3>2 DEF WebhookInv, WebhookType, RecordsAreSuppressed
  <2>3. CASE ~ReserveQuota(s)
    <3>1. UNCHANGED <<used, webhooks, suppressed, processed>>
      BY <1>3, <2>3, OtherSteps
    <3> QED BY <2>1, <3>1 DEF QuotaType, WebhookInv, WebhookType, RecordsAreSuppressed
  <2> QED BY <2>2, <2>3
<1>4. ASSUME NEW w \in Deliveries,
             \/ Deliver(w) \/ CheckProcessed(w) \/ FindUser(w) \/ Suppress(w) \/ RecordProcessed(w)
             \/ FailWebhook(w)
      PROVE  SendInv' /\ QuotaType' /\ WebhookInv'
  <2>1. UNCHANGED <<clock, send, senders, used, provider>>
    BY <1>4 DEF Deliver, CheckProcessed, FindUser, Suppress, RecordProcessed, FailWebhook, restOfWebhook
  <2> QED BY <1>4, <2>1, SendStutters, WebhookKeeps DEF QuotaType
<1>5. CASE UNCHANGED vars
  BY <1>5, SendStutters DEF vars, QuotaType, WebhookInv, WebhookType, RecordsAreSuppressed
<1> QED BY <1>1, <1>2, <1>3, <1>4, <1>5 DEF Next

THEOREM Invariance == Spec => []IInv
BY Initially, Inductive, PTL DEF Spec

\* Every variable keeps its type.
THEOREM TypeCorrect == Spec => []TypeOK
<1>1. IInv => TypeOK
  BY DEF IInv, SendInv, QuotaType, WebhookInv, WebhookType, SenderType, ProviderType, Sender, TypeOK
<1> QED BY <1>1, Invariance, PTL

\* However many senders reclaim the send, and whenever they stop, the user gets one
\* email, and the send that is accepted knows which.
THEOREM OneEmailIsSent == Spec => []OneEmail
<1>1. IInv => OneEmail
  BY DEF IInv, SendInv, ProviderIsLate, AnswersAreEmails, OneEmail
<1> QED BY <1>1, Invariance, PTL

\* A bounce that is acknowledged has suppressed its user.
THEOREM BouncesSuppress == Spec => []AcknowledgedIsSuppressed
<1>1. IInv => AcknowledgedIsSuppressed
  BY DEF IInv, WebhookInv, RecordsAreSuppressed, AcknowledgedIsSuppressed
<1> QED BY <1>1, Invariance, PTL
=============================================================================
