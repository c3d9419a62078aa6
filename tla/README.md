# A verification project for the Sesori auth server

This directory holds TLA+ models of the authentication server in `src/src`, the
configurations with which TLC checks them on small instances, and proofs that
TLAPS checks for every value of their constants. The server is a Node process
(Fastify, MongoDB) that signs users in, keeps their bridges and devices, pushes
notifications, transcribes voice and exports analytics.

Node runs one turn of the event loop at a time, so the races of this program
are all between the turns: what another request, timer or reply may do while a
handler awaits the database, a provider or a client. An action of a model is one
such turn, up to its next `await` that really suspends, together with the
promise continuations that run before the next turn.

Paths below are relative to `src/src`.

| file | what it is |
| --- | --- |
| `SignIn.tla` | what the sign-in flow promises of one attempt |
| `PendingAuth.tla` | the anti-phishing sign-in: store, callbacks, long poll, acknowledgement |
| `PendingAuthProofs.tla` | its inductive invariant and the theorems that follow |
| `BridgeStatus.tla` | the relay's status reports and the delayed pushes about them |
| `BridgeStatusProofs.tla` | its inductive invariant and the theorems that follow |
| `RealtimeSession.tla` | the realtime voice socket, its session, slots, budget and shutdown |
| `RealtimeSessionProofs.tla` | its inductive invariant and the theorems that follow |
| `AccountData.tla` | accounts and tokens, bridges under their cap, the glossary: what the database keeps of a user |
| `AccountDataProofs.tla` | its inductive invariant and the theorems that follow |
| `AnalyticsConsent.tla` | whose data may be used: preferences and tombstones |
| `AnalyticsEvents.tla` | extends it with the events recorded and the deletion of a user |
| `AnalyticsExport.tla` | extends it with the daily export to the warehouse |
| `AnalyticsProofs.tla` | the two inductive invariants, of the events and of the export, and the theorems that follow |
| `EmailSends.tla` | one optional email: its leases, the quota of the day, the provider, its webhooks |
| `EmailSendsProofs.tla` | its inductive invariant and the theorems that follow |
| `ActivationState.tla` | the milestones of an account and the reminders that are due |
| `Activation.tla` | extends it with the requests, the backfill and the sweep that reads and writes them |
| `Presence.tla` | the long poll for a registered app |
| `Shutdown.tla` | extends it with the ordered shutdown |
| `ShutdownProofs.tla` | the inductive invariants of `Shutdown` and of `Activation`, and the theorems that follow |
| `VoiceUploads.tla` | the transcription of an upload, what it leaves at the provider, the purge |
| `VoiceUploadsProofs.tla` | its inductive invariant and the theorems that follow |
| `MC<module>.tla`, `<module>*.cfg` | the small instances of the others |
| `PROJECT.json` | components, runs, mutants, source map, hazards, findings, theorems |

Run a model with `tlc -config PendingAuth.cfg MCPendingAuth`, a proof with
`tlapm PendingAuthProofs.tla`.

## Inventory

For each part of the system: its state, its operations, what it talks to, what
is hard about it, and what makes it correct.

### Pending sign-in attempts

`services/pending-auth-store.ts`, `routes/auth/init.ts`,
`routes/auth/provider-callback.ts`, `routes/auth/session-status.ts`.

- State: an LRU cache of sessions keyed by the hash of a client's session token
  (status, OAuth state, user code, staged and published completion, expiry), two
  reverse indexes by state and by user code, the waiters of each token, and the
  released flag.
- Operations: create or re-create a session; redirect and form callbacks of the
  provider (stage, fail, deny, confirm); the status long poll; the acknowledgement
  that consumes a completion; expiry, eviction, release at shutdown.
- Interactions: the callbacks await `AuthService.authenticateOAuth`; the poll
  awaits the store.
- Hard: sessions replaced, evicted or expired while a callback or a poll holds
  their token; two callbacks and a denial racing; wakeups; late acknowledgements.
- Correct when: tokens reach a client only after a confirmation in the browser, a
  denial is final, the indexes agree with the table, no poll hangs, and nothing is
  lost or changed between delivery and acknowledgement.

### Bridges and their status

`services/bridge-service.ts`, `services/bridge-state-tracker.ts`,
`repositories/bridge-repo.ts`, `routes/notifications.ts`, `routes/bridges.ts`.

- State: a document per bridge (status, last seen, revoked) and, in memory, an
  entry per bridge (pending push with its timer, early observations, the status
  last told).
- Operations: register with a cap of 50, rename, revoke one or all; the relay's
  status, policy and observation reports; the delayed push; dispose.
- Interactions: the relay posts reports in any order; a report is applied by the
  database and then handled by the tracker; pushes go through the push service.
- Hard: reports that overtake each other, a revocation between the two halves of
  a report, a report during a send, dispose with sends under way.
- Correct when: the stored status is the newest, a push announces the status that
  was reported last (see the observations for reports that overtake each other) and
  leaves out only devices that saw the connection, and dispose leaves nothing running.

### Realtime voice

`routes/voice-realtime*.ts`, `services/realtime-*.ts`,
`clients/soniox-realtime-transcription-client.ts`,
`repositories/daily-usage-repo.ts`.

- State: per socket the route's state and its session; per session the controller's
  state, its timers, its terminal; the service's active sessions, the tally of each
  user, the disposed flag; the day's seconds of each user.
- Operations: first frame, admission, connect, audio, finish, cancel, disconnect;
  the provider's transcripts, failure and end; wall clock, audio deadline, finish
  timeout; the usage write; shutdown.
- Interactions: client socket, provider socket, database, glossary.
- Hard: everything that can end a session may do so at any of its awaits, and a
  client may stop reading.
- Correct when: each session frees its slot once and is billed once, the daily
  limit is passed by a bounded amount only, every client is told why it is closed,
  nothing outlives its session, and shutdown drains.

### Voice uploads

`services/voice-service.ts`, `clients/soniox-transcription-client.ts`,
`scripts/purge-soniox-transcription.ts`.

- State: per upload the provider's file and job, as far as their identifiers are
  known; the daily counter, which it shares with realtime voice.
- Operations: check the budget, upload, create the job, wait for it, read the text,
  delete both, bill; the operator's purge of what was left.
- Hard: every call may fail after the provider has carried it out, the client may
  leave at any of them, and a file must not be deleted before a job that may exist.
- Correct when: no job loses its audio, what is left at the provider has a cause (a
  call that failed or was given up, or a crash), a purge that reports success leaves
  nothing, every upload ends.

### Accounts, devices and glossary

`services/auth-service.ts`, `repositories/user-repo.ts`, `oauth-account-repo.ts`,
`password-account-repo.ts`, `device-token-repo.ts`, `services/glossary-service.ts`.

- State: users with a token version, accounts, device tokens, words by project and
  bridge.
- Operations: sign in (account, then user), refresh, logout, revoke (bridges, their
  words, tokens, devices), add and remove words under two caps.
- Hard: no transaction spans two collections, so every pair of writes can be cut by
  a crash or another request.
- Correct when: a revocation that returned leaves no usable refresh token and no
  word of a revoked bridge, one that failed can be repeated, and caps are passed by
  the requests in flight at most.

### Optional emails

`repositories/optional-email-*-repo.ts`, `services/optional-email-*.ts`.

- State: a send per key (reserved, in flight, accepted, failed, blocked, deferred)
  with its lease, the quota of the day, preferences and suppressions, processed
  webhook events.
- Operations: reserve or reclaim, mark in flight, accepted, failed, blocked or
  deferred; reserve quota; handle a webhook; unsubscribe.
- Hard: senders that crash or outlive their lease, webhooks that are early, repeated
  or lost.
- Correct when: one send has one holder, an uncertain attempt is repeated only while
  the provider can still recognise it, the cap of the day holds, and a suppression
  is never undone.

### Product analytics

`services/product-analytics-*.ts`, `repositories/product-analytics-*-repo.ts`.

- State: preferences and suppressions of users, internal exclusions, events, the
  staged and the published tables.
- Operations: export in four phases (scan, events, reconcile, promote), suppress,
  change preference, delete a user's rows.
- Hard: users change while they are scanned; any phase may fail; runs may overlap.
- Correct when: what is published leaves out everyone who was suppressed, internal
  or opted out (see the observations for changes with an early date), the totals
  agree, and a failed run publishes nothing.

### Activation

`services/activation-service.ts`, `activation-reminder-service.ts`,
`activation-backfill-service.ts`, `repositories/activation-state-repo.ts`.

- State: per account the first app, bridge and session, two baselines, the reminders sent.
- Operations: record a milestone, reconcile it with what is stored elsewhere; the backfill
  of older accounts; the sweep that finds due reminders, sends and marks; its disposal.
- Hard: the evidence is read before the state is written, the backfill runs in another
  process, and a sweep outlives its disposal or its process.
- Correct when: a recorded milestone stays, no reminder is sent that is not due any
  more, and nothing is sent after the disposal has timed out.

### App presence and shutdown

`services/app-client-presence-service.ts`, `routes/app-clients.ts`, `shutdown.ts`.

- State: the waiters of each user, the reads under way, the released flag; the stage
  of the shutdown.
- Operations: a long poll between two database reads, a registration, a deadline, a
  client that leaves, a release; the shutdown releases waiters, drains the realtime service
  and the producers, closes the listener and then the database within one deadline.
- Hard: a registration between the reads of a poll; reads that nobody waits for any
  more and that still need the database; drains that fail or hang.
- Correct when: no registration is missed, every answer was true at some time, every
  poll is answered, and nothing uses what has been closed.

### Device tokens, install scripts

The tokens are one upsert and one delete (`repositories/device-token-repo.ts`), modelled
where others depend on them. `services/install-script-service.ts` refreshes a cache of
three files with one request in flight.

### Without behaviour to check

Settings (one upsert), feedback (one insert), legal documents and session metadata
(stateless), the clients of external services (requests and parsing), configuration,
schemas and types. `PROJECT.json` lists them with the reason.

## Plan

The modules, in the order in which they were written; all are done.

1. `SignIn`, `PendingAuth` and its proofs.
2. `BridgeStatus` and its proofs.
3. `RealtimeSession`.
4. `AccountData`.
5. `AnalyticsConsent`, and on it `AnalyticsEvents` and `AnalyticsExport`.
6. `EmailSends`.
7. `ActivationState`, and on it `Activation`.
8. `Presence`, composed with `Shutdown`.
9. `VoiceUploads`.

Each has its proofs, in the order `PendingAuth`, `BridgeStatus`, `VoiceUploads`,
`EmailSends`, `Shutdown`, `AnalyticsEvents`, `AccountData`, `RealtimeSession`,
`AnalyticsExport`, `Activation`: every invariant and action property of a run, and
the refinement of `SignIn`, is a theorem. The liveness properties are not, see below.

## The models

### PendingAuth

A session token is a member of `Tokens`, a call of `createSession` a member of
`Attempts` (the OAuth state it drew). `sessions`, `byState` and `byCode` are the
three maps; `poll` is the status requests and, through them, the waiters;
`exchange` is the callbacks that await the provider; the rest is history that
only the properties read.

| code | action |
| --- | --- |
| `createSession`, the LRU's eviction | `CreateSession` |
| redirect: code, `authenticateOAuth`, `stageCompletion`, `failSession` | `BeginExchange`, `ExchangeSucceeded`, `ExchangeFailed` |
| redirect: error | `ProviderError`, `DenySession` |
| form: confirm, deny | `ConfirmSession`, `DenySession` |
| a callback that finds nothing | `CallbackMiss` |
| status request, its waiter, timer, abort | `StartPoll`, `WaitAgain`, `WaiterTimeout`, `ClientGone` |
| its answer | `AnswerPoll`, `DeliverCompletion` |
| acknowledgement | `ConsumeCompletion` |
| `releaseWaiters` | `ReleaseWaiters` |
| the TTL | `Elapse`, and every read through `ReadMiss` |

A waiter that the store wakes is `resumed`; no other turn begins until its
continuation has run (`MicrotasksDrained`).

`SignIn` is the abstract specification: per attempt open, asked, granted, refused,
failed, acknowledged or gone. The refinement mapping (`Phases`) reads the phase of
an attempt off the entry that carries it, and `ImplementsSignIn` is checked as a
property of every behaviour.

### BridgeStatus

The relay's actions (`BridgeConnects`, `BridgeDisconnects`, `PolicyChanges`,
`DeviceObserves`) put reports into `mail`, a set: any of them may arrive next. A
report has two stages, because the route awaits the database between them:
`ApplyReport` (or `FindObserved`) is the update of `recordStatusChange` with its
guard on `lastSeenAt`; `HandleReport` (or `MarkObserved`) is what the tracker makes
of the reply. `Revoke` and `CancelRevoked` are the same two halves of a
revocation. `TimerFires` is the beginning of a send, `SendSettles` its end;
a send whose pending push was replaced or cancelled goes on as one of the
`orphans`, which `Dispose` and `DisposeEnds` wait for. Three variables are history:
`handled` is the status the phones are to be told, of the report the tracker handled
last; `newest` is the report that the database passed on last, until it is handled;
`current` says that the report passed on last is also the one handled last.

### RealtimeSession

A record per socket holds the route's context, the socket, the start of the
session and its controller. `BeginTerminal` is `#beginTerminal` up to the usage write
and `CompleteTerminal` is what follows it, which is also where a slot is freed
(`Released`). What a caller does after it awaited `session.cancel()` is in `after`.

| code | action |
| --- | --- |
| `startRealtimeSocket`: socket, first-frame timeout, messages, disconnect | `OpenSocket`, `StartTimeout`, `BadFirstFrame`, `StartFrame`, `EarlyFrame`, `BadFrame`, `ClientFinishes`, `ClientCancels`, `Disconnect` |
| `sendEvent` to a client that does not read | `ClientStalls`, and every operator that sends |
| `start()` and its awaits | `StartFrame`, `ReadUsage`, `Admit`, `GlossaryReplies`, `ReadFails`, `ProviderConnects`, `ProviderRefuses` |
| `sendAudio` | `AudioAccepted`, `AudioBeyondLimit`, `AudioRefused` |
| provider events, `finish()` | `Transcript`, `BadTranscript`, `ProviderFails`, `ProviderFinished`, `FinishResolves`, `FinishFails` |
| timers | `WallClock`, `AudioDeadline` |
| `recordUsage` | `UsageRecorded`, with `Midnight` between two days |
| `beginShutdown`, `dispose` | `Dispose` (one turn, as the shutdown handler calls them), `DisposeSettles`, `DisposeTimesOut` |

Audio is counted in whole billable seconds, which the code rounds up to: a limit
may be reached anywhere in its last second, so `AudioAccepted` leaves open
whether it is.

### AccountData

No transaction of the server spans two collections, so a request is a sequence of
database calls, each atomic, with other requests between any two of them. `reqs`
holds the requests under way: where each is, and what it has read. Each may
`Fail` at any call, which stands for a call that throws and for a crash.

| code | action |
| --- | --- |
| `#upsertFromOAuth`: the account's upsert, then the user | `SignInArrives`, `UpsertAccount`, `CreateUser`, `FindUser` |
| `refreshAuthTokens` | `Refresh` |
| `logoutUser`, the end of `revoke` | `LogoutArrives`, `BumpVersion` |
| `registerForUser`: count, insert, re-rank, self-revoke | `RegisterArrives`, `CountBridges`, `InsertBridge`, `Rerank`, `GiveUp` |
| `revokeForUser` | `RevokeOneArrives`, `RevokeOne`, `DeleteOne` |
| `revokeAllForUser`, from `revoke` | `RevokeArrives`, `RevokeAll`, `FindCandidates`, `FindRevoked`, `DeleteAll` |
| `addWords` | `AddArrives`, `CheckBridge`, `ReadExisting`, `ReadCount`, `AddWords`, `RecheckBridge`, `CleanUp` |
| `removeWords` | `RemoveArrives`, `CheckBridge`, `RemoveWords` |

A sign-in or a refresh reads the user and signs: what happens between the read and the
reply cannot be told from what happens after it, so each is one action. There is
one identity and one project. The bridges are numbered in the order by which the
re-ranking decides, and a registration draws its place when it counts: registrations
under way at once may have the same `addedAt`, so any of them may come first. The
history variables say what the exceptions of the properties need: `ended` in a
token (a logout has been carried out since its sign-in), `tooEarly` (a logout
found no user), `closed` (the user has revoked a bridge) and `stale` (the revoked
bridges whose words a failure has left for a later revocation).

### AnalyticsConsent, AnalyticsEvents, AnalyticsExport

`AnalyticsConsent` is the part of a user that the other two share. A request
reads the clock once, when it arrives, and writes that time when it is applied
(`stamp`), which is how a write may carry a time before another's. `Matches` is the
filter of the update.

| code | action |
| --- | --- |
| `PUT /product-analytics/preference` | `SendUpdate`, `AnswerUpdate`, `LoseUpdate`, `ResendUpdate` (`UpdateAndEnd` in the export) |
| `suppressAndHandoff`: tombstone, events, target | `SuppressionArrives`, `SuppressThenDelete`, `DeleteEvents`, `FindTarget`, `UpsertTarget`, `EndDeletion`, `FailDeletion` |
| the backfill of preferences | `Backfill` |
| `record` of an event | `RecordArrives`, `ReadPreference`, `InsertEvent`, `Recheck`, `DeleteRecorded`, `FailRecording` |
| `beginRun` of the export | `StartRun`, `AcquireLease`, `LoseLease` |
| phases 1 to 4 | `ScanUsers`, `BeginReconcile`; `Reconcile`, `SuppressionAborts`, `EndReconcile`; `ReloadControl`, `Validate`, `Promote` |
| a failing phase, `cleanup` | `FailRun`, `CleanUp`, `Crash` |
| the list of internal users, kept elsewhere | `ControlChanges` |

The export is two batched scans: of the users, and of those that changed after the cutoff.
Both are an order on `Users` with a cursor. The counts of the cohorts are kept as
the code keeps them, incremented by the scan and decremented by what a removal has
removed, so that `CountsAgree` can compare them with the staged rows.

### EmailSends

There is no sender in the repository yet: a sender is any caller that uses the
repositories as their types ask for. It may be slow at any point, and may die.

| code | action |
| --- | --- |
| `reserve` | `Arrive`, `Insert`, `Find`, `Reclaim` |
| `markBlocked`, `markDeferredForDailyLimit`, `markInFlight`, `markAccepted`, `markFailed` | `MarkBlocked`, `MarkDeferred`, `MarkInFlight`, `MarkAccepted`, `MarkFailed` |
| the daily quota | `ReserveQuota`, `OthersUseQuota` |
| the provider | `Receive`, `Refuse` |
| the webhook | `Deliver`, `CheckProcessed`, `FindUser`, `Suppress`, `RecordProcessed`, `FailWebhook` |

The provider recognises a repeated key for `ProviderWindow`, and a request takes at most
`CallLimit` to reach it. `EmailSendsAssumption` is the relation between them that
the safety window of the code is there for.

### ActivationState, Activation

`ActivationState` is the document and the three computations on it: what recording
a milestone makes of it (`Recorded`), what the backfill makes of it (`Backfilled`),
and whether a reminder is due (`Eligible`). `Activation` has the processes.

| code | action |
| --- | --- |
| a route that reaches a milestone | `Arrive`, `Read`, `Reconcile`, `Record`, `FailRecord`, `Use` |
| the backfill | `StartBackfill`, `ReadEvidence`, `ApplyBackfill` |
| `sweepOnce` | `StartSweep`, `FindDue`, `StillDue`, `ReadTokens`, `Push`, `DeleteStale`, `Mark`, `FailReminder` |
| `dispose` and its timeout | `Dispose`, `DrainTimeout` |
| the process dies or exits | `Restart` |

### Presence, Shutdown

| code | action |
| --- | --- |
| `GET /auth/app-clients/status` | `AskNow`, `AskAndWait`, `Leave`, `Reply` |
| the two reads, the waiter | `LookUp`, `ReadEnds`, `FirstReadFindsNone` |
| the deadline | `Deadline` |
| `registerToken`; a token removed | `Register`, `Wake`; `Unregister` |
| `createShutdownHandler`, `releaseWaiters` | `Signal` |
| the steps of `runOrderedShutdown` | `DisposeRealtime`, `CloseListener`, `AwaitProducers`, `DrainReads`, `CloseMongo` |
| drains that fail; the hard deadline | `DegradeDrain`; `GiveUp` |

A read has two moments, the one at which it looks and the one at which its result
arrives, because the hazard is what happens between them; it goes on when nobody waits
for it, which is what `DrainReads` is about. `seen` is history: what was true of the table
since the request. `Shutdown` admits the actions of `Presence` while the process is there,
and new requests while it listens.

### VoiceUploads

| code | action |
| --- | --- |
| the route, the precheck | `Begin`, `Precheck`, `PrecheckFails` |
| the calls of `transcribe` and of its cleanup | `Land` (the provider carries it out), `Return`, `Fail` |
| a client that leaves | `Leave` |
| billing, reply | `Record`, `Reply` |
| the process dies | `Crash` |
| a call that was given up and arrives all the same, or does not | `LandLate` |
| `runSonioxPurge` | `PurgeBegins`, `List`, `ListFails`, `Flush`, `NextSweep`, `PurgeEnds` |

`Cleanup` is the decision the client has to make with the identifiers it has.

## What the runs check

Each property of a passing run has a mutant: a plausible mistake in a mapped
definition (`Slip_...`) with which the same run must fail.

| run | instance | shows |
| --- | --- | --- |
| `pending_auth` | 2 tokens, 2 attempts, 2 codes, a store of 1, 2 polls, 2 callbacks | types; `StoreIsCoherent` (indexes, wakeups, release), `DeliveryIsSound` (confirmed, never after a denial); `StableUntilAcked`; `ImplementsSignIn`; `EveryPollAnswered` |
| `bridge_status` | 1 bridge, 2 connections, 1 device, 4 reports, 2 under way at once | types; `AnnouncedIsTrue` (the stored status is of the newest report; a pending push announces that of the report handled last, which is the stored one if that report is the newest too; who is left out observed the connection), `DisposeIsFinal`; `EventuallyTold` |
| `bridge_online_twice` | 1 bridge, 1 connection, reports in order | a second online push (finding) |
| `realtime_sessions` | 3 sockets of a user with 2 slots, 1 second each | types; `SlotsAreHeld`, `BillingIsExact` (once, and with a bounded overshoot), `SocketsEndWell` (for a reason, and drained by a shutdown) |
| `realtime_ends` | 2 sockets of a user with 1 slot, a limit of 3 seconds, sessions of 2, a midnight | `EverySessionEnds`; without concurrent sessions the limit is never passed (`BillingIsExact` with `MaxPerUser = 1`) |
| `account_data` | 2 requests at once, 3 bridges, 3 glossary scopes, 1 word; caps of 1 bridge and 1 word; 1 logout | types; `LogoutIsFinal`, `CapsAreKept`, `WordsAreCleaned`; `LiveKeepsWords` |
| `analytics_events` | 1 user, 1 update, 2 events, 2 deletions | types; `DeletionIsFinal`: a tombstone is permanent, and a deletion that was handed over leaves no event |
| `analytics_export` | 2 runs, 2 users in batches of 1, 2 updates, 1 deletion, 2 changes in all | types; `LeaseIsKept`; `ExportIsSound`: nobody is published with a change dated after the cutoff, nor an internal user, and the counts agree |
| `email_sends` | 2 senders, 2 deliveries of a bounce, times beyond the provider's window | types and the quota; `OneEmail`, `AcknowledgedIsSuppressed` |
| `activation` | 1 request, the backfill, 2 sweeps, restarts | types; `MilestonesStay`; `RemindersAreDue` |
| `shutdown` | 2 polls, 1 registration, the realtime service and a producer | types; `PollsAreHonest`, `ClosedIsUnused`; `EveryPollAnswered` |
| `voice_uploads` | 2 uploads, batches of 2 | types; `JobsHaveAudio`, `ResidueIsAccounted`; `EveryUploadEnds` |

Why the bounds are enough:

- `pending_auth`. The hazards involve one token with two attempts, or two tokens
  that compete for a place, each with a callback or a poll in flight. Two polls on one
  token show the waiters that sleep on; two callbacks show two exchanges of one
  attempt, one of which fails after the other was confirmed. A token used again
  after it was evicted, and a larger store, are covered by the proofs, which have no
  bounds; only the liveness is checked for this instance alone.
- `bridge_status`. Bridges share nothing but dispose and `revokeAllForUser`, whose
  effect on each is the same. Two connections tell an exclusion for one from the
  other; four reports allow offline, online, a change of policy and a stale report
  in one behaviour, two of them overtaking each other.
- `realtime_sessions`. Two slots make a start race another start and a terminal; a
  third socket is refused or follows. A limit of one second suffices for the
  overshoot of `OvershootIsBounded` to be reached exactly: two sessions admitted on
  the same reading. The run `realtime_ends` has a limit that the session cap does
  not divide, so that a grant is cut to what is left. Symmetry is used for
  invariants only, never for liveness.

- `account_data`. Each hazard is a race of two requests, one of which may fail and be
  followed by another. With a cap of one, two registrations pass it and the third
  bridge shows that a settled overshoot is not passed again. Words go to two bridges
  and to the shared scope: one scope more than two concurrent additions can fill past
  a cap of one, so the bound is reached and could be broken.

- `analytics_events`. Users share nothing. Two deletions of one user are two operators, or
  one who starts again with another request; of two recordings one may fail while the
  other goes on.
- `analytics_export`. Two users and batches of one put a change before or behind the cursor
  of either scan; two changes (of any kind, among them an opt-out and an opt-in, or a list
  that changes back) fall before, between and after the phases; a lease of two ticks
  and a clock to 2 let the second run take over from the first. `MaxChanges` is the bound.
- `email_sends`. Sends with different keys share the quota only, which `OthersUseQuota`
  uses up. Two senders suffice for one to reclaim from the other, as often as the clock
  allows; the clock runs past the window of the provider and into a second day.
- `activation`. One request that runs beside the backfill and the sweep: what they share
  is one document, and each write of it is atomic. The second sweep is what must not
  start while the first is under way.
- `shutdown`. Polls do not see each other; the second is there to be answered or to hang
  when the first has gone.
- `voice_uploads`. Uploads share the counter and the purge: with two, a batch is flushed
  when it is full and when the list ends, and one of its calls may fail.

The overshoot. The budget is read when a session is admitted and not reserved, and
the repository's README allows for that with a bound of the per-user ceiling times
the session cap. What holds is a little less: a user passes the daily limit by
at most `(MaxPerUser - 1) * min(MaxSession, DailyLimit)`, because a session that
starts after another has freed its slot has seen its usage. Uploads share the
counter; `VoiceUploads` has it without the realtime sessions.

## Fairness

- `PendingAuth`: weak fairness of the queued continuations (`AnswerPoll`,
  `DeliverCompletion`), which Node runs before anything else, and strong fairness of
  `WaiterTimeout`: a due timer fires although other turns, each of which disables
  it for a moment, keep coming. Clients, browsers and providers owe nothing.
- `BridgeStatus`: timers fire and a send settles (the push client has its own
  timeout). The relay owes nothing; `EventuallyTold` speaks only of behaviours in
  which the status to tell stops changing.
- `RealtimeSession`: the database, the glossary and the provider's connect answer or
  fail (each has a timeout), the start timeout and the wall clock fire, `finish()`
  resolves or times out, the usage write settles. One assumption is on the
  provider's SDK and not on the server: once `finish()` has resolved, the finished
  event follows. Without it a session would stay in `finishing` without a timer.
  Neither the client nor the audio deadline is needed for `EverySessionEnds`.

- `Shutdown`: a read ends (the driver's timeout), the deadline of a poll fires, and an
  answer that was computed is sent, all as long as the process is there. Nobody registers, and
  no shutdown has to come.
- `VoiceUploads`: the calls of an upload end: the database answers, and
  `AbortSignal.timeout` ends each call to the provider. Whether the provider has
  carried it out is left open.
- All the others: none. Nothing obliges a client, an operator or a sender to retry, and no
  property of theirs is a liveness property.

## Findings

A run of kind `violation` shows the code disagree with its comment and README:
an online push is meant to answer an offline push. A report for another
connection, or one that upgrades the policy, that is handled while an online
push is being sent schedules a second one (`bridge_online_twice`).

## Observations

Met while modelling; the models have these behaviours, and no property that holds
forbids them.

- Sign-in. A provider callback stages its completion under the session's token
  (`provider-callback.ts:188`), read before it awaited the provider. When the client has
  started a new attempt with the same token meanwhile, the tokens of the old attempt
  are staged on the new one, and still have to be confirmed there; the comment at
  `pending-auth-store.ts:141` calls the replacement idempotent. An acknowledgement
  names a token and no attempt either (`pending-auth-store.ts:411`): a late one
  consumes the completion of a newer attempt.
- Accounts. A logout increments the token version of the user's document
  (`user-repo.ts:513`). During a first sign-in the account is written before the user;
  a second sign-in of the same identity is served in between, and a logout with its
  tokens changes nothing: its refresh token is valid once the user has been inserted.
  A crash between the two leaves an account whose user is never created: it is
  signed in with version 0, and no token can be refreshed.
- Bridges. A report applied before a revocation but handled after it schedules a push for a
  revoked bridge. Two reports of a bridge that were applied in one order and whose replies
  are handled in the reverse one leave the tracker with the older status: inactive and
  then active applied, active and then inactive handled, arm an offline push for a bridge
  that is stored as online (`bridge-service.ts:179`; the tracker has no guard like that on
  `lastSeenAt`). `PendingIsNewest` excepts this, and `EventuallyTold` is about the
  report handled last. A registration that gives up its bridge leaves the words added to
  it meanwhile until that bridge is revoked again. The comment over the
  re-ranking says that a burst admits exactly the remaining capacity once reads
  settle: a bridge inserted late, but earlier in the order than one that has been
  re-ranked already, stays as well, within the bound the comment goes on to give.
- Realtime. The comment over `abandonUnreachableClient` says that `startSession`
  disconnects the session it was handed after an undeliverable `ready`; `start()` has then
  rejected, since its signal was aborted, and closes the session itself.
- Analytics. A request stamps a change with the time at which it arrived
  (`user-repo.ts:282` for a suppression). When that is at or before the cutoff of
  an export and the write comes after the user was scanned, the reconciliation does not
  find the change, and the row is published. There are two such cases. A suppression
  with an early time: it is the exception in `PublishedIsEligible`, and is against the
  comments at `product-analytics-export-service.ts:383` (a suppression landing during the
  scan aborts the run) and, when it overwrites the time of a later change, at
  `product-analytics-export-service.ts:410` and `README.md:876` of the repository (a later
  write cannot hide an earlier change). And an opt-out with an early time, of which the
  property says nothing: it counts the changes dated after the cutoff, and every tombstone.
  The next export leaves the user out.
- Emails. A send that is found in flight after its retry window stays so, and a bounce of
  it is answered 503 for as long as the provider delivers it.
- Activation. The backfill reads its evidence before it writes, and the comment at
  `activation-backfill-service.ts:281` says that a transition meanwhile is covered: a
  device token stored and recorded between the two gives the account a backfilled
  state without the shifted baseline.
- Presence. A poll may be answered "true" by the wakeup of a registration whose token
  has been removed before it.
- Voice uploads. A client that leaves, or a timeout, while the file is being uploaded
  strands the file if the provider has accepted it: its identifier is unknown. The comment at
  `soniox-transcription-client.ts:118` says that neither can strand audio at the provider;
  `ResidueHasCause` counts them among the causes, as the failed calls that they are.
  And a job whose creation failed, even by a rejection that was answered, counts as
  one that may exist, so its file is left. Both are what the purge is for
  (`README.md:703` of the repository). A creation that arrives as late as in a
  purge would leave a job without audio: the purge is to be run when nothing is in
  flight (`README.md:711`), and `PurgeBegins` takes it at its word.

## What is proved

Every invariant and every action property that a run checks, and the refinement
of `SignIn`, is a theorem for all values of the constants that satisfy the named
assumptions; TLC evaluates these assumptions in the runs. Each inductive
invariant was first checked by TLC on the instance of the run. No property is
inductive by itself; what follows says what had to be added, and why it holds.

### PendingAuth

`PendingAuthProofs` proves, for any number of tokens, attempts, codes, requests,
callbacks and any capacity, from `PendingAuthAssumption` alone (`None` is none of
them): `TypeOK`; `IndexesCoherent`, `NoMissedWakeup` and `ReleasedMeansNoWaiter`, and so
`StoreIsCoherent`; `DeliveredWasConfirmed` and `DeniedNeverDelivers`, and so
`DeliveryIsSound`; `StableUntilAcked`; and `ImplementsSignIn`. The inductive invariant is
`IInv == StoreInv /\ PollInv /\ ExchangeInv`:

- `StoreInv` adds to the types and indexes that a stored entry has a state and a
  code (`EntryShape`), belongs to the token its attempt was created for
  (`StateOwned`), and that an attempt once denied or delivered is stored, if at
  all, as denied or complete (`DeniedSettled`, `ReceivedSettled`). Without
  `StateOwned` an attempt could come back under another token; without the last
  two a delivered attempt could still be denied. An attempt that was acknowledged
  is not stored and does not come back (`ConsumedSettled`), as `SignIn` promises.
- `PollInv` adds that a waiter started from an undecided status
  (`WaitsFromUndecided`), so every settling transition differs from it and wakes
  it, and that a poll woken by a staged completion runs before the session settles
  (`AwaitingIsFresh`): it may register again without missing anything. This is
  where the microtask queue matters.
- `ExchangeInv` is the shape of the callbacks in flight.

The proof follows the store: one lemma for dropping entries, one for updating one,
one for creating one, each with its counterpart for the requests; `Inductive` then
has a step per action. The refinement has one step of `SignIn` for each: what an
attempt's phase may become follows from what its entry may become, and `StateOwned`
says that no two entries carry one attempt.

### BridgeStatus

`BridgeStatusProofs` proves, for any finite set of bridges and any connections,
devices and number of reports, from `BridgeStatusAssumption` (the bridges are
finitely many, `None` is no connection and no device, the bounds are naturals) and
`NoReportAssumption` (`None` is no report): `TypeOK`; `PersistedIsNewest`,
`PendingIsCurrent`, `PendingIsNewest` and `ExcludedHaveObserved`, and so
`AnnouncedIsTrue`; and `DisposeIsFinal`. Its `IInv` follows the three places state is
kept in, and the history:

- `RelayInv`: reports are well formed, an observation names a device, and the
  clock runs no faster than the reports, which bounds it.
- `DocInv` adds `UnreportedIsUnseen` to `PersistedIsNewest`: a bridge no report has
  reached has never been seen, so the guard on `lastSeenAt` can drop a report only
  when a newer one is there.
- `TrackerInv` adds `EarlyWasObserved` to the three invariants of the tracker:
  the devices remembered for a later push did observe the connection they are
  remembered with. Without it a push could be scheduled with an exclusion nobody
  observed.
- `HistoryInv` relates the two halves of a report: the report passed on last carries the
  status that is stored, as long as it is not handled (`NewestIsStored`), since one
  that is not passed on changes no status; and once it is the one handled last, that
  status is still the stored one (`CurrentIsStored`).

Every action of the tracker replaces the entry of one bridge (`OneEntry`), except
a revocation and dispose, which start entries anew (`NewEntryKeeps`).

### RealtimeSession

`RealtimeSessionProofs` proves, for any finite set of sockets of any users, on any day
and for any limits: `TypeOK`, `SlotsAreHeld`, `BillingIsExact` (with its bound on the
overshoot) and `SocketsEndWell`. Most of a step happens to the record of one socket,
so the invariant has a part about one record alone, `Sound`: the face it shows to its
client (`FaceFits`), the start it has got to (`StartFits`), the terminal and what it
bills (`EndFits`). What each operator makes of a record (`CloseSocket`, `SendEvent`,
`Terminate` and the others) is a lemma, and so is what a step may move of it
(`Moves`, `Keeps`); slots, budget and shutdown need only these.

- `SlotsAreExact`: the slots taken are those of the sockets that hold one. A step
  that ends a session frees the slot that it holds, once.
- `BudgetIsKept`: of the sessions of a user that were granted seconds and are not
  billed, all but one may bill a whole grant, and that one what it was granted when it
  read the usage. This counts the race between admission and billing, and the bound
  on the overshoot is what it leaves when none of them is under way.
- `ShutdownFits`: no socket waits for its first frame after a shutdown, and a
  shutdown that has drained stays drained.

### AccountData

`AccountDataProofs` proves, for any finite and non-empty set of requests, any
bridges, any finite set of words and any caps: `TypeOK`, `LogoutIsFinal`, `CapsAreKept`,
`WordsAreCleaned` and `LiveKeepsWords`. What a request has read is old when it is used; `Fits`
says what still holds of it, which suffices because a bridge only goes from none to
live to revoked.

- `AccountInv`: one sign-in at most is to create the user, and no token is of
  a version that is yet to come.
- `RevokesCover`: words of a revoked bridge are under the care of some request, or were
  left by one that failed since.
- `BridgesFit`: bridges that have been counted and not yet inserted count with the
  live ones. `GivenUpAreLate`: who gives up its bridge has a full cap of earlier ones.
- `WordsFit`: as with the budget of the voice sessions, all but one of the additions
  that have found room may insert a request's worth of words, and that one what
  it has found room for.

The cardinalities are the library's theorems on finite sets. Where a least or
greatest element is needed, it comes from the well-foundedness of `<` on `Nat`.

### AnalyticsEvents and AnalyticsExport

`AnalyticsProofs` proves, for any finite set of users and any updates, deletions and
recordings: the types and `DeletionIsFinal` of `AnalyticsEvents`. Its invariant says
that the tombstone a deletion or a target carries is the one that the user has
(`TombstonesAreKnown`), and that the events of a user whose events were deleted are
gone, or that the recording that inserted one is about to look for the tombstone
again (`DeletedIsClean`), or that it failed there (`orphaned`).

Of `AnalyticsExport` it proves, for any runs, batches, lifetime of a lease and number
of changes: the types, `LeaseIsKept` and `ExportIsSound`. Its parts:

- `StampsArePast`, `TombstonesAreDated` and `UpdatesFollow`: no time is in the future, a
  tombstone is dated no later than the user's last change, and an update that would
  still be applied was sent after what it changes was. From this each step moves the
  time of a user on, or writes a tombstone with an earlier time (`TimesMoveOn`), which
  is the exception that `PublishedIsEligible` makes.
- `LateFit`: a user who carried a change dated after the cutoff, or a tombstone, when the
  reconciliation began is excused by a tombstone dated at or before the cutoff once the
  cursor has passed, and before is still one of those the reconciliation looks for.
  This is why a scan in batches misses nobody although users go on changing behind
  and before it.
- `RowsFit`: the rows lie behind the cursor of the scan, so no user is counted twice,
  and the counts are the cardinalities of what was staged.
- `LeaseFits`: the lease of a run that stages is its own, with the expiry that the run
  computes, until that has passed.

### EmailSends

`EmailSendsProofs` proves, for any senders, deliveries, lease, windows and quota with
`Window + CallLimit <= ProviderWindow` (`EmailSendsAssumption`; and `None` is not a document,
`NoDocument`): the types with the quota, `OneEmail` and `AcknowledgedIsSuppressed`. Every request
to the provider is made within `Window` of the first (`CallsAreTimely`), because a send
in flight is reclaimed only as long as that, and the provider has sent the email since
the first (`ProviderIsLate`); so each later request still finds its key.

### VoiceUploads

`VoiceUploadsProofs` proves, for any uploads, quota and batch: the types,
`JobsHaveAudio` and `ResidueIsAccounted`. Of each request the invariant says what
it can have at the provider and which of its calls that were given up may still
arrive: a job it can name is the only one it will have (`JobIsKnown`), a file is being
deleted only when there is no job and no creation under way
(`DeletedInOrder`), and a request without a cause for it leaves nothing in the end
(`CauselessIsClean`). Deleting at the provider, and forgetting a late call, disturb none
of these, which is what makes the purge compatible with them (`PurgeIsQuiet`,
`PurgeProceeds`).

### Presence and Shutdown

`ShutdownProofs` proves, for any polls, registrations and producers: the types,
`PollsAreHonest` and `ClosedIsUnused`. A request under way has seen the table
as it is, and what its read has found (`Informed`); a waiter misses no registration
(`Watchful`). Of the shutdown: a stage is reached when the workers it closes have drained
(`DrainsAreAwaited`), and behind a closed listener there are only reads that nobody
waits for (`ReadsAreAwaited`).

### Activation

The same module proves, for any number of requests and sweeps, any delays and any
jitter: the types (with no milestone older than its account), `MilestonesStay` and
`RemindersAreDue`. At most one sweep is under way (`OneSweep`), so that what it finds due is
not marked by anyone else before it marks it (`SweepFits`): each step but its own
leaves the reminders sent alone. A sweep that has sent the second reminder of the
bridge found the first one sent, and so will not send it. That a
milestone stays needs only the merge of each write (`RecordedFits`, `BackfilledFits`),
however old what was read before it.

## What is only model-checked

Liveness: `EveryPollAnswered` (of the sign-in and of the presence polls),
`EventuallyTold`, `EverySessionEnds` and `EveryUploadEnds`. Liveness under fairness, with its
`ENABLED`, is outside the proof system.

## What is not modelled

- Of the modelled parts: CSRF cookies, device fields and the provider of an attempt;
  the wording and routing of pushes, and which device tokens they go to; delays,
  since a timer may fire at any moment after it is armed; audio formats, pacing and
  error codes; the rate limit and authentication of the upgrade. The provider of the
  realtime session is what the adapter makes of it: `close()` does not throw, and
  the promise `closed` has a handler when it is rejected. Of accounts: passwords, the
  names a repeated registration updates, host keys, device tokens; the pushes a
  revocation cancels are in `BridgeStatus`.
- Of the other modules: the parameters of an analytics event and
  the check of its time, the TTL index, the milestones of an exported row, the staged
  events and the weeks of the cohorts; an unsubscription, the eligibility of a
  recipient and the signatures of webhooks and links; the batches and the report of the
  activation backfill; the OpenAI transcription client, which leaves nothing at its provider.
- Provider and platform clients, settings, session metadata, feedback, legal documents,
  install scripts, the legacy OAuth state, configuration and types: one atomic write,
  one cache or no state at all. `PROJECT.json` gives the reason for each.
- Several processes: sessions, trackers and slots are in the memory of one, which the
  server assumes too.
