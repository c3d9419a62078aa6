--------------------------- MODULE RealtimeSession ---------------------------
(***************************************************************************)
(* Realtime transcription: the WebSocket route (SocketContext and its      *)
(* handlers), the controller of each session, and the service that admits  *)
(* sessions against the concurrency ceilings and the daily budget and      *)
(* drains them at shutdown.  A socket carries at most one session, so both *)
(* are one record.                                                         *)
(*                                                                         *)
(* One action is one turn of the event loop: an event, a timer, or the     *)
(* reply of the database, the glossary or the provider, with everything    *)
(* that runs before the next one, the continuations of promises settled in *)
(* that turn included.                                                     *)
(*                                                                         *)
(* Abstractions.  A timer may fire at any moment after it is armed.  Audio *)
(* is counted in whole billable seconds, so that a limit may be reached    *)
(* anywhere in its last second, whether frames or the provider's progress  *)
(* brought it; which of the checks refuses a frame is left open.  Error    *)
(* codes are left out, except that one decision bills nothing.  A stalled  *)
(* client is one whose next event closes the socket instead.  The provider *)
(* is what the adapter makes of it.                                        *)
(*                                                                         *)
(* An operator named Slip_X is X with one plausible mistake.               *)
(***************************************************************************)
EXTENDS FiniteSets, Integers

CONSTANTS
  Sockets,      \* WebSockets, each used once
  Users,
  UserOf,       \* the verified user of a socket
  DailyLimit,   \* dailyLimitSeconds
  MaxSession,   \* maxSessionSeconds
  MaxPerUser,   \* maxConcurrentSessionsPerUser
  MaxTotal,     \* maxConcurrentSessions
  MaxDays       \* bound: how many times midnight passes

\* The ranges the configuration accepts.
ASSUME RealtimeAssumption ==
  /\ IsFiniteSet(Sockets)
  /\ UserOf \in [Sockets -> Users]
  /\ DailyLimit \in Nat
  /\ MaxSession \in Nat \ {0}
  /\ MaxTotal \in Nat \ {0}
  /\ MaxPerUser \in 1 .. MaxTotal
  /\ MaxDays \in Nat

VARIABLES
  conn,       \* each socket's context, with the session it started
  active,     \* #active, which has the members of #sessionUserIds
  perUser,    \* #activePerUser; an absent key is zero
  disposal,   \* the promise of dispose(), "no" before shutdown
  awaited,    \* the sessions dispose() waits for
  used,       \* daily_usage: today's seconds of each user
  day         \* how many times midnight has passed

vars == <<conn, active, perUser, disposal, awaited, used, day>>
shutdown == <<disposal, awaited>>
usage == <<used, day>>

Least(m, n) == IF m < n THEN m ELSE n
Most(m, n) == IF m > n THEN m ELSE n

\* The most one session may be granted.
Grant == Least(MaxSession, DailyLimit)

Conn ==
  [ \* the route
    route : {"unopened", "awaiting_start", "starting", "streaming", "finishing", "closed"},
    terminalSent : BOOLEAN,
    after : {"none", "cancel", "terminate"},  \* what awaits session.cancel()
    \* the socket: stalled when its client has stopped reading, dropped when it
    \* is closed for that
    socket : {"none", "open", "stalled", "closing", "dropped", "closed"},
    wire : {"silent", "ready", "terminal", "broken"},  \* history: what was sent
    \* service.start()
    step : {"none", "usage", "read", "terms", "connect", "live", "failed"},
    signal : BOOLEAN,       \* the route aborted the start
    grant : 0 .. Grant,     \* providerLimitSeconds
    \* the controller
    state : {"none", "streaming", "finishing", "settled", "closed"},
    aborted : BOOLEAN,      \* its own abort controller
    seconds : 0 .. Grant,   \* billable: of attemptedBytes or providerProgressMs
    wallClock : BOOLEAN,    \* timers armed
    deadline : BOOLEAN,
    terminal : {"none", "recording", "done"},          \* #terminalPromise
    decision : {"none", "complete", "silent", "error", "unbilled"},
    \* the provider's connection
    provider : {"none", "connecting", "open", "gone"},
    billed : Nat,           \* history: seconds written for this session
    unbilled : BOOLEAN ]    \* history: the write failed or was left out

TypeOK ==
  /\ conn \in [Sockets -> Conn]
  /\ active \subseteq Sockets
  /\ perUser \in [Users -> Nat]
  /\ disposal \in {"no", "waiting", "done", "failed"}
  /\ awaited \subseteq Sockets
  /\ used \in [Users -> Nat]
  /\ day \in 0 .. MaxDays

Unopened ==
  [ route |-> "unopened", terminalSent |-> FALSE, after |-> "none",
    socket |-> "none", wire |-> "silent",
    step |-> "none", signal |-> FALSE, grant |-> 0,
    state |-> "none", aborted |-> FALSE, seconds |-> 0,
    wallClock |-> FALSE, deadline |-> FALSE,
    terminal |-> "none", decision |-> "none",
    provider |-> "none", billed |-> 0, unbilled |-> FALSE ]

Init ==
  /\ conn = [s \in Sockets |-> Unopened]
  /\ active = {}
  /\ perUser = [u \in Users |-> 0]
  /\ disposal = "no"
  /\ awaited = {}
  /\ used = [u \in Users |-> 0]
  /\ day = 0

\* #disposed
disposed == disposal # "no"

\* service.start() has not settled.
Starting(c) == c.step \in {"usage", "read", "terms", "connect"}

\* context.session is set once start() has returned it.
HasSession(c) == c.step = "live"

-----------------------------------------------------------------------------
(* The socket. *)

\* The wire protocol: ready, then transcripts, then one terminal event.
Extended(wire, kind) ==
  IF (kind = "ready" /\ wire = "silent") \/ (kind = "transcript" /\ wire = "ready")
    THEN "ready"
  ELSE IF (kind = "complete" /\ wire = "ready") \/ (kind = "error" /\ wire \in {"silent", "ready"})
    THEN "terminal"
  ELSE "broken"

Sendable(c) == c.socket = "open"

CloseSocket(c) ==
  [c EXCEPT !.socket = IF @ = "open" THEN "closing" ELSE IF @ = "stalled" THEN "dropped" ELSE @]

SendEvent(c, kind) ==
  IF Sendable(c) THEN [c EXCEPT !.wire = Extended(@, kind)] ELSE CloseSocket(c)

-----------------------------------------------------------------------------
(* The route. *)

Closed(c) == [c EXCEPT !.route = "closed", !.terminalSent = TRUE]

\* The last event of a socket, and its close.
Terminate(c, kind) == CloseSocket(SendEvent(Closed(c), kind))

AbortStarting(c) ==
  IF Starting(c) THEN [c EXCEPT !.signal = TRUE,
                                !.provider = IF @ = "open" THEN "gone" ELSE @]
                 ELSE c

BeginRouteError(c) == IF c.terminalSent THEN c ELSE Terminate(AbortStarting(c), "error")

\* onComplete and onError; a silent terminal emits nothing.
EmitTerminal(c) ==
  IF c.terminalSent \/ c.decision = "silent" THEN c
  ELSE Terminate(c, IF c.decision = "complete" THEN "complete" ELSE "error")

\* A protocol error while the session streams is sent and the socket left open.
Slip_AfterCancel(c) ==
  IF c.after = "cancel" THEN CloseSocket(c)
  ELSE IF c.after = "terminate" THEN SendEvent(c, "error")
  ELSE c

\* What a handler that awaits session.cancel() does next.
AfterCancel(c) ==
  IF c.after = "cancel" THEN CloseSocket(c)
  ELSE IF c.after = "terminate" THEN CloseSocket(SendEvent(c, "error"))
  ELSE c

-----------------------------------------------------------------------------
(* The controller. *)

\* abort() makes the SDK end a connection it has opened.
Abort(c) == [c EXCEPT !.aborted = TRUE, !.provider = IF @ = "open" THEN "gone" ELSE @]

ClearTimers(c) == [c EXCEPT !.wallClock = FALSE, !.deadline = FALSE]

CompleteTerminal(c) ==
  [AfterCancel(EmitTerminal(c)) EXCEPT !.terminal = "done", !.decision = "none"]

\* beginTerminal and runTerminal up to the usage write; without one, to the end.
BeginTerminal(c, decision) ==
  IF c.terminal # "none" THEN c
  ELSE LET t == [Abort(ClearTimers(c)) EXCEPT !.state = "closed", !.decision = decision,
                                              !.unbilled = decision = "unbilled"] IN
       IF decision = "unbilled" \/ t.seconds = 0
         THEN CompleteTerminal(t)
         ELSE [t EXCEPT !.terminal = "recording"]

\* A session without audio is told to finish and waits for the provider.
Slip_BeginFinish(c) ==
  IF c.state # "streaming" THEN c
  ELSE LET f == [ClearTimers(c) EXCEPT !.state = "finishing"] IN
       IF f.seconds = 0 THEN [f EXCEPT !.state = "settled", !.provider = "gone"] ELSE f

\* beginFinish; without audio there is nothing for the provider to finish.
BeginFinish(c) ==
  IF c.state # "streaming" THEN c
  ELSE LET f == [ClearTimers(c) EXCEPT !.state = "finishing"] IN
       IF f.seconds = 0
         THEN BeginTerminal([f EXCEPT !.provider = "gone"], "complete")
         ELSE f

\* A start that failed keeps its timers.
Slip_ForceClose(c) == Abort([c EXCEPT !.state = "closed"])

ForceClose(c) == Abort([ClearTimers(c) EXCEPT !.state = "closed"])

\* The route gives up a client it cannot reach.
AbandonUnreachableClient(c) ==
  LET d == AbortStarting(Closed(c)) IN
  IF HasSession(d) THEN BeginTerminal(d, "silent") ELSE d

\* onReady and onTranscript.
ForwardOrAbandon(c, kind) ==
  IF c.route = "closed" THEN c
  ELSE IF Sendable(c) THEN SendEvent(c, kind)
  ELSE AbandonUnreachableClient(SendEvent(c, kind))

-----------------------------------------------------------------------------
(* The service. *)

OfUser(set, u) == {s \in set : UserOf[s] = u}

\* The slot is freed before the usage is written.
Slip_Released(new) ==
  {s \in Sockets : \/ new[s].terminal # "none" /\ conn[s].terminal = "none"
                   \/ new[s].step = "failed" /\ conn[s].step # "failed"}

\* release(), for the sessions whose terminal or whose failed start reached it.
Released(new) ==
  {s \in Sockets : \/ new[s].terminal = "done" /\ conn[s].terminal # "done"
                   \/ new[s].step = "failed" /\ conn[s].step # "failed"}

Release(set) ==
  /\ active' = active \ set
  /\ perUser' = [u \in Users |-> perUser[u] - Cardinality(OfUser(set \cap active, u))]

SettleAll(new) ==
  /\ conn' = new
  /\ Release(Released(new))

Settle(s, c) == SettleAll([conn EXCEPT ![s] = c])

\* throwIfAtCapacity.
AtCapacity(u) ==
  \/ Cardinality(active) >= MaxTotal
  \/ perUser[u] >= MaxPerUser

\* start() has thrown: its slot is released, its controller closed, and the
\* route answers unless it has closed meanwhile.
StartFails(c) ==
  LET f == [ForceClose(c) EXCEPT !.step = "failed"] IN
  IF f.route = "closed" THEN f ELSE BeginRouteError(f)

\* controller.connect() up to the provider's reply.
Dial(c) ==
  IF c.signal \/ c.aborted \/ c.state = "closed"
    THEN StartFails(c)
    ELSE [c EXCEPT !.step = "connect", !.provider = "connecting"]

-----------------------------------------------------------------------------
(* A socket opens and sends its first frame. *)

\* After beginShutdown() the listener runs as it is registered.
OpenSocket(s) ==
  /\ conn[s].route = "unopened"
  /\ LET c == [conn[s] EXCEPT !.route = "awaiting_start", !.socket = "open"] IN
     Settle(s, IF disposed THEN Terminate(c, "error") ELSE c)
  /\ UNCHANGED <<shutdown, usage>>

StartTimeout(s) ==
  /\ conn[s].route = "awaiting_start"
  /\ Settle(s, Terminate(conn[s], "error"))
  /\ UNCHANGED <<shutdown, usage>>

\* The first frame is not a start frame.
BadFirstFrame(s) ==
  /\ conn[s].route = "awaiting_start"
  /\ Settle(s, BeginRouteError([conn[s] EXCEPT !.route = "starting"]))
  /\ UNCHANGED <<shutdown, usage>>

\* A start frame is refused, or takes its slot before anything is awaited.
StartFrame(s) ==
  /\ conn[s].route = "awaiting_start"
  /\ LET c == [conn[s] EXCEPT !.route = "starting"]
         u == UserOf[s] IN
     IF disposed \/ AtCapacity(u)
       THEN Settle(s, BeginRouteError(c))
       ELSE /\ conn' = [conn EXCEPT ![s] = [c EXCEPT !.step = "usage", !.state = "streaming"]]
            /\ active' = active \cup {s}
            /\ perUser' = [perUser EXCEPT ![u] = @ + 1]
  /\ UNCHANGED <<shutdown, usage>>

\* A second frame while start() is under way.
EarlyFrame(s) ==
  /\ conn[s].route = "starting"
  /\ Settle(s, BeginRouteError(conn[s]))
  /\ UNCHANGED <<shutdown, usage>>

-----------------------------------------------------------------------------
(* The start. *)

\* The grant is the session's cap alone.
Slip_ReadUsage(s) ==
  /\ conn[s].step = "usage"
  /\ conn' = [conn EXCEPT ![s].step = "read",
                          ![s].grant = IF used[UserOf[s]] < DailyLimit THEN Grant ELSE 0]
  /\ UNCHANGED <<active, perUser, shutdown, usage>>

\* The database reads today's seconds; the reply comes back later.
ReadUsage(s) ==
  /\ conn[s].step = "usage"
  /\ conn' = [conn EXCEPT ![s].step = "read",
                          ![s].grant = Least(MaxSession, Most(0, DailyLimit - used[UserOf[s]]))]
  /\ UNCHANGED <<active, perUser, shutdown, usage>>

\* The usage is known: the start is refused, or awaits the project's glossary,
\* or without a project connects.
Admit(s, project) ==
  /\ conn[s].step = "read"
  /\ LET c == conn[s] IN
     Settle(s, IF disposed \/ c.signal \/ c.grant = 0 THEN StartFails(c)
               ELSE IF project THEN [c EXCEPT !.step = "terms"]
               ELSE Dial(c))
  /\ UNCHANGED <<shutdown, usage>>

GlossaryReplies(s) ==
  /\ conn[s].step = "terms"
  /\ Settle(s, IF disposed \/ conn[s].signal THEN StartFails(conn[s]) ELSE Dial(conn[s]))
  /\ UNCHANGED <<shutdown, usage>>

\* The database or the glossary fails.
ReadFails(s) ==
  /\ conn[s].step \in {"usage", "read", "terms"}
  /\ Settle(s, StartFails(conn[s]))
  /\ UNCHANGED <<shutdown, usage>>

\* connect() resumes with a provider; start() returns and the route streams.
ProviderConnects(s) ==
  /\ conn[s].provider = "connecting"
  /\ LET open == [conn[s] EXCEPT !.provider = "open"]
         ready == [ForwardOrAbandon(open, "ready") EXCEPT !.wallClock = TRUE, !.deadline = TRUE]
         live == [ready EXCEPT !.step = "live"] IN
     Settle(s, IF open.state = "closed" \/ open.signal \/ open.aborted THEN StartFails(open)
               ELSE IF disposed \/ ready.signal THEN StartFails(ready)
               ELSE IF live.route = "closed" THEN BeginTerminal(live, "silent")
               ELSE [live EXCEPT !.route = "streaming"])
  /\ UNCHANGED <<shutdown, usage>>

\* The provider refuses, times out, or gives way to an abort.
ProviderRefuses(s) ==
  /\ conn[s].provider = "connecting"
  /\ Settle(s, StartFails([conn[s] EXCEPT !.provider = "gone"]))
  /\ UNCHANGED <<shutdown, usage>>

-----------------------------------------------------------------------------
(* The client, once its session streams. *)

\* The byte cap of the session is not applied.
Slip_AudioAccepted(s, reached) ==
  /\ conn[s].route = "streaming"
  /\ conn[s].state = "streaming"
  /\ LET c == [conn[s] EXCEPT !.seconds = @ + 1, !.deadline = TRUE] IN
     Settle(s, IF reached THEN BeginFinish(c) ELSE c)
  /\ UNCHANGED <<shutdown, usage>>

\* A frame is sent on; the one that reaches the limit finishes the session.
AudioAccepted(s, reached) ==
  /\ conn[s].route = "streaming"
  /\ conn[s].state = "streaming"
  /\ conn[s].seconds < conn[s].grant
  /\ reached => conn[s].seconds + 1 = conn[s].grant
  /\ LET c == [conn[s] EXCEPT !.seconds = @ + 1, !.deadline = TRUE] IN
     Settle(s, IF reached THEN BeginFinish(c) ELSE c)
  /\ UNCHANGED <<shutdown, usage>>

\* A frame of which nothing fits.
AudioBeyondLimit(s) ==
  /\ conn[s].route = "streaming"
  /\ conn[s].state = "streaming"
  /\ conn[s].seconds = conn[s].grant
  /\ Settle(s, BeginFinish(conn[s]))
  /\ UNCHANGED <<shutdown, usage>>

\* A misaligned frame, one ahead of the pace, or one the provider would not take.
AudioRefused(s) ==
  /\ conn[s].route = "streaming"
  /\ conn[s].state = "streaming"
  /\ Settle(s, BeginTerminal(conn[s], "error"))
  /\ UNCHANGED <<shutdown, usage>>

\* terminateActive: a bad frame while streaming, or audio after finish.
BadFrame(s) ==
  /\ conn[s].route \in {"streaming", "finishing"}
  /\ Settle(s, BeginTerminal([Closed(conn[s]) EXCEPT !.after = "terminate"], "silent"))
  /\ UNCHANGED <<shutdown, usage>>

ClientFinishes(s) ==
  /\ conn[s].route = "streaming"
  /\ Settle(s, BeginFinish([conn[s] EXCEPT !.route = "finishing"]))
  /\ UNCHANGED <<shutdown, usage>>

ClientCancels(s) ==
  /\ conn[s].route = "streaming"
  /\ Settle(s, BeginTerminal([conn[s] EXCEPT !.route = "closed", !.after = "cancel"], "silent"))
  /\ UNCHANGED <<shutdown, usage>>

\* More than outboundBufferMaxBytes wait to be sent.
ClientStalls(s) ==
  /\ Sendable(conn[s])
  /\ conn' = [conn EXCEPT ![s].socket = "stalled"]
  /\ UNCHANGED <<active, perUser, shutdown, usage>>

\* The peer has gone, or has answered our close.
Disconnect(s) ==
  /\ conn[s].socket \notin {"none", "closed"}
  /\ LET c == AbortStarting(Closed([conn[s] EXCEPT !.socket = "closed"])) IN
     Settle(s, IF HasSession(c) THEN BeginTerminal(c, "silent") ELSE c)
  /\ UNCHANGED <<shutdown, usage>>

-----------------------------------------------------------------------------
(* The provider. *)

\* A result: progress, and a transcript to forward unless it is empty.
Transcript(s, n, shown) ==
  /\ conn[s].provider = "open"
  /\ n \in conn[s].seconds .. conn[s].grant
  /\ LET c == [conn[s] EXCEPT !.seconds = n] IN
     Settle(s, IF shown THEN ForwardOrAbandon(c, "transcript") ELSE c)
  /\ UNCHANGED <<shutdown, usage>>

\* Text we could not send ends the session; progress beyond its limit ends it
\* without billing.
BadTranscript(s, decision) ==
  /\ conn[s].provider = "open"
  /\ decision \in {"error", "unbilled"}
  /\ Settle(s, BeginTerminal(conn[s], decision))
  /\ UNCHANGED <<shutdown, usage>>

\* The connection fails; malformed output is not billed.
ProviderFails(s, decision) ==
  /\ conn[s].provider = "open"
  /\ decision \in {"error", "unbilled"}
  /\ Settle(s, BeginTerminal([conn[s] EXCEPT !.provider = "gone"], decision))
  /\ UNCHANGED <<shutdown, usage>>

\* The provider is done, whether or not it was asked to finish.
ProviderFinished(s) ==
  /\ conn[s].provider = "open"
  /\ LET c == [conn[s] EXCEPT !.provider = "gone"] IN
     Settle(s, IF c.state \in {"finishing", "settled"} THEN BeginTerminal(c, "complete") ELSE c)
  /\ UNCHANGED <<shutdown, usage>>

\* provider.finish() resolves, which ends its timeout.
FinishResolves(s) ==
  /\ conn[s].state = "finishing"
  /\ conn[s].provider = "open"
  /\ conn' = [conn EXCEPT ![s].state = "settled"]
  /\ UNCHANGED <<active, perUser, shutdown, usage>>

\* provider.finish() fails or times out.
FinishFails(s) ==
  /\ conn[s].state = "finishing"
  /\ Settle(s, BeginTerminal(conn[s], "error"))
  /\ UNCHANGED <<shutdown, usage>>

-----------------------------------------------------------------------------
(* Timers, the usage write, and midnight. *)

WallClock(s) ==
  /\ conn[s].wallClock
  /\ Settle(s, BeginFinish(conn[s]))
  /\ UNCHANGED <<shutdown, usage>>

AudioDeadline(s) ==
  /\ conn[s].deadline
  /\ Settle(s, BeginTerminal(conn[s], "error"))
  /\ UNCHANGED <<shutdown, usage>>

\* recordUsage() has written the seconds, or failed to.
UsageRecorded(s, written) ==
  /\ conn[s].terminal = "recording"
  /\ LET seconds == conn[s].seconds IN
     IF written
       THEN /\ Settle(s, CompleteTerminal([conn[s] EXCEPT !.billed = @ + seconds]))
            /\ used' = [used EXCEPT ![UserOf[s]] = @ + seconds]
       ELSE /\ Settle(s, CompleteTerminal([conn[s] EXCEPT !.unbilled = TRUE]))
            /\ UNCHANGED used
  /\ UNCHANGED <<shutdown, day>>

\* Usage is counted under the date of the day.
Midnight ==
  /\ day < MaxDays
  /\ day' = day + 1
  /\ used' = [u \in Users |-> 0]
  /\ UNCHANGED <<conn, active, perUser, shutdown>>

-----------------------------------------------------------------------------
(* Shutdown. *)

\* What beginShutdown() and dispose() do to a socket and its session.
ShutDown(c) ==
  IF c.route = "awaiting_start" THEN Terminate(c, "error")
  ELSE IF Starting(c) THEN Abort(c)
  ELSE IF HasSession(c) THEN BeginTerminal(c, "error")
  ELSE c

Dispose ==
  /\ ~disposed
  /\ SettleAll([s \in Sockets |-> ShutDown(conn[s])])
  /\ disposal' = "waiting"
  /\ awaited' = active
  /\ UNCHANGED usage

\* Each session's closed promise, or its terminal, has settled.
DisposeSettles ==
  /\ disposal = "waiting"
  /\ \A s \in awaited : conn[s].terminal = "done" \/ conn[s].step = "failed"
  /\ disposal' = IF active = {} THEN "done" ELSE "failed"
  /\ UNCHANGED <<conn, active, perUser, awaited, usage>>

DisposeTimesOut ==
  /\ disposal = "waiting"
  /\ disposal' = "failed"
  /\ UNCHANGED <<conn, active, perUser, awaited, usage>>

-----------------------------------------------------------------------------
Start(s) ==
  \/ OpenSocket(s) \/ StartTimeout(s) \/ BadFirstFrame(s) \/ StartFrame(s) \/ EarlyFrame(s)
  \/ ReadUsage(s) \/ (\E project \in BOOLEAN : Admit(s, project))
  \/ GlossaryReplies(s) \/ ReadFails(s)
  \/ ProviderConnects(s) \/ ProviderRefuses(s)

Client(s) ==
  \/ \E reached \in BOOLEAN : AudioAccepted(s, reached)
  \/ AudioBeyondLimit(s) \/ AudioRefused(s) \/ BadFrame(s)
  \/ ClientFinishes(s) \/ ClientCancels(s) \/ ClientStalls(s) \/ Disconnect(s)

Provider(s) ==
  \/ \E n \in 0 .. Grant, shown \in BOOLEAN : Transcript(s, n, shown)
  \/ \E decision \in {"error", "unbilled"} : BadTranscript(s, decision) \/ ProviderFails(s, decision)
  \/ ProviderFinished(s) \/ FinishResolves(s) \/ FinishFails(s)

Timer(s) ==
  \/ WallClock(s) \/ AudioDeadline(s)
  \/ \E written \in BOOLEAN : UsageRecorded(s, written)

Next ==
  \/ \E s \in Sockets : Start(s) \/ Client(s) \/ Provider(s) \/ Timer(s)
  \/ Midnight \/ Dispose \/ DisposeSettles \/ DisposeTimesOut

Spec == Init /\ [][Next]_vars

\* Replies come, timers fire, a closing socket closes, and a provider that has
\* resolved finish() reports that it is done.
Fairness ==
  \A s \in Sockets :
    /\ WF_vars(StartTimeout(s))
    /\ WF_vars(ReadUsage(s) \/ ReadFails(s))
    /\ WF_vars((\E project \in BOOLEAN : Admit(s, project)) \/ GlossaryReplies(s) \/ ReadFails(s))
    /\ WF_vars(ProviderConnects(s) \/ ProviderRefuses(s))
    /\ WF_vars(WallClock(s))
    /\ WF_vars(FinishResolves(s) \/ FinishFails(s))
    /\ WF_vars(conn[s].state = "settled" /\ ProviderFinished(s))
    /\ WF_vars(\E written \in BOOLEAN : UsageRecorded(s, written))

FairSpec == Spec /\ Fairness

-----------------------------------------------------------------------------
(* Properties. *)

Holding(c) == c.step \notin {"none", "failed"} /\ c.terminal # "done"

\* A slot is held from the admission of a session until its start has failed or
\* its terminal is over; the tally of each user counts them, and no ceiling is
\* passed, starts under way included.
SlotsAreExact ==
  /\ active = {s \in Sockets : Holding(conn[s])}
  /\ \A u \in Users : perUser[u] = Cardinality(OfUser(active, u)) /\ perUser[u] <= MaxPerUser
  /\ Cardinality(active) <= MaxTotal

\* A provider connection and an armed timer belong to a session that holds a
\* slot, and a streaming session has both timers to end it.
NothingIsOrphaned ==
  \A s \in Sockets : LET c == conn[s] IN
    /\ (c.provider \in {"connecting", "open"} \/ c.wallClock \/ c.deadline) => s \in active
    /\ (HasSession(c) /\ c.state = "streaming") => (c.wallClock /\ c.deadline)

\* However many terminals a session meets, its seconds are written once, by the
\* first, unless that one bills nothing or the write fails.
BilledOnce ==
  \A s \in Sockets : LET c == conn[s] IN
    c.billed = IF c.terminal = "done" /\ ~c.unbilled THEN c.seconds ELSE 0

\* The budget is read and not reserved, but sessions that did not see each
\* other's usage hold slots at the same time: a user passes the daily limit by
\* at most a session for each of the others.
OvershootIsBounded ==
  \A u \in Users : used[u] <= DailyLimit + (MaxPerUser - 1) * Grant

\* A socket sees ready before transcripts and one terminal event at most; the
\* server closes none without that event, except one whose client cancelled or
\* stopped reading; and none stays open behind a closed route, unless a usage
\* write that will close it is under way.
ClosedForAReason ==
  \A s \in Sockets : LET c == conn[s] IN
    /\ c.wire # "broken"
    /\ (c.socket = "closing" /\ c.wire # "terminal") => c.after = "cancel"
    /\ (c.route = "closed" /\ c.socket \in {"open", "stalled"}) => c.terminal = "recording"

\* When dispose() resolves, no session holds a slot and no socket is open: what
\* was starting or waiting for a first frame has been answered too.
DrainIsComplete ==
  disposal = "done" =>
    /\ active = {}
    /\ \A s \in Sockets : conn[s].route \in {"unopened", "closed"} /\ conn[s].socket \notin {"open", "stalled"}

\* Every route closes and every slot is freed, whatever the client does.
EverySessionEnds ==
  \A s \in Sockets :
    (conn[s].route # "unopened") ~> (conn[s].route = "closed" /\ s \notin active)

\* Whatever a session holds, of the ceilings, the provider and the timers, it gives
\* back (realtime-transcription-service.ts:77, 128).
SlotsAreHeld == SlotsAreExact /\ NothingIsOrphaned

\* A user's seconds are written once for each session, and the daily limit is passed
\* only by what was granted at the same time (realtime-transcription-service.ts:97,
\* realtime-session-controller.ts:286).
BillingIsExact == BilledOnce /\ OvershootIsBounded

\* No socket ends without its event or outlives its session, a shutdown included
\* (voice-realtime-socket.ts:244, realtime-transcription-service.ts:161).
SocketsEndWell == ClosedForAReason /\ DrainIsComplete
=============================================================================
