----------------------- MODULE RealtimeSessionProofs -----------------------
(***************************************************************************)
(* Proofs about RealtimeSession for any number of sockets, users and days, *)
(* and any limits that its assumption allows.                              *)
(*                                                                         *)
(* What an operator does to the record of one socket is proved about the   *)
(* record alone (Sound, Moves); slots, budget and shutdown then need only  *)
(* what a step may move.                                                   *)
(***************************************************************************)
EXTENDS RealtimeSession, FiniteSetTheorems, TLAPS

\* What the client has seen agrees with the route: only an open socket is written to,
\* and a closed route leaves it open only if a handler will close it.
FaceFits(c) ==
  /\ c.wire # "broken"
  /\ c.socket = "open" => c.wire = IF c.step = "live" THEN "ready" ELSE "silent"
  /\ c.socket = "closing" /\ c.wire # "terminal" => c.after = "cancel"
  /\ c.route \notin {"unopened", "closed"} =>
       c.socket \in {"open", "stalled"} /\ c.terminalSent = FALSE /\ c.after = "none"
  /\ c.route = "closed" /\ c.socket \in {"open", "stalled"} => c.after # "none"

\* The route and the provider's connection follow the start.
StartFits(c) ==
  /\ c.route = "unopened" => c = Unopened
  /\ c.route \in {"unopened", "awaiting_start"} => c.step = "none"
  /\ c.route = "starting" => Starting(c)
  /\ c.route \in {"streaming", "finishing"} => c.step = "live"
  /\ c.step # "live" => /\ c.wallClock = FALSE /\ c.deadline = FALSE
                        /\ c.seconds = 0 /\ c.terminal = "none"
                        /\ c.state \notin {"finishing", "settled"}
  /\ c.step \in {"none", "usage"} => c.grant = 0
  /\ c.step \in {"none", "usage", "read", "terms"} => c.provider = "none"
  /\ c.step = "connect" => c.provider = "connecting"
  /\ c.step = "failed" => c.provider \in {"none", "gone"}
  /\ c.step = "live" => c.provider \in {"open", "gone"}
  /\ c.step = "live" /\ c.state = "streaming" => c.wallClock = TRUE /\ c.deadline = TRUE

\* A terminal stops everything that could start another or bring more seconds, and
\* closes the route, unless it emits nothing and finds it closed.
EndFits(c) ==
  /\ c.seconds <= c.grant
  /\ c.billed = IF c.terminal = "done" /\ c.unbilled = FALSE THEN c.seconds ELSE 0
  /\ c.terminal # "none" => /\ c.state = "closed" /\ c.provider = "gone"
                            /\ c.wallClock = FALSE /\ c.deadline = FALSE
  /\ c.terminal = "recording" => /\ c.unbilled = FALSE
                                 /\ c.decision = "silent" => c.route = "closed"
  /\ c.terminal = "done" => c.route = "closed" /\ c.socket \notin {"open", "stalled"}

\* A socket stays open behind a closed route only while a usage write is under way.
Attended(c) == c.route = "closed" /\ c.socket \in {"open", "stalled"} => c.terminal = "recording"

Goes(c) == c \in Conn /\ FaceFits(c) /\ StartFits(c) /\ EndFits(c)

Sound(c) == Goes(c) /\ Attended(c)

\* Sessions that have been granted seconds and have not been billed for them.
Granted(u) == {s \in Sockets : UserOf[s] = u /\ Holding(conn[s]) /\ conn[s].grant > 0}

Bound == DailyLimit + (MaxPerUser - 1) * Grant

\* All but one of them may bill a whole grant, and that one what it was granted.
BudgetIsKept ==
  \A u \in Users :
    \/ used[u] + Cardinality(Granted(u)) * Grant <= Bound
    \/ \E s \in Granted(u) :
         used[u] + conn[s].grant + (Cardinality(Granted(u)) - 1) * Grant <= Bound

\* After the shutdown has begun no socket waits for its first frame, and a slot that
\* was freed is not taken again.
ShutdownFits ==
  /\ disposed => \A s \in Sockets : conn[s].route # "awaiting_start"
  /\ disposal = "done" => active = {}

IInv ==
  /\ TypeOK
  /\ \A s \in Sockets : Sound(conn[s])
  /\ SlotsAreExact
  /\ BudgetIsKept
  /\ ShutdownFits

-----------------------------------------------------------------------------
(* What the operators make of a record. *)

SameBody(c, d) ==
  /\ d.step = c.step /\ d.signal = c.signal /\ d.grant = c.grant
  /\ d.state = c.state /\ d.aborted = c.aborted
  /\ d.wallClock = c.wallClock /\ d.deadline = c.deadline
  /\ d.terminal = c.terminal /\ d.decision = c.decision /\ d.provider = c.provider
  /\ d.seconds = c.seconds /\ d.billed = c.billed /\ d.unbilled = c.unbilled

SameFace(c, d) ==
  /\ d.route = c.route /\ d.terminalSent = c.terminalSent /\ d.after = c.after
  /\ d.socket = c.socket /\ d.wire = c.wire

\* What a closing socket becomes, what its client is told, and what an abort makes of
\* a connection.
Shut(socket) ==
  IF socket = "open" THEN "closing" ELSE IF socket = "stalled" THEN "dropped" ELSE socket

Told(c, kind) == IF c.socket = "open" THEN Extended(c.wire, kind) ELSE c.wire

Hung(provider) == IF provider = "open" THEN "gone" ELSE provider

SameBill(c, d) == d.grant = c.grant /\ d.seconds = c.seconds /\ d.billed = c.billed

LEMMA ClosedIs ==
  ASSUME NEW c \in Conn, NEW d, d = Closed(c)
  PROVE  /\ d \in Conn /\ SameBody(c, d)
         /\ d.route = "closed" /\ d.terminalSent = TRUE
         /\ d.after = c.after /\ d.socket = c.socket /\ d.wire = c.wire
BY DEF Closed, Conn, SameBody

LEMMA CloseSocketIs ==
  ASSUME NEW c \in Conn, NEW d, d = CloseSocket(c)
  PROVE  /\ d \in Conn /\ SameBody(c, d)
         /\ d.route = c.route /\ d.terminalSent = c.terminalSent /\ d.after = c.after
         /\ d.wire = c.wire
         /\ d.socket = Shut(c.socket)
BY DEF CloseSocket, Conn, SameBody, Shut

LEMMA SendEventIs ==
  ASSUME NEW c \in Conn, NEW kind, NEW d, d = SendEvent(c, kind)
  PROVE  /\ d \in Conn /\ SameBody(c, d)
         /\ d.route = c.route /\ d.terminalSent = c.terminalSent /\ d.after = c.after
         /\ d.socket = IF c.socket = "stalled" THEN "dropped" ELSE c.socket
         /\ d.wire = Told(c, kind)
<1>1. CASE c.socket = "open"
  <2>1. d = [c EXCEPT !.wire = Extended(c.wire, kind)]
    BY <1>1 DEF SendEvent, Sendable
  <2>2. Extended(c.wire, kind) \in {"ready", "terminal", "broken"}
    BY DEF Extended
  <2> QED BY <1>1, <2>1, <2>2 DEF Conn, SameBody, Told
<1>2. CASE c.socket # "open"
  <2>1. d = CloseSocket(c)
    BY <1>2 DEF SendEvent, Sendable
  <2> QED BY <1>2, <2>1, CloseSocketIs DEF Told, Shut
<1> QED BY <1>1, <1>2

\* The route has closed the connection with a last event.
Terminated(c, kind, d) ==
  /\ d \in Conn /\ SameBody(c, d)
  /\ d.route = "closed" /\ d.terminalSent = TRUE /\ d.after = c.after
  /\ d.socket = Shut(c.socket)
  /\ d.wire = Told(c, kind)

LEMMA TerminateIs ==
  ASSUME NEW c \in Conn, NEW kind, NEW d, d = Terminate(c, kind)
  PROVE  Terminated(c, kind, d)
<1>1. PICK c1 : c1 = Closed(c)
  OBVIOUS
<1>2. PICK c2 : c2 = SendEvent(c1, kind)
  OBVIOUS
<1>3. d = CloseSocket(c2)
  BY <1>1, <1>2 DEF Terminate
<1>4. /\ c1 \in Conn /\ SameBody(c, c1)
      /\ c1.route = "closed" /\ c1.terminalSent = TRUE
      /\ c1.after = c.after /\ c1.socket = c.socket /\ c1.wire = c.wire
  BY <1>1, ClosedIs
<1>5. /\ c2 \in Conn /\ SameBody(c1, c2)
      /\ c2.route = "closed" /\ c2.terminalSent = TRUE /\ c2.after = c.after
      /\ c2.socket = IF c.socket = "stalled" THEN "dropped" ELSE c.socket
      /\ c2.wire = Told(c, kind)
  BY <1>2, <1>4, SendEventIs DEF Told
<1>6. /\ d \in Conn /\ SameBody(c2, d)
      /\ d.route = "closed" /\ d.terminalSent = TRUE /\ d.after = c.after
      /\ d.wire = c2.wire
      /\ d.socket = Shut(c2.socket)
  BY <1>3, <1>5, CloseSocketIs
<1>7. SameBody(c, d)
  BY <1>4, <1>5, <1>6 DEF SameBody
<1> QED BY <1>5, <1>6, <1>7 DEF Shut, Terminated

\* An error may follow nothing or ready, a completion only ready.
LEMMA Extensions ==
  ASSUME NEW wire
  PROVE  /\ wire \in {"silent", "ready"} => Extended(wire, "error") = "terminal"
         /\ wire = "ready" => /\ Extended(wire, "complete") = "terminal"
                              /\ Extended(wire, "transcript") = "ready"
         /\ wire = "silent" => Extended(wire, "ready") = "ready"
BY DEF Extended

\* The controller has let go of its provider.
Aborted(c, d) ==
  /\ d \in Conn /\ SameFace(c, d) /\ SameBill(c, d)
  /\ d.step = c.step /\ d.signal = c.signal
  /\ d.state = c.state /\ d.aborted = TRUE
  /\ d.wallClock = c.wallClock /\ d.deadline = c.deadline
  /\ d.terminal = c.terminal /\ d.decision = c.decision /\ d.unbilled = c.unbilled
  /\ d.provider = Hung(c.provider)

LEMMA AbortIs ==
  ASSUME NEW c \in Conn, NEW d, d = Abort(c)
  PROVE  Aborted(c, d)
<1>1. PICK x : x = Hung(c.provider)
  OBVIOUS
<1>2. x \in {"none", "connecting", "open", "gone"}
  BY <1>1 DEF Conn, Hung
<1>3. d = [c EXCEPT !.aborted = TRUE, !.provider = x]
  BY <1>1 DEF Abort, Hung
<1>4. d \in Conn
  <2>1. PICK e : e = [c EXCEPT !.aborted = TRUE]
    OBVIOUS
  <2>2. e \in Conn /\ d = [e EXCEPT !.provider = x]
    BY <1>3, <2>1 DEF Conn
  <2> QED BY <1>2, <2>2 DEF Conn
<1>5. d.aborted = TRUE /\ d.provider = x
  BY <1>3 DEF Conn
<1>6. SameFace(c, d) /\ SameBill(c, d)
  BY <1>3 DEF Conn, SameFace, SameBill
<1> QED BY <1>1, <1>3, <1>4, <1>5, <1>6 DEF Conn, Aborted

LEMMA ClearTimersIs ==
  ASSUME NEW c \in Conn, NEW d, d = ClearTimers(c)
  PROVE  /\ d \in Conn /\ SameFace(c, d) /\ SameBill(c, d)
         /\ d.step = c.step /\ d.signal = c.signal
         /\ d.state = c.state /\ d.aborted = c.aborted
         /\ d.wallClock = FALSE /\ d.deadline = FALSE
         /\ d.terminal = c.terminal /\ d.decision = c.decision /\ d.unbilled = c.unbilled
         /\ d.provider = c.provider
BY DEF ClearTimers, Conn, SameFace, SameBill


\* Single fields.
SameRest(c, d) ==
  /\ d.signal = c.signal /\ d.state = c.state /\ d.aborted = c.aborted
  /\ d.terminal = c.terminal /\ d.decision = c.decision /\ d.unbilled = c.unbilled

SameTimers(c, d) == d.wallClock = c.wallClock /\ d.deadline = c.deadline

LEMMA StepIs ==
  ASSUME NEW c \in Conn,
         NEW x \in {"none", "usage", "read", "terms", "connect", "live", "failed"},
         NEW d, d = [c EXCEPT !.step = x]
  PROVE  /\ d \in Conn /\ SameFace(c, d) /\ SameBill(c, d)
         /\ SameRest(c, d) /\ SameTimers(c, d)
         /\ d.step = x /\ d.provider = c.provider
BY DEF Conn, SameFace, SameBill, SameRest, SameTimers

LEMMA ProviderIs ==
  ASSUME NEW c \in Conn, NEW x \in {"none", "connecting", "open", "gone"},
         NEW d, d = [c EXCEPT !.provider = x]
  PROVE  /\ d \in Conn /\ SameFace(c, d) /\ SameBill(c, d)
         /\ SameRest(c, d) /\ SameTimers(c, d)
         /\ d.step = c.step /\ d.provider = x
BY DEF Conn, SameFace, SameBill, SameRest, SameTimers

LEMMA RouteIs ==
  ASSUME NEW c \in Conn,
         NEW x \in {"unopened", "awaiting_start", "starting", "streaming", "finishing", "closed"},
         NEW d, d = [c EXCEPT !.route = x]
  PROVE  /\ d \in Conn /\ SameBody(c, d)
         /\ d.route = x /\ d.terminalSent = c.terminalSent /\ d.after = c.after
         /\ d.socket = c.socket /\ d.wire = c.wire
BY DEF Conn, SameBody

LEMMA TimersAre ==
  ASSUME NEW c \in Conn, NEW d, d = [c EXCEPT !.wallClock = TRUE, !.deadline = TRUE]
  PROVE  /\ d \in Conn /\ SameFace(c, d) /\ SameBill(c, d) /\ SameRest(c, d)
         /\ d.step = c.step /\ d.provider = c.provider
         /\ d.wallClock = TRUE /\ d.deadline = TRUE
<1>1. PICK e : e = [c EXCEPT !.wallClock = TRUE]
  OBVIOUS
<1>2. e \in Conn /\ d = [e EXCEPT !.deadline = TRUE]
  BY <1>1 DEF Conn
<1>3. d \in Conn
  BY <1>2 DEF Conn
<1>4. SameFace(c, d) /\ SameBill(c, d) /\ SameRest(c, d)
  BY DEF Conn, SameFace, SameBill, SameRest
<1>5. d.step = c.step /\ d.provider = c.provider /\ d.wallClock = TRUE /\ d.deadline = TRUE
  BY DEF Conn
<1> QED BY <1>3, <1>4, <1>5

\* Everything but the signal and the connection stays.
LEMMA AbortStartingIs ==
  ASSUME NEW c \in Conn, NEW d, d = AbortStarting(c)
  PROVE  /\ d \in Conn /\ SameFace(c, d) /\ SameBill(c, d)
         /\ d.step = c.step
         /\ d.state = c.state /\ d.aborted = c.aborted
         /\ d.wallClock = c.wallClock /\ d.deadline = c.deadline
         /\ d.terminal = c.terminal /\ d.decision = c.decision /\ d.unbilled = c.unbilled
         /\ d.provider = IF Starting(c) THEN Hung(c.provider) ELSE c.provider
         /\ d.signal = IF Starting(c) THEN TRUE ELSE c.signal
<1>1. CASE Starting(c)
  <2>1. PICK x : x = Hung(c.provider)
    OBVIOUS
  <2>2. x \in {"none", "connecting", "open", "gone"}
    BY <2>1 DEF Conn, Hung
  <2>3. d = [c EXCEPT !.signal = TRUE, !.provider = x]
    BY <1>1, <2>1 DEF AbortStarting, Hung
  <2>4. d \in Conn
    <3>1. PICK e : e = [c EXCEPT !.signal = TRUE]
      OBVIOUS
    <3>2. e \in Conn /\ d = [e EXCEPT !.provider = x]
      BY <2>3, <3>1 DEF Conn
    <3> QED BY <2>2, <3>2 DEF Conn
  <2>5. d.signal = TRUE /\ d.provider = x
    BY <2>3 DEF Conn
  <2>6. SameFace(c, d) /\ SameBill(c, d)
    BY <2>3 DEF Conn, SameFace, SameBill
  <2> QED BY <1>1, <2>1, <2>3, <2>4, <2>5, <2>6 DEF Conn
<1>2. CASE ~Starting(c)
  BY <1>2 DEF AbortStarting, SameFace, SameBill
<1> QED BY <1>1, <1>2

\* The route answers with an error and closes.
RouteErrored(c, d) ==
  /\ d \in Conn /\ SameBill(c, d)
  /\ d.step = c.step
  /\ d.state = c.state /\ d.aborted = c.aborted
  /\ d.wallClock = c.wallClock /\ d.deadline = c.deadline
  /\ d.terminal = c.terminal /\ d.decision = c.decision /\ d.unbilled = c.unbilled
  /\ d.provider = IF Starting(c) THEN Hung(c.provider) ELSE c.provider
  /\ d.route = "closed" /\ d.terminalSent = TRUE /\ d.after = c.after
  /\ d.socket = Shut(c.socket)
  /\ d.wire = Told(c, "error")

LEMMA BeginRouteErrorIs ==
  ASSUME NEW c \in Conn, ~c.terminalSent, NEW d, d = BeginRouteError(c)
  PROVE  RouteErrored(c, d)
<1>1. PICK c1 : c1 = AbortStarting(c)
  OBVIOUS
<1>2. d = Terminate(c1, "error")
  BY <1>1 DEF BeginRouteError
<1>3. /\ c1 \in Conn /\ SameFace(c, c1) /\ SameBill(c, c1)
      /\ c1.step = c.step
      /\ c1.state = c.state /\ c1.aborted = c.aborted
      /\ c1.wallClock = c.wallClock /\ c1.deadline = c.deadline
      /\ c1.terminal = c.terminal /\ c1.decision = c.decision /\ c1.unbilled = c.unbilled
      /\ c1.provider = IF Starting(c) THEN Hung(c.provider) ELSE c.provider
  BY <1>1, AbortStartingIs
<1>4. Terminated(c1, "error", d)
  BY <1>2, <1>3, TerminateIs
<1> QED BY <1>3, <1>4 DEF RouteErrored, Terminated, SameBody, SameFace, SameBill, Told

\* A start that fails frees nothing but its own.
LEMMA ForceCloseIs ==
  ASSUME NEW c \in Conn, NEW d, d = ForceClose(c)
  PROVE  /\ d \in Conn /\ SameFace(c, d) /\ SameBill(c, d)
         /\ d.step = c.step /\ d.signal = c.signal
         /\ d.state = "closed" /\ d.wallClock = FALSE /\ d.deadline = FALSE
         /\ d.terminal = c.terminal /\ d.decision = c.decision /\ d.unbilled = c.unbilled
         /\ d.provider = Hung(c.provider)
<1>1. PICK c1 : c1 = ClearTimers(c)
  OBVIOUS
<1>2. PICK c2 : c2 = [c1 EXCEPT !.state = "closed"]
  OBVIOUS
<1>3. d = Abort(c2)
  BY <1>1, <1>2 DEF ForceClose
<1>4. /\ c1 \in Conn /\ SameFace(c, c1) /\ SameBill(c, c1)
      /\ c1.step = c.step /\ c1.signal = c.signal
      /\ c1.wallClock = FALSE /\ c1.deadline = FALSE
      /\ c1.terminal = c.terminal /\ c1.decision = c.decision /\ c1.unbilled = c.unbilled
      /\ c1.provider = c.provider
  BY <1>1, ClearTimersIs
<1>5. /\ c2 \in Conn /\ SameFace(c1, c2) /\ SameBill(c1, c2)
      /\ c2.step = c1.step /\ c2.signal = c1.signal /\ c2.state = "closed"
      /\ c2.wallClock = c1.wallClock /\ c2.deadline = c1.deadline
      /\ c2.terminal = c1.terminal /\ c2.decision = c1.decision /\ c2.unbilled = c1.unbilled
      /\ c2.provider = c1.provider
  BY <1>2, <1>4 DEF Conn, SameFace, SameBill
<1>6. Aborted(c2, d)
  BY <1>3, <1>5, AbortIs
<1> QED BY <1>4, <1>5, <1>6 DEF Aborted, SameFace, SameBill

-----------------------------------------------------------------------------
(* A terminal. *)

\* What a step may move: what is over stays over, and nobody starts or is granted more.
Keeps(c, d) ==
  /\ c.terminal = "done" => d.terminal = "done"
  /\ c.step = "failed" => d.step = "failed"
  /\ d.step = "none" <=> c.step = "none"
  /\ d.grant = c.grant

Moves(c, d) ==
  /\ Keeps(c, d)
  /\ d.route = "awaiting_start" => c.route = "awaiting_start"

LEMMA EmitTerminalIs ==
  ASSUME NEW c \in Conn, FaceFits(c), c.step = "live", c.route # "unopened",
         c.decision = "silent" => c.route = "closed", NEW d, d = EmitTerminal(c)
  PROVE  /\ d \in Conn /\ FaceFits(d) /\ SameBody(c, d) /\ d.route = "closed"
<1>1. CASE c.terminalSent = TRUE \/ c.decision = "silent"
  <2>1. d = c
    BY <1>1 DEF EmitTerminal
  <2>2. c.route = "closed"
    BY <1>1 DEF FaceFits
  <2> QED BY <2>1, <2>2 DEF SameBody
<1>2. CASE ~(c.terminalSent = TRUE \/ c.decision = "silent")
  <2>1. PICK kind : kind \in {"complete", "error"} /\ d = Terminate(c, kind)
    <3>1. c.terminalSent \in BOOLEAN
      BY DEF Conn
    <3> QED BY <1>2, <3>1 DEF EmitTerminal
  <2>2. /\ d \in Conn /\ SameBody(c, d)
        /\ d.route = "closed" /\ d.terminalSent = TRUE /\ d.after = c.after
        /\ d.socket = Shut(c.socket)
        /\ d.wire = Told(c, kind)
    <3>1. Terminated(c, kind, d)
      BY <2>1, TerminateIs
    <3> QED BY <3>1 DEF Terminated
  <2>3. c.socket = "open" => d.wire = "terminal"
    BY <2>1, <2>2, Extensions DEF FaceFits, Told
  <2>4. FaceFits(d)
    BY <2>2, <2>3 DEF FaceFits, Shut, Told
  <2> QED BY <2>2, <2>4
<1> QED BY <1>1, <1>2

LEMMA AfterCancelIs ==
  ASSUME NEW c \in Conn, FaceFits(c), c.step = "live", c.route = "closed",
         NEW d, d = AfterCancel(c)
  PROVE  /\ d \in Conn /\ FaceFits(d) /\ SameBody(c, d)
         /\ d.route = "closed" /\ d.socket \notin {"open", "stalled"}
<1>1. CASE c.after = "cancel"
  <2>1. d = CloseSocket(c)
    BY <1>1 DEF AfterCancel
  <2>2. /\ d \in Conn /\ SameBody(c, d)
        /\ d.route = c.route /\ d.terminalSent = c.terminalSent /\ d.after = c.after
        /\ d.wire = c.wire
        /\ d.socket = Shut(c.socket)
    BY <2>1, CloseSocketIs
  <2> QED BY <1>1, <2>2 DEF FaceFits, Shut
<1>2. CASE c.after = "terminate"
  <2>1. PICK c1 : c1 = SendEvent(c, "error")
    OBVIOUS
  <2>2. d = CloseSocket(c1)
    BY <1>2, <2>1 DEF AfterCancel
  <2>3. /\ c1 \in Conn /\ SameBody(c, c1)
        /\ c1.route = c.route /\ c1.terminalSent = c.terminalSent /\ c1.after = c.after
        /\ c1.socket = IF c.socket = "stalled" THEN "dropped" ELSE c.socket
        /\ c1.wire = Told(c, "error")
    BY <2>1, SendEventIs
  <2>4. c.socket = "open" => c1.wire = "terminal"
    BY <2>3, Extensions DEF FaceFits, Told
  <2>5. /\ d \in Conn /\ SameBody(c1, d)
        /\ d.route = c1.route /\ d.terminalSent = c1.terminalSent /\ d.after = c1.after
        /\ d.wire = c1.wire
        /\ d.socket = Shut(c1.socket)
    BY <2>2, <2>3, CloseSocketIs
  <2>6. FaceFits(d)
    BY <1>2, <2>3, <2>4, <2>5 DEF FaceFits, Shut, Told
  <2>7. SameBody(c, d)
    BY <2>3, <2>5 DEF SameBody
  <2> QED BY <2>3, <2>5, <2>6, <2>7 DEF Shut
<1>3. CASE c.after \notin {"cancel", "terminate"}
  <2>1. d = c
    BY <1>3 DEF AfterCancel
  <2>2. c.socket \notin {"open", "stalled"}
    BY <1>3 DEF FaceFits, Conn
  <2> QED BY <2>1, <2>2 DEF SameBody
<1> QED BY <1>1, <1>2, <1>3

LEMMA CompleteTerminalIs ==
  ASSUME NEW c \in Conn, FaceFits(c), c.step = "live", c.route # "unopened",
         c.decision = "silent" => c.route = "closed", NEW d, d = CompleteTerminal(c)
  PROVE  /\ d \in Conn /\ FaceFits(d) /\ SameBill(c, d)
         /\ d.route = "closed" /\ d.socket \notin {"open", "stalled"}
         /\ d.step = c.step /\ d.signal = c.signal
         /\ d.state = c.state /\ d.aborted = c.aborted
         /\ d.wallClock = c.wallClock /\ d.deadline = c.deadline
         /\ d.terminal = "done" /\ d.decision = "none" /\ d.unbilled = c.unbilled
         /\ d.provider = c.provider
<1>1. PICK c1 : c1 = EmitTerminal(c)
  OBVIOUS
<1>2. PICK c2 : c2 = AfterCancel(c1)
  OBVIOUS
<1>3. d = [c2 EXCEPT !.terminal = "done", !.decision = "none"]
  BY <1>1, <1>2 DEF CompleteTerminal
<1>4. c1 \in Conn /\ FaceFits(c1) /\ SameBody(c, c1) /\ c1.route = "closed"
  BY <1>1, EmitTerminalIs
<1>5. c1.step = "live"
  BY <1>4 DEF SameBody
<1>6. /\ c2 \in Conn /\ FaceFits(c2) /\ SameBody(c1, c2)
      /\ c2.route = "closed" /\ c2.socket \notin {"open", "stalled"}
  BY <1>2, <1>4, <1>5, AfterCancelIs
<1>7. /\ d \in Conn /\ SameFace(c2, d) /\ SameBill(c2, d)
      /\ d.step = c2.step /\ d.signal = c2.signal
      /\ d.state = c2.state /\ d.aborted = c2.aborted
      /\ d.wallClock = c2.wallClock /\ d.deadline = c2.deadline
      /\ d.terminal = "done" /\ d.decision = "none" /\ d.unbilled = c2.unbilled
      /\ d.provider = c2.provider
  <2>1. d \in Conn
    <3>1. PICK e : e = [c2 EXCEPT !.terminal = "done"]
      OBVIOUS
    <3>2. e \in Conn /\ d = [e EXCEPT !.decision = "none"]
      BY <1>3, <1>6, <3>1 DEF Conn
    <3> QED BY <3>2 DEF Conn
  <2>2. SameFace(c2, d) /\ SameBill(c2, d)
    BY <1>3, <1>6 DEF Conn, SameFace, SameBill
  <2> QED BY <1>3, <1>6, <2>1, <2>2 DEF Conn
<1>8. FaceFits(d)
  BY <1>6, <1>7 DEF FaceFits, SameFace
<1> QED BY <1>4, <1>6, <1>7, <1>8 DEF SameBody, SameFace, SameBill

\* However a terminal begins, it leaves a session that is closed, billed or about to be.
LEMMA Ending ==
  ASSUME NEW c, Goes(c), c.step = "live",
         NEW decision \in {"complete", "silent", "error", "unbilled"},
         decision = "silent" => c.route = "closed",
         NEW d, d = BeginTerminal(c, decision)
  PROVE  Sound(d) /\ Moves(c, d)
<1>1. c \in Conn /\ FaceFits(c) /\ StartFits(c) /\ EndFits(c)
  BY DEF Goes
<1>2. c.route # "unopened"
  BY <1>1 DEF StartFits, Unopened
<1>3. CASE c.terminal # "none"
  <2>1. d = c
    BY <1>3 DEF BeginTerminal
  <2>2. c.terminal \in {"recording", "done"}
    BY <1>1, <1>3 DEF Conn
  <2>3. Attended(d)
    BY <1>1, <2>1, <2>2 DEF Attended, EndFits
  <2> QED BY <2>1, <2>3 DEF Sound, Moves, Keeps
<1>4. CASE c.terminal = "none"
  <2>1. PICK c1 : c1 = ClearTimers(c)
    OBVIOUS
  <2>2. PICK c2 : c2 = Abort(c1)
    OBVIOUS
  <2>3. PICK x : x = (decision = "unbilled")
    OBVIOUS
  <2>4. PICK t : t = [c2 EXCEPT !.state = "closed", !.decision = decision, !.unbilled = x]
    OBVIOUS
  <2>5. d = IF decision = "unbilled" \/ t.seconds = 0
              THEN CompleteTerminal(t) ELSE [t EXCEPT !.terminal = "recording"]
    BY <1>4, <2>1, <2>2, <2>3, <2>4 DEF BeginTerminal
  <2>6. /\ c1 \in Conn /\ SameFace(c, c1) /\ SameBill(c, c1)
        /\ c1.step = c.step
        /\ c1.wallClock = FALSE /\ c1.deadline = FALSE
        /\ c1.terminal = "none" /\ c1.provider = c.provider
    BY <1>1, <1>4, <2>1, ClearTimersIs
  <2>7. /\ c2 \in Conn /\ SameFace(c1, c2) /\ SameBill(c1, c2)
        /\ c2.step = c1.step
        /\ c2.wallClock = c1.wallClock /\ c2.deadline = c1.deadline
        /\ c2.terminal = c1.terminal /\ c2.provider = Hung(c1.provider)
    <3>1. Aborted(c1, c2)
      BY <2>2, <2>6, AbortIs
    <3> QED BY <3>1 DEF Aborted
  <2>8. t \in Conn
    <3>1. PICK e1 : e1 = [c2 EXCEPT !.state = "closed"]
      OBVIOUS
    <3>2. PICK e2 : e2 = [e1 EXCEPT !.decision = decision]
      OBVIOUS
    <3>3. e1 \in Conn
      BY <2>7, <3>1 DEF Conn
    <3>4. e2 \in Conn
      BY <3>2, <3>3 DEF Conn
    <3>5. t = [e2 EXCEPT !.unbilled = x]
      BY <2>4, <2>7, <3>1, <3>2 DEF Conn
    <3> QED BY <2>3, <3>4, <3>5 DEF Conn
  <2>9. SameFace(c2, t) /\ SameBill(c2, t)
    BY <2>4, <2>7 DEF Conn, SameFace, SameBill
  <2>10. /\ t.step = c2.step /\ t.wallClock = c2.wallClock /\ t.deadline = c2.deadline
         /\ t.terminal = c2.terminal /\ t.provider = c2.provider
    BY <2>4, <2>7 DEF Conn
  <2>11. t.state = "closed" /\ t.decision = decision /\ t.unbilled = x
    BY <2>4, <2>7 DEF Conn
  <2>12. SameFace(c, t) /\ SameBill(c, t)
    BY <2>6, <2>7, <2>9 DEF SameFace, SameBill
  <2>13. /\ t.step = "live" /\ t.wallClock = FALSE /\ t.deadline = FALSE
         /\ t.terminal = "none"
    BY <2>6, <2>7, <2>10
  <2>14. t.provider = "gone"
    BY <1>1, <2>6, <2>7, <2>10 DEF Hung, StartFits
  <2>15. FaceFits(t)
    BY <1>1, <2>12, <2>13 DEF FaceFits, SameFace
  <2>16. t.route # "unopened" /\ (decision = "silent" => t.route = "closed")
    BY <1>2, <2>12 DEF SameFace
  <2>17. t.billed = 0 /\ t.seconds <= t.grant /\ t.grant = c.grant
    BY <1>1, <1>4, <2>12 DEF EndFits, SameBill
  <2>18. t.route \notin {"awaiting_start", "starting"}
    BY <1>1, <2>12 DEF StartFits, SameFace, Starting
  <2>19. CASE decision = "unbilled" \/ t.seconds = 0
    <3>1. d = CompleteTerminal(t)
      BY <2>5, <2>19
    <3>2. /\ d \in Conn /\ FaceFits(d) /\ SameBill(t, d)
          /\ d.route = "closed" /\ d.socket \notin {"open", "stalled"}
          /\ d.step = t.step
          /\ d.state = t.state
          /\ d.wallClock = t.wallClock /\ d.deadline = t.deadline
          /\ d.terminal = "done" /\ d.unbilled = t.unbilled
          /\ d.provider = t.provider
      BY <2>8, <2>11, <2>13, <2>15, <2>16, <3>1, CompleteTerminalIs
    <3>3. d.billed = 0 /\ d.seconds <= d.grant /\ d.grant = c.grant
      BY <2>17, <3>2 DEF SameBill
    <3>4. StartFits(d)
      BY <2>11, <2>13, <2>14, <3>2 DEF StartFits
    <3>5. d.billed = IF d.terminal = "done" /\ d.unbilled = FALSE THEN d.seconds ELSE 0
      BY <2>3, <2>11, <2>19, <3>2, <3>3 DEF SameBill
    <3>6. EndFits(d)
      BY <2>11, <2>13, <2>14, <3>2, <3>3, <3>5 DEF EndFits
    <3> QED BY <1>4, <2>13, <3>2, <3>3, <3>4, <3>6 DEF Sound, Goes, Attended, Moves, Keeps
  <2>20. CASE ~(decision = "unbilled" \/ t.seconds = 0)
    <3>1. d = [t EXCEPT !.terminal = "recording"]
      BY <2>5, <2>20
    <3>2. d \in Conn /\ SameFace(t, d) /\ SameBill(t, d)
      BY <2>8, <3>1 DEF Conn, SameFace, SameBill
    <3>3. /\ d.step = t.step /\ d.state = t.state
          /\ d.wallClock = t.wallClock /\ d.deadline = t.deadline
          /\ d.terminal = "recording" /\ d.decision = t.decision /\ d.provider = t.provider
          /\ d.unbilled = t.unbilled
      BY <2>8, <3>1 DEF Conn
    <3>4. FaceFits(d)
      BY <2>15, <3>2, <3>3 DEF FaceFits, SameFace
    <3>5. d.route # "unopened" /\ d.route \notin {"awaiting_start", "starting"}
      BY <2>16, <2>18, <3>2 DEF SameFace
    <3>6. StartFits(d)
      BY <2>11, <2>13, <2>14, <3>3, <3>5 DEF StartFits
    <3>7. d.billed = 0 /\ d.seconds <= d.grant /\ d.grant = c.grant
      BY <2>17, <3>2 DEF SameBill
    <3>8. d.unbilled = FALSE /\ (d.decision = "silent" => d.route = "closed")
      BY <2>3, <2>11, <2>16, <2>20, <3>2, <3>3 DEF SameFace
    <3>9. EndFits(d)
      BY <2>11, <2>13, <2>14, <3>3, <3>7, <3>8 DEF EndFits
    <3> QED BY <1>4, <2>13, <3>2, <3>3, <3>4, <3>5, <3>6, <3>7, <3>9
            DEF Sound, Goes, Attended, Moves, Keeps
  <2> QED BY <2>19, <2>20
<1> QED BY <1>3, <1>4

LEMMA Finishing ==
  ASSUME NEW c, Sound(c), c.step = "live", NEW d, d = BeginFinish(c)
  PROVE  Sound(d) /\ Moves(c, d)
<1>1. c \in Conn /\ FaceFits(c) /\ StartFits(c) /\ EndFits(c) /\ Attended(c)
  BY DEF Sound, Goes
<1>2. CASE c.state # "streaming"
  BY <1>2 DEF BeginFinish, Moves, Keeps
<1>3. CASE c.state = "streaming"
  <2>1. PICK c1 : c1 = ClearTimers(c)
    OBVIOUS
  <2>2. PICK f : f = [c1 EXCEPT !.state = "finishing"]
    OBVIOUS
  <2>3. d = IF f.seconds = 0
              THEN BeginTerminal([f EXCEPT !.provider = "gone"], "complete") ELSE f
    BY <1>3, <2>1, <2>2 DEF BeginFinish
  <2>4. c.terminal = "none"
    BY <1>1, <1>3 DEF EndFits
  <2>5. /\ c1 \in Conn /\ SameFace(c, c1) /\ SameBill(c, c1)
        /\ c1.step = c.step
        /\ c1.wallClock = FALSE /\ c1.deadline = FALSE
        /\ c1.terminal = c.terminal /\ c1.provider = c.provider
    BY <1>1, <2>1, ClearTimersIs
  <2>6. f \in Conn /\ SameFace(c1, f) /\ SameBill(c1, f)
    BY <2>2, <2>5 DEF Conn, SameFace, SameBill
  <2>7. /\ f.step = c1.step /\ f.wallClock = c1.wallClock /\ f.deadline = c1.deadline
        /\ f.terminal = c1.terminal /\ f.provider = c1.provider /\ f.state = "finishing"
    BY <2>2, <2>5 DEF Conn
  <2>8. SameFace(c, f) /\ SameBill(c, f)
    BY <2>5, <2>6 DEF SameFace, SameBill
  <2>9. FaceFits(f)
    BY <1>1, <2>5, <2>7, <2>8 DEF FaceFits, SameFace
  <2>10. f.route \notin {"unopened", "awaiting_start", "starting"}
    BY <1>1, <2>8 DEF StartFits, SameFace, Starting, Unopened
  <2>11. StartFits(f)
    BY <1>1, <2>5, <2>7, <2>10 DEF StartFits
  <2>12. EndFits(f)
    BY <1>1, <2>4, <2>5, <2>7, <2>8 DEF EndFits, SameBill
  <2>13. Attended(f)
    BY <1>1, <2>4, <2>8 DEF Attended, SameFace
  <2>14. Moves(c, f)
    BY <2>4, <2>5, <2>7, <2>8, <2>10 DEF Moves, Keeps, SameBill
  <2>15. CASE f.seconds = 0
    <3>1. PICK e : e = [f EXCEPT !.provider = "gone"]
      OBVIOUS
    <3>2. e \in Conn /\ SameFace(f, e) /\ SameBill(f, e)
      BY <2>6, <3>1 DEF Conn, SameFace, SameBill
    <3>3. /\ e.step = f.step /\ e.wallClock = f.wallClock /\ e.deadline = f.deadline
          /\ e.terminal = f.terminal /\ e.provider = "gone" /\ e.state = f.state
      BY <2>6, <3>1 DEF Conn
    <3>4. FaceFits(e) /\ e.route \notin {"unopened", "awaiting_start", "starting"}
      BY <2>9, <2>10, <3>2, <3>3 DEF FaceFits, SameFace
    <3>5. StartFits(e)
      BY <1>1, <2>5, <2>7, <3>3, <3>4 DEF StartFits
    <3>6. EndFits(e)
      BY <2>4, <2>5, <2>7, <2>12, <3>2, <3>3 DEF EndFits, SameBill
    <3>7. Goes(e)
      BY <3>2, <3>4, <3>5, <3>6 DEF Goes
    <3>8. e.step = "live"
      BY <2>5, <2>7, <3>3
    <3>9. d = BeginTerminal(e, "complete")
      BY <2>3, <2>15, <3>1
    <3>10. Sound(d) /\ Moves(e, d)
      BY <3>7, <3>8, <3>9, Ending
    <3>11. Moves(c, e)
      BY <2>4, <2>5, <2>7, <2>8, <3>2, <3>3, <3>4 DEF Moves, Keeps, SameBill
    <3> QED BY <3>10, <3>11 DEF Moves, Keeps
  <2>16. CASE f.seconds # 0
    BY <2>3, <2>6, <2>9, <2>11, <2>12, <2>13, <2>14, <2>16 DEF Sound, Goes
  <2> QED BY <2>15, <2>16
<1> QED BY <1>2, <1>3

-----------------------------------------------------------------------------
(* A start. *)

\* A start that may still fail, whatever the provider has done meanwhile.
Failing(c) ==
  /\ c \in Conn /\ Starting(c)
  /\ c.route \in {"starting", "closed"}
  /\ c.wire # "broken"
  /\ c.socket = "open" => c.wire \in {"silent", "ready"}
  /\ c.socket = "closing" /\ c.wire # "terminal" => c.after = "cancel"
  /\ c.route = "starting" => /\ c.socket \in {"open", "stalled"}
                             /\ c.terminalSent = FALSE /\ c.after = "none"
  /\ c.route = "closed" => c.socket \notin {"open", "stalled"}
  /\ c.seconds = 0 /\ c.terminal = "none" /\ c.billed = 0

LEMMA StartsMayFail ==
  ASSUME NEW c, Sound(c), Starting(c)
  PROVE  Failing(c)
<1>1. c \in Conn /\ FaceFits(c) /\ StartFits(c) /\ EndFits(c) /\ Attended(c)
  BY DEF Sound, Goes
<1>2. c.step # "live" /\ c.step # "none"
  BY DEF Starting
<1>3. c.route \in {"starting", "closed"}
  BY <1>1, <1>2 DEF StartFits, Unopened, Conn
<1>4. c.seconds = 0 /\ c.terminal = "none" /\ c.billed = 0
  BY <1>1, <1>2 DEF StartFits, EndFits
<1>5. c.wire # "broken" /\ (c.socket = "open" => c.wire \in {"silent", "ready"})
  BY <1>1, <1>2 DEF FaceFits
<1>6. c.socket = "closing" /\ c.wire # "terminal" => c.after = "cancel"
  BY <1>1 DEF FaceFits
<1>7. c.route = "starting" => /\ c.socket \in {"open", "stalled"}
                              /\ c.terminalSent = FALSE /\ c.after = "none"
  BY <1>1 DEF FaceFits
<1>8. c.route = "closed" => c.socket \notin {"open", "stalled"}
  BY <1>1, <1>4 DEF Attended
<1> QED BY <1>1, <1>3, <1>4, <1>5, <1>6, <1>7, <1>8 DEF Failing

\* A failed start has told its client, and keeps no provider and no timer.
LEMMA StartFailing ==
  ASSUME NEW c, Failing(c), c.provider # "connecting", NEW d, d = StartFails(c)
  PROVE  Sound(d) /\ Moves(c, d) /\ d.route = "closed"
<1>1. PICK c1 : c1 = ForceClose(c)
  OBVIOUS
<1>2. PICK f : f = [c1 EXCEPT !.step = "failed"]
  OBVIOUS
<1>3. d = IF f.route = "closed" THEN f ELSE BeginRouteError(f)
  BY <1>1, <1>2 DEF StartFails
<1>4. c \in Conn /\ c.step \notin {"none", "failed"} /\ c.route \in {"starting", "closed"}
  BY DEF Failing, Starting
<1>5. /\ c1 \in Conn /\ SameFace(c, c1) /\ SameBill(c, c1)
      /\ c1.state = "closed" /\ c1.wallClock = FALSE /\ c1.deadline = FALSE
      /\ c1.terminal = c.terminal
      /\ c1.provider = Hung(c.provider)
  BY <1>1, <1>4, ForceCloseIs
<1>6. f \in Conn /\ SameFace(c1, f) /\ SameBill(c1, f)
  BY <1>2, <1>5 DEF Conn, SameFace, SameBill
<1>7. /\ f.step = "failed" /\ f.state = "closed" /\ f.wallClock = FALSE /\ f.deadline = FALSE
      /\ f.terminal = c1.terminal /\ f.provider = c1.provider
  BY <1>2, <1>5 DEF Conn
<1>8. f.provider \in {"none", "gone"}
  <2>1. c.provider \in {"none", "open", "gone"}
    BY <1>4 DEF Conn
  <2> QED BY <1>5, <1>7, <2>1 DEF Hung
<1>9. f.seconds = 0 /\ f.terminal = "none" /\ f.billed = 0 /\ f.grant = c.grant
  BY <1>5, <1>6, <1>7 DEF Failing, SameBill
<1>10. SameFace(c, f)
  BY <1>5, <1>6 DEF SameFace
<1>11. 0 <= f.grant
  BY <1>6 DEF Conn
<1>12. ~Starting(f)
  BY <1>7 DEF Starting
<1>13. /\ d \in Conn /\ SameBill(f, d) /\ d.step = "failed" /\ d.state = "closed"
       /\ d.wallClock = FALSE /\ d.deadline = FALSE
       /\ d.terminal = "none" /\ d.provider = f.provider
       /\ d.route = "closed" /\ d.socket \notin {"open", "stalled"}
       /\ FaceFits(d)
  <2>1. CASE f.route = "closed"
    <3>1. d = f
      BY <1>3, <2>1
    <3>2. FaceFits(f)
      BY <1>7, <1>10, <2>1 DEF Failing, SameFace, FaceFits
    <3>3. f.socket \notin {"open", "stalled"}
      BY <1>10, <2>1 DEF Failing, SameFace
    <3> QED BY <1>6, <1>7, <1>9, <2>1, <3>1, <3>2, <3>3 DEF SameBill
  <2>2. CASE f.route # "closed"
    <3>1. d = BeginRouteError(f)
      BY <1>3, <2>2
    <3>2. f.route = "starting" /\ ~f.terminalSent
      BY <1>4, <1>10, <2>2 DEF Failing, SameFace
    <3>3. /\ d \in Conn /\ SameBill(f, d)
          /\ d.step = f.step /\ d.state = f.state
          /\ d.wallClock = f.wallClock /\ d.deadline = f.deadline
          /\ d.terminal = f.terminal
          /\ d.provider = IF Starting(f) THEN Hung(f.provider) ELSE f.provider
          /\ d.route = "closed" /\ d.terminalSent = TRUE /\ d.after = f.after
          /\ d.socket = Shut(f.socket)
          /\ d.wire = Told(f, "error")
      <4>1. RouteErrored(f, d)
        BY <1>6, <3>1, <3>2, BeginRouteErrorIs
      <4> QED BY <4>1 DEF RouteErrored
    <3>4. f.socket \in {"open", "stalled"} /\ f.wire # "broken"
      BY <1>10, <3>2 DEF Failing, SameFace
    <3>5. d.socket \in {"closing", "dropped"}
      BY <3>3, <3>4 DEF Shut
    <3>6. f.socket = "open" => f.wire \in {"silent", "ready"}
      BY <1>10 DEF Failing, SameFace
    <3>7. f.socket = "open" => d.wire = "terminal"
      BY <3>3, <3>6, Extensions DEF Told
    <3>8. f.socket = "stalled" => d.socket = "dropped" /\ d.wire = f.wire
      BY <3>3 DEF Shut, Told
    <3>9. FaceFits(d)
      BY <3>3, <3>4, <3>5, <3>7, <3>8 DEF FaceFits
    <3> QED BY <1>7, <1>9, <1>12, <3>3, <3>5, <3>9
  <2> QED BY <2>1, <2>2
<1>14. StartFits(d)
  <2>1. d.seconds = 0
    BY <1>9, <1>13 DEF SameBill
  <2> QED BY <1>8, <1>13, <2>1 DEF StartFits
<1>15. EndFits(d)
  BY <1>9, <1>11, <1>13 DEF EndFits, SameBill
<1>16. Moves(c, d)
  BY <1>4, <1>9, <1>13 DEF Moves, Keeps, SameBill, Failing
<1> QED BY <1>13, <1>14, <1>15, <1>16 DEF Sound, Goes, Attended

LEMMA Dialing ==
  ASSUME NEW c, Sound(c), c.step \in {"read", "terms"}, NEW d, d = Dial(c)
  PROVE  Sound(d) /\ Moves(c, d)
<1>1. c \in Conn /\ FaceFits(c) /\ StartFits(c) /\ EndFits(c) /\ Attended(c)
  BY DEF Sound, Goes
<1>2. Starting(c) /\ c.provider = "none"
  BY <1>1 DEF Starting, StartFits
<1>3. CASE d = StartFails(c)
  BY <1>2, <1>3, StartsMayFail, StartFailing
<1>4. CASE d # StartFails(c)
  <2>1. d = [c EXCEPT !.step = "connect", !.provider = "connecting"]
    BY <1>4 DEF Dial
  <2>2. d \in Conn
    <3>1. PICK e : e = [c EXCEPT !.step = "connect"]
      OBVIOUS
    <3>2. e \in Conn /\ d = [e EXCEPT !.provider = "connecting"]
      BY <1>1, <2>1, <3>1 DEF Conn
    <3> QED BY <3>2 DEF Conn
  <2>3. SameFace(c, d) /\ SameBill(c, d)
    BY <1>1, <2>1 DEF Conn, SameFace, SameBill
  <2>4. /\ d.step = "connect" /\ d.provider = "connecting" /\ d.state = c.state
        /\ d.wallClock = c.wallClock /\ d.deadline = c.deadline
        /\ d.terminal = c.terminal /\ d.unbilled = c.unbilled
    BY <1>1, <2>1 DEF Conn
  <2>5. c.wallClock = FALSE /\ c.deadline = FALSE /\ c.seconds = 0 /\ c.terminal = "none"
        /\ c.state \notin {"finishing", "settled"}
    BY <1>1 DEF StartFits
  <2>6. FaceFits(d)
    BY <1>1, <2>3, <2>4 DEF FaceFits, SameFace
  <2>7. d.route \in {"starting", "closed"}
    BY <1>2, <2>3, StartsMayFail DEF Failing, SameFace
  <2>8. StartFits(d)
    BY <2>3, <2>4, <2>5, <2>7 DEF StartFits, SameBill, Starting
  <2>9. EndFits(d)
    BY <1>1, <2>3, <2>4, <2>5 DEF EndFits, SameBill
  <2>10. Attended(d)
    BY <1>1, <2>3, <2>4 DEF Attended, SameFace
  <2>11. Moves(c, d)
    BY <2>3, <2>4, <2>5, <2>7 DEF Moves, Keeps, SameBill
  <2> QED BY <2>2, <2>6, <2>8, <2>9, <2>10, <2>11 DEF Sound, Goes
<1> QED BY <1>3, <1>4

-----------------------------------------------------------------------------
(* A result of the provider, and a client that is gone. *)

\* A transcript reaches the client, or ends the session of one that cannot be reached.
LEMMA Forwarding ==
  ASSUME NEW c, Sound(c), c.step = "live", NEW d, d = ForwardOrAbandon(c, "transcript")
  PROVE  Sound(d) /\ Moves(c, d)
<1>1. c \in Conn /\ FaceFits(c) /\ StartFits(c) /\ EndFits(c) /\ Attended(c)
  BY DEF Sound, Goes
<1>2. c.route \notin {"unopened", "awaiting_start", "starting"}
  BY <1>1 DEF StartFits, Starting, Unopened
<1>3. CASE c.route = "closed"
  BY <1>2, <1>3 DEF ForwardOrAbandon, Moves, Keeps
<1>4. PICK c1 : c1 = SendEvent(c, "transcript")
  OBVIOUS
<1>5. /\ c1 \in Conn /\ SameBody(c, c1)
      /\ c1.route = c.route /\ c1.terminalSent = c.terminalSent /\ c1.after = c.after
      /\ c1.socket = IF c.socket = "stalled" THEN "dropped" ELSE c.socket
      /\ c1.wire = Told(c, "transcript")
  BY <1>1, <1>4, SendEventIs
<1>6. CASE c.route # "closed" /\ c.socket = "open"
  <2>1. d = c1
    BY <1>4, <1>6 DEF ForwardOrAbandon, Sendable
  <2>2. c1.wire = "ready"
    BY <1>1, <1>5, <1>6, Extensions DEF Told, FaceFits
  <2>3. SameBody(c, d) /\ d \in Conn /\ d.route = c.route /\ d.terminalSent = c.terminalSent
        /\ d.after = c.after /\ d.socket = "open" /\ d.wire = "ready"
    BY <1>5, <1>6, <2>1, <2>2
  <2>4. FaceFits(d)
    BY <1>1, <1>6, <2>3 DEF FaceFits, SameBody
  <2>5. StartFits(d)
    BY <1>1, <1>2, <2>3 DEF StartFits, SameBody
  <2>6. EndFits(d)
    BY <1>1, <1>6, <2>3 DEF EndFits, SameBody
  <2>7. Attended(d) /\ Moves(c, d)
    BY <1>2, <1>6, <2>3 DEF Attended, Moves, Keeps, SameBody
  <2> QED BY <2>3, <2>4, <2>5, <2>6, <2>7 DEF Sound, Goes
<1>7. CASE c.route # "closed" /\ c.socket # "open"
  <2>1. d = AbandonUnreachableClient(c1)
    BY <1>4, <1>7 DEF ForwardOrAbandon, Sendable
  <2>2. PICK c2 : c2 = Closed(c1)
    OBVIOUS
  <2>3. /\ c2 \in Conn /\ SameBody(c1, c2)
        /\ c2.route = "closed" /\ c2.terminalSent = TRUE
        /\ c2.after = c1.after /\ c2.socket = c1.socket /\ c2.wire = c1.wire
    BY <1>5, <2>2, ClosedIs
  <2>4. SameBody(c, c2)
    BY <1>5, <2>3 DEF SameBody
  <2>5. c2.step = "live"
    BY <2>4 DEF SameBody
  <2>6. AbortStarting(c2) = c2
    BY <2>5 DEF AbortStarting, Starting
  <2>7. d = BeginTerminal(c2, "silent")
    BY <2>1, <2>2, <2>5, <2>6 DEF AbandonUnreachableClient, HasSession
  <2>8. c.socket = "stalled" /\ c.wire # "broken"
    BY <1>1, <1>2, <1>7 DEF FaceFits
  <2>9. c2.socket = "dropped" /\ c2.wire # "broken"
    BY <1>5, <2>3, <2>8 DEF Told
  <2>10. FaceFits(c2)
    BY <2>3, <2>9 DEF FaceFits
  <2>11. StartFits(c2)
    BY <1>1, <2>3, <2>4 DEF StartFits, SameBody
  <2>12. EndFits(c2)
    BY <1>1, <2>3, <2>4, <2>9 DEF EndFits, SameBody
  <2>13. Goes(c2)
    BY <2>3, <2>10, <2>11, <2>12 DEF Goes
  <2>14. Sound(d) /\ Moves(c2, d)
    BY <2>3, <2>5, <2>7, <2>13, Ending
  <2> QED BY <2>3, <2>4, <2>14 DEF Moves, Keeps, SameBody
<1> QED BY <1>3, <1>6, <1>7

\* A client that is gone takes its start or its session with it.
LEMMA Disconnecting ==
  ASSUME NEW c, Sound(c), c.socket \notin {"none", "closed"},
         NEW e, e = AbortStarting(Closed([c EXCEPT !.socket = "closed"])),
         NEW d, d = IF HasSession(e) THEN BeginTerminal(e, "silent") ELSE e
  PROVE  Sound(d) /\ Moves(c, d)
<1>1. c \in Conn /\ FaceFits(c) /\ StartFits(c) /\ EndFits(c) /\ Attended(c)
  BY DEF Sound, Goes
<1>2. PICK c1 : c1 = [c EXCEPT !.socket = "closed"]
  OBVIOUS
<1>3. PICK c2 : c2 = Closed(c1)
  OBVIOUS
<1>4. c1 \in Conn /\ SameBody(c, c1) /\ c1.socket = "closed" /\ c1.wire = c.wire
  BY <1>1, <1>2 DEF Conn, SameBody
<1>5. /\ c2 \in Conn /\ SameBody(c1, c2)
      /\ c2.route = "closed" /\ c2.socket = "closed" /\ c2.wire = c.wire
  BY <1>3, <1>4, ClosedIs
<1>6. SameBody(c, c2)
  BY <1>4, <1>5 DEF SameBody
<1>7. e = AbortStarting(c2)
  BY <1>2, <1>3
<1>8. /\ e \in Conn /\ SameFace(c2, e) /\ SameBill(c2, e)
      /\ e.step = c2.step
      /\ e.state = c2.state
      /\ e.wallClock = c2.wallClock /\ e.deadline = c2.deadline
      /\ e.terminal = c2.terminal /\ e.decision = c2.decision /\ e.unbilled = c2.unbilled
      /\ e.provider = IF Starting(c2) THEN Hung(c2.provider) ELSE c2.provider
  BY <1>5, <1>7, AbortStartingIs
<1>9. e.step = c.step /\ e.terminal = c.terminal /\ e.grant = c.grant /\ e.seconds = c.seconds
      /\ e.wallClock = c.wallClock /\ e.deadline = c.deadline /\ e.state = c.state
      /\ e.unbilled = c.unbilled /\ e.billed = c.billed
  BY <1>6, <1>8 DEF SameBody, SameBill
<1>10. e.route = "closed" /\ e.socket = "closed" /\ e.wire = c.wire
  BY <1>5, <1>8 DEF SameFace
<1>11. FaceFits(e)
  BY <1>1, <1>10 DEF FaceFits
<1>12. e.provider = c.provider
  <2>1. CASE Starting(c)
    <3>1. c.provider # "open" /\ c2.provider = c.provider
      BY <1>1, <1>6, <2>1 DEF Starting, StartFits, SameBody
    <3> QED BY <1>8, <3>1 DEF Hung
  <2>2. CASE ~Starting(c)
    <3>1. ~Starting(c2) /\ c2.provider = c.provider
      BY <1>6, <2>2 DEF Starting, SameBody
    <3> QED BY <1>8, <3>1
  <2> QED BY <2>1, <2>2
<1>13. StartFits(e)
  BY <1>1, <1>9, <1>10, <1>12 DEF StartFits
<1>14. EndFits(e)
  BY <1>1, <1>9, <1>10, <1>12 DEF EndFits
<1>15. Goes(e) /\ Attended(e)
  BY <1>8, <1>10, <1>11, <1>13, <1>14 DEF Goes, Attended
<1>16. Moves(c, e)
  BY <1>9, <1>10 DEF Moves, Keeps
<1>17. CASE e.step = "live"
  <2>1. Sound(d) /\ Moves(e, d)
    BY <1>10, <1>15, <1>17, Ending DEF HasSession
  <2> QED BY <1>16, <2>1 DEF Moves, Keeps
<1>18. CASE e.step # "live"
  BY <1>15, <1>16, <1>18 DEF HasSession, Sound
<1> QED BY <1>17, <1>18

\* A provider that connects finds a start that failed, was aborted or lost its client,
\* or makes it a session.
Connected(c, d) ==
  LET open == [c EXCEPT !.provider = "open"]
      ready == [ForwardOrAbandon(open, "ready") EXCEPT !.wallClock = TRUE, !.deadline = TRUE]
      live == [ready EXCEPT !.step = "live"] IN
  \/ d = StartFails(open)
  \/ d = StartFails(ready)
  \/ ~ready.signal /\ live.route = "closed" /\ d = BeginTerminal(live, "silent")
  \/ /\ ~ready.signal /\ live.route # "closed"
     /\ d = [live EXCEPT !.route = "streaming"]

LEMMA Connecting ==
  ASSUME NEW c, Sound(c), c.provider = "connecting", NEW d, Connected(c, d)
  PROVE  Sound(d) /\ Moves(c, d)
<1>1. PICK open : open = [c EXCEPT !.provider = "open"]
  OBVIOUS
<1>2. PICK r : r = ForwardOrAbandon(open, "ready")
  OBVIOUS
<1>3. PICK ready : ready = [r EXCEPT !.wallClock = TRUE, !.deadline = TRUE]
  OBVIOUS
<1>4. PICK live : live = [ready EXCEPT !.step = "live"]
  OBVIOUS
<1>5. \/ d = StartFails(open)
      \/ d = StartFails(ready)
      \/ ~ready.signal /\ live.route = "closed" /\ d = BeginTerminal(live, "silent")
      \/ /\ ~ready.signal /\ live.route # "closed"
         /\ d = [live EXCEPT !.route = "streaming"]
  BY <1>1, <1>2, <1>3, <1>4 DEF Connected
<1>6. c \in Conn /\ FaceFits(c) /\ StartFits(c) /\ EndFits(c) /\ Attended(c)
  BY DEF Sound, Goes
<1>7. c.step = "connect"
  <2>1. c.step \notin {"none", "usage", "read", "terms", "failed", "live"}
    BY <1>6 DEF StartFits
  <2> QED BY <1>6, <2>1 DEF Conn
<1>8. Failing(c)
  BY <1>7, StartsMayFail DEF Starting
<1>9. open \in Conn /\ SameFace(c, open) /\ SameBill(c, open)
  BY <1>6, <1>1, ProviderIs
<1>10. /\ open.step = "connect" /\ open.terminal = c.terminal /\ open.provider = "open"
      /\ open.wallClock = c.wallClock /\ open.deadline = c.deadline
      /\ open.unbilled = c.unbilled /\ open.state = c.state
  BY <1>6, <1>7, <1>1, ProviderIs DEF SameRest, SameTimers
<1>11. Starting(open)
  BY <1>10 DEF Starting
<1>12. Failing(open)
  BY <1>8, <1>9, <1>10, <1>11 DEF Failing, SameFace, SameBill
<1>13. Moves(c, open)
  BY <1>7, <1>9, <1>10 DEF Moves, Keeps, SameFace, SameBill
\* What reaches the client, and that a client which is gone aborts the start.
<1>14. /\ r \in Conn /\ SameBill(open, r)
       /\ r.step = "connect" /\ r.terminal = "none" /\ r.provider \in {"open", "gone"}
       /\ r.route \in {"starting", "closed"} /\ r.wire # "broken"
       /\ r.socket = "open" => r.wire = "ready"
       /\ r.socket = "closing" /\ r.wire # "terminal" => r.after = "cancel"
       /\ r.route = "starting" => /\ r.socket = "open"
                                  /\ r.terminalSent = FALSE /\ r.after = "none"
       /\ r.route = "closed" => r.socket \notin {"open", "stalled"}
       /\ r.signal = FALSE => r.provider = "open"
       /\ r.unbilled = c.unbilled
  <2>1. CASE open.route = "closed"
    <3>1. r = open
      BY <1>2, <2>1 DEF ForwardOrAbandon
    <3>2. open.socket \notin {"open", "stalled"}
      BY <1>12, <2>1 DEF Failing
    <3> QED BY <1>9, <1>10, <1>12, <2>1, <3>1, <3>2 DEF Failing, SameBill
  <2>2. PICK k : k = SendEvent(open, "ready")
    OBVIOUS
  <2>3. /\ k \in Conn /\ SameBody(open, k)
        /\ k.route = open.route /\ k.terminalSent = open.terminalSent /\ k.after = open.after
        /\ k.socket = IF open.socket = "stalled" THEN "dropped" ELSE open.socket
        /\ k.wire = Told(open, "ready")
    BY <1>9, <2>2, SendEventIs
  <2>4. k.terminal = "none" /\ k.step = "connect" /\ k.provider = "open" /\ SameBill(open, k)
        /\ k.unbilled = c.unbilled
    BY <1>10, <1>12, <2>3 DEF Failing, SameBody, SameBill
  <2>5. CASE open.route # "closed" /\ open.socket = "open"
    <3>1. r = k
      BY <1>2, <2>2, <2>5 DEF ForwardOrAbandon, Sendable
    <3>2. open.wire = "silent"
      BY <1>6, <1>7, <1>9, <2>5 DEF FaceFits, SameFace
    <3>3. k.wire = "ready"
      BY <2>3, <2>5, <3>2, Extensions DEF Told
    <3>4. open.route = "starting" /\ open.terminalSent = FALSE /\ open.after = "none"
      BY <1>12, <2>5 DEF Failing
    <3> QED BY <2>3, <2>4, <2>5, <3>1, <3>3, <3>4
  <2>6. CASE open.route # "closed" /\ open.socket # "open"
    <3>1. r = AbandonUnreachableClient(k)
      BY <1>2, <2>2, <2>6 DEF ForwardOrAbandon, Sendable
    <3>2. PICK m : m = Closed(k)
      OBVIOUS
    <3>3. PICK n : n = AbortStarting(m)
      OBVIOUS
    <3>4. /\ m \in Conn /\ SameBody(k, m)
          /\ m.route = "closed" /\ m.terminalSent = TRUE
          /\ m.after = k.after /\ m.socket = k.socket /\ m.wire = k.wire
      BY <2>3, <3>2, ClosedIs
    <3>5. Starting(m) /\ SameBill(open, m) /\ m.step = "connect" /\ m.terminal = "none"
          /\ m.provider = "open" /\ m.unbilled = c.unbilled
      BY <2>4, <3>4 DEF SameBody, SameBill, Starting
    <3>6. /\ n \in Conn /\ SameFace(m, n) /\ SameBill(m, n)
          /\ n.step = m.step
          /\ n.terminal = m.terminal /\ n.unbilled = m.unbilled
          /\ n.provider = IF Starting(m) THEN Hung(m.provider) ELSE m.provider
          /\ n.signal = IF Starting(m) THEN TRUE ELSE m.signal
      BY <3>3, <3>4, AbortStartingIs
    <3>7. n.provider = "gone" /\ n.signal = TRUE /\ n.step = "connect" /\ n.terminal = "none"
      BY <3>5, <3>6 DEF Hung
    <3>8. r = n
      BY <3>1, <3>2, <3>3, <3>7 DEF AbandonUnreachableClient, HasSession
    <3>9. open.socket = "stalled" /\ open.wire # "broken"
      BY <1>12, <2>6 DEF Failing
    <3>10. n.socket = "dropped" /\ n.wire # "broken" /\ n.route = "closed"
      BY <2>3, <3>4, <3>6, <3>9 DEF SameFace, Told
    <3>11. SameBill(open, n)
      BY <3>5, <3>6 DEF SameBill
    <3>12. n.unbilled = c.unbilled
      BY <3>5, <3>6
    <3>13. /\ n \in Conn /\ SameBill(open, n)
           /\ n.step = "connect" /\ n.terminal = "none" /\ n.provider \in {"open", "gone"}
           /\ n.route \in {"starting", "closed"} /\ n.wire # "broken"
      BY <3>6, <3>7, <3>10, <3>11
    <3> QED BY <3>7, <3>8, <3>10, <3>12, <3>13
  <2> QED BY <2>1, <2>5, <2>6
<1>15. /\ ready \in Conn /\ SameFace(r, ready) /\ SameBill(r, ready) /\ SameRest(r, ready)
       /\ ready.step = r.step /\ ready.provider = r.provider
       /\ ready.wallClock = TRUE /\ ready.deadline = TRUE
  BY <1>14, <1>3, TimersAre
<1>16. /\ ready.step = "connect" /\ ready.terminal = "none" /\ ready.provider = r.provider
       /\ ready.wallClock = TRUE /\ ready.deadline = TRUE /\ ready.signal = r.signal
       /\ ready.unbilled = r.unbilled
  BY <1>14, <1>15 DEF SameRest
<1>17. ready.seconds = 0 /\ ready.billed = 0 /\ ready.grant = c.grant
  BY <1>9, <1>12, <1>14, <1>15 DEF Failing, SameBill
<1>18. Moves(c, ready)
  <2>1. c.terminal = "none"
    BY <1>8 DEF Failing
  <2>2. ready.route \in {"starting", "closed"}
    BY <1>14, <1>15 DEF SameFace
  <2> QED BY <1>7, <1>16, <1>17, <2>1, <2>2 DEF Moves, Keeps
<1>19. CASE d = StartFails(open)
  <2>1. Sound(d) /\ Moves(open, d)
    BY <1>10, <1>12, <1>19, StartFailing
  <2> QED BY <1>13, <2>1 DEF Moves, Keeps
<1>20. CASE d = StartFails(ready)
  <2>1. Failing(ready)
    <3>1. Starting(ready)
      BY <1>16 DEF Starting
    <3>2. /\ ready.route = r.route /\ ready.socket = r.socket /\ ready.wire = r.wire
          /\ ready.after = r.after /\ ready.terminalSent = r.terminalSent
      BY <1>15 DEF SameFace
    <3> QED BY <1>14, <1>15, <1>16, <1>17, <3>1, <3>2 DEF Failing
  <2>2. ready.provider # "connecting"
    BY <1>14, <1>16
  <2>3. Sound(d) /\ Moves(ready, d)
    BY <1>20, <2>1, <2>2, StartFailing
  <2> QED BY <1>18, <2>3 DEF Moves, Keeps
<1>21. live \in Conn /\ SameFace(r, live) /\ SameBill(ready, live)
  BY <1>15, <1>4, StepIs DEF SameFace
<1>22. /\ live.step = "live" /\ live.terminal = "none" /\ live.provider = r.provider
       /\ live.wallClock = TRUE /\ live.deadline = TRUE /\ live.unbilled = r.unbilled
  BY <1>15, <1>16, <1>4, StepIs DEF SameRest, SameTimers
<1>23. live.seconds = 0 /\ live.billed = 0 /\ live.grant = c.grant /\ 0 <= live.grant
  <2>1. live.seconds = 0 /\ live.billed = 0 /\ live.grant = c.grant
    BY <1>17, <1>21 DEF SameBill
  <2>2. 0 <= c.grant
    BY <1>6 DEF Conn
  <2> QED BY <2>1, <2>2
<1>24. EndFits(live)
  BY <1>22, <1>23 DEF EndFits
<1>25. Moves(c, live)
  <2>1. c.terminal = "none"
    BY <1>8 DEF Failing
  <2>2. live.route \in {"starting", "closed"}
    BY <1>14, <1>21 DEF SameFace
  <2> QED BY <1>7, <1>22, <1>23, <2>1, <2>2 DEF Moves, Keeps
<1>26. CASE ready.signal = FALSE /\ live.route = "closed" /\ d = BeginTerminal(live, "silent")
  <2>1. live.provider = "open"
    BY <1>14, <1>16, <1>22, <1>26
  <2>2. live.socket \notin {"open", "stalled"}
    BY <1>14, <1>21, <1>26 DEF SameFace
  <2>3. FaceFits(live)
    BY <1>14, <1>21, <1>26, <2>2 DEF FaceFits, SameFace
  <2>4. StartFits(live)
    BY <1>22, <1>26, <2>1 DEF StartFits
  <2>5. Sound(d) /\ Moves(live, d)
    BY <1>21, <1>22, <1>24, <1>26, <2>3, <2>4, Ending DEF Goes
  <2> QED BY <1>25, <2>5 DEF Moves, Keeps
<1>27. CASE /\ ready.signal = FALSE /\ live.route # "closed"
            /\ d = [live EXCEPT !.route = "streaming"]
  <2>1. live.provider = "open"
    BY <1>14, <1>16, <1>22, <1>27
  <2>2. /\ live.socket = "open" /\ live.wire = "ready"
        /\ live.terminalSent = FALSE /\ live.after = "none"
    BY <1>14, <1>21, <1>27 DEF SameFace
  <2>3. d \in Conn /\ SameBody(live, d) /\ d.route = "streaming"
        /\ d.socket = live.socket /\ d.wire = live.wire
        /\ d.terminalSent = live.terminalSent /\ d.after = live.after
    BY <1>21, <1>27, RouteIs
  <2>4. /\ d.step = live.step /\ d.terminal = live.terminal /\ d.provider = live.provider
        /\ d.wallClock = live.wallClock /\ d.deadline = live.deadline /\ SameBill(live, d)
    BY <2>3 DEF SameBody, SameBill
  <2>5. FaceFits(d)
    BY <1>22, <2>2, <2>3, <2>4 DEF FaceFits
  <2>6. StartFits(d)
    BY <1>22, <2>1, <2>3, <2>4 DEF StartFits
  <2>7. EndFits(d)
    BY <1>22, <1>23, <2>3, <2>4 DEF EndFits, SameBill
  <2>8. Attended(d) /\ Moves(c, d)
    BY <1>25, <1>22, <2>3, <2>4 DEF Attended, Moves, Keeps, SameBill
  <2> QED BY <2>3, <2>5, <2>6, <2>7, <2>8 DEF Sound, Goes
<1>28. ready.signal \in BOOLEAN
  BY <1>15 DEF Conn
<1>29. ~ready.signal => ready.signal = FALSE
  BY <1>28
<1> QED BY <1>5, <1>19, <1>20, <1>26, <1>27, <1>29

-----------------------------------------------------------------------------
(* What each handler makes of its record. *)

\* A socket whose first frame does not come is told so.
LEMMA Answering ==
  ASSUME NEW c, Sound(c), c.route = "awaiting_start", NEW d, d = Terminate(c, "error")
  PROVE  Sound(d) /\ Moves(c, d) /\ d.route = "closed"
<1>1. c \in Conn /\ FaceFits(c) /\ StartFits(c) /\ EndFits(c)
  BY DEF Sound, Goes
<1>2. /\ d \in Conn /\ SameBody(c, d)
      /\ d.route = "closed" /\ d.terminalSent = TRUE /\ d.after = c.after
      /\ d.socket = Shut(c.socket)
      /\ d.wire = Told(c, "error")
  <2>1. Terminated(c, "error", d)
    BY <1>1, TerminateIs
  <2> QED BY <2>1 DEF Terminated
<1>3. c.step = "none" /\ c.socket \in {"open", "stalled"}
  BY <1>1 DEF FaceFits, StartFits
<1>4. c.wire # "broken" /\ (c.socket = "open" => c.wire = "silent")
  BY <1>1, <1>3 DEF FaceFits
<1>5. d.socket \in {"closing", "dropped"}
  BY <1>2, <1>3 DEF Shut
<1>6. d.socket = "closing" => d.wire = "terminal"
  BY <1>2, <1>3, <1>4, Extensions DEF Shut, Told
<1>7. d.socket = "dropped" => d.wire # "broken"
  BY <1>2, <1>3, <1>4 DEF Shut, Told
<1>8. FaceFits(d)
  BY <1>2, <1>5, <1>6, <1>7 DEF FaceFits
<1>9. StartFits(d)
  BY <1>1, <1>2 DEF StartFits, SameBody
<1>10. EndFits(d)
  BY <1>1, <1>2, <1>3, <1>5 DEF EndFits, SameBody
<1>11. Attended(d) /\ Moves(c, d)
  BY <1>2, <1>5 DEF Attended, Moves, Keeps, SameBody
<1> QED BY <1>2, <1>8, <1>9, <1>10, <1>11 DEF Sound, Goes

\* A frame that is refused before the session streams ends the start under way.
LEMMA Refusing ==
  ASSUME NEW c, Sound(c), c.route \in {"awaiting_start", "starting"},
         NEW e \in Conn, SameBody(c, e), e.terminalSent = c.terminalSent,
         e.after = c.after, e.socket = c.socket, e.wire = c.wire,
         NEW d, d = BeginRouteError(e)
  PROVE  Sound(d) /\ Moves(c, d)
<1>1. c \in Conn /\ FaceFits(c) /\ StartFits(c) /\ EndFits(c)
  BY DEF Sound, Goes
<1>2. c.step # "live" /\ c.step # "failed" /\ c.socket \in {"open", "stalled"} /\ ~c.terminalSent
  BY <1>1 DEF FaceFits, StartFits, Starting
<1>3. ~e.terminalSent
  BY <1>2
<1>4. /\ d \in Conn /\ SameBill(e, d)
      /\ d.step = e.step
      /\ d.state = e.state
      /\ d.wallClock = e.wallClock /\ d.deadline = e.deadline
      /\ d.terminal = e.terminal /\ d.unbilled = e.unbilled
      /\ d.provider = IF Starting(e) THEN Hung(e.provider) ELSE e.provider
      /\ d.route = "closed" /\ d.terminalSent = TRUE /\ d.after = e.after
      /\ d.socket = Shut(e.socket)
      /\ d.wire = Told(e, "error")
  <2>1. RouteErrored(e, d)
    BY <1>3, BeginRouteErrorIs
  <2> QED BY <2>1 DEF RouteErrored
<1>5. d.wire = Told(c, "error")
  BY <1>4 DEF Told
<1>6. /\ d.step = c.step /\ d.state = c.state /\ d.terminal = c.terminal
      /\ d.wallClock = c.wallClock /\ d.deadline = c.deadline /\ d.unbilled = c.unbilled
      /\ SameBill(c, d)
  BY <1>4 DEF SameBody, SameBill
<1>7. d.provider = c.provider
  <2>1. e.provider = c.provider
    BY DEF SameBody
  <2>2. c.provider # "open"
    BY <1>1, <1>2 DEF StartFits, Conn
  <2> QED BY <1>4, <2>1, <2>2 DEF Hung
<1>8. c.wire # "broken" /\ (c.socket = "open" => c.wire = "silent")
  BY <1>1, <1>2 DEF FaceFits
<1>9. d.socket \in {"closing", "dropped"}
  BY <1>2, <1>4 DEF Shut
<1>10. d.socket = "closing" => d.wire = "terminal"
  BY <1>2, <1>4, <1>5, <1>8, Extensions DEF Shut, Told
<1>11. d.socket = "dropped" => d.wire # "broken"
  BY <1>2, <1>4, <1>5, <1>8 DEF Shut, Told
<1>12. FaceFits(d)
  BY <1>4, <1>9, <1>10, <1>11 DEF FaceFits
<1>13. StartFits(d)
  BY <1>1, <1>4, <1>6, <1>7 DEF StartFits, SameBill
<1>14. EndFits(d)
  BY <1>1, <1>6, <1>2, <1>4, <1>7, <1>9 DEF EndFits, StartFits, SameBill
<1>15. Attended(d) /\ Moves(c, d)
  BY <1>4, <1>6, <1>9 DEF Attended, Moves, Keeps, SameBill
<1> QED BY <1>4, <1>12, <1>13, <1>14, <1>15 DEF Sound, Goes

LEMMA UnopenedIs ==
  /\ Unopened \in Conn
  /\ Unopened.route = "unopened" /\ Unopened.terminalSent = FALSE /\ Unopened.after = "none"
  /\ Unopened.socket = "none" /\ Unopened.wire = "silent"
  /\ Unopened.step = "none" /\ Unopened.grant = 0 /\ Unopened.state = "none"
  /\ Unopened.seconds = 0 /\ Unopened.wallClock = FALSE /\ Unopened.deadline = FALSE
  /\ Unopened.terminal = "none" /\ Unopened.provider = "none" /\ Unopened.billed = 0
<1>1. Grant \in Nat
  BY RealtimeAssumption DEF Grant, Least
<1> QED BY <1>1 DEF Unopened, Conn

\* A socket that opens waits for its first frame, or is told of the shutdown.
LEMMA Opening ==
  ASSUME NEW c, c = [Unopened EXCEPT !.route = "awaiting_start", !.socket = "open"],
         NEW d, d = c \/ d = Terminate(c, "error")
  PROVE  /\ Sound(d) /\ Keeps(Unopened, d)
         /\ d # c => d.route = "closed"
<1>1. c \in Conn /\ Sound(c) /\ c.step = "none" /\ c.grant = 0 /\ c.terminal = "none"
  <2>1. PICK e : e = [Unopened EXCEPT !.route = "awaiting_start"]
    OBVIOUS
  <2>2. /\ e \in Conn /\ SameBody(Unopened, e)
        /\ e.route = "awaiting_start" /\ e.terminalSent = FALSE /\ e.after = "none"
        /\ e.wire = "silent"
    <3>1. Unopened \in Conn /\ Unopened.terminalSent = FALSE /\ Unopened.after = "none" /\ Unopened.wire = "silent"
      BY UnopenedIs
    <3>2. e \in Conn /\ SameBody(Unopened, e)
      BY <2>1, <3>1 DEF Conn, SameBody
    <3>3. /\ e.route = "awaiting_start" /\ e.terminalSent = FALSE /\ e.after = "none"
          /\ e.wire = "silent"
      BY <2>1, <3>1 DEF Conn
    <3> QED BY <3>2, <3>3
  <2>3. c = [e EXCEPT !.socket = "open"]
    BY <2>1, UnopenedIs DEF Conn
  <2>4. /\ c \in Conn /\ SameBody(e, c)
        /\ c.route = e.route /\ c.terminalSent = e.terminalSent /\ c.after = e.after
        /\ c.wire = e.wire /\ c.socket = "open"
    <3>1. e \in Conn
      BY <2>2
    <3>2. c \in Conn
      BY <2>3, <3>1 DEF Conn
    <3>3. SameBody(e, c)
      BY <2>3, <3>1 DEF Conn, SameBody
    <3>4. /\ c.route = e.route /\ c.terminalSent = e.terminalSent /\ c.after = e.after
          /\ c.wire = e.wire /\ c.socket = "open"
      BY <2>3, <3>1 DEF Conn
    <3> QED BY <3>2, <3>3, <3>4
  <2>5. SameBody(Unopened, c)
    BY <2>2, <2>4 DEF SameBody
  <2>6. /\ c.step = "none" /\ c.grant = 0 /\ c.seconds = 0 /\ c.billed = 0
        /\ c.terminal = "none" /\ c.state = "none" /\ c.provider = "none"
        /\ c.wallClock = FALSE /\ c.deadline = FALSE
    BY <2>5, UnopenedIs DEF SameBody
  <2>7. FaceFits(c)
    BY <2>2, <2>4, <2>6 DEF FaceFits
  <2>8. StartFits(c)
    BY <2>2, <2>4, <2>6 DEF StartFits
  <2>9. EndFits(c) /\ Attended(c)
    BY <2>2, <2>4, <2>6 DEF EndFits, Attended
  <2> QED BY <2>4, <2>6, <2>7, <2>8, <2>9 DEF Sound, Goes
<1>2. Unopened.step = "none" /\ Unopened.grant = 0 /\ Unopened.terminal = "none"
  BY UnopenedIs
<1>3. CASE d = c
  BY <1>1, <1>2, <1>3 DEF Keeps
<1>4. CASE d = Terminate(c, "error")
  <2>1. c.route = "awaiting_start"
    <3>1. c.route = [Unopened EXCEPT !.route = "awaiting_start"].route
      BY UnopenedIs DEF Conn
    <3> QED BY <3>1, UnopenedIs DEF Conn
  <2>2. Sound(d) /\ Moves(c, d) /\ d.route = "closed"
    BY <1>1, <1>4, <2>1, Answering
  <2> QED BY <1>1, <1>2, <2>2 DEF Moves, Keeps
<1> QED BY <1>3, <1>4

\* A start that is admitted holds nothing but its slot.
Admitted(c) == [[c EXCEPT !.route = "starting"] EXCEPT !.step = "usage", !.state = "streaming"]

LEMMA Admitting ==
  ASSUME NEW c, Sound(c), c.route = "awaiting_start",
         NEW d, d = Admitted(c)
  PROVE  /\ Sound(d) /\ d.step = "usage" /\ d.grant = 0 /\ d.terminal = "none"
         /\ d.route = "starting"
<1>1. c \in Conn /\ FaceFits(c) /\ StartFits(c) /\ EndFits(c)
  BY DEF Sound, Goes
<1>2. PICK e : e = [c EXCEPT !.route = "starting"]
  OBVIOUS
<1>3. e \in Conn /\ SameBody(c, e) /\ e.route = "starting" /\ e.terminalSent = c.terminalSent
      /\ e.after = c.after /\ e.socket = c.socket /\ e.wire = c.wire
  BY <1>1, <1>2, RouteIs
<1>4. PICK f : f = [e EXCEPT !.step = "usage"]
  OBVIOUS
<1>5. f \in Conn /\ SameFace(e, f) /\ SameBill(e, f) /\ SameRest(e, f) /\ SameTimers(e, f)
      /\ f.step = "usage" /\ f.provider = e.provider
  BY <1>3, <1>4, StepIs
<1>6. d = [f EXCEPT !.state = "streaming"]
  BY <1>3, <1>2, <1>4 DEF Conn, Admitted
<1>7. d \in Conn /\ SameFace(f, d) /\ SameBill(f, d)
  BY <1>5, <1>6 DEF Conn, SameFace, SameBill
<1>8. d.step = f.step /\ SameTimers(f, d) /\ d.provider = f.provider /\ d.terminal = f.terminal
      /\ d.state = "streaming"
  BY <1>5, <1>6 DEF Conn, SameTimers
<1>9. c.step = "none"
  BY <1>1 DEF StartFits
<1>10. /\ d.step = "usage" /\ d.provider = "none" /\ d.terminal = "none"
      /\ d.wallClock = FALSE /\ d.deadline = FALSE
  BY <1>1, <1>3, <1>5, <1>8, <1>9 DEF StartFits, SameBody, SameRest, SameTimers
<1>11. d.grant = 0 /\ d.seconds = 0 /\ d.billed = 0
  <2>1. c.grant = 0 /\ c.seconds = 0 /\ c.billed = 0
    BY <1>1, <1>9 DEF StartFits, EndFits
  <2> QED BY <1>3, <1>5, <1>7, <2>1 DEF SameBody, SameBill
<1>12. /\ d.route = "starting" /\ d.terminalSent = c.terminalSent
       /\ d.after = c.after /\ d.socket = c.socket /\ d.wire = c.wire
  BY <1>3, <1>5, <1>7 DEF SameFace
<1>13. FaceFits(d)
  BY <1>1, <1>9, <1>10, <1>12 DEF FaceFits
<1>14. StartFits(d)
  BY <1>8, <1>10, <1>11, <1>12 DEF StartFits, Starting
<1>15. EndFits(d) /\ Attended(d)
  BY <1>10, <1>11, <1>12 DEF EndFits, Attended
<1> QED BY <1>7, <1>10, <1>11, <1>12, <1>13, <1>14, <1>15 DEF Sound, Goes

\* The budget that is read becomes the grant.
AfterRead(c, grant) == [c EXCEPT !.step = "read", !.grant = grant]

LEMMA Reading ==
  ASSUME NEW c, Sound(c), c.step = "usage", NEW grant \in 0 .. Grant,
         NEW d, d = AfterRead(c, grant)
  PROVE  /\ Sound(d) /\ d.step = "read" /\ d.grant = grant /\ d.terminal = "none"
         /\ c.terminal = "none" /\ c.grant = 0 /\ d.route # "awaiting_start"
<1>1. c \in Conn /\ FaceFits(c) /\ StartFits(c) /\ EndFits(c) /\ Attended(c)
  BY DEF Sound, Goes
<1>2. PICK e : e = [c EXCEPT !.step = "read"]
  OBVIOUS
<1>3. e \in Conn /\ SameFace(c, e) /\ SameBill(c, e) /\ SameRest(c, e) /\ SameTimers(c, e)
      /\ e.step = "read" /\ e.provider = c.provider
  BY <1>1, <1>2, StepIs
<1>4. d = [e EXCEPT !.grant = grant]
  BY <1>1, <1>2 DEF Conn, AfterRead
<1>5. d \in Conn /\ SameFace(e, d) /\ d.step = e.step /\ SameTimers(e, d)
      /\ d.provider = e.provider
  BY <1>3, <1>4 DEF Conn, SameFace, SameTimers
<1>6. /\ d.terminal = e.terminal /\ d.state = e.state
      /\ d.grant = grant /\ d.seconds = e.seconds /\ d.billed = e.billed
  BY <1>3, <1>4 DEF Conn
<1>7. /\ c.terminal = "none" /\ c.grant = 0 /\ c.seconds = 0 /\ c.billed = 0
      /\ c.wallClock = FALSE /\ c.deadline = FALSE /\ c.provider = "none"
      /\ c.state \notin {"finishing", "settled"}
  BY <1>1 DEF StartFits, EndFits
<1>8. /\ d.step = "read" /\ d.terminal = "none" /\ d.seconds = 0 /\ d.billed = 0
      /\ d.wallClock = FALSE /\ d.deadline = FALSE /\ d.provider = "none"
      /\ d.state = c.state
  BY <1>3, <1>5, <1>6, <1>7 DEF SameBill, SameRest, SameTimers
<1>9. SameFace(c, d)
  BY <1>3, <1>5 DEF SameFace
<1>10. FaceFits(d)
  BY <1>1, <1>8, <1>9 DEF FaceFits, SameFace
<1>11. d.route \notin {"unopened", "awaiting_start", "streaming", "finishing"}
  BY <1>1, <1>9 DEF StartFits, SameFace, Unopened
<1>12. StartFits(d)
  BY <1>7, <1>8, <1>11 DEF StartFits, Starting
<1>13. EndFits(d)
  BY <1>6, <1>8 DEF EndFits
<1>14. Attended(d)
  BY <1>1, <1>7, <1>9 DEF Attended, SameFace
<1> QED BY <1>5, <1>6, <1>7, <1>8, <1>10, <1>11, <1>12, <1>13, <1>14 DEF Sound, Goes

LEMMA AwaitingTerms ==
  ASSUME NEW c, Sound(c), c.step = "read", NEW d, d = [c EXCEPT !.step = "terms"]
  PROVE  Sound(d) /\ Moves(c, d)
<1>1. c \in Conn /\ FaceFits(c) /\ StartFits(c) /\ EndFits(c) /\ Attended(c)
  BY DEF Sound, Goes
<1>2. d \in Conn /\ SameFace(c, d) /\ SameBill(c, d) /\ SameRest(c, d) /\ SameTimers(c, d)
      /\ d.step = "terms" /\ d.provider = c.provider
  BY <1>1, StepIs
<1>3. d.route \notin {"unopened", "awaiting_start", "streaming", "finishing"}
  BY <1>1, <1>2 DEF StartFits, SameFace, Unopened
<1>4. FaceFits(d)
  BY <1>1, <1>2 DEF FaceFits, SameFace
<1>5. StartFits(d)
  BY <1>1, <1>2, <1>3 DEF StartFits, Starting, SameBill, SameRest, SameTimers
<1>6. EndFits(d)
  BY <1>1, <1>2 DEF EndFits, StartFits, SameBill, SameRest
<1>7. Attended(d)
  BY <1>1, <1>2 DEF Attended, SameFace, SameRest
<1>8. Moves(c, d)
  BY <1>1, <1>2, <1>3 DEF StartFits, Moves, Keeps, SameBill, SameRest
<1> QED BY <1>2, <1>4, <1>5, <1>6, <1>7, <1>8 DEF Sound, Goes

\* A start fails while the database, the glossary or the provider is awaited.
LEMMA Refused ==
  ASSUME NEW c, Sound(c), Starting(c),
         NEW e, \/ e = c /\ c.provider # "connecting"
                \/ e = [c EXCEPT !.provider = "gone"],
         NEW d, d = StartFails(e)
  PROVE  Sound(d) /\ Moves(c, d)
<1>1. c \in Conn
  BY DEF Sound, Goes
<1>2. Failing(c)
  BY StartsMayFail
<1>3. CASE e = c /\ c.provider # "connecting"
  BY <1>2, <1>3, StartFailing
<1>4. CASE e = [c EXCEPT !.provider = "gone"]
  <2>1. e \in Conn /\ SameFace(c, e) /\ SameBill(c, e) /\ SameRest(c, e)
        /\ e.step = c.step /\ e.provider = "gone"
    BY <1>1, <1>4, ProviderIs
  <2>2. Starting(e) /\ e.terminal = "none"
    BY <1>2, <2>1 DEF Failing, Starting, SameRest
  <2>3. Failing(e)
    BY <1>2, <2>1, <2>2 DEF Failing, SameFace, SameBill
  <2>4. Sound(d) /\ Moves(e, d)
    BY <2>1, <2>3, StartFailing
  <2>5. Moves(c, e)
    BY <1>2, <2>1, <2>2 DEF Failing, Moves, Keeps, SameFace, SameBill, SameRest
  <2> QED BY <2>4, <2>5 DEF Moves, Keeps
<1> QED BY <1>3, <1>4

\* What a session hears or is told of while it is live, which leaves its route alone.
Heard(c, n, d) ==
  \/ d = [c EXCEPT !.seconds = n]
  \/ d = [c EXCEPT !.seconds = n, !.deadline = TRUE]
  \/ d = [c EXCEPT !.provider = "gone"]
  \/ d = [c EXCEPT !.state = "settled"]

LEMMA Hearing ==
  ASSUME NEW c, Sound(c), c.step = "live", c.terminal = "none",
         NEW n \in c.seconds .. c.grant, NEW d, Heard(c, n, d)
  PROVE  Sound(d) /\ Moves(c, d) /\ d.step = "live"
<1>1. c \in Conn /\ FaceFits(c) /\ StartFits(c) /\ EndFits(c) /\ Attended(c)
  BY DEF Sound, Goes
<1>2. n \in 0 .. Grant /\ n <= c.grant
  <2>1. c.seconds \in 0 .. Grant /\ c.grant \in 0 .. Grant
    BY <1>1 DEF Conn
  <2>2. Grant \in Nat
    BY RealtimeAssumption DEF Grant, Least
  <2> QED BY <2>1, <2>2
<1>3. /\ d \in Conn /\ SameFace(c, d) /\ d.step = c.step /\ d.terminal = c.terminal
      /\ d.grant = c.grant /\ d.billed = c.billed /\ d.unbilled = c.unbilled
      /\ d.seconds \in {c.seconds, n} /\ d.provider \in {c.provider, "gone"}
      /\ d.wallClock = c.wallClock /\ d.deadline \in {c.deadline, TRUE}
      /\ d.state \in {c.state, "settled"}
  <2>1. CASE d = [c EXCEPT !.seconds = n]
    <3>1. d \in Conn /\ SameFace(c, d)
      BY <1>1, <1>2, <2>1 DEF Conn, SameFace
    <3> QED BY <1>1, <2>1, <3>1 DEF Conn
  <2>2. CASE d = [c EXCEPT !.seconds = n, !.deadline = TRUE]
    <3>1. PICK e : e = [c EXCEPT !.seconds = n]
      OBVIOUS
    <3>2. e \in Conn /\ SameFace(c, e)
      BY <1>1, <1>2, <3>1 DEF Conn, SameFace
    <3>3. d = [e EXCEPT !.deadline = TRUE]
      BY <1>1, <2>2, <3>1 DEF Conn
    <3>4. d \in Conn /\ SameFace(e, d)
      BY <3>2, <3>3 DEF Conn, SameFace
    <3>5. SameFace(c, d)
      BY <3>2, <3>4 DEF SameFace
    <3> QED BY <1>1, <2>2, <3>4, <3>5 DEF Conn
  <2>3. CASE d = [c EXCEPT !.provider = "gone"]
    BY <1>1, <2>3, ProviderIs DEF SameBill, SameRest, SameTimers, Conn
  <2>4. CASE d = [c EXCEPT !.state = "settled"]
    <3>1. d \in Conn /\ SameFace(c, d)
      BY <1>1, <2>4 DEF Conn, SameFace
    <3> QED BY <1>1, <2>4, <3>1 DEF Conn
  <2> QED BY <2>1, <2>2, <2>3, <2>4 DEF Heard
<1>4. FaceFits(d)
  BY <1>1, <1>3 DEF FaceFits, SameFace
<1>5. d.route \notin {"unopened", "awaiting_start", "starting"}
  BY <1>1, <1>3 DEF StartFits, SameFace, Starting, Unopened
<1>6. StartFits(d)
  BY <1>1, <1>3, <1>5 DEF StartFits
<1>7. EndFits(d)
  <2>1. d.seconds <= d.grant
    BY <1>1, <1>2, <1>3 DEF EndFits
  <2>2. d.billed = 0 /\ d.terminal = "none"
    BY <1>1, <1>3 DEF EndFits
  <2> QED BY <2>1, <2>2 DEF EndFits
<1>8. Attended(d)
  BY <1>1, <1>3 DEF Attended, SameFace
<1>9. Moves(c, d)
  BY <1>3, <1>5 DEF Moves, Keeps
<1> QED BY <1>3, <1>4, <1>6, <1>7, <1>8, <1>9 DEF Sound, Goes

\* A provider that is gone takes nothing with it but the connection.
LEMMA Losing ==
  ASSUME NEW c, Sound(c), c.provider = "open", NEW d, d = [c EXCEPT !.provider = "gone"]
  PROVE  Sound(d) /\ Moves(c, d) /\ d.step = "live"
<1>1. c \in Conn /\ StartFits(c) /\ EndFits(c)
  BY DEF Sound, Goes
<1>2. c.step = "live" /\ c.terminal = "none"
  BY <1>1 DEF StartFits, EndFits, Conn
<1>3. c.seconds \in c.seconds .. c.grant
  BY <1>1 DEF EndFits, Conn
<1>4. Heard(c, c.seconds, d)
  BY DEF Heard
<1> QED BY <1>2, <1>3, <1>4, Hearing

\* A handler closes the route and awaits the end of the session.
GivesUp(c, e) ==
  \/ e = [c EXCEPT !.route = "closed", !.after = "cancel"]
  \/ e = [Closed(c) EXCEPT !.after = "terminate"]

LEMMA Giving ==
  ASSUME NEW c, Sound(c), c.route \in {"streaming", "finishing"},
         NEW e, GivesUp(c, e), NEW d, d = BeginTerminal(e, "silent")
  PROVE  Sound(d) /\ Moves(c, d)
<1>1. c \in Conn /\ FaceFits(c) /\ StartFits(c) /\ EndFits(c)
  BY DEF Sound, Goes
<1>2. c.step = "live" /\ c.terminal # "done" /\ c.socket \in {"open", "stalled"}
  BY <1>1 DEF FaceFits, StartFits, EndFits
<1>3. /\ e \in Conn /\ SameBody(c, e) /\ e.route = "closed"
      /\ e.after \in {"cancel", "terminate"} /\ e.socket = c.socket /\ e.wire = c.wire
  <2>1. CASE e = [c EXCEPT !.route = "closed", !.after = "cancel"]
    <3>1. PICK f : f = [c EXCEPT !.route = "closed"]
      OBVIOUS
    <3>2. f \in Conn /\ SameBody(c, f) /\ f.route = "closed"
          /\ f.socket = c.socket /\ f.wire = c.wire
      BY <1>1, <3>1, RouteIs
    <3>3. e = [f EXCEPT !.after = "cancel"]
      BY <1>1, <2>1, <3>1 DEF Conn
    <3>4. e \in Conn /\ SameBody(f, e) /\ e.route = f.route /\ e.after = "cancel"
          /\ e.socket = f.socket /\ e.wire = f.wire
      BY <3>2, <3>3 DEF Conn, SameBody
    <3> QED BY <3>2, <3>4 DEF SameBody
  <2>2. CASE e = [Closed(c) EXCEPT !.after = "terminate"]
    <3>1. PICK f : f = Closed(c)
      OBVIOUS
    <3>2. f \in Conn /\ SameBody(c, f) /\ f.route = "closed"
          /\ f.socket = c.socket /\ f.wire = c.wire
      BY <1>1, <3>1, ClosedIs
    <3>3. e = [f EXCEPT !.after = "terminate"]
      BY <2>2, <3>1
    <3>4. e \in Conn /\ SameBody(f, e) /\ e.route = f.route /\ e.after = "terminate"
          /\ e.socket = f.socket /\ e.wire = f.wire
      BY <3>2, <3>3 DEF Conn, SameBody
    <3> QED BY <3>2, <3>4 DEF SameBody
  <2> QED BY <2>1, <2>2 DEF GivesUp
<1>4. FaceFits(e)
  BY <1>1, <1>2, <1>3 DEF FaceFits, SameBody
<1>5. StartFits(e)
  BY <1>1, <1>2, <1>3 DEF StartFits, SameBody
<1>6. EndFits(e)
  BY <1>1, <1>2, <1>3 DEF EndFits, SameBody
<1>7. e.step = "live"
  BY <1>2, <1>3 DEF SameBody
<1>8. Sound(d) /\ Moves(e, d)
  BY <1>3, <1>4, <1>5, <1>6, <1>7, Ending DEF Goes
<1> QED BY <1>3, <1>8 DEF Moves, Keeps, SameBody

\* The client has no more audio.
LEMMA Stopping ==
  ASSUME NEW c, Sound(c), c.route = "streaming",
         NEW e, e = [c EXCEPT !.route = "finishing"],
         NEW d, d = BeginFinish(e)
  PROVE  Sound(d) /\ Moves(c, d)
<1>1. c \in Conn /\ FaceFits(c) /\ StartFits(c) /\ EndFits(c)
  BY DEF Sound, Goes
<1>2. e \in Conn /\ SameBody(c, e) /\ e.route = "finishing" /\ e.terminalSent = c.terminalSent
      /\ e.after = c.after /\ e.socket = c.socket /\ e.wire = c.wire
  BY <1>1, RouteIs
<1>3. e.step = "live"
  BY <1>1, <1>2 DEF StartFits, SameBody
<1>4. FaceFits(e)
  BY <1>1, <1>2 DEF FaceFits, SameBody
<1>5. StartFits(e)
  BY <1>1, <1>2, <1>3 DEF StartFits, SameBody
<1>6. EndFits(e)
  BY <1>1, <1>2 DEF EndFits, SameBody
<1>7. Sound(e)
  BY <1>2, <1>4, <1>5, <1>6 DEF Sound, Goes, Attended
<1>8. Sound(d) /\ Moves(e, d)
  BY <1>3, <1>7, Finishing
<1> QED BY <1>2, <1>8 DEF Moves, Keeps, SameBody

LEMMA Stalling ==
  ASSUME NEW c, Sound(c), Sendable(c), NEW d, d = [c EXCEPT !.socket = "stalled"]
  PROVE  Sound(d) /\ Moves(c, d)
<1>1. c \in Conn /\ FaceFits(c) /\ StartFits(c) /\ EndFits(c) /\ Attended(c)
  BY DEF Sound, Goes
<1>2. d \in Conn /\ SameBody(c, d) /\ d.route = c.route /\ d.terminalSent = c.terminalSent
      /\ d.after = c.after /\ d.socket = "stalled" /\ d.wire = c.wire
  BY <1>1 DEF Conn, SameBody
<1>3. c.socket = "open"
  BY DEF Sendable
<1>4. FaceFits(d)
  BY <1>1, <1>2, <1>3 DEF FaceFits
<1>5. c.route # "unopened"
  BY <1>1, <1>3, UnopenedIs DEF StartFits
<1>6. StartFits(d)
  BY <1>1, <1>2, <1>5 DEF StartFits, SameBody, Starting
<1>7. EndFits(d)
  BY <1>1, <1>2, <1>3 DEF EndFits, SameBody
<1>8. Attended(d) /\ Moves(c, d)
  BY <1>1, <1>2, <1>3 DEF Attended, Moves, Keeps, SameBody
<1> QED BY <1>2, <1>4, <1>6, <1>7, <1>8 DEF Sound, Goes

\* The usage write is over, and the seconds are billed if it has succeeded.
LEMMA Recording ==
  ASSUME NEW c, Sound(c), c.terminal = "recording",
         NEW e, \/ e = [c EXCEPT !.billed = @ + c.seconds]
                \/ e = [c EXCEPT !.unbilled = TRUE],
         NEW d, d = CompleteTerminal(e)
  PROVE  Sound(d) /\ Moves(c, d) /\ d.terminal = "done"
<1>1. c \in Conn /\ FaceFits(c) /\ StartFits(c) /\ EndFits(c)
  BY DEF Sound, Goes
<1>2. /\ c.step = "live" /\ c.billed = 0 /\ c.provider = "gone"
      /\ c.wallClock = FALSE /\ c.deadline = FALSE /\ c.state = "closed"
      /\ c.seconds <= c.grant /\ c.unbilled = FALSE /\ (c.decision = "silent" => c.route = "closed")
  BY <1>1 DEF StartFits, EndFits
<1>3. c.seconds \in Nat
  BY <1>1 DEF Conn
<1>4. /\ e \in Conn /\ SameFace(c, e) /\ SameTimers(c, e)
      /\ e.step = c.step /\ e.provider = c.provider /\ e.state = c.state
      /\ e.decision = c.decision /\ e.terminal = c.terminal
      /\ e.grant = c.grant /\ e.seconds = c.seconds
      /\ e.billed = IF e.unbilled = FALSE THEN c.seconds ELSE 0
  <2>1. CASE e = [c EXCEPT !.billed = @ + c.seconds]
    <3>1. e = [c EXCEPT !.billed = c.seconds]
      BY <1>1, <1>2, <1>3, <2>1 DEF Conn
    <3>2. e \in Conn /\ SameFace(c, e) /\ SameTimers(c, e)
      BY <1>1, <1>3, <3>1 DEF Conn, SameFace, SameTimers
    <3> QED BY <1>1, <1>2, <3>1, <3>2 DEF Conn
  <2>2. CASE e = [c EXCEPT !.unbilled = TRUE]
    <3>1. e \in Conn /\ SameFace(c, e) /\ SameTimers(c, e)
      BY <1>1, <2>2 DEF Conn, SameFace, SameTimers
    <3> QED BY <1>1, <1>2, <2>2, <3>1 DEF Conn
  <2> QED BY <2>1, <2>2
<1>5. FaceFits(e) /\ e.route # "unopened"
  BY <1>1, <1>2, <1>4, UnopenedIs DEF FaceFits, StartFits, SameFace
<1>6. /\ d \in Conn /\ FaceFits(d) /\ SameBill(e, d)
      /\ d.route = "closed" /\ d.socket \notin {"open", "stalled"}
      /\ d.step = e.step
      /\ d.state = e.state
      /\ d.wallClock = e.wallClock /\ d.deadline = e.deadline
      /\ d.terminal = "done" /\ d.unbilled = e.unbilled
      /\ d.provider = e.provider
  <2>1. e \in Conn /\ e.step = "live" /\ (e.decision = "silent" => e.route = "closed")
    BY <1>2, <1>4 DEF SameFace
  <2> QED BY <1>5, <2>1, CompleteTerminalIs
<1>7. StartFits(d)
  BY <1>2, <1>4, <1>6 DEF StartFits, SameTimers
<1>8. EndFits(d)
  BY <1>2, <1>4, <1>6 DEF EndFits, SameBill, SameTimers
<1>9. Attended(d) /\ Moves(c, d)
  BY <1>2, <1>4, <1>6 DEF Attended, Moves, Keeps, SameBill
<1> QED BY <1>6, <1>7, <1>8, <1>9 DEF Sound, Goes

\* The shutdown answers whoever waits, aborts what starts and ends what is live.
LEMMA ShuttingDown ==
  ASSUME NEW c, Sound(c), NEW d, d = ShutDown(c)
  PROVE  Sound(d) /\ Moves(c, d) /\ d.route # "awaiting_start"
<1>1. c \in Conn /\ FaceFits(c) /\ StartFits(c) /\ EndFits(c) /\ Attended(c)
  BY DEF Sound, Goes
<1>2. CASE c.route = "awaiting_start"
  BY <1>2, Answering DEF ShutDown
<1>3. CASE c.route # "awaiting_start" /\ Starting(c)
  <2>1. d = Abort(c)
    BY <1>3 DEF ShutDown
  <2>2. /\ d \in Conn /\ SameFace(c, d) /\ SameBill(c, d)
        /\ d.step = c.step /\ d.state = c.state
        /\ d.wallClock = c.wallClock /\ d.deadline = c.deadline
        /\ d.terminal = c.terminal /\ d.decision = c.decision /\ d.unbilled = c.unbilled
        /\ d.provider = Hung(c.provider)
    <3>1. Aborted(c, d)
      BY <1>1, <2>1, AbortIs
    <3> QED BY <3>1 DEF Aborted
  <2>3. c.provider # "open"
    BY <1>1, <1>3 DEF StartFits, Starting
  <2>4. d.provider = c.provider
    BY <2>2, <2>3 DEF Hung
  <2>5. FaceFits(d)
    BY <1>1, <2>2 DEF FaceFits, SameFace
  <2>6. c.route \in {"starting", "closed"} /\ c.step \notin {"none", "live", "failed"}
    BY <1>3, StartsMayFail DEF Failing, Starting
  <2>7. StartFits(d)
    BY <1>1, <2>2, <2>4, <2>6 DEF StartFits, SameFace, SameBill, Starting
  <2>8. EndFits(d)
    BY <1>1, <2>2, <2>4 DEF EndFits, SameFace, SameBill
  <2>9. Attended(d) /\ Moves(c, d) /\ d.route # "awaiting_start"
    BY <1>1, <1>3, <2>2 DEF Attended, Moves, Keeps, SameFace, SameBill
  <2> QED BY <2>2, <2>5, <2>7, <2>8, <2>9 DEF Sound, Goes
<1>4. CASE c.route # "awaiting_start" /\ ~Starting(c) /\ c.step = "live"
  <2>1. Sound(d) /\ Moves(c, d)
    BY <1>4, Ending DEF ShutDown, HasSession, Sound
  <2> QED BY <1>4, <2>1 DEF Moves
<1>5. CASE c.route # "awaiting_start" /\ ~Starting(c) /\ c.step # "live"
  BY <1>5 DEF ShutDown, HasSession, Moves, Keeps
<1> QED BY <1>2, <1>3, <1>4, <1>5

-----------------------------------------------------------------------------
(* Slots. *)

LEMMA GrantIsNatural ==
  /\ Grant \in Nat /\ Grant <= DailyLimit /\ Bound \in Int
  /\ MaxPerUser \in Nat /\ DailyLimit \in Nat
<1>1. /\ Grant \in Nat /\ Grant <= DailyLimit
      /\ MaxPerUser \in Nat /\ DailyLimit \in Nat /\ MaxPerUser - 1 \in Int
  BY RealtimeAssumption DEF Grant, Least
<1>2. (MaxPerUser - 1) * Grant \in Int
  BY <1>1
<1> QED BY <1>1, <1>2 DEF Bound

LEMMA OfUserIsFinite ==
  ASSUME NEW S \in SUBSET Sockets, NEW u
  PROVE  /\ IsFiniteSet(S) /\ Cardinality(S) \in Nat
         /\ IsFiniteSet(OfUser(S, u)) /\ Cardinality(OfUser(S, u)) \in Nat
<1>1. IsFiniteSet(S)
  BY RealtimeAssumption, FS_Subset
<1>2. OfUser(S, u) \subseteq S
  BY DEF OfUser
<1>3. IsFiniteSet(OfUser(S, u))
  BY <1>1, <1>2, FS_Subset
<1> QED BY <1>1, <1>3, FS_CardinalityType

LEMMA KeepsHolding ==
  ASSUME NEW c, NEW d, Keeps(c, d), Holding(d)
  PROVE  Holding(c) /\ d.grant = c.grant
BY DEF Keeps, Holding

\* A settled turn frees exactly the slots of what has ended in it.
LEMMA SlotsSettle ==
  ASSUME TypeOK, SlotsAreExact, NEW new, \A s \in Sockets : Keeps(conn[s], new[s]),
         SettleAll(new)
  PROVE  /\ SlotsAreExact' /\ active' \subseteq active /\ perUser' \in [Users -> Nat]
<1> DEFINE R == Released(new)
<1>1. conn' = new /\ active' = active \ R
      /\ perUser' = [u \in Users |-> perUser[u] - Cardinality(OfUser(R \cap active, u))]
  BY DEF SettleAll, Release
<1>2. active' = {s \in Sockets : Holding(conn'[s])}
  <2>1. ASSUME NEW s \in Sockets
        PROVE  s \in active' <=> Holding(conn'[s])
    <3>1. s \in active <=> Holding(conn[s])
      BY DEF SlotsAreExact
    <3>2. s \in R <=> \/ new[s].terminal = "done" /\ conn[s].terminal # "done"
                      \/ new[s].step = "failed" /\ conn[s].step # "failed"
      BY DEF Released
    <3>3. Keeps(conn[s], new[s])
      OBVIOUS
    <3>4. Holding(new[s]) <=> Holding(conn[s]) /\ s \notin R
      BY <3>2, <3>3 DEF Keeps, Holding
    <3> QED BY <1>1, <3>1, <3>4
  <2>2. active' \subseteq Sockets
    BY <1>1 DEF TypeOK
  <2> QED BY <2>1, <2>2
<1>3. ASSUME NEW u \in Users
      PROVE  /\ perUser'[u] = Cardinality(OfUser(active', u)) /\ perUser'[u] \in Nat
             /\ perUser'[u] <= MaxPerUser
  <2>1. OfUser(active', u) = OfUser(active, u) \ OfUser(R \cap active, u)
    BY <1>1 DEF OfUser
  <2>2. OfUser(active, u) \cap OfUser(R \cap active, u) = OfUser(R \cap active, u)
    BY DEF OfUser
  <2>3. active \in SUBSET Sockets /\ active' \in SUBSET Sockets
    BY <1>1 DEF TypeOK
  <2>4. IsFiniteSet(OfUser(active, u)) /\ Cardinality(OfUser(active, u)) \in Nat
        /\ Cardinality(OfUser(active', u)) \in Nat
        /\ Cardinality(OfUser(R \cap active, u)) \in Nat
    BY <2>3, OfUserIsFinite
  <2>5. Cardinality(OfUser(active', u))
          = Cardinality(OfUser(active, u)) - Cardinality(OfUser(R \cap active, u))
    BY <2>1, <2>2, <2>4, FS_Difference
  <2>6. perUser[u] = Cardinality(OfUser(active, u)) /\ perUser[u] <= MaxPerUser
    BY DEF SlotsAreExact
  <2>7. perUser'[u] = perUser[u] - Cardinality(OfUser(R \cap active, u))
    BY <1>1
  <2> QED BY <2>4, <2>5, <2>6, <2>7, GrantIsNatural
<1>4. Cardinality(active') <= MaxTotal
  <2>1. active \in SUBSET Sockets /\ active' \in SUBSET active
    BY <1>1 DEF TypeOK
  <2>2. IsFiniteSet(active) /\ Cardinality(active) \in Nat /\ Cardinality(active') \in Nat
    BY <2>1, OfUserIsFinite
  <2>3. Cardinality(active') <= Cardinality(active)
    BY <2>1, <2>2, FS_Subset
  <2>4. Cardinality(active) <= MaxTotal /\ MaxTotal \in Nat
    BY RealtimeAssumption DEF SlotsAreExact
  <2> QED BY <2>2, <2>3, <2>4
<1>5. perUser' \in [Users -> Nat]
  <2>1. DOMAIN perUser' = Users /\ perUser' = [u \in Users |-> perUser'[u]]
    BY <1>1
  <2> QED BY <1>3, <2>1
<1>6. active' \subseteq active
  BY <1>1
<1> QED BY <1>2, <1>3, <1>4, <1>5, <1>6 DEF SlotsAreExact

\* A turn in which nothing ends frees none.
LEMMA SlotsStay ==
  ASSUME SlotsAreExact, UNCHANGED <<active, perUser>>,
         \A s \in Sockets : Holding(conn'[s]) <=> Holding(conn[s])
  PROVE  SlotsAreExact'
BY DEF SlotsAreExact

\* A start is admitted below both ceilings.
LEMMA SlotsGrow ==
  ASSUME TypeOK, SlotsAreExact, NEW s \in Sockets, ~AtCapacity(UserOf[s]),
         ~Holding(conn[s]), Holding(conn'[s]),
         \A t \in Sockets \ {s} : conn'[t] = conn[t],
         active' = active \cup {s}, perUser' = [perUser EXCEPT ![UserOf[s]] = @ + 1]
  PROVE  /\ SlotsAreExact' /\ perUser' \in [Users -> Nat]
<1>1. active' = {t \in Sockets : Holding(conn'[t])}
  <2>1. ASSUME NEW t \in Sockets
        PROVE  t \in active' <=> Holding(conn'[t])
    <3>1. CASE t = s
      BY <3>1
    <3>2. CASE t # s
      <4>1. conn'[t] = conn[t]
        BY <3>2
      <4> QED BY <3>2, <4>1 DEF SlotsAreExact
    <3> QED BY <3>1, <3>2
  <2>2. active' \subseteq Sockets
    BY DEF TypeOK
  <2> QED BY <2>1, <2>2
<1>2. s \notin active
  BY DEF SlotsAreExact
<1>3. active \in SUBSET Sockets /\ UserOf[s] \in Users /\ perUser \in [Users -> Nat]
      /\ MaxTotal \in Nat
  BY RealtimeAssumption DEF TypeOK
<1>4. IsFiniteSet(active) /\ Cardinality(active) \in Nat
  BY <1>3, OfUserIsFinite
<1>5. Cardinality(active') = Cardinality(active) + 1
  BY <1>2, <1>4, FS_AddElement
<1>6. Cardinality(active') <= MaxTotal
  BY <1>3, <1>4, <1>5 DEF AtCapacity
<1>7. perUser' \in [Users -> Nat]
  BY <1>3
<1>8. ASSUME NEW u \in Users
      PROVE  perUser'[u] = Cardinality(OfUser(active', u)) /\ perUser'[u] <= MaxPerUser
  <2>1. perUser[u] = Cardinality(OfUser(active, u)) /\ perUser[u] <= MaxPerUser
    BY DEF SlotsAreExact
  <2>2. CASE u = UserOf[s]
    <3>1. OfUser(active', u) = OfUser(active, u) \cup {s} /\ s \notin OfUser(active, u)
      BY <1>2, <2>2 DEF OfUser
    <3>2. IsFiniteSet(OfUser(active, u)) /\ Cardinality(OfUser(active, u)) \in Nat
      BY <1>3, OfUserIsFinite
    <3>3. Cardinality(OfUser(active', u)) = Cardinality(OfUser(active, u)) + 1
      BY <3>1, <3>2, FS_AddElement
    <3>4. perUser'[u] = perUser[u] + 1 /\ perUser[u] < MaxPerUser
      BY <1>3, <2>2, GrantIsNatural DEF AtCapacity
    <3> QED BY <2>1, <3>2, <3>3, <3>4, GrantIsNatural
  <2>3. CASE u # UserOf[s]
    <3>1. OfUser(active', u) = OfUser(active, u)
      BY <2>3 DEF OfUser
    <3>2. perUser'[u] = perUser[u]
      BY <1>3, <2>3
    <3> QED BY <2>1, <3>1, <3>2
  <2> QED BY <2>2, <2>3
<1> QED BY <1>1, <1>6, <1>7, <1>8 DEF SlotsAreExact

-----------------------------------------------------------------------------
(* Budget. *)

LEMMA Scale ==
  ASSUME NEW a \in Int, NEW b \in Int, NEW m \in Nat, a <= b
  PROVE  /\ a * m \in Int /\ b * m \in Int /\ a * m <= b * m
         /\ (a - 1) * m = a * m - m
<1>1. PICK d \in Nat : b = a + d
  <2>1. b - a \in Nat /\ b = a + (b - a)
    OBVIOUS
  <2> QED BY <2>1
<1>2. b * m = a * m + d * m /\ d * m >= 0
  BY <1>1
<1>3. (a - 1) * m = a * m - m
  OBVIOUS
<1> QED BY <1>2, <1>3

LEMMA GrantedIsFinite ==
  ASSUME NEW u
  PROVE  IsFiniteSet(Granted(u)) /\ Cardinality(Granted(u)) \in Nat
<1>1. Granted(u) \in SUBSET Sockets
  BY DEF Granted
<1> QED BY <1>1, RealtimeAssumption, FS_Subset, FS_CardinalityType

\* Where nobody is granted more and nothing is written, the budget stays kept.
LEMMA BudgetStays ==
  ASSUME TypeOK, BudgetIsKept, used' \in [Users -> Nat],
         \A u \in Users : used'[u] <= used[u],
         \A s \in Sockets : Holding(conn'[s]) /\ conn'[s].grant > 0
                              => Holding(conn[s]) /\ conn'[s].grant = conn[s].grant
  PROVE  BudgetIsKept'
<1> SUFFICES ASSUME NEW u \in Users
             PROVE  \/ used'[u] + Cardinality(Granted(u)') * Grant <= Bound
                    \/ \E s \in Granted(u)' :
                         used'[u] + conn'[s].grant + (Cardinality(Granted(u)') - 1) * Grant
                           <= Bound
  BY DEF BudgetIsKept, Bound
<1> DEFINE G == Granted(u)
           H == Granted(u)'
           a == Cardinality(G)
           b == Cardinality(H)
<1>1. H \in SUBSET G /\ \A s \in H : conn'[s].grant = conn[s].grant
  BY DEF Granted
<1>2. IsFiniteSet(G) /\ a \in Nat
  BY GrantedIsFinite
<1>3. IsFiniteSet(H) /\ b \in Nat /\ b <= a
  BY <1>1, <1>2, FS_Subset, FS_CardinalityType
<1>4. used[u] \in Nat /\ used'[u] \in Nat /\ used'[u] <= used[u]
  BY DEF TypeOK
<1>5. b * Grant <= a * Grant /\ b * Grant \in Int /\ a * Grant \in Int
      /\ (a - 1) * Grant = a * Grant - Grant /\ (b - 1) * Grant = b * Grant - Grant
  BY <1>2, <1>3, Scale, GrantIsNatural
<1>6. CASE used[u] + a * Grant <= Bound
  <2>1. used'[u] + b * Grant <= Bound
    BY <1>4, <1>5, <1>6, GrantIsNatural
  <2> QED BY <2>1
<1>7. CASE \E s \in G : used[u] + conn[s].grant + (a - 1) * Grant <= Bound
  <2>1. PICK s \in G : used[u] + conn[s].grant + (a - 1) * Grant <= Bound
    BY <1>7
  <2>2. conn[s].grant \in Nat /\ conn[s].grant <= Grant
    BY GrantIsNatural DEF Granted, TypeOK, Conn
  <2>3. CASE s \in H
    <3>1. conn'[s].grant = conn[s].grant
      BY <1>1, <2>3
    <3>2. used'[u] + conn'[s].grant + (b - 1) * Grant <= Bound
      BY <1>4, <1>5, <2>1, <2>2, <3>1, GrantIsNatural
    <3> QED BY <2>3, <3>2
  <2>4. CASE s \notin H
    <3>1. b <= a - 1
      <4>1. H \in SUBSET (G \ {s})
        BY <1>1, <2>4
      <4>2. IsFiniteSet(G \ {s}) /\ Cardinality(G \ {s}) = a - 1
        BY <1>2, FS_RemoveElement
      <4> QED BY <4>1, <4>2, FS_Subset
    <3>2. b * Grant <= (a - 1) * Grant
      BY <1>2, <1>3, <3>1, Scale, GrantIsNatural
    <3>3. used'[u] + b * Grant <= Bound
      BY <1>4, <1>5, <2>1, <2>2, <3>2, GrantIsNatural
    <3> QED BY <3>3
  <2> QED BY <2>3, <2>4
<1>8. \/ used[u] + a * Grant <= Bound
      \/ \E s \in G : used[u] + conn[s].grant + (a - 1) * Grant <= Bound
  BY DEF BudgetIsKept
<1> HIDE DEF G, H
<1> QED BY <1>6, <1>7, <1>8

\* What is granted to a session may all be billed, and no other that holds a slot is
\* granted more than a whole grant.
LEMMA BudgetReads ==
  ASSUME TypeOK, BudgetIsKept, SlotsAreExact', NEW s \in Sockets, UNCHANGED used,
         \A t \in Sockets \ {s} : conn'[t] = conn[t],
         Holding(conn[s]), Holding(conn'[s]), conn[s].grant = 0,
         conn'[s].grant = Least(MaxSession, Most(0, DailyLimit - used[UserOf[s]]))
  PROVE  BudgetIsKept'
<1> DEFINE v == UserOf[s]
           H == Granted(v)'
           b == Cardinality(H)
<1>1. v \in Users /\ used[v] \in Nat
  BY RealtimeAssumption DEF TypeOK
<1>2. CASE conn'[s].grant = 0
  <2>1. \A t \in Sockets : Holding(conn'[t]) /\ conn'[t].grant > 0
                             => Holding(conn[t]) /\ conn'[t].grant = conn[t].grant
    BY <1>2
  <2>2. used' \in [Users -> Nat] /\ \A u \in Users : used'[u] <= used[u]
    BY DEF TypeOK
  <2> QED BY <2>1, <2>2, BudgetStays
<1>3. CASE conn'[s].grant # 0
  <2>1. conn'[s].grant \in Nat /\ conn'[s].grant > 0 /\ used[v] + conn'[s].grant <= DailyLimit
    BY <1>1, <1>3, RealtimeAssumption DEF Least, Most
  <2>2. ASSUME NEW u \in Users
        PROVE  \/ used'[u] + Cardinality(Granted(u)') * Grant <= Bound
               \/ \E t \in Granted(u)' :
                    used'[u] + conn'[t].grant + (Cardinality(Granted(u)') - 1) * Grant <= Bound
    <3>1. CASE u = v
      <4>1. H \subseteq OfUser(active', v)
        BY DEF Granted, OfUser, SlotsAreExact
      <4>2. active' \in SUBSET Sockets
        BY DEF SlotsAreExact
      <4>3. IsFiniteSet(OfUser(active', v)) /\ Cardinality(OfUser(active', v)) \in Nat
        BY <4>2, OfUserIsFinite
      <4>4. b \in Nat /\ b <= Cardinality(OfUser(active', v))
        BY <4>1, <4>3, FS_Subset, FS_CardinalityType
      <4>5. Cardinality(OfUser(active', v)) <= MaxPerUser
        BY <1>1 DEF SlotsAreExact
      <4>6. b - 1 \in Int /\ MaxPerUser - 1 \in Int /\ b - 1 <= MaxPerUser - 1
        BY <4>3, <4>4, <4>5, GrantIsNatural
      <4>7. (b - 1) * Grant <= (MaxPerUser - 1) * Grant
            /\ (b - 1) * Grant \in Int /\ (MaxPerUser - 1) * Grant \in Int
        BY <4>6, Scale, GrantIsNatural
      <4>8. used[v] + conn'[s].grant + (b - 1) * Grant <= Bound
        BY <1>1, <2>1, <4>7, GrantIsNatural DEF Bound
      <4>9. s \in H
        BY <2>1 DEF Granted
      <4> QED BY <3>1, <4>8, <4>9
    <3>2. CASE u # v
      <4>1. Granted(u)' = Granted(u) /\ \A t \in Granted(u) : conn'[t] = conn[t]
        BY <3>2 DEF Granted
      <4>2. \/ used[u] + Cardinality(Granted(u)) * Grant <= Bound
            \/ \E t \in Granted(u) :
                 used[u] + conn[t].grant + (Cardinality(Granted(u)) - 1) * Grant <= Bound
        BY DEF BudgetIsKept
      <4> QED BY <4>1, <4>2
    <3> QED BY <3>1, <3>2
  <2> QED BY <2>2 DEF BudgetIsKept, Bound
<1> QED BY <1>2, <1>3

\* A session is billed no more than its grant, and with that it is over.
LEMMA BudgetBills ==
  ASSUME TypeOK, BudgetIsKept, NEW s \in Sockets,
         \A t \in Sockets \ {s} : conn'[t] = conn[t],
         Holding(conn[s]), ~Holding(conn'[s]), conn[s].seconds <= conn[s].grant,
         used' = [used EXCEPT ![UserOf[s]] = @ + conn[s].seconds]
  PROVE  BudgetIsKept'
<1> DEFINE v == UserOf[s]
           n == conn[s].seconds
<1>1. v \in Users /\ used \in [Users -> Nat] /\ used[v] \in Nat
  BY RealtimeAssumption DEF TypeOK
<1>2. n \in Nat /\ conn[s].grant \in Nat /\ conn[s].grant <= Grant
  BY GrantIsNatural DEF TypeOK, Conn
<1>3. CASE n = 0
  <2>1. used' = used
    BY <1>1, <1>3
  <2>2. \A t \in Sockets : Holding(conn'[t]) /\ conn'[t].grant > 0
                             => Holding(conn[t]) /\ conn'[t].grant = conn[t].grant
    OBVIOUS
  <2>3. \A u \in Users : used'[u] <= used[u]
    BY <1>1, <2>1
  <2> QED BY <1>1, <2>1, <2>2, <2>3, BudgetStays
<1>4. CASE n # 0
  <2>1. conn[s].grant > 0
    BY <1>2, <1>4
  <2>2. ASSUME NEW u \in Users
        PROVE  \/ used'[u] + Cardinality(Granted(u)') * Grant <= Bound
               \/ \E t \in Granted(u)' :
                    used'[u] + conn'[t].grant + (Cardinality(Granted(u)') - 1) * Grant <= Bound
    <3> DEFINE G == Granted(u)
               H == Granted(u)'
               a == Cardinality(G)
               b == Cardinality(H)
    <3>1. \/ used[u] + a * Grant <= Bound
          \/ \E t \in G : used[u] + conn[t].grant + (a - 1) * Grant <= Bound
      BY DEF BudgetIsKept
    <3>2. IsFiniteSet(G) /\ a \in Nat
      BY GrantedIsFinite
    <3>3. CASE u = v
      <4>1. s \in G
        BY <2>1, <3>3 DEF Granted
      <4>2. H = G \ {s} /\ \A t \in H : conn'[t] = conn[t]
        BY DEF Granted
      <4>3. IsFiniteSet(H) /\ b = a - 1 /\ b \in Nat
        BY <3>2, <4>1, <4>2, FS_RemoveElement, FS_CardinalityType
      <4>4. used'[u] = used[u] + n /\ used[u] \in Nat
        BY <1>1, <3>3
      <4>5. a * Grant \in Int /\ (a - 1) * Grant = a * Grant - Grant
        BY <3>2, Scale, GrantIsNatural
      <4>6. b * Grant = a * Grant - Grant
        BY <4>3, <4>5
      <4>7. b * Grant \in Int /\ (b - 1) * Grant = b * Grant - Grant
        BY <4>3, Scale, GrantIsNatural
      <4>8. CASE used[u] + a * Grant <= Bound
        <5>1. used'[u] + b * Grant <= Bound
          BY <1>2, <4>4, <4>5, <4>6, <4>8, GrantIsNatural
        <5> QED BY <5>1
      <4>9. CASE \E t \in G : used[u] + conn[t].grant + (a - 1) * Grant <= Bound
        <5>1. PICK t \in G : used[u] + conn[t].grant + (a - 1) * Grant <= Bound
          BY <4>9
        <5>2. CASE t = s
          <6>1. used'[u] + b * Grant <= Bound
            BY <1>2, <4>4, <4>5, <4>6, <5>1, <5>2, GrantIsNatural
          <6> QED BY <6>1
        <5>3. CASE t # s
          <6>1. t \in H /\ conn'[t].grant = conn[t].grant
            BY <4>2, <5>3
          <6>2. conn[t].grant \in Nat
            BY GrantIsNatural DEF Granted, TypeOK, Conn
          <6>3. used'[u] + conn'[t].grant + (b - 1) * Grant <= Bound
            BY <1>2, <4>4, <4>5, <4>6, <4>7, <5>1, <6>1, <6>2, GrantIsNatural
          <6> QED BY <6>1, <6>3
        <5> QED BY <5>2, <5>3
      <4> QED BY <3>1, <4>8, <4>9
    <3>4. CASE u # v
      <4>1. H = G /\ \A t \in G : conn'[t] = conn[t]
        BY <3>4 DEF Granted
      <4>2. used'[u] = used[u]
        BY <1>1, <3>4
      <4> QED BY <3>1, <4>1, <4>2
    <3> QED BY <3>3, <3>4
  <2> QED BY <2>2 DEF BudgetIsKept, Bound
<1> QED BY <1>3, <1>4

-----------------------------------------------------------------------------
(* Steps. *)

LEMMA InitInv ==
  ASSUME Init
  PROVE  IInv
<1>1. \A s \in Sockets : conn[s] = Unopened
  BY DEF Init
<1>2. TypeOK
  <2>1. conn \in [Sockets -> Conn]
    BY UnopenedIs DEF Init
  <2>2. 0 \in 0 .. MaxDays
    BY RealtimeAssumption
  <2> QED BY <2>1, <2>2 DEF Init, TypeOK
<1>3. Sound(Unopened)
  <2>1. FaceFits(Unopened) /\ StartFits(Unopened)
    BY UnopenedIs DEF FaceFits, StartFits
  <2>2. EndFits(Unopened) /\ Attended(Unopened)
    BY UnopenedIs DEF EndFits, Attended
  <2> QED BY UnopenedIs, <2>1, <2>2 DEF Sound, Goes
<1>4. \A s \in Sockets : ~Holding(conn[s])
  BY <1>1, UnopenedIs DEF Holding
<1>5. SlotsAreExact
  <2>1. \A u \in Users : OfUser({}, u) = {}
    BY DEF OfUser
  <2>2. Cardinality({}) = 0
    BY FS_EmptySet
  <2>3. 0 <= MaxPerUser /\ 0 <= MaxTotal
    BY RealtimeAssumption
  <2> QED BY <1>4, <2>1, <2>2, <2>3 DEF SlotsAreExact, Init
<1>6. BudgetIsKept
  <2>1. ASSUME NEW u \in Users
        PROVE  used[u] + Cardinality(Granted(u)) * Grant <= Bound
    <3>1. Granted(u) = {}
      BY <1>4 DEF Granted
    <3>2. Cardinality(Granted(u)) = 0 /\ used[u] = 0
      BY <3>1, FS_EmptySet DEF Init
    <3>3. 0 * Grant = 0 /\ 0 <= (MaxPerUser - 1) * Grant /\ (MaxPerUser - 1) * Grant \in Int
      <4>1. MaxPerUser - 1 \in Nat
        BY RealtimeAssumption
      <4> QED BY <4>1, GrantIsNatural
    <3>4. 0 <= Bound
      BY <3>3, GrantIsNatural DEF Bound
    <3> QED BY <3>2, <3>3, <3>4
  <2> QED BY <2>1 DEF BudgetIsKept
<1>7. ShutdownFits
  BY DEF Init, ShutdownFits, disposed
<1> QED BY <1>1, <1>2, <1>3, <1>5, <1>6, <1>7 DEF IInv

\* What a settled turn leaves true, whichever sockets it moves.
LEMMA AllSettle ==
  ASSUME IInv, NEW new, DOMAIN new = Sockets, new = [s \in Sockets |-> new[s]],
         \A s \in Sockets : Sound(new[s]) /\ Keeps(conn[s], new[s]),
         SettleAll(new)
  PROVE  /\ conn' = new /\ conn' \in [Sockets -> Conn]
         /\ \A s \in Sockets : Sound(conn'[s])
         /\ SlotsAreExact' /\ active' \subseteq active /\ active' \subseteq Sockets
         /\ perUser' \in [Users -> Nat]
         /\ used' = used => BudgetIsKept'
<1>1. conn' = new
  BY DEF SettleAll
<1>2. \A s \in Sockets : new[s] \in Conn
  BY DEF Sound, Goes
<1>3. TypeOK /\ SlotsAreExact /\ BudgetIsKept
  BY DEF IInv
<1>4. SlotsAreExact' /\ active' \subseteq active /\ perUser' \in [Users -> Nat]
  BY <1>3, SlotsSettle
<1>5. \A s \in Sockets : Holding(conn'[s]) /\ conn'[s].grant > 0
                           => Holding(conn[s]) /\ conn'[s].grant = conn[s].grant
  BY <1>1, KeepsHolding
<1>6. ASSUME used' = used
      PROVE  BudgetIsKept'
  <2>1. used' \in [Users -> Nat] /\ \A u \in Users : used'[u] <= used[u]
    BY <1>3, <1>6 DEF TypeOK
  <2> QED BY <1>3, <1>5, <2>1, BudgetStays
<1>7. conn' \in [Sockets -> Conn]
  BY <1>1, <1>2
<1>8. active' \subseteq Sockets
  BY <1>3, <1>4 DEF TypeOK
<1> QED BY <1>1, <1>4, <1>6, <1>7, <1>8

LEMMA OneSettles ==
  ASSUME IInv, NEW s \in Sockets, NEW d, Sound(d), Keeps(conn[s], d),
         disposed => d.route # "awaiting_start",
         Settle(s, d), UNCHANGED <<shutdown, usage>>
  PROVE  IInv'
<1>1. PICK new : new = [conn EXCEPT ![s] = d]
  OBVIOUS
<1>2. conn \in [Sockets -> Conn] /\ \A t \in Sockets : Sound(conn[t])
  BY DEF IInv, TypeOK
<1>3. DOMAIN new = Sockets /\ new = [t \in Sockets |-> new[t]] /\ new[s] = d
      /\ \A t \in Sockets \ {s} : new[t] = conn[t]
  BY <1>1, <1>2
<1>4. \A t \in Sockets : Sound(new[t]) /\ Keeps(conn[t], new[t])
  BY <1>2, <1>3 DEF Keeps
<1>5. SettleAll(new)
  BY <1>1 DEF Settle
<1>6. used' = used
  BY DEF usage
<1>7. /\ conn' = new /\ conn' \in [Sockets -> Conn]
      /\ \A t \in Sockets : Sound(conn'[t])
      /\ SlotsAreExact' /\ active' \subseteq active /\ active' \subseteq Sockets
      /\ perUser' \in [Users -> Nat]
      /\ BudgetIsKept'
  BY <1>3, <1>4, <1>5, <1>6, AllSettle
<1>8. TypeOK'
  BY <1>7 DEF IInv, TypeOK, shutdown, usage
<1>9. ShutdownFits'
  <2>1. disposal' = disposal
    BY DEF shutdown
  <2>2. disposed => \A t \in Sockets : conn'[t].route # "awaiting_start"
    BY <1>3, <1>7 DEF IInv, ShutdownFits
  <2>3. disposal = "done" => active' = {}
    BY <1>7 DEF IInv, ShutdownFits
  <2> QED BY <2>1, <2>2, <2>3 DEF ShutdownFits, disposed
<1> QED BY <1>7, <1>8, <1>9 DEF IInv

LEMMA OneMoves ==
  ASSUME IInv, NEW s \in Sockets, NEW d, Sound(d), Moves(conn[s], d),
         Settle(s, d), UNCHANGED <<shutdown, usage>>
  PROVE  IInv'
<1>1. Keeps(conn[s], d) /\ (disposed => d.route # "awaiting_start")
  BY DEF Moves, IInv, ShutdownFits
<1> QED BY <1>1, OneSettles

\* A turn that ends nothing.
LEMMA OneChanges ==
  ASSUME IInv, NEW s \in Sockets, NEW d, Sound(d), disposed => d.route # "awaiting_start",
         Holding(d) <=> Holding(conn[s]), conn' = [conn EXCEPT ![s] = d],
         UNCHANGED <<active, perUser, shutdown, usage>>,
         BudgetIsKept'
  PROVE  IInv'
<1>1. conn \in [Sockets -> Conn] /\ \A t \in Sockets : Sound(conn[t])
  BY DEF IInv, TypeOK
<1>2. conn'[s] = d /\ \A t \in Sockets \ {s} : conn'[t] = conn[t]
  BY <1>1
<1>3. \A t \in Sockets : Sound(conn'[t]) /\ (Holding(conn'[t]) <=> Holding(conn[t]))
  BY <1>1, <1>2
<1>4. conn' \in [Sockets -> Conn]
  <2>1. d \in Conn
    BY DEF Sound, Goes
  <2> QED BY <1>1, <2>1
<1>5. SlotsAreExact'
  BY <1>3, SlotsStay DEF IInv
<1>6. TypeOK'
  BY <1>4 DEF IInv, TypeOK, shutdown, usage
<1>7. ShutdownFits'
  BY <1>2 DEF IInv, ShutdownFits, disposed, shutdown
<1> QED BY <1>3, <1>5, <1>6, <1>7 DEF IInv

LEMMA QuietBudget ==
  ASSUME IInv, NEW s \in Sockets, NEW d, Keeps(conn[s], d),
         conn' = [conn EXCEPT ![s] = d], UNCHANGED usage
  PROVE  BudgetIsKept'
<1>1. conn \in [Sockets -> Conn] /\ used \in [Users -> Nat]
  BY DEF IInv, TypeOK
<1>2. conn'[s] = d /\ \A t \in Sockets \ {s} : conn'[t] = conn[t]
  BY <1>1
<1>3. \A t \in Sockets : Holding(conn'[t]) /\ conn'[t].grant > 0
                           => Holding(conn[t]) /\ conn'[t].grant = conn[t].grant
  BY <1>2, KeepsHolding
<1>4. used' \in [Users -> Nat] /\ \A u \in Users : used'[u] <= used[u]
  BY <1>1 DEF usage
<1> QED BY <1>3, <1>4, BudgetStays DEF IInv

LEMMA StartSteps ==
  ASSUME IInv, NEW s \in Sockets, Start(s)
  PROVE  IInv'
<1> DEFINE c == conn[s]
<1>1. c \in Conn /\ Sound(c) /\ FaceFits(c) /\ StartFits(c) /\ EndFits(c)
      /\ conn \in [Sockets -> Conn]
  BY DEF IInv, TypeOK, Sound, Goes
<1> HIDE DEF c
<1>2. CASE OpenSocket(s)
  <2>1. c = Unopened
    BY <1>1, <1>2 DEF OpenSocket, StartFits, c
  <2>2. PICK o : o = [Unopened EXCEPT !.route = "awaiting_start", !.socket = "open"]
    OBVIOUS
  <2>3. PICK d : d = IF disposed THEN Terminate(o, "error") ELSE o
    OBVIOUS
  <2>4. Settle(s, d) /\ UNCHANGED <<shutdown, usage>>
    BY <1>2, <2>1, <2>2, <2>3 DEF OpenSocket, c
  <2>5. /\ Sound(d) /\ Keeps(Unopened, d)
        /\ d # o => d.route = "closed"
    BY <2>2, <2>3, Opening
  <2>6. disposed => d.route # "awaiting_start"
    <3>1. o \in Conn
      BY <2>2, UnopenedIs DEF Conn
    <3>2. PICK x : x = Terminate(o, "error")
      OBVIOUS
    <3>3. Terminated(o, "error", x)
      BY <3>1, <3>2, TerminateIs
    <3> QED BY <2>3, <3>2, <3>3 DEF Terminated
  <2> QED BY <2>1, <2>4, <2>5, <2>6, OneSettles DEF c
<1>3. CASE StartTimeout(s)
  <2>1. PICK d : d = Terminate(c, "error")
    OBVIOUS
  <2>2. c.route = "awaiting_start" /\ Settle(s, d) /\ UNCHANGED <<shutdown, usage>>
    BY <1>3, <2>1 DEF StartTimeout, c
  <2>3. Sound(d) /\ Moves(c, d)
    BY <1>1, <2>1, <2>2, Answering
  <2> QED BY <2>2, <2>3, OneMoves DEF c
<1>4. CASE BadFirstFrame(s)
  <2>1. PICK e : e = [c EXCEPT !.route = "starting"]
    OBVIOUS
  <2>2. PICK d : d = BeginRouteError(e)
    OBVIOUS
  <2>3. c.route = "awaiting_start" /\ Settle(s, d) /\ UNCHANGED <<shutdown, usage>>
    BY <1>4, <2>1, <2>2 DEF BadFirstFrame, c
  <2>4. /\ e \in Conn /\ SameBody(c, e) /\ e.terminalSent = c.terminalSent
        /\ e.after = c.after /\ e.socket = c.socket /\ e.wire = c.wire
    BY <1>1, <2>1, RouteIs
  <2>5. Sound(d) /\ Moves(c, d)
    BY <1>1, <2>2, <2>3, <2>4, Refusing
  <2> QED BY <2>3, <2>5, OneMoves DEF c
<1>5. CASE EarlyFrame(s)
  <2>1. PICK d : d = BeginRouteError(c)
    OBVIOUS
  <2>2. c.route = "starting" /\ Settle(s, d) /\ UNCHANGED <<shutdown, usage>>
    BY <1>5, <2>1 DEF EarlyFrame, c
  <2>3. Sound(d) /\ Moves(c, d)
    <3>1. SameBody(c, c)
      BY DEF SameBody
    <3> QED BY <1>1, <2>1, <2>2, <3>1, Refusing
  <2> QED BY <2>2, <2>3, OneMoves DEF c
<1>6. CASE StartFrame(s) /\ (disposed \/ AtCapacity(UserOf[s]))
  <2>1. PICK e : e = [c EXCEPT !.route = "starting"]
    OBVIOUS
  <2>2. PICK d : d = BeginRouteError(e)
    OBVIOUS
  <2>3. c.route = "awaiting_start" /\ Settle(s, d) /\ UNCHANGED <<shutdown, usage>>
    BY <1>6, <2>1, <2>2 DEF StartFrame, c
  <2>4. /\ e \in Conn /\ SameBody(c, e) /\ e.terminalSent = c.terminalSent
        /\ e.after = c.after /\ e.socket = c.socket /\ e.wire = c.wire
    BY <1>1, <2>1, RouteIs
  <2>5. Sound(d) /\ Moves(c, d)
    BY <1>1, <2>2, <2>3, <2>4, Refusing
  <2> QED BY <2>3, <2>5, OneMoves DEF c
<1>7. CASE StartFrame(s) /\ ~(disposed \/ AtCapacity(UserOf[s]))
  <2>1. PICK d : d = Admitted(c)
    OBVIOUS
  <2>2. /\ c.route = "awaiting_start" /\ conn' = [conn EXCEPT ![s] = d]
        /\ active' = active \cup {s} /\ perUser' = [perUser EXCEPT ![UserOf[s]] = @ + 1]
        /\ UNCHANGED <<shutdown, usage>>
    BY <1>7, <2>1 DEF StartFrame, Admitted, c
  <2>3. /\ Sound(d) /\ d.step = "usage" /\ d.grant = 0 /\ d.terminal = "none"
        /\ d.route = "starting"
    BY <1>1, <2>1, <2>2, Admitting
  <2>4. conn'[s] = d /\ \A t \in Sockets \ {s} : conn'[t] = conn[t]
    BY <1>1, <2>2
  <2>5. ~Holding(conn[s]) /\ Holding(conn'[s])
    BY <1>1, <2>2, <2>3, <2>4 DEF StartFits, Holding, c
  <2>6. SlotsAreExact' /\ perUser' \in [Users -> Nat]
    BY <1>7, <2>2, <2>4, <2>5, SlotsGrow DEF IInv
  <2>7. BudgetIsKept'
    <3>1. \A t \in Sockets : Holding(conn'[t]) /\ conn'[t].grant > 0
                               => Holding(conn[t]) /\ conn'[t].grant = conn[t].grant
      BY <2>3, <2>4
    <3>2. used' \in [Users -> Nat] /\ \A u \in Users : used'[u] <= used[u]
      BY <2>2 DEF IInv, TypeOK, usage
    <3> QED BY <3>1, <3>2, BudgetStays DEF IInv
  <2>8. \A t \in Sockets : Sound(conn'[t])
    BY <2>3, <2>4 DEF IInv
  <2>9. TypeOK'
    <3>1. d \in Conn
      BY <2>3 DEF Sound, Goes
    <3>2. conn' \in [Sockets -> Conn]
      BY <1>1, <2>2, <3>1
    <3> QED BY <2>2, <2>6, <3>2 DEF IInv, TypeOK, shutdown, usage
  <2>10. ShutdownFits'
    BY <1>7, <2>2 DEF ShutdownFits, disposed, shutdown
  <2> QED BY <2>6, <2>7, <2>8, <2>9, <2>10 DEF IInv
<1>8. CASE ReadUsage(s)
  <2>1. PICK grant : grant = Least(MaxSession, Most(0, DailyLimit - used[UserOf[s]]))
    OBVIOUS
  <2>2. PICK d : d = AfterRead(c, grant)
    OBVIOUS
  <2>3. /\ c.step = "usage" /\ conn' = [conn EXCEPT ![s] = d]
        /\ UNCHANGED <<active, perUser, shutdown, usage>>
    <3>1. c.step = "usage" /\ UNCHANGED <<active, perUser, shutdown, usage>>
          /\ conn' = [conn EXCEPT ![s].step = "read", ![s].grant = grant]
      BY <1>8, <2>1 DEF ReadUsage, c
    <3> QED BY <1>1, <2>2, <3>1 DEF AfterRead, c
  <2>4. grant \in 0 .. Grant
    <3>1. used[UserOf[s]] \in Nat
      BY RealtimeAssumption DEF IInv, TypeOK
    <3> QED BY <2>1, <3>1, RealtimeAssumption DEF Least, Most, Grant
  <2>5. /\ Sound(d) /\ d.step = "read" /\ d.grant = grant /\ d.terminal = "none"
        /\ c.terminal = "none" /\ c.grant = 0 /\ d.route # "awaiting_start"
    BY <1>1, <2>2, <2>3, <2>4, Reading
  <2>6. Holding(c) /\ Holding(d)
    BY <2>3, <2>5 DEF Holding
  <2>7. conn'[s] = d /\ \A t \in Sockets \ {s} : conn'[t] = conn[t]
    BY <1>1, <2>3
  <2>8. SlotsAreExact'
    <3>1. \A t \in Sockets : Holding(conn'[t]) <=> Holding(conn[t])
      BY <2>6, <2>7 DEF c
    <3> QED BY <2>3, <3>1, SlotsStay DEF IInv
  <2>9. BudgetIsKept'
    BY <2>1, <2>3, <2>5, <2>6, <2>7, <2>8, BudgetReads DEF IInv, usage, c
  <2> QED BY <2>3, <2>5, <2>6, <2>9, OneChanges DEF c
<1>9. CASE \E project \in BOOLEAN : Admit(s, project)
  <2>1. PICK project \in BOOLEAN : Admit(s, project)
    BY <1>9
  <2>2. PICK d : /\ Settle(s, d)
                 /\ \/ d = StartFails(c)
                    \/ d = [c EXCEPT !.step = "terms"]
                    \/ d = Dial(c)
    BY <2>1 DEF Admit, c
  <2>3. c.step = "read" /\ UNCHANGED <<shutdown, usage>>
    BY <2>1 DEF Admit, c
  <2>4. Starting(c) /\ c.provider # "connecting"
    BY <1>1, <2>3 DEF Starting, StartFits
  <2>5. CASE d = StartFails(c)
    BY <1>1, <2>2, <2>3, <2>4, <2>5, Refused, OneMoves DEF c
  <2>6. CASE d = [c EXCEPT !.step = "terms"]
    <3>1. Sound(d) /\ Moves(c, d)
      BY <1>1, <2>3, <2>6, AwaitingTerms
    <3> QED BY <2>2, <2>3, <3>1, OneMoves DEF c
  <2>7. CASE d = Dial(c)
    <3>1. Sound(d) /\ Moves(c, d)
      BY <1>1, <2>3, <2>7, Dialing
    <3> QED BY <2>2, <2>3, <3>1, OneMoves DEF c
  <2> QED BY <2>2, <2>5, <2>6, <2>7
<1>10. CASE GlossaryReplies(s)
  <2>1. PICK d : Settle(s, d) /\ (d = StartFails(c) \/ d = Dial(c))
    BY <1>10 DEF GlossaryReplies, c
  <2>2. c.step = "terms" /\ UNCHANGED <<shutdown, usage>>
    BY <1>10 DEF GlossaryReplies, c
  <2>3. Starting(c) /\ c.provider # "connecting"
    BY <1>1, <2>2 DEF Starting, StartFits
  <2>4. Sound(d) /\ Moves(c, d)
    BY <1>1, <2>1, <2>2, <2>3, Refused, Dialing
  <2> QED BY <2>1, <2>2, <2>4, OneMoves DEF c
<1>11. CASE ReadFails(s)
  <2>1. PICK d : d = StartFails(c)
    OBVIOUS
  <2>2. c.step \in {"usage", "read", "terms"} /\ Settle(s, d) /\ UNCHANGED <<shutdown, usage>>
    BY <1>11, <2>1 DEF ReadFails, c
  <2>3. Starting(c) /\ c.provider # "connecting"
    BY <1>1, <2>2 DEF Starting, StartFits
  <2>4. Sound(d) /\ Moves(c, d)
    BY <1>1, <2>1, <2>3, Refused
  <2> QED BY <2>2, <2>4, OneMoves DEF c
<1>12. CASE ProviderConnects(s)
  <2>1. PICK d : Settle(s, d) /\ Connected(c, d)
    <3>1. PICK open : open = [c EXCEPT !.provider = "open"]
      OBVIOUS
    <3>2. PICK ready : ready = [ForwardOrAbandon(open, "ready")
                                  EXCEPT !.wallClock = TRUE, !.deadline = TRUE]
      OBVIOUS
    <3>3. PICK live : live = [ready EXCEPT !.step = "live"]
      OBVIOUS
    <3>4. PICK d : d = IF open.state = "closed" \/ open.signal \/ open.aborted
                         THEN StartFails(open)
                       ELSE IF disposed \/ ready.signal THEN StartFails(ready)
                       ELSE IF live.route = "closed" THEN BeginTerminal(live, "silent")
                       ELSE [live EXCEPT !.route = "streaming"]
      OBVIOUS
    <3>5. Settle(s, d)
      BY <1>12, <3>1, <3>2, <3>3, <3>4 DEF ProviderConnects, c
    <3>6. \/ d = StartFails(open)
          \/ d = StartFails(ready)
          \/ ~ready.signal /\ live.route = "closed" /\ d = BeginTerminal(live, "silent")
          \/ /\ ~ready.signal /\ live.route # "closed"
             /\ d = [live EXCEPT !.route = "streaming"]
      BY <3>4
    <3>7. Connected(c, d)
      BY <3>1, <3>2, <3>3, <3>6 DEF Connected
    <3> QED BY <3>5, <3>7
  <2>2. c.provider = "connecting" /\ UNCHANGED <<shutdown, usage>>
    BY <1>12 DEF ProviderConnects, c
  <2>3. Sound(d) /\ Moves(c, d)
    BY <1>1, <2>1, <2>2, Connecting
  <2> QED BY <2>1, <2>2, <2>3, OneMoves DEF c
<1>13. CASE ProviderRefuses(s)
  <2>1. PICK e : e = [c EXCEPT !.provider = "gone"]
    OBVIOUS
  <2>2. PICK d : d = StartFails(e)
    OBVIOUS
  <2>3. c.provider = "connecting" /\ Settle(s, d) /\ UNCHANGED <<shutdown, usage>>
    BY <1>13, <2>1, <2>2 DEF ProviderRefuses, c
  <2>4. Starting(c)
    <3>1. c.step \notin {"none", "failed", "live"}
      BY <1>1, <2>3 DEF StartFits
    <3> QED BY <1>1, <3>1 DEF Conn, Starting
  <2>5. Sound(d) /\ Moves(c, d)
    BY <1>1, <2>1, <2>2, <2>4, Refused
  <2> QED BY <2>3, <2>5, OneMoves DEF c
<1> QED BY <1>2, <1>3, <1>4, <1>5, <1>6, <1>7, <1>8, <1>9, <1>10, <1>11, <1>12, <1>13 DEF Start

LEMMA ClientSteps ==
  ASSUME IInv, NEW s \in Sockets, Client(s)
  PROVE  IInv'
<1> DEFINE c == conn[s]
<1>1. c \in Conn /\ Sound(c) /\ FaceFits(c) /\ StartFits(c) /\ EndFits(c) /\ Goes(c)
      /\ conn \in [Sockets -> Conn]
  BY DEF IInv, TypeOK, Sound, Goes
<1> HIDE DEF c
<1>2. CASE \E reached \in BOOLEAN : AudioAccepted(s, reached)
  <2>1. PICK reached \in BOOLEAN : AudioAccepted(s, reached)
    BY <1>2
  <2>2. PICK n : n = c.seconds + 1
    OBVIOUS
  <2>3. PICK e : e = [c EXCEPT !.seconds = n, !.deadline = TRUE]
    OBVIOUS
  <2>4. PICK d : Settle(s, d) /\ (d = BeginFinish(e) \/ d = e)
    <3>1. e = [c EXCEPT !.seconds = @ + 1, !.deadline = TRUE]
      BY <1>1, <2>2, <2>3 DEF Conn
    <3>2. PICK d : d = IF reached THEN BeginFinish(e) ELSE e
      OBVIOUS
    <3>3. Settle(s, d)
      BY <2>1, <3>1, <3>2 DEF AudioAccepted, c
    <3> QED BY <3>2, <3>3
  <2>5. /\ c.route = "streaming" /\ c.state = "streaming" /\ c.seconds < c.grant
        /\ UNCHANGED <<shutdown, usage>>
    BY <2>1 DEF AudioAccepted, c
  <2>6. c.step = "live" /\ c.terminal = "none"
    BY <1>1, <2>5 DEF StartFits, EndFits
  <2>7. n \in c.seconds .. c.grant
    <3>1. c.seconds \in 0 .. Grant /\ c.grant \in 0 .. Grant
      BY <1>1 DEF Conn
    <3> QED BY <2>2, <2>5, <3>1, GrantIsNatural
  <2>8. Heard(c, n, e)
    BY <2>3 DEF Heard
  <2>9. Sound(e) /\ Moves(c, e) /\ e.step = "live"
    BY <1>1, <2>6, <2>7, <2>8, Hearing
  <2>10. Sound(d) /\ Moves(c, d)
    <3>1. CASE d = e
      BY <2>9, <3>1
    <3>2. CASE d = BeginFinish(e)
      <4>1. Sound(d) /\ Moves(e, d)
        BY <2>9, <3>2, Finishing
      <4> QED BY <2>9, <4>1 DEF Moves, Keeps
    <3> QED BY <2>4, <3>1, <3>2
  <2> QED BY <2>4, <2>5, <2>10, OneMoves DEF c
<1>3. CASE AudioBeyondLimit(s)
  <2>1. PICK d : d = BeginFinish(c)
    OBVIOUS
  <2>2. c.route = "streaming" /\ Settle(s, d) /\ UNCHANGED <<shutdown, usage>>
    BY <1>3, <2>1 DEF AudioBeyondLimit, c
  <2>3. c.step = "live"
    BY <1>1, <2>2 DEF StartFits
  <2>4. Sound(d) /\ Moves(c, d)
    BY <1>1, <2>1, <2>3, Finishing
  <2> QED BY <2>2, <2>4, OneMoves DEF c
<1>4. CASE AudioRefused(s)
  <2>1. PICK d : d = BeginTerminal(c, "error")
    OBVIOUS
  <2>2. c.route = "streaming" /\ Settle(s, d) /\ UNCHANGED <<shutdown, usage>>
    BY <1>4, <2>1 DEF AudioRefused, c
  <2>3. c.step = "live"
    BY <1>1, <2>2 DEF StartFits
  <2>4. Sound(d) /\ Moves(c, d)
    BY <1>1, <2>1, <2>3, Ending
  <2> QED BY <2>2, <2>4, OneMoves DEF c
<1>5. CASE BadFrame(s)
  <2>1. PICK e : e = [Closed(c) EXCEPT !.after = "terminate"]
    OBVIOUS
  <2>2. PICK d : d = BeginTerminal(e, "silent")
    OBVIOUS
  <2>3. /\ c.route \in {"streaming", "finishing"} /\ Settle(s, d)
        /\ UNCHANGED <<shutdown, usage>>
    BY <1>5, <2>1, <2>2 DEF BadFrame, c
  <2>4. GivesUp(c, e)
    BY <2>1 DEF GivesUp
  <2>5. Sound(d) /\ Moves(c, d)
    BY <1>1, <2>2, <2>3, <2>4, Giving
  <2> QED BY <2>3, <2>5, OneMoves DEF c
<1>6. CASE ClientFinishes(s)
  <2>1. PICK e : e = [c EXCEPT !.route = "finishing"]
    OBVIOUS
  <2>2. PICK d : d = BeginFinish(e)
    OBVIOUS
  <2>3. c.route = "streaming" /\ Settle(s, d) /\ UNCHANGED <<shutdown, usage>>
    BY <1>6, <2>1, <2>2 DEF ClientFinishes, c
  <2>4. Sound(d) /\ Moves(c, d)
    BY <1>1, <2>1, <2>2, <2>3, Stopping
  <2> QED BY <2>3, <2>4, OneMoves DEF c
<1>7. CASE ClientCancels(s)
  <2>1. PICK e : e = [c EXCEPT !.route = "closed", !.after = "cancel"]
    OBVIOUS
  <2>2. PICK d : d = BeginTerminal(e, "silent")
    OBVIOUS
  <2>3. c.route = "streaming" /\ Settle(s, d) /\ UNCHANGED <<shutdown, usage>>
    BY <1>7, <2>1, <2>2 DEF ClientCancels, c
  <2>4. GivesUp(c, e)
    BY <2>1 DEF GivesUp
  <2>5. Sound(d) /\ Moves(c, d)
    BY <1>1, <2>2, <2>3, <2>4, Giving
  <2> QED BY <2>3, <2>5, OneMoves DEF c
<1>8. CASE ClientStalls(s)
  <2>1. PICK d : d = [c EXCEPT !.socket = "stalled"]
    OBVIOUS
  <2>2. /\ Sendable(c) /\ conn' = [conn EXCEPT ![s] = d]
        /\ UNCHANGED <<active, perUser, shutdown, usage>>
    BY <1>8, <2>1 DEF ClientStalls, c
  <2>3. Sound(d) /\ Moves(c, d)
    BY <1>1, <2>1, <2>2, Stalling
  <2>4. d.step = c.step /\ d.terminal = c.terminal
    BY <1>1, <2>1 DEF Conn
  <2>5. Holding(d) <=> Holding(c)
    BY <2>4 DEF Holding
  <2>6. BudgetIsKept'
    BY <2>2, <2>3, QuietBudget DEF Moves, c
  <2>7. disposed => d.route # "awaiting_start"
    BY <2>3 DEF Moves, IInv, ShutdownFits, c
  <2> QED BY <2>2, <2>3, <2>5, <2>6, <2>7, OneChanges DEF c
<1>9. CASE Disconnect(s)
  <2>1. PICK e : e = AbortStarting(Closed([c EXCEPT !.socket = "closed"]))
    OBVIOUS
  <2>2. PICK d : d = IF HasSession(e) THEN BeginTerminal(e, "silent") ELSE e
    OBVIOUS
  <2>3. /\ c.socket \notin {"none", "closed"} /\ Settle(s, d)
        /\ UNCHANGED <<shutdown, usage>>
    BY <1>9, <2>1, <2>2 DEF Disconnect, c
  <2>4. Sound(d) /\ Moves(c, d)
    BY <1>1, <2>1, <2>2, <2>3, Disconnecting
  <2> QED BY <2>3, <2>4, OneMoves DEF c
<1> QED BY <1>2, <1>3, <1>4, <1>5, <1>6, <1>7, <1>8, <1>9 DEF Client

LEMMA ProviderSteps ==
  ASSUME IInv, NEW s \in Sockets, Provider(s)
  PROVE  IInv'
<1> DEFINE c == conn[s]
<1>1. c \in Conn /\ Sound(c) /\ FaceFits(c) /\ StartFits(c) /\ EndFits(c) /\ Goes(c)
      /\ conn \in [Sockets -> Conn]
  BY DEF IInv, TypeOK, Sound, Goes
<1> HIDE DEF c
<1>2. c.provider = "open" => c.step = "live" /\ c.terminal = "none"
  BY <1>1 DEF StartFits, EndFits, Conn
<1>3. CASE \E n \in 0 .. Grant, shown \in BOOLEAN : Transcript(s, n, shown)
  <2>1. PICK n \in 0 .. Grant, shown \in BOOLEAN : Transcript(s, n, shown)
    BY <1>3
  <2>2. PICK e : e = [c EXCEPT !.seconds = n]
    OBVIOUS
  <2>3. PICK d : Settle(s, d) /\ (d = ForwardOrAbandon(e, "transcript") \/ d = e)
    <3>1. PICK d : d = IF shown THEN ForwardOrAbandon(e, "transcript") ELSE e
      OBVIOUS
    <3>2. Settle(s, d)
      BY <2>1, <2>2, <3>1 DEF Transcript, c
    <3> QED BY <3>1, <3>2
  <2>4. c.provider = "open" /\ n \in c.seconds .. c.grant /\ UNCHANGED <<shutdown, usage>>
    BY <2>1 DEF Transcript, c
  <2>5. Heard(c, n, e)
    BY <2>2 DEF Heard
  <2>6. Sound(e) /\ Moves(c, e) /\ e.step = "live"
    BY <1>1, <1>2, <2>4, <2>5, Hearing
  <2>7. Sound(d) /\ Moves(c, d)
    <3>1. CASE d = e
      BY <2>6, <3>1
    <3>2. CASE d = ForwardOrAbandon(e, "transcript")
      <4>1. Sound(d) /\ Moves(e, d)
        BY <2>6, <3>2, Forwarding
      <4> QED BY <2>6, <4>1 DEF Moves, Keeps
    <3> QED BY <2>3, <3>1, <3>2
  <2> QED BY <2>3, <2>4, <2>7, OneMoves DEF c
<1>4. CASE \E decision \in {"error", "unbilled"} : BadTranscript(s, decision)
  <2>1. PICK decision \in {"error", "unbilled"} : BadTranscript(s, decision)
    BY <1>4
  <2>2. PICK d : d = BeginTerminal(c, decision)
    OBVIOUS
  <2>3. c.provider = "open" /\ Settle(s, d) /\ UNCHANGED <<shutdown, usage>>
    BY <2>1, <2>2 DEF BadTranscript, c
  <2>4. Sound(d) /\ Moves(c, d)
    BY <1>1, <1>2, <2>2, <2>3, Ending
  <2> QED BY <2>3, <2>4, OneMoves DEF c
<1>5. CASE \E decision \in {"error", "unbilled"} : ProviderFails(s, decision)
  <2>1. PICK decision \in {"error", "unbilled"} : ProviderFails(s, decision)
    BY <1>5
  <2>2. PICK e : e = [c EXCEPT !.provider = "gone"]
    OBVIOUS
  <2>3. PICK d : d = BeginTerminal(e, decision)
    OBVIOUS
  <2>4. c.provider = "open" /\ Settle(s, d) /\ UNCHANGED <<shutdown, usage>>
    BY <2>1, <2>2, <2>3 DEF ProviderFails, c
  <2>5. Sound(e) /\ Moves(c, e) /\ e.step = "live"
    BY <1>1, <2>2, <2>4, Losing
  <2>6. Sound(d) /\ Moves(e, d)
    BY <2>3, <2>5, Ending DEF Sound
  <2>7. Moves(c, d)
    BY <2>5, <2>6 DEF Moves, Keeps
  <2> QED BY <2>4, <2>6, <2>7, OneMoves DEF c
<1>6. CASE ProviderFinished(s)
  <2>1. PICK e : e = [c EXCEPT !.provider = "gone"]
    OBVIOUS
  <2>2. PICK d : Settle(s, d) /\ (d = BeginTerminal(e, "complete") \/ d = e)
    <3>1. PICK d : d = IF e.state \in {"finishing", "settled"}
                         THEN BeginTerminal(e, "complete") ELSE e
      OBVIOUS
    <3>2. Settle(s, d)
      BY <1>6, <2>1, <3>1 DEF ProviderFinished, c
    <3> QED BY <3>1, <3>2
  <2>3. c.provider = "open" /\ UNCHANGED <<shutdown, usage>>
    BY <1>6 DEF ProviderFinished, c
  <2>4. Sound(e) /\ Moves(c, e) /\ e.step = "live"
    BY <1>1, <2>1, <2>3, Losing
  <2>5. Sound(d) /\ Moves(c, d)
    <3>1. CASE d = e
      BY <2>4, <3>1
    <3>2. CASE d = BeginTerminal(e, "complete")
      <4>1. Sound(d) /\ Moves(e, d)
        BY <2>4, <3>2, Ending DEF Sound
      <4> QED BY <2>4, <4>1 DEF Moves, Keeps
    <3> QED BY <2>2, <3>1, <3>2
  <2> QED BY <2>2, <2>3, <2>5, OneMoves DEF c
<1>7. CASE FinishResolves(s)
  <2>1. PICK d : d = [c EXCEPT !.state = "settled"]
    OBVIOUS
  <2>2. /\ c.provider = "open" /\ conn' = [conn EXCEPT ![s] = d]
        /\ UNCHANGED <<active, perUser, shutdown, usage>>
    BY <1>7, <2>1 DEF FinishResolves, c
  <2>3. c.seconds \in c.seconds .. c.grant
    BY <1>1 DEF EndFits, Conn
  <2>4. Heard(c, c.seconds, d)
    BY <2>1 DEF Heard
  <2>5. Sound(d) /\ Moves(c, d)
    BY <1>1, <1>2, <2>2, <2>3, <2>4, Hearing
  <2>6. d.step = c.step /\ d.terminal = c.terminal
    BY <1>1, <2>1 DEF Conn
  <2>7. Holding(d) <=> Holding(c)
    BY <2>6 DEF Holding
  <2>8. BudgetIsKept'
    BY <2>2, <2>5, QuietBudget DEF Moves, c
  <2>9. disposed => d.route # "awaiting_start"
    BY <2>5 DEF Moves, IInv, ShutdownFits, c
  <2> QED BY <2>2, <2>5, <2>7, <2>8, <2>9, OneChanges DEF c
<1>8. CASE FinishFails(s)
  <2>1. PICK d : d = BeginTerminal(c, "error")
    OBVIOUS
  <2>2. c.state = "finishing" /\ Settle(s, d) /\ UNCHANGED <<shutdown, usage>>
    BY <1>8, <2>1 DEF FinishFails, c
  <2>3. c.step = "live"
    BY <1>1, <2>2 DEF StartFits
  <2>4. Sound(d) /\ Moves(c, d)
    BY <1>1, <2>1, <2>3, Ending
  <2> QED BY <2>2, <2>4, OneMoves DEF c
<1> QED BY <1>3, <1>4, <1>5, <1>6, <1>7, <1>8 DEF Provider

LEMMA TimerSteps ==
  ASSUME IInv, NEW s \in Sockets, Timer(s)
  PROVE  IInv'
<1> DEFINE c == conn[s]
<1>1. c \in Conn /\ Sound(c) /\ FaceFits(c) /\ StartFits(c) /\ EndFits(c) /\ Goes(c)
      /\ conn \in [Sockets -> Conn]
  BY DEF IInv, TypeOK, Sound, Goes
<1> HIDE DEF c
<1>2. CASE WallClock(s)
  <2>1. PICK d : d = BeginFinish(c)
    OBVIOUS
  <2>2. c.wallClock /\ Settle(s, d) /\ UNCHANGED <<shutdown, usage>>
    BY <1>2, <2>1 DEF WallClock, c
  <2>3. c.step = "live"
    BY <1>1, <2>2 DEF StartFits
  <2>4. Sound(d) /\ Moves(c, d)
    BY <1>1, <2>1, <2>3, Finishing
  <2> QED BY <2>2, <2>4, OneMoves DEF c
<1>3. CASE AudioDeadline(s)
  <2>1. PICK d : d = BeginTerminal(c, "error")
    OBVIOUS
  <2>2. c.deadline /\ Settle(s, d) /\ UNCHANGED <<shutdown, usage>>
    BY <1>3, <2>1 DEF AudioDeadline, c
  <2>3. c.step = "live"
    BY <1>1, <2>2 DEF StartFits
  <2>4. Sound(d) /\ Moves(c, d)
    BY <1>1, <2>1, <2>3, Ending
  <2> QED BY <2>2, <2>4, OneMoves DEF c
<1>4. CASE UsageRecorded(s, FALSE)
  <2>1. PICK e : e = [c EXCEPT !.unbilled = TRUE]
    OBVIOUS
  <2>2. PICK d : d = CompleteTerminal(e)
    OBVIOUS
  <2>3. c.terminal = "recording" /\ Settle(s, d) /\ UNCHANGED <<shutdown, usage>>
    BY <1>4, <2>1, <2>2 DEF UsageRecorded, usage, c
  <2>4. Sound(d) /\ Moves(c, d)
    BY <1>1, <2>1, <2>2, <2>3, Recording
  <2> QED BY <2>3, <2>4, OneMoves DEF c
<1>5. CASE UsageRecorded(s, TRUE)
  <2>1. PICK e : e = [c EXCEPT !.billed = @ + c.seconds]
    OBVIOUS
  <2>2. PICK d : d = CompleteTerminal(e)
    OBVIOUS
  <2>3. /\ c.terminal = "recording" /\ Settle(s, d)
        /\ used' = [used EXCEPT ![UserOf[s]] = @ + c.seconds]
        /\ UNCHANGED <<shutdown, day>>
    BY <1>5, <2>1, <2>2 DEF UsageRecorded, c
  <2>4. Sound(d) /\ Moves(c, d) /\ d.terminal = "done"
    BY <1>1, <2>1, <2>2, <2>3, Recording
  <2>5. PICK new : new = [conn EXCEPT ![s] = d]
    OBVIOUS
  <2>6. DOMAIN new = Sockets /\ new = [t \in Sockets |-> new[t]] /\ new[s] = d
        /\ \A t \in Sockets \ {s} : new[t] = conn[t]
    BY <1>1, <2>5
  <2>7. \A t \in Sockets : Sound(new[t]) /\ Keeps(conn[t], new[t])
    <3>1. Sound(new[s]) /\ Keeps(conn[s], new[s])
      BY <2>4, <2>6 DEF Moves, c
    <3>2. ASSUME NEW t \in Sockets \ {s}
          PROVE  Sound(new[t]) /\ Keeps(conn[t], new[t])
      BY <2>6 DEF IInv, Keeps
    <3> QED BY <3>1, <3>2
  <2>8. SettleAll(new)
    BY <2>3, <2>5 DEF Settle
  <2>9. /\ conn' = new /\ conn' \in [Sockets -> Conn]
        /\ \A t \in Sockets : Sound(conn'[t])
        /\ SlotsAreExact' /\ active' \subseteq active /\ active' \subseteq Sockets
        /\ perUser' \in [Users -> Nat]
    BY <2>6, <2>7, <2>8, AllSettle
  <2>10. c.seconds \in Nat /\ c.seconds <= c.grant /\ Holding(c)
    <3>1. c.step = "live"
      BY <1>1, <2>3 DEF StartFits
    <3>2. Holding(c)
      BY <2>3, <3>1 DEF Holding
    <3>3. c.seconds \in Nat
      BY <1>1 DEF Conn
    <3> QED BY <1>1, <3>2, <3>3 DEF EndFits
  <2>11. used \in [Users -> Nat] /\ UserOf[s] \in Users
    BY RealtimeAssumption DEF IInv, TypeOK
  <2>12. used' \in [Users -> Nat]
    BY <2>3, <2>10, <2>11
  <2>13. BudgetIsKept'
    <3>1. ~Holding(conn'[s])
      BY <2>4, <2>6, <2>9 DEF Holding
    <3>2. \A t \in Sockets \ {s} : conn'[t] = conn[t]
      BY <2>6, <2>9
    <3> QED BY <2>3, <2>10, <3>1, <3>2, BudgetBills DEF IInv, c
  <2>14. TypeOK'
    BY <2>3, <2>9, <2>12 DEF IInv, TypeOK, shutdown
  <2>15. ShutdownFits'
    <3>1. disposal' = disposal
      BY <2>3 DEF shutdown
    <3>2. disposed => \A t \in Sockets : conn'[t].route # "awaiting_start"
      <4>1. disposed => d.route # "awaiting_start"
        BY <2>4 DEF Moves, IInv, ShutdownFits, c
      <4> QED BY <2>6, <2>9, <4>1 DEF IInv, ShutdownFits
    <3>3. disposal = "done" => active' = {}
      BY <2>9 DEF IInv, ShutdownFits
    <3> QED BY <3>1, <3>2, <3>3 DEF ShutdownFits, disposed
  <2> QED BY <2>9, <2>13, <2>14, <2>15 DEF IInv
<1> QED BY <1>2, <1>3, <1>4, <1>5 DEF Timer

\* Midnight forgets what was used and leaves the grants.
LEMMA MidnightStep ==
  ASSUME IInv, Midnight
  PROVE  IInv'
<1>1. used \in [Users -> Nat] /\ used' = [u \in Users |-> 0]
      /\ UNCHANGED <<conn, active, perUser, shutdown>>
  BY DEF Midnight, IInv, TypeOK
<1>2. used' \in [Users -> Nat] /\ \A u \in Users : used'[u] <= used[u]
  <2>1. \A u \in Users : used'[u] = 0 /\ used[u] \in Nat
    BY <1>1
  <2> QED BY <1>1, <2>1
<1>3. BudgetIsKept'
  BY <1>1, <1>2, BudgetStays DEF IInv
<1>4. day' \in 0 .. MaxDays
  BY RealtimeAssumption DEF Midnight, IInv, TypeOK
<1>5. TypeOK'
  BY <1>1, <1>2, <1>4 DEF IInv, TypeOK, shutdown
<1>6. SlotsAreExact' /\ ShutdownFits' /\ \A s \in Sockets : Sound(conn'[s])
  BY <1>1 DEF IInv, SlotsAreExact, ShutdownFits, disposed, shutdown
<1> QED BY <1>3, <1>5, <1>6 DEF IInv

LEMMA DisposeStep ==
  ASSUME IInv, Dispose
  PROVE  IInv'
<1>1. PICK new : new = [s \in Sockets |-> ShutDown(conn[s])]
  OBVIOUS
<1>2. SettleAll(new) /\ disposal' = "waiting" /\ awaited' = active /\ UNCHANGED usage
  BY <1>1 DEF Dispose
<1>3. DOMAIN new = Sockets /\ new = [s \in Sockets |-> new[s]]
  BY <1>1
<1>4. ASSUME NEW s \in Sockets
      PROVE  Sound(new[s]) /\ Keeps(conn[s], new[s]) /\ new[s].route # "awaiting_start"
  <2>1. Sound(conn[s]) /\ new[s] = ShutDown(conn[s])
    BY <1>1 DEF IInv
  <2> QED BY <2>1, ShuttingDown DEF Moves
<1>5. used' = used
  BY <1>2 DEF usage
<1>6. /\ conn' = new /\ conn' \in [Sockets -> Conn]
      /\ \A s \in Sockets : Sound(conn'[s])
      /\ SlotsAreExact' /\ active' \subseteq active /\ active' \subseteq Sockets
      /\ perUser' \in [Users -> Nat]
      /\ BudgetIsKept'
  BY <1>2, <1>3, <1>4, <1>5, AllSettle
<1>7. TypeOK'
  BY <1>2, <1>6 DEF IInv, TypeOK, usage
<1>8. ShutdownFits'
  BY <1>2, <1>4, <1>6 DEF ShutdownFits, disposed
<1> QED BY <1>6, <1>7, <1>8 DEF IInv

LEMMA DisposalSteps ==
  ASSUME IInv, DisposeSettles \/ DisposeTimesOut
  PROVE  IInv'
<1>1. /\ UNCHANGED <<conn, active, perUser, awaited, usage>>
      /\ disposal = "waiting" /\ disposal' \in {"done", "failed"}
      /\ disposal' = "done" => active = {}
  BY DEF DisposeSettles, DisposeTimesOut
<1>2. TypeOK'
  BY <1>1 DEF IInv, TypeOK, usage
<1>3. BudgetIsKept'
  <2>1. used' \in [Users -> Nat] /\ \A u \in Users : used'[u] <= used[u]
    BY <1>1 DEF IInv, TypeOK, usage
  <2> QED BY <1>1, <2>1, BudgetStays DEF IInv
<1>4. SlotsAreExact' /\ \A s \in Sockets : Sound(conn'[s])
  BY <1>1 DEF IInv, SlotsAreExact
<1>5. ShutdownFits'
  BY <1>1 DEF IInv, ShutdownFits, disposed
<1> QED BY <1>2, <1>3, <1>4, <1>5 DEF IInv

LEMMA StutterStep ==
  ASSUME IInv, UNCHANGED vars
  PROVE  IInv'
<1>1. BudgetIsKept'
  <2>1. used' \in [Users -> Nat] /\ \A u \in Users : used'[u] <= used[u]
    BY DEF IInv, TypeOK, vars
  <2>2. conn' = conn
    BY DEF vars
  <2> QED BY <2>1, <2>2, BudgetStays DEF IInv
<1>2. TypeOK' /\ SlotsAreExact' /\ ShutdownFits' /\ \A s \in Sockets : Sound(conn'[s])
  BY DEF IInv, TypeOK, SlotsAreExact, ShutdownFits, disposed, vars
<1> QED BY <1>1, <1>2 DEF IInv

LEMMA NextInv ==
  ASSUME IInv, [Next]_vars
  PROVE  IInv'
<1>1. CASE \E s \in Sockets : Start(s) \/ Client(s) \/ Provider(s) \/ Timer(s)
  BY <1>1, StartSteps, ClientSteps, ProviderSteps, TimerSteps
<1>2. CASE Midnight
  BY <1>2, MidnightStep
<1>3. CASE Dispose
  BY <1>3, DisposeStep
<1>4. CASE DisposeSettles \/ DisposeTimesOut
  BY <1>4, DisposalSteps
<1>5. CASE UNCHANGED vars
  BY <1>5, StutterStep
<1> QED BY <1>1, <1>2, <1>3, <1>4, <1>5 DEF Next

-----------------------------------------------------------------------------
(* What the invariant says of the properties. *)

\* The invariant that the proofs of this module rest on: each socket's record is sound,
\* slots are exact, what is granted and not yet billed still fits the bound on the
\* overshoot, and no first frame is awaited after the shutdown has begun.
THEOREM Invariance == Spec => []IInv
<1>1. Init => IInv
  BY InitInv
<1>2. IInv /\ [Next]_vars => IInv'
  BY NextInv
<1> QED BY <1>1, <1>2, PTL DEF Spec

\* Every variable keeps its type: a grant and a session's seconds stay within the cap of
\* one session, and no tally of a user goes below zero (realtime-transcription-service.ts:128).
THEOREM TypeCorrect == Spec => []TypeOK
<1>1. IInv => TypeOK
  BY DEF IInv
<1> QED BY <1>1, Invariance, PTL

LEMMA InvHolds ==
  ASSUME IInv
  PROVE  SlotsAreHeld
<1>1. ASSUME NEW s \in Sockets, \/ conn[s].provider \in {"connecting", "open"}
                               \/ conn[s].wallClock \/ conn[s].deadline
      PROVE  s \in active
  <2>1. conn[s] \in Conn /\ StartFits(conn[s]) /\ EndFits(conn[s])
    BY DEF IInv, Sound, Goes
  <2>2. conn[s].terminal # "done"
    BY <1>1, <2>1 DEF EndFits
  <2>3. conn[s].step \notin {"none", "failed"}
    BY <1>1, <2>1 DEF StartFits
  <2> QED BY <2>2, <2>3 DEF IInv, SlotsAreExact, Holding
<1>2. ASSUME NEW s \in Sockets, HasSession(conn[s]), conn[s].state = "streaming"
      PROVE  conn[s].wallClock /\ conn[s].deadline
  BY <1>2 DEF IInv, Sound, Goes, StartFits, HasSession
<1>3. NothingIsOrphaned
  BY <1>1, <1>2 DEF NothingIsOrphaned
<1> QED BY <1>3 DEF IInv, SlotsAreHeld

\* Any number of sessions, started, failed, finished, cancelled, disconnected or shut down
\* in any order, take and free their slots exactly, pass no ceiling, and leave no provider
\* connection and no timer behind (realtime-transcription-service.ts:77, 128).
THEOREM SlotsStayHeld == Spec => []SlotsAreHeld
<1>1. IInv => SlotsAreHeld
  BY InvHolds
<1> QED BY <1>1, Invariance, PTL

LEMMA InvBills ==
  ASSUME IInv
  PROVE  BillingIsExact
<1>1. BilledOnce
  <2>1. ASSUME NEW s \in Sockets
        PROVE  conn[s].billed
                 = IF conn[s].terminal = "done" /\ ~conn[s].unbilled THEN conn[s].seconds ELSE 0
    <3>1. conn[s] \in Conn /\ EndFits(conn[s])
      BY DEF IInv, Sound, Goes
    <3>2. conn[s].unbilled = FALSE \/ conn[s].unbilled = TRUE
      BY <3>1 DEF Conn
    <3> QED BY <3>1, <3>2 DEF EndFits
  <2> QED BY <2>1 DEF BilledOnce
<1>2. ASSUME NEW u \in Users
      PROVE  used[u] <= DailyLimit + (MaxPerUser - 1) * Grant
  <2> DEFINE G == Granted(u)
             a == Cardinality(G)
  <2>1. used[u] \in Nat /\ a \in Nat /\ a * Grant \in Nat /\ Bound \in Int
    <3>1. a \in Nat
      BY GrantedIsFinite
    <3> QED BY <3>1, GrantIsNatural DEF IInv, TypeOK
  <2>2. CASE used[u] + a * Grant <= Bound
    BY <2>1, <2>2 DEF Bound
  <2>3. CASE \E s \in G : used[u] + conn[s].grant + (a - 1) * Grant <= Bound
    <3>1. PICK s \in G : used[u] + conn[s].grant + (a - 1) * Grant <= Bound
      BY <2>3
    <3>2. conn[s].grant \in Nat
      BY GrantIsNatural DEF Granted, IInv, TypeOK, Conn
    <3>3. a - 1 \in Nat
      <4>1. a # 0
        BY <3>1, GrantedIsFinite, FS_EmptySet
      <4> QED BY <2>1, <4>1
    <3>4. (a - 1) * Grant \in Nat
      BY <3>3, GrantIsNatural
    <3> QED BY <2>1, <3>1, <3>2, <3>4 DEF Bound
  <2>4. \/ used[u] + a * Grant <= Bound
        \/ \E s \in G : used[u] + conn[s].grant + (a - 1) * Grant <= Bound
    BY DEF IInv, BudgetIsKept
  <2> QED BY <2>2, <2>3, <2>4
<1> QED BY <1>1, <1>2 DEF BillingIsExact, OvershootIsBounded

\* Whichever terminals a session meets, its seconds are written once or, for a reason, not
\* at all; and sessions that read the budget before the others had been billed pass the
\* daily limit by at most one grant for each of those others, whatever the limits are
\* (realtime-transcription-service.ts:97, realtime-session-controller.ts:286).
THEOREM BillingStaysExact == Spec => []BillingIsExact
<1>1. IInv => BillingIsExact
  BY InvBills
<1> QED BY <1>1, Invariance, PTL

LEMMA InvEnds ==
  ASSUME IInv
  PROVE  SocketsEndWell
<1>1. ASSUME NEW s \in Sockets
      PROVE  /\ conn[s].wire # "broken"
             /\ (conn[s].socket = "closing" /\ conn[s].wire # "terminal")
                  => conn[s].after = "cancel"
             /\ (conn[s].route = "closed" /\ conn[s].socket \in {"open", "stalled"})
                  => conn[s].terminal = "recording"
  BY DEF IInv, Sound, Goes, FaceFits, Attended
<1>2. ASSUME disposal = "done", NEW s \in Sockets
      PROVE  conn[s].route \in {"unopened", "closed"} /\ conn[s].socket \notin {"open", "stalled"}
  <2>1. conn[s] \in Conn /\ StartFits(conn[s]) /\ EndFits(conn[s]) /\ Attended(conn[s])
    BY DEF IInv, Sound, Goes
  <2>2. ~Holding(conn[s])
    BY <1>2 DEF IInv, ShutdownFits, SlotsAreExact
  <2>3. conn[s].route # "awaiting_start"
    BY <1>2 DEF IInv, ShutdownFits, disposed
  <2>4. conn[s].route \in {"unopened", "closed"}
    <3>1. conn[s].route # "starting"
      BY <2>1, <2>2 DEF StartFits, Starting, Holding
    <3>2. conn[s].route \notin {"streaming", "finishing"}
      BY <2>1, <2>2 DEF StartFits, EndFits, Holding
    <3> QED BY <2>1, <2>3, <3>1, <3>2 DEF Conn
  <2>5. conn[s].terminal # "recording"
    BY <2>1, <2>2 DEF StartFits, Holding
  <2>6. conn[s].route = "unopened" => conn[s].socket = "none"
    BY <2>1, UnopenedIs DEF StartFits
  <2> QED BY <2>1, <2>4, <2>5, <2>6 DEF Attended
<1>3. disposal = "done" => active = {}
  BY DEF IInv, ShutdownFits
<1> QED BY <1>1, <1>2, <1>3 DEF SocketsEndWell, ClosedForAReason, DrainIsComplete

\* Every socket that is told ready is told transcripts before its one last event, none is
\* closed without that event unless its client cancelled or stopped reading, and a drain
\* that resolves leaves none open (voice-realtime-socket.ts:244,
\* realtime-transcription-service.ts:161).
THEOREM SocketsStayTold == Spec => []SocketsEndWell
<1>1. IInv => SocketsEndWell
  BY InvEnds
<1> QED BY <1>1, Invariance, PTL
=============================================================================
