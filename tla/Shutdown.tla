------------------------------- MODULE Shutdown -------------------------------
(***************************************************************************)
(* The ordered shutdown of the server (createShutdownHandler), composed    *)
(* with the long polls of Presence and with the workers that it disposes   *)
(* of: the realtime sessions, whose sockets the listener closes, and the   *)
(* producers, which need the database only.                                *)
(*                                                                         *)
(* Abstractions.  A worker is busy or not: its drain is modelled in the    *)
(* module of the worker.  Requests other than those of Presence are        *)
(* answered at once.                                                       *)
(***************************************************************************)
EXTENDS Presence

CONSTANTS
  Realtime,   \* realtimeService
  Producers   \* bridgeStateTracker, activationReminderService

ASSUME ShutdownAssumption == Realtime \notin Producers

VARIABLES
  stage,      \* how far runOrderedShutdown has come
  busy,       \* the workers that have work under way
  drains,     \* their disposals
  exit        \* of the process

vars == <<presence, stage, busy, drains, exit>>

Workers == {Realtime} \cup Producers
Settled == {"done", "degraded"}

TypeOK ==
  /\ PresenceTypeOK
  /\ stage \in {"up", "realtime", "listener", "producers", "reads", "mongo", "closed"}
  /\ busy \subseteq Workers
  /\ drains \in [Workers -> {"none", "waiting"} \cup Settled]
  /\ exit \in {"none", "clean", "failed"}
  /\ exit = "clean" => stage = "closed"

Init ==
  /\ PresenceInit
  /\ stage = "up"
  /\ busy = {}
  /\ drains = [w \in Workers |-> "none"]
  /\ exit = "none"

\* The process is there; requests are admitted until the listener closes.
running == exit = "none"
listening == running /\ stage \in {"up", "realtime"}
work == <<stage, busy, drains, exit>>

Requests ==
  \/ /\ listening
     /\ \/ Unregister
        \/ \E r \in Registers : Register(r)
        \/ \E p \in Polls : AskNow(p) \/ AskAndWait(p)
  \/ /\ running
     /\ \/ \E r \in Registers : Wake(r)
        \/ \E p \in Polls : LookUp(p) \/ ReadEnds(p) \/ FirstReadFindsNone(p) \/ Deadline(p) \/ Leave(p) \/ Reply(p)

HandleRequests == Requests /\ UNCHANGED work

-----------------------------------------------------------------------------
(* The workers. *)

Work(w) ==
  /\ running /\ drains[w] = "none" /\ w \notin busy
  /\ busy' = busy \cup {w}
  /\ UNCHANGED <<presence, stage, drains, exit>>

\* Its disposal, if it has been asked for, ends with its work.
Finish(w) ==
  /\ running /\ w \in busy
  /\ busy' = busy \ {w}
  /\ drains' = [drains EXCEPT ![w] = IF @ = "waiting" THEN "done" ELSE @]
  /\ UNCHANGED <<presence, stage, exit>>

\* A drain that fails or times out is given up; its work may go on.
DegradeDrain(w) ==
  /\ running /\ drains[w] = "waiting"
  /\ drains' = [drains EXCEPT ![w] = "degraded"]
  /\ UNCHANGED <<presence, stage, busy, exit>>

-----------------------------------------------------------------------------
(* The shutdown. *)

\* SIGTERM or SIGINT; another one joins the shutdown that is under way.
Signal ==
  /\ running /\ stage = "up"
  /\ ReleaseWaiters
  /\ stage' = "realtime"
  /\ drains' = [w \in Workers |-> IF w \in busy THEN "waiting" ELSE "done"]
  /\ UNCHANGED <<busy, exit>>

Step(from, to) == running /\ stage = from /\ stage' = to /\ UNCHANGED <<presence, busy, drains, exit>>

DisposeRealtime == Step("realtime", "listener") /\ drains[Realtime] \in Settled

\* app.close() resolves when no connection has a request left.
CloseListener ==
  /\ Step("listener", "producers")
  /\ \A p \in Polls : polls[p].at \in {"idle", "gone"}
  /\ \A r \in Registers : registers[r] = "idle"

AwaitProducers == Step("producers", "reads") /\ \A w \in Producers : drains[w] \in Settled

\* Slip: what nobody waits for any more is not waited for.
Slip_DrainReads == Step("reads", "mongo")

DrainReads == Step("reads", "mongo") /\ ActiveReads = {}

CloseMongo ==
  /\ running /\ stage = "mongo"
  /\ stage' = "closed" /\ exit' = "clean"
  /\ UNCHANGED <<presence, busy, drains>>

\* The hard deadline, or the listener or the database cannot be closed: the process
\* ends with all that it held.
GiveUp ==
  /\ running /\ stage # "up"
  /\ exit' = "failed"
  /\ polls' = [p \in Polls |-> NoPoll] /\ registers' = [r \in Registers |-> "idle"]
  /\ busy' = {} /\ drains' = [w \in Workers |-> "none"]
  /\ UNCHANGED <<registered, released, stage>>

Next ==
  \/ HandleRequests
  \/ \E w \in Workers : Work(w) \/ Finish(w) \/ DegradeDrain(w)
  \/ Signal \/ DisposeRealtime \/ CloseListener \/ AwaitProducers \/ DrainReads \/ CloseMongo \/ GiveUp

Spec == Init /\ [][Next]_vars

\* Timers fire, the driver ends every read within its timeout, and what has been
\* computed is sent.
Fairness ==
  \A p \in Polls :
    /\ WF_vars(running /\ LookUp(p) /\ UNCHANGED work)
    /\ WF_vars(running /\ (ReadEnds(p) \/ FirstReadFindsNone(p)) /\ UNCHANGED work)
    /\ WF_vars(running /\ Deadline(p) /\ UNCHANGED work)
    /\ WF_vars(running /\ Reply(p) /\ UNCHANGED work)

FairSpec == Spec /\ Fairness

-----------------------------------------------------------------------------
(* Properties. *)

\* Nothing uses what has been closed: a session has ended, or its drain was given up,
\* before the listener closes its socket, and the database outlives every read, those
\* of clients that have left included, and every producer (shutdown.ts:148, :160).
ClosedIsUnused ==
  /\ stage \in {"listener", "producers", "reads", "mongo", "closed"} /\ Realtime \in busy =>
       drains[Realtime] = "degraded"
  /\ stage = "closed" => ActiveReads = {} /\ \A w \in Producers \cap busy : drains[w] = "degraded"

\* Every request for the status is answered, unless its client leaves or the process
\* exits: a poll outlives neither its deadline nor a hanging read.
EveryPollAnswered ==
  \A p \in Polls : polls[p].at \notin {"idle", "gone"} ~> polls[p].at \in {"idle", "gone"} \/ exit # "none"
=============================================================================
