------------------------------- MODULE Presence -------------------------------
(***************************************************************************)
(* Long polls that wait until a user has registered an app                 *)
(* (AppClientPresenceService, GET /auth/app-clients/status), beside the    *)
(* registrations that wake them, clients that leave, and the release of    *)
(* the waiters by a shutdown (module Shutdown).                            *)
(*                                                                         *)
(* Abstractions.  One user: users share nothing here.  Time is a timer     *)
(* that may fire.  A read has a moment at which it looks at the database,  *)
(* and another at which its result arrives.  A request that nobody waits   *)
(* for any more stays until its read ends.                                 *)
(*                                                                         *)
(* An operator named Slip_X is X with one plausible mistake.               *)
(***************************************************************************)
EXTENDS Naturals

CONSTANTS
  Polls,     \* requests for the status, at once
  Registers  \* requests that register a token, at once

VARIABLES
  registered,  \* whether deviceTokens has one of the user
  polls,
  registers,
  released     \* #released

presence == <<registered, polls, registers, released>>

Reading == {"issued", "yes", "no", "error"}
Answers == {"true", "false", "timeout", "restarting", "error"}
NoPoll == [at |-> "idle", read |-> "none", answer |-> "none", seen |-> {}]

PresenceTypeOK ==
  /\ registered \in BOOLEAN /\ released \in BOOLEAN
  /\ polls \in [Polls -> [at : {"idle", "plain", "first", "waiting", "answered", "gone"},
                          read : Reading \cup {"none"}, answer : Answers \cup {"none"},
                          seen : SUBSET BOOLEAN]]
  /\ registers \in [Registers -> {"idle", "wake"}]
  /\ \A p \in Polls :
       /\ polls[p].at = "answered" <=> polls[p].answer # "none"
       /\ polls[p].at \in {"plain", "first", "gone"} => polls[p].read # "none"

PresenceInit ==
  /\ registered \in BOOLEAN
  /\ polls = [p \in Polls |-> NoPoll]
  /\ registers = [r \in Registers |-> "idle"]
  /\ released = FALSE

\* #activeReads
ActiveReads == {p \in Polls : polls[p].read # "none"}
\* #waitersByUserId
Waiters == {p \in Polls : polls[p].at = "waiting"}

\* What a request that is under way may have seen of the table.
Seen(p, now) == [polls[p] EXCEPT !.seen = @ \cup (IF polls[p].at \in {"plain", "first", "waiting"} THEN {now} ELSE {})]

Answer(poll, answer) == [poll EXCEPT !.at = "answered", !.answer = answer]

\* Slip: a request that has nothing under way is kept.
Slip_Ended(poll) == [NoPoll EXCEPT !.at = "gone"]

\* What remains of a request when nobody waits for it.
Ended(poll) == IF poll.read = "none" THEN NoPoll ELSE [NoPoll EXCEPT !.at = "gone", !.read = poll.read]
Poll(p, poll) == polls' = [polls EXCEPT ![p] = poll] /\ UNCHANGED <<registered, registers, released>>

-----------------------------------------------------------------------------
(* registerToken. *)

\* DELETE /notifications/tokens/:token, of the last token.
Unregister ==
  /\ registered
  /\ registered' = FALSE
  /\ polls' = [p \in Polls |-> Seen(p, FALSE)]
  /\ UNCHANGED <<registers, released>>

Register(r) ==
  /\ registers[r] = "idle"
  /\ registered' = TRUE
  /\ polls' = [p \in Polls |-> Seen(p, TRUE)]
  /\ registers' = [registers EXCEPT ![r] = "wake"]
  /\ UNCHANGED released

Wake(r) ==
  /\ registers[r] = "wake"
  /\ polls' = [p \in Polls |-> IF p \in Waiters THEN Answer(polls[p], "true") ELSE polls[p]]
  /\ registers' = [registers EXCEPT ![r] = "idle"]
  /\ UNCHANGED <<registered, released>>

-----------------------------------------------------------------------------
(* The status route. *)

\* A registration counts until it has been answered.
standing == {registered} \cup (IF \A r \in Registers : registers[r] = "idle" THEN {} ELSE {TRUE})

AskNow(p) ==
  /\ polls[p].at = "idle"
  /\ Poll(p, [NoPoll EXCEPT !.at = "plain", !.read = "issued", !.seen = standing])

\* A wait that begins after the release has no absence to report.
AskAndWait(p) ==
  /\ polls[p].at = "idle"
  /\ Poll(p, IF released THEN Answer(NoPoll, "restarting")
             ELSE [NoPoll EXCEPT !.at = "first", !.read = "issued", !.seen = standing])

\* The read looks at the table, or fails.
LookUp(p) ==
  /\ polls[p].read = "issued"
  /\ \E read \in {IF registered THEN "yes" ELSE "no", "error"} : Poll(p, [polls[p] EXCEPT !.read = read])

arrived(p) == [polls[p] EXCEPT !.read = "none"]

\* The result of a read that answers its request, or that nobody waits for any more.
ReadEnds(p) ==
  /\ polls[p].read \in {"yes", "no", "error"}
  /\ \/ /\ polls[p].at \in {"answered", "gone"}
        /\ Poll(p, IF polls[p].at = "gone" THEN NoPoll ELSE arrived(p))
     \/ /\ polls[p].at \in {"plain", "first", "waiting"}
        /\ polls[p].read \in {"yes", "error"}
        /\ Poll(p, Answer(arrived(p), IF polls[p].read = "yes" THEN "true" ELSE "error"))
     \/ /\ polls[p].at = "plain" /\ polls[p].read = "no"
        /\ Poll(p, Answer(arrived(p), "false"))
     \* The recheck found none: the waiter goes on waiting.
     \/ /\ polls[p].at = "waiting" /\ polls[p].read = "no"
        /\ Poll(p, arrived(p))

\* Slip: a registration during the first read is not looked for again.
Slip_StoreWaiter(p) == [arrived(p) EXCEPT !.at = "waiting"]

\* The waiter is stored, and then the table is read again.
StoreWaiter(p) == [polls[p] EXCEPT !.at = "waiting", !.read = "issued"]

\* There may be no time left to wait.
Outcomes(p) == {Answer(arrived(p), "false")} \cup (IF released THEN {} ELSE {StoreWaiter(p)})

FirstReadFindsNone(p) ==
  /\ polls[p].at = "first" /\ polls[p].read = "no"
  /\ \E poll \in Outcomes(p) : Poll(p, poll)

LateAnswer(p) == IF polls[p].at = "first" THEN "timeout" ELSE "false"

\* Slip: the timer is cleared when the first read has ended, and not armed again.
Slip_Timed(p) == polls[p].at = "first"

\* The deadline, before the first result or for a waiter.
Timed(p) == polls[p].at \in {"first", "waiting"}

Deadline(p) ==
  /\ Timed(p)
  /\ Poll(p, Answer(polls[p], LateAnswer(p)))

\* The client closes its connection: nothing is answered, but the read goes on.
Leave(p) ==
  /\ polls[p].at \in {"plain", "first", "waiting", "answered"}
  /\ Poll(p, Ended(polls[p]))

Reply(p) ==
  /\ polls[p].at = "answered"
  /\ Poll(p, Ended(polls[p]))

\* releaseWaiters, as part of a shutdown.
ReleaseWaiters ==
  /\ released' = TRUE
  /\ polls' = [p \in Polls |-> IF p \in Waiters THEN Answer(polls[p], "restarting") ELSE polls[p]]
  /\ UNCHANGED <<registered, registers>>

-----------------------------------------------------------------------------
(* Properties. *)

\* A waiter whose table has a token is about to be woken, or to find the token itself:
\* no registration falls between the first read and the waiter
\* (app-client-presence-service.ts:197).
NoMissedRegistration ==
  registered => \A p \in Waiters : polls[p].read \in {"none", "no"} => \E r \in Registers : registers[r] = "wake"

\* Whatever the registration, the two reads, the deadline and the release do to each
\* other, the answer was true of the table at some time since the request, or of a
\* registration that was still under way, and after the release nobody waits
\* (app-client-presence-service.ts:29, :142).
AnswersAreTrue ==
  /\ \A p \in Polls : polls[p].at = "answered" =>
       /\ polls[p].answer = "true" => TRUE \in polls[p].seen
       /\ polls[p].answer = "false" => FALSE \in polls[p].seen
       /\ polls[p].answer = "restarting" => released
  /\ released => Waiters = {}

\* What a poll is told, and what it is not told yet, is true.
PollsAreHonest == NoMissedRegistration /\ AnswersAreTrue
=============================================================================
