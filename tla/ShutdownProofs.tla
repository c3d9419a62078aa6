---------------------------- MODULE ShutdownProofs ----------------------------
(***************************************************************************)
(* Proofs about the shutdown and the long polls that it releases, for any  *)
(* number of polls, registrations and producers.                           *)
(*                                                                         *)
(* A poll is honest because whatever it may be answered has been seen      *)
(* since it was asked; what is closed is unused because nothing begins     *)
(* after the shutdown has, and each stage waits for what it then closes.   *)
(*                                                                         *)
(* And about the milestones and reminders of an account (Activation),      *)
(* whose service a shutdown disposes of, for any number of requests and    *)
(* sweeps: reminders are sent once because sweeps do not overlap, and      *)
(* milestones stay because each update fills in only what is missing.      *)
(***************************************************************************)
EXTENDS Shutdown, Activation, TLAPS

PollRecord == [at : {"idle", "plain", "first", "waiting", "answered", "gone"},
               read : Reading \cup {"none"}, answer : Answers \cup {"none"}, seen : SUBSET BOOLEAN]

\* Some registration is still to wake its waiters.
Waking == \E r \in Registers : registers[r] = "wake"

\* A poll has its shape: only what is answered has an answer, and only a request that
\* reads is left behind.
Shaped(poll) ==
  /\ poll \in PollRecord
  /\ poll.at = "answered" <=> poll.answer # "none"
  /\ poll.at \in {"plain", "first", "gone"} => poll.read # "none"
  /\ poll.at = "idle" => poll.read = "none"

\* A request under way has seen the table as it is, the registrations under way, and
\* what its read has found.
Informed(poll) ==
  poll.at \in {"plain", "first", "waiting"} =>
    /\ registered \/ poll.read = "yes" \/ Waking => TRUE \in poll.seen
    /\ ~registered \/ poll.read = "no" \/ poll.at = "waiting" => FALSE \in poll.seen

\* A waiter misses no registration, and nobody waits after the release.
Watchful(poll) ==
  poll.at = "waiting" =>
    /\ ~released
    /\ registered /\ poll.read \in {"none", "no"} => Waking

\* The answer was true at some time since the request.
Honest(poll) ==
  poll.at = "answered" =>
    /\ poll.answer = "true" => TRUE \in poll.seen
    /\ poll.answer = "false" => FALSE \in poll.seen
    /\ poll.answer = "restarting" => released

Good(poll) == Shaped(poll) /\ Informed(poll) /\ Watchful(poll) /\ Honest(poll)

TableType == registered \in BOOLEAN /\ released \in BOOLEAN /\ registers \in [Registers -> {"idle", "wake"}]
PollsType == polls \in [Polls -> PollRecord]

PresenceInv == TableType /\ PollsType /\ \A p \in Polls : Good(polls[p])

ShutdownType ==
  /\ stage \in {"up", "realtime", "listener", "producers", "reads", "mongo", "closed"}
  /\ busy \subseteq Workers
  /\ drains \in [Workers -> {"none", "waiting"} \cup Settled]
  /\ exit \in {"none", "clean", "failed"}
  /\ exit = "clean" => stage = "closed"

\* Every worker is asked to drain, one that says it is done has nothing under way, and
\* the stages wait for the workers that they close.
DrainsAreAwaited ==
  /\ \A w \in Workers : drains[w] = "done" => w \notin busy
  /\ exit = "failed" => busy = {}
  /\ exit # "failed" =>
       /\ stage # "up" => \A w \in Workers : drains[w] # "none"
       /\ stage \in {"listener", "producers", "reads", "mongo", "closed"} => drains[Realtime] \in Settled
       /\ stage \in {"reads", "mongo", "closed"} => \A w \in Producers : drains[w] \in Settled

\* Behind a closed listener there are only reads that nobody waits for, and behind the
\* last stages not even these.
ReadsAreAwaited ==
  \A p \in Polls :
    /\ stage \in {"producers", "reads", "mongo", "closed"} => polls[p].at \in {"idle", "gone"}
    /\ stage \in {"mongo", "closed"} => polls[p].read = "none"

WorkInv == ShutdownType /\ DrainsAreAwaited
IInv == PresenceInv /\ WorkInv /\ ReadsAreAwaited

-----------------------------------------------------------------------------
(* Lemmas about one poll. *)

LEMMA NoPollIsGood == NoPoll \in PollRecord /\ NoPoll.at = "idle" /\ NoPoll.read = "none" /\ Good(NoPoll)
<1>1. /\ NoPoll \in PollRecord /\ NoPoll.at = "idle" /\ NoPoll.read = "none" /\ NoPoll.answer = "none"
  BY DEF NoPoll, PollRecord, Reading, Answers
<1> QED BY <1>1 DEF Good, Shaped, Informed, Watchful, Honest

\* What an answer keeps of the request.
LEMMA AnswerOfPoll ==
  ASSUME NEW poll \in PollRecord, NEW answer \in Answers
  PROVE  /\ Answer(poll, answer) \in PollRecord
         /\ Answer(poll, answer).at = "answered" /\ Answer(poll, answer).answer = answer
         /\ Answer(poll, answer).read = poll.read /\ Answer(poll, answer).seen = poll.seen
BY DEF Answer, PollRecord

\* An answer is good if it is true.
LEMMA TrueAnswer ==
  ASSUME NEW poll \in PollRecord, NEW answer \in Answers,
         answer = "true" => TRUE \in poll.seen,
         answer = "false" => FALSE \in poll.seen,
         answer = "restarting" => released
  PROVE  Good(Answer(poll, answer))
<1> DEFINE q == Answer(poll, answer)
<1>1. /\ q \in PollRecord /\ q.at = "answered" /\ q.answer = answer /\ q.answer # "none"
      /\ q.seen = poll.seen
  BY AnswerOfPoll DEF Answers
<1> HIDE DEF q
<1>2. Good(q)
  BY <1>1 DEF Good, Shaped, Informed, Watchful, Honest
<1> QED BY <1>2 DEF q

\* A request that nobody waits for is good.
LEMMA EndedIsGood ==
  ASSUME NEW poll \in PollRecord
  PROVE  Good(Ended(poll))
<1>1. CASE poll.read = "none"
  BY <1>1, NoPollIsGood DEF Ended
<1>2. CASE poll.read # "none"
  <2> DEFINE q == [NoPoll EXCEPT !.at = "gone", !.read = poll.read]
  <2>1. q \in PollRecord /\ q.at = "gone" /\ q.read = poll.read /\ q.answer = "none"
    BY DEF NoPoll, PollRecord, Answers
  <2> HIDE DEF q
  <2>2. Good(q)
    BY <1>2, <2>1 DEF Good, Shaped, Informed, Watchful, Honest
  <2> QED BY <1>2, <2>2 DEF Ended, q
<1> QED BY <1>1, <1>2

\* A poll moves on, and the table and the registrations stay.
LEMMA PollMoves ==
  ASSUME PresenceInv, NEW p \in Polls, NEW q, Good(q), Poll(p, q)
  PROVE  PresenceInv'
<1>1. UNCHANGED <<registered, registers, released>> /\ polls' = [polls EXCEPT ![p] = q]
  BY DEF Poll
<1>2. TableType' /\ PollsType'
  BY <1>1 DEF PresenceInv, TableType, PollsType, Good, Shaped
<1>3. ASSUME NEW x \in Polls PROVE Good(polls[x])'
  BY <1>1 DEF PresenceInv, PollsType, Good, Shaped, Informed, Watchful, Honest, Waking
<1> QED BY <1>2, <1>3 DEF PresenceInv

-----------------------------------------------------------------------------
(* The registrations. *)

\* What a poll has seen when the table changes.
LEMMA SeenOfPoll ==
  ASSUME PollsType, NEW p \in Polls, NEW now \in BOOLEAN
  PROVE  /\ Seen(p, now) \in PollRecord
         /\ Seen(p, now).at = polls[p].at /\ Seen(p, now).read = polls[p].read
         /\ Seen(p, now).answer = polls[p].answer
         /\ polls[p].seen \subseteq Seen(p, now).seen
         /\ polls[p].at \in {"plain", "first", "waiting"} => now \in Seen(p, now).seen
<1> DEFINE more == polls[p].seen \cup (IF polls[p].at \in {"plain", "first", "waiting"} THEN {now} ELSE {})
<1>1. more \in SUBSET BOOLEAN /\ polls[p].seen \subseteq more
  BY Zenon DEF PollsType, PollRecord
<1>2. polls[p].at \in {"plain", "first", "waiting"} => now \in more
  OBVIOUS
<1>3. Seen(p, now) = [polls[p] EXCEPT !.seen = more]
  BY DEF Seen
<1> HIDE DEF more
<1> QED BY <1>1, <1>2, <1>3 DEF PollsType, PollRecord

LEMMA RegistrationKeeps ==
  ASSUME PresenceInv, Unregister \/ \E r \in Registers : Register(r)
  PROVE  PresenceInv'
<1>1. PICK now \in BOOLEAN :
        /\ registered' = now
        /\ polls' = [p \in Polls |-> Seen(p, now)]
        /\ UNCHANGED released
        /\ registers' \in [Registers -> {"idle", "wake"}]
        /\ now = TRUE => Waking'
        /\ now = FALSE => UNCHANGED registers
  BY DEF Unregister, Register, PresenceInv, TableType, Waking
<1>2. TableType' /\ PollsType'
  BY <1>1, SeenOfPoll DEF PresenceInv, TableType, PollsType
<1>3. ASSUME NEW p \in Polls PROVE Good(polls[p])'
  <2> DEFINE q == Seen(p, now)
  <2>1. /\ q \in PollRecord
        /\ q.at = polls[p].at /\ q.read = polls[p].read /\ q.answer = polls[p].answer
        /\ polls[p].seen \subseteq q.seen
        /\ q.at \in {"plain", "first", "waiting"} => now \in q.seen
    BY SeenOfPoll DEF PresenceInv
  <2>2. polls'[p] = q
    BY <1>1
  <2> HIDE DEF q
  <2>3. Good(polls[p])
    BY DEF PresenceInv
  <2>4. Shaped(polls[p])' /\ Honest(polls[p])'
    BY <1>1, <2>1, <2>2, <2>3 DEF Good, Shaped, Honest
  <2>5. CASE now = TRUE
    BY <1>1, <2>1, <2>2, <2>3, <2>4, <2>5 DEF Good, Informed, Watchful
  <2>6. CASE now = FALSE
    <3>1. Waking' <=> Waking
      BY <1>1, <2>6 DEF Waking
    <3> QED BY <1>1, <2>1, <2>2, <2>3, <2>4, <2>6, <3>1 DEF Good, Informed, Watchful
  <2> QED BY <2>5, <2>6
<1> QED BY <1>2, <1>3 DEF PresenceInv

\* The waiters are answered, and then nobody waits.
LEMMA WaitersAnswered ==
  ASSUME PresenceInv, TableType', NEW answer \in {"true", "restarting"},
         polls' = [p \in Polls |-> IF p \in Waiters THEN Answer(polls[p], answer) ELSE polls[p]],
         UNCHANGED registered, Waking' => Waking, released => released',
         answer = "true" => Waking,
         answer = "restarting" => released'
  PROVE  PresenceInv'
<1>1. PollsType /\ \A p \in Polls : polls[p] \in PollRecord /\ Good(polls[p])
  BY DEF PresenceInv, PollsType
<1>2. ASSUME NEW p \in Polls PROVE polls'[p] \in PollRecord /\ Good(polls[p])'
  <2>1. CASE polls[p].at = "waiting"
    <3> DEFINE q == Answer(polls[p], answer)
    <3>1. polls'[p] = q
      BY <2>1 DEF Waiters
    <3>2. /\ q \in PollRecord /\ q.at = "answered" /\ q.answer = answer /\ q.seen = polls[p].seen
      BY <1>1, AnswerOfPoll DEF Answers
    <3> HIDE DEF q
    <3>3. answer = "true" => TRUE \in q.seen
      BY <1>1, <2>1, <3>2 DEF Good, Informed
    <3> QED BY <3>1, <3>2, <3>3 DEF Good, Shaped, Informed, Watchful, Honest
  <2>2. CASE polls[p].at # "waiting"
    <3>1. polls'[p] = polls[p]
      BY <2>2 DEF Waiters
    <3> QED BY <1>1, <2>2, <3>1 DEF Good, Shaped, Informed, Watchful, Honest
  <2> QED BY <2>1, <2>2
<1>3. PollsType'
  BY <1>2 DEF PollsType
<1> QED BY <1>2, <1>3 DEF PresenceInv

LEMMA WakeKeeps ==
  ASSUME PresenceInv, NEW r \in Registers, Wake(r)
  PROVE  PresenceInv'
<1>1. /\ registers[r] = "wake" /\ registers' = [registers EXCEPT ![r] = "idle"]
      /\ polls' = [p \in Polls |-> IF p \in Waiters THEN Answer(polls[p], "true") ELSE polls[p]]
      /\ UNCHANGED <<registered, released>>
  BY DEF Wake
<1>2. TableType' /\ Waking /\ (Waking' => Waking)
  BY <1>1 DEF PresenceInv, TableType, Waking
<1> QED BY <1>1, <1>2, WaitersAnswered

LEMMA ReleaseKeeps ==
  ASSUME PresenceInv, ReleaseWaiters
  PROVE  PresenceInv'
<1>1. /\ polls' = [p \in Polls |-> IF p \in Waiters THEN Answer(polls[p], "restarting") ELSE polls[p]]
      /\ UNCHANGED <<registered, registers>> /\ released' = TRUE
  BY DEF ReleaseWaiters
<1>2. TableType' /\ (Waking' => Waking)
  BY <1>1 DEF PresenceInv, TableType, Waking
<1> QED BY <1>1, <1>2, WaitersAnswered

-----------------------------------------------------------------------------
(* The requests. *)

\* A request begins with what stands.
LEMMA StandingIsSeen ==
  ASSUME TableType
  PROVE  /\ standing \in SUBSET BOOLEAN
         /\ registered \/ Waking => TRUE \in standing
         /\ ~registered => FALSE \in standing
<1>1. CASE Waking
  <2>1. standing = {registered} \cup {TRUE}
    BY <1>1 DEF standing, Waking
  <2> QED BY <2>1 DEF TableType
<1>2. CASE ~Waking
  <2>1. standing = {registered}
    BY <1>2 DEF standing, Waking, TableType
  <2> QED BY <1>2, <2>1 DEF TableType
<1> QED BY <1>1, <1>2

LEMMA AskKeeps ==
  ASSUME PresenceInv, NEW p \in Polls, AskNow(p) \/ AskAndWait(p)
  PROVE  PresenceInv'
<1>1. ASSUME NEW at \in {"plain", "first"},
             Poll(p, [NoPoll EXCEPT !.at = at, !.read = "issued", !.seen = standing])
      PROVE  PresenceInv'
  <2> DEFINE q == [NoPoll EXCEPT !.at = at, !.read = "issued", !.seen = standing]
  <2>1. q \in PollRecord /\ q.at = at /\ q.read = "issued" /\ q.answer = "none" /\ q.seen = standing
    BY StandingIsSeen DEF NoPoll, PollRecord, Reading, Answers, PresenceInv
  <2>2. Poll(p, q)
    BY <1>1
  <2> HIDE DEF q
  <2>3. Good(q)
    BY <2>1, StandingIsSeen DEF PresenceInv, Good, Shaped, Informed, Watchful, Honest
  <2> QED BY <2>2, <2>3, PollMoves
<1>2. CASE AskAndWait(p) /\ released
  <2>1. Good(Answer(NoPoll, "restarting"))
    BY <1>2, NoPollIsGood, TrueAnswer DEF Answers
  <2>2. Poll(p, Answer(NoPoll, "restarting"))
    BY <1>2 DEF AskAndWait
  <2> QED BY <2>1, <2>2, PollMoves
<1>3. CASE AskAndWait(p) /\ ~released
  BY <1>1, <1>3 DEF AskAndWait
<1>4. CASE AskNow(p)
  BY <1>1, <1>4 DEF AskNow
<1> QED BY <1>2, <1>3, <1>4

LEMMA LookUpKeeps ==
  ASSUME PresenceInv, NEW p \in Polls, LookUp(p)
  PROVE  PresenceInv'
<1>1. polls[p] \in PollRecord /\ Good(polls[p]) /\ polls[p].read = "issued" /\ registered \in BOOLEAN
  BY DEF LookUp, PresenceInv, PollsType, TableType
<1>2. PICK read \in {IF registered THEN "yes" ELSE "no", "error"} : Poll(p, [polls[p] EXCEPT !.read = read])
  BY DEF LookUp
<1> DEFINE q == [polls[p] EXCEPT !.read = read]
<1>3. /\ q \in PollRecord /\ q.at = polls[p].at /\ q.read = read /\ q.answer = polls[p].answer
      /\ q.seen = polls[p].seen
  BY <1>1, <1>2 DEF PollRecord, Reading
<1> HIDE DEF q
<1>4. /\ read \in {"yes", "no", "error"}
      /\ read = "yes" => registered
      /\ read = "no" => ~registered
  BY <1>1, <1>2
<1>5. Good(q)
  BY <1>1, <1>3, <1>4 DEF Good, Shaped, Informed, Watchful, Honest
<1> QED BY <1>2, <1>5, PollMoves DEF q

\* What arrives of a read.
LEMMA ArrivedOfPoll ==
  ASSUME PollsType, NEW p \in Polls
  PROVE  /\ arrived(p) \in PollRecord
         /\ arrived(p).at = polls[p].at /\ arrived(p).read = "none"
         /\ arrived(p).answer = polls[p].answer /\ arrived(p).seen = polls[p].seen
BY DEF arrived, PollsType, PollRecord

LEMMA ReadEndsKeeps ==
  ASSUME PresenceInv, NEW p \in Polls, ReadEnds(p)
  PROVE  PresenceInv'
<1>1. PollsType /\ polls[p] \in PollRecord /\ Good(polls[p])
  BY DEF PresenceInv, PollsType
<1> DEFINE q == arrived(p)
<1>2. /\ q \in PollRecord /\ q.at = polls[p].at /\ q.read = "none"
      /\ q.answer = polls[p].answer /\ q.seen = polls[p].seen
  BY <1>1, ArrivedOfPoll
<1>3. arrived(p) = q
  OBVIOUS
<1> HIDE DEF q
<1>4. CASE polls[p].at = "gone"
  BY <1>4, NoPollIsGood, PollMoves DEF ReadEnds
<1>5. CASE polls[p].at = "answered"
  <2>1. Good(q)
    BY <1>1, <1>2, <1>5 DEF Good, Shaped, Informed, Watchful, Honest
  <2> QED BY <1>3, <1>5, <2>1, PollMoves DEF ReadEnds
<1>6. CASE polls[p].at \in {"plain", "first", "waiting"} /\ polls[p].read = "yes"
  <2>1. Good(Answer(q, "true"))
    BY <1>1, <1>2, <1>6, TrueAnswer DEF Good, Informed, Answers
  <2> QED BY <1>3, <1>6, <2>1, PollMoves DEF ReadEnds
<1>7. CASE polls[p].at \in {"plain", "first", "waiting"} /\ polls[p].read = "error"
  <2>1. Good(Answer(q, "error"))
    BY <1>2, TrueAnswer DEF Answers
  <2> QED BY <1>3, <1>7, <2>1, PollMoves DEF ReadEnds
<1>8. CASE polls[p].at = "plain" /\ polls[p].read = "no"
  <2>1. Good(Answer(q, "false"))
    BY <1>1, <1>2, <1>8, TrueAnswer DEF Good, Informed, Answers
  <2> QED BY <1>3, <1>8, <2>1, PollMoves DEF ReadEnds
<1>9. CASE polls[p].at = "waiting" /\ polls[p].read = "no"
  <2>1. Good(q)
    BY <1>1, <1>2, <1>9 DEF Good, Shaped, Informed, Watchful, Honest
  <2> QED BY <1>3, <1>9, <2>1, PollMoves DEF ReadEnds
<1> QED BY <1>4, <1>5, <1>6, <1>7, <1>8, <1>9 DEF ReadEnds

LEMMA FirstReadKeeps ==
  ASSUME PresenceInv, NEW p \in Polls, FirstReadFindsNone(p)
  PROVE  PresenceInv'
<1>1. /\ PollsType /\ polls[p] \in PollRecord /\ Good(polls[p])
      /\ polls[p].at = "first" /\ polls[p].read = "no" /\ FALSE \in polls[p].seen
  BY DEF PresenceInv, PollsType, FirstReadFindsNone, Good, Informed
<1>2. CASE Poll(p, Answer(arrived(p), "false"))
  <2>1. Good(Answer(arrived(p), "false"))
    BY <1>1, ArrivedOfPoll, TrueAnswer DEF Answers
  <2> QED BY <1>2, <2>1, PollMoves
<1>3. CASE ~released /\ Poll(p, StoreWaiter(p))
  <2> DEFINE q == [polls[p] EXCEPT !.at = "waiting", !.read = "issued"]
  <2>1. /\ q \in PollRecord /\ q.at = "waiting" /\ q.read = "issued" /\ q.answer = polls[p].answer
        /\ q.seen = polls[p].seen
    BY <1>1 DEF PollRecord, Reading
  <2>2. Poll(p, q)
    BY <1>3 DEF StoreWaiter
  <2> HIDE DEF q
  <2>3. Good(q)
    BY <1>1, <1>3, <2>1 DEF Good, Shaped, Informed, Watchful, Honest
  <2> QED BY <2>2, <2>3, PollMoves
<1> QED BY <1>2, <1>3 DEF FirstReadFindsNone, Outcomes

LEMMA AnswerKeeps ==
  ASSUME PresenceInv, NEW p \in Polls, Deadline(p) \/ Leave(p) \/ Reply(p)
  PROVE  PresenceInv'
<1>1. polls[p] \in PollRecord /\ Good(polls[p])
  BY DEF PresenceInv, PollsType
<1>2. CASE Deadline(p)
  <2>1. Good(Answer(polls[p], LateAnswer(p)))
    BY <1>1, <1>2, TrueAnswer DEF Deadline, Timed, LateAnswer, Good, Informed, Answers
  <2> QED BY <1>2, <2>1, PollMoves DEF Deadline
<1>3. CASE Leave(p) \/ Reply(p)
  BY <1>1, <1>3, EndedIsGood, PollMoves DEF Leave, Reply
<1> QED BY <1>2, <1>3

-----------------------------------------------------------------------------
(* The shutdown. *)

\* Requests never break a poll.
LEMMA RequestsKeep ==
  ASSUME PresenceInv, Requests
  PROVE  PresenceInv'
BY RegistrationKeeps, WakeKeeps, AskKeeps, LookUpKeeps, ReadEndsKeeps, FirstReadKeeps, AnswerKeeps DEF Requests

\* Behind a closed listener nobody asks, and a read that has ended is not begun again.
LEMMA ReadsRunOut ==
  ASSUME PresenceInv, Requests, ~listening,
         \A p \in Polls : polls[p].at \in {"idle", "gone"}
  PROVE  \A p \in Polls : /\ polls'[p].at \in {"idle", "gone"}
                          /\ polls[p].read = "none" => polls'[p].read = "none"
<1>1. PollsType
  BY DEF PresenceInv
<1>2. CASE \E r \in Registers : Wake(r)
  BY <1>2 DEF Wake, Waiters
<1>3. ASSUME NEW p \in Polls, LookUp(p)
      PROVE  \A x \in Polls : /\ polls'[x].at \in {"idle", "gone"}
                              /\ polls[x].read = "none" => polls'[x].read = "none"
  <2>1. PICK read \in {"yes", "no", "error"} : polls' = [polls EXCEPT ![p] = [polls[p] EXCEPT !.read = read]]
    BY <1>3 DEF LookUp, Poll
  <2>2. polls[p].read = "issued" /\ polls[p] \in PollRecord
    BY <1>1, <1>3 DEF LookUp, PollsType
  <2> QED BY <1>1, <2>1, <2>2 DEF PollsType, PollRecord
<1>4. ASSUME NEW p \in Polls, ReadEnds(p)
      PROVE  \A x \in Polls : /\ polls'[x].at \in {"idle", "gone"}
                              /\ polls[x].read = "none" => polls'[x].read = "none"
  <2>1. polls' = [polls EXCEPT ![p] = NoPoll] \/ polls' = [polls EXCEPT ![p] = arrived(p)]
    BY <1>4 DEF ReadEnds, Poll
  <2> QED BY <1>1, <2>1, NoPollIsGood, ArrivedOfPoll DEF PollsType
<1>5. ASSUME NEW p \in Polls, FirstReadFindsNone(p) \/ Deadline(p) \/ Leave(p) \/ Reply(p)
      PROVE  FALSE
  BY <1>5 DEF FirstReadFindsNone, Deadline, Timed, Leave, Reply
<1> QED BY <1>2, <1>3, <1>4, <1>5 DEF Requests

LEMMA HandleRequestsKeeps ==
  ASSUME IInv, HandleRequests
  PROVE  IInv'
<1> USE DEF IInv, WorkInv
<1>1. Requests /\ UNCHANGED <<stage, busy, drains, exit>>
  BY DEF HandleRequests, work
<1>2. PresenceInv' /\ WorkInv'
  BY <1>1, RequestsKeep DEF ShutdownType, DrainsAreAwaited
<1>3. CASE stage \in {"producers", "reads", "mongo", "closed"}
  <2>1. ~listening
    BY <1>3 DEF listening
  <2> QED BY <1>1, <1>2, <1>3, <2>1, ReadsRunOut DEF ReadsAreAwaited
<1>4. CASE stage \notin {"producers", "reads", "mongo", "closed"}
  BY <1>1, <1>2, <1>4 DEF ReadsAreAwaited
<1> QED BY <1>3, <1>4

\* The polls are as they were.
LEMMA PollsStay ==
  ASSUME PresenceInv, UNCHANGED presence
  PROVE  PresenceInv'
<1>1. UNCHANGED <<registered, polls, registers, released>>
  BY DEF presence
<1>2. TableType' /\ PollsType'
  BY <1>1 DEF PresenceInv, TableType, PollsType
<1>3. ASSUME NEW p \in Polls PROVE Good(polls[p])'
  BY <1>1 DEF PresenceInv, Good, Shaped, Informed, Watchful, Honest, Waking
<1> QED BY <1>2, <1>3 DEF PresenceInv

LEMMA WorkersKeep ==
  ASSUME IInv, NEW w \in Workers, Work(w) \/ Finish(w) \/ DegradeDrain(w)
  PROVE  IInv'
<1> USE DEF IInv, WorkInv
<1>1. UNCHANGED <<presence, stage, exit>> /\ exit = "none"
  BY DEF Work, Finish, DegradeDrain, running
<1>2. PresenceInv' /\ ReadsAreAwaited'
  BY <1>1, PollsStay DEF presence, ReadsAreAwaited
<1>3. Realtime \in Workers /\ Producers \subseteq Workers
  BY DEF Workers
<1>4. CASE Work(w)
  BY <1>1, <1>2, <1>4 DEF Work, ShutdownType, DrainsAreAwaited
<1>5. CASE Finish(w)
  BY <1>1, <1>2, <1>3, <1>5 DEF Finish, ShutdownType, DrainsAreAwaited, Settled
<1>6. CASE DegradeDrain(w)
  BY <1>1, <1>2, <1>3, <1>6 DEF DegradeDrain, ShutdownType, DrainsAreAwaited, Settled
<1> QED BY <1>4, <1>5, <1>6

\* A stage begins when what it waits for is there.
LEMMA StagesKeep ==
  ASSUME IInv, DisposeRealtime \/ CloseListener \/ AwaitProducers \/ DrainReads \/ CloseMongo
  PROVE  IInv'
<1> USE DEF IInv, WorkInv
<1>1. UNCHANGED <<presence, busy, drains>> /\ exit = "none"
  BY DEF DisposeRealtime, CloseListener, AwaitProducers, DrainReads, CloseMongo, Step, running
<1>2. PresenceInv'
  BY <1>1, PollsStay
<1>3. UNCHANGED polls
  BY <1>1 DEF presence
<1>4. CASE DisposeRealtime
  BY <1>1, <1>2, <1>3, <1>4 DEF DisposeRealtime, Step, ShutdownType, DrainsAreAwaited, ReadsAreAwaited
<1>5. CASE CloseListener
  BY <1>1, <1>2, <1>3, <1>5 DEF CloseListener, Step, ShutdownType, DrainsAreAwaited, ReadsAreAwaited
<1>6. CASE AwaitProducers
  BY <1>1, <1>2, <1>3, <1>6 DEF AwaitProducers, Step, ShutdownType, DrainsAreAwaited, ReadsAreAwaited
<1>7. CASE DrainReads
  BY <1>1, <1>2, <1>3, <1>7 DEF DrainReads, ActiveReads, Step, ShutdownType, DrainsAreAwaited, ReadsAreAwaited
<1>8. CASE CloseMongo
  BY <1>1, <1>2, <1>3, <1>8 DEF CloseMongo, ShutdownType, DrainsAreAwaited, ReadsAreAwaited
<1> QED BY <1>4, <1>5, <1>6, <1>7, <1>8

LEMMA SignalKeeps ==
  ASSUME IInv, Signal
  PROVE  IInv'
<1> USE DEF IInv, WorkInv
<1>1. /\ stage' = "realtime" /\ exit = "none" /\ UNCHANGED <<busy, exit>>
      /\ drains' = [w \in Workers |-> IF w \in busy THEN "waiting" ELSE "done"]
  BY DEF Signal, running
<1>2. PresenceInv'
  BY ReleaseKeeps DEF Signal
<1>3. ShutdownType' /\ DrainsAreAwaited' /\ ReadsAreAwaited'
  BY <1>1 DEF ShutdownType, DrainsAreAwaited, ReadsAreAwaited, Settled
<1> QED BY <1>2, <1>3

LEMMA GiveUpKeeps ==
  ASSUME IInv, GiveUp
  PROVE  IInv'
<1> USE DEF IInv, WorkInv
<1>1. /\ exit' = "failed" /\ polls' = [p \in Polls |-> NoPoll] /\ registers' = [r \in Registers |-> "idle"]
      /\ busy' = {} /\ drains' = [w \in Workers |-> "none"]
      /\ UNCHANGED <<registered, released, stage>>
  BY DEF GiveUp
<1>2. ShutdownType' /\ DrainsAreAwaited'
  BY <1>1 DEF ShutdownType, DrainsAreAwaited
<1>3. ReadsAreAwaited'
  BY <1>1, NoPollIsGood DEF ReadsAreAwaited
<1>4. TableType' /\ PollsType'
  BY <1>1, NoPollIsGood DEF PresenceInv, TableType, PollsType
<1>5. ASSUME NEW p \in Polls PROVE Good(polls[p])'
  BY <1>1, NoPollIsGood DEF Good, Shaped, Informed, Watchful, Honest
<1> QED BY <1>2, <1>3, <1>4, <1>5 DEF PresenceInv

-----------------------------------------------------------------------------
(* Theorems. *)

LEMMA Initially == Init => IInv
<1> SUFFICES ASSUME Init PROVE IInv
  OBVIOUS
<1>1. /\ registered \in BOOLEAN /\ polls = [p \in Polls |-> NoPoll] /\ registers = [r \in Registers |-> "idle"]
      /\ released = FALSE
      /\ stage = "up" /\ busy = {} /\ drains = [w \in Workers |-> "none"] /\ exit = "none"
  BY DEF Init, PresenceInit
<1>2. PresenceInv
  BY <1>1, NoPollIsGood DEF PresenceInv, TableType, PollsType
<1>3. WorkInv /\ ReadsAreAwaited
  BY <1>1 DEF WorkInv, ShutdownType, DrainsAreAwaited, ReadsAreAwaited
<1> QED BY <1>2, <1>3 DEF IInv

\* Every step keeps the invariant.
THEOREM Inductive == IInv /\ [Next]_vars => IInv'
<1> SUFFICES ASSUME IInv, [Next]_vars PROVE IInv'
  OBVIOUS
<1>1. CASE UNCHANGED vars
  <2>1. UNCHANGED <<presence, stage, busy, drains, exit>> /\ UNCHANGED polls
    BY <1>1 DEF vars, presence
  <2> QED BY <2>1, PollsStay DEF IInv, WorkInv, ShutdownType, DrainsAreAwaited, ReadsAreAwaited
<1> QED BY <1>1, HandleRequestsKeeps, WorkersKeep, StagesKeep, SignalKeeps, GiveUpKeeps DEF Next

\* The inductive invariant holds whatever the requests, the workers and the signal do.
THEOREM Invariance == Spec => []IInv
BY Initially, Inductive, PTL DEF Spec

\* Every variable keeps its type.
THEOREM TypeCorrect == Spec => []TypeOK
<1>1. IInv => TypeOK
  <2> SUFFICES ASSUME IInv PROVE TypeOK
    OBVIOUS
  <2>1. PresenceTypeOK
    BY DEF IInv, PresenceInv, TableType, PollsType, PollRecord, Good, Shaped, PresenceTypeOK
  <2> QED BY <2>1 DEF IInv, WorkInv, ShutdownType, TypeOK
<1> QED BY <1>1, Invariance, PTL

\* However the registrations, the reads, the deadlines and the release interleave, no
\* waiter misses a registration and every answer was true.
THEOREM PollsStayHonest == Spec => []PollsAreHonest
<1>1. IInv => PollsAreHonest
  <2> SUFFICES ASSUME IInv PROVE PollsAreHonest
    OBVIOUS
  <2>1. NoMissedRegistration
    BY DEF IInv, PresenceInv, Good, Watchful, Waking, Waiters, NoMissedRegistration
  <2>2. AnswersAreTrue
    BY DEF IInv, PresenceInv, Good, Watchful, Honest, Waiters, AnswersAreTrue
  <2> QED BY <2>1, <2>2 DEF PollsAreHonest
<1> QED BY <1>1, Invariance, PTL

\* At whatever moment the signal comes, and whichever drains fail, nothing uses what the
\* shutdown has closed.
THEOREM ClosedStaysUnused == Spec => []ClosedIsUnused
<1>1. IInv => ClosedIsUnused
  <2> SUFFICES ASSUME IInv PROVE ClosedIsUnused
    OBVIOUS
  <2>1. stage = "closed" => ActiveReads = {}
    BY DEF IInv, ReadsAreAwaited, ActiveReads
  <2>2. Realtime \in Workers /\ Producers \subseteq Workers
    BY DEF Workers
  <2> QED BY <2>1, <2>2 DEF IInv, WorkInv, DrainsAreAwaited, Settled, ClosedIsUnused
<1> QED BY <1>1, Invariance, PTL
-----------------------------------------------------------------------------
(* The milestones and the reminders of an account (Activation). *)

\* When this account has reached a milestone, not an earlier one.
Own == Created .. MaxClock \cup {None}
Doc == [mobile : Own, bridge : Own, session : Own, bridgeBase : Baseline, sessionBase : Baseline,
        sent : SUBSET Kinds, backfilled : BOOLEAN]
Caller == [at : {"idle", "read", "reconcile", "record", "use"}, kind : Milestones \cup {None},
           observed : Own, update : [Milestones -> Own]]
Script == [at : {"idle", "evidence", "apply"}, now : Time, mobile : BOOLEAN,
           evidence : [Milestones -> Own], base : Baseline]
Reminding == {"check", "tokens", "push", "stale", "mark"}
Sweep == [at : {"idle", "find"} \cup Reminding, next : 1 .. 3, now : Time, sent : SUBSET Kinds]
ServicePhases == {"up", "disposing", "timed_out", "disposed"}

\* A sweep that has sent the second reminder of the bridge found the first one sent, and
\* what it is about to send has not been sent.
SweepFits(w, sent) ==
  /\ w \in Sweep
  /\ w.next = 1 => w.sent = {}
  /\ "bridge_2" \in w.sent => "bridge_1" \in sent
  /\ ~({"bridge_1", "bridge_2"} \subseteq w.sent)
  /\ w.at \in Reminding => ReminderKinds[w.next] \notin sent

AccountFits ==
  /\ clock \in Created .. MaxClock
  /\ doc \in Doc
  /\ evidence \in [Milestones -> Stamp] /\ evidence["bridge"] \in Own /\ evidence["session"] \in Own
CallersFit == requests \in [Callers -> Caller]
ScriptFits == backfill \in Script
SweepsFit ==
  /\ sweeps \in [Sweeps -> Sweep] /\ \A s \in Sweeps : SweepFits(sweeps[s], doc.sent)
  /\ phase \in ServicePhases
OneSweep == \A s, t \in Sweeps : sweeps[s].at # "idle" /\ sweeps[t].at # "idle" => s = t

\* At most one sweep is under way, so what it finds due stays due until it has marked it.
ActivationInv == AccountFits /\ CallersFit /\ ScriptFits /\ SweepsFit /\ OneSweep
\* What a step does about the reminders (see RemindersAreDue).
RemindersQuiet == MarkedIsFinal /\ QuietAfterTimeout

LEMMA Times ==
  /\ Time \subseteq Nat /\ Own \subseteq Stamp /\ Own \subseteq Baseline /\ None \in Own
  /\ None \notin Time /\ MaxClock \in Nat
BY ActivationStateAssumption, ActivationAssumption DEF Time, Own, Created, Stamp, Baseline

LEMMA TheKinds ==
  /\ Len(ReminderKinds) = 3 /\ ReminderKinds[1] = "bridge_2" /\ ReminderKinds[2] = "bridge_1"
  /\ ReminderKinds[3] = "session" /\ \A n \in 1 .. 3 : ReminderKinds[n] \in Kinds
<1>1. Len(ReminderKinds) = 3 /\ ReminderKinds[1] = "bridge_2" /\ ReminderKinds[2] = "bridge_1"
      /\ ReminderKinds[3] = "session"
  BY DEF ReminderKinds
<1>2. \A n \in 1 .. 3 : n = 1 \/ n = 2 \/ n = 3
  OBVIOUS
<1> QED BY <1>1, <1>2 DEF Kinds

LEMMA NothingRecorded == NoUpdate \in [Milestones -> Own] /\ NoDoc \in Doc
BY Times DEF NoUpdate, NoDoc, Doc

LEMMA GuardIsOwn == ASSUME NEW at \in Stamp PROVE Guard(at) \in Own
BY Times DEF Guard, Stamp, Time, Own, Created

LEMMA Fills == ASSUME NEW S, NEW a \in S, NEW b \in S PROVE IfNull(a, b) \in S
BY DEF IfNull

\* From one state of an account to the next: no milestone is lost, and a first session
\* only becomes earlier.
Progress(d, e) ==
  /\ d.mobile # None => e.mobile = d.mobile
  /\ d.bridge # None => e.bridge = d.bridge
  /\ d.session # None => e.session # None /\ e.session <= d.session

LEMMA ProgressIsStay ==
  ASSUME Progress(doc, doc'), doc \in Doc, doc' \in Doc
  PROVE  /\ \A m \in {"mobile", "bridge"} : doc[m] # None => doc'[m] = doc[m]
         /\ doc.session # None => doc'.session # None /\ doc'.session <= doc.session
BY DEF Progress, Doc

LEMMA Same == ASSUME doc \in Doc PROVE Progress(doc, doc)
<1>1. doc.session # None => doc.session \in Nat
  BY Times DEF Doc, Own, Created
<1> QED BY <1>1 DEF Progress

LEMMA RecordedFits ==
  ASSUME doc \in Doc, NEW update \in [Milestones -> Own]
  PROVE  Recorded(update) \in Doc /\ Recorded(update).sent = doc.sent /\ Progress(doc, Recorded(update))
<1> DEFINE mobile == IfNull(doc.mobile, update.mobile)
           bridge == IfNull(doc.bridge, update.bridge)
           bridgeBase == IfNull(doc.bridgeBase, mobile)
           sessionBase == IfNull(doc.sessionBase, IF None \in {mobile, bridge} THEN None ELSE Later(mobile, bridge))
           session == FirstSession(update.session)
<1>1. /\ update.mobile \in Own /\ update.bridge \in Own /\ update.session \in Own
      /\ doc.mobile \in Own /\ doc.bridge \in Own /\ doc.session \in Own
      /\ doc.bridgeBase \in Baseline /\ doc.sessionBase \in Baseline
  BY DEF Doc, Milestones
<1>2. mobile \in Own /\ bridge \in Own
  BY <1>1, Fills
<1>3. session \in Own /\ (doc.session # None => session # None /\ session <= doc.session)
  <2>1. \A at \in Own : at # None => at \in Nat
    BY Times DEF Own, Created
  <2> QED BY <1>1, <2>1 DEF FirstSession
<1> HIDE DEF session
<1>4. bridgeBase \in Baseline
  BY <1>1, <1>2, Times, Fills
<1>5. sessionBase \in Baseline
  <2>1. (IF None \in {mobile, bridge} THEN None ELSE Later(mobile, bridge)) \in Own
    BY <1>2, Times DEF Later
  <2> QED BY <1>1, <2>1, Times, Fills
<1>6. mobile = IfNull(doc.mobile, update.mobile) /\ bridge = IfNull(doc.bridge, update.bridge)
  OBVIOUS
<1>7. Recorded(update) = [doc EXCEPT !.mobile = mobile, !.bridge = bridge, !.session = session,
                                     !.bridgeBase = bridgeBase, !.sessionBase = sessionBase]
  BY DEF Recorded, session, Doc
<1> HIDE DEF mobile, bridge, bridgeBase, sessionBase
<1>8. /\ Recorded(update) \in Doc /\ Recorded(update).sent = doc.sent /\ Recorded(update).mobile = mobile
      /\ Recorded(update).bridge = bridge /\ Recorded(update).session = session
  BY <1>2, <1>3, <1>4, <1>5, <1>7 DEF Doc
<1> QED BY <1>3, <1>6, <1>8 DEF Progress, IfNull

LEMMA BackfilledFits ==
  ASSUME doc \in Doc, NEW found \in [Milestones -> Own], NEW base \in Baseline
  PROVE  LET d == Backfilled(found, base) IN d \in Doc /\ d.sent = doc.sent /\ Progress(doc, d)
<1> DEFINE mobile == IfNull(doc.mobile, found.mobile)
           bridge == IfNull(doc.bridge, found.bridge)
           session == KeptSession(found.session)
           moves == base # None /\ mobile # None
           bridgeBase == IF moves /\ bridge = None /\ "bridge_2" \notin doc.sent THEN base ELSE doc.bridgeBase
           sessionBase == IF moves /\ bridge # None /\ session = None /\ "session" \notin doc.sent
                          THEN base ELSE doc.sessionBase
           d == Backfilled(found, base)
<1>1. /\ found.mobile \in Own /\ found.bridge \in Own /\ found.session \in Own
      /\ doc.mobile \in Own /\ doc.bridge \in Own /\ doc.session \in Own
      /\ doc.bridgeBase \in Baseline /\ doc.sessionBase \in Baseline
  BY DEF Doc, Milestones
<1>2. mobile \in Own /\ bridge \in Own /\ session \in Own /\ bridgeBase \in Baseline /\ sessionBase \in Baseline
  BY <1>1, Fills DEF KeptSession
<1>3. /\ doc.mobile # None => mobile = doc.mobile
      /\ doc.bridge # None => bridge = doc.bridge
      /\ doc.session # None => session = doc.session /\ doc.session \in Nat
  <2>1. \A at \in Own : at # None => at \in Nat
    BY Times DEF Own, Created
  <2> QED BY <1>1, <2>1 DEF IfNull, KeptSession
<1>4. d = [doc EXCEPT !.mobile = mobile, !.bridge = bridge, !.session = session, !.backfilled = TRUE,
                      !.bridgeBase = bridgeBase, !.sessionBase = sessionBase]
  BY DEF Backfilled, Doc
<1> HIDE DEF mobile, bridge, session, bridgeBase, sessionBase, d
<1>5. d \in Doc /\ d.sent = doc.sent /\ d.mobile = mobile /\ d.bridge = bridge /\ d.session = session
  BY <1>2, <1>4 DEF Doc
<1>6. doc.session # None => doc.session <= doc.session
  BY <1>3
<1>7. Progress(doc, d)
  BY <1>3, <1>5, <1>6 DEF Progress
<1> QED BY <1>5, <1>7 DEF d

-----------------------------------------------------------------------------
(* The requests and the backfill. *)

\* A step of neither the requests nor the sweep, which marks nothing.
LEMMA SweepsWait ==
  ASSUME SweepsFit, OneSweep, doc'.sent = doc.sent, UNCHANGED <<sweeps, phase>>
  PROVE  SweepsFit' /\ OneSweep' /\ QuietAfterTimeout /\ MarkedIsFinal
<1>1. SweepsFit' /\ OneSweep'
  BY DEF SweepsFit, OneSweep, SweepFits
<1>2. QuietAfterTimeout
  BY DEF QuietAfterTimeout
<1>3. MarkedIsFinal
  BY DEF MarkedIsFinal, SweepsFit, SweepFits, kindOf, Reminding
<1> QED BY <1>1, <1>2, <1>3

LEMMA ReconciledIsOwn ==
  ASSUME AccountFits, CallersFit, NEW r \in Callers
  PROVE  Reconciled(r) \in [Milestones -> Own]
<1> DEFINE at(m) == LET had == requests[r].update[m]
                        observed == IF requests[r].kind = m THEN requests[r].observed ELSE None
                    IN IF had = None THEN IfNull(Guard(evidence[m]), observed)
                       ELSE IF m = "session" /\ observed # None /\ observed < had THEN observed ELSE None
<1>1. ASSUME NEW m \in Milestones PROVE at(m) \in Own
  <2>1. Guard(evidence[m]) \in Own
    BY GuardIsOwn DEF AccountFits
  <2>2. (IF requests[r].kind = m THEN requests[r].observed ELSE None) \in Own
    BY Times DEF CallersFit, Caller
  <2> QED BY <2>1, <2>2, Times, Fills
<1>2. Reconciled(r) = [m \in Milestones |-> at(m)]
  BY DEF Reconciled
<1> HIDE DEF at
<1> QED BY <1>1, <1>2

LEMMA AfterIsCaller == ASSUME NEW r \in Callers PROVE After(r) \in Caller /\ NoRequest \in Caller
BY NothingRecorded, Times DEF After, NoRequest, Caller

\* What a request or the backfill does to the account and to the others.
LEMMA CallersKeep ==
  ASSUME ActivationInv, NEW r \in Callers,
         \/ \E kind \in Milestones : Arrive(r, kind)
         \/ Read(r) \/ Reconcile(r) \/ Record(r) \/ FailRecord(r) \/ Use(r)
  PROVE  ActivationInv' /\ Progress(doc, doc') /\ RemindersQuiet
<1> USE DEF ActivationInv
<1>1. UNCHANGED <<clock, backfill, sweeps, phase>>
  BY DEF Arrive, Read, Reconcile, Record, FailRecord, Use, restOfRequest
<1>2. requests[r] \in Caller /\ After(r) \in Caller /\ NoRequest \in Caller
  BY AfterIsCaller DEF CallersFit
<1>3. ASSUME AccountFits', CallersFit', doc'.sent = doc.sent PROVE ActivationInv' /\ RemindersQuiet
  BY <1>1, <1>3, SweepsWait DEF ScriptFits, RemindersQuiet
<1>4. ASSUME NEW kind \in Milestones, Arrive(r, kind) PROVE ActivationInv' /\ Progress(doc, doc') /\ RemindersQuiet
  <2>1. UNCHANGED doc
    BY <1>4 DEF Arrive
  <2>2. clock \in Own /\ clock \in Stamp
    BY Times DEF AccountFits, Own, Created
  <2>3. evidence' \in [Milestones -> Stamp] /\ evidence'["bridge"] \in Own /\ evidence'["session"] \in Own
    <3>1. CASE kind = "session"
      BY <1>4, <3>1 DEF Arrive, AccountFits
    <3>2. CASE kind # "session"
      <4>1. evidence' = [evidence EXCEPT ![kind] = IfNull(evidence[kind], clock)]
        BY <1>4, <3>2 DEF Arrive, AccountFits
      <4>2. IfNull(evidence[kind], clock) \in Stamp /\ (evidence[kind] \in Own => IfNull(evidence[kind], clock) \in Own)
        BY <2>2, Fills DEF AccountFits
      <4> QED BY <3>2, <4>1, <4>2 DEF AccountFits, Milestones
    <3> QED BY <3>1, <3>2
  <2>4. AccountFits'
    BY <1>1, <2>1, <2>3 DEF AccountFits
  <2>5. CallersFit'
    <3> DEFINE observed == IF kind = "bridge" THEN evidence'["bridge"] ELSE clock
               q == [NoRequest EXCEPT !.at = "read", !.kind = kind, !.observed = observed]
    <3>1. observed \in Own
      BY <2>2, <2>3
    <3>2. requests' = [requests EXCEPT ![r] = q]
      BY <1>4 DEF Arrive
    <3> HIDE DEF observed
    <3>3. q \in Caller
      BY <1>2, <3>1 DEF Caller
    <3> QED BY <3>2, <3>3 DEF CallersFit
  <2> QED BY <1>3, <2>1, <2>4, <2>5, Same DEF AccountFits
<1>5. ASSUME Read(r) PROVE ActivationInv' /\ Progress(doc, doc') /\ RemindersQuiet
  <2>1. UNCHANGED <<doc, evidence>>
    BY <1>5 DEF Read
  <2>2. [m \in Milestones |-> doc[m]] \in [Milestones -> Own]
    BY DEF AccountFits, Doc, Milestones
  <2>3. [requests[r] EXCEPT !.at = "reconcile", !.update = [m \in Milestones |-> doc[m]]] \in Caller
    BY <1>2, <2>2 DEF Caller
  <2>4. requests' = [requests EXCEPT ![r] = [requests[r] EXCEPT !.at = "reconcile", !.update = [m \in Milestones |-> doc[m]]]]
    BY <1>5 DEF Read, CallersFit
  <2>5. CallersFit'
    BY <2>3, <2>4 DEF CallersFit
  <2>6. AccountFits'
    BY <1>1, <2>1 DEF AccountFits
  <2> QED BY <1>3, <2>1, <2>5, <2>6, Same DEF AccountFits
<1>6. ASSUME Reconcile(r) \/ FailRecord(r) PROVE ActivationInv' /\ Progress(doc, doc') /\ RemindersQuiet
  <2>1. UNCHANGED <<doc, evidence>>
    BY <1>6 DEF Reconcile, FailRecord
  <2>2. [requests[r] EXCEPT !.at = "record", !.update = Reconciled(r)] \in Caller
    <3>1. Reconciled(r) \in [Milestones -> Own]
      BY ReconciledIsOwn
    <3> QED BY <1>2, <3>1 DEF Caller
  <2>3. \E q \in Caller : requests' = [requests EXCEPT ![r] = q]
    BY <1>2, <1>6, <2>2 DEF Reconcile, FailRecord, CallersFit
  <2>4. CallersFit'
    BY <2>3 DEF CallersFit
  <2>5. AccountFits'
    BY <1>1, <2>1 DEF AccountFits
  <2> QED BY <1>3, <2>1, <2>4, <2>5, Same DEF AccountFits
<1>7. ASSUME Record(r) PROVE ActivationInv' /\ Progress(doc, doc') /\ RemindersQuiet
  <2>1. doc' = Recorded(requests[r].update) /\ UNCHANGED evidence /\ requests' = [requests EXCEPT ![r] = After(r)]
    BY <1>7 DEF Record
  <2>2. requests[r].update \in [Milestones -> Own] /\ doc \in Doc
    BY <1>2 DEF Caller, AccountFits
  <2>3. doc' \in Doc /\ doc'.sent = doc.sent /\ Progress(doc, doc')
    BY <2>1, <2>2, RecordedFits
  <2>4. AccountFits' /\ CallersFit'
    BY <1>1, <1>2, <2>1, <2>3 DEF AccountFits, CallersFit
  <2> QED BY <1>3, <2>3, <2>4
<1>8. ASSUME Use(r) PROVE ActivationInv' /\ Progress(doc, doc') /\ RemindersQuiet
  <2>1. PICK at \in Created .. clock : evidence' = [evidence EXCEPT !["session"] = IfNull(evidence["session"], at)]
    BY <1>8 DEF Use, AccountFits
  <2>2. at \in Own
    BY <2>1, Times DEF AccountFits, Own, Created
  <2>3. IfNull(evidence["session"], at) \in Own /\ Own \subseteq Stamp
    BY <2>2, Fills, Times DEF AccountFits
  <2>4. UNCHANGED doc /\ requests' = [requests EXCEPT ![r] = NoRequest]
    BY <1>8 DEF Use
  <2>5. AccountFits'
    BY <1>1, <2>1, <2>3, <2>4 DEF AccountFits, Milestones
  <2>6. CallersFit'
    BY <1>2, <2>4 DEF CallersFit
  <2> QED BY <1>3, <2>4, <2>5, <2>6, Same DEF AccountFits
<1> QED BY <1>4, <1>5, <1>6, <1>7, <1>8

LEMMA ScriptKeeps ==
  ASSUME ActivationInv, Tick \/ StartBackfill \/ ReadEvidence \/ ApplyBackfill
  PROVE  ActivationInv' /\ Progress(doc, doc') /\ RemindersQuiet
<1> USE DEF ActivationInv
<1>1. UNCHANGED <<evidence, requests, sweeps, phase>>
  BY DEF Tick, StartBackfill, ReadEvidence, ApplyBackfill, restOfBackfill
<1>2. ASSUME clock' \in Created .. MaxClock, doc' \in Doc, ScriptFits', doc'.sent = doc.sent
      PROVE  ActivationInv' /\ RemindersQuiet
  BY <1>1, <1>2, SweepsWait DEF AccountFits, CallersFit, RemindersQuiet
<1>3. clock \in Created .. MaxClock /\ clock \in Time /\ doc \in Doc /\ Progress(doc, doc) /\ backfill \in Script
  BY Same, ActivationStateAssumption DEF AccountFits, Created, Time, ScriptFits
<1>4. NoBackfill \in Script
  BY NothingRecorded, Times, ActivationStateAssumption DEF NoBackfill, Script, Time, Baseline
<1>5. CASE Tick
  <2>1. clock' \in Created .. MaxClock /\ UNCHANGED <<doc, backfill>>
    BY <1>3, <1>5, ActivationStateAssumption DEF Tick, Created
  <2> QED BY <1>2, <1>3, <2>1 DEF ScriptFits
<1>6. CASE StartBackfill
  <2>1. backfill' = [NoBackfill EXCEPT !.at = "evidence", !.now = clock, !.mobile = (doc.mobile # None)]
        /\ UNCHANGED <<doc, clock>>
    BY <1>6 DEF StartBackfill, restOfBackfill
  <2>2. ScriptFits'
    BY <1>3, <1>4, <2>1 DEF ScriptFits, Script
  <2> QED BY <1>2, <1>3, <2>1, <2>2
<1>7. CASE ReadEvidence
  <2> DEFINE found == [m \in Milestones |-> Guard(evidence[m])]
  <2>1. found \in [Milestones -> Own]
    BY GuardIsOwn DEF AccountFits
  <2>2. backfill.now + Jitter \in Baseline /\ None \in Baseline
    BY <1>3, Times, ActivationAssumption, ActivationStateAssumption DEF Script, Time, Baseline
  <2>3. \E base \in Baseline : backfill' = [backfill EXCEPT !.at = "apply", !.mobile = FALSE, !.now = 0,
                                              !.evidence = found, !.base = base]
    BY <1>7, <2>2 DEF ReadEvidence
  <2>4. 0 \in Time
    BY ActivationStateAssumption DEF Time
  <2> HIDE DEF found
  <2>5. ScriptFits'
    BY <1>3, <2>1, <2>3, <2>4 DEF ScriptFits, Script
  <2>6. UNCHANGED <<doc, clock>>
    BY <1>7 DEF ReadEvidence, restOfBackfill
  <2> QED BY <1>2, <1>3, <2>5, <2>6
<1>8. CASE ApplyBackfill
  <2>1. backfill' = NoBackfill /\ UNCHANGED clock
        /\ doc' \in {doc, Backfilled(backfill.evidence, backfill.base)}
    BY <1>8 DEF ApplyBackfill, restOfBackfill
  <2>2. backfill.evidence \in [Milestones -> Own] /\ backfill.base \in Baseline
    BY <1>3 DEF Script
  <2>3. doc' \in Doc /\ doc'.sent = doc.sent /\ Progress(doc, doc')
    BY <1>3, <2>1, <2>2, BackfilledFits
  <2>4. ScriptFits'
    BY <1>4, <2>1 DEF ScriptFits
  <2> QED BY <1>2, <1>3, <2>1, <2>3, <2>4
<1> QED BY <1>5, <1>6, <1>7, <1>8

-----------------------------------------------------------------------------
(* The sweep. *)

\* A sweep ends, or goes on to the next kind; what it has sent is marked.
LEMMA ContinueKeeps ==
  ASSUME SweepsFit, OneSweep, doc \in Doc, NEW s \in Sweeps, sweeps[s].at # "idle",
         NEW sent, sent = {} \/ (sent = {kindOf(s)} /\ due(s)),
         doc'.sent = doc.sent \cup sent, Continue(s, sent)
  PROVE  SweepsFit' /\ OneSweep' /\ QuietAfterTimeout
<1> DEFINE n == sweeps[s].next
           on == [sweeps[s] EXCEPT !.at = "find", !.next = n + 1, !.sent = sweeps[s].sent \cup sent]
<1>1. /\ sweeps[s] \in Sweep /\ n \in 1 .. 3 /\ kindOf(s) = ReminderKinds[n] /\ kindOf(s) \in Kinds
      /\ SweepFits(sweeps[s], doc.sent)
  BY TheKinds DEF SweepsFit, Sweep, kindOf
<1>2. \A t \in Sweeps : t # s => sweeps[t].at = "idle"
  BY DEF OneSweep
<1>3. NoSweep \in Sweep /\ NoSweep.at = "idle" /\ SweepFits(NoSweep, doc'.sent)
  <2>1. 0 \in Time
    BY ActivationStateAssumption DEF Time
  <2> QED BY <2>1 DEF NoSweep, Sweep, SweepFits, Reminding
<1>4. ASSUME NEW t \in Sweeps, t # s PROVE SweepFits(sweeps[t], doc'.sent)
  BY <1>2, <1>4 DEF SweepsFit, SweepFits, Reminding
<1>5. CASE disposed \/ n = Len(ReminderKinds)
  <2>1. sweeps' = [sweeps EXCEPT ![s] = NoSweep] /\ phase' = IF phase = "disposing" THEN "disposed" ELSE phase
    BY <1>5 DEF Continue
  <2>2. SweepsFit'
    BY <1>3, <1>4, <2>1 DEF SweepsFit, ServicePhases
  <2>3. OneSweep'
    BY <1>3, <2>1, <1>2 DEF OneSweep, SweepsFit
  <2>4. QuietAfterTimeout
    BY <2>1 DEF QuietAfterTimeout, SweepsFit
  <2> QED BY <2>2, <2>3, <2>4
<1>6. CASE ~(disposed \/ n = Len(ReminderKinds))
  <2>1. sweeps' = [sweeps EXCEPT ![s] = on] /\ UNCHANGED phase /\ phase = "up"
    BY <1>1, <1>6 DEF Continue, SweepsFit, Sweep, disposed
  <2>2. n \in {1, 2} /\ n + 1 \in 2 .. 3
    BY <1>1, <1>6, TheKinds
  <2>3. on \in Sweep /\ on.at = "find" /\ on.next = n + 1 /\ on.sent = sweeps[s].sent \cup sent
    <3>1. sweeps[s].sent \cup sent \subseteq Kinds /\ n + 1 \in 1 .. 3
      BY <1>1, <2>2 DEF Sweep
    <3> QED BY <1>1, <3>1 DEF Sweep
  <2>4. sent = {} \/ (/\ sent = {kindOf(s)} /\ kindOf(s) \notin doc.sent
                      /\ kindOf(s) = "bridge_2" => "bridge_1" \in doc.sent)
    BY DEF due, Eligible
  <2>5. /\ "bridge_2" \in on.sent => "bridge_1" \in doc'.sent
        /\ ~({"bridge_1", "bridge_2"} \subseteq on.sent)
    <3>1. CASE sent = {}
      BY <1>1, <2>3, <3>1 DEF SweepFits
    <3>2. CASE sent = {kindOf(s)} /\ n = 1
      <4>1. kindOf(s) = "bridge_2" /\ sweeps[s].sent = {}
        BY <1>1, <3>2, TheKinds DEF SweepFits
      <4> QED BY <2>3, <2>4, <3>2, <4>1
    <3>3. CASE sent = {kindOf(s)} /\ n = 2
      <4>1. kindOf(s) = "bridge_1"
        BY <1>1, <3>3, TheKinds
      <4>2. "bridge_1" \notin doc.sent
        BY <2>4, <3>3, <4>1
      <4>3. "bridge_2" \notin sweeps[s].sent
        BY <1>1, <4>2 DEF SweepFits
      <4> QED BY <2>3, <3>3, <4>1, <4>3
    <3> QED BY <2>2, <2>4, <3>1, <3>2, <3>3
  <2> HIDE DEF on
  <2>6. SweepFits(on, doc'.sent)
    BY <2>2, <2>3, <2>5 DEF SweepFits, Reminding
  <2>7. SweepsFit'
    BY <1>4, <2>1, <2>3, <2>6 DEF SweepsFit
  <2>8. OneSweep'
    BY <1>2, <2>1 DEF OneSweep, SweepsFit
  <2>9. QuietAfterTimeout
    BY <2>1 DEF QuietAfterTimeout
  <2> QED BY <2>7, <2>8, <2>9
<1> QED BY <1>5, <1>6

\* A sweep goes on with a reminder that is not marked.
LEMMA GoKeeps ==
  ASSUME SweepsFit, OneSweep, NEW s \in Sweeps, sweeps[s].at # "idle", phase # "timed_out",
         NEW at \in Reminding, doc'.sent = doc.sent, kindOf(s) \notin doc.sent, Go(s, at)
  PROVE  SweepsFit' /\ OneSweep' /\ QuietAfterTimeout
<1> DEFINE w == [sweeps[s] EXCEPT !.at = at]
<1>1. sweeps' = [sweeps EXCEPT ![s] = w] /\ UNCHANGED phase
  BY DEF Go
<1>2. /\ w \in Sweep /\ w.at = at /\ w.next = sweeps[s].next /\ w.sent = sweeps[s].sent
      /\ SweepFits(sweeps[s], doc.sent)
  BY DEF SweepsFit, Sweep
<1> HIDE DEF w
<1>3. SweepFits(w, doc'.sent)
  BY <1>2 DEF SweepFits, kindOf
<1>4. SweepsFit'
  BY <1>1, <1>2, <1>3 DEF SweepsFit
<1>5. OneSweep'
  BY <1>1 DEF OneSweep, SweepsFit
<1>6. QuietAfterTimeout
  BY DEF QuietAfterTimeout
<1> QED BY <1>4, <1>5, <1>6

\* Only a sweep whose reminder is not marked pushes.
LEMMA MarkedStays == ASSUME SweepsFit PROVE MarkedIsFinal
BY DEF MarkedIsFinal, SweepsFit, SweepFits, kindOf, Reminding

LEMMA SweepsKeep ==
  ASSUME ActivationInv, NEW s \in Sweeps,
         \/ StartSweep(s) \/ FindDue(s) \/ StillDue(s) \/ ReadTokens(s)
         \/ Push(s) \/ DeleteStale(s) \/ Mark(s) \/ FailReminder(s)
  PROVE  ActivationInv' /\ Progress(doc, doc') /\ RemindersQuiet
<1> USE DEF ActivationInv
<1>1. UNCHANGED <<clock, requests, backfill>>
  BY DEF StartSweep, FindDue, StillDue, ReadTokens, Push, DeleteStale, Mark, FailReminder, restOfSweep
<1>2. doc \in Doc /\ doc.sent \cup {} = doc.sent /\ MarkedIsFinal
  BY MarkedStays DEF AccountFits
<1>3. AccountFits' /\ Progress(doc, doc')
  <2>1. UNCHANGED evidence \/ evidence' = [evidence EXCEPT !["mobile"] = None]
    BY DEF StartSweep, FindDue, StillDue, ReadTokens, Push, DeleteStale, Mark, FailReminder, AccountFits
  <2>2. evidence' \in [Milestones -> Stamp] /\ evidence'["bridge"] \in Own /\ evidence'["session"] \in Own
    BY <2>1 DEF AccountFits, Milestones, Stamp
  <2>3. UNCHANGED doc \/ doc' = [doc EXCEPT !.sent = doc.sent \cup {kindOf(s)}]
    BY DEF StartSweep, FindDue, StillDue, ReadTokens, Push, DeleteStale, Mark, FailReminder
  <2>4. kindOf(s) \in Kinds
    BY TheKinds DEF kindOf, SweepsFit, Sweep
  <2>5. doc' \in Doc /\ Progress(doc, doc')
    <3>1. CASE UNCHANGED doc
      BY <1>2, <3>1, Same
    <3>2. CASE doc' = [doc EXCEPT !.sent = doc.sent \cup {kindOf(s)}]
      <4>1. doc' \in Doc /\ doc'.mobile = doc.mobile /\ doc'.bridge = doc.bridge /\ doc'.session = doc.session
        BY <1>2, <2>4, <3>2 DEF Doc
      <4> QED BY <1>2, <4>1, Same DEF Progress
    <3> QED BY <2>3, <3>1, <3>2
  <2> QED BY <1>1, <2>2, <2>5 DEF AccountFits
<1>4. ASSUME SweepsFit', OneSweep', QuietAfterTimeout PROVE ActivationInv' /\ Progress(doc, doc') /\ RemindersQuiet
  BY <1>1, <1>2, <1>3, <1>4 DEF CallersFit, ScriptFits, RemindersQuiet
<1>5. ASSUME sweeps[s].at # "idle", UNCHANGED doc, Continue(s, {})
      PROVE  SweepsFit' /\ OneSweep' /\ QuietAfterTimeout
  <2>1. doc'.sent = doc.sent \cup {} /\ SweepsFit /\ OneSweep /\ doc \in Doc
    BY <1>2, <1>5
  <2> HIDE DEF ActivationInv
  <2> QED BY <1>5, <2>1, ContinueKeeps
<1>6. ASSUME sweeps[s].at # "idle", phase # "timed_out", UNCHANGED doc, kindOf(s) \notin doc.sent,
             NEW at \in Reminding, Go(s, at)
      PROVE  SweepsFit' /\ OneSweep' /\ QuietAfterTimeout
  BY <1>6, GoKeeps
<1>7. sweeps[s].at \in Reminding => kindOf(s) \notin doc.sent /\ sweeps[s].at # "idle"
  BY DEF SweepsFit, SweepFits, kindOf, Reminding
<1>8. CASE StartSweep(s)
  <2> DEFINE w == [NoSweep EXCEPT !.at = "find", !.now = clock]
  <2>1. sweeps' = [sweeps EXCEPT ![s] = w] /\ UNCHANGED <<doc, phase>> /\ phase = "up"
        /\ \A t \in Sweeps : sweeps[t].at = "idle"
    BY <1>8 DEF StartSweep, MayStart, disposed
  <2>2. clock \in Time
    BY ActivationStateAssumption DEF AccountFits, Created, Time
  <2>3. w \in Sweep /\ w.at = "find" /\ w.sent = {}
    <3>1. 0 \in Time
      BY ActivationStateAssumption DEF Time
    <3>2. NoSweep \in Sweep /\ NoSweep.sent = {}
      BY <3>1 DEF NoSweep, Sweep
    <3> QED BY <2>2, <3>2 DEF Sweep
  <2>4. SweepFits(w, doc.sent)
    BY <2>3 DEF SweepFits, Reminding
  <2> HIDE DEF w
  <2>5. SweepsFit' /\ OneSweep' /\ QuietAfterTimeout
    BY <2>1, <2>3, <2>4 DEF SweepsFit, OneSweep, QuietAfterTimeout
  <2> QED BY <1>4, <2>5
<1>9. CASE FindDue(s)
  <2>1. UNCHANGED doc /\ sweeps[s].at = "find"
    BY <1>9 DEF FindDue
  <2>2. CASE ~disposed /\ due(s)
    <3>1. Go(s, "check") /\ phase # "timed_out" /\ kindOf(s) \notin doc.sent
      BY <1>9, <2>2 DEF FindDue, disposed, due, Eligible
    <3> QED BY <1>4, <1>6, <2>1, <3>1 DEF Reminding
  <2>3. CASE ~(~disposed /\ due(s))
    BY <1>4, <1>5, <1>9, <2>1, <2>3 DEF FindDue
  <2> QED BY <2>2, <2>3
<1>10. CASE StillDue(s)
  <2>1. UNCHANGED doc /\ sweeps[s].at = "check"
    BY <1>10 DEF StillDue
  <2>2. CASE ~disposed /\ due(s)
    <3>1. Go(s, "tokens") /\ phase # "timed_out" /\ kindOf(s) \notin doc.sent
      BY <1>10, <2>2 DEF StillDue, disposed, due, Eligible
    <3> QED BY <1>4, <1>6, <2>1, <3>1 DEF Reminding
  <2>3. CASE ~(~disposed /\ due(s))
    BY <1>4, <1>5, <1>10, <2>1, <2>3 DEF StillDue
  <2> QED BY <2>2, <2>3
<1>11. CASE ReadTokens(s)
  <2>1. UNCHANGED doc /\ sweeps[s].at = "tokens"
    BY <1>11 DEF ReadTokens
  <2>2. CASE disposed
    BY <1>4, <1>5, <1>11, <2>1, <2>2 DEF ReadTokens
  <2>3. CASE ~disposed
    <3>1. PICK at \in {"mark", "push"} : Go(s, at)
      BY <1>11, <2>3 DEF ReadTokens
    <3> QED BY <1>4, <1>6, <1>7, <2>1, <2>3, <3>1 DEF Reminding, disposed
  <2> QED BY <2>2, <2>3
<1>12. CASE Push(s) \/ DeleteStale(s)
  <2>1. UNCHANGED doc /\ sweeps[s].at \in {"push", "stale"} /\ phase # "timed_out"
        /\ \E at \in {"mark", "stale"} : Go(s, at)
    BY <1>12 DEF Push, DeleteStale, aborted
  <2> QED BY <1>4, <1>6, <1>7, <2>1 DEF Reminding
<1>13. CASE Mark(s)
  <2> DEFINE sent == IF due(s) THEN {kindOf(s)} ELSE {}
  <2>1. doc'.sent = doc.sent \cup sent /\ Continue(s, sent) /\ sweeps[s].at # "idle"
    BY <1>2, <1>13 DEF Mark, Doc
  <2>2. sent = {} \/ (sent = {kindOf(s)} /\ due(s))
    OBVIOUS
  <2> HIDE DEF sent
  <2>3. SweepsFit' /\ OneSweep' /\ QuietAfterTimeout
    BY <1>2, <2>1, <2>2, ContinueKeeps
  <2> QED BY <1>4, <2>3
<1>14. CASE FailReminder(s)
  BY <1>4, <1>5, <1>14 DEF FailReminder
<1> QED BY <1>8, <1>9, <1>10, <1>11, <1>12, <1>13, <1>14

\* The service is disposed of, or the server starts again.
LEMMA DisposalKeeps ==
  ASSUME ActivationInv, Dispose \/ DrainTimeout \/ Restart
  PROVE  ActivationInv' /\ Progress(doc, doc') /\ RemindersQuiet
<1> USE DEF ActivationInv
<1>1. UNCHANGED <<clock, doc, evidence, backfill>> /\ phase' \in ServicePhases
  BY DEF Dispose, DrainTimeout, Restart, ServicePhases
<1>2. /\ AccountFits' /\ ScriptFits' /\ Progress(doc, doc')
  BY <1>1, Same DEF AccountFits, ScriptFits
<1>3. CallersFit'
  BY AfterIsCaller, NothingRecorded, Times DEF Dispose, DrainTimeout, Restart, CallersFit, NoRequest, Caller
<1>4. MarkedIsFinal
  BY MarkedStays
<1>5. CASE UNCHANGED sweeps
  BY <1>1, <1>2, <1>3, <1>4, <1>5 DEF SweepsFit, OneSweep, QuietAfterTimeout, RemindersQuiet
<1>6. CASE Restart
  <2>1. sweeps' = [s \in Sweeps |-> NoSweep]
    BY <1>6 DEF Restart
  <2>2. NoSweep \in Sweep /\ SweepFits(NoSweep, doc.sent) /\ NoSweep.at = "idle"
    <3>1. 0 \in Time
      BY ActivationStateAssumption DEF Time
    <3> QED BY <3>1 DEF NoSweep, Sweep, SweepFits, Reminding
  <2>3. SweepsFit' /\ OneSweep' /\ QuietAfterTimeout
    BY <1>1, <2>1, <2>2 DEF SweepsFit, OneSweep, QuietAfterTimeout
  <2> QED BY <1>2, <1>3, <1>4, <2>3 DEF RemindersQuiet
<1> QED BY <1>5, <1>6 DEF Dispose, DrainTimeout

LEMMA ActivationBegins == ActivationInit => ActivationInv
<1> SUFFICES ASSUME ActivationInit PROVE ActivationInv
  OBVIOUS
<1> USE DEF ActivationInit
<1>1. AccountFits
  <2>1. clock \in Created .. MaxClock /\ 0 \in Time
    BY ActivationStateAssumption DEF Created, Time
  <2>2. evidence \in [Milestones -> Stamp] /\ evidence["bridge"] \in Own /\ evidence["session"] \in Own
    BY <2>1, Times DEF NoUpdate, Milestones, Stamp
  <2> QED BY <2>1, <2>2, NothingRecorded DEF AccountFits
<1>2. CallersFit
  BY NothingRecorded, Times DEF CallersFit, NoRequest, Caller
<1>3. ScriptFits
  <2>1. 0 \in Time /\ None \in Baseline
    BY ActivationStateAssumption DEF Time, Baseline
  <2> QED BY <2>1, NothingRecorded DEF ScriptFits, NoBackfill, Script
<1>4. SweepsFit /\ OneSweep
  <2>1. 0 \in Time
    BY ActivationStateAssumption DEF Time
  <2> QED BY <2>1 DEF SweepsFit, OneSweep, NoSweep, Sweep, SweepFits, Reminding, ServicePhases
<1> QED BY <1>1, <1>2, <1>3, <1>4 DEF ActivationInv

\* Every step of the requests, the backfill, the sweep and the server keeps the invariant,
\* loses no milestone and sends no reminder that is not due.
THEOREM ActivationInductive ==
  ActivationInv /\ [ActivationNext]_activationVars => ActivationInv' /\ Progress(doc, doc') /\ RemindersQuiet
<1> SUFFICES ASSUME ActivationInv, [ActivationNext]_activationVars
             PROVE  ActivationInv' /\ Progress(doc, doc') /\ RemindersQuiet
  OBVIOUS
<1>1. CASE UNCHANGED activationVars
  <2>1. UNCHANGED <<clock, doc, evidence, requests, backfill, sweeps, phase>>
    BY <1>1 DEF activationVars
  <2> QED BY <2>1, SweepsWait, Same DEF ActivationInv, AccountFits, CallersFit, ScriptFits, RemindersQuiet
<1>2. CASE Tick \/ StartBackfill \/ ReadEvidence \/ ApplyBackfill
  BY <1>2, ScriptKeeps
<1>3. CASE Dispose \/ DrainTimeout \/ Restart
  BY <1>3, DisposalKeeps
<1>4. ASSUME NEW r \in Callers,
             \/ \E kind \in Milestones : Arrive(r, kind)
             \/ Read(r) \/ Reconcile(r) \/ Record(r) \/ FailRecord(r) \/ Use(r)
      PROVE  ActivationInv' /\ Progress(doc, doc') /\ RemindersQuiet
  BY <1>4, CallersKeep
<1>5. ASSUME NEW s \in Sweeps,
             \/ StartSweep(s) \/ FindDue(s) \/ StillDue(s) \/ ReadTokens(s)
             \/ Push(s) \/ DeleteStale(s) \/ Mark(s) \/ FailReminder(s)
      PROVE  ActivationInv' /\ Progress(doc, doc') /\ RemindersQuiet
  BY <1>5, SweepsKeep
<1> QED BY <1>1, <1>2, <1>3, <1>4, <1>5 DEF ActivationNext

\* The invariant of the milestones and reminders holds however requests, backfill and
\* sweeps overlap.
THEOREM ActivationInvariance == ActivationSpec => []ActivationInv
BY ActivationBegins, ActivationInductive, PTL DEF ActivationSpec

\* Every variable keeps its type, and no milestone is older than its account.
THEOREM ActivationTypeCorrect == ActivationSpec => []ActivationTypeOK
<1>1. ASSUME ActivationInv PROVE ActivationTypeOK
  <2> USE <1>1 DEF ActivationInv, AccountFits
  <2>1. doc.mobile \in Own /\ doc.bridge \in Own /\ doc.session \in Own
    BY DEF Doc
  <2>2. {doc.mobile, doc.bridge, doc.session} \cap 0 .. Created - 1 = {}
    BY <2>1, ActivationStateAssumption DEF Own, Created
  <2>3. clock \in Time /\ doc \in [mobile : Stamp, bridge : Stamp, session : Stamp, bridgeBase : Baseline,
              sessionBase : Baseline, sent : SUBSET Kinds, backfilled : BOOLEAN]
    BY <2>1, Times, ActivationStateAssumption DEF Doc, Created, Time
  <2>4. requests \in [Callers -> [at : {"idle", "read", "reconcile", "record", "use"}, kind : Milestones \cup {None},
                                  observed : Stamp, update : [Milestones -> Stamp]]]
    <3>1. [Milestones -> Own] \subseteq [Milestones -> Stamp]
      BY Times
    <3> QED BY <3>1, Times DEF CallersFit, Caller
  <2>5. backfill \in [at : {"idle", "evidence", "apply"}, now : Time, mobile : BOOLEAN,
                      evidence : [Milestones -> Stamp], base : Baseline]
    <3>1. [Milestones -> Own] \subseteq [Milestones -> Stamp]
      BY Times
    <3> QED BY <3>1 DEF ScriptFits, Script
  <2>6. sweeps \in [Sweeps -> [at : {"idle", "find", "check", "tokens", "push", "stale", "mark"},
                               next : 1 .. Len(ReminderKinds), now : Time, sent : SUBSET Kinds]]
    <3>1. {"idle", "find"} \cup Reminding = {"idle", "find", "check", "tokens", "push", "stale", "mark"}
      BY DEF Reminding
    <3> QED BY <3>1, TheKinds DEF SweepsFit, Sweep
  <2> QED BY <2>2, <2>3, <2>4, <2>5, <2>6 DEF SweepsFit, ServicePhases, ActivationTypeOK
<1> QED BY <1>1, ActivationInvariance, PTL

\* A milestone that was recorded stays; a first session may only turn out to be earlier.
THEOREM MilestonesStayRecorded == ActivationSpec => MilestonesStay
<1>1. ActivationInv /\ ActivationInv' /\ [ActivationNext]_activationVars =>
        [/\ \A m \in {"mobile", "bridge"} : doc[m] # None => doc'[m] = doc[m]
         /\ doc.session # None => doc'.session # None /\ doc'.session <= doc.session]_activationVars
  <2> SUFFICES ASSUME ActivationInv, ActivationInv', [ActivationNext]_activationVars
               PROVE  /\ \A m \in {"mobile", "bridge"} : doc[m] # None => doc'[m] = doc[m]
                      /\ doc.session # None => doc'.session # None /\ doc'.session <= doc.session
    OBVIOUS
  <2>1. Progress(doc, doc') /\ doc \in Doc /\ doc' \in Doc
    BY ActivationInductive DEF ActivationInv, AccountFits
  <2> QED BY <2>1, ProgressIsStay
<1> QED BY <1>1, ActivationInvariance, PTL DEF ActivationSpec, MilestonesStay

\* No sweep sends a reminder that is not due any more.
THEOREM RemindersStayDue == ActivationSpec => RemindersAreDue
<1>1. ActivationInv /\ ActivationInv' /\ [ActivationNext]_activationVars =>
        MarkedIsFinal /\ NotBackToBack' /\ QuietAfterTimeout
  <2>1. ActivationInv' => NotBackToBack'
    BY DEF ActivationInv, SweepsFit, SweepFits, NotBackToBack
  <2> QED BY <2>1, ActivationInductive DEF RemindersQuiet
<1> QED BY <1>1, ActivationInvariance, PTL DEF ActivationSpec, RemindersAreDue
===============================================================================
