------------------------- MODULE PendingAuthProofs -------------------------
(***************************************************************************)
(* Proofs about PendingAuth for any number of tokens, attempts, codes,     *)
(* requests and callbacks.                                                 *)
(*                                                                         *)
(* The inductive invariant has three parts that different actions disturb: *)
(* what is stored with its history, the requests, and the callbacks.  The  *)
(* last section maps each step to one of SignIn.                           *)
(***************************************************************************)
EXTENDS PendingAuth, TLAPS

StoreType ==
  /\ sessions \in [Tokens -> Entry]
  /\ byState \in [Attempts -> Tokens \cup {None}]
  /\ byCode \in [Codes -> Tokens \cup {None}]
  /\ owner \in [Attempts -> Tokens \cup {None}]
  /\ confirmed \subseteq Attempts
  /\ denied \subseteq Attempts
  /\ received \subseteq [session : Attempts, tokens : Attempts]
  /\ consumed \subseteq Attempts

\* A stored entry has a state and a code; a complete one has confirmed tokens.
EntryShape ==
  \A h \in Tokens :
    /\ sessions[h].status # "absent" => sessions[h].state # None /\ sessions[h].code # None
    /\ sessions[h].status = "absent" => sessions[h].state = None /\ sessions[h].code = None
    /\ sessions[h].status = "complete" => sessions[h].tokens \in confirmed

\* A stored session is the one its attempt was created for.
StateOwned ==
  \A h \in Tokens : sessions[h].state # None => owner[sessions[h].state] = h

\* A denied attempt and a delivered one stay settled while they are stored, and
\* neither can be created again.
DeniedSettled ==
  /\ \A s \in denied : owner[s] # None
  /\ \A h \in Tokens : sessions[h].state \in denied => sessions[h].status = "denied"
ReceivedSettled ==
  \A r \in received :
    /\ owner[r.session] # None
    /\ \A h \in Tokens : sessions[h].state = r.session => sessions[h].status = "complete"

\* An acknowledged attempt has left the store and does not come back to it.
ConsumedSettled ==
  \A s \in consumed :
    /\ owner[s] # None
    /\ \A h \in Tokens : sessions[h].state # s

StoreInv ==
  /\ StoreType
  /\ EntryShape
  /\ IndexesCoherent
  /\ StateOwned
  /\ DeniedSettled
  /\ ReceivedSettled
  /\ ConsumedSettled
  /\ DeliveredWasConfirmed
  /\ DeniedNeverDelivers

\* An open request names a token; a waiter registered on a status that could
\* still change.
PollShape ==
  \A p \in Pollers : poll[p].pc # "idle" => poll[p].h # None
WaitsFromUndecided ==
  \A p \in Pollers :
    poll[p].pc = "waiting" => poll[p].from \in {"pending", "awaiting_confirmation"}

\* A request woken by a staged completion runs before anything can settle the
\* session, so it may wait again on what it then finds.
AwaitingIsFresh ==
  \A p \in Pollers :
    poll[p].pc = "resumed" /\ poll[p].seen = "awaiting_confirmation"
      => sessions[poll[p].h].status \notin Terminal

PollInv ==
  /\ poll \in [Pollers -> Poll]
  /\ released \in BOOLEAN
  /\ PollShape
  /\ WaitsFromUndecided
  /\ NoMissedWakeup
  /\ ReleasedMeansNoWaiter
  /\ AwaitingIsFresh

\* A callback that is exchanging names a token and an attempt.
ExchangeInv ==
  /\ exchange \in [Callbacks -> [h : Tokens \cup {None}, att : Attempts \cup {None}]]
  /\ \A c \in Callbacks : exchange[c] # NoExchange => exchange[c].h # None /\ exchange[c].att # None

IInv == StoreInv /\ PollInv /\ ExchangeInv

-----------------------------------------------------------------------------
(* What the operations of the store preserve. *)

USE PendingAuthAssumption

\* The history that only an initiation or a decision changes.
decisions == <<owner, confirmed, denied, received>>

\* Dropping entries, one of them perhaps because it is acknowledged, keeps the
\* store coherent.
LEMMA DropStore ==
  ASSUME StoreInv, NEW gone \in SUBSET Tokens, Drop(gone), UNCHANGED decisions,
         \/ consumed' = consumed
         \/ \E h \in gone : Present(h) /\ consumed' = consumed \cup {sessions[h].state}
  PROVE  StoreInv'
<1> USE DEF StoreInv, Drop, decisions
<1>0. \A h \in Tokens : Present(h) =>
        sessions[h].state \in Attempts /\ sessions[h].state # None /\ owner[sessions[h].state] = h
  BY DEF StoreType, EntryShape, Entry, StateOwned, Present
<1>1. StoreType'
  <2>1. consumed' \subseteq Attempts
    BY <1>0 DEF StoreType
  <2> QED BY <2>1 DEF StoreType, Entry, Absent, StatesWithout, CodesWithout
<1>2. \A h \in Tokens : sessions'[h] = Absent \/ sessions'[h] = sessions[h]
  OBVIOUS
<1>3. EntryShape' /\ StateOwned' /\ DeniedSettled' /\ ReceivedSettled'
  BY <1>2 DEF StoreType, EntryShape, StateOwned, DeniedSettled, ReceivedSettled, Absent
<1>4. IndexesCoherent'
  <2>1. \A h \in Tokens, s \in Attempts : (byState[s] = h <=> sessions[h].state = s)'
    BY DEF StoreType, IndexesCoherent, StatesWithout, Absent
  <2>2. \A h \in Tokens, u \in Codes : (byCode[u] = h <=> sessions[h].code = u)'
    BY DEF StoreType, IndexesCoherent, CodesWithout, Absent
  <2> QED BY <2>1, <2>2 DEF IndexesCoherent
<1>5. ConsumedSettled'
  <2>0. \A s \in consumed : s # None
    BY DEF StoreType
  <2>1. CASE consumed' = consumed
    BY <1>2, <2>0, <2>1 DEF ConsumedSettled, Absent
  <2>2. ASSUME NEW h \in gone, Present(h), consumed' = consumed \cup {sessions[h].state}
        PROVE  ConsumedSettled'
    <3>0. h \in Tokens /\ h # None
      OBVIOUS
    <3>1. owner'[sessions[h].state] # None
      BY <1>0, <2>2, <3>0
    <3>2. \A g \in Tokens : sessions'[g].state # sessions[h].state
      BY <1>0, <2>2, <3>0 DEF StoreType, StateOwned, Absent
    <3> QED BY <1>2, <2>0, <2>2, <3>1, <3>2 DEF ConsumedSettled, Absent
  <2> QED BY <2>1, <2>2
<1> QED BY <1>1, <1>3, <1>4, <1>5 DEF DeliveredWasConfirmed, DeniedNeverDelivers

\* Dropping one session with its waiters notified leaves no waiter behind.
LEMMA DropPoll ==
  ASSUME StoreInv, PollInv, NEW h \in Tokens, Drop({h}), NEW outcome \in Outcomes,
         poll' = NotifyWaiters(h, outcome, TRUE), UNCHANGED released
  PROVE  PollInv'
<1> USE DEF PollInv, NotifyWaiters, WaitersOf, Resumed
<1>1. (poll \in [Pollers -> Poll])' /\ (released \in BOOLEAN)'
  BY DEF Poll, Outcomes, Stored, Terminal
<1>2. \A p \in Pollers : poll'[p].pc = "waiting" => poll'[p] = poll[p] /\ poll[p].h # h
  OBVIOUS
<1>3. \A p \in Pollers : poll'[p].pc # "idle" => poll[p].pc # "idle" /\ poll'[p].h = poll[p].h
  BY DEF Poll
<1>4. PollShape' /\ WaitsFromUndecided' /\ ReleasedMeansNoWaiter'
  BY <1>2, <1>3 DEF PollShape, WaitsFromUndecided, ReleasedMeansNoWaiter
<1>5. NoMissedWakeup'
  <2> SUFFICES ASSUME NEW p \in Pollers, poll'[p].pc = "waiting"
               PROVE  sessions'[poll'[p].h].status \in {"pending", "awaiting_confirmation"}
    BY DEF NoMissedWakeup
  <2>1. poll[p].h \in Tokens \ {h}
    BY <1>2 DEF Poll, PollShape
  <2>2. sessions'[poll[p].h] = sessions[poll[p].h]
    BY <2>1 DEF Drop
  <2> QED BY <1>2, <2>2 DEF NoMissedWakeup
<1>6. AwaitingIsFresh'
  <2> SUFFICES ASSUME NEW p \in Pollers, poll'[p].pc = "resumed",
                      poll'[p].seen = "awaiting_confirmation"
               PROVE  sessions'[poll'[p].h].status \notin Terminal
    BY DEF AwaitingIsFresh
  <2>1. poll'[p].h \in Tokens /\ poll'[p].h = poll[p].h
    BY <1>1, <1>3 DEF Poll, PollShape
  <2>2. CASE poll[p].h = h
    BY <2>1, <2>2 DEF Drop, Absent, Terminal
  <2>3. CASE poll[p].h # h
    BY <2>1, <2>3 DEF Drop, AwaitingIsFresh
  <2> QED BY <2>2, <2>3
<1> QED BY <1>1, <1>4, <1>5, <1>6

\* The same when the request p that read the lapsed session moves on with it.
LEMMA DropAndLeavePoll ==
  ASSUME StoreInv, PollInv, NEW h \in Tokens, Drop({h}), NEW outcome \in Outcomes,
         NEW p \in Pollers, NEW q \in Poll, q.pc # "waiting",
         q.pc # "idle" => q.h # None /\ q.seen # "awaiting_confirmation",
         poll' = [NotifyWaiters(h, outcome, TRUE) EXCEPT ![p] = q], UNCHANGED released
  PROVE  PollInv'
<1> USE DEF PollInv, NotifyWaiters, WaitersOf, Resumed
<1>1. (poll \in [Pollers -> Poll])' /\ (released \in BOOLEAN)'
  BY DEF Poll, Outcomes, Stored, Terminal
<1>2. \A r \in Pollers : poll'[r].pc = "waiting" =>
        r # p /\ poll'[r] = poll[r] /\ poll[r].h \in Tokens \ {h}
  BY DEF PollShape, Poll
<1>3. \A r \in Pollers \ {p} : poll'[r].pc # "idle" =>
        poll[r].pc # "idle" /\ poll'[r].h = poll[r].h /\ poll[r].h \in Tokens
  BY DEF Poll, PollShape
<1>4. poll'[p] = q
  OBVIOUS
<1>5. PollShape' /\ WaitsFromUndecided' /\ ReleasedMeansNoWaiter'
  BY <1>2, <1>3, <1>4 DEF PollShape, WaitsFromUndecided, ReleasedMeansNoWaiter
<1>6. NoMissedWakeup'
  BY <1>2 DEF Drop, NoMissedWakeup
<1>7. AwaitingIsFresh'
  <2> SUFFICES ASSUME NEW r \in Pollers, poll'[r].pc = "resumed",
                      poll'[r].seen = "awaiting_confirmation"
               PROVE  sessions'[poll'[r].h].status \notin Terminal
    BY DEF AwaitingIsFresh
  <2>1. r # p /\ poll'[r].h = poll[r].h /\ poll[r].h \in Tokens
    BY <1>3, <1>4
  <2>2. CASE poll[r].h = h
    BY <2>1, <2>2 DEF Drop, Absent, Terminal
  <2>3. CASE poll[r].h # h
    BY <2>1, <2>3 DEF Drop, AwaitingIsFresh
  <2> QED BY <2>2, <2>3
<1> QED BY <1>1, <1>5, <1>6, <1>7

\* So a read that finds nothing active changes nothing that matters.
LEMMA ReadMissKeeps ==
  ASSUME StoreInv, PollInv, NEW h \in Tokens, ReadMiss(h),
         UNCHANGED <<decisions, consumed, released>>
  PROVE  StoreInv' /\ PollInv'
<1>1. CASE Present(h)
  <2>1. Drop({h}) /\ poll' = NotifyWaiters(h, "expired", TRUE)
    BY <1>1 DEF ReadMiss
  <2>2. StoreInv'
    BY <2>1, DropStore DEF StoreInv, StoreType
  <2>3. PollInv'
    BY <2>1, DropPoll DEF Outcomes
  <2> QED BY <2>2, <2>3
<1>2. CASE ~Present(h)
  <2>1. UNCHANGED <<storeVars, poll>>
    BY <1>2 DEF ReadMiss
  <2> QED BY <2>1 DEF storeVars, decisions, StoreInv, PollInv, StoreType, EntryShape,
       IndexesCoherent, StateOwned, DeniedSettled, ReceivedSettled, ConsumedSettled, DeliveredWasConfirmed,
       DeniedNeverDelivers, PollShape, WaitsFromUndecided, NoMissedWakeup, ReleasedMeansNoWaiter,
       AwaitingIsFresh
<1> QED BY <1>1, <1>2

\* An undecided session may take any stored status: a completion needs its
\* confirmation and a denial is remembered.
LEMMA UpdateStore ==
  ASSUME StoreInv, NEW h \in Tokens, NEW entry \in Entry, UpdateSession(h, entry),
         sessions[h].status \notin Terminal, entry.status # "absent",
         entry.state = sessions[h].state, entry.code = sessions[h].code,
         UNCHANGED <<owner, received, consumed>>,
         confirmed \subseteq confirmed', confirmed' \subseteq Attempts,
         entry.status = "complete" => entry.tokens \in confirmed',
         \/ denied' = denied
         \/ denied' = denied \cup {entry.state} /\ entry.status = "denied"
  PROVE  StoreInv'
<1> USE DEF StoreInv, UpdateSession
<1>0. /\ sessions[h].state \in Attempts
      /\ sessions[h].code \in Codes
      /\ owner[sessions[h].state] = h
      /\ h # None
  BY DEF StoreType, EntryShape, Entry, StateOwned, Active, Present
<1>1. StoreType'
  BY <1>0 DEF StoreType
<1>2. EntryShape'
  BY <1>0 DEF StoreType, EntryShape
<1>3. IndexesCoherent' /\ StateOwned'
  BY <1>0 DEF StoreType, IndexesCoherent, StateOwned
<1>4. DeniedSettled'
  BY <1>0 DEF StoreType, DeniedSettled, StateOwned, Terminal
<1>5. ReceivedSettled'
  BY <1>0 DEF StoreType, ReceivedSettled, Terminal
<1>6. DeliveredWasConfirmed'
  BY DEF DeliveredWasConfirmed
<1>7. DeniedNeverDelivers'
  BY <1>0 DEF DeniedNeverDelivers, ReceivedSettled, Terminal
<1>8. ConsumedSettled'
  BY <1>0 DEF StoreType, ConsumedSettled
<1> QED BY <1>1, <1>2, <1>3, <1>4, <1>5, <1>6, <1>7, <1>8

\* An update wakes every waiter that the new status would leave behind.
LEMMA UpdatePoll ==
  ASSUME StoreInv, PollInv, NEW h \in Tokens, NEW entry \in Entry,
         MicrotasksDrained, UpdateSession(h, entry), entry.status # "absent", UNCHANGED released
  PROVE  PollInv'
<1> USE DEF PollInv, UpdateSession, NotifyWaiters, WaitersOf, Resumed
<1>1. (poll \in [Pollers -> Poll])' /\ (released \in BOOLEAN)'
  BY DEF Poll, Entry, Outcomes, Stored, Terminal
<1>2. \A p \in Pollers : poll'[p].pc = "waiting" =>
        poll'[p] = poll[p] /\ (poll[p].h = h => poll[p].from = entry.status)
  OBVIOUS
<1>3. \A p \in Pollers : poll'[p].pc # "idle" => poll[p].pc # "idle" /\ poll'[p].h = poll[p].h
  BY DEF Poll
<1>4. PollShape' /\ WaitsFromUndecided' /\ ReleasedMeansNoWaiter'
  BY <1>2, <1>3 DEF PollShape, WaitsFromUndecided, ReleasedMeansNoWaiter
<1>5. NoMissedWakeup'
  <2> SUFFICES ASSUME NEW p \in Pollers, poll'[p].pc = "waiting"
               PROVE  sessions'[poll'[p].h].status \in {"pending", "awaiting_confirmation"}
    BY DEF NoMissedWakeup
  <2>1. poll[p].h \in Tokens
    BY <1>2 DEF Poll, PollShape
  <2>2. CASE poll[p].h = h
    BY <1>2, <2>2 DEF WaitsFromUndecided, StoreInv, StoreType
  <2>3. CASE poll[p].h # h
    BY <1>2, <2>1, <2>3 DEF NoMissedWakeup, StoreInv, StoreType
  <2> QED BY <2>2, <2>3
<1>6. AwaitingIsFresh'
  <2> SUFFICES ASSUME NEW p \in Pollers, poll'[p].pc = "resumed",
                      poll'[p].seen = "awaiting_confirmation"
               PROVE  sessions'[poll'[p].h].status \notin Terminal
    BY DEF AwaitingIsFresh
  <2>1. poll'[p].h = h /\ entry.status = "awaiting_confirmation"
    BY DEF MicrotasksDrained
  <2> QED BY <2>1 DEF StoreInv, StoreType, Terminal
<1> QED BY <1>1, <1>4, <1>5, <1>6

\* Starting to wait on an undecided session, or being told of the release.
LEMMA WaitPoll ==
  ASSUME StoreInv, PollInv, NEW p \in Pollers, NEW h \in Tokens,
         WaitForStatusChange(p, h), Active(h), sessions[h].status \notin Terminal,
         UNCHANGED released
  PROVE  PollInv'
<1> USE DEF PollInv, WaitForStatusChange, Resumed, storeVars
<1>1. sessions[h].status \in {"pending", "awaiting_confirmation"} /\ h # None
  BY DEF StoreInv, StoreType, Entry, Stored, Active, Present
<1>2. (poll \in [Pollers -> Poll])' /\ (released \in BOOLEAN)'
  BY <1>1 DEF Poll, Outcomes, Stored, Terminal
<1>3. PollShape' /\ WaitsFromUndecided'
  BY <1>1 DEF PollShape, WaitsFromUndecided
<1>4. NoMissedWakeup' /\ ReleasedMeansNoWaiter'
  BY <1>1 DEF NoMissedWakeup, ReleasedMeansNoWaiter
<1>5. AwaitingIsFresh'
  BY DEF AwaitingIsFresh
<1> QED BY <1>2, <1>3, <1>4, <1>5

\* A request that stops waiting, or is answered, disturbs no other.
LEMMA LeavePoll ==
  ASSUME PollInv, NEW p \in Pollers, NEW q \in Poll, q.pc # "waiting",
         q.pc # "idle" => q.h # None /\ q.seen # "awaiting_confirmation", poll' = [poll EXCEPT ![p] = q],
         UNCHANGED <<sessions, released>>
  PROVE  PollInv'
BY DEF PollInv, PollShape, WaitsFromUndecided, NoMissedWakeup, ReleasedMeansNoWaiter,
   AwaitingIsFresh

-----------------------------------------------------------------------------
(* The actions that are more than one operation of the store. *)

\* A new attempt takes over its token: nothing recorded of earlier attempts
\* speaks of it, and the waiters on the old entry find a pending session.
LEMMA CreateKeeps ==
  ASSUME IInv, NEW h \in Tokens, NEW s \in Attempts, NEW u \in Codes, CreateSession(h, s, u)
  PROVE  IInv'
<1> USE DEF IInv
<1>1. PICK gone \in Victims(h) :
        /\ sessions' = [g \in Tokens |->
             IF g = h THEN [status |-> "pending", state |-> s, code |-> u,
                            lapsed |-> FALSE, staged |-> None, tokens |-> None]
             ELSE IF g \in gone THEN Absent ELSE sessions[g]]
        /\ byState' = [StatesWithout(gone \cup {h}) EXCEPT ![s] = h]
        /\ byCode' = [CodesWithout(gone \cup {h}) EXCEPT ![u] = h]
        /\ poll' = [p \in Pollers |->
             IF \E g \in gone : p \in WaitersOf(g)
             THEN Resumed(poll[p].h, "gone") ELSE poll[p]]
  BY DEF CreateSession
<1>2. /\ gone \subseteq Tokens
      /\ h \notin gone
      /\ owner[s] = None
      /\ byCode[u] = None
      /\ owner' = [owner EXCEPT ![s] = h]
      /\ UNCHANGED <<exchange, released, confirmed, denied, received, consumed>>
      /\ h # None /\ s # None /\ u # None
  BY DEF CreateSession, Victims
<1>3. /\ sessions'[h] = [status |-> "pending", state |-> s, code |-> u,
                         lapsed |-> FALSE, staged |-> None, tokens |-> None]
      /\ \A g \in Tokens \ {h} : sessions'[g] = IF g \in gone THEN Absent ELSE sessions[g]
  BY <1>1
<1>4. \A g \in Tokens : sessions[g].state # s /\ sessions[g].code # u
  BY <1>2 DEF StoreInv, StoreType, StateOwned, IndexesCoherent
<1>5. StoreInv'
  <2> USE DEF StoreInv
  <2>1. StoreType'
    <3>1. sessions' \in [Tokens -> Entry]
      BY <1>1, <1>2 DEF StoreType, Entry, Stored, Absent
    <3>2. (byState \in [Attempts -> Tokens \cup {None}])' /\ (byCode \in [Codes -> Tokens \cup {None}])'
      BY <1>1 DEF StoreType, StatesWithout, CodesWithout
    <3> QED BY <1>2, <3>1, <3>2 DEF StoreType
  <2>2. EntryShape'
    BY <1>2, <1>3 DEF EntryShape, Absent
  <2>3. StateOwned'
    BY <1>2, <1>3, <1>4 DEF StoreType, StateOwned, Absent, Entry
  <2>4. DeniedSettled'
    BY <1>2, <1>3, <1>4 DEF StoreType, DeniedSettled, Absent
  <2>5. ReceivedSettled'
    BY <1>2, <1>3, <1>4 DEF StoreType, ReceivedSettled, Absent
  <2>6. IndexesCoherent'
    <3>1. \A g \in Tokens, r \in Attempts : (byState[r] = g <=> sessions[g].state = r)'
      <4> SUFFICES ASSUME NEW g \in Tokens, NEW r \in Attempts
                   PROVE  byState'[r] = g <=> sessions'[g].state = r
        OBVIOUS
      <4>1. byState'[r] = IF r = s THEN h
                          ELSE IF \E k \in gone \cup {h} : sessions[k].state = r
                               THEN None ELSE byState[r]
        BY <1>1 DEF StatesWithout
      <4>2. byState[r] = g <=> sessions[g].state = r
        BY DEF IndexesCoherent
      <4>3. \A k \in Tokens : byState[r] = k <=> sessions[k].state = r
        BY DEF IndexesCoherent
      <4> QED BY <1>2, <1>3, <1>4, <4>1, <4>3 DEF Absent
    <3>2. \A g \in Tokens, r \in Codes : (byCode[r] = g <=> sessions[g].code = r)'
      <4> SUFFICES ASSUME NEW g \in Tokens, NEW r \in Codes
                   PROVE  byCode'[r] = g <=> sessions'[g].code = r
        OBVIOUS
      <4>1. byCode'[r] = IF r = u THEN h
                         ELSE IF \E k \in gone \cup {h} : sessions[k].code = r
                              THEN None ELSE byCode[r]
        BY <1>1 DEF CodesWithout
      <4>2. \A k \in Tokens : byCode[r] = k <=> sessions[k].code = r
        BY DEF IndexesCoherent
      <4> QED BY <1>2, <1>3, <1>4, <4>1, <4>2 DEF Absent
    <3> QED BY <3>1, <3>2 DEF IndexesCoherent
  <2>7. ConsumedSettled'
    BY <1>2, <1>3, <1>4 DEF StoreType, ConsumedSettled, Absent
  <2> QED BY <1>2, <2>1, <2>2, <2>3, <2>4, <2>5, <2>6, <2>7
       DEF DeliveredWasConfirmed, DeniedNeverDelivers
<1>6. PollInv'
  <2> USE DEF PollInv
  <2>1. \A p \in Pollers : poll'[p].pc = "waiting" => poll'[p] = poll[p] /\ poll[p].h \notin gone
    BY <1>1 DEF WaitersOf, Resumed
  <2>2. \A p \in Pollers : poll'[p].pc # "idle" => poll[p].pc # "idle" /\ poll'[p].h = poll[p].h
    BY <1>1 DEF WaitersOf, Resumed
  <2>3. poll' \in [Pollers -> Poll]
    BY <1>1 DEF Poll, Outcomes, Resumed
  <2>4. PollShape' /\ WaitsFromUndecided' /\ ReleasedMeansNoWaiter'
    BY <1>2, <2>1, <2>2 DEF PollShape, WaitsFromUndecided, ReleasedMeansNoWaiter
  <2>5. \A p \in Pollers : poll'[p].pc = "waiting" => poll[p].h \in Tokens
    BY <2>1 DEF Poll, PollShape
  <2>6. NoMissedWakeup'
    BY <1>3, <2>1, <2>5 DEF NoMissedWakeup
  <2>7. AwaitingIsFresh'
    BY <1>1 DEF AwaitingIsFresh, CreateSession, MicrotasksDrained, Resumed
  <2> QED BY <1>2, <2>3, <2>4, <2>6, <2>7
<1>7. ExchangeInv'
  BY <1>2 DEF ExchangeInv
<1> QED BY <1>5, <1>6, <1>7

\* The release answers every waiter, so nothing is left to be missed.
LEMMA ReleaseKeeps ==
  ASSUME IInv, ReleaseWaiters
  PROVE  IInv'
<1> USE DEF IInv, ReleaseWaiters, history
<1>1. StoreInv'
  BY DropStore DEF decisions, StoreInv, StoreType
<1>2. \A p \in Pollers : poll'[p].pc # "waiting"
  BY DEF Resumed
<1>3. PollInv'
  BY <1>2 DEF PollInv, PollShape, WaitsFromUndecided, NoMissedWakeup, ReleasedMeansNoWaiter,
       AwaitingIsFresh, Poll, Resumed, Outcomes, MicrotasksDrained
<1> QED BY <1>1, <1>3 DEF ExchangeInv

\* A delivered completion was confirmed and its attempt is settled.
LEMMA DeliverKeeps ==
  ASSUME IInv, NEW p \in Pollers, DeliverCompletion(p)
  PROVE  IInv'
<1> DEFINE h == poll[p].h
<1> USE DEF IInv, DeliverCompletion
<1>1. h \in Tokens /\ poll[p] \in Poll /\ h # None
  BY DEF PollInv, PollShape, Poll
<1>2. Idle \in Poll /\ Idle.pc = "idle"
  BY DEF Idle, Poll
<1>3. CASE Active(h)
  <2>1. /\ sessions[h].status = "complete"
        /\ received' \in {received,
             received \cup {[session |-> sessions[h].state, tokens |-> sessions[h].tokens]}}
        /\ poll' = [poll EXCEPT ![p] = Idle]
        /\ UNCHANGED <<storeVars, exchange, released, owner, confirmed, denied, consumed>>
    BY <1>3
  <2> USE DEF storeVars
  <2>2. /\ sessions[h].state \in Attempts
        /\ owner[sessions[h].state] = h
        /\ sessions[h].tokens \in confirmed
        /\ sessions[h].state \notin denied
    BY <1>1, <2>1 DEF StoreInv, StoreType, EntryShape, StateOwned, DeniedSettled, Entry
  <2>3. StoreInv'
    <3> USE DEF StoreInv
    <3>1. StoreType'
      BY <2>1, <2>2 DEF StoreType
    <3>2. ReceivedSettled'
      BY <1>1, <2>1, <2>2 DEF ReceivedSettled, StateOwned
    <3>3. DeliveredWasConfirmed' /\ DeniedNeverDelivers'
      BY <2>1, <2>2 DEF DeliveredWasConfirmed, DeniedNeverDelivers
    <3> QED BY <2>1, <3>1, <3>2, <3>3 DEF EntryShape, IndexesCoherent, StateOwned, DeniedSettled,
         ConsumedSettled
  <2>4. PollInv'
    BY <1>2, <2>1, LeavePoll
  <2> QED BY <2>1, <2>3, <2>4 DEF ExchangeInv
<1>4. CASE ~Active(h) /\ Present(h)
  <2>1. /\ Drop({h})
        /\ poll' = [NotifyWaiters(h, "expired", TRUE) EXCEPT ![p] = Idle]
        /\ UNCHANGED <<exchange, released, owner, confirmed, denied, consumed, received>>
    BY <1>4
  <2>2. StoreInv'
    <3> HIDE DEF DeliverCompletion
    <3>1. UNCHANGED <<decisions, consumed>>
      BY <2>1 DEF decisions
    <3> QED BY <1>1, <2>1, <3>1, DropStore
  <2>3. PollInv'
    <3> HIDE DEF DeliverCompletion, h
    <3>1. "expired" \in Outcomes
      BY DEF Outcomes
    <3> QED BY <1>1, <1>2, <2>1, <3>1, DropAndLeavePoll
  <2> QED BY <2>1, <2>2, <2>3 DEF ExchangeInv
<1>5. CASE ~Present(h)
  <2>1. /\ poll' = [poll EXCEPT ![p] = Idle]
        /\ UNCHANGED <<storeVars, exchange, released, history>>
    BY <1>5 DEF Active, history
  <2>2. PollInv'
    BY <1>2, <2>1, LeavePoll DEF storeVars
  <2> QED BY <2>1, <2>2 DEF storeVars, history, ExchangeInv, StoreInv, StoreType, EntryShape,
       IndexesCoherent, StateOwned, DeniedSettled, ReceivedSettled, ConsumedSettled, DeliveredWasConfirmed,
       DeniedNeverDelivers
<1> QED BY <1>3, <1>4, <1>5 DEF Active

\* What a stored status may become: an error, a denial, a staged or a confirmed
\* completion.
LEMMA FailKeeps ==
  ASSUME IInv, NEW h \in Tokens, MicrotasksDrained, FailSession(h), UNCHANGED <<released, history>>
  PROVE  StoreInv' /\ PollInv'
<1> USE DEF IInv, history
<1> DEFINE entry == [sessions[h] EXCEPT !.status = "error", !.staged = None, !.tokens = None]
<1>1. CASE sessions[h].status \notin Terminal /\ UpdateSession(h, entry)
  <2>0. sessions[h] \in Entry
    BY DEF StoreInv, StoreType
  <2>1. /\ entry \in Entry /\ entry.status = "error" /\ entry.state = sessions[h].state
        /\ entry.code = sessions[h].code
    BY <2>0 DEF Entry, Stored, Terminal
  <2> HIDE DEF entry
  <2>2. StoreInv'
    BY <1>1, <2>1, UpdateStore DEF StoreInv, StoreType
  <2>3. PollInv'
    BY <1>1, <2>1, UpdatePoll
  <2> QED BY <2>2, <2>3
<1>2. CASE ReadMiss(h)
  BY <1>2, ReadMissKeeps DEF decisions
<1>3. CASE UNCHANGED <<storeVars, poll>>
  BY <1>3 DEF storeVars, StoreInv, PollInv, StoreType, EntryShape,
       IndexesCoherent, StateOwned, DeniedSettled, ReceivedSettled, ConsumedSettled, DeliveredWasConfirmed,
       DeniedNeverDelivers, PollShape, WaitsFromUndecided, NoMissedWakeup, ReleasedMeansNoWaiter,
       AwaitingIsFresh
<1> QED BY <1>1, <1>2, <1>3 DEF FailSession

\* Steps that change no store, no history and no poll.
LEMMA StutterKeeps ==
  ASSUME IInv, UNCHANGED <<storeVars, poll, released, history>>
  PROVE  StoreInv' /\ PollInv'
BY DEF IInv, history, storeVars, StoreInv, PollInv, StoreType, EntryShape,
       IndexesCoherent, StateOwned, DeniedSettled, ReceivedSettled, ConsumedSettled, DeliveredWasConfirmed,
       DeniedNeverDelivers, PollShape, WaitsFromUndecided, NoMissedWakeup, ReleasedMeansNoWaiter,
       AwaitingIsFresh

\* A store that is left alone keeps its part of the invariant.
LEMMA StoreUnchanged ==
  ASSUME StoreInv, UNCHANGED <<storeVars, history>>
  PROVE  StoreInv'
BY DEF storeVars, history, StoreInv, StoreType, EntryShape, IndexesCoherent, StateOwned,
       DeniedSettled, ReceivedSettled, ConsumedSettled, DeliveredWasConfirmed, DeniedNeverDelivers

-----------------------------------------------------------------------------
(* The invariant. *)

\* Every step of the flow, one action at a time.
THEOREM Inductive == IInv /\ [Next]_vars => IInv'
<1> SUFFICES ASSUME IInv, [Next]_vars PROVE IInv'
  OBVIOUS
<1> USE DEF IInv
<1>1. ASSUME NEW h \in Tokens, NEW s \in Attempts, NEW u \in Codes, CreateSession(h, s, u)
      PROVE  IInv'
  BY <1>1, CreateKeeps
<1>2. ASSUME NEW s \in Attempts, CallbackMiss(s) PROVE IInv'
  <2>1. byState[s] \in Tokens /\ ReadMiss(byState[s]) /\ UNCHANGED <<exchange, released, history>>
    BY <1>2 DEF CallbackMiss, StoreInv, StoreType
  <2> QED BY <2>1, ReadMissKeeps DEF decisions, history, ExchangeInv
<1>3. ASSUME NEW s \in Attempts, ProviderError(s) PROVE IInv'
  <2>1. byState[s] \in Tokens /\ FailSession(byState[s])
    BY <1>3 DEF ProviderError, Found, StoreInv, StoreType
  <2> QED BY <1>3, <2>1, FailKeeps DEF ProviderError, ExchangeInv
<1>4. ASSUME NEW s \in Attempts, DenySession(s) PROVE IInv'
  <2> DEFINE h == byState[s]
             entry == [sessions[h] EXCEPT !.status = "denied", !.staged = None, !.tokens = None]
  <2>1. /\ h \in Tokens
        /\ sessions[h].status \notin Terminal
        /\ UpdateSession(h, entry)
        /\ denied' = denied \cup {s}
        /\ MicrotasksDrained
        /\ UNCHANGED <<exchange, released, owner, confirmed, received, consumed>>
    BY <1>4 DEF DenySession, Found, StoreInv, StoreType
  <2>2. sessions[h] \in Entry /\ sessions[h].state = s
    BY <2>1 DEF StoreInv, StoreType, IndexesCoherent
  <2>3. /\ entry \in Entry /\ entry.status = "denied" /\ entry.state = sessions[h].state
        /\ entry.code = sessions[h].code
    BY <2>2 DEF Entry, Stored, Terminal
  <2> HIDE DEF h, entry
  <2>4. confirmed' \subseteq Attempts
    BY <2>1 DEF StoreInv, StoreType
  <2>5. StoreInv'
    BY <2>1, <2>2, <2>3, <2>4, UpdateStore
  <2>6. PollInv'
    BY <2>1, <2>3, UpdatePoll
  <2> QED BY <2>1, <2>5, <2>6 DEF ExchangeInv
<1>5. ASSUME NEW s \in Attempts, ConfirmSession(s) PROVE IInv'
  <2> DEFINE h == byState[s]
             entry == [sessions[h] EXCEPT !.status = "complete",
                                          !.tokens = sessions[h].staged, !.staged = None]
  <2>1. /\ h \in Tokens
        /\ sessions[h].status = "awaiting_confirmation"
        /\ sessions[h].staged # None
        /\ UpdateSession(h, entry)
        /\ confirmed' = confirmed \cup {sessions[h].staged}
        /\ MicrotasksDrained
        /\ UNCHANGED <<exchange, released, owner, denied, received, consumed>>
    BY <1>5 DEF ConfirmSession, Found, StoreInv, StoreType
  <2>2. sessions[h] \in Entry
    BY <2>1 DEF StoreInv, StoreType
  <2>3. /\ entry \in Entry /\ entry.status = "complete" /\ entry.state = sessions[h].state
        /\ entry.code = sessions[h].code /\ entry.tokens = sessions[h].staged
    BY <2>2 DEF Entry, Stored, Terminal
  <2>4. confirmed' \subseteq Attempts /\ sessions[h].status \notin Terminal
    BY <2>1, <2>2 DEF StoreInv, StoreType, Entry, Terminal
  <2> HIDE DEF h, entry
  <2>5. StoreInv'
    BY <2>1, <2>3, <2>4, UpdateStore
  <2>6. PollInv'
    BY <2>1, <2>3, UpdatePoll
  <2> QED BY <2>1, <2>5, <2>6 DEF ExchangeInv
<1>6. ASSUME NEW c \in Callbacks, NEW s \in Attempts, BeginExchange(c, s) PROVE IInv'
  <2>1. StoreInv' /\ PollInv'
    BY <1>6, StutterKeeps DEF BeginExchange
  <2>2. byState[s] \in Tokens /\ byState[s] # None
    BY <1>6 DEF BeginExchange, Found, StoreInv, StoreType
  <2>3. ExchangeInv'
    BY <1>6, <2>2 DEF BeginExchange, ExchangeInv
  <2> QED BY <2>1, <2>3
<1>7. ASSUME NEW c \in Callbacks, ExchangeSucceeded(c) PROVE IInv'
  <2> DEFINE h == exchange[c].h
             a == exchange[c].att
             entry == [sessions[h] EXCEPT !.status = "awaiting_confirmation",
                                          !.staged = a, !.tokens = None]
  <2>1. h \in Tokens /\ a \in Attempts
    BY <1>7 DEF ExchangeSucceeded, ExchangeInv
  <2>2. ExchangeInv'
    BY <1>7 DEF ExchangeSucceeded, ExchangeInv, NoExchange
  <2>3. CASE sessions[h].status \notin Terminal /\ UpdateSession(h, entry)
    <3>1. MicrotasksDrained /\ UNCHANGED <<released, history>>
      BY <1>7 DEF ExchangeSucceeded
    <3>2. sessions[h] \in Entry
      BY <2>1 DEF StoreInv, StoreType
    <3>3. /\ entry \in Entry /\ entry.status = "awaiting_confirmation"
          /\ entry.state = sessions[h].state /\ entry.code = sessions[h].code
      BY <2>1, <3>2 DEF Entry, Stored
    <3>4. confirmed' \subseteq Attempts
      BY <3>1 DEF history, StoreInv, StoreType
    <3> HIDE DEF h, entry
    <3>5. StoreInv'
      BY <2>1, <2>3, <3>1, <3>3, <3>4, UpdateStore DEF history
    <3>6. PollInv'
      BY <2>1, <2>3, <3>1, <3>3, UpdatePoll
    <3> QED BY <2>2, <3>5, <3>6
  <2>4. CASE ReadMiss(h)
    BY <1>7, <2>1, <2>2, <2>4, ReadMissKeeps DEF ExchangeSucceeded, decisions, history
  <2>5. CASE UNCHANGED <<storeVars, poll>>
    BY <1>7, <2>2, <2>5, StutterKeeps DEF ExchangeSucceeded
  <2> QED BY <1>7, <2>3, <2>4, <2>5 DEF ExchangeSucceeded, StageCompletion
<1>8. ASSUME NEW c \in Callbacks, ExchangeFailed(c) PROVE IInv'
  <2>1. exchange[c].h \in Tokens /\ ExchangeInv'
    BY <1>8 DEF ExchangeFailed, ExchangeInv, NoExchange
  <2> QED BY <1>8, <2>1, FailKeeps DEF ExchangeFailed
<1>9. ASSUME NEW p \in Pollers, NEW h \in Tokens, StartPoll(p, h) PROVE IInv'
  <2>1. UNCHANGED <<exchange, released, history>> /\ h # None
    BY <1>9 DEF StartPoll
  <2>2. CASE ReadMiss(h)
    BY <2>1, <2>2, ReadMissKeeps DEF decisions, history, ExchangeInv
  <2>3. CASE /\ Active(h)
             /\ sessions[h].status \in Terminal
             /\ poll' = [poll EXCEPT ![p] = Resumed(h, sessions[h].status)]
             /\ UNCHANGED storeVars
    <3>1. Resumed(h, sessions[h].status) \in Poll
      BY <2>3 DEF Resumed, Poll, Outcomes, Stored
    <3>2. PollInv'
      BY <2>1, <2>3, <3>1, LeavePoll DEF Resumed, storeVars, Terminal
    <3> QED BY <2>1, <2>3, <3>2, StoreUnchanged DEF ExchangeInv
  <2>4. CASE Active(h) /\ sessions[h].status \notin Terminal /\ WaitForStatusChange(p, h)
    <3>1. PollInv'
      BY <2>1, <2>4, WaitPoll
    <3> QED BY <2>1, <2>4, <3>1, StoreUnchanged DEF ExchangeInv, WaitForStatusChange
  <2> QED BY <1>9, <2>2, <2>3, <2>4 DEF StartPoll
<1>10. ASSUME NEW p \in Pollers, WaiterTimeout(p) PROVE IInv'
  <2> DEFINE h == poll[p].h
  <2>1. /\ UNCHANGED <<exchange, released, history>>
        /\ h \in Tokens /\ h # None
        /\ sessions[h] \in Entry
    BY <1>10 DEF WaiterTimeout, PollInv, PollShape, Poll, StoreInv, StoreType
  <2>2. CASE Drop({h}) /\ poll' = NotifyWaiters(h, "expired", TRUE)
    <3>1. StoreInv'
      BY <2>1, <2>2, DropStore DEF decisions, history, StoreInv, StoreType
    <3>2. PollInv'
      BY <2>1, <2>2, DropPoll DEF Outcomes
    <3> QED BY <2>1, <3>1, <3>2 DEF ExchangeInv
  <2>3. CASE /\ poll' = [poll EXCEPT ![p] =
                   Resumed(h, IF Present(h) THEN AtDeadline(sessions[h].status) ELSE "gone")]
             /\ UNCHANGED storeVars
    <3> DEFINE outcome == IF Present(h) THEN AtDeadline(sessions[h].status) ELSE "gone"
    <3>1. outcome \in Outcomes /\ outcome # "awaiting_confirmation"
      BY <2>1 DEF Entry, Outcomes, Stored, Terminal, AtDeadline, Present
    <3>2. poll' = [poll EXCEPT ![p] = Resumed(h, outcome)] /\ UNCHANGED storeVars
      BY <2>3
    <3> HIDE DEF outcome, h
    <3>3. PollInv'
      <4>1. Resumed(h, outcome) \in Poll
        BY <2>1, <3>1 DEF Resumed, Poll
      <4>2. /\ Resumed(h, outcome).pc = "resumed" /\ Resumed(h, outcome).h = h
            /\ Resumed(h, outcome).seen = outcome
        BY DEF Resumed
      <4> QED BY <2>1, <3>1, <3>2, <4>1, <4>2, LeavePoll DEF storeVars
    <3> QED BY <2>1, <2>3, <3>3, StoreUnchanged DEF ExchangeInv
  <2> QED BY <1>10, <2>2, <2>3 DEF WaiterTimeout
<1>11. ASSUME NEW p \in Pollers, ClientGone(p) \/ AnswerPoll(p) PROVE IInv'
  <2>1. /\ poll' = [poll EXCEPT ![p] = Idle]
        /\ UNCHANGED <<storeVars, exchange, released, history>>
    BY <1>11 DEF ClientGone, AnswerPoll
  <2>2. Idle \in Poll /\ Idle.pc = "idle"
    BY DEF Idle, Poll
  <2>3. PollInv'
    BY <2>1, <2>2, LeavePoll DEF storeVars
  <2> QED BY <2>1, <2>3, StoreUnchanged DEF ExchangeInv
<1>12. ASSUME NEW p \in Pollers, WaitAgain(p) PROVE IInv'
  <2> DEFINE h == poll[p].h
  <2>1. /\ UNCHANGED <<exchange, released, history>>
        /\ h \in Tokens /\ h # None
        /\ sessions[h] \in Entry
        /\ poll[p].seen = "awaiting_confirmation" /\ poll[p].pc = "resumed"
    BY <1>12 DEF WaitAgain, PollInv, PollShape, Poll, StoreInv, StoreType
  <2>2. Resumed(h, "gone") \in Poll
    BY <2>1 DEF Resumed, Poll, Outcomes
  <2>3. CASE Active(h) /\ WaitForStatusChange(p, h)
    <3>1. sessions[h].status \notin Terminal
      BY <2>1 DEF PollInv, AwaitingIsFresh
    <3>2. PollInv'
      BY <2>1, <2>3, <3>1, WaitPoll
    <3> QED BY <2>1, <2>3, <3>2, StoreUnchanged DEF ExchangeInv, WaitForStatusChange
  <2>4. CASE /\ Drop({h})
             /\ poll' = [NotifyWaiters(h, "expired", TRUE) EXCEPT ![p] = Resumed(h, "gone")]
    <3>1. StoreInv'
      BY <2>1, <2>4, DropStore DEF decisions, history, StoreInv, StoreType
    <3>2. PollInv'
      <4>1. "expired" \in Outcomes /\ Resumed(h, "gone").pc = "resumed"
                 /\ Resumed(h, "gone").h = h /\ Resumed(h, "gone").seen = "gone"
        BY DEF Outcomes, Resumed
      <4> HIDE DEF h
      <4> QED BY <2>1, <2>2, <2>4, <4>1, DropAndLeavePoll
    <3> QED BY <2>1, <3>1, <3>2 DEF ExchangeInv
  <2>5. CASE poll' = [poll EXCEPT ![p] = Resumed(h, "gone")] /\ UNCHANGED storeVars
    <3>1. PollInv'
      BY <2>1, <2>2, <2>5, LeavePoll DEF Resumed, storeVars
    <3> QED BY <2>1, <2>5, <3>1, StoreUnchanged DEF ExchangeInv
  <2> QED BY <1>12, <2>3, <2>4, <2>5 DEF WaitAgain
<1>13. ASSUME NEW p \in Pollers, DeliverCompletion(p) PROVE IInv'
  BY <1>13, DeliverKeeps
<1>14. ASSUME NEW h \in Tokens, ConsumeCompletion(h) PROVE IInv'
  <2>1. UNCHANGED <<decisions, exchange, released>>
    BY <1>14 DEF ConsumeCompletion, decisions
  <2>2. CASE /\ Active(h) /\ sessions[h].status = "complete"
             /\ Drop({h}) /\ poll' = NotifyWaiters(h, "consumed", TRUE)
             /\ consumed' = consumed \cup {sessions[h].state}
    <3>1. Present(h)
      BY <2>2 DEF Active
    <3>2. StoreInv'
      BY <2>1, <2>2, <3>1, DropStore
    <3>3. PollInv'
      BY <2>1, <2>2, DropPoll DEF Outcomes
    <3> QED BY <2>1, <3>2, <3>3 DEF ExchangeInv
  <2>3. CASE ReadMiss(h) /\ UNCHANGED consumed
    BY <2>1, <2>3, ReadMissKeeps DEF ExchangeInv
  <2> QED BY <1>14, <2>2, <2>3 DEF ConsumeCompletion
<1>15. ASSUME NEW h \in Tokens, Elapse(h) PROVE IInv'
  <2>1. /\ sessions' = [sessions EXCEPT ![h].lapsed = TRUE]
        /\ UNCHANGED <<byState, byCode, poll, exchange, released, history>>
    BY <1>15 DEF Elapse
  <2>2. sessions' \in [Tokens -> Entry]
    <3>1. sessions \in [Tokens -> Entry]
      BY DEF StoreInv, StoreType
    <3>2. \A g \in Tokens : [sessions[g] EXCEPT !.lapsed = TRUE] \in Entry
      BY <3>1 DEF Entry
    <3> QED BY <2>1, <3>1, <3>2
  <2>3. \A g \in Tokens : /\ sessions'[g].status = sessions[g].status
                          /\ sessions'[g].state = sessions[g].state
                          /\ sessions'[g].code = sessions[g].code
                          /\ sessions'[g].tokens = sessions[g].tokens
    BY <2>1 DEF StoreInv, StoreType, Entry
  <2>4. StoreInv'
    BY <2>1, <2>2, <2>3 DEF history, StoreInv, StoreType, EntryShape, IndexesCoherent,
      StateOwned, DeniedSettled, ReceivedSettled, ConsumedSettled, DeliveredWasConfirmed, DeniedNeverDelivers
  <2>5. PollInv'
    <3> USE DEF PollInv
    <3>1. \A p \in Pollers : poll[p].pc # "idle" => poll[p].h \in Tokens
      BY DEF Poll, PollShape
    <3>2. NoMissedWakeup' /\ AwaitingIsFresh'
      BY <2>1, <2>3, <3>1 DEF NoMissedWakeup, AwaitingIsFresh
    <3> QED BY <2>1, <3>2 DEF PollShape, WaitsFromUndecided, ReleasedMeansNoWaiter
  <2> QED BY <2>1, <2>4, <2>5 DEF ExchangeInv
<1>16. CASE ReleaseWaiters
  BY <1>16, ReleaseKeeps
<1>17. CASE UNCHANGED vars
  BY <1>17, StutterKeeps DEF vars, storeVars, history, ExchangeInv
<1> QED BY <1>1, <1>2, <1>3, <1>4, <1>5, <1>6, <1>7, <1>8, <1>9, <1>10, <1>11, <1>12,
           <1>13, <1>14, <1>15, <1>16, <1>17 DEF Next

\* The invariant is true of the empty store.
LEMMA Initially == Init => IInv
<1> SUFFICES ASSUME Init PROVE IInv
  OBVIOUS
<1>1. /\ sessions = [h \in Tokens |-> Absent] /\ Absent \in Entry
      /\ poll = [p \in Pollers |-> Idle] /\ Idle \in Poll /\ Idle.pc = "idle"
  BY DEF Init, Absent, Entry, Idle, Poll
<1>2. StoreInv
  <2>1. StoreType
    BY <1>1 DEF Init, StoreType
  <2>2. \A h \in Tokens : /\ sessions[h].status = "absent"
                          /\ sessions[h].state = None /\ sessions[h].code = None
    BY <1>1 DEF Absent
  <2>3. EntryShape /\ StateOwned
    BY <2>2 DEF EntryShape, StateOwned
  <2>4. IndexesCoherent
    BY <2>2 DEF Init, IndexesCoherent
  <2>5. DeniedSettled /\ ReceivedSettled /\ ConsumedSettled /\ DeliveredWasConfirmed /\ DeniedNeverDelivers
    BY DEF Init, DeniedSettled, ReceivedSettled, ConsumedSettled, DeliveredWasConfirmed, DeniedNeverDelivers
  <2> QED BY <2>1, <2>3, <2>4, <2>5 DEF StoreInv
<1>3. PollInv
  BY <1>1 DEF Init, PollInv, PollShape, WaitsFromUndecided, NoMissedWakeup,
    ReleasedMeansNoWaiter, AwaitingIsFresh
<1>4. ExchangeInv
  BY DEF Init, ExchangeInv, NoExchange
<1> QED BY <1>2, <1>3, <1>4 DEF IInv

\* IInv is an invariant: the lemma all the safety theorems below rest on.
THEOREM Invariance == Spec => []IInv
BY Initially, Inductive, PTL DEF Spec

\* Every variable keeps its type, for any number of clients and sessions.
THEOREM TypeCorrect == Spec => []TypeOK
<1>1. IInv => TypeOK
  BY DEF IInv, StoreInv, StoreType, PollInv, ExchangeInv, TypeOK
<1> QED BY <1>1, Invariance, PTL

\* The reverse indexes never lead to a session they should not (createSession,
\* the dispose callback).
THEOREM IndexesStayCoherent == Spec => []IndexesCoherent
<1>1. IInv => IndexesCoherent
  BY DEF IInv, StoreInv
<1> QED BY <1>1, Invariance, PTL

\* No waiter sleeps on a settled or forgotten session (#notifyWaiters).
THEOREM WakeupsAreNotLost == Spec => []NoMissedWakeup
<1>1. IInv => NoMissedWakeup
  BY DEF IInv, PollInv
<1> QED BY <1>1, Invariance, PTL

\* Shutdown never waits for a long poll (releaseWaiters).
THEOREM ReleaseIsComplete == Spec => []ReleasedMeansNoWaiter
<1>1. IInv => ReleasedMeansNoWaiter
  BY DEF IInv, PollInv
<1> QED BY <1>1, Invariance, PTL

\* Only confirmed completions reach a client (confirmSession, getCompletion).
THEOREM DeliveryNeedsConfirmation == Spec => []DeliveredWasConfirmed
<1>1. IInv => DeliveredWasConfirmed
  BY DEF IInv, StoreInv
<1> QED BY <1>1, Invariance, PTL

\* A denial is final (denySession against stageCompletion and confirmSession).
THEOREM DenialIsFinal == Spec => []DeniedNeverDelivers
<1>1. IInv => DeniedNeverDelivers
  BY DEF IInv, StoreInv
<1> QED BY <1>1, Invariance, PTL

\* The indexes, the sessions and the waiters agree in every reachable state.
THEOREM StoreStaysCoherent == Spec => []StoreIsCoherent
BY IndexesStayCoherent, WakeupsAreNotLost, ReleaseIsComplete, PTL DEF StoreIsCoherent

\* Every delivery was confirmed, and none was denied.
THEOREM DeliveryStaysSound == Spec => []DeliveryIsSound
BY DeliveryNeedsConfirmation, DenialIsFinal, PTL DEF DeliveryIsSound

\* No step but a drop or a new attempt ends a complete session.
LEMMA StepKeepsCompletion ==
  ASSUME IInv, [Next]_vars, NEW h \in Tokens,
         sessions[h].status = "complete", sessions'[h].state = sessions[h].state
  PROVE  sessions'[h].status = "complete" /\ sessions'[h].tokens = sessions[h].tokens
<1> USE DEF IInv
<1>1. /\ sessions \in [Tokens -> Entry]
      /\ sessions[h].state # None /\ sessions[h].state \in Attempts
      /\ owner[sessions[h].state] = h
      /\ h # None
  BY DEF StoreInv, StoreType, EntryShape, Entry, StateOwned
<1>2. ASSUME NEW gone \in SUBSET Tokens, Drop(gone)
      PROVE  sessions'[h] = sessions[h]
  BY <1>1, <1>2 DEF Drop, Absent
<1>3. ASSUME NEW g \in Tokens, NEW entry, UpdateSession(g, entry), sessions[g].status \notin Terminal
      PROVE  sessions'[h] = sessions[h]
  BY <1>1, <1>3 DEF UpdateSession, Terminal
<1>4. ASSUME NEW g, ReadMiss(g), g \in Tokens
      PROVE  sessions'[h] = sessions[h]
  BY <1>1, <1>2, <1>4 DEF ReadMiss, storeVars
<1>5. ASSUME UNCHANGED storeVars PROVE sessions'[h] = sessions[h]
  BY <1>5 DEF storeVars
<1>6. ASSUME NEW k \in Tokens, NEW s \in Attempts, NEW u \in Codes, CreateSession(k, s, u)
      PROVE  sessions'[h].status = "complete" /\ sessions'[h].tokens = sessions[h].tokens
  <2>1. PICK gone \in Victims(k) :
          sessions' = [g \in Tokens |->
             IF g = k THEN [status |-> "pending", state |-> s, code |-> u,
                            lapsed |-> FALSE, staged |-> None, tokens |-> None]
             ELSE IF g \in gone THEN Absent ELSE sessions[g]]
    BY <1>6 DEF CreateSession
  <2>2. owner[s] = None
    BY <1>6 DEF CreateSession
  <2>3. sessions'[h].state # s
    BY <1>1, <2>2
  <2>4. h # k /\ h \notin gone
    BY <1>1, <2>1, <2>3 DEF Absent
  <2> QED BY <2>1, <2>4
<1>7. ASSUME NEW s \in Attempts,
             CallbackMiss(s) \/ ProviderError(s) \/ DenySession(s) \/ ConfirmSession(s)
      PROVE  sessions'[h] = sessions[h]
  <2>1. CASE CallbackMiss(s)
    BY <1>4, <2>1 DEF CallbackMiss, StoreInv, StoreType
  <2>2. CASE ProviderError(s)
    BY <1>3, <1>4, <1>5, <2>2 DEF ProviderError, FailSession, Found, StoreInv, StoreType
  <2>3. CASE DenySession(s)
    BY <1>3, <2>3 DEF DenySession, Found, StoreInv, StoreType
  <2>4. CASE ConfirmSession(s)
    BY <1>3, <2>4 DEF ConfirmSession, Found, StoreInv, StoreType, Terminal
  <2> QED BY <1>7, <2>1, <2>2, <2>3, <2>4
<1>8. ASSUME NEW c \in Callbacks,
             \/ \E s \in Attempts : BeginExchange(c, s)
             \/ ExchangeSucceeded(c) \/ ExchangeFailed(c)
      PROVE  sessions'[h] = sessions[h]
  <2>1. CASE \E s \in Attempts : BeginExchange(c, s)
    BY <1>5, <2>1 DEF BeginExchange
  <2>2. CASE ExchangeSucceeded(c)
    <3>1. exchange[c].h \in Tokens
      BY <2>2 DEF ExchangeSucceeded, ExchangeInv
    <3> QED BY <1>3, <1>4, <1>5, <2>2, <3>1 DEF ExchangeSucceeded, StageCompletion
  <2>3. CASE ExchangeFailed(c)
    <3>1. exchange[c].h \in Tokens
      BY <2>3 DEF ExchangeFailed, ExchangeInv
    <3> QED BY <1>3, <1>4, <1>5, <2>3, <3>1 DEF ExchangeFailed, FailSession
  <2> QED BY <1>8, <2>1, <2>2, <2>3
<1>9. ASSUME NEW p \in Pollers,
             \/ \E g \in Tokens : StartPoll(p, g)
             \/ WaiterTimeout(p) \/ ClientGone(p) \/ WaitAgain(p)
             \/ AnswerPoll(p) \/ DeliverCompletion(p)
      PROVE  sessions'[h] = sessions[h]
  <2>1. ASSUME NEW g \in Tokens, StartPoll(p, g) PROVE sessions'[h] = sessions[h]
    BY <1>4, <1>5, <2>1 DEF StartPoll, WaitForStatusChange
  <2>2. poll[p].pc # "idle" => poll[p].h \in Tokens
    BY DEF PollInv, PollShape, Poll
  <2>3. CASE WaiterTimeout(p)
    BY <1>2, <1>5, <2>2, <2>3 DEF WaiterTimeout
  <2>4. CASE ClientGone(p) \/ AnswerPoll(p)
    BY <1>5, <2>4 DEF ClientGone, AnswerPoll
  <2>5. CASE WaitAgain(p)
    BY <1>2, <1>5, <2>2, <2>5 DEF WaitAgain, WaitForStatusChange
  <2>6. CASE DeliverCompletion(p)
    BY <1>2, <1>5, <2>2, <2>6 DEF DeliverCompletion
  <2> QED BY <1>9, <2>1, <2>3, <2>4, <2>5, <2>6
<1>10. ASSUME NEW g \in Tokens, ConsumeCompletion(g) PROVE sessions'[h] = sessions[h]
  BY <1>2, <1>4, <1>10 DEF ConsumeCompletion
<1>11. ASSUME NEW g \in Tokens, Elapse(g)
       PROVE  sessions'[h].status = "complete" /\ sessions'[h].tokens = sessions[h].tokens
  BY <1>1, <1>11 DEF Elapse, Entry
<1>12. CASE ReleaseWaiters
  BY <1>2, <1>12 DEF ReleaseWaiters
<1>13. CASE UNCHANGED vars
  BY <1>13 DEF vars
<1> QED BY <1>6, <1>7, <1>8, <1>9, <1>10, <1>11, <1>12, <1>13 DEF Next

\* StableUntilAcked: between its confirmation and its acknowledgement a completed
\* session never changes hands (getCompletion is non-destructive, every setter
\* spares terminal sessions).
THEOREM CompletionIsStable == Spec => StableUntilAcked
<1>1. IInv /\ [Next]_vars =>
        [\A h \in Tokens :
           sessions[h].status = "complete" /\ sessions'[h].state = sessions[h].state
             => sessions'[h].status = "complete" /\ sessions'[h].tokens = sessions[h].tokens]_vars
  BY StepKeepsCompletion
<1> QED BY <1>1, Invariance, PTL DEF Spec, StableUntilAcked

-----------------------------------------------------------------------------
(* The sign-in flow implements its promise, module SignIn. *)

\* The attempt of a stored session is in the phase that the session's status says,
\* and every other attempt is new, acknowledged or gone.
LEMMA StoredPhase ==
  ASSUME StoreInv, NEW h \in Tokens, Present(h)
  PROVE  LET s == sessions[h].state IN
         /\ s \in Attempts /\ owner[s] = h /\ s \notin consumed
         /\ Phases[s] = PhaseOf(sessions[h].status)
         /\ sessions[h].status \in Stored
         /\ \A g \in Tokens : sessions[g].state = s => g = h
<1> DEFINE s == sessions[h].state
<1>1. s \in Attempts /\ owner[s] = h /\ h # None
  BY DEF StoreInv, StoreType, EntryShape, Entry, StateOwned, Present
<1>2. s \notin consumed
  BY DEF StoreInv, ConsumedSettled
<1>3. Phases[s] = PhaseOf(sessions[h].status)
  BY <1>1 DEF Phases
<1>4. sessions[h].status \in Stored
  BY DEF StoreInv, StoreType, Entry, Present
<1>5. \A g \in Tokens : sessions[g].state = s => g = h
  BY <1>1 DEF StoreInv, StateOwned
<1> QED BY <1>1, <1>2, <1>3, <1>4, <1>5

\* What SignIn keeps of a step that neither begins, decides nor settles an attempt.
LEMMA SamePhases ==
  ASSUME UNCHANGED <<owner, consumed, received>>,
         \A h \in Tokens : /\ sessions'[h].state = sessions[h].state
                           /\ sessions'[h].status = sessions[h].status,
         owner \in [Attempts -> Tokens \cup {None}]
  PROVE  UNCHANGED Promise!vars
<1>1. \A s \in Attempts : owner[s] \in Tokens \/ owner[s] = None
  OBVIOUS
<1>2. Phases' = Phases
  BY <1>1 DEF Phases
<1> QED BY <1>2 DEF Promise!vars

\* A drop forgets the attempts that were stored.
LEMMA DropForgets ==
  ASSUME StoreInv, NEW gone \in SUBSET Tokens, Drop(gone), UNCHANGED <<owner, consumed, received>>
  PROVE  Promise!Next
<1> DEFINE lost == {s \in Attempts : \E h \in gone : Present(h) /\ sessions[h].state = s}
<1>1. lost \in SUBSET Promise!Forgettable
  BY StoredPhase DEF Promise!Forgettable, Promise!Undecided, PhaseOf, Stored, Terminal
<1>2. Phases' = [s \in Attempts |-> IF s \in lost THEN "gone" ELSE Phases[s]]
  <2> SUFFICES ASSUME NEW s \in Attempts
               PROVE  Phases'[s] = IF s \in lost THEN "gone" ELSE Phases[s]
    BY DEF Phases
  <2>1. CASE s \in lost
    <3>1. PICK h \in gone : Present(h) /\ sessions[h].state = s
      BY <2>1
    <3>2. owner[s] = h /\ s \notin consumed /\ h # None
      BY <3>1, StoredPhase
    <3>3. sessions'[h] = Absent /\ Absent.state # s
      BY DEF Drop, Absent
    <3> QED BY <2>1, <3>2, <3>3 DEF Phases
  <2>2. CASE s \notin lost
    <3>1. ASSUME owner[s] # None PROVE Phases'[s] = Phases[s]
      <4>1. owner[s] \in Tokens /\ s # None
        BY <3>1 DEF StoreInv, StoreType
      <4>2. CASE sessions[owner[s]].state = s
        <5>1. Present(owner[s])
          BY <4>1, <4>2 DEF StoreInv, EntryShape, Present
        <5>2. owner[s] \notin gone
          BY <2>2, <4>2, <5>1
        <5> QED BY <4>1, <5>2 DEF Drop, Phases
      <4>3. CASE sessions[owner[s]].state # s
        <5>1. sessions'[owner[s]].state # s
          BY <4>1, <4>3 DEF Drop, Absent
        <5> QED BY <4>1, <4>3, <5>1 DEF Phases
      <4> QED BY <4>2, <4>3
    <3>2. CASE owner[s] = None
      BY <2>2, <3>2 DEF Phases
    <3> QED BY <2>2, <3>1, <3>2
  <2> QED BY <2>1, <2>2
<1>3. Promise!Forget(lost)
  BY <1>2 DEF Promise!Forget
<1> QED BY <1>1, <1>3 DEF Promise!Next

\* A write to a stored session moves its attempt, and no other.
LEMMA UpdateMoves ==
  ASSUME StoreInv, NEW h \in Tokens, NEW entry, UpdateSession(h, entry),
         entry.state = sessions[h].state, UNCHANGED <<owner, consumed, received>>
  PROVE  /\ Phases' = [Phases EXCEPT ![sessions[h].state] = PhaseOf(entry.status)]
         /\ sessions[h].state \in Attempts
         /\ Phases[sessions[h].state] = PhaseOf(sessions[h].status)
<1> DEFINE s == sessions[h].state
<1>1. s \in Attempts /\ owner[s] = h /\ h # None /\ Phases[s] = PhaseOf(sessions[h].status)
  BY StoredPhase DEF UpdateSession, Active
<1>2. sessions' = [sessions EXCEPT ![h] = entry] /\ sessions \in [Tokens -> Entry]
  BY DEF UpdateSession, StoreInv, StoreType
<1>3. Phases'[s] = PhaseOf(entry.status)
  BY <1>1, <1>2 DEF Phases
<1>4. ASSUME NEW r \in Attempts \ {s} PROVE Phases'[r] = Phases[r]
  <2>1. CASE owner[r] = h
    BY <1>1, <1>2, <2>1 DEF Phases
  <2>2. CASE owner[r] \in Tokens \ {h}
    BY <1>2, <2>2 DEF Phases
  <2>3. CASE owner[r] = None
    BY <2>3 DEF Phases
  <2> QED BY <2>1, <2>2, <2>3 DEF StoreInv, StoreType
<1>5. Phases' = [Phases EXCEPT ![s] = PhaseOf(entry.status)]
  <2>1. Phases = [r \in Attempts |-> Phases[r]] /\ Phases' = [r \in Attempts |-> Phases'[r]]
    BY DEF Phases
  <2> HIDE DEF s
  <2> QED BY <1>1, <1>3, <1>4, <2>1
<1> QED BY <1>1, <1>5

\* The reads that find nothing active, and the failures, drop or settle an attempt.
LEMMA MissForgets ==
  ASSUME StoreInv, NEW h \in Tokens, ReadMiss(h), UNCHANGED <<owner, consumed, received>>
  PROVE  [Promise!Next]_(Promise!vars)
<1>1. CASE Present(h)
  BY <1>1, DropForgets DEF ReadMiss
<1>2. CASE ~Present(h)
  BY <1>2, SamePhases DEF ReadMiss, storeVars, StoreInv, StoreType
<1> QED BY <1>1, <1>2

\* Nothing in the store has changed.
LEMMA StoreStutters ==
  ASSUME StoreInv, UNCHANGED storeVars, UNCHANGED <<owner, consumed, received>>
  PROVE  [Promise!Next]_(Promise!vars)
BY SamePhases DEF storeVars, StoreInv, StoreType

LEMMA FailMoves ==
  ASSUME StoreInv, NEW h \in Tokens, FailSession(h), UNCHANGED <<owner, consumed, received>>
  PROVE  [Promise!Next]_(Promise!vars)
<1> DEFINE entry == [sessions[h] EXCEPT !.status = "error", !.staged = None, !.tokens = None]
<1>1. CASE sessions[h].status \notin Terminal /\ UpdateSession(h, entry)
  <2>1. sessions[h] \in Entry /\ sessions[h].status # "absent"
    BY <1>1 DEF UpdateSession, Active, Present, StoreInv, StoreType
  <2>2. /\ entry.state = sessions[h].state /\ entry.status = "error"
        /\ sessions[h].status \in {"pending", "awaiting_confirmation"}
    BY <1>1, <2>1 DEF Entry, Stored, Terminal
  <2> HIDE DEF entry
  <2>3. Promise!Move(sessions[h].state, Promise!Undecided, "failed")
    BY <1>1, <2>2, UpdateMoves DEF Promise!Move, Promise!Undecided, PhaseOf
  <2> QED BY <1>1, <2>2, <2>3, UpdateMoves DEF Promise!Next
<1>2. CASE ReadMiss(h)
  BY <1>2, MissForgets
<1>3. CASE UNCHANGED <<storeVars, poll>>
  BY <1>3, StoreStutters
<1> QED BY <1>1, <1>2, <1>3 DEF FailSession

\* A new attempt begins; the one that it replaces and the one that it evicts are
\* forgotten.
LEMMA CreateBegins ==
  ASSUME StoreInv, NEW h \in Tokens, NEW s \in Attempts, NEW u \in Codes, CreateSession(h, s, u)
  PROVE  Promise!Next
<1>1. PICK gone \in Victims(h) :
        sessions' = [g \in Tokens |->
             IF g = h THEN [status |-> "pending", state |-> s, code |-> u,
                            lapsed |-> FALSE, staged |-> None, tokens |-> None]
             ELSE IF g \in gone THEN Absent ELSE sessions[g]]
  BY DEF CreateSession
<1>2. /\ gone \subseteq Tokens /\ owner[s] = None /\ s # None /\ h # None
      /\ owner' = [owner EXCEPT ![s] = h] /\ owner \in [Attempts -> Tokens \cup {None}]
      /\ UNCHANGED <<received, consumed>>
  BY DEF CreateSession, Victims, StoreInv, StoreType
<1> DEFINE lost == {r \in Attempts : \E g \in gone \cup {h} : Present(g) /\ sessions[g].state = r}
<1>3. lost \in SUBSET Promise!Forgettable
  BY <1>2, StoredPhase DEF Promise!Forgettable, Promise!Undecided, PhaseOf, Stored, Terminal
<1>4. Phases[s] = "new" /\ Phases'[s] = "open"
  BY <1>1, <1>2 DEF Phases, PhaseOf
<1>5. ASSUME NEW r \in Attempts \ {s}
      PROVE  Phases'[r] = IF r \in lost THEN "gone" ELSE Phases[r]
  <2>1. r # None /\ owner'[r] = owner[r]
    BY <1>2
  <2>2. CASE r \in lost
    <3>1. PICK g \in gone \cup {h} : Present(g) /\ sessions[g].state = r
      BY <2>2
    <3>2. owner[r] = g /\ r \notin consumed /\ g # None /\ g \in Tokens
      BY <1>2, <3>1, StoredPhase
    <3>3. sessions'[g].state # r
      BY <1>1, <2>1, <3>2 DEF Absent
    <3> QED BY <1>2, <2>1, <2>2, <3>2, <3>3 DEF Phases
  <2>3. CASE r \notin lost /\ owner[r] = None
    BY <2>1, <2>3 DEF Phases
  <2>4. CASE r \notin lost /\ owner[r] # None /\ sessions[owner[r]].state = r
    <3>1. owner[r] \in Tokens /\ Present(owner[r])
      BY <1>2, <2>1, <2>4 DEF StoreInv, EntryShape, Present
    <3>2. sessions'[owner[r]] = sessions[owner[r]]
      BY <1>1, <2>4, <3>1
    <3> QED BY <2>1, <2>4, <3>2 DEF Phases
  <2>5. CASE r \notin lost /\ owner[r] # None /\ sessions[owner[r]].state # r
    <3>1. sessions'[owner[r]].state # r
      BY <1>1, <1>2, <2>1, <2>5 DEF Absent
    <3> QED BY <1>2, <2>1, <2>5, <3>1 DEF Phases
  <2> QED BY <2>2, <2>3, <2>4, <2>5
<1>6. Phases' = [r \in Attempts |-> IF r = s THEN "open" ELSE IF r \in lost THEN "gone" ELSE Phases[r]]
  <2>1. Phases' = [r \in Attempts |-> Phases'[r]]
    BY DEF Phases
  <2> HIDE DEF lost
  <2> QED BY <1>4, <1>5, <2>1
<1>7. Promise!Begin(s, lost)
  BY <1>2, <1>4, <1>6 DEF Promise!Begin
<1> QED BY <1>3, <1>7 DEF Promise!Next

\* Every step of the store and of its routes is a step of SignIn, or changes nothing
\* that SignIn speaks of.
LEMMA StepIsPromised ==
  ASSUME IInv, [Next]_vars
  PROVE  [Promise!Next]_(Promise!vars)
<1> USE DEF IInv
<1>0. \A p \in Pollers : poll[p].pc # "idle" => poll[p].h \in Tokens
  BY DEF PollInv, PollShape, Poll
<1>1. ASSUME NEW h \in Tokens, NEW s \in Attempts, NEW u \in Codes, CreateSession(h, s, u)
      PROVE  [Promise!Next]_(Promise!vars)
  BY <1>1, CreateBegins
<1>2. ASSUME NEW s \in Attempts, CallbackMiss(s) PROVE [Promise!Next]_(Promise!vars)
  <2>1. byState[s] \in Tokens
    BY <1>2 DEF CallbackMiss, StoreInv, StoreType
  <2> QED BY <1>2, <2>1, MissForgets DEF CallbackMiss, history
<1>3. ASSUME NEW s \in Attempts, ProviderError(s) PROVE [Promise!Next]_(Promise!vars)
  <2>1. byState[s] \in Tokens
    BY <1>3 DEF ProviderError, Found, StoreInv, StoreType
  <2> QED BY <1>3, <2>1, FailMoves DEF ProviderError, history
<1>4. ASSUME NEW s \in Attempts, DenySession(s) PROVE [Promise!Next]_(Promise!vars)
  <2> DEFINE h == byState[s]
             entry == [sessions[h] EXCEPT !.status = "denied", !.staged = None, !.tokens = None]
  <2>1. /\ h \in Tokens /\ UpdateSession(h, entry) /\ sessions[h].status \notin Terminal
        /\ UNCHANGED <<owner, consumed, received>> /\ sessions[h].status # "absent"
    BY <1>4 DEF DenySession, Found, Active, Present, StoreInv, StoreType
  <2>2. /\ entry.state = sessions[h].state /\ entry.status = "denied"
        /\ sessions[h].status \in {"pending", "awaiting_confirmation"}
    BY <2>1 DEF StoreInv, StoreType, Entry, Stored, Terminal
  <2> HIDE DEF entry, h
  <2>3. Promise!Move(sessions[h].state, Promise!Undecided, "refused")
    BY <2>1, <2>2, UpdateMoves DEF Promise!Move, Promise!Undecided, PhaseOf
  <2> QED BY <2>1, <2>2, <2>3, UpdateMoves DEF Promise!Next
<1>5. ASSUME NEW s \in Attempts, ConfirmSession(s) PROVE [Promise!Next]_(Promise!vars)
  <2> DEFINE h == byState[s]
             entry == [sessions[h] EXCEPT !.status = "complete",
                                          !.tokens = sessions[h].staged, !.staged = None]
  <2>1. /\ h \in Tokens /\ UpdateSession(h, entry)
        /\ sessions[h].status = "awaiting_confirmation"
        /\ UNCHANGED <<owner, consumed, received>>
    BY <1>5 DEF ConfirmSession, Found, StoreInv, StoreType
  <2>2. entry.state = sessions[h].state /\ entry.status = "complete"
    BY <2>1 DEF StoreInv, StoreType, Entry
  <2> HIDE DEF entry, h
  <2>3. Promise!Move(sessions[h].state, {"asked"}, "granted")
    BY <2>1, <2>2, UpdateMoves DEF Promise!Move, PhaseOf
  <2> QED BY <2>1, <2>2, <2>3, UpdateMoves DEF Promise!Next
<1>6. ASSUME NEW c \in Callbacks, NEW s \in Attempts, BeginExchange(c, s)
      PROVE  [Promise!Next]_(Promise!vars)
  BY <1>6, StoreStutters DEF BeginExchange, history
<1>7. ASSUME NEW c \in Callbacks, ExchangeSucceeded(c) PROVE [Promise!Next]_(Promise!vars)
  <2> DEFINE h == exchange[c].h
             entry == [sessions[h] EXCEPT !.status = "awaiting_confirmation",
                                          !.staged = exchange[c].att, !.tokens = None]
  <2>1. h \in Tokens /\ UNCHANGED <<owner, consumed, received>>
    BY <1>7 DEF ExchangeSucceeded, ExchangeInv, history
  <2>2. CASE sessions[h].status \notin Terminal /\ UpdateSession(h, entry)
    <3>1. sessions[h] \in Entry /\ sessions[h].status # "absent"
      BY <2>1, <2>2 DEF UpdateSession, Active, Present, StoreInv, StoreType
    <3>2. /\ entry.state = sessions[h].state /\ entry.status = "awaiting_confirmation"
          /\ sessions[h].status \in {"pending", "awaiting_confirmation"}
      BY <2>2, <3>1 DEF Entry, Stored, Terminal
    <3> HIDE DEF entry, h
    <3>3. CASE sessions[h].status = "pending"
      <4>1. Promise!Move(sessions[h].state, {"open"}, "asked")
        BY <2>1, <2>2, <3>2, <3>3, UpdateMoves DEF Promise!Move, PhaseOf
      <4> QED BY <2>1, <2>2, <3>2, <4>1, UpdateMoves DEF Promise!Next
    <3>4. CASE sessions[h].status = "awaiting_confirmation"
      <4>1. Phases' = Phases
        <5>1. Phases = [r \in Attempts |-> Phases[r]]
          BY DEF Phases
        <5> QED BY <2>1, <2>2, <3>2, <3>4, <5>1, UpdateMoves
      <4> QED BY <2>1, <4>1 DEF Promise!vars
    <3> QED BY <3>2, <3>3, <3>4
  <2>3. CASE ReadMiss(h)
    BY <2>1, <2>3, MissForgets
  <2>4. CASE UNCHANGED <<storeVars, poll>>
    BY <2>1, <2>4, StoreStutters
  <2> QED BY <1>7, <2>2, <2>3, <2>4 DEF ExchangeSucceeded, StageCompletion
<1>8. ASSUME NEW c \in Callbacks, ExchangeFailed(c) PROVE [Promise!Next]_(Promise!vars)
  <2>1. exchange[c].h \in Tokens
    BY <1>8 DEF ExchangeFailed, ExchangeInv
  <2> QED BY <1>8, <2>1, FailMoves DEF ExchangeFailed, history
<1>9. ASSUME NEW p \in Pollers, NEW h \in Tokens, StartPoll(p, h)
      PROVE  [Promise!Next]_(Promise!vars)
  BY <1>9, MissForgets, StoreStutters DEF StartPoll, WaitForStatusChange, history
<1>10. ASSUME NEW p \in Pollers,
              WaiterTimeout(p) \/ ClientGone(p) \/ WaitAgain(p) \/ AnswerPoll(p)
       PROVE  [Promise!Next]_(Promise!vars)
  <2>1. UNCHANGED <<owner, consumed, received>>
    BY <1>10 DEF WaiterTimeout, ClientGone, WaitAgain, AnswerPoll, history
  <2>2. CASE Drop({poll[p].h}) /\ poll[p].h \in Tokens
    BY <2>1, <2>2, DropForgets
  <2>3. CASE UNCHANGED storeVars
    BY <2>1, <2>3, StoreStutters
  <2> QED BY <1>0, <1>10, <2>2, <2>3
       DEF WaiterTimeout, ClientGone, WaitAgain, AnswerPoll, WaitForStatusChange
<1>11. ASSUME NEW p \in Pollers, DeliverCompletion(p) PROVE [Promise!Next]_(Promise!vars)
  <2> DEFINE h == poll[p].h
  <2>1. h \in Tokens /\ UNCHANGED <<owner, consumed>>
    BY <1>0, <1>11 DEF DeliverCompletion
  <2>2. CASE /\ Active(h) /\ sessions[h].status = "complete" /\ UNCHANGED storeVars
             /\ received' = received \cup {[session |-> sessions[h].state, tokens |-> sessions[h].tokens]}
    <3> DEFINE s == sessions[h].state
    <3>1. s \in Attempts /\ Phases[s] = "granted"
      BY <2>1, <2>2, StoredPhase DEF Active, PhaseOf
    <3>2. {r.session : r \in received'} = {r.session : r \in received} \cup {s}
      <4> DEFINE new == [session |-> s, tokens |-> sessions[h].tokens]
      <4>1. received' = received \cup {new} /\ new.session = s
        BY <2>2
      <4> HIDE DEF new
      <4> QED BY <4>1
    <3>3. Phases' = Phases
      BY <2>1, <2>2 DEF Phases, storeVars
    <3> HIDE DEF s
    <3>4. \E a \in Attempts : Promise!Deliver(a)
      BY <3>1, <3>2, <3>3 DEF Promise!Deliver
    <3> QED BY <3>4 DEF Promise!Next
  <2>3. CASE Drop({h}) /\ UNCHANGED received
    BY <2>1, <2>3, DropForgets
  <2>4. CASE UNCHANGED storeVars /\ UNCHANGED received
    BY <2>1, <2>4, StoreStutters
  <2> QED BY <1>11, <2>2, <2>3, <2>4 DEF DeliverCompletion
<1>12. ASSUME NEW h \in Tokens, ConsumeCompletion(h) PROVE [Promise!Next]_(Promise!vars)
  <2>1. UNCHANGED <<owner, received>>
    BY <1>12 DEF ConsumeCompletion
  <2>2. CASE /\ Active(h) /\ sessions[h].status = "complete" /\ Drop({h})
             /\ consumed' = consumed \cup {sessions[h].state}
    <3> DEFINE s == sessions[h].state
    <3>1. s \in Attempts /\ Phases[s] = "granted" /\ owner[s] = h /\ h # None /\ s # None
      BY <2>2, StoredPhase DEF Active, PhaseOf
    <3>2. /\ \A g \in Tokens \ {h} : sessions'[g] = sessions[g]
          /\ sessions'[h].state = None
      BY <2>2 DEF Drop, Absent
    <3>3. Phases'[s] = "acknowledged"
      BY <2>1, <2>2, <3>1, <3>2 DEF Phases
    <3>4. ASSUME NEW r \in Attempts \ {s} PROVE Phases'[r] = Phases[r]
      <4>1. r # None /\ (owner[r] = None \/ owner[r] \in Tokens)
        BY DEF StoreInv, StoreType
      <4>2. CASE owner[r] = h
        BY <2>1, <2>2, <3>1, <3>2, <4>1, <4>2 DEF Phases
      <4>3. CASE owner[r] # h
        BY <2>1, <2>2, <3>2, <4>1, <4>3 DEF Phases
      <4> QED BY <4>2, <4>3
    <3>5. Phases' = [Phases EXCEPT ![s] = "acknowledged"]
      <4>1. Phases = [r \in Attempts |-> Phases[r]] /\ Phases' = [r \in Attempts |-> Phases'[r]]
        BY DEF Phases
      <4> HIDE DEF s
      <4> QED BY <3>1, <3>3, <3>4, <4>1
    <3>6. Promise!Move(s, {"granted"}, "acknowledged")
      BY <2>1, <3>1, <3>5 DEF Promise!Move
    <3> QED BY <3>1, <3>6 DEF Promise!Next
  <2>3. CASE ReadMiss(h) /\ UNCHANGED consumed
    BY <2>1, <2>3, MissForgets
  <2> QED BY <1>12, <2>2, <2>3 DEF ConsumeCompletion
<1>13. ASSUME NEW h \in Tokens, Elapse(h) PROVE [Promise!Next]_(Promise!vars)
  <2>1. \A g \in Tokens : /\ sessions'[g].state = sessions[g].state
                          /\ sessions'[g].status = sessions[g].status
    BY <1>13 DEF Elapse, StoreInv, StoreType, Entry
  <2> QED BY <1>13, <2>1, SamePhases DEF Elapse, history, StoreInv, StoreType
<1>14. CASE ReleaseWaiters
  BY <1>14, DropForgets DEF ReleaseWaiters, history
<1>15. CASE UNCHANGED vars
  BY <1>15, StoreStutters DEF vars, storeVars
<1> QED BY <1>1, <1>2, <1>3, <1>4, <1>5, <1>6, <1>7, <1>8, <1>9, <1>10, <1>11, <1>12,
           <1>13, <1>14, <1>15 DEF Next

\* ImplementsSignIn: seen attempt by attempt, whatever the callbacks, the requests and
\* the clock do to each other, tokens leave only after a grant, a refusal or a failure
\* is final, and what is acknowledged is never delivered again (PendingAuthStore).
THEOREM SignInIsImplemented == Spec => ImplementsSignIn
<1>1. Init => Promise!Init
  <2> SUFFICES ASSUME Init PROVE Promise!Init
    OBVIOUS
  <2>1. Phases = [s \in Attempts |-> "new"]
    BY DEF Init, Phases
  <2> QED BY <2>1 DEF Init, Promise!Init
<1>2. IInv /\ [Next]_vars => [Promise!Next]_(Promise!vars)
  BY StepIsPromised
<1> QED BY <1>1, <1>2, Invariance, PTL DEF Spec, ImplementsSignIn, Promise!Spec
=============================================================================
