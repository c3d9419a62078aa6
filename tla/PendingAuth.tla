---------------------------- MODULE PendingAuth ----------------------------
(***************************************************************************)
(* The anti-phishing sign-in flow: PendingAuthStore                        *)
(* (src/services/pending-auth-store.ts) with the routes that drive it,     *)
(* POST /auth/{provider}/init, GET and POST /auth/{provider}/callback,     *)
(* GET /auth/session/status and POST /auth/session/status/ack.             *)
(*                                                                         *)
(* A session token (its SHA-256 digest in the code) is a member of Tokens; *)
(* an attempt is one createSession call, named by the random OAuth state   *)
(* it drew.  Completion data is named by the attempt whose provider        *)
(* exchange produced it.                                                   *)
(*                                                                         *)
(* Abstractions.  The TTL is the flag "lapsed", which Elapse may raise at  *)
(* any moment: expiresAt <= now is monotone and the code only ever tests   *)
(* it.  The LRU victim may be any other entry, since every read refreshes  *)
(* recency.  A callback whose provider differs from the session's is       *)
(* answered like an unknown state and changes nothing, so attempts carry   *)
(* no provider.                                                            *)
(*                                                                         *)
(* Atomicity.  Node runs one macrotask at a time and drains the microtask  *)
(* queue before the next one.  A long poll woken by the store is "resumed" *)
(* (its continuation is queued) and every other action waits until the     *)
(* queue is empty: that is MicrotasksDrained.                              *)
(*                                                                         *)
(* An operator named Slip_X is X with one plausible mistake; it is used    *)
(* only to see that a property notices the mistake.                        *)
(***************************************************************************)
EXTENDS FiniteSets, Naturals

CONSTANTS
  Tokens,       \* session tokens held by clients
  Attempts,     \* OAuth states; bounds the number of createSession calls
  Codes,        \* user codes the generator may return
  Pollers,      \* status requests that can be open at once
  Callbacks,    \* provider callbacks that can be exchanging at once
  MaxSessions,  \* the LRU capacity
  None          \* absence of a token, an attempt or a code

ASSUME PendingAuthAssumption ==
  /\ None \notin Tokens \cup Attempts \cup Codes
  /\ MaxSessions \in Nat \ {0}

VARIABLES
  sessions,   \* #sessions: the entry of each token
  byState,    \* #tokenHashesByState
  byCode,     \* #tokenHashesByUserCode
  poll,       \* the status requests, and through them #waitersByTokenHash
  exchange,   \* callbacks awaiting AuthService.authenticateOAuth
  released,   \* #released
  owner,      \* history: the token each attempt was created for
  confirmed,  \* history: completions promoted by a confirm
  denied,     \* history: attempts whose session became denied
  received,   \* history: completions that reached a client
  consumed    \* history: attempts whose session was acknowledged

storeVars == <<sessions, byState, byCode>>
history == <<owner, confirmed, denied, received, consumed>>
vars == <<sessions, byState, byCode, poll, exchange, released,
          owner, confirmed, denied, received, consumed>>

Terminal == {"complete", "denied", "error"}
Stored == {"pending", "awaiting_confirmation"} \cup Terminal

Entry == [status : Stored \cup {"absent"}, state : Attempts \cup {None},
          code : Codes \cup {None}, lapsed : BOOLEAN,
          staged : Attempts \cup {None}, tokens : Attempts \cup {None}]
Absent == [status |-> "absent", state |-> None, code |-> None,
           lapsed |-> FALSE, staged |-> None, tokens |-> None]

\* What a poll's continuation is handed: a status, or "gone" for null.
Outcomes == Stored \cup {"consumed", "expired", "shutdown", "gone"}
Poll == [pc : {"idle", "waiting", "resumed"}, h : Tokens \cup {None},
         from : Stored \cup {"none"}, seen : Outcomes \cup {"none"}]
Idle == [pc |-> "idle", h |-> None, from |-> "none", seen |-> "none"]
Resumed(h, outcome) ==
  [pc |-> "resumed", h |-> h, from |-> "none", seen |-> outcome]

TypeOK ==
  /\ sessions \in [Tokens -> Entry]
  /\ byState \in [Attempts -> Tokens \cup {None}]
  /\ byCode \in [Codes -> Tokens \cup {None}]
  /\ poll \in [Pollers -> Poll]
  /\ exchange \in [Callbacks -> [h : Tokens \cup {None}, att : Attempts \cup {None}]]
  /\ released \in BOOLEAN
  /\ owner \in [Attempts -> Tokens \cup {None}]
  /\ confirmed \subseteq Attempts
  /\ denied \subseteq Attempts
  /\ received \subseteq [session : Attempts, tokens : Attempts]
  /\ consumed \subseteq Attempts

NoExchange == [h |-> None, att |-> None]

Init ==
  /\ sessions = [h \in Tokens |-> Absent]
  /\ byState = [s \in Attempts |-> None]
  /\ byCode = [u \in Codes |-> None]
  /\ poll = [p \in Pollers |-> Idle]
  /\ exchange = [c \in Callbacks |-> NoExchange]
  /\ released = FALSE
  /\ owner = [s \in Attempts |-> None]
  /\ confirmed = {}
  /\ denied = {}
  /\ received = {}
  /\ consumed = {}

-----------------------------------------------------------------------------
(* The store. *)

Present(h) == sessions[h].status # "absent"
\* #getActiveEntry returns an entry.
Active(h) == Present(h) /\ ~sessions[h].lapsed
MicrotasksDrained == \A p \in Pollers : poll[p].pc # "resumed"

WaitersOf(h) == {p \in Pollers : poll[p].pc = "waiting" /\ poll[p].h = h}

\* #notifyWaiters: waiters whose initial status equals the new one sleep on,
\* unless the caller includes them or the session is gone.
NotifyWaiters(h, outcome, includeSame) ==
  [p \in Pollers |->
     IF p \in WaitersOf(h) /\ (includeSame \/ poll[p].from # outcome)
     THEN Resumed(h, outcome) ELSE poll[p]]

\* The LRU dispose callback on the indexes, for a set of dropped tokens.
StatesWithout(gone) ==
  [s \in Attempts |-> IF \E h \in gone : sessions[h].state = s THEN None ELSE byState[s]]
CodesWithout(gone) ==
  [u \in Codes |-> IF \E h \in gone : sessions[h].code = u THEN None ELSE byCode[u]]
Drop(gone) ==
  /\ sessions' = [h \in Tokens |-> IF h \in gone THEN Absent ELSE sessions[h]]
  /\ byState' = StatesWithout(gone)
  /\ byCode' = CodesWithout(gone)

\* A read through #getActiveEntry that finds no active entry: a lapsed one is
\* expired on the way (#expireSession), a missing one changes nothing.
ReadMiss(h) ==
  /\ ~Active(h)
  /\ IF Present(h)
     THEN Drop({h}) /\ poll' = NotifyWaiters(h, "expired", TRUE)
     ELSE UNCHANGED <<storeVars, poll>>

\* Slip: the waiters are notified before the new status is stored.
Slip_UpdateSession(h, entry) ==
  /\ Active(h)
  /\ sessions' = [sessions EXCEPT ![h] = entry]
  /\ poll' = NotifyWaiters(h, sessions[h].status, FALSE)
  /\ UNCHANGED <<byState, byCode>>

\* #updateSession on an active entry.
UpdateSession(h, entry) ==
  /\ Active(h)
  /\ sessions' = [sessions EXCEPT ![h] = entry]
  /\ poll' = NotifyWaiters(h, entry.status, FALSE)
  /\ UNCHANGED <<byState, byCode>>

-----------------------------------------------------------------------------
(* POST /auth/{provider}/init *)

\* What the LRU may evict for token h: one other entry when h is a new key of a
\* full store, nothing otherwise.
Victims(h) ==
  IF ~Present(h) /\ Cardinality({g \in Tokens : Present(g)}) >= MaxSessions
  THEN {{g} : g \in {x \in Tokens : Present(x)}} ELSE {{}}

\* createSession: a fresh state and an unused user code replace whatever the
\* token held.  A new key beyond the capacity evicts another entry, whose
\* waiters are told it is gone; waiters on a replaced entry stay attached.
CreateSession(h, s, u) ==
  /\ MicrotasksDrained
  /\ owner[s] = None
  /\ byCode[u] = None
  /\ \E gone \in Victims(h) :
       /\ sessions' = [g \in Tokens |->
            IF g = h THEN [status |-> "pending", state |-> s, code |-> u,
                           lapsed |-> FALSE, staged |-> None, tokens |-> None]
            ELSE IF g \in gone THEN Absent ELSE sessions[g]]
       /\ byState' = [StatesWithout(gone \cup {h}) EXCEPT ![s] = h]
       /\ byCode' = [CodesWithout(gone \cup {h}) EXCEPT ![u] = h]
       /\ poll' = [p \in Pollers |->
            IF \E g \in gone : p \in WaitersOf(g)
            THEN Resumed(poll[p].h, "gone") ELSE poll[p]]
  /\ owner' = [owner EXCEPT ![s] = h]
  /\ UNCHANGED <<exchange, released, confirmed, denied, received, consumed>>

-----------------------------------------------------------------------------
(* GET /auth/{provider}/callback, handleProviderCallbackRedirect *)

\* getSessionByState finds the attempt's session.
Found(s) == byState[s] # None /\ Active(byState[s])

\* The redirect or the form finds no session for its state.
CallbackMiss(s) ==
  /\ MicrotasksDrained
  /\ byState[s] # None
  /\ ReadMiss(byState[s])
  /\ UNCHANGED <<exchange, released, history>>

\* A redirect with a code, on a pending session: the handler suspends in
\* authenticateOAuth holding only the session it has read.
BeginExchange(c, s) ==
  /\ MicrotasksDrained
  /\ exchange[c] = NoExchange
  /\ Found(s)
  /\ sessions[byState[s]].status = "pending"
  /\ exchange' = [exchange EXCEPT ![c] = [h |-> byState[s], att |-> s]]
  /\ UNCHANGED <<storeVars, poll, released, history>>

\* Slip: a denied session is not treated as settled.
Slip_StageAfterDenial(h, completion) ==
  /\ sessions[h].status \notin {"complete", "error"}
  /\ UpdateSession(h, [sessions[h] EXCEPT !.status = "awaiting_confirmation",
                                          !.staged = completion, !.tokens = None])

\* stageCompletion, keyed by token: it accepts any non-terminal session.
StageCompletion(h, completion) ==
  /\ sessions[h].status \notin Terminal
  /\ UpdateSession(h, [sessions[h] EXCEPT !.status = "awaiting_confirmation",
                                          !.staged = completion, !.tokens = None])

ExchangeSucceeded(c) ==
  LET h == exchange[c].h IN
  /\ MicrotasksDrained
  /\ exchange[c] # NoExchange
  /\ exchange' = [exchange EXCEPT ![c] = NoExchange]
  /\ \/ StageCompletion(h, exchange[c].att)
     \/ ReadMiss(h)
     \/ Active(h) /\ sessions[h].status \in Terminal /\ UNCHANGED <<storeVars, poll>>
  /\ UNCHANGED <<released, history>>

\* Slip: a late failure overwrites a settled session.
Slip_FailSession(h) ==
  \/ UpdateSession(h, [sessions[h] EXCEPT !.status = "error", !.staged = None, !.tokens = None])
  \/ ReadMiss(h)

\* failSession: never overwrites a terminal state.
FailSession(h) ==
  \/ /\ sessions[h].status \notin Terminal
     /\ UpdateSession(h, [sessions[h] EXCEPT !.status = "error",
                                             !.staged = None, !.tokens = None])
  \/ ReadMiss(h)
  \/ Active(h) /\ sessions[h].status \in Terminal /\ UNCHANGED <<storeVars, poll>>

ExchangeFailed(c) ==
  /\ MicrotasksDrained
  /\ exchange[c] # NoExchange
  /\ exchange' = [exchange EXCEPT ![c] = NoExchange]
  /\ FailSession(exchange[c].h)
  /\ UNCHANGED <<released, history>>

\* A redirect with an error other than access_denied; a completed session is
\* only told it has already been confirmed.
ProviderError(s) ==
  /\ MicrotasksDrained
  /\ Found(s)
  /\ sessions[byState[s]].status # "complete"
  /\ FailSession(byState[s])
  /\ UNCHANGED <<exchange, released, history>>

\* Slip: a denial overwrites a confirmed session.
Slip_DenySession(s) ==
  /\ MicrotasksDrained
  /\ Found(s)
  /\ UpdateSession(byState[s], [sessions[byState[s]] EXCEPT
                                  !.status = "denied", !.staged = None, !.tokens = None])
  /\ denied' = denied \cup {s}
  /\ UNCHANGED <<exchange, released, owner, confirmed, received, consumed>>

\* denySession, by the form's deny button or by a redirect carrying
\* error=access_denied.
DenySession(s) ==
  LET h == byState[s] IN
  /\ MicrotasksDrained
  /\ Found(s)
  /\ sessions[h].status \notin Terminal
  /\ UpdateSession(h, [sessions[h] EXCEPT !.status = "denied",
                                          !.staged = None, !.tokens = None])
  /\ denied' = denied \cup {s}
  /\ UNCHANGED <<exchange, released, owner, confirmed, received, consumed>>

\* Slip: a confirmation that arrives before anything is staged is accepted.
Slip_ConfirmSession(s) ==
  LET h == byState[s] IN
  /\ MicrotasksDrained
  /\ Found(s)
  /\ sessions[h].status \notin Terminal
  /\ UpdateSession(h, [sessions[h] EXCEPT !.status = "complete",
                                          !.tokens = sessions[h].staged, !.staged = None])
  /\ confirmed' = confirmed \cup {sessions[h].staged}
  /\ UNCHANGED <<exchange, released, owner, denied, received, consumed>>

\* confirmSession, by the form's confirm button: promotes what is staged.
ConfirmSession(s) ==
  LET h == byState[s] IN
  /\ MicrotasksDrained
  /\ Found(s)
  /\ sessions[h].status = "awaiting_confirmation"
  /\ sessions[h].staged # None
  /\ UpdateSession(h, [sessions[h] EXCEPT !.status = "complete",
                                          !.tokens = sessions[h].staged, !.staged = None])
  /\ confirmed' = confirmed \cup {sessions[h].staged}
  /\ UNCHANGED <<exchange, released, owner, denied, received, consumed>>

-----------------------------------------------------------------------------
(* GET /auth/session/status *)

\* waitForStatusChange, entered by request p synchronously after a read that
\* found an active session: it is told at once that the store is released, or
\* it registers a waiter on the status of this instant.
WaitForStatusChange(p, h) ==
  /\ poll' = [poll EXCEPT ![p] =
       IF released THEN Resumed(h, "shutdown")
       ELSE [pc |-> "waiting", h |-> h, from |-> sessions[h].status, seen |-> "none"]]
  /\ UNCHANGED storeVars

\* The request arrives.  An unknown or lapsed session is a 404 (the lapsed one
\* is expired); a settled status is answered by the continuation; otherwise
\* waitForTerminalOrTimeout waits.
StartPoll(p, h) ==
  /\ MicrotasksDrained
  /\ poll[p].pc = "idle"
  /\ \/ ReadMiss(h)
     \/ /\ Active(h)
        /\ sessions[h].status \in Terminal
        /\ poll' = [poll EXCEPT ![p] = Resumed(h, sessions[h].status)]
        /\ UNCHANGED storeVars
     \/ /\ Active(h)
        /\ sessions[h].status \notin Terminal
        /\ WaitForStatusChange(p, h)
  /\ UNCHANGED <<exchange, released, history>>

\* What the continuation makes of a status once its deadline has passed: an
\* awaiting session is answered "pending" instead of waiting again.
AtDeadline(status) == IF status = "awaiting_confirmation" THEN "pending" ELSE status

\* Slip: the timer only looks for expiry and forgets the poll's own deadline.
Slip_WaiterTimeout(p) ==
  LET h == poll[p].h IN
  /\ MicrotasksDrained
  /\ poll[p].pc = "waiting"
  /\ Present(h) /\ sessions[h].lapsed
  /\ Drop({h})
  /\ poll' = NotifyWaiters(h, "expired", TRUE)
  /\ UNCHANGED <<exchange, released, history>>

\* The waiter's timer, at the poll's deadline or one millisecond past the TTL.
WaiterTimeout(p) ==
  LET h == poll[p].h IN
  /\ MicrotasksDrained
  /\ poll[p].pc = "waiting"
  /\ IF Present(h) /\ sessions[h].lapsed
     THEN Drop({h}) /\ poll' = NotifyWaiters(h, "expired", TRUE)
     ELSE /\ poll' = [poll EXCEPT ![p] =
                        Resumed(h, IF Present(h) THEN AtDeadline(sessions[h].status) ELSE "gone")]
          /\ UNCHANGED storeVars
  /\ UNCHANGED <<exchange, released, history>>

\* The client hangs up while its request waits: the abort listener removes the
\* waiter and the reply is hijacked.
ClientGone(p) ==
  /\ MicrotasksDrained
  /\ poll[p].pc = "waiting"
  /\ poll' = [poll EXCEPT ![p] = Idle]
  /\ UNCHANGED <<storeVars, exchange, released, history>>

\* waitForTerminalOrTimeout goes round again while its deadline allows it: an
\* awaiting session still reads "pending" to the client.
WaitAgain(p) ==
  /\ poll[p].pc = "resumed"
  /\ poll[p].seen = "awaiting_confirmation"
  /\ \/ Active(poll[p].h) /\ WaitForStatusChange(p, poll[p].h)
     \/ /\ ~Active(poll[p].h)
        /\ IF Present(poll[p].h)
           THEN /\ Drop({poll[p].h})
                /\ poll' = [NotifyWaiters(poll[p].h, "expired", TRUE)
                              EXCEPT ![p] = Resumed(poll[p].h, "gone")]
           ELSE /\ poll' = [poll EXCEPT ![p] = Resumed(poll[p].h, "gone")]
                /\ UNCHANGED storeVars
  /\ UNCHANGED <<exchange, released, history>>

\* Any answer but a completion ends the request without changing the store.
AnswerPoll(p) ==
  /\ poll[p].pc = "resumed"
  /\ poll[p].seen # "complete"
  /\ poll' = [poll EXCEPT ![p] = Idle]
  /\ UNCHANGED <<storeVars, exchange, released, history>>

\* createCompleteReply reads the completion when it answers (getCompletion).
\* The payload reaches the client, or is lost with its connection.
DeliverCompletion(p) ==
  LET h == poll[p].h IN
  /\ poll[p].pc = "resumed"
  /\ poll[p].seen = "complete"
  /\ \/ /\ Active(h)
        /\ sessions[h].status = "complete"
        /\ received' \in {received,
             received \cup {[session |-> sessions[h].state, tokens |-> sessions[h].tokens]}}
        /\ poll' = [poll EXCEPT ![p] = Idle]
        /\ UNCHANGED storeVars
     \/ /\ ~Active(h)
        /\ IF Present(h)
           THEN Drop({h}) /\ poll' = [NotifyWaiters(h, "expired", TRUE) EXCEPT ![p] = Idle]
           ELSE poll' = [poll EXCEPT ![p] = Idle] /\ UNCHANGED storeVars
        /\ UNCHANGED received
  /\ UNCHANGED <<exchange, released, owner, confirmed, denied, consumed>>

-----------------------------------------------------------------------------
(* POST /auth/session/status/ack, shutdown, the passing of time *)

\* consumeCompletion: a client that has received a completion for token h
\* acknowledges it, possibly late or twice.
ConsumeCompletion(h) ==
  /\ MicrotasksDrained
  /\ \E r \in received : owner[r.session] = h
  /\ \/ /\ Active(h)
        /\ sessions[h].status = "complete"
        /\ Drop({h})
        /\ poll' = NotifyWaiters(h, "consumed", TRUE)
        /\ consumed' = consumed \cup {sessions[h].state}
     \/ ReadMiss(h) /\ UNCHANGED consumed
  /\ UNCHANGED <<exchange, released, owner, confirmed, denied, received>>

\* releaseWaiters: every waiter is answered, with "shutdown" or, when its
\* session has lapsed, with the expiry that the read brings about.
ReleaseWaiters ==
  /\ MicrotasksDrained
  /\ ~released
  /\ released' = TRUE
  /\ Drop({h \in Tokens : WaitersOf(h) # {} /\ ~Active(h)})
  /\ poll' = [p \in Pollers |->
       IF poll[p].pc # "waiting" THEN poll[p]
       ELSE Resumed(poll[p].h, IF Active(poll[p].h) THEN "shutdown" ELSE "expired")]
  /\ UNCHANGED <<exchange, history>>

\* The session's TTL runs out; nothing in the store notices yet.
Elapse(h) ==
  /\ Active(h)
  /\ sessions' = [sessions EXCEPT ![h].lapsed = TRUE]
  /\ UNCHANGED <<byState, byCode, poll, exchange, released, history>>

Next ==
  \/ \E h \in Tokens, s \in Attempts, u \in Codes : CreateSession(h, s, u)
  \/ \E s \in Attempts :
       CallbackMiss(s) \/ ProviderError(s) \/ DenySession(s) \/ ConfirmSession(s)
  \/ \E c \in Callbacks :
       \/ \E s \in Attempts : BeginExchange(c, s)
       \/ ExchangeSucceeded(c) \/ ExchangeFailed(c)
  \/ \E p \in Pollers :
       \/ \E h \in Tokens : StartPoll(p, h)
       \/ WaiterTimeout(p) \/ ClientGone(p) \/ WaitAgain(p)
       \/ AnswerPoll(p) \/ DeliverCompletion(p)
  \/ \E h \in Tokens : ConsumeCompletion(h) \/ Elapse(h)
  \/ ReleaseWaiters

Spec == Init /\ [][Next]_vars

\* Queued continuations run before anything else, and a due timer fires however
\* many requests keep the event loop busy (strong: each of their continuations
\* disables it for a moment).  Clients, browsers and providers owe nothing.
Fairness ==
  \A p \in Pollers :
    SF_vars(WaiterTimeout(p)) /\ WF_vars(AnswerPoll(p)) /\ WF_vars(DeliverCompletion(p))
FairSpec == Spec /\ Fairness

-----------------------------------------------------------------------------
(* Properties *)

\* The two reverse indexes and the session table describe the same sessions: a
\* state or a code leads to exactly the live entry that carries it, so no
\* callback reaches a replaced or evicted session and no code leaks.
IndexesCoherent ==
  \A h \in Tokens :
    /\ \A s \in Attempts : byState[s] = h <=> sessions[h].state = s
    /\ \A u \in Codes : byCode[u] = h <=> sessions[h].code = u

\* No lost wakeup: a registered waiter is attached to a stored session that can
\* still move, never to one that has already been confirmed, denied or failed.
NoMissedWakeup ==
  \A p \in Pollers : poll[p].pc = "waiting" =>
    sessions[poll[p].h].status \in {"pending", "awaiting_confirmation"}

\* After releaseWaiters no request waits and none can begin to, so shutdown
\* never waits for a long poll.
ReleasedMeansNoWaiter == released => \A p \in Pollers : poll[p].pc # "waiting"

\* Tokens leave the server only for a completion somebody confirmed.
DeliveredWasConfirmed == \A r \in received : r.tokens \in confirmed

\* A denied sign-in never delivers tokens, however late its provider exchange
\* succeeds or however many confirmations race the denial.
DeniedNeverDelivers == \A r \in received : r.session \notin denied

\* A completed session keeps offering the same completion until it is
\* acknowledged, lapses, is evicted or is replaced by a new attempt.
StableUntilAcked ==
  [][\A h \in Tokens :
       sessions[h].status = "complete" /\ sessions'[h].state = sessions[h].state
         => sessions'[h].status = "complete" /\ sessions'[h].tokens = sessions[h].tokens]_vars

\* The indexes, the sessions and the waiters agree, whatever transition, replacement,
\* eviction, expiry or release comes between them: pending-auth-store.ts:120, 559, 649.
StoreIsCoherent == IndexesCoherent /\ NoMissedWakeup /\ ReleasedMeansNoWaiter

\* What a client gets was confirmed and not denied, in whatever order the exchange,
\* the confirmation and the denial come: pending-auth-store.ts:230, 267, 325.
DeliveryIsSound == DeliveredWasConfirmed /\ DeniedNeverDelivers

\* Every status request is answered or abandoned: none hangs.
EveryPollAnswered == \A p \in Pollers : poll[p].pc # "idle" ~> poll[p].pc = "idle"

\* Seen attempt by attempt, the store and its routes implement SignIn.
PhaseOf(status) ==
  CASE status = "pending" -> "open"
    [] status = "awaiting_confirmation" -> "asked"
    [] status = "complete" -> "granted"
    [] status = "denied" -> "refused"
    [] status = "error" -> "failed"
Phases ==
  [s \in Attempts |->
     IF owner[s] = None THEN "new"
     ELSE IF sessions[owner[s]].state = s THEN PhaseOf(sessions[owner[s]].status)
     ELSE IF s \in consumed THEN "acknowledged" ELSE "gone"]
Promise == INSTANCE SignIn WITH phase <- Phases,
                                delivered <- {r.session : r \in received}
ImplementsSignIn == Promise!Spec
=============================================================================
