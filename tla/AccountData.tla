---------------------------- MODULE AccountData ----------------------------
(***************************************************************************)
(* What the database keeps of one user, and the requests that change it:   *)
(* the first sign-in and later ones, refresh, logout and revoke            *)
(* (AuthService), the registration of bridges under a cap and their        *)
(* revocation (BridgeService), and the words of the glossary under a cap   *)
(* (GlossaryService).                                                      *)
(*                                                                         *)
(* No transaction spans two collections: a request is a sequence of        *)
(* database calls, each atomic, and other requests run between any two of  *)
(* them.  It may also fail at any of them (Fail): the call throws, or the  *)
(* process stops.                                                          *)
(*                                                                         *)
(* Abstractions.  One sign-in identity and one project.  A bridge is its   *)
(* place in the (addedAt, bridgeId) order.  A registration that finds its  *)
(* bridge, by id or by host key, changes only names and is left out.       *)
(* Access tokens cannot be revoked: whoever has signed in may send any     *)
(* request.  Device tokens, and the pushes that a revocation cancels       *)
(* (BridgeStatus), are left out.                                           *)
(*                                                                         *)
(* An operator named Slip_X is X with one plausible mistake.               *)
(***************************************************************************)
EXTENDS FiniteSets, Integers

CONSTANTS
  Reqs,            \* requests that may be under way at once
  Bridges,         \* bridges, numbered in (addedAt, bridgeId) order
  Shared,          \* the glossary scope that belongs to no bridge
  Scopes,          \* bound: the scopes that words are added to
  Words,
  MaxBridges,      \* MAX_ACTIVE_BRIDGES_PER_USER
  MaxWords,        \* maxWordsPerProject, maxWordsPerUser
  MaxRequestWords, \* maxWordsPerRequest
  MaxVersion,      \* bound: how often the token version is incremented
  None

ASSUME AccountDataAssumption ==
  /\ Reqs # {} /\ IsFiniteSet(Reqs) /\ IsFiniteSet(Words)
  /\ Bridges \subseteq Nat
  /\ Shared \notin Bridges
  /\ Scopes \subseteq Bridges \cup {Shared}
  /\ None \notin Nat \cup {Shared}
  /\ {MaxBridges, MaxWords, MaxRequestWords, MaxVersion} \subseteq Nat \ {0}

VARIABLES
  hasAccount, \* oauthAccounts: whether the identity has an account
  version,    \* users: the user's tokenVersion, None before there is a user
  tokens,     \* the refresh tokens that clients hold
  bridges,    \* bridges: the document of each bridge
  stored,     \* glossaryEntries: the words of each scope
  reqs,       \* the requests under way
  tooEarly,   \* history: a logout found no user
  closed,     \* history: the user has revoked bridges
  stale       \* history: revoked bridges whose words a failure, or a
              \* registration that gave up its bridge, has left behind

vars == <<hasAccount, version, tokens, bridges, stored, reqs, tooEarly, closed, stale>>
account == <<hasAccount, version, tokens, tooEarly>>
bridgeDocs == <<bridges, closed>>
glossary == <<stored, stale>>

Versions == 0 .. MaxVersion

\* A refresh token; ended says that a logout has been carried out since the
\* sign-in it goes back to.
Token == [version : Versions, ended : BOOLEAN]

Idle == [op |-> "none"]
Request ==
  [op : {"signIn"}, at : {"upsert", "create", "find"}]
    \cup [op : {"logout"}, at : {"bump"}]
    \* ids: the bridges to clean.  The rest is history: the bridges there were at
    \* the start, and those whose words others have left behind since.
    \cup [op : {"revoke"}, at : {"flip", "candidates", "recheck", "delete", "bump"},
          ids : SUBSET Bridges, start : SUBSET Bridges, since : SUBSET Bridges]
    \cup [op : {"revokeOne"}, at : {"flip", "delete"}, b : Bridges]
    \cup [op : {"register"}, at : {"count", "insert", "rerank", "giveUp"}, b : Bridges \cup {None}]
    \* reads: which of existing and count (the words of the scope, the number of
    \* all words) have been read.
    \cup [op : {"add"}, at : {"recheck", "cleanup"}, scope : Bridges]
    \cup [op : {"add"}, at : {"check", "read"}, scope : Scopes,
          words : SUBSET Words, reads : SUBSET {"existing", "count"}, existing : SUBSET Words,
          count : Nat]
    \cup [op : {"remove"}, at : {"check", "pull"}, scope : Scopes, words : SUBSET Words]

Live == {b \in Bridges : bridges[b] = "live"}
Revoked == {b \in Bridges : bridges[b] = "revoked"}
WordsOf(s) == {w \in Words : <<s, w>> \in stored}

\* Whether request q still deletes the words of bridge b if b is revoked.
InCharge(q, b) ==
  \/ q.op = "add" /\ q.scope = b /\ q.at \in {"recheck", "cleanup"}
  \/ q.op = "revokeOne" /\ q.b = b /\ q.at = "delete"
  \/ q.op = "revoke" /\ q.at = "candidates"
  \/ q.op = "revoke" /\ q.at \in {"recheck", "delete"} /\ b \in q.ids

TypeOK ==
  /\ hasAccount \in BOOLEAN
  /\ version \in Versions \cup {None}
  /\ tokens \subseteq Token
  /\ bridges \in [Bridges -> {"none", "live", "revoked"}]
  /\ stored \subseteq Scopes \X Words
  /\ reqs \in [Reqs -> Request \cup {Idle}]
  /\ tooEarly \in BOOLEAN
  /\ closed \in BOOLEAN
  /\ stale \subseteq Bridges

Init ==
  /\ hasAccount = FALSE
  /\ version = None
  /\ tokens = {}
  /\ bridges = [b \in Bridges |-> "none"]
  /\ stored = {}
  /\ reqs = [r \in Reqs |-> Idle]
  /\ tooEarly = FALSE
  /\ closed = FALSE
  /\ stale = {}

\* Request r arrives as q.  All but a sign-in need an access token.
Start(r, q) ==
  /\ reqs[r] = Idle
  /\ q.op # "signIn" => tokens # {}
  /\ reqs' = [reqs EXCEPT ![r] = q]
  /\ UNCHANGED <<account, bridgeDocs, glossary>>

At(r, op, at) == reqs[r].op = op /\ reqs[r].at = at
Goto(r, at) == reqs' = [reqs EXCEPT ![r].at = at]
Finish(r) == reqs' = [reqs EXCEPT ![r] = Idle]

-----------------------------------------------------------------------------
(* Accounts and tokens. *)

SignInArrives(r) == Start(r, [op |-> "signIn", at |-> "upsert"])

\* OAuthAccountRepository.upsert: whoever inserts the account creates the user.
UpsertAccount(r) ==
  /\ At(r, "signIn", "upsert")
  /\ hasAccount' = TRUE
  /\ Goto(r, IF hasAccount THEN "find" ELSE "create")
  /\ UNCHANGED <<version, tokens, tooEarly, bridgeDocs, glossary>>

CreateUser(r) ==
  /\ At(r, "signIn", "create")
  /\ version' = 0
  /\ tokens' = tokens \cup {[version |-> 0, ended |-> FALSE]}
  /\ Finish(r)
  /\ UNCHANGED <<hasAccount, tooEarly, bridgeDocs, glossary>>

\* Slip: there is no default for an account without a user.
Slip_FindUser(r) ==
  /\ At(r, "signIn", "find")
  /\ tokens' = tokens \cup {[version |-> version, ended |-> FALSE]}
  /\ Finish(r)
  /\ UNCHANGED <<hasAccount, version, tooEarly, bridgeDocs, glossary>>

\* An account without a user is signed in with version 0.
FindUser(r) ==
  /\ At(r, "signIn", "find")
  /\ tokens' = tokens \cup {[version |-> IF version = None THEN 0 ELSE version, ended |-> FALSE]}
  /\ Finish(r)
  /\ UNCHANGED <<hasAccount, version, tooEarly, bridgeDocs, glossary>>

\* Slip: the token version is not compared.
Slip_Usable(t) == version # None

Usable(t) == version # None /\ t.version = version

\* refreshAuthTokens: the new token carries the version that was read.
Refresh(t) ==
  /\ t \in tokens
  /\ Usable(t)
  /\ tokens' = tokens \cup {[version |-> version, ended |-> t.ended]}
  /\ UNCHANGED <<hasAccount, version, tooEarly, bridgeDocs, glossary, reqs>>

LogoutArrives(r) == Start(r, [op |-> "logout", at |-> "bump"])

\* logoutUser: incrementTokenVersion changes nothing if there is no user.
BumpVersion(r) ==
  /\ At(r, "logout", "bump") \/ At(r, "revoke", "bump")
  /\ IF version = None
     THEN UNCHANGED version /\ tooEarly' = TRUE
     ELSE version < MaxVersion /\ version' = version + 1 /\ UNCHANGED tooEarly
  /\ tokens' = {[t EXCEPT !.ended = TRUE] : t \in tokens}
  /\ Finish(r)
  /\ UNCHANGED <<hasAccount, bridgeDocs, glossary>>

-----------------------------------------------------------------------------
(* Bridges. *)

RegisterArrives(r) == Start(r, [op |-> "register", at |-> "count", b |-> None])

\* The bridges of registrations under way.
Drawn == {reqs[r].b : r \in {q \in Reqs : reqs[q].op = "register"}} \ {None}

\* A new bridge comes after all others, except those that are being registered at
\* the same time: they may have the same addedAt.
IsNew(b) ==
  /\ bridges[b] = "none"
  /\ b \notin Drawn
  /\ \A c \in Bridges \ Drawn : bridges[c] # "none" => c < b

\* registerForUser, the count before the insert.
CountBridges(r) ==
  /\ At(r, "register", "count")
  /\ IF Cardinality(Live) >= MaxBridges THEN Finish(r)
     ELSE \E b \in Bridges :
            IsNew(b) /\ reqs' = [reqs EXCEPT ![r].at = "insert", ![r].b = b]
  /\ UNCHANGED <<account, bridgeDocs, glossary>>

InsertBridge(r) ==
  /\ At(r, "register", "insert")
  /\ bridges' = [bridges EXCEPT ![reqs[r].b] = "live"]
  /\ Goto(r, "rerank")
  /\ UNCHANGED <<account, closed, glossary>>

\* Slip: whoever sees too many bridges gives up its own.
Slip_PastCap(b) == Cardinality(Live) > MaxBridges

\* Whether b falls past the cap in the order of the live bridges.
PastCap(b) == b \in Live /\ Cardinality({c \in Live : c < b}) >= MaxBridges

Rerank(r) ==
  /\ At(r, "register", "rerank")
  /\ IF PastCap(reqs[r].b) THEN Goto(r, "giveUp") ELSE Finish(r)
  /\ UNCHANGED <<account, bridgeDocs, glossary>>

\* The registration revokes its own bridge, and no words.
GiveUp(r) ==
  LET b == reqs[r].b
      left == IF WordsOf(b) = {} THEN {} ELSE {b} IN
  /\ At(r, "register", "giveUp")
  /\ bridges' = [bridges EXCEPT ![b] = "revoked"]
  /\ stale' = stale \cup left
  /\ reqs' = [q \in Reqs |->
       IF q = r THEN Idle
       ELSE IF reqs[q].op = "revoke" THEN [reqs[q] EXCEPT !.since = @ \cup left]
       ELSE reqs[q]]
  /\ UNCHANGED <<account, closed, stored>>

\* DELETE /auth/bridges/:bridgeId.
RevokeOneArrives(r, b) ==
  /\ bridges[b] # "none"
  /\ Start(r, [op |-> "revokeOne", at |-> "flip", b |-> b])

\* revokeForUser: also a bridge that is revoked already is cleaned.
RevokeOne(r) ==
  /\ At(r, "revokeOne", "flip")
  /\ bridges' = [bridges EXCEPT ![reqs[r].b] = "revoked"]
  /\ closed' = (closed \/ reqs[r].b \in Live)
  /\ Goto(r, "delete")
  /\ UNCHANGED <<account, glossary>>

DeleteWordsOf(B) ==
  /\ stored' = {e \in stored : e[1] \notin B}
  /\ stale' = stale \ B

DeleteOne(r) ==
  /\ At(r, "revokeOne", "delete")
  /\ DeleteWordsOf({reqs[r].b})
  /\ Finish(r)
  /\ UNCHANGED <<account, bridgeDocs>>

\* POST /auth/revoke.
RevokeArrives(r) ==
  Start(r, [op |-> "revoke", at |-> "flip", ids |-> {},
            start |-> Live \cup Revoked, since |-> {}])

\* revokeAllForUser: first every live bridge is revoked.
RevokeAll(r) ==
  /\ At(r, "revoke", "flip")
  /\ bridges' = [b \in Bridges |-> IF bridges[b] = "live" THEN "revoked" ELSE bridges[b]]
  /\ closed' = (closed \/ Live # {})
  /\ Goto(r, "candidates")
  /\ UNCHANGED <<account, glossary>>

\* findBridgeLocalOwnerIdsByUser.
FindCandidates(r) ==
  /\ At(r, "revoke", "candidates")
  /\ reqs' = [reqs EXCEPT ![r].at = "recheck", ![r].ids = {b \in Bridges : WordsOf(b) # {}}]
  /\ UNCHANGED <<account, bridgeDocs, glossary>>

\* Slip: nobody looks whether the candidates are revoked.
Slip_FindRevoked(r) ==
  /\ At(r, "revoke", "recheck")
  /\ Goto(r, "delete")
  /\ UNCHANGED <<account, bridgeDocs, glossary>>

\* findRevokedIdsForUser.
FindRevoked(r) ==
  /\ At(r, "revoke", "recheck")
  /\ reqs' = [reqs EXCEPT ![r].at = "delete", ![r].ids = @ \cap Revoked]
  /\ UNCHANGED <<account, bridgeDocs, glossary>>

\* deleteByUserAndBridges, after which the tokens follow.
DeleteAll(r) ==
  /\ At(r, "revoke", "delete")
  /\ DeleteWordsOf(reqs[r].ids)
  /\ reqs' = [reqs EXCEPT ![r].at = "bump", ![r].ids = {}]
  /\ UNCHANGED <<account, bridgeDocs>>

-----------------------------------------------------------------------------
(* The glossary. *)

AddArrives(r, s, W) ==
  /\ s \in Live \cup Revoked \cup {Shared}
  /\ W # {} /\ Cardinality(W) <= MaxRequestWords
  /\ Start(r, [op |-> "add", at |-> IF s = Shared THEN "read" ELSE "check", scope |-> s,
               words |-> W, reads |-> {}, existing |-> {}, count |-> 0])

RemoveArrives(r, s, W) ==
  /\ s \in Live \cup Revoked \cup {Shared}
  /\ W # {} /\ Cardinality(W) <= MaxRequestWords
  /\ Start(r, [op |-> "remove", at |-> IF s = Shared THEN "pull" ELSE "check", scope |-> s,
               words |-> W])

\* #requireActiveBridge.
CheckBridge(r) ==
  /\ \/ At(r, "add", "check") /\ (IF reqs[r].scope \in Live THEN Goto(r, "read") ELSE Finish(r))
     \/ At(r, "remove", "check") /\ (IF reqs[r].scope \in Live THEN Goto(r, "pull") ELSE Finish(r))
  /\ UNCHANGED <<account, bridgeDocs, glossary>>

\* The reads of addWords run at the same time.
ReadExisting(r) ==
  /\ At(r, "add", "read")
  /\ "existing" \notin reqs[r].reads
  /\ reqs' = [reqs EXCEPT ![r].existing = WordsOf(reqs[r].scope), ![r].reads = @ \cup {"existing"}]
  /\ UNCHANGED <<account, bridgeDocs, glossary>>

ReadCount(r) ==
  /\ At(r, "add", "read")
  /\ "count" \notin reqs[r].reads
  /\ reqs' = [reqs EXCEPT ![r].count = Cardinality(stored), ![r].reads = @ \cup {"count"}]
  /\ UNCHANGED <<account, bridgeDocs, glossary>>

\* The words of request q that fit, by its own reads.
Grants(q) ==
  LET candidates == q.words \ q.existing
      room == IF q.count >= MaxWords THEN 0 ELSE MaxWords - q.count
      size == IF Cardinality(candidates) < room THEN Cardinality(candidates) ELSE room IN
  {W \in SUBSET candidates : Cardinality(W) = size}

AddWords(r) ==
  LET q == reqs[r] IN
  /\ At(r, "add", "read")
  /\ q.reads = {"existing", "count"}
  /\ \E W \in Grants(q) : stored' = stored \cup ({q.scope} \X W)
  /\ IF q.scope = Shared THEN Finish(r)
     ELSE reqs' = [reqs EXCEPT ![r] = [op |-> "add", at |-> "recheck", scope |-> q.scope]]
  /\ UNCHANGED <<account, bridgeDocs, stale>>

\* Slip: the bridge is not looked up again.
Slip_RecheckBridge(r) ==
  /\ At(r, "add", "recheck")
  /\ Finish(r)
  /\ UNCHANGED <<account, bridgeDocs, glossary>>

RecheckBridge(r) ==
  /\ At(r, "add", "recheck")
  /\ IF reqs[r].scope \in Live THEN Finish(r) ELSE Goto(r, "cleanup")
  /\ UNCHANGED <<account, bridgeDocs, glossary>>

CleanUp(r) ==
  /\ At(r, "add", "cleanup")
  /\ DeleteWordsOf({reqs[r].scope})
  /\ Finish(r)
  /\ UNCHANGED <<account, bridgeDocs>>

RemoveWords(r) ==
  /\ At(r, "remove", "pull")
  /\ stored' = stored \ ({reqs[r].scope} \X reqs[r].words)
  /\ Finish(r)
  /\ UNCHANGED <<account, bridgeDocs, stale>>

-----------------------------------------------------------------------------
\* A database call throws, or the process stops before the next one.
Fail(r) ==
  LET left == {b \in Revoked : InCharge(reqs[r], b) /\ WordsOf(b) # {}} IN
  /\ reqs[r] # Idle
  /\ stale' = stale \cup left
  /\ reqs' = [q \in Reqs |->
       IF q = r THEN Idle
       ELSE IF reqs[q].op = "revoke" THEN [reqs[q] EXCEPT !.since = @ \cup left]
       ELSE reqs[q]]
  /\ UNCHANGED <<account, bridgeDocs, stored>>

Next ==
  \/ \E t \in tokens : Refresh(t)
  \/ \E r \in Reqs :
       \/ SignInArrives(r) \/ UpsertAccount(r) \/ CreateUser(r) \/ FindUser(r)
       \/ LogoutArrives(r) \/ BumpVersion(r)
       \/ RegisterArrives(r) \/ CountBridges(r) \/ InsertBridge(r) \/ Rerank(r) \/ GiveUp(r)
       \/ (\E b \in Bridges : RevokeOneArrives(r, b)) \/ RevokeOne(r) \/ DeleteOne(r)
       \/ RevokeArrives(r) \/ RevokeAll(r) \/ FindCandidates(r) \/ FindRevoked(r) \/ DeleteAll(r)
       \/ \E s \in Scopes, W \in SUBSET Words : AddArrives(r, s, W) \/ RemoveArrives(r, s, W)
       \/ CheckBridge(r) \/ ReadExisting(r) \/ ReadCount(r) \/ AddWords(r)
       \/ RecheckBridge(r) \/ CleanUp(r) \/ RemoveWords(r)
       \/ Fail(r)

Spec == Init /\ [][Next]_vars

-----------------------------------------------------------------------------
(* Properties *)

\* Once a logout or a revoke has been carried out, no refresh token of an earlier
\* sign-in can be used again, nor any that it was exchanged for, whatever sign-ins
\* and refreshes overlapped it: if there was a user to log out.
LogoutIsFinal == ~tooEarly => \A t \in tokens : t.ended => t.version # version

\* A burst of registrations passes the cap by less than the requests under way.
CapIsBounded == Cardinality(Live) < MaxBridges + Cardinality(Reqs)

\* Contenders do not all give up: as long as the user revokes nothing, a burst has
\* filled the cap, or kept every bridge it registered.
BurstFillsCapacity ==
  LET registered == Cardinality(Live \cup Revoked) IN
  ~closed => Cardinality(Live) >= IF registered < MaxBridges THEN registered ELSE MaxBridges

\* A revocation cannot be raced: whatever words of a revoked bridge are stored, a
\* request that is under way deletes them, unless one has failed that would have.
WordsDieWithBridge ==
  \A b \in Revoked : WordsOf(b) # {} => b \in stale \/ \E r \in Reqs : InCharge(reqs[r], b)

\* A revoke that goes on to the tokens has revoked every bridge there was when it
\* began, and cleaned it, also of what earlier failures had left: it can be retried.
RevokeIsComplete ==
  \A r \in Reqs : At(r, "revoke", "bump") =>
    \A b \in reqs[r].start :
      /\ b \in Revoked
      /\ WordsOf(b) # {} => b \in reqs[r].since \/ \E q \in Reqs : InCharge(reqs[q], b)

\* The words of a bridge that stays live are only ever removed on request, not by
\* a revoke that overlapped its registration.
LiveKeepsWords ==
  [][\A b \in Live : b \in Live' /\ WordsOf(b)' # WordsOf(b) /\ WordsOf(b)' \subseteq WordsOf(b) =>
       \E r \in Reqs : At(r, "remove", "pull") /\ reqs[r].scope = b]_vars

\* The glossary passes its caps by what the other requests under way may add.
GlossaryIsBounded ==
  Cardinality(stored) <= MaxWords + (Cardinality(Reqs) - 1) * MaxRequestWords

\* The caps are soft, and how soft: a burst passes none by more than the other requests
\* under way, nor falls short of one (bridge-service.ts:80, glossary-service.ts:53).
CapsAreKept == CapIsBounded /\ BurstFillsCapacity /\ GlossaryIsBounded

\* The words of a revoked bridge are deleted, however additions and revocations
\* overlap and fail (glossary-service.ts:66, auth-service.ts:262).
WordsAreCleaned == WordsDieWithBridge /\ RevokeIsComplete
=============================================================================
