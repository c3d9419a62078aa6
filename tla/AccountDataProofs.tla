------------------------- MODULE AccountDataProofs -------------------------
(***************************************************************************)
(* Proofs about AccountData for any number of requests, bridges and words, *)
(* and any caps that its assumption allows.                                *)
(*                                                                         *)
(* What a request holds while others run is tied to the documents by       *)
(* RequestsFit, which lasts because a bridge only ever goes from none to   *)
(* live to revoked.  The caps are soft: what the requests under way may    *)
(* still insert is counted with what is stored already.                    *)
(***************************************************************************)
EXTENDS AccountData, FiniteSetTheorems, WellFoundedInduction, TLAPS

Registered == Live \cup Revoked

\* The account is inserted once, so that one sign-in at most creates the user; a
\* token carries no version that is yet to come, and the one of a sign-in that has
\* ended an earlier one.
AccountInv ==
  /\ \A r \in Reqs : At(r, "signIn", "create") =>
       /\ hasAccount /\ version = None
       /\ \A q \in Reqs : At(q, "signIn", "create") => q = r
  /\ ~hasAccount => version = None
  /\ \A t \in tokens : t.version <= IF version = None THEN 0 ELSE version
  /\ ~tooEarly => \A t \in tokens : t.ended => version # None /\ t.version < version

\* What a request holds agrees with the bridges: one to be inserted is not there, one
\* that was inserted or found is, and one that is to be cleaned is revoked.
Fits(q) ==
  /\ q.op = "register" /\ q.at = "insert" => q.b \in Bridges /\ bridges[q.b] = "none"
  /\ q.op = "register" /\ q.at \in {"rerank", "giveUp"} => q.b \in Registered
  /\ q.op = "revokeOne" => q.b \in (IF q.at = "delete" THEN Revoked ELSE Registered)
  /\ q.op = "revoke" => q.start \subseteq (IF q.at = "flip" THEN Registered ELSE Revoked)
  /\ q.op = "revoke" /\ q.at = "delete" => q.ids \subseteq Revoked
  /\ q.op \in {"add", "remove"} => q.scope \in Registered \cup {Shared}
  /\ q.op = "add" /\ q.at = "cleanup" => q.scope \in Revoked

Inserting == {r \in Reqs : At(r, "register", "insert")}

RequestsFit ==
  /\ IsFiniteSet(Registered)
  /\ \A r \in Reqs : Fits(reqs[r])
  /\ \A r, q \in Inserting : reqs[r].b = reqs[q].b => r = q

\* Some request under way deletes the words of b.
Covered(b) == \E r \in Reqs : InCharge(reqs[r], b)

\* A revoke that has revoked the bridges leaves no words behind, but those that a
\* failure has left since it began.
RevokesCover ==
  \A r \in Reqs : reqs[r].op = "revoke" /\ reqs[r].at # "flip" =>
    \A b \in reqs[r].start : WordsOf(b) # {} => b \in reqs[r].since \/ Covered(b)

\* A bridge that is counted and not yet inserted counts with the live ones.
BridgesFit == Cardinality(Live) + Cardinality(Inserting) < MaxBridges + Cardinality(Reqs)

Below(b) == {c \in Registered : c < b}

\* A bridge that is given up has a full cap of earlier ones, live or given up.
GivenUpAreLate ==
  ~closed => \A b \in Bridges :
    (b \in Revoked \/ \E r \in Reqs : At(r, "register", "giveUp") /\ reqs[r].b = b)
      => Cardinality(Below(b)) >= MaxBridges

\* Additions that have counted the words and found room.
Adding ==
  {r \in Reqs : At(r, "add", "read") /\ "count" \in reqs[r].reads /\ reqs[r].count < MaxWords}

GlossaryBound == MaxWords + (Cardinality(Reqs) - 1) * MaxRequestWords

\* All but one of them may add a request's worth of words, and that one what it has
\* found room for.
RoomIsKept ==
  \/ Cardinality(stored) + Cardinality(Adding) * MaxRequestWords <= GlossaryBound
  \/ \E r \in Adding :
       Cardinality(stored) + (MaxWords - reqs[r].count)
         + (Cardinality(Adding) - 1) * MaxRequestWords <= GlossaryBound

\* An addition brings no more words than a request may, and has read nothing before its
\* bridge has been checked.
AdditionsAreSmall ==
  \A r \in Reqs : reqs[r].op = "add" /\ reqs[r].at \in {"check", "read"} =>
    /\ Cardinality(reqs[r].words) <= MaxRequestWords
    /\ reqs[r].at = "check" => reqs[r].reads = {}

WordsFit == IsFiniteSet(stored) /\ RoomIsKept /\ AdditionsAreSmall

IInv ==
  /\ TypeOK
  /\ AccountInv
  /\ RequestsFit
  /\ WordsDieWithBridge /\ RevokesCover
  /\ BridgesFit /\ GivenUpAreLate
  /\ WordsFit

-----------------------------------------------------------------------------
(* Lemmas. *)

USE AccountDataAssumption

\* A non-empty set of numbers has a least one.
LEMMA LeastElement ==
  ASSUME NEW S, S \subseteq Nat, S # {}
  PROVE  \E m \in S : \A n \in S : m <= n
<1> DEFINE R == OpToRel(<, Nat)
<1>1. IsWellFoundedOn(R, Nat)
  BY NatLessThanWellFounded
<1>2. \A x, y \in Nat : x < y => <<x, y>> \in R
  BY DEF OpToRel
<1> HIDE DEF R
<1>3. PICK m \in S : \A n \in S : ~(<<n, m>> \in R)
  BY <1>1, WFMin
<1>4. \A n \in S : m <= n
  <2> TAKE n \in S
  <2>1. m \in Nat /\ n \in Nat /\ ~(n < m)
    BY <1>2, <1>3
  <2> QED BY <2>1
<1> QED BY <1>4

RequestsTyped == reqs \in [Reqs -> Request \cup {Idle}]

SignInAt(at) == [op |-> "signIn", at |-> at]
RegisterAt(at, b) == [op |-> "register", at |-> at, b |-> b]
RevokeOneAt(at, b) == [op |-> "revokeOne", at |-> at, b |-> b]
RevokeAt(at, ids, start, since) ==
  [op |-> "revoke", at |-> at, ids |-> ids, start |-> start, since |-> since]
AddedAt(at, s) == [op |-> "add", at |-> at, scope |-> s]
AddAt(at, s, W, reads, existing, count) ==
  [op |-> "add", at |-> at, scope |-> s, words |-> W, reads |-> reads, existing |-> existing,
   count |-> count]
RemoveAt(at, s, W) == [op |-> "remove", at |-> at, scope |-> s, words |-> W]

\* A request has the fields of its operation.
LEMMA Shapes ==
  ASSUME NEW q \in Request
  PROVE  /\ q # Idle
         /\ q.op = "signIn" => q.at \in {"upsert", "create", "find"} /\ q = SignInAt(q.at)
         /\ q.op = "register" => /\ q.at \in {"count", "insert", "rerank", "giveUp"}
                                 /\ q.b \in Bridges \cup {None}
                                 /\ q = RegisterAt(q.at, q.b)
         /\ q.op = "revokeOne" => /\ q.at \in {"flip", "delete"} /\ q.b \in Bridges
                                  /\ q = RevokeOneAt(q.at, q.b)
         /\ q.op = "revoke" => /\ q.at \in {"flip", "candidates", "recheck", "delete", "bump"}
                               /\ q.ids \subseteq Bridges /\ q.start \subseteq Bridges
                               /\ q.since \subseteq Bridges
                               /\ q = RevokeAt(q.at, q.ids, q.start, q.since)
         /\ q.op = "add" /\ q.at \in {"recheck", "cleanup"} =>
              q.scope \in Bridges /\ q = AddedAt(q.at, q.scope)
         /\ q.op = "add" /\ q.at \notin {"recheck", "cleanup"} =>
              /\ q.at \in {"check", "read"} /\ q.scope \in Scopes /\ q.words \subseteq Words
              /\ q.reads \subseteq {"existing", "count"} /\ q.existing \subseteq Words
              /\ q.count \in Nat
              /\ q = AddAt(q.at, q.scope, q.words, q.reads, q.existing, q.count)
         /\ q.op = "remove" => /\ q.at \in {"check", "pull"} /\ q.scope \in Scopes
                               /\ q.words \subseteq Words
                               /\ q = RemoveAt(q.at, q.scope, q.words)
<1>1. CASE q \in [op : {"signIn"}, at : {"upsert", "create", "find"}]
  BY <1>1 DEF Idle, SignInAt
<1>2. CASE q \in [op : {"logout"}, at : {"bump"}]
  BY <1>2 DEF Idle
<1>3. CASE q \in [op : {"revoke"}, at : {"flip", "candidates", "recheck", "delete", "bump"},
                  ids : SUBSET Bridges, start : SUBSET Bridges, since : SUBSET Bridges]
  BY <1>3 DEF Idle, RevokeAt
<1>4. CASE q \in [op : {"revokeOne"}, at : {"flip", "delete"}, b : Bridges]
  BY <1>4 DEF Idle, RevokeOneAt
<1>5. CASE q \in [op : {"register"}, at : {"count", "insert", "rerank", "giveUp"}, b : Bridges \cup {None}]
  BY <1>5 DEF Idle, RegisterAt
<1>6. CASE q \in [op : {"add"}, at : {"recheck", "cleanup"}, scope : Bridges]
  BY <1>6 DEF Idle, AddedAt
<1>7. CASE q \in [op : {"add"}, at : {"check", "read"}, scope : Scopes, words : SUBSET Words,
                  reads : SUBSET {"existing", "count"}, existing : SUBSET Words, count : Nat]
  BY <1>7 DEF Idle, AddAt
<1>8. CASE q \in [op : {"remove"}, at : {"check", "pull"}, scope : Scopes, words : SUBSET Words]
  BY <1>8 DEF Idle, RemoveAt
<1> QED BY <1>1, <1>2, <1>3, <1>4, <1>5, <1>6, <1>7, <1>8 DEF Request

\* And what has those fields is a request.
LEMMA Requests ==
  /\ \A at \in {"upsert", "create", "find"} : SignInAt(at) \in Request
  /\ [op |-> "logout", at |-> "bump"] \in Request
  /\ \A at \in {"count", "insert", "rerank", "giveUp"}, b \in Bridges \cup {None} :
       RegisterAt(at, b) \in Request
  /\ \A at \in {"flip", "delete"}, b \in Bridges : RevokeOneAt(at, b) \in Request
  /\ \A at \in {"flip", "candidates", "recheck", "delete", "bump"},
        ids, start, since \in SUBSET Bridges : RevokeAt(at, ids, start, since) \in Request
  /\ \A at \in {"recheck", "cleanup"}, s \in Bridges : AddedAt(at, s) \in Request
  /\ \A at \in {"check", "read"}, s \in Scopes, W, existing \in SUBSET Words,
        reads \in SUBSET {"existing", "count"}, count \in Nat :
       AddAt(at, s, W, reads, existing, count) \in Request
  /\ \A at \in {"check", "pull"}, s \in Scopes, W \in SUBSET Words : RemoveAt(at, s, W) \in Request
<1>1. /\ \A at \in {"upsert", "create", "find"} : SignInAt(at) \in Request
      /\ [op |-> "logout", at |-> "bump"] \in Request
  BY DEF SignInAt, Request
<1>2. \A at \in {"count", "insert", "rerank", "giveUp"}, b \in Bridges \cup {None} :
        RegisterAt(at, b) \in Request
  BY DEF RegisterAt, Request
<1>3. \A at \in {"flip", "delete"}, b \in Bridges : RevokeOneAt(at, b) \in Request
  BY DEF RevokeOneAt, Request
<1>4. \A at \in {"flip", "candidates", "recheck", "delete", "bump"},
         ids, start, since \in SUBSET Bridges : RevokeAt(at, ids, start, since) \in Request
  BY DEF RevokeAt, Request
<1>5. \A at \in {"recheck", "cleanup"}, s \in Bridges : AddedAt(at, s) \in Request
  BY DEF AddedAt, Request
<1>6. \A at \in {"check", "read"}, s \in Scopes, W, existing \in SUBSET Words,
         reads \in SUBSET {"existing", "count"}, count \in Nat :
        AddAt(at, s, W, reads, existing, count) \in Request
  BY DEF AddAt, Request
<1>7. \A at \in {"check", "pull"}, s \in Scopes, W \in SUBSET Words : RemoveAt(at, s, W) \in Request
  BY DEF RemoveAt, Request
<1> QED BY <1>1, <1>2, <1>3, <1>4, <1>5, <1>6, <1>7

Turn(r, n) == reqs' = [reqs EXCEPT ![r] = n]

LEMMA TurnIs ==
  ASSUME reqs \in [Reqs -> Request \cup {Idle}],
         NEW r \in Reqs, NEW n \in Request \cup {Idle}, Turn(r, n)
  PROVE  /\ reqs' \in [Reqs -> Request \cup {Idle}]
         /\ reqs'[r] = n
         /\ \A q \in Reqs \ {r} : reqs'[q] = reqs[q]
BY DEF Turn

LEMMA GotoTurns ==
  ASSUME reqs \in [Reqs -> Request \cup {Idle}], NEW r \in Reqs, NEW op, NEW at, NEW c,
         At(r, op, at), Goto(r, c)
  PROVE  /\ op = "signIn" => Turn(r, SignInAt(c))
         /\ op = "register" => Turn(r, RegisterAt(c, reqs[r].b))
         /\ op = "revokeOne" => Turn(r, RevokeOneAt(c, reqs[r].b))
         /\ op = "revoke" => Turn(r, RevokeAt(c, reqs[r].ids, reqs[r].start, reqs[r].since))
         /\ op = "add" /\ at \in {"recheck", "cleanup"} => Turn(r, AddedAt(c, reqs[r].scope))
         /\ op = "add" /\ at \notin {"recheck", "cleanup"} =>
              Turn(r, AddAt(c, reqs[r].scope, reqs[r].words, reqs[r].reads, reqs[r].existing,
                            reqs[r].count))
         /\ op = "remove" => Turn(r, RemoveAt(c, reqs[r].scope, reqs[r].words))
<1> DEFINE q == reqs[r]
<1>1. Turn(r, [q EXCEPT !.at = c]) /\ q \in Request \cup {Idle} /\ q.op = op /\ q.at = at
  BY DEF Goto, Turn, At
<1>2. op = "signIn" => q = SignInAt(q.at) /\ [q EXCEPT !.at = c] = SignInAt(c)
  BY <1>1, Shapes DEF Idle, SignInAt
<1>3. op = "register" => q = RegisterAt(q.at, q.b) /\ [q EXCEPT !.at = c] = RegisterAt(c, q.b)
  BY <1>1, Shapes DEF Idle, RegisterAt
<1>4. op = "revokeOne" => q = RevokeOneAt(q.at, q.b) /\ [q EXCEPT !.at = c] = RevokeOneAt(c, q.b)
  BY <1>1, Shapes DEF Idle, RevokeOneAt
<1>5. op = "revoke" => /\ q = RevokeAt(q.at, q.ids, q.start, q.since)
                       /\ [q EXCEPT !.at = c] = RevokeAt(c, q.ids, q.start, q.since)
  BY <1>1, Shapes DEF Idle, RevokeAt
<1>6. op = "add" /\ at \in {"recheck", "cleanup"} =>
        q = AddedAt(q.at, q.scope) /\ [q EXCEPT !.at = c] = AddedAt(c, q.scope)
  BY <1>1, Shapes DEF Idle, AddedAt
<1>7. op = "add" /\ at \notin {"recheck", "cleanup"} =>
        /\ q = AddAt(q.at, q.scope, q.words, q.reads, q.existing, q.count)
        /\ [q EXCEPT !.at = c] = AddAt(c, q.scope, q.words, q.reads, q.existing, q.count)
  BY <1>1, Shapes DEF Idle, AddAt
<1>8. op = "remove" => /\ q = RemoveAt(q.at, q.scope, q.words)
                       /\ [q EXCEPT !.at = c] = RemoveAt(c, q.scope, q.words)
  BY <1>1, Shapes DEF Idle, RemoveAt
<1> QED BY <1>1, <1>2, <1>3, <1>4, <1>5, <1>6, <1>7, <1>8 DEF Turn

\* What each step of a request makes of it.
LEMMA AccountTurns ==
  ASSUME TypeOK, NEW r \in Reqs
  PROVE  /\ SignInArrives(r) => Turn(r, SignInAt("upsert"))
         /\ UpsertAccount(r) => Turn(r, SignInAt(IF hasAccount THEN "find" ELSE "create"))
         /\ CreateUser(r) \/ FindUser(r) \/ BumpVersion(r) => Turn(r, Idle)
         /\ LogoutArrives(r) => Turn(r, [op |-> "logout", at |-> "bump"])
<1>1. reqs \in [Reqs -> Request \cup {Idle}]
  BY DEF TypeOK
<1>2. UpsertAccount(r) => Turn(r, SignInAt(IF hasAccount THEN "find" ELSE "create"))
  <2> SUFFICES ASSUME UpsertAccount(r)
               PROVE  Turn(r, SignInAt(IF hasAccount THEN "find" ELSE "create"))
    OBVIOUS
  <2>1. At(r, "signIn", "upsert") /\ Goto(r, IF hasAccount THEN "find" ELSE "create")
    BY DEF UpsertAccount
  <2> QED BY <1>1, <2>1, GotoTurns
<1> QED
  BY <1>2 DEF SignInArrives, SignInAt, LogoutArrives, Start, Turn, CreateUser, FindUser, BumpVersion, Finish

LEMMA BridgeTurns ==
  ASSUME TypeOK, NEW r \in Reqs
  PROVE  /\ RegisterArrives(r) => Turn(r, RegisterAt("count", None))
         /\ CountBridges(r) => \/ Turn(r, Idle)
                               \/ /\ ~(Cardinality(Live) >= MaxBridges)
                                  /\ \E b \in Bridges : IsNew(b) /\ Turn(r, RegisterAt("insert", b))
         /\ InsertBridge(r) => Turn(r, RegisterAt("rerank", reqs[r].b))
         /\ Rerank(r) => \/ Turn(r, Idle)
                         \/ PastCap(reqs[r].b) /\ Turn(r, RegisterAt("giveUp", reqs[r].b))
         /\ \A b \in Bridges : RevokeOneArrives(r, b) => Turn(r, RevokeOneAt("flip", b))
         /\ RevokeOne(r) => Turn(r, RevokeOneAt("delete", reqs[r].b))
         /\ DeleteOne(r) => Turn(r, Idle)
<1>1. reqs \in [Reqs -> Request \cup {Idle}]
  BY DEF TypeOK
<1>2. \A at : At(r, "register", at) => reqs[r] = RegisterAt(at, reqs[r].b)
  BY <1>1, Shapes DEF At, Idle
<1>3. CountBridges(r) => \/ Turn(r, Idle)
                         \/ /\ ~(Cardinality(Live) >= MaxBridges)
                            /\ \E b \in Bridges : IsNew(b) /\ Turn(r, RegisterAt("insert", b))
  <2> SUFFICES ASSUME CountBridges(r), ~(Cardinality(Live) >= MaxBridges)
               PROVE  \E b \in Bridges : IsNew(b) /\ Turn(r, RegisterAt("insert", b))
    BY DEF CountBridges, Finish, Turn
  <2>1. At(r, "register", "count")
    BY DEF CountBridges
  <2>2. PICK b \in Bridges : IsNew(b) /\ reqs' = [reqs EXCEPT ![r].at = "insert", ![r].b = b]
    BY DEF CountBridges
  <2>3. reqs' = [reqs EXCEPT ![r] = [[reqs[r] EXCEPT !.at = "insert"] EXCEPT !.b = b]]
    BY <1>1, <2>2
  <2>4. reqs[r] = RegisterAt("count", reqs[r].b)
    BY <1>2, <2>1
  <2>5. [reqs[r] EXCEPT !.at = "insert"] = RegisterAt("insert", reqs[r].b)
    BY <2>4 DEF RegisterAt
  <2>6. [RegisterAt("insert", reqs[r].b) EXCEPT !.b = b] = RegisterAt("insert", b)
    BY DEF RegisterAt
  <2>7. Turn(r, RegisterAt("insert", b))
    BY <2>3, <2>5, <2>6 DEF Turn
  <2> QED BY <2>2, <2>7
<1>4. \A at, c : At(r, "register", at) /\ Goto(r, c) => Turn(r, RegisterAt(c, reqs[r].b))
  BY <1>1, GotoTurns
<1>5. RevokeOne(r) => Turn(r, RevokeOneAt("delete", reqs[r].b))
  <2> SUFFICES ASSUME RevokeOne(r) PROVE Turn(r, RevokeOneAt("delete", reqs[r].b))
    OBVIOUS
  <2>1. At(r, "revokeOne", "flip") /\ Goto(r, "delete")
    BY DEF RevokeOne
  <2> QED BY <1>1, <2>1, GotoTurns
<1>6. InsertBridge(r) => Turn(r, RegisterAt("rerank", reqs[r].b))
  BY <1>4 DEF InsertBridge
<1>7. Rerank(r) => \/ Turn(r, Idle)
                   \/ PastCap(reqs[r].b) /\ Turn(r, RegisterAt("giveUp", reqs[r].b))
  BY <1>4 DEF Rerank, Finish, Turn
<1>8. /\ RegisterArrives(r) => Turn(r, RegisterAt("count", None))
      /\ \A b \in Bridges : RevokeOneArrives(r, b) => Turn(r, RevokeOneAt("flip", b))
      /\ DeleteOne(r) => Turn(r, Idle)
  BY DEF RegisterArrives, RegisterAt, RevokeOneArrives, RevokeOneAt, Start, DeleteOne, Finish, Turn
<1> QED BY <1>3, <1>5, <1>6, <1>7, <1>8

LEMMA RevokeTurns ==
  ASSUME TypeOK, NEW r \in Reqs
  PROVE  /\ RevokeArrives(r) => Turn(r, RevokeAt("flip", {}, Registered, {}))
         /\ RevokeAll(r) => Turn(r, RevokeAt("candidates", reqs[r].ids, reqs[r].start, reqs[r].since))
         /\ FindCandidates(r) => Turn(r, RevokeAt("recheck", {b \in Bridges : WordsOf(b) # {}},
                                                  reqs[r].start, reqs[r].since))
         /\ FindRevoked(r) => Turn(r, RevokeAt("delete", reqs[r].ids \cap Revoked,
                                               reqs[r].start, reqs[r].since))
         /\ DeleteAll(r) => Turn(r, RevokeAt("bump", {}, reqs[r].start, reqs[r].since))
<1>1. reqs \in [Reqs -> Request \cup {Idle}]
  BY DEF TypeOK
<1>2. \A at, c, ids : At(r, "revoke", at) /\ reqs' = [reqs EXCEPT ![r].at = c, ![r].ids = ids] =>
        Turn(r, RevokeAt(c, ids, reqs[r].start, reqs[r].since))
  <2> SUFFICES ASSUME NEW at, NEW c, NEW ids, At(r, "revoke", at),
                      reqs' = [reqs EXCEPT ![r].at = c, ![r].ids = ids]
               PROVE  Turn(r, RevokeAt(c, ids, reqs[r].start, reqs[r].since))
    OBVIOUS
  <2> DEFINE q == reqs[r]
  <2>1. reqs' = [reqs EXCEPT ![r] = [[q EXCEPT !.at = c] EXCEPT !.ids = ids]]
    BY <1>1
  <2>2. q = RevokeAt(at, q.ids, q.start, q.since)
    BY <1>1, Shapes DEF At, Idle
  <2>3. [q EXCEPT !.at = c] = RevokeAt(c, q.ids, q.start, q.since)
    BY <2>2 DEF RevokeAt
  <2>4. [RevokeAt(c, q.ids, q.start, q.since) EXCEPT !.ids = ids] = RevokeAt(c, ids, q.start, q.since)
    BY DEF RevokeAt
  <2> QED BY <2>1, <2>3, <2>4 DEF Turn
<1>3. RevokeAll(r) => Turn(r, RevokeAt("candidates", reqs[r].ids, reqs[r].start, reqs[r].since))
  BY <1>1, GotoTurns DEF RevokeAll
<1>4. RevokeArrives(r) => Turn(r, RevokeAt("flip", {}, Registered, {}))
  BY DEF RevokeArrives, RevokeAt, Registered, Start, Turn
<1>5. FindCandidates(r) => Turn(r, RevokeAt("recheck", {b \in Bridges : WordsOf(b) # {}},
                                            reqs[r].start, reqs[r].since))
  BY <1>2 DEF FindCandidates
<1>6. FindRevoked(r) => Turn(r, RevokeAt("delete", reqs[r].ids \cap Revoked,
                                         reqs[r].start, reqs[r].since))
  <2> SUFFICES ASSUME FindRevoked(r)
               PROVE  reqs' = [reqs EXCEPT ![r].at = "delete", ![r].ids = reqs[r].ids \cap Revoked]
    BY <1>2 DEF FindRevoked
  <2> QED BY <1>1 DEF FindRevoked
<1>7. DeleteAll(r) => Turn(r, RevokeAt("bump", {}, reqs[r].start, reqs[r].since))
  BY <1>2 DEF DeleteAll
<1> QED BY <1>3, <1>4, <1>5, <1>6, <1>7

LEMMA GlossaryTurns ==
  ASSUME TypeOK, NEW r \in Reqs
  PROVE  /\ \A s \in Scopes, W \in SUBSET Words :
              /\ AddArrives(r, s, W) =>
                   Turn(r, AddAt(IF s = Shared THEN "read" ELSE "check", s, W, {}, {}, 0))
              /\ RemoveArrives(r, s, W) =>
                   Turn(r, RemoveAt(IF s = Shared THEN "pull" ELSE "check", s, W))
         /\ CheckBridge(r) =>
              \/ Turn(r, Idle)
              \/ /\ At(r, "add", "check")
                 /\ Turn(r, AddAt("read", reqs[r].scope, reqs[r].words, reqs[r].reads,
                                  reqs[r].existing, reqs[r].count))
              \/ /\ At(r, "remove", "check")
                 /\ Turn(r, RemoveAt("pull", reqs[r].scope, reqs[r].words))
         /\ ReadExisting(r) =>
              Turn(r, AddAt("read", reqs[r].scope, reqs[r].words, reqs[r].reads \cup {"existing"},
                            WordsOf(reqs[r].scope), reqs[r].count))
         /\ ReadCount(r) =>
              Turn(r, AddAt("read", reqs[r].scope, reqs[r].words, reqs[r].reads \cup {"count"},
                            reqs[r].existing, Cardinality(stored)))
         /\ AddWords(r) => Turn(r, IF reqs[r].scope = Shared THEN Idle
                                   ELSE AddedAt("recheck", reqs[r].scope))
         /\ RecheckBridge(r) => Turn(r, IF reqs[r].scope \in Live THEN Idle
                                        ELSE AddedAt("cleanup", reqs[r].scope))
         /\ CleanUp(r) \/ RemoveWords(r) => Turn(r, Idle)
<1>1. reqs \in [Reqs -> Request \cup {Idle}]
  BY DEF TypeOK
<1>2. At(r, "add", "read") =>
        reqs[r] = AddAt("read", reqs[r].scope, reqs[r].words, reqs[r].reads, reqs[r].existing,
                        reqs[r].count)
  BY <1>1, Shapes DEF At, Idle
<1>3. \A s \in Scopes, W \in SUBSET Words :
        /\ AddArrives(r, s, W) =>
             Turn(r, AddAt(IF s = Shared THEN "read" ELSE "check", s, W, {}, {}, 0))
        /\ RemoveArrives(r, s, W) =>
             Turn(r, RemoveAt(IF s = Shared THEN "pull" ELSE "check", s, W))
  BY DEF AddArrives, AddAt, RemoveArrives, RemoveAt, Start, Turn
<1>4. CheckBridge(r) =>
        \/ Turn(r, Idle)
        \/ /\ At(r, "add", "check")
           /\ Turn(r, AddAt("read", reqs[r].scope, reqs[r].words, reqs[r].reads,
                            reqs[r].existing, reqs[r].count))
        \/ /\ At(r, "remove", "check")
           /\ Turn(r, RemoveAt("pull", reqs[r].scope, reqs[r].words))
  <2>1. Finish(r) => Turn(r, Idle)
    BY DEF Finish, Turn
  <2>2. At(r, "add", "check") /\ Goto(r, "read") =>
          Turn(r, AddAt("read", reqs[r].scope, reqs[r].words, reqs[r].reads, reqs[r].existing,
                        reqs[r].count))
    <3>1. "check" \notin {"recheck", "cleanup"}
      OBVIOUS
    <3> QED BY <1>1, <3>1, GotoTurns, Zenon
  <2>3. At(r, "remove", "check") /\ Goto(r, "pull") =>
          Turn(r, RemoveAt("pull", reqs[r].scope, reqs[r].words))
    BY <1>1, GotoTurns
  <2> QED BY <2>1, <2>2, <2>3 DEF CheckBridge
<1>5. ReadExisting(r) =>
        Turn(r, AddAt("read", reqs[r].scope, reqs[r].words, reqs[r].reads \cup {"existing"},
                      WordsOf(reqs[r].scope), reqs[r].count))
  <2> SUFFICES ASSUME ReadExisting(r)
               PROVE  Turn(r, AddAt("read", reqs[r].scope, reqs[r].words,
                                    reqs[r].reads \cup {"existing"}, WordsOf(reqs[r].scope),
                                    reqs[r].count))
    OBVIOUS
  <2> DEFINE q == reqs[r]
             E == WordsOf(q.scope)
             A(reads, existing) == AddAt("read", q.scope, q.words, reads, existing, q.count)
  <2>1. reqs' = [reqs EXCEPT ![r] = [[q EXCEPT !.existing = E] EXCEPT !.reads = q.reads \cup {"existing"}]]
    BY <1>1 DEF ReadExisting
  <2>2. q = A(q.reads, q.existing)
    BY <1>2 DEF ReadExisting
  <2>3. [q EXCEPT !.existing = E] = A(q.reads, E)
    BY <2>2 DEF AddAt
  <2>4. [A(q.reads, E) EXCEPT !.reads = q.reads \cup {"existing"}] = A(q.reads \cup {"existing"}, E)
    BY DEF AddAt
  <2> QED BY <2>1, <2>3, <2>4 DEF Turn
<1>6. ReadCount(r) =>
        Turn(r, AddAt("read", reqs[r].scope, reqs[r].words, reqs[r].reads \cup {"count"},
                      reqs[r].existing, Cardinality(stored)))
  <2> SUFFICES ASSUME ReadCount(r)
               PROVE  Turn(r, AddAt("read", reqs[r].scope, reqs[r].words,
                                    reqs[r].reads \cup {"count"}, reqs[r].existing,
                                    Cardinality(stored)))
    OBVIOUS
  <2> DEFINE q == reqs[r]
             C == Cardinality(stored)
             A(reads, count) == AddAt("read", q.scope, q.words, reads, q.existing, count)
  <2>1. reqs' = [reqs EXCEPT ![r] = [[q EXCEPT !.count = C] EXCEPT !.reads = q.reads \cup {"count"}]]
    BY <1>1 DEF ReadCount
  <2>2. q = A(q.reads, q.count)
    BY <1>2 DEF ReadCount
  <2>3. [q EXCEPT !.count = C] = A(q.reads, C)
    BY <2>2 DEF AddAt
  <2>4. [A(q.reads, C) EXCEPT !.reads = q.reads \cup {"count"}] = A(q.reads \cup {"count"}, C)
    BY DEF AddAt
  <2> QED BY <2>1, <2>3, <2>4 DEF Turn
<1>7. AddWords(r) => Turn(r, IF reqs[r].scope = Shared THEN Idle ELSE AddedAt("recheck", reqs[r].scope))
  BY DEF AddWords, AddedAt, Finish, Turn
<1>8. RecheckBridge(r) => Turn(r, IF reqs[r].scope \in Live THEN Idle
                                  ELSE AddedAt("cleanup", reqs[r].scope))
  <2>1. Finish(r) => Turn(r, Idle)
    BY DEF Finish, Turn
  <2>2. At(r, "add", "recheck") /\ Goto(r, "cleanup") => Turn(r, AddedAt("cleanup", reqs[r].scope))
    BY <1>1, GotoTurns
  <2> QED BY <2>1, <2>2 DEF RecheckBridge
<1>9. CleanUp(r) \/ RemoveWords(r) => Turn(r, Idle)
  BY DEF CleanUp, RemoveWords, Finish, Turn
<1> QED BY <1>3, <1>4, <1>5, <1>6, <1>7, <1>8, <1>9

\* A request ends, and every revoke under way learns of the bridges it leaves.
Pass(r, left) ==
  reqs' = [q \in Reqs |->
    IF q = r THEN Idle
    ELSE IF reqs[q].op = "revoke" THEN [reqs[q] EXCEPT !.since = @ \cup left]
    ELSE reqs[q]]

LEMMA PassIs ==
  ASSUME reqs \in [Reqs -> Request \cup {Idle}],
         NEW r \in Reqs, NEW left \in SUBSET Bridges, Pass(r, left)
  PROVE  /\ reqs' \in [Reqs -> Request \cup {Idle}]
         /\ reqs'[r] = Idle
         /\ \A q \in Reqs \ {r} :
              /\ reqs[q].op # "revoke" => reqs'[q] = reqs[q]
              /\ reqs[q].op = "revoke" =>
                   reqs'[q] = RevokeAt(reqs[q].at, reqs[q].ids, reqs[q].start, reqs[q].since \cup left)
<1>1. reqs'[r] = Idle
  BY DEF Pass
<1>2. \A q \in Reqs \ {r} :
        /\ reqs[q].op # "revoke" => reqs'[q] = reqs[q]
        /\ reqs[q].op = "revoke" =>
             reqs'[q] = RevokeAt(reqs[q].at, reqs[q].ids, reqs[q].start, reqs[q].since \cup left)
  <2> SUFFICES ASSUME NEW q \in Reqs \ {r}
               PROVE  /\ reqs[q].op # "revoke" => reqs'[q] = reqs[q]
                      /\ reqs[q].op = "revoke" =>
                           reqs'[q] = RevokeAt(reqs[q].at, reqs[q].ids, reqs[q].start,
                                               reqs[q].since \cup left)
    OBVIOUS
  <2>1. reqs[q].op # "revoke" => reqs'[q] = reqs[q]
    BY DEF Pass
  <2>2. CASE reqs[q].op = "revoke"
    <3> DEFINE p == reqs[q]
    <3>1. p = RevokeAt(p.at, p.ids, p.start, p.since)
      BY <2>2, Shapes DEF Idle
    <3>2. [p EXCEPT !.since = p.since \cup left] = RevokeAt(p.at, p.ids, p.start, p.since \cup left)
      BY <3>1 DEF RevokeAt
    <3> QED BY <2>2, <3>2 DEF Pass
  <2> QED BY <2>1, <2>2
<1>3. \A q \in Reqs : reqs'[q] \in Request \cup {Idle}
  <2> SUFFICES ASSUME NEW q \in Reqs PROVE reqs'[q] \in Request \cup {Idle}
    OBVIOUS
  <2>1. CASE q # r /\ reqs[q].op = "revoke"
    <3> DEFINE p == reqs[q]
    <3>1. p \in Request
      BY <2>1 DEF Idle
    <3>2. /\ p.at \in {"flip", "candidates", "recheck", "delete", "bump"}
          /\ p.ids \subseteq Bridges /\ p.start \subseteq Bridges /\ p.since \subseteq Bridges
      BY <2>1, <3>1, Shapes
    <3> HIDE DEF p
    <3>3. RevokeAt(p.at, p.ids, p.start, p.since \cup left) \in Request
      BY <3>2, Requests
    <3> QED BY <1>2, <2>1, <3>3 DEF p
  <2> QED BY <1>1, <1>2, <2>1
<1> QED BY <1>1, <1>2, <1>3 DEF Pass

LEMMA PassedFields ==
  ASSUME RequestsTyped, NEW r \in Reqs, NEW left \in SUBSET Bridges, Pass(r, left)
  PROVE  \A q \in Reqs \ {r} :
           \/ reqs[q].op # "revoke" /\ reqs'[q] = reqs[q]
           \/ /\ reqs[q].op = "revoke" /\ reqs'[q].op = "revoke"
              /\ reqs'[q].at = reqs[q].at /\ reqs'[q].ids = reqs[q].ids
              /\ reqs'[q].start = reqs[q].start /\ reqs'[q].since = reqs[q].since \cup left
<1> SUFFICES ASSUME NEW q \in Reqs \ {r}, ~(reqs[q].op # "revoke" /\ reqs'[q] = reqs[q])
             PROVE  /\ reqs[q].op = "revoke" /\ reqs'[q].op = "revoke"
                    /\ reqs'[q].at = reqs[q].at /\ reqs'[q].ids = reqs[q].ids
                    /\ reqs'[q].start = reqs[q].start /\ reqs'[q].since = reqs[q].since \cup left
  OBVIOUS
<1>1. reqs[q].op = "revoke"
  BY PassIs DEF RequestsTyped
<1>2. reqs'[q] = RevokeAt(reqs[q].at, reqs[q].ids, reqs[q].start, reqs[q].since \cup left)
  BY <1>1, PassIs DEF RequestsTyped
<1> QED BY <1>1, <1>2 DEF RevokeAt

\* The steps, by what they are about.
AccountStep(r) ==
  SignInArrives(r) \/ UpsertAccount(r) \/ CreateUser(r) \/ FindUser(r) \/ LogoutArrives(r) \/ BumpVersion(r)
BridgeStep(r) ==
  \/ RegisterArrives(r) \/ CountBridges(r) \/ InsertBridge(r) \/ Rerank(r)
  \/ (\E b \in Bridges : RevokeOneArrives(r, b)) \/ RevokeOne(r) \/ DeleteOne(r)
RevokeStep(r) ==
  RevokeArrives(r) \/ RevokeAll(r) \/ FindCandidates(r) \/ FindRevoked(r) \/ DeleteAll(r)
GlossaryStep(r) ==
  \/ \E s \in Scopes, W \in SUBSET Words : AddArrives(r, s, W) \/ RemoveArrives(r, s, W)
  \/ CheckBridge(r) \/ ReadExisting(r) \/ ReadCount(r) \/ AddWords(r)
  \/ RecheckBridge(r) \/ CleanUp(r) \/ RemoveWords(r)

LEMMA Steps ==
  Next <=> \/ \E t \in tokens : Refresh(t)
           \/ \E r \in Reqs : \/ AccountStep(r) \/ BridgeStep(r) \/ RevokeStep(r) \/ GlossaryStep(r)
                              \/ GiveUp(r) \/ Fail(r)
BY Zenon DEF Next, AccountStep, BridgeStep, RevokeStep, GlossaryStep

\* What a request that gives up or fails leaves behind.
LeftBehind(r) == {b \in Revoked : InCharge(reqs[r], b) /\ WordsOf(b) # {}}
Unwanted(r) == IF WordsOf(reqs[r].b) = {} THEN {} ELSE {reqs[r].b}

LEMMA GivingUp ==
  ASSUME reqs \in [Reqs -> Request \cup {Idle}], RequestsFit, NEW r \in Reqs, GiveUp(r)
  PROVE  reqs[r].b \in Bridges /\ Pass(r, Unwanted(r)) /\ Unwanted(r) \subseteq Bridges
<1>1. At(r, "register", "giveUp") /\ reqs[r].b \in Registered
  BY DEF GiveUp, RequestsFit, Fits, At
<1>2. reqs[r].b \in Bridges
  BY <1>1 DEF Registered, Live, Revoked
<1> QED BY <1>2 DEF GiveUp, Pass, Unwanted

LEMMA Failing ==
  ASSUME NEW r \in Reqs, Fail(r)
  PROVE  Pass(r, LeftBehind(r)) /\ LeftBehind(r) \subseteq Bridges
BY DEF Fail, Pass, LeftBehind, Revoked

-----------------------------------------------------------------------------
(* Type correctness. *)

LEMMA AccountTypes ==
  ASSUME TypeOK, NEW r \in Reqs, AccountStep(r)
  PROVE  TypeOK'
<1> USE DEF TypeOK
<1>1. \E n \in Request \cup {Idle} : Turn(r, n)
  <2>1. /\ SignInAt("upsert") \in Request
        /\ SignInAt(IF hasAccount THEN "find" ELSE "create") \in Request
        /\ [op |-> "logout", at |-> "bump"] \in Request
    BY Requests
  <2> QED BY <2>1, AccountTurns DEF AccountStep
<1>2. RequestsTyped'
  BY <1>1, TurnIs DEF RequestsTyped
<1>3. UNCHANGED <<bridgeDocs, glossary>>
  BY DEF AccountStep, SignInArrives, UpsertAccount, CreateUser, FindUser, LogoutArrives, BumpVersion,
         Start
<1>4. CASE SignInArrives(r) \/ LogoutArrives(r)
  BY <1>2, <1>3, <1>4 DEF RequestsTyped, SignInArrives, LogoutArrives, Start, account, bridgeDocs, glossary
<1>5. CASE UpsertAccount(r)
  BY <1>2, <1>3, <1>5 DEF RequestsTyped, UpsertAccount, bridgeDocs, glossary
<1>6. CASE CreateUser(r)
  <2>1. [version |-> 0, ended |-> FALSE] \in Token /\ 0 \in Versions
    BY DEF Token, Versions
  <2> QED BY <1>2, <1>3, <1>6, <2>1 DEF RequestsTyped, CreateUser, bridgeDocs, glossary
<1>7. CASE FindUser(r)
  <2>1. [version |-> IF version = None THEN 0 ELSE version, ended |-> FALSE] \in Token
    BY DEF Token, Versions
  <2> QED BY <1>2, <1>3, <1>7, <2>1 DEF RequestsTyped, FindUser, bridgeDocs, glossary
<1>8. CASE BumpVersion(r)
  <2>1. tokens' \subseteq Token
    <3>1. ASSUME NEW t \in tokens PROVE [t EXCEPT !.ended = TRUE] \in Token
      <4>1. t \in Token
        OBVIOUS
      <4> QED BY <4>1 DEF Token
    <3>2. tokens' = {[t EXCEPT !.ended = TRUE] : t \in tokens}
      BY <1>8 DEF BumpVersion
    <3> HIDE DEF TypeOK
    <3> QED BY <3>1, <3>2
  <2>2. version' \in Versions \cup {None}
    BY <1>8 DEF BumpVersion, Versions
  <2>3. tooEarly' \in BOOLEAN
    BY <1>8, Zenon DEF BumpVersion
  <2> QED BY <1>2, <1>3, <1>8, <2>1, <2>2, <2>3 DEF RequestsTyped, BumpVersion, bridgeDocs, glossary
<1> QED BY <1>4, <1>5, <1>6, <1>7, <1>8 DEF AccountStep

LEMMA BridgeTypes ==
  ASSUME TypeOK, RequestsFit, NEW r \in Reqs, BridgeStep(r)
  PROVE  TypeOK'
<1> USE DEF TypeOK
<1>1. \E n \in Request \cup {Idle} : Turn(r, n)
  <2>1. CASE RegisterArrives(r) \/ CountBridges(r)
    <3>1. RegisterAt("count", None) \in Request /\ \A b \in Bridges : RegisterAt("insert", b) \in Request
      BY Requests
    <3> QED BY <2>1, <3>1, BridgeTurns
  <2>2. CASE InsertBridge(r) \/ Rerank(r)
    <3>1. reqs[r].op = "register"
      BY <2>2 DEF InsertBridge, Rerank, At
    <3>2. reqs[r].b \in Bridges \cup {None}
      BY <3>1, Shapes DEF Idle
    <3>3. RegisterAt("rerank", reqs[r].b) \in Request /\ RegisterAt("giveUp", reqs[r].b) \in Request
      BY <3>2, Requests
    <3> QED BY <2>2, <3>3, BridgeTurns
  <2>3. CASE RevokeOne(r)
    <3>1. reqs[r].op = "revokeOne"
      BY <2>3 DEF RevokeOne, At
    <3>2. reqs[r].b \in Bridges
      BY <3>1, Shapes DEF Idle
    <3>3. RevokeOneAt("delete", reqs[r].b) \in Request
      BY <3>2, Requests
    <3> QED BY <2>3, <3>3, BridgeTurns
  <2>4. CASE (\E b \in Bridges : RevokeOneArrives(r, b)) \/ DeleteOne(r)
    <3>1. \A b \in Bridges : RevokeOneAt("flip", b) \in Request
      BY Requests
    <3> QED BY <2>4, <3>1, BridgeTurns
  <2> QED BY <2>1, <2>2, <2>3, <2>4 DEF BridgeStep
<1>2. RequestsTyped'
  BY <1>1, TurnIs DEF RequestsTyped
<1>3. UNCHANGED account
  BY DEF BridgeStep, RegisterArrives, CountBridges, InsertBridge, Rerank, RevokeOneArrives, RevokeOne,
         DeleteOne, Start
<1>4. CASE RegisterArrives(r) \/ CountBridges(r) \/ Rerank(r) \/ \E b \in Bridges : RevokeOneArrives(r, b)
  <2>1. UNCHANGED <<bridgeDocs, glossary>>
    BY <1>4 DEF RegisterArrives, CountBridges, Rerank, RevokeOneArrives, Start
  <2> QED BY <1>2, <1>3, <2>1 DEF RequestsTyped, account, bridgeDocs, glossary
<1>5. CASE InsertBridge(r)
  BY <1>2, <1>3, <1>5 DEF RequestsTyped, InsertBridge, account, glossary
<1>6. CASE RevokeOne(r)
  BY <1>2, <1>3, <1>6 DEF RequestsTyped, RevokeOne, account, glossary
<1>7. CASE DeleteOne(r)
  BY <1>2, <1>3, <1>7 DEF RequestsTyped, DeleteOne, DeleteWordsOf, account, bridgeDocs
<1> QED BY <1>4, <1>5, <1>6, <1>7 DEF BridgeStep

LEMMA RevokeTypes ==
  ASSUME TypeOK, NEW r \in Reqs, RevokeStep(r)
  PROVE  TypeOK'
<1> USE DEF TypeOK
<1>1. \E n \in Request \cup {Idle} : Turn(r, n)
  <2>1. CASE RevokeArrives(r)
    <3>1. Registered \in SUBSET Bridges /\ {} \in SUBSET Bridges
      BY DEF Registered, Live, Revoked
    <3>2. RevokeAt("flip", {}, Registered, {}) \in Request
      BY <3>1, Requests
    <3> QED BY <2>1, <3>2, RevokeTurns
  <2>2. CASE ~RevokeArrives(r)
    <3>1. reqs[r].op = "revoke"
      BY <2>2 DEF RevokeStep, RevokeAll, FindCandidates, FindRevoked, DeleteAll, At
    <3>2. reqs[r] \in Request
      BY <3>1 DEF Idle
    <3>3. /\ reqs[r].ids \in SUBSET Bridges /\ reqs[r].start \in SUBSET Bridges
          /\ reqs[r].since \in SUBSET Bridges
      BY <3>1, <3>2, Shapes
    <3>4. /\ {b \in Bridges : WordsOf(b) # {}} \in SUBSET Bridges
          /\ reqs[r].ids \cap Revoked \in SUBSET Bridges /\ {} \in SUBSET Bridges
      BY <3>3
    <3>5. \A at \in {"candidates", "recheck", "delete", "bump"}, ids \in SUBSET Bridges :
            RevokeAt(at, ids, reqs[r].start, reqs[r].since) \in Request
      BY <3>3, Requests
    <3> QED BY <2>2, <3>3, <3>4, <3>5, RevokeTurns DEF RevokeStep
  <2> QED BY <2>1, <2>2
<1>2. RequestsTyped'
  BY <1>1, TurnIs DEF RequestsTyped
<1>3. UNCHANGED account
  BY DEF RevokeStep, RevokeArrives, RevokeAll, FindCandidates, FindRevoked, DeleteAll, Start
<1>4. CASE RevokeArrives(r) \/ FindCandidates(r) \/ FindRevoked(r)
  <2>1. UNCHANGED <<bridgeDocs, glossary>>
    BY <1>4 DEF RevokeArrives, FindCandidates, FindRevoked, Start
  <2> QED BY <1>2, <1>3, <2>1 DEF RequestsTyped, account, bridgeDocs, glossary
<1>5. CASE RevokeAll(r)
  BY <1>2, <1>3, <1>5 DEF RequestsTyped, RevokeAll, account, glossary
<1>6. CASE DeleteAll(r)
  BY <1>2, <1>3, <1>6 DEF RequestsTyped, DeleteAll, DeleteWordsOf, account, bridgeDocs
<1> QED BY <1>4, <1>5, <1>6 DEF RevokeStep

LEMMA GlossaryTypes ==
  ASSUME TypeOK, IsFiniteSet(stored), RequestsFit, NEW r \in Reqs, GlossaryStep(r)
  PROVE  TypeOK'
<1> USE DEF TypeOK
<1> DEFINE q == reqs[r]
<1>1. \A s : WordsOf(s) \subseteq Words
  BY DEF WordsOf
<1>2. Cardinality(stored) \in Nat
  BY FS_CardinalityType
<1>3. \E n \in Request \cup {Idle} : Turn(r, n)
  <2>1. CASE \E s \in Scopes, W \in SUBSET Words : AddArrives(r, s, W) \/ RemoveArrives(r, s, W)
    <3>1. PICK s \in Scopes, W \in SUBSET Words : AddArrives(r, s, W) \/ RemoveArrives(r, s, W)
      BY <2>1
    <3>2. {} \in SUBSET Words /\ {} \in SUBSET {"existing", "count"} /\ 0 \in Nat
      OBVIOUS
    <3>3. /\ AddAt(IF s = Shared THEN "read" ELSE "check", s, W, {}, {}, 0) \in Request
          /\ RemoveAt(IF s = Shared THEN "pull" ELSE "check", s, W) \in Request
      BY <3>2, Requests
    <3> QED BY <3>1, <3>3, GlossaryTurns
  <2>2. CASE CheckBridge(r) \/ ReadExisting(r) \/ ReadCount(r)
    <3>1. (At(r, "add", "check") \/ At(r, "add", "read") \/ At(r, "remove", "check")) /\ q \in Request
      BY <2>2 DEF CheckBridge, ReadExisting, ReadCount, At, Idle
    <3>2. CASE q.op = "add"
      <4>1. q.at \notin {"recheck", "cleanup"} /\ q.op # "remove"
        BY <3>1, <3>2 DEF At
      <4>2. /\ q.scope \in Scopes /\ q.words \in SUBSET Words /\ q.existing \in SUBSET Words
            /\ q.count \in Nat /\ q.reads \in SUBSET {"existing", "count"}
        BY <3>1, <3>2, <4>1, Shapes
      <4>3. /\ WordsOf(q.scope) \in SUBSET Words
            /\ q.reads \cup {"existing"} \in SUBSET {"existing", "count"}
            /\ q.reads \cup {"count"} \in SUBSET {"existing", "count"}
        BY <1>1, <4>2
      <4>4. /\ AddAt("read", q.scope, q.words, q.reads, q.existing, q.count) \in Request
            /\ AddAt("read", q.scope, q.words, q.reads \cup {"existing"}, WordsOf(q.scope), q.count)
                 \in Request
            /\ AddAt("read", q.scope, q.words, q.reads \cup {"count"}, q.existing, Cardinality(stored))
                 \in Request
        BY <1>2, <4>2, <4>3, Requests
      <4> QED BY <2>2, <4>1, <4>4, GlossaryTurns DEF At
    <3>3. CASE q.op = "remove"
      <4>1. q.scope \in Scopes /\ q.words \in SUBSET Words
        BY <3>1, <3>3, Shapes
      <4>2. RemoveAt("pull", q.scope, q.words) \in Request
        BY <4>1, Requests
      <4> QED BY <2>2, <3>3, <4>2, GlossaryTurns DEF At, ReadExisting, ReadCount
    <3> QED BY <3>1, <3>2, <3>3 DEF At
  <2>3. CASE AddWords(r) \/ RecheckBridge(r)
    <3>1. q.op = "add" /\ q \in Request /\ q.at \in {"read", "recheck"}
      BY <2>3 DEF AddWords, RecheckBridge, At, Idle
    <3>2. q.scope \in Scopes \/ q.scope \in Bridges
      BY <3>1, Shapes
    <3>3. q.scope # Shared =>
            AddedAt("recheck", q.scope) \in Request /\ AddedAt("cleanup", q.scope) \in Request
      BY <3>2, Requests
    <3>4. RecheckBridge(r) => q.scope \in Bridges
      BY <3>1, Shapes DEF RecheckBridge, At
    <3> QED BY <2>3, <3>3, <3>4, GlossaryTurns
  <2>4. CASE CleanUp(r) \/ RemoveWords(r)
    BY <2>4, GlossaryTurns
  <2> QED BY <2>1, <2>2, <2>3, <2>4 DEF GlossaryStep
<1>4. RequestsTyped'
  BY <1>3, TurnIs DEF RequestsTyped
<1>5. UNCHANGED <<account, bridgeDocs>>
  BY DEF GlossaryStep, AddArrives, RemoveArrives, CheckBridge, ReadExisting, ReadCount, AddWords,
         RecheckBridge, CleanUp, RemoveWords, Start
<1>6. CASE AddWords(r)
  <2>1. q.op = "add" /\ q \in Request /\ q.at = "read"
    BY <1>6 DEF AddWords, At, Idle
  <2>2. q.scope \in Scopes /\ q.words \subseteq Words
    BY <2>1, Shapes
  <2>3. stored' \subseteq Scopes \X Words
    BY <1>6, <2>2 DEF AddWords, Grants
  <2> QED BY <1>4, <1>5, <1>6, <2>3 DEF RequestsTyped, AddWords, account, bridgeDocs
<1>7. CASE CleanUp(r) \/ RemoveWords(r)
  BY <1>4, <1>5, <1>7 DEF RequestsTyped, CleanUp, RemoveWords, DeleteWordsOf, account, bridgeDocs
<1>8. CASE ~AddWords(r) /\ ~CleanUp(r) /\ ~RemoveWords(r)
  <2>1. UNCHANGED glossary
    BY <1>8 DEF GlossaryStep, AddArrives, RemoveArrives, CheckBridge, ReadExisting, ReadCount,
                RecheckBridge, Start
  <2> QED BY <1>4, <1>5, <2>1 DEF RequestsTyped, account, bridgeDocs, glossary
<1> QED BY <1>6, <1>7, <1>8

LEMMA TypesAreKept ==
  ASSUME TypeOK, IsFiniteSet(stored), RequestsFit, [Next]_vars
  PROVE  TypeOK'
<1>1. CASE UNCHANGED vars
  BY <1>1 DEF vars, TypeOK
<1>2. ASSUME NEW t \in tokens, Refresh(t) PROVE TypeOK'
  <2>1. [version |-> version, ended |-> t.ended] \in Token
    <3>1. version \in Versions /\ t.ended \in BOOLEAN
      BY <1>2 DEF TypeOK, Refresh, Usable, Token
    <3> QED BY <3>1 DEF Token
  <2> QED BY <1>2, <2>1 DEF Refresh, TypeOK, bridgeDocs, glossary
<1>3. ASSUME NEW r \in Reqs, GiveUp(r) PROVE TypeOK'
  <2>1. reqs[r].b \in Bridges /\ Pass(r, Unwanted(r)) /\ Unwanted(r) \subseteq Bridges
    BY <1>3, GivingUp DEF TypeOK
  <2>2. RequestsTyped'
    BY <2>1, PassIs DEF TypeOK, RequestsTyped
  <2> QED BY <1>3, <2>1, <2>2 DEF GiveUp, Unwanted, TypeOK, RequestsTyped, account
<1>4. ASSUME NEW r \in Reqs, Fail(r) PROVE TypeOK'
  <2>1. Pass(r, LeftBehind(r)) /\ LeftBehind(r) \subseteq Bridges
    BY <1>4, Failing
  <2>2. RequestsTyped'
    BY <2>1, PassIs DEF TypeOK, RequestsTyped
  <2> QED BY <1>4, <2>1, <2>2 DEF Fail, LeftBehind, TypeOK, RequestsTyped, account, bridgeDocs
<1> QED
  BY <1>1, <1>2, <1>3, <1>4, Steps, AccountTypes, BridgeTypes, RevokeTypes, GlossaryTypes

-----------------------------------------------------------------------------
(* Accounts and tokens. *)

Creating(r) == At(r, "signIn", "create")

LEMMA AccountFrame ==
  ASSUME AccountInv, UNCHANGED account, \A r \in Reqs : Creating(r)' => Creating(r)
  PROVE  AccountInv'
<1>1. UNCHANGED <<hasAccount, version, tokens, tooEarly>>
  BY DEF account
<1> QED BY <1>1 DEF AccountInv, Creating

\* Only a sign-in comes to create a user.
LEMMA OthersDoNotCreate ==
  ASSUME TypeOK, TypeOK', NEW r \in Reqs, BridgeStep(r) \/ RevokeStep(r) \/ GlossaryStep(r)
  PROVE  UNCHANGED account /\ \A q \in Reqs : Creating(q)' => Creating(q)
<1>1. \E n : n.op # "signIn" /\ Turn(r, n)
  <2>1. /\ Idle.op # "signIn"
        /\ \A at, b : RegisterAt(at, b).op # "signIn" /\ RevokeOneAt(at, b).op # "signIn"
        /\ \A at, ids, start, since : RevokeAt(at, ids, start, since).op # "signIn"
    BY DEF Idle, RegisterAt, RevokeOneAt, RevokeAt
  <2>2. /\ \A at, s : AddedAt(at, s).op # "signIn"
        /\ \A at, s, W : RemoveAt(at, s, W).op # "signIn"
        /\ \A at, s, W, reads, existing, count : AddAt(at, s, W, reads, existing, count).op # "signIn"
    BY DEF AddedAt, AddAt, RemoveAt
  <2>3. CASE BridgeStep(r)
    BY <2>1, <2>3, BridgeTurns DEF BridgeStep
  <2>4. CASE RevokeStep(r)
    BY <2>1, <2>4, RevokeTurns DEF RevokeStep
  <2>5. CASE GlossaryStep(r)
    <3>1. CASE \E s \in Scopes, W \in SUBSET Words : AddArrives(r, s, W) \/ RemoveArrives(r, s, W)
      <4>1. PICK s \in Scopes, W \in SUBSET Words : AddArrives(r, s, W) \/ RemoveArrives(r, s, W)
        BY <3>1
      <4>2. \/ Turn(r, AddAt(IF s = Shared THEN "read" ELSE "check", s, W, {}, {}, 0))
            \/ Turn(r, RemoveAt(IF s = Shared THEN "pull" ELSE "check", s, W))
        BY <4>1, GlossaryTurns
      <4> QED BY <2>2, <4>2, Zenon
    <3>2. CASE CheckBridge(r)
      <4>1. \/ Turn(r, Idle)
            \/ \E s, W, reads, existing, count :
                 Turn(r, AddAt("read", s, W, reads, existing, count)) \/ Turn(r, RemoveAt("pull", s, W))
        BY <3>2, GlossaryTurns, Zenon
      <4> QED BY <2>1, <2>2, <4>1, Zenon
    <3>3. CASE ReadExisting(r) \/ ReadCount(r)
      <4>1. \E s, W, reads, existing, count : Turn(r, AddAt("read", s, W, reads, existing, count))
        BY <3>3, GlossaryTurns, Zenon
      <4> QED BY <2>2, <4>1, Zenon
    <3>4. CASE AddWords(r) \/ RecheckBridge(r)
      BY <2>1, <2>2, <3>4, GlossaryTurns
    <3>5. CASE CleanUp(r) \/ RemoveWords(r)
      BY <2>1, <3>5, GlossaryTurns
    <3> QED BY <2>5, <3>1, <3>2, <3>3, <3>4, <3>5 DEF GlossaryStep
  <2> QED BY <2>3, <2>4, <2>5
<1>2. reqs'[r].op # "signIn" /\ \A q \in Reqs \ {r} : reqs'[q] = reqs[q]
  BY <1>1 DEF Turn, TypeOK
<1>3. BridgeStep(r) => UNCHANGED account
  BY DEF BridgeStep, RegisterArrives, CountBridges, InsertBridge, Rerank, RevokeOneArrives, RevokeOne,
         DeleteOne, Start
<1>4. RevokeStep(r) => UNCHANGED account
  BY DEF RevokeStep, RevokeArrives, RevokeAll, FindCandidates, FindRevoked, DeleteAll, Start
<1>5. GlossaryStep(r) => UNCHANGED account
  BY DEF GlossaryStep, AddArrives, RemoveArrives, CheckBridge, ReadExisting, ReadCount, AddWords,
         RecheckBridge, CleanUp, RemoveWords, Start
<1> QED BY <1>2, <1>3, <1>4, <1>5 DEF Creating, At

LEMMA PassingDoesNotCreate ==
  ASSUME TypeOK, NEW r \in Reqs, NEW left \in SUBSET Bridges, Pass(r, left)
  PROVE  \A q \in Reqs : Creating(q)' => Creating(q)
<1>1. \A q \in Reqs \ {r} : \/ reqs'[q] = reqs[q]
                            \/ reqs'[q].op = "revoke"
  <2> SUFFICES ASSUME NEW q \in Reqs \ {r}, reqs'[q] # reqs[q] PROVE reqs'[q].op = "revoke"
    OBVIOUS
  <2>1. reqs \in [Reqs -> Request \cup {Idle}]
    BY DEF TypeOK
  <2>2. reqs'[q] = RevokeAt(reqs[q].at, reqs[q].ids, reqs[q].start, reqs[q].since \cup left)
    BY <2>1, PassIs, Zenon
  <2> QED BY <2>2 DEF RevokeAt
<1>2. reqs'[r] = Idle
  BY PassIs DEF TypeOK
<1> QED BY <1>1, <1>2 DEF Creating, At, Idle

LEMMA AccountStepKeeps ==
  ASSUME TypeOK, AccountInv, NEW r \in Reqs, AccountStep(r)
  PROVE  AccountInv'
<1>1. /\ version \in Versions \cup {None} /\ 0 \in Versions /\ None \notin Nat
      /\ \A t \in tokens : t.version \in Nat
  BY DEF TypeOK, Token, Versions
<1>2. \A n : Turn(r, n) => reqs'[r] = n /\ \A q \in Reqs \ {r} : reqs'[q] = reqs[q]
  BY DEF Turn, TypeOK
<1>3. CASE SignInArrives(r) \/ LogoutArrives(r)
  <2>1. \E n : ~(n.op = "signIn" /\ n.at = "create") /\ Turn(r, n)
    BY <1>3, AccountTurns DEF SignInAt
  <2>2. UNCHANGED account
    BY <1>3 DEF SignInArrives, LogoutArrives, Start
  <2> QED BY <1>2, <2>1, <2>2, AccountFrame DEF Creating, At
<1>4. CASE UpsertAccount(r)
  <2>1. hasAccount' = TRUE /\ UNCHANGED <<version, tokens, tooEarly>>
    BY <1>4 DEF UpsertAccount
  <2>2. reqs'[r] = SignInAt(IF hasAccount THEN "find" ELSE "create")
    BY <1>2, <1>4, AccountTurns
  <2>3. \A q \in Reqs : Creating(q)' => Creating(q) \/ (q = r /\ ~hasAccount)
    BY <1>2, <1>4, <2>2, AccountTurns DEF Creating, At, SignInAt
  <2>4. ~hasAccount => version = None /\ \A q \in Reqs : ~Creating(q)
    BY DEF AccountInv, Creating
  <2> QED BY <2>1, <2>3, <2>4 DEF AccountInv, Creating
<1>5. CASE CreateUser(r)
  <2>1. /\ version = None /\ hasAccount /\ \A q \in Reqs : Creating(q) => q = r
    BY <1>5 DEF CreateUser, AccountInv, Creating
  <2>2. /\ version' = 0 /\ tokens' = tokens \cup {[version |-> 0, ended |-> FALSE]}
        /\ UNCHANGED <<hasAccount, tooEarly>>
    BY <1>5 DEF CreateUser
  <2>3. \A q \in Reqs : ~Creating(q)'
    BY <1>2, <1>5, <2>1, AccountTurns DEF Creating, At, Idle
  <2>4. \A t \in tokens' : t.version <= 0
    BY <2>1, <2>2 DEF AccountInv
  <2>5. ~tooEarly => \A t \in tokens' : ~t.ended
    BY <2>1, <2>2 DEF AccountInv
  <2>6. version' # None
    BY <1>1, <2>2
  <2> QED BY <2>1, <2>2, <2>3, <2>4, <2>5, <2>6 DEF AccountInv, Creating
<1>6. CASE FindUser(r)
  <2>1. /\ tokens' = tokens \cup {[version |-> IF version = None THEN 0 ELSE version, ended |-> FALSE]}
        /\ UNCHANGED <<hasAccount, version, tooEarly>>
    BY <1>6 DEF FindUser
  <2>2. \A q \in Reqs : Creating(q)' => Creating(q)
    BY <1>2, <1>6, AccountTurns DEF Creating, At, Idle
  <2>3. \A t \in tokens' : t.version <= IF version = None THEN 0 ELSE version
    BY <1>1, <2>1 DEF AccountInv, Versions
  <2>4. ~tooEarly => \A t \in tokens' : t.ended => version # None /\ t.version < version
    BY <2>1 DEF AccountInv
  <2> QED BY <2>1, <2>2, <2>3, <2>4 DEF AccountInv, Creating
<1>7. CASE BumpVersion(r)
  <2>1. /\ IF version = None THEN UNCHANGED version /\ tooEarly' = TRUE
           ELSE version < MaxVersion /\ version' = version + 1 /\ UNCHANGED tooEarly
        /\ tokens' = {[t EXCEPT !.ended = TRUE] : t \in tokens}
        /\ UNCHANGED hasAccount
    BY <1>7 DEF BumpVersion
  <2>2. \A q \in Reqs : Creating(q)' => Creating(q) /\ q # r
    BY <1>2, <1>7, AccountTurns DEF Creating, At, Idle
  <2>3. \A t \in tokens' : \E u \in tokens : t.version = u.version
    BY <2>1 DEF TypeOK, Token
  <2>4. CASE version = None
    <3>1. tooEarly' /\ version' = None
      BY <2>1, <2>4
    <3>2. \A t \in tokens' : t.version <= 0
      BY <2>3, <2>4 DEF AccountInv
    <3> QED BY <2>1, <2>2, <2>4, <3>1, <3>2 DEF AccountInv, Creating
  <2>5. CASE version # None
    <3>1. version \in Nat /\ version' = version + 1 /\ UNCHANGED tooEarly /\ hasAccount
      BY <1>1, <2>1, <2>5 DEF AccountInv, Versions
    <3>2. \A q \in Reqs : ~Creating(q)'
      BY <2>2, <2>5 DEF AccountInv, Creating
    <3>3. \A t \in tokens' : t.version \in Nat /\ t.version <= version
      BY <1>1, <2>3, <2>5 DEF AccountInv
    <3>4. version' # None /\ \A t \in tokens' : t.version < version'
      BY <1>1, <3>1, <3>3
    <3>5. \A t \in tokens' : t.version <= version'
      BY <3>1, <3>3
    <3> QED BY <2>1, <3>1, <3>2, <3>4, <3>5 DEF AccountInv, Creating
  <2> QED BY <2>4, <2>5
<1> QED BY <1>3, <1>4, <1>5, <1>6, <1>7 DEF AccountStep

LEMMA AccountIsKept ==
  ASSUME TypeOK, TypeOK', RequestsFit, AccountInv, [Next]_vars
  PROVE  AccountInv'
<1>1. CASE UNCHANGED vars
  BY <1>1, AccountFrame DEF vars, account, Creating, At
<1>2. ASSUME NEW t \in tokens, Refresh(t) PROVE AccountInv'
  <2>1. /\ tokens' = tokens \cup {[version |-> version, ended |-> t.ended]}
        /\ UNCHANGED <<hasAccount, version, tooEarly, reqs>>
        /\ version # None /\ t.version = version
    BY <1>2 DEF Refresh, Usable
  <2>2. version \in Nat
    BY <2>1 DEF TypeOK, Versions
  <2>3. ~tooEarly => ~t.ended
    BY <2>1, <2>2 DEF AccountInv
  <2>4. \A u \in tokens' : u.version <= version
    BY <2>1, <2>2 DEF AccountInv
  <2>5. ~tooEarly => \A u \in tokens' : u.ended => u.version < version
    BY <2>1, <2>3 DEF AccountInv
  <2> QED BY <2>1, <2>4, <2>5 DEF AccountInv, At
<1>3. ASSUME NEW r \in Reqs, GiveUp(r) \/ Fail(r) PROVE AccountInv'
  <2>1. \E left \in SUBSET Bridges : Pass(r, left)
    BY <1>3, GivingUp, Failing DEF TypeOK
  <2>2. \A q \in Reqs : Creating(q)' => Creating(q)
    BY <2>1, PassingDoesNotCreate
  <2>3. UNCHANGED account
    BY <1>3 DEF GiveUp, Fail
  <2> QED BY <2>2, <2>3, AccountFrame
<1> QED BY <1>1, <1>2, <1>3, Steps, AccountStepKeeps, OthersDoNotCreate, AccountFrame

-----------------------------------------------------------------------------
(* Requests and bridges. *)

\* No bridge comes back, and only those of X are new.
Grows(X) ==
  Revoked \subseteq Revoked' /\ Registered \subseteq Registered' /\ Registered' \subseteq Registered \cup X

LEMMA FitsLasts ==
  ASSUME TypeOK, TypeOK', NEW q, Fits(q), NEW X, Grows(X),
         q.op = "register" /\ q.at = "insert" => q.b \notin X
  PROVE  Fits(q)'
<1>1. \A b \in Bridges : bridges[b] = "none" <=> b \notin Registered
  BY DEF TypeOK, Registered, Live, Revoked
<1>2. \A b \in Bridges : bridges'[b] = "none" <=> b \notin Registered'
  BY DEF TypeOK, Registered, Live, Revoked
<1> QED BY <1>1, <1>2 DEF Fits, Grows

LEMMA TurnFits ==
  ASSUME TypeOK, TypeOK', RequestsFit, NEW r \in Reqs, NEW n \in Request \cup {Idle}, Turn(r, n),
         Fits(n)',
         NEW X, IsFiniteSet(X), Grows(X),
         \A q \in Inserting \ {r} : reqs[q].b \notin X,
         n.op = "register" /\ n.at = "insert" => \A q \in Inserting \ {r} : reqs[q].b # n.b
  PROVE  RequestsFit'
<1>1. reqs'[r] = n /\ \A q \in Reqs \ {r} : reqs'[q] = reqs[q]
  BY TurnIs DEF TypeOK
<1>2. IsFiniteSet(Registered)'
  <2>1. IsFiniteSet(Registered \cup X)
    BY FS_Union DEF RequestsFit
  <2>2. Registered' \subseteq Registered \cup X
    BY DEF Grows
  <2> QED BY <2>1, <2>2, FS_Subset
<1>3. \A q \in Reqs : Fits(reqs[q])'
  <2> SUFFICES ASSUME NEW q \in Reqs \ {r} PROVE Fits(reqs[q])'
    BY <1>1 DEF Fits
  <2>1. PICK p : p = reqs[q]
    OBVIOUS
  <2>2. reqs'[q] = p
    BY <1>1, <2>1
  <2>3. Fits(p)
    BY <2>1 DEF RequestsFit
  <2>4. p.op = "register" /\ p.at = "insert" => p.b \notin X
    BY <2>1 DEF Inserting, At
  <2>5. Fits(p)'
    BY <2>3, <2>4, FitsLasts
  <2> QED BY <2>2, <2>5 DEF Fits
<1>4. \A p, q \in Inserting' : reqs'[p].b = reqs'[q].b => p = q
  <2>1. \A q \in Inserting' \ {r} : q \in Inserting \ {r} /\ reqs'[q] = reqs[q]
    BY <1>1 DEF Inserting, At
  <2>2. \A q \in Inserting' \ {r} : r \in Inserting' => reqs'[q].b # reqs'[r].b
    BY <1>1, <2>1 DEF Inserting, At
  <2> QED BY <2>1, <2>2 DEF RequestsFit
<1> QED BY <1>2, <1>3, <1>4 DEF RequestsFit

\* As long as no bridge changes, a step leaves the other requests alone.
LEMMA QuietTurnFits ==
  ASSUME TypeOK, TypeOK', RequestsFit, NEW r \in Reqs, NEW n \in Request \cup {Idle}, Turn(r, n),
         UNCHANGED bridges, Fits(n),
         n.op = "register" /\ n.at = "insert" => \A q \in Inserting \ {r} : reqs[q].b # n.b
  PROVE  RequestsFit'
<1>1. Grows({}) /\ IsFiniteSet({})
  BY FS_EmptySet DEF Grows, Registered, Live, Revoked
<1>2. Fits(n)'
  BY <1>1, FitsLasts
<1> QED BY <1>1, <1>2, TurnFits

LEMMA AccountStepFits ==
  ASSUME TypeOK, TypeOK', RequestsFit, NEW r \in Reqs, AccountStep(r)
  PROVE  RequestsFit'
<1>1. PICK n \in Request \cup {Idle} : Turn(r, n) /\ n.op \in {"none", "signIn", "logout"}
  <2>1. /\ SignInAt("upsert") \in Request
        /\ SignInAt(IF hasAccount THEN "find" ELSE "create") \in Request
        /\ [op |-> "logout", at |-> "bump"] \in Request
    BY Requests
  <2>2. \A at : SignInAt(at).op = "signIn" /\ Idle.op = "none"
    BY DEF SignInAt, Idle
  <2> QED BY <2>1, <2>2, AccountTurns DEF AccountStep
<1>2. Fits(n)
  BY <1>1 DEF Fits
<1>3. UNCHANGED bridges
  BY DEF AccountStep, SignInArrives, UpsertAccount, CreateUser, FindUser, LogoutArrives, BumpVersion,
         Start, bridgeDocs
<1> QED BY <1>1, <1>2, <1>3, QuietTurnFits

LEMMA RegisterFits ==
  ASSUME TypeOK, TypeOK', RequestsFit, NEW r \in Reqs,
         RegisterArrives(r) \/ CountBridges(r) \/ InsertBridge(r) \/ Rerank(r)
  PROVE  RequestsFit'
<1>1. Fits(Idle)
  BY DEF Fits, Idle
<1>2. CASE RegisterArrives(r)
  <2>1. Fits(RegisterAt("count", None)) /\ RegisterAt("count", None).at # "insert"
    BY DEF Fits, RegisterAt
  <2>2. RegisterAt("count", None) \in Request /\ UNCHANGED bridges
    BY <1>2, Requests DEF RegisterArrives, Start, bridgeDocs
  <2> QED BY <1>2, <2>1, <2>2, BridgeTurns, QuietTurnFits
<1>3. CASE CountBridges(r)
  <2>1. UNCHANGED bridges
    BY <1>3 DEF CountBridges, bridgeDocs
  <2>2. CASE Turn(r, Idle)
    BY <1>1, <2>1, <2>2, QuietTurnFits DEF Idle
  <2>3. CASE \E b \in Bridges : IsNew(b) /\ Turn(r, RegisterAt("insert", b))
    <3>1. PICK b \in Bridges : IsNew(b) /\ Turn(r, RegisterAt("insert", b))
      BY <2>3
    <3>2. Fits(RegisterAt("insert", b)) /\ RegisterAt("insert", b).b = b
      BY <3>1 DEF Fits, RegisterAt, IsNew
    <3>3. \A q \in Inserting \ {r} : reqs[q].b # b
      BY <3>1 DEF IsNew, Drawn, Inserting, At
    <3>4. RegisterAt("insert", b) \in Request
      BY Requests
    <3> QED BY <2>1, <3>1, <3>2, <3>3, <3>4, QuietTurnFits
  <2> QED BY <1>3, <2>2, <2>3, BridgeTurns
<1>4. CASE InsertBridge(r)
  <2>1. PICK b : b = reqs[r].b
    OBVIOUS
  <2>2. /\ r \in Inserting /\ b \in Bridges /\ bridges[b] = "none"
        /\ bridges' = [bridges EXCEPT ![b] = "live"]
    BY <1>4, <2>1 DEF InsertBridge, Inserting, RequestsFit, Fits, At
  <2>3. Grows({b}) /\ IsFiniteSet({b}) /\ b \in Registered'
    BY <2>2, FS_Singleton DEF Grows, Registered, Live, Revoked, TypeOK
  <2>4. \A q \in Inserting \ {r} : reqs[q].b \notin {b}
    BY <2>1, <2>2 DEF RequestsFit
  <2>5. Fits(RegisterAt("rerank", b))' /\ RegisterAt("rerank", b).at # "insert"
    BY <2>3 DEF Fits, RegisterAt
  <2>6. RegisterAt("rerank", b) \in Request
    BY <2>2, Requests
  <2>7. Turn(r, RegisterAt("rerank", b))
    BY <1>4, <2>1, BridgeTurns
  <2> QED BY <2>3, <2>4, <2>5, <2>6, <2>7, TurnFits
<1>5. CASE Rerank(r)
  <2>1. UNCHANGED bridges
    BY <1>5 DEF Rerank, bridgeDocs
  <2>2. CASE Turn(r, Idle)
    BY <1>1, <2>1, <2>2, QuietTurnFits DEF Idle
  <2>3. CASE Turn(r, RegisterAt("giveUp", reqs[r].b))
    <3>1. PICK b : b = reqs[r].b
      OBVIOUS
    <3>2. b \in Registered /\ b \in Bridges
      BY <1>5, <3>1 DEF Rerank, RequestsFit, Fits, At, Registered, Live, Revoked
    <3>3. Fits(RegisterAt("giveUp", b)) /\ RegisterAt("giveUp", b).at # "insert"
      BY <3>2 DEF Fits, RegisterAt
    <3>4. RegisterAt("giveUp", b) \in Request
      BY <3>2, Requests
    <3> QED BY <2>1, <2>3, <3>1, <3>3, <3>4, QuietTurnFits
  <2> QED BY <1>5, <2>2, <2>3, BridgeTurns
<1> QED BY <1>2, <1>3, <1>4, <1>5

\* A bridge that is revoked stays registered.
LEMMA RevokingGrows ==
  ASSUME TypeOK, TypeOK', NEW B \in SUBSET Registered,
         bridges' = [b \in Bridges |-> IF b \in B THEN "revoked" ELSE bridges[b]]
  PROVE  Grows({}) /\ IsFiniteSet({}) /\ B \subseteq Revoked'
BY FS_EmptySet DEF Grows, Registered, Live, Revoked, TypeOK

LEMMA RevokeOneFits ==
  ASSUME TypeOK, TypeOK', RequestsFit, NEW r \in Reqs,
         (\E b \in Bridges : RevokeOneArrives(r, b)) \/ RevokeOne(r) \/ DeleteOne(r)
  PROVE  RequestsFit'
<1>1. CASE \E b \in Bridges : RevokeOneArrives(r, b)
  <2>1. PICK b \in Bridges : RevokeOneArrives(r, b)
    BY <1>1
  <2>2. UNCHANGED bridges /\ b \in Registered
    BY <2>1 DEF RevokeOneArrives, Start, bridgeDocs, Registered, Live, Revoked, TypeOK
  <2>3. Fits(RevokeOneAt("flip", b)) /\ RevokeOneAt("flip", b).op # "register"
    BY <2>2 DEF Fits, RevokeOneAt
  <2>4. RevokeOneAt("flip", b) \in Request
    BY Requests
  <2> QED BY <2>1, <2>2, <2>3, <2>4, BridgeTurns, QuietTurnFits
<1>2. CASE RevokeOne(r)
  <2>1. PICK b : b = reqs[r].b
    OBVIOUS
  <2>2. b \in Registered /\ b \in Bridges /\ bridges' = [bridges EXCEPT ![b] = "revoked"]
    BY <1>2, <2>1 DEF RevokeOne, RequestsFit, Fits, At, Registered, Live, Revoked
  <2>3. bridges' = [c \in Bridges |-> IF c \in {b} THEN "revoked" ELSE bridges[c]]
    BY <2>2 DEF TypeOK
  <2>4. Grows({}) /\ IsFiniteSet({}) /\ b \in Revoked'
    BY <2>2, <2>3, RevokingGrows
  <2>5. Fits(RevokeOneAt("delete", b))' /\ RevokeOneAt("delete", b).op # "register"
    BY <2>4 DEF Fits, RevokeOneAt
  <2>6. RevokeOneAt("delete", b) \in Request /\ Turn(r, RevokeOneAt("delete", b))
    BY <1>2, <2>1, <2>2, Requests, BridgeTurns
  <2> QED BY <2>4, <2>5, <2>6, TurnFits
<1>3. CASE DeleteOne(r)
  <2>1. Turn(r, Idle) /\ UNCHANGED bridges
    BY <1>3, BridgeTurns DEF DeleteOne, bridgeDocs
  <2>2. Fits(Idle) /\ Idle.op # "register"
    BY DEF Fits, Idle
  <2> QED BY <2>1, <2>2, QuietTurnFits
<1> QED BY <1>1, <1>2, <1>3

LEMMA RevokeStepFits ==
  ASSUME TypeOK, TypeOK', RequestsFit, NEW r \in Reqs, RevokeStep(r)
  PROVE  RequestsFit'
<1>1. \A at, ids, start, since : LET n == RevokeAt(at, ids, start, since) IN
        /\ n.op = "revoke" /\ n.at = at /\ n.ids = ids /\ n.start = start
  BY DEF RevokeAt
<1>2. CASE RevokeArrives(r)
  <2>1. PICK S : S = Registered
    OBVIOUS
  <2>2. UNCHANGED bridges /\ S \subseteq Bridges
    BY <1>2, <2>1 DEF RevokeArrives, Start, bridgeDocs, Registered, Live, Revoked
  <2> DEFINE n == RevokeAt("flip", {}, S, {})
  <2>3. Fits(n) /\ n.op # "register"
    BY <2>1 DEF Fits, RevokeAt
  <2>4. n \in Request /\ Turn(r, n)
    BY <1>2, <2>1, <2>2, Requests, RevokeTurns
  <2> QED BY <2>2, <2>3, <2>4, QuietTurnFits
<1>3. CASE ~RevokeArrives(r)
  <2>1. PICK ids, start, since :
          ids = reqs[r].ids /\ start = reqs[r].start /\ since = reqs[r].since
    OBVIOUS
  <2>2. reqs[r].op = "revoke" /\ reqs[r] \in Request
    BY <1>3 DEF RevokeStep, RevokeAll, FindCandidates, FindRevoked, DeleteAll, At, TypeOK, Idle
  <2>3. ids \in SUBSET Bridges /\ start \in SUBSET Bridges /\ since \in SUBSET Bridges
    BY <2>1, <2>2, Shapes
  <2>4. Fits(reqs[r])
    BY DEF RequestsFit
  <2>5. CASE RevokeAll(r)
    <3> DEFINE n == RevokeAt("candidates", ids, start, since)
    <3>1. PICK B : B = Live
      OBVIOUS
    <3>2. bridges' = [b \in Bridges |-> IF b \in B THEN "revoked" ELSE bridges[b]]
      BY <2>5, <3>1 DEF RevokeAll, Live
    <3>3. B \in SUBSET Registered
      BY <3>1 DEF Registered
    <3>4. Grows({}) /\ IsFiniteSet({}) /\ B \subseteq Revoked'
      BY <3>2, <3>3, RevokingGrows
    <3>5. start \subseteq Revoked'
      <4>1. start \subseteq Registered
        BY <2>1, <2>4, <2>5 DEF Fits, RevokeAll, At
      <4> QED BY <3>1, <3>4, <4>1 DEF Registered, Grows
    <3>6. Fits(n)' /\ n.op # "register"
      BY <3>5 DEF Fits, RevokeAt
    <3>7. n \in Request /\ Turn(r, n)
      BY <2>1, <2>3, <2>5, Requests, RevokeTurns
    <3> HIDE DEF n
    <3> QED BY <3>4, <3>6, <3>7, TurnFits
  <2>6. CASE ~RevokeAll(r)
    <3>1. UNCHANGED bridges /\ start \subseteq Revoked
      BY <1>3, <2>1, <2>4, <2>6
      DEF RevokeStep, FindCandidates, FindRevoked, DeleteAll, Fits, At, bridgeDocs
    <3>2. PICK C, D : C = {b \in Bridges : WordsOf(b) # {}} /\ D = reqs[r].ids \cap Revoked
      OBVIOUS
    <3>3. C \in SUBSET Bridges /\ D \in SUBSET Bridges /\ D \subseteq Revoked /\ {} \in SUBSET Bridges
      BY <2>1, <2>3, <3>2
    <3>4. \/ Turn(r, RevokeAt("recheck", C, start, since))
          \/ Turn(r, RevokeAt("delete", D, start, since))
          \/ Turn(r, RevokeAt("bump", {}, start, since))
      BY <1>3, <2>1, <2>6, <3>2, RevokeTurns DEF RevokeStep
    <3>5. /\ Fits(RevokeAt("recheck", C, start, since))
          /\ Fits(RevokeAt("delete", D, start, since))
          /\ Fits(RevokeAt("bump", {}, start, since))
      BY <3>1, <3>3 DEF Fits, RevokeAt
    <3>6. /\ RevokeAt("recheck", C, start, since) \in Request
          /\ RevokeAt("delete", D, start, since) \in Request
          /\ RevokeAt("bump", {}, start, since) \in Request
      BY <2>3, <3>3, Requests
    <3>7. \A at, I : RevokeAt(at, I, start, since).op # "register"
      BY <1>1
    <3> QED BY <3>1, <3>4, <3>5, <3>6, <3>7, QuietTurnFits
  <2> QED BY <2>5, <2>6
<1> QED BY <1>2, <1>3

LEMMA GlossaryStepFits ==
  ASSUME TypeOK, TypeOK', RequestsFit, NEW r \in Reqs, GlossaryStep(r)
  PROVE  RequestsFit'
<1>1. UNCHANGED bridges
  BY DEF GlossaryStep, AddArrives, RemoveArrives, CheckBridge, ReadExisting, ReadCount, AddWords,
         RecheckBridge, CleanUp, RemoveWords, Start, bridgeDocs
<1>2. /\ \A at, s : LET n == AddedAt(at, s) IN n.op = "add" /\ n.at = at /\ n.scope = s
      /\ \A at, s, W : LET n == RemoveAt(at, s, W) IN n.op = "remove" /\ n.at = at /\ n.scope = s
      /\ \A at, s, W, reads, existing, count : LET n == AddAt(at, s, W, reads, existing, count) IN
           n.op = "add" /\ n.at = at /\ n.scope = s
  BY DEF AddedAt, RemoveAt, AddAt
<1>3. Fits(Idle) /\ Idle.op # "register"
  BY DEF Fits, Idle
<1>4. \A n \in Request \cup {Idle} : Turn(r, n) /\ n.op \in {"add", "remove"} /\ Fits(n) => RequestsFit'
  BY <1>1, QuietTurnFits
<1>5. Turn(r, Idle) => RequestsFit'
  BY <1>1, <1>3, QuietTurnFits
<1>6. reqs'[r] \in Request \cup {Idle}
  BY DEF TypeOK
<1>7. \A n : Turn(r, n) => n = reqs'[r]
  BY DEF Turn, TypeOK
<1>8. CASE \E s \in Scopes, W \in SUBSET Words : AddArrives(r, s, W) \/ RemoveArrives(r, s, W)
  <2>1. PICK s \in Scopes, W \in SUBSET Words : AddArrives(r, s, W) \/ RemoveArrives(r, s, W)
    BY <1>8
  <2>2. s \in Registered \cup {Shared}
    BY <2>1 DEF AddArrives, RemoveArrives, Registered
  <2>3. /\ Fits(AddAt(IF s = Shared THEN "read" ELSE "check", s, W, {}, {}, 0))
        /\ Fits(RemoveAt(IF s = Shared THEN "pull" ELSE "check", s, W))
    BY <2>2 DEF Fits, AddAt, RemoveAt
  <2>4. \/ Turn(r, AddAt(IF s = Shared THEN "read" ELSE "check", s, W, {}, {}, 0))
        \/ Turn(r, RemoveAt(IF s = Shared THEN "pull" ELSE "check", s, W))
    BY <2>1, GlossaryTurns
  <2>5. PICK n : Turn(r, n) /\ n.op \in {"add", "remove"} /\ Fits(n)
    BY <1>2, <2>3, <2>4
  <2> QED BY <1>4, <1>6, <1>7, <2>5
<1>9. ASSUME ~\E s \in Scopes, W \in SUBSET Words : AddArrives(r, s, W) \/ RemoveArrives(r, s, W)
      PROVE  RequestsFit'
  <2> DEFINE q == reqs[r]
  <2>1. q.op \in {"add", "remove"} /\ q.scope \in Registered \cup {Shared}
    BY <1>9 DEF GlossaryStep, CheckBridge, ReadExisting, ReadCount, AddWords, RecheckBridge, CleanUp,
                RemoveWords, At, RequestsFit, Fits
  <2>2. RecheckBridge(r) => q.scope \in Bridges
    <3> SUFFICES ASSUME RecheckBridge(r) PROVE q.scope \in Bridges
      OBVIOUS
    <3>1. q.op = "add" /\ q.at = "recheck" /\ q \in Request
      BY DEF RecheckBridge, At, TypeOK, Idle
    <3> QED BY <3>1, Shapes
  <2>3. RecheckBridge(r) /\ q.scope \notin Live => q.scope \in Revoked
    BY <2>1, <2>2 DEF Registered
  <2>4. \/ Turn(r, Idle)
        \/ \E n : Turn(r, n) /\ n.op \in {"add", "remove"} /\ n.scope = q.scope /\ n.at # "cleanup"
        \/ /\ q.scope \in Revoked
           /\ \E n : Turn(r, n) /\ n.op = "add" /\ n.scope = q.scope
    <3>1. CASE CheckBridge(r)
      <4>1. \/ Turn(r, Idle)
            \/ Turn(r, AddAt("read", q.scope, q.words, q.reads, q.existing, q.count))
            \/ Turn(r, RemoveAt("pull", q.scope, q.words))
        BY <3>1, GlossaryTurns
      <4> QED BY <1>2, <4>1
    <3>2. CASE ReadExisting(r) \/ ReadCount(r)
      <4>1. \E W, reads, existing, count : Turn(r, AddAt("read", q.scope, W, reads, existing, count))
        BY <3>2, GlossaryTurns, Zenon
      <4> QED BY <1>2, <4>1
    <3>3. CASE AddWords(r)
      <4>1. Turn(r, Idle) \/ Turn(r, AddedAt("recheck", q.scope))
        BY <3>3, GlossaryTurns
      <4> QED BY <1>2, <4>1
    <3>4. CASE RecheckBridge(r)
      <4>1. Turn(r, Idle) \/ (q.scope \in Revoked /\ Turn(r, AddedAt("cleanup", q.scope)))
        BY <2>3, <3>4, GlossaryTurns
      <4> QED BY <1>2, <4>1
    <3>5. CASE CleanUp(r) \/ RemoveWords(r)
      BY <3>5, GlossaryTurns
    <3> QED BY <1>9, <3>1, <3>2, <3>3, <3>4, <3>5 DEF GlossaryStep
  <2>5. \A n : /\ n.op \in {"add", "remove"} /\ n.scope = q.scope
               /\ n.at # "cleanup" \/ q.scope \in Revoked
               => Fits(n)
    BY <2>1 DEF Fits
  <2> HIDE DEF q
  <2> QED BY <1>4, <1>5, <1>6, <1>7, <2>4, <2>5
<1> QED BY <1>8, <1>9

LEMMA PassFits ==
  ASSUME TypeOK, TypeOK', RequestsFit, NEW r \in Reqs, NEW left \in SUBSET Bridges, Pass(r, left),
         Grows({})
  PROVE  RequestsFit'
<1>1. IsFiniteSet(Registered)'
  BY FS_Subset DEF RequestsFit, Grows
<1>2. RequestsTyped
  BY DEF TypeOK, RequestsTyped
<1>3. reqs'[r] = Idle
  BY <1>2, PassIs DEF RequestsTyped
<1>4. \A q \in Reqs \ {r} :
        \/ reqs[q].op # "revoke" /\ reqs'[q] = reqs[q]
        \/ /\ reqs[q].op = "revoke" /\ reqs'[q].op = "revoke"
           /\ reqs'[q].at = reqs[q].at /\ reqs'[q].ids = reqs[q].ids
           /\ reqs'[q].start = reqs[q].start
  BY <1>2, PassedFields
<1>5. \A q \in Reqs : Fits(reqs[q])'
  <2> SUFFICES ASSUME NEW q \in Reqs PROVE Fits(reqs[q])'
    OBVIOUS
  <2>1. PICK p, n : p = reqs[q] /\ n = reqs'[q]
    OBVIOUS
  <2>2. Fits(p)'
    BY <2>1, FitsLasts DEF RequestsFit
  <2>3. \/ n = p \/ n = Idle
        \/ /\ p.op = "revoke" /\ n.op = "revoke" /\ n.at = p.at
           /\ n.ids = p.ids /\ n.start = p.start
    BY <1>3, <1>4, <2>1
  <2>4. Fits(n)'
    BY <2>2, <2>3 DEF Fits, Idle
  <2> QED BY <2>1, <2>4 DEF Fits
<1>6. \A q \in Inserting' : q \in Inserting /\ reqs'[q] = reqs[q]
  BY <1>3, <1>4 DEF Inserting, At, Idle
<1> QED BY <1>1, <1>5, <1>6 DEF RequestsFit

LEMMA FittingIsKept ==
  ASSUME TypeOK, TypeOK', RequestsFit, [Next]_vars
  PROVE  RequestsFit'
<1>1. CASE UNCHANGED <<bridges, reqs>>
  <2>1. UNCHANGED <<Registered, Revoked, Inserting>>
    BY <1>1 DEF Registered, Live, Revoked, Inserting, At
  <2> QED BY <1>1, <2>1 DEF RequestsFit, Fits
<1>2. UNCHANGED vars \/ (\E t \in tokens : Refresh(t)) => UNCHANGED <<bridges, reqs>>
  BY DEF vars, Refresh, bridgeDocs
<1>3. ASSUME NEW r \in Reqs, GiveUp(r) PROVE RequestsFit'
  <2>1. /\ reqs[r].b \in Bridges /\ Pass(r, Unwanted(r)) /\ Unwanted(r) \subseteq Bridges
        /\ bridges' = [bridges EXCEPT ![reqs[r].b] = "revoked"]
    BY <1>3, GivingUp DEF TypeOK, GiveUp
  <2>2. PICK left \in SUBSET Bridges, b \in Bridges : left = Unwanted(r) /\ b = reqs[r].b
    BY <2>1
  <2>3. b \in Registered
    BY <1>3, <2>2 DEF GiveUp, At, RequestsFit, Fits
  <2>4. bridges' = [c \in Bridges |-> IF c \in {b} THEN "revoked" ELSE bridges[c]]
    BY <2>1, <2>2 DEF TypeOK
  <2>5. Grows({})
    <3>1. PICK B \in SUBSET Registered : B = {b}
      BY <2>3
    <3> QED BY <2>4, <3>1, RevokingGrows
  <2> QED BY <2>1, <2>2, <2>5, PassFits
<1>4. ASSUME NEW r \in Reqs, Fail(r) PROVE RequestsFit'
  <2>1. Pass(r, LeftBehind(r)) /\ LeftBehind(r) \in SUBSET Bridges /\ UNCHANGED bridges
    BY <1>4, Failing DEF Fail, bridgeDocs
  <2>2. Grows({})
    BY <2>1 DEF Grows, Registered, Live, Revoked
  <2>3. PICK left \in SUBSET Bridges : left = LeftBehind(r)
    BY <2>1
  <2> QED BY <2>1, <2>2, <2>3, PassFits
<1> QED
  BY <1>1, <1>2, <1>3, <1>4, Steps, AccountStepFits, RegisterFits, RevokeOneFits, RevokeStepFits,
     GlossaryStepFits DEF BridgeStep

-----------------------------------------------------------------------------
(* The words of revoked bridges. *)

Cleaning == WordsDieWithBridge /\ RevokesCover

\* A step keeps the words covered if its request, whenever it lays down the charge of a
\* revoked bridge, has left it no words.
LEMMA TurnCleans ==
  ASSUME TypeOK, TypeOK', RequestsFit', Cleaning,
         NEW r \in Reqs, NEW n \in Request \cup {Idle}, Turn(r, n),
         \A b \in Revoked' : WordsOf(b)' # {} =>
           \/ InCharge(n, b)
           \/ /\ b \in Revoked /\ WordsOf(b) # {} /\ ~InCharge(reqs[r], b)
              /\ b \in stale => b \in stale',
         n.op = "revoke" /\ n.at # "flip" =>
           \/ n.at = "candidates"
           \/ /\ reqs[r].op = "revoke" /\ reqs[r].at # "flip"
              /\ n.start = reqs[r].start /\ n.since = reqs[r].since
  PROVE  Cleaning'
<1>1. reqs'[r] = n /\ \A q \in Reqs \ {r} : reqs'[q] = reqs[q]
  BY DEF Turn, TypeOK
<1>2. \A b : Covered(b)' <=> InCharge(n, b) \/ \E q \in Reqs \ {r} : InCharge(reqs[q], b)
  BY <1>1 DEF Covered, InCharge
<1>3. ASSUME NEW b \in Revoked', WordsOf(b)' # {}
      PROVE  \/ Covered(b)'
             \/ /\ b \in Revoked /\ WordsOf(b) # {} /\ ~Covered(b)
                /\ b \in stale => b \in stale'
  BY <1>2, <1>3 DEF Covered
<1>4. WordsDieWithBridge'
  <2> SUFFICES ASSUME NEW b \in Revoked', WordsOf(b)' # {}, ~Covered(b)' PROVE b \in stale'
    BY DEF WordsDieWithBridge, Covered
  <2>1. b \in Revoked /\ WordsOf(b) # {} /\ ~Covered(b) /\ (b \in stale => b \in stale')
    BY <1>3
  <2> QED BY <2>1 DEF Cleaning, WordsDieWithBridge, Covered
<1>5. RevokesCover'
  <2> SUFFICES ASSUME NEW q \in Reqs, reqs'[q].op = "revoke", reqs'[q].at # "flip",
                      NEW b \in reqs'[q].start, WordsOf(b)' # {}, ~Covered(b)'
               PROVE  b \in reqs'[q].since
    BY DEF RevokesCover
  <2>1. b \in Revoked'
    BY DEF RequestsFit, Fits
  <2>2. b \in Revoked /\ WordsOf(b) # {} /\ ~Covered(b)
    BY <1>3, <2>1
  <2>3. reqs'[q].at # "candidates"
    BY DEF Covered, InCharge
  <2>4. /\ reqs[q].op = "revoke" /\ reqs[q].at # "flip"
        /\ reqs'[q].start = reqs[q].start /\ reqs'[q].since = reqs[q].since
    BY <1>1, <2>3
  <2> QED BY <2>2, <2>4 DEF Cleaning, RevokesCover
<1> QED BY <1>4, <1>5 DEF Cleaning

LEMMA NobodyIdleIsInCharge ==
  \A b : ~InCharge(Idle, b)
BY DEF InCharge, Idle

\* A request that is neither in charge of anything nor a revoke under way changes nothing.
LEMMA QuietTurnCleans ==
  ASSUME TypeOK, TypeOK', RequestsFit', Cleaning,
         NEW r \in Reqs, NEW n \in Request \cup {Idle}, Turn(r, n), UNCHANGED <<bridges, stored, stale>>,
         \A b : ~InCharge(reqs[r], b),
         n.op = "revoke" => n.at = "flip"
  PROVE  Cleaning'
<1>1. \A b : UNCHANGED WordsOf(b) /\ UNCHANGED Revoked
  BY DEF WordsOf, Revoked
<1> QED BY <1>1, TurnCleans

LEMMA Deleting ==
  ASSUME NEW B, DeleteWordsOf(B)
  PROVE  \A b : WordsOf(b)' # {} => /\ b \notin B /\ WordsOf(b) # {}
                                    /\ b \in stale => b \in stale'
BY DEF DeleteWordsOf, WordsOf

LEMMA AccountStepCleans ==
  ASSUME TypeOK, TypeOK', RequestsFit', Cleaning, NEW r \in Reqs, AccountStep(r)
  PROVE  Cleaning'
<1>1. PICK n \in Request \cup {Idle} : Turn(r, n) /\ n.op # "revoke"
  <2>1. /\ SignInAt("upsert") \in Request
        /\ SignInAt(IF hasAccount THEN "find" ELSE "create") \in Request
        /\ [op |-> "logout", at |-> "bump"] \in Request
    BY Requests
  <2>2. \A at : SignInAt(at).op = "signIn" /\ Idle.op = "none"
    BY DEF SignInAt, Idle
  <2> QED BY <2>1, <2>2, AccountTurns DEF AccountStep
<1>2. \A b : ~InCharge(reqs[r], b)
  BY DEF AccountStep, SignInArrives, UpsertAccount, CreateUser, FindUser, LogoutArrives, BumpVersion,
         Start, At, InCharge, Idle
<1>3. UNCHANGED <<bridges, stored, stale>>
  BY DEF AccountStep, SignInArrives, UpsertAccount, CreateUser, FindUser, LogoutArrives, BumpVersion,
         Start, bridgeDocs, glossary
<1> QED BY <1>1, <1>2, <1>3, QuietTurnCleans

LEMMA BridgeStepCleans ==
  ASSUME TypeOK, TypeOK', RequestsFit, RequestsFit', Cleaning, NEW r \in Reqs, BridgeStep(r)
  PROVE  Cleaning'
<1> DEFINE n == reqs'[r]
<1>1. n \in Request \cup {Idle}
  BY DEF TypeOK
<1>2. \A m : Turn(r, m) => n = m
  BY DEF Turn, TypeOK
<1>3. /\ Idle.op = "none"
      /\ \A at, b : RegisterAt(at, b).op = "register" /\ RevokeOneAt(at, b).op = "revokeOne"
  BY DEF Idle, RegisterAt, RevokeOneAt
<1>4. CASE RegisterArrives(r) \/ CountBridges(r) \/ Rerank(r) \/ \E b \in Bridges : RevokeOneArrives(r, b)
  <2>1. PICK m : Turn(r, m) /\ m.op # "revoke"
    <3>1. Turn(r, Idle) \/ \E at, b : Turn(r, RegisterAt(at, b)) \/ Turn(r, RevokeOneAt(at, b))
      BY <1>4, BridgeTurns, Zenon
    <3> QED BY <1>3, <3>1
  <2>2. \A b : ~InCharge(reqs[r], b)
    BY <1>4 DEF RegisterArrives, CountBridges, Rerank, RevokeOneArrives, Start, At, InCharge, Idle
  <2>3. UNCHANGED <<bridges, stored, stale>>
    BY <1>4 DEF RegisterArrives, CountBridges, Rerank, RevokeOneArrives, Start, bridgeDocs, glossary
  <2> QED BY <1>1, <1>2, <2>1, <2>2, <2>3, QuietTurnCleans
<1>5. CASE InsertBridge(r)
  <2>1. PICK m : Turn(r, m) /\ m.op = "register"
    BY <1>3, <1>5, BridgeTurns
  <2>2. \A b : ~InCharge(reqs[r], b)
    BY <1>5 DEF InsertBridge, At, InCharge
  <2>3. UNCHANGED <<stored, stale>> /\ Revoked' \subseteq Revoked
    BY <1>5 DEF InsertBridge, glossary, Revoked, TypeOK
  <2>4. \A b : UNCHANGED WordsOf(b)
    BY <2>3 DEF WordsOf
  <2> QED BY <1>1, <1>2, <2>1, <2>2, <2>3, <2>4, TurnCleans
<1>6. CASE RevokeOne(r)
  <2>1. PICK b : b = reqs[r].b
    OBVIOUS
  <2>2. PICK m : Turn(r, m) /\ m = RevokeOneAt("delete", b)
    BY <1>6, <2>1, BridgeTurns
  <2>3. InCharge(m, b) /\ m.op = "revokeOne"
    BY <2>2 DEF InCharge, RevokeOneAt
  <2>4. \A c : ~InCharge(reqs[r], c)
    BY <1>6 DEF RevokeOne, At, InCharge
  <2>5. UNCHANGED <<stored, stale>> /\ Revoked' \subseteq Revoked \cup {b}
    BY <1>6, <2>1 DEF RevokeOne, glossary, Revoked, TypeOK
  <2>6. \A c : UNCHANGED WordsOf(c)
    BY <2>5 DEF WordsOf
  <2> QED BY <1>1, <1>2, <2>2, <2>3, <2>4, <2>5, <2>6, TurnCleans
<1>7. CASE DeleteOne(r)
  <2>1. PICK b : b = reqs[r].b
    OBVIOUS
  <2>2. Turn(r, Idle)
    BY <1>7, BridgeTurns
  <2>3. \A c : WordsOf(c)' # {} => /\ c # b /\ WordsOf(c) # {}
                                   /\ c \in stale => c \in stale'
    BY <1>7, <2>1, Deleting DEF DeleteOne
  <2>4. \A c : InCharge(reqs[r], c) => c = b
    BY <1>7, <2>1 DEF DeleteOne, At, InCharge
  <2>5. UNCHANGED Revoked
    BY <1>7 DEF DeleteOne, bridgeDocs, Revoked
  <2> QED BY <1>3, <2>2, <2>3, <2>4, <2>5, TurnCleans
<1> QED BY <1>4, <1>5, <1>6, <1>7 DEF BridgeStep

LEMMA RevokeStepCleans ==
  ASSUME TypeOK, TypeOK', RequestsFit', Cleaning, NEW r \in Reqs, RevokeStep(r)
  PROVE  Cleaning'
<1>1. reqs'[r] \in Request \cup {Idle}
  BY DEF TypeOK
<1>2. \A m : Turn(r, m) => reqs'[r] = m
  BY DEF Turn, TypeOK
<1>3. PICK ids, start, since : ids = reqs[r].ids /\ start = reqs[r].start /\ since = reqs[r].since
  OBVIOUS
<1>4. \A at, I, S, T : LET m == RevokeAt(at, I, S, T) IN
        m.op = "revoke" /\ m.at = at /\ m.ids = I /\ m.start = S /\ m.since = T
  BY DEF RevokeAt
<1>5. CASE RevokeArrives(r)
  <2>1. PICK S : S = Registered
    OBVIOUS
  <2>2. PICK m : Turn(r, m) /\ m = RevokeAt("flip", {}, S, {})
    BY <1>5, <2>1, RevokeTurns
  <2>3. m.at = "flip"
    BY <1>4, <2>2
  <2>4. \A b : ~InCharge(reqs[r], b)
    BY <1>5 DEF RevokeArrives, Start, InCharge, Idle
  <2>5. UNCHANGED <<bridges, stored, stale>>
    BY <1>5 DEF RevokeArrives, Start, bridgeDocs, glossary
  <2> QED BY <1>1, <1>2, <2>2, <2>3, <2>4, <2>5, QuietTurnCleans
<1>6. CASE RevokeAll(r)
  <2>1. PICK m : Turn(r, m) /\ m = RevokeAt("candidates", ids, start, since)
    BY <1>3, <1>6, RevokeTurns
  <2>2. m.at = "candidates" /\ \A b : InCharge(m, b)
    BY <1>4, <2>1 DEF InCharge
  <2> QED BY <1>1, <1>2, <2>1, <2>2, TurnCleans
<1>7. CASE FindCandidates(r) \/ FindRevoked(r)
  <2>1. PICK C : C = IF FindCandidates(r) THEN {b \in Bridges : WordsOf(b) # {}} ELSE ids \cap Revoked
    OBVIOUS
  <2>2. PICK m : Turn(r, m) /\ \E at \in {"recheck", "delete"} : m = RevokeAt(at, C, start, since)
    <3>1. FindCandidates(r) => ~FindRevoked(r)
      BY DEF FindCandidates, FindRevoked, At
    <3> QED BY <1>3, <1>7, <2>1, <3>1, RevokeTurns
  <2>3. /\ m.op = "revoke" /\ m.at \in {"recheck", "delete"} /\ m.ids = C
        /\ m.start = start /\ m.since = since
    BY <1>4, <2>2
  <2>4. UNCHANGED <<bridges, stored, stale>> /\ reqs[r].op = "revoke" /\ reqs[r].at # "flip"
    BY <1>7 DEF FindCandidates, FindRevoked, At, bridgeDocs, glossary
  <2>5. \A b : UNCHANGED WordsOf(b) /\ UNCHANGED Revoked
    BY <2>4 DEF WordsOf, Revoked
  <2>6. \A b \in Revoked : WordsOf(b) # {} /\ InCharge(reqs[r], b) => b \in C
    BY <1>3, <1>7, <2>1 DEF FindCandidates, FindRevoked, At, InCharge, Revoked
  <2>7. \A b \in Revoked : WordsOf(b) # {} /\ InCharge(reqs[r], b) => InCharge(m, b)
    BY <2>3, <2>6 DEF InCharge
  <2> QED BY <1>1, <1>2, <1>3, <2>2, <2>3, <2>4, <2>5, <2>7, TurnCleans
<1>8. CASE DeleteAll(r)
  <2>1. PICK m : Turn(r, m) /\ m = RevokeAt("bump", {}, start, since)
    BY <1>3, <1>8, RevokeTurns
  <2>2. m.start = start /\ m.since = since
    BY <1>4, <2>1
  <2>3. \A c : WordsOf(c)' # {} => /\ c \notin ids /\ WordsOf(c) # {}
                                   /\ c \in stale => c \in stale'
    BY <1>3, <1>8, Deleting DEF DeleteAll
  <2>4. /\ UNCHANGED Revoked /\ reqs[r].op = "revoke" /\ reqs[r].at # "flip"
        /\ \A c : InCharge(reqs[r], c) => c \in ids
    BY <1>3, <1>8 DEF DeleteAll, bridgeDocs, Revoked, At, InCharge
  <2> QED BY <1>1, <1>2, <1>3, <2>1, <2>2, <2>3, <2>4, TurnCleans
<1> QED BY <1>5, <1>6, <1>7, <1>8 DEF RevokeStep

LEMMA GlossaryStepCleans ==
  ASSUME TypeOK, TypeOK', RequestsFit', Cleaning, NEW r \in Reqs, GlossaryStep(r)
  PROVE  Cleaning'
<1>1. reqs'[r] \in Request \cup {Idle}
  BY DEF TypeOK
<1>2. \A m : Turn(r, m) => reqs'[r] = m
  BY DEF Turn, TypeOK
<1>3. PICK s : s = reqs[r].scope
  OBVIOUS
<1>4. /\ Idle.op = "none"
      /\ \A at, t : LET m == AddedAt(at, t) IN m.op = "add" /\ m.at = at /\ m.scope = t
      /\ \A at, t, W : RemoveAt(at, t, W).op = "remove"
      /\ \A at, t, W, reads, existing, count : AddAt(at, t, W, reads, existing, count).op = "add"
  BY DEF AddedAt, RemoveAt, AddAt, Idle
<1>5. UNCHANGED bridges /\ UNCHANGED Revoked
  BY DEF GlossaryStep, AddArrives, RemoveArrives, CheckBridge, ReadExisting, ReadCount, AddWords,
         RecheckBridge, CleanUp, RemoveWords, Start, bridgeDocs, Revoked
<1>6. CASE \E t \in Scopes, W \in SUBSET Words : AddArrives(r, t, W) \/ RemoveArrives(r, t, W)
  <2>1. PICK t \in Scopes, W \in SUBSET Words : AddArrives(r, t, W) \/ RemoveArrives(r, t, W)
    BY <1>6
  <2>2. \/ Turn(r, AddAt(IF t = Shared THEN "read" ELSE "check", t, W, {}, {}, 0))
        \/ Turn(r, RemoveAt(IF t = Shared THEN "pull" ELSE "check", t, W))
    BY <2>1, GlossaryTurns
  <2>3. PICK m : Turn(r, m) /\ m.op # "revoke"
    BY <1>4, <2>2
  <2>4. /\ UNCHANGED <<bridges, stored, stale>>
        /\ \A b : ~InCharge(reqs[r], b)
    BY <2>1 DEF AddArrives, RemoveArrives, Start, bridgeDocs, glossary, InCharge, Idle
  <2> QED BY <1>1, <1>2, <2>3, <2>4, QuietTurnCleans
<1>7. CASE CheckBridge(r) \/ ReadExisting(r) \/ ReadCount(r)
  <2>1. PICK m : Turn(r, m) /\ m.op # "revoke"
    <3>1. \/ Turn(r, Idle)
          \/ \E at, W, reads, existing, count : Turn(r, AddAt(at, s, W, reads, existing, count))
          \/ \E at, W : Turn(r, RemoveAt(at, s, W))
      BY <1>3, <1>7, GlossaryTurns, Zenon
    <3> QED BY <1>4, <3>1
  <2>2. /\ UNCHANGED <<bridges, stored, stale>>
        /\ \A b : ~InCharge(reqs[r], b)
    BY <1>7 DEF CheckBridge, ReadExisting, ReadCount, bridgeDocs, glossary, InCharge, At
  <2> QED BY <1>1, <1>2, <2>1, <2>2, QuietTurnCleans
<1>8. CASE AddWords(r)
  <2>1. PICK m : Turn(r, m) /\ m.op # "revoke" /\ (s # Shared => InCharge(m, s))
    <3>1. IF s = Shared THEN Turn(r, Idle) ELSE Turn(r, AddedAt("recheck", s))
      BY <1>3, <1>8, GlossaryTurns
    <3>2. InCharge(AddedAt("recheck", s), s)
      BY <1>4 DEF InCharge
    <3> QED BY <1>4, <3>1, <3>2
  <2>2. PICK W : stored' = stored \cup ({s} \X W)
    BY <1>3, <1>8 DEF AddWords
  <2>3. \A b : b # s => UNCHANGED WordsOf(b)
    BY <2>2 DEF WordsOf
  <2>4. UNCHANGED stale /\ \A b : ~InCharge(reqs[r], b)
    BY <1>8 DEF AddWords, At, InCharge
  <2>5. Shared \notin Revoked
    BY DEF Revoked
  <2> QED BY <1>1, <1>2, <1>5, <2>1, <2>3, <2>4, <2>5, TurnCleans
<1>9. CASE RecheckBridge(r)
  <2>1. PICK m : Turn(r, m) /\ m.op # "revoke" /\ (s \notin Live => InCharge(m, s))
    <3>1. IF s \in Live THEN Turn(r, Idle) ELSE Turn(r, AddedAt("cleanup", s))
      BY <1>3, <1>9, GlossaryTurns
    <3>2. InCharge(AddedAt("cleanup", s), s)
      BY <1>4 DEF InCharge
    <3> QED BY <1>4, <3>1, <3>2
  <2>2. UNCHANGED <<stored, stale>> /\ \A b : InCharge(reqs[r], b) => b = s
    BY <1>3, <1>9 DEF RecheckBridge, At, InCharge, glossary
  <2>3. \A b : UNCHANGED WordsOf(b)
    BY <2>2 DEF WordsOf
  <2>4. \A b \in Revoked : b \notin Live
    BY DEF Revoked, Live
  <2> QED BY <1>1, <1>2, <1>5, <2>1, <2>2, <2>3, <2>4, TurnCleans
<1>10. CASE CleanUp(r)
  <2>1. Turn(r, Idle)
    BY <1>10, GlossaryTurns
  <2>2. \A c : WordsOf(c)' # {} => /\ c # s /\ WordsOf(c) # {}
                                   /\ c \in stale => c \in stale'
    BY <1>3, <1>10, Deleting DEF CleanUp
  <2>3. \A c : InCharge(reqs[r], c) => c = s
    BY <1>3, <1>10 DEF CleanUp, At, InCharge
  <2> QED BY <1>4, <1>5, <2>1, <2>2, <2>3, TurnCleans
<1>11. CASE RemoveWords(r)
  <2>1. Turn(r, Idle)
    BY <1>11, GlossaryTurns
  <2>2. UNCHANGED stale /\ stored' \subseteq stored /\ \A b : ~InCharge(reqs[r], b)
    BY <1>11 DEF RemoveWords, At, InCharge
  <2>3. \A b : WordsOf(b)' # {} => WordsOf(b) # {}
    BY <2>2 DEF WordsOf
  <2> QED BY <1>4, <1>5, <2>1, <2>2, <2>3, TurnCleans
<1> QED BY <1>6, <1>7, <1>8, <1>9, <1>10, <1>11 DEF GlossaryStep

\* A request that ends in charge hands the words to stale, and to every revoke under way.
LEMMA PassCleans ==
  ASSUME TypeOK, TypeOK', RequestsFit', Cleaning,
         NEW r \in Reqs, NEW left \in SUBSET Bridges, Pass(r, left),
         UNCHANGED stored, stale' = stale \cup left,
         \A b \in Revoked' : WordsOf(b) # {} =>
           b \in left \/ (b \in Revoked /\ ~InCharge(reqs[r], b))
  PROVE  Cleaning'
<1>1. RequestsTyped
  BY DEF TypeOK, RequestsTyped
<1>2. reqs'[r] = Idle
  BY <1>1, PassIs DEF RequestsTyped
<1>3. \A q \in Reqs \ {r} :
        \/ reqs[q].op # "revoke" /\ reqs'[q] = reqs[q]
        \/ /\ reqs[q].op = "revoke" /\ reqs'[q].op = "revoke"
           /\ reqs'[q].at = reqs[q].at /\ reqs'[q].ids = reqs[q].ids
           /\ reqs'[q].start = reqs[q].start /\ reqs'[q].since = reqs[q].since \cup left
  BY <1>1, PassedFields
<1>4. \A b : \A q \in Reqs \ {r} : InCharge(reqs[q], b) => InCharge(reqs'[q], b)
  BY <1>3 DEF InCharge
<1>5. \A b : UNCHANGED WordsOf(b)
  BY DEF WordsOf
<1>6. \A b \in Revoked' : WordsOf(b) # {} =>
        b \in left \/ (b \in Revoked /\ (Covered(b) => Covered(b)'))
  BY <1>4 DEF Covered
<1>7. WordsDieWithBridge'
  <2> SUFFICES ASSUME NEW b \in Revoked', WordsOf(b)' # {}, ~Covered(b)' PROVE b \in stale'
    BY DEF WordsDieWithBridge, Covered
  <2>1. b \in left \/ (b \in Revoked /\ ~Covered(b))
    BY <1>5, <1>6
  <2> QED BY <1>5, <2>1 DEF Cleaning, WordsDieWithBridge, Covered
<1>8. RevokesCover'
  <2> SUFFICES ASSUME NEW q \in Reqs, reqs'[q].op = "revoke", reqs'[q].at # "flip",
                      NEW b \in reqs'[q].start, WordsOf(b)' # {}, ~Covered(b)'
               PROVE  b \in reqs'[q].since
    BY DEF RevokesCover
  <2>1. b \in Revoked'
    BY DEF RequestsFit, Fits
  <2>2. b \in left \/ (b \in Revoked /\ ~Covered(b))
    BY <1>5, <1>6, <2>1
  <2>3. q # r
    BY <1>2 DEF Idle
  <2>4. /\ reqs[q].op = "revoke" /\ reqs[q].at # "flip"
        /\ reqs'[q].start = reqs[q].start /\ reqs'[q].since = reqs[q].since \cup left
    BY <1>3, <2>3
  <2> QED BY <1>5, <2>2, <2>4 DEF Cleaning, RevokesCover
<1> QED BY <1>7, <1>8 DEF Cleaning

LEMMA CleaningIsKept ==
  ASSUME TypeOK, TypeOK', RequestsFit, RequestsFit', Cleaning, [Next]_vars
  PROVE  Cleaning'
<1>1. CASE UNCHANGED <<bridges, stored, stale, reqs>>
  <2>1. UNCHANGED Revoked /\ \A b : UNCHANGED WordsOf(b) /\ (Covered(b)' <=> Covered(b))
    BY <1>1 DEF Revoked, WordsOf, Covered
  <2> QED BY <1>1, <2>1 DEF Cleaning, WordsDieWithBridge, RevokesCover, Covered
<1>2. UNCHANGED vars \/ (\E t \in tokens : Refresh(t)) => UNCHANGED <<bridges, stored, stale, reqs>>
  BY DEF vars, Refresh, bridgeDocs, glossary
<1>3. ASSUME NEW r \in Reqs, GiveUp(r) PROVE Cleaning'
  <2>1. /\ reqs[r].b \in Bridges /\ Pass(r, Unwanted(r)) /\ Unwanted(r) \subseteq Bridges
        /\ bridges' = [bridges EXCEPT ![reqs[r].b] = "revoked"]
        /\ stale' = stale \cup Unwanted(r) /\ UNCHANGED stored
        /\ reqs[r].op = "register"
    BY <1>3, GivingUp DEF TypeOK, GiveUp, Unwanted, At
  <2>2. PICK left \in SUBSET Bridges, b \in Bridges : left = Unwanted(r) /\ b = reqs[r].b
    BY <2>1
  <2>3. Revoked' \subseteq Revoked \cup {b}
    BY <2>1, <2>2 DEF Revoked, TypeOK
  <2>4. WordsOf(b) # {} => b \in left
    BY <2>2 DEF Unwanted
  <2>5. \A c : ~InCharge(reqs[r], c)
    BY <2>1 DEF InCharge
  <2> QED BY <2>1, <2>2, <2>3, <2>4, <2>5, PassCleans
<1>4. ASSUME NEW r \in Reqs, Fail(r) PROVE Cleaning'
  <2>1. /\ Pass(r, LeftBehind(r)) /\ LeftBehind(r) \in SUBSET Bridges /\ UNCHANGED <<bridges, stored>>
        /\ stale' = stale \cup LeftBehind(r)
    BY <1>4, Failing DEF Fail, bridgeDocs, LeftBehind
  <2>2. PICK left \in SUBSET Bridges : left = LeftBehind(r)
    BY <2>1
  <2>3. UNCHANGED Revoked
    BY <2>1 DEF Revoked
  <2>4. \A b \in Revoked : WordsOf(b) # {} => b \in left \/ ~InCharge(reqs[r], b)
    BY <2>2 DEF LeftBehind
  <2> QED BY <2>1, <2>2, <2>3, <2>4, PassCleans
<1> QED
  BY <1>1, <1>2, <1>3, <1>4, Steps, AccountStepCleans, BridgeStepCleans, RevokeStepCleans,
     GlossaryStepCleans

-----------------------------------------------------------------------------
(* The caps. *)

LEMMA LiveIsFinite ==
  ASSUME RequestsFit
  PROVE  /\ IsFiniteSet(Live) /\ Cardinality(Live) \in Nat
         /\ IsFiniteSet(Inserting) /\ Cardinality(Inserting) \in Nat
         /\ Cardinality(Inserting) <= Cardinality(Reqs) /\ Cardinality(Reqs) \in Nat
<1>1. Live \subseteq Registered /\ Inserting \subseteq Reqs
  BY DEF Registered, Inserting
<1> QED BY <1>1, FS_Subset, FS_CardinalityType DEF RequestsFit

\* No more bridges live, and no more are to be inserted.
LEMMA BridgesShrink ==
  ASSUME RequestsFit, BridgesFit, Live' \subseteq Live, Inserting' \subseteq Inserting
  PROVE  BridgesFit'
<1>1. Cardinality(Live') \in Nat /\ Cardinality(Live') <= Cardinality(Live)
  BY LiveIsFinite, FS_Subset, FS_CardinalityType
<1>2. Cardinality(Inserting') \in Nat /\ Cardinality(Inserting') <= Cardinality(Inserting)
  BY LiveIsFinite, FS_Subset, FS_CardinalityType
<1> QED BY <1>1, <1>2, LiveIsFinite DEF BridgesFit

LEMMA CountingFits ==
  ASSUME TypeOK, RequestsFit, RequestsFit', BridgesFit, NEW r \in Reqs, CountBridges(r)
  PROVE  BridgesFit'
<1>1. UNCHANGED Live
  BY DEF CountBridges, bridgeDocs, Live
<1>2. CASE Turn(r, Idle)
  <2>1. Inserting' \subseteq Inserting
    BY <1>2 DEF Turn, TypeOK, Inserting, At, Idle
  <2> QED BY <1>1, <2>1, BridgesShrink
<1>3. CASE ~(Cardinality(Live) >= MaxBridges)
  <2>1. Cardinality(Inserting') \in Nat /\ Cardinality(Inserting') <= Cardinality(Reqs)
    <3>1. Inserting' \subseteq Reqs
      BY DEF Inserting
    <3> QED BY <3>1, FS_Subset, FS_CardinalityType
  <2>2. Cardinality(Live') = Cardinality(Live)
    BY <1>1
  <2> QED BY <1>3, <2>1, <2>2, LiveIsFinite DEF BridgesFit
<1> QED BY <1>2, <1>3, BridgeTurns

LEMMA InsertingFits ==
  ASSUME TypeOK, RequestsFit, RequestsFit', BridgesFit, NEW r \in Reqs, InsertBridge(r)
  PROVE  BridgesFit'
<1>1. PICK b : b = reqs[r].b
  OBVIOUS
<1>2. Live' \subseteq Live \cup {b} /\ r \in Inserting
  BY <1>1 DEF InsertBridge, Live, TypeOK, Inserting
<1>3. Inserting' \subseteq Inserting \ {r}
  <2>1. Turn(r, RegisterAt("rerank", b)) /\ RegisterAt("rerank", b).at # "insert"
    BY <1>1, BridgeTurns DEF RegisterAt
  <2> QED BY <2>1 DEF Turn, TypeOK, Inserting, At
<1>4. Cardinality(Live') \in Nat /\ Cardinality(Live') <= Cardinality(Live) + 1
  <2>1. /\ IsFiniteSet(Live \cup {b}) /\ Cardinality(Live \cup {b}) \in Nat
        /\ Cardinality(Live \cup {b}) <= Cardinality(Live) + 1
    <3>1. /\ IsFiniteSet(Live \cup {b})
          /\ Cardinality(Live \cup {b}) = IF b \in Live THEN Cardinality(Live) ELSE Cardinality(Live) + 1
      BY LiveIsFinite, FS_AddElement
    <3> QED BY <3>1, LiveIsFinite
  <2>2. Cardinality(Live') \in Nat /\ Cardinality(Live') <= Cardinality(Live \cup {b})
    BY <1>2, <2>1, FS_Subset, FS_CardinalityType
  <2> QED BY <2>1, <2>2, LiveIsFinite
<1>5. Cardinality(Inserting') \in Nat /\ Cardinality(Inserting') <= Cardinality(Inserting) - 1
  <2>1. /\ IsFiniteSet(Inserting \ {r}) /\ Cardinality(Inserting \ {r}) = Cardinality(Inserting) - 1
    BY <1>2, LiveIsFinite, FS_RemoveElement
  <2>2. /\ Cardinality(Inserting') \in Nat
        /\ Cardinality(Inserting') <= Cardinality(Inserting \ {r})
    BY <1>3, <2>1, FS_Subset, FS_CardinalityType
  <2> QED BY <2>1, <2>2
<1> QED BY <1>4, <1>5, LiveIsFinite DEF BridgesFit

\* A bridge that is given up or about to be.
Late(b) == b \in Revoked \/ \E r \in Reqs : At(r, "register", "giveUp") /\ reqs[r].b = b

\* The bridges below one are only ever more.
LEMMA LateLasts ==
  ASSUME RequestsFit, RequestsFit', GivenUpAreLate, Registered \subseteq Registered',
         ~closed' => /\ ~closed
                     /\ \A b \in Bridges : Late(b)' => Late(b) \/ Cardinality(Below(b)) >= MaxBridges
  PROVE  GivenUpAreLate'
<1> SUFFICES ASSUME ~closed', NEW b \in Bridges, Late(b)' PROVE Cardinality(Below(b)') >= MaxBridges
  BY DEF GivenUpAreLate, Late
<1>1. Cardinality(Below(b)) >= MaxBridges
  BY DEF GivenUpAreLate, Late
<1>2. /\ IsFiniteSet(Below(b)') /\ Below(b) \subseteq Below(b)'
  <2>1. Below(b)' \subseteq Registered'
    BY DEF Below
  <2> QED BY <2>1, FS_Subset DEF RequestsFit, Below
<1>3. /\ Cardinality(Below(b)) <= Cardinality(Below(b)')
      /\ Cardinality(Below(b)) \in Nat /\ Cardinality(Below(b)') \in Nat
  BY <1>2, FS_Subset, FS_CardinalityType
<1> QED BY <1>1, <1>3

BridgeCaps == BridgesFit /\ GivenUpAreLate

\* Steps that change no bridge, and bring no registration further.
LEMMA QuietCaps ==
  ASSUME RequestsFit, RequestsFit', BridgeCaps, UNCHANGED bridgeDocs,
         \A q \in Reqs : \A at \in {"insert", "giveUp"} :
           At(q, "register", at)' => At(q, "register", at) /\ reqs'[q].b = reqs[q].b
  PROVE  BridgeCaps'
<1>1. UNCHANGED <<closed, Live, Revoked, Registered>> /\ Inserting' \subseteq Inserting
  BY DEF bridgeDocs, Live, Revoked, Registered, Inserting
<1>2. \A b \in Bridges : Late(b)' => Late(b)
  BY <1>1 DEF Late
<1> QED BY <1>1, <1>2, BridgesShrink, LateLasts DEF BridgeCaps

LEMMA QuietTurnCaps ==
  ASSUME TypeOK, RequestsFit, RequestsFit', BridgeCaps, UNCHANGED bridgeDocs,
         NEW r \in Reqs, NEW n, Turn(r, n), n.op = "register" => n.at \notin {"insert", "giveUp"}
  PROVE  BridgeCaps'
<1>1. reqs'[r] = n /\ \A q \in Reqs \ {r} : reqs'[q] = reqs[q]
  BY DEF Turn, TypeOK
<1> QED BY <1>1, QuietCaps DEF At

LEMMA AccountStepCaps ==
  ASSUME TypeOK, RequestsFit, RequestsFit', BridgeCaps, NEW r \in Reqs, AccountStep(r)
  PROVE  BridgeCaps'
<1>1. PICK n : Turn(r, n) /\ n.op # "register"
  <2>1. \A at : SignInAt(at).op = "signIn" /\ Idle.op = "none"
    BY DEF SignInAt, Idle
  <2> QED BY <2>1, AccountTurns DEF AccountStep
<1>2. UNCHANGED bridgeDocs
  BY DEF AccountStep, SignInArrives, UpsertAccount, CreateUser, FindUser, LogoutArrives, BumpVersion,
         Start
<1> QED BY <1>1, <1>2, QuietTurnCaps

\* Whoever gives up its bridge has seen a full cap of live ones before it.
LEMMA PastCapIsLate ==
  ASSUME RequestsFit, NEW b, PastCap(b)
  PROVE  Cardinality(Below(b)) >= MaxBridges
<1>1. /\ {c \in Live : c < b} \subseteq Below(b) /\ Below(b) \subseteq Registered
  BY DEF Below, Registered
<1>2. /\ IsFiniteSet(Below(b)) /\ Cardinality(Below(b)) \in Nat
      /\ Cardinality({c \in Live : c < b}) \in Nat
      /\ Cardinality({c \in Live : c < b}) <= Cardinality(Below(b))
  BY <1>1, FS_Subset, FS_CardinalityType DEF RequestsFit
<1> QED BY <1>2 DEF PastCap

LEMMA RegisterCaps ==
  ASSUME TypeOK, RequestsFit, RequestsFit', BridgeCaps, NEW r \in Reqs,
         RegisterArrives(r) \/ CountBridges(r) \/ InsertBridge(r) \/ Rerank(r)
  PROVE  BridgeCaps'
<1>1. \A n : Turn(r, n) => reqs'[r] = n /\ \A q \in Reqs \ {r} : reqs'[q] = reqs[q]
  BY DEF Turn, TypeOK
<1>2. /\ \A at, b : RegisterAt(at, b).op = "register" /\ RegisterAt(at, b).at = at /\ RegisterAt(at, b).b = b
      /\ Idle.op = "none"
  BY DEF RegisterAt, Idle
<1>3. CASE RegisterArrives(r)
  <2>1. UNCHANGED bridgeDocs
    BY <1>3 DEF RegisterArrives, Start
  <2> QED BY <1>2, <1>3, <2>1, BridgeTurns, QuietTurnCaps
<1>4. CASE CountBridges(r)
  <2>1. BridgesFit'
    BY <1>4, CountingFits DEF BridgeCaps
  <2>2. UNCHANGED <<bridges, closed, Revoked, Registered>>
    BY <1>4 DEF CountBridges, bridgeDocs, Revoked, Registered, Live
  <2>3. PICK n : Turn(r, n) /\ ~(n.op = "register" /\ n.at = "giveUp")
    <3>1. Turn(r, Idle) \/ \E b \in Bridges : Turn(r, RegisterAt("insert", b))
      BY <1>4, BridgeTurns
    <3> QED BY <1>2, <3>1
  <2>4. \A b \in Bridges : Late(b)' => Late(b)
    BY <1>1, <2>2, <2>3 DEF Late, At
  <2>5. GivenUpAreLate'
    BY <2>2, <2>4, LateLasts DEF BridgeCaps
  <2> QED BY <2>1, <2>5 DEF BridgeCaps
<1>5. CASE InsertBridge(r)
  <2>1. BridgesFit'
    BY <1>5, InsertingFits DEF BridgeCaps
  <2>2. UNCHANGED closed /\ Revoked' \subseteq Revoked /\ Registered \subseteq Registered'
    BY <1>5 DEF InsertBridge, TypeOK, Revoked, Registered, Live
  <2>3. \A b \in Bridges : Late(b)' => Late(b)
    BY <1>1, <1>2, <1>5, <2>2, BridgeTurns DEF Late, At
  <2>4. GivenUpAreLate'
    BY <2>2, <2>3, LateLasts DEF BridgeCaps
  <2> QED BY <2>1, <2>4 DEF BridgeCaps
<1>6. CASE Rerank(r)
  <2>1. UNCHANGED bridgeDocs
    BY <1>6 DEF Rerank
  <2>2. UNCHANGED <<closed, Live, Revoked, Registered>>
    BY <2>1 DEF bridgeDocs, Live, Revoked, Registered
  <2>3. CASE Turn(r, Idle)
    BY <1>2, <2>1, <2>3, QuietTurnCaps
  <2>4. CASE PastCap(reqs[r].b) /\ Turn(r, RegisterAt("giveUp", reqs[r].b))
    <3>1. Inserting' \subseteq Inserting
      BY <1>1, <1>2, <2>4 DEF Inserting, At
    <3>2. Cardinality(Below(reqs[r].b)) >= MaxBridges
      BY <2>4, PastCapIsLate
    <3>3. \A b \in Bridges : Late(b)' => Late(b) \/ b = reqs[r].b
      BY <1>1, <1>2, <2>2, <2>4 DEF Late, At
    <3>4. GivenUpAreLate'
      BY <2>2, <3>2, <3>3, LateLasts DEF BridgeCaps
    <3> QED BY <2>2, <3>1, <3>4, BridgesShrink DEF BridgeCaps
  <2> QED BY <1>6, <2>3, <2>4, BridgeTurns
<1> QED BY <1>3, <1>4, <1>5, <1>6

LEMMA RevokingCaps ==
  ASSUME TypeOK, TypeOK', RequestsFit, RequestsFit', BridgeCaps, NEW r \in Reqs,
         (\E b \in Bridges : RevokeOneArrives(r, b)) \/ RevokeOne(r) \/ DeleteOne(r) \/ RevokeStep(r)
  PROVE  BridgeCaps'
<1>1. PICK n : Turn(r, n) /\ n.op # "register"
  <2>1. /\ \A at, b : RevokeOneAt(at, b).op = "revokeOne"
        /\ \A at, I, S, T : RevokeAt(at, I, S, T).op = "revoke"
        /\ Idle.op = "none"
    BY DEF RevokeOneAt, RevokeAt, Idle
  <2>2. CASE (\E b \in Bridges : RevokeOneArrives(r, b)) \/ RevokeOne(r) \/ DeleteOne(r)
    <3>1. Turn(r, Idle) \/ \E at, b : Turn(r, RevokeOneAt(at, b))
      BY <2>2, BridgeTurns, Zenon
    <3> QED BY <2>1, <3>1
  <2>3. CASE RevokeStep(r)
    <3>1. \E at, I, S, T : Turn(r, RevokeAt(at, I, S, T))
      BY <2>3, RevokeTurns, Zenon DEF RevokeStep
    <3> QED BY <2>1, <3>1
  <2> QED BY <2>2, <2>3
<1>2. CASE RevokeOne(r) \/ RevokeAll(r)
  <2>1. Live' \subseteq Live /\ Registered \subseteq Registered'
    <3>1. CASE RevokeAll(r)
      BY <3>1 DEF RevokeAll, Live, Revoked, Registered, TypeOK
    <3>2. CASE RevokeOne(r)
      <4>1. reqs[r].b \in Bridges
        BY <3>2 DEF RevokeOne, RequestsFit, Fits, At, Registered, Live, Revoked
      <4> QED BY <3>2, <4>1 DEF RevokeOne, Live, Revoked, Registered, TypeOK
    <3> QED BY <1>2, <3>1, <3>2
  <2>2. Inserting' \subseteq Inserting
    BY <1>1 DEF Turn, TypeOK, Inserting, At
  <2>3. ~closed' => ~closed /\ Revoked' \subseteq Revoked
    <3>1. CASE RevokeAll(r)
      BY <3>1 DEF RevokeAll, Live, Revoked, TypeOK
    <3>2. CASE RevokeOne(r)
      <4>1. reqs[r].b \in Registered
        BY <3>2 DEF RevokeOne, RequestsFit, Fits, At
      <4>2. closed' = (closed \/ reqs[r].b \in Live) /\ bridges' = [bridges EXCEPT ![reqs[r].b] = "revoked"]
        BY <3>2 DEF RevokeOne
      <4>3. ~closed' => ~closed /\ reqs[r].b \in Revoked
        BY <4>1, <4>2 DEF Registered
      <4>4. reqs[r].b \in Revoked => Revoked' \subseteq Revoked
        BY <4>2 DEF Revoked, TypeOK
      <4> QED BY <4>3, <4>4
    <3> QED BY <1>2, <3>1, <3>2
  <2>4. ~closed' => ~closed /\ \A b \in Bridges : Late(b)' => Late(b)
    BY <1>1, <2>3 DEF Late, Turn, TypeOK, At
  <2> QED BY <2>1, <2>2, <2>4, BridgesShrink, LateLasts DEF BridgeCaps
<1>3. CASE ~RevokeOne(r) /\ ~RevokeAll(r)
  <2>1. UNCHANGED bridgeDocs
    BY <1>3 DEF RevokeOneArrives, DeleteOne, RevokeStep, RevokeArrives, FindCandidates, FindRevoked,
                DeleteAll, Start
  <2> QED BY <1>1, <2>1, QuietTurnCaps
<1> QED BY <1>2, <1>3

LEMMA GlossaryStepCaps ==
  ASSUME TypeOK, RequestsFit, RequestsFit', BridgeCaps, NEW r \in Reqs, GlossaryStep(r)
  PROVE  BridgeCaps'
<1>1. /\ Idle.op = "none"
      /\ \A at, s : AddedAt(at, s).op = "add"
      /\ \A at, s, W : RemoveAt(at, s, W).op = "remove"
      /\ \A at, s, W, reads, existing, count : AddAt(at, s, W, reads, existing, count).op = "add"
  BY DEF AddedAt, RemoveAt, AddAt, Idle
<1>2. \/ Turn(r, Idle)
      \/ \E at, s : Turn(r, AddedAt(at, s))
      \/ \E at, s, W : Turn(r, RemoveAt(at, s, W))
      \/ \E at, s, W, reads, existing, count : Turn(r, AddAt(at, s, W, reads, existing, count))
  <2>1. CASE \E s \in Scopes, W \in SUBSET Words : AddArrives(r, s, W) \/ RemoveArrives(r, s, W)
    BY <2>1, GlossaryTurns, Zenon
  <2>2. CASE CheckBridge(r) \/ ReadExisting(r) \/ ReadCount(r)
    BY <2>2, GlossaryTurns, Zenon
  <2>3. CASE AddWords(r) \/ RecheckBridge(r)
    <3>1. \/ Turn(r, Idle) \/ Turn(r, AddedAt("recheck", reqs[r].scope))
          \/ Turn(r, AddedAt("cleanup", reqs[r].scope))
      BY <2>3, GlossaryTurns
    <3> QED BY <3>1
  <2>4. CASE CleanUp(r) \/ RemoveWords(r)
    BY <2>4, GlossaryTurns
  <2> QED BY <2>1, <2>2, <2>3, <2>4 DEF GlossaryStep
<1>3. \E n : Turn(r, n) /\ n.op # "register"
  BY <1>1, <1>2
<1>4. UNCHANGED bridgeDocs
  BY DEF GlossaryStep, AddArrives, RemoveArrives, CheckBridge, ReadExisting, ReadCount, AddWords,
         RecheckBridge, CleanUp, RemoveWords, Start
<1> QED BY <1>3, <1>4, QuietTurnCaps

LEMMA BridgeCapsAreKept ==
  ASSUME TypeOK, TypeOK', RequestsFit, RequestsFit', BridgeCaps, [Next]_vars
  PROVE  BridgeCaps'
<1>1. CASE UNCHANGED <<bridgeDocs, reqs>>
  BY <1>1, QuietCaps DEF At
<1>2. UNCHANGED vars \/ (\E t \in tokens : Refresh(t)) => UNCHANGED <<bridgeDocs, reqs>>
  BY DEF vars, bridgeDocs, Refresh
<1>3. RequestsTyped
  BY DEF TypeOK, RequestsTyped
<1>4. ASSUME NEW r \in Reqs, NEW left \in SUBSET Bridges, Pass(r, left)
      PROVE  \A q \in Reqs : \A at : At(q, "register", at)' =>
               q # r /\ At(q, "register", at) /\ reqs'[q] = reqs[q]
  <2>1. reqs'[r] = Idle
    BY <1>3, <1>4, PassIs DEF RequestsTyped
  <2>2. \A q \in Reqs \ {r} : reqs'[q] = reqs[q] \/ reqs'[q].op = "revoke"
    BY <1>3, <1>4, PassedFields
  <2> QED BY <2>1, <2>2 DEF At, Idle
<1>5. ASSUME NEW r \in Reqs, Fail(r) PROVE BridgeCaps'
  <2>1. PICK left \in SUBSET Bridges : Pass(r, left)
    BY <1>5, Failing
  <2>2. UNCHANGED bridgeDocs
    BY <1>5 DEF Fail
  <2> QED BY <1>4, <2>1, <2>2, QuietCaps
<1>6. ASSUME NEW r \in Reqs, GiveUp(r) PROVE BridgeCaps'
  <2>1. PICK left \in SUBSET Bridges : Pass(r, left)
    BY <1>6, GivingUp DEF TypeOK
  <2>2. PICK b : b = reqs[r].b
    OBVIOUS
  <2>3. /\ b \in Bridges /\ At(r, "register", "giveUp")
        /\ bridges' = [bridges EXCEPT ![b] = "revoked"] /\ UNCHANGED closed
    BY <1>6, <2>2, GivingUp DEF GiveUp, TypeOK
  <2>4. /\ Live' \subseteq Live /\ Registered \subseteq Registered' /\ Revoked' \subseteq Revoked \cup {b}
    BY <2>3 DEF Live, Registered, Revoked, TypeOK
  <2>5. Inserting' \subseteq Inserting
    BY <1>4, <2>1 DEF Inserting
  <2>6. Late(b)
    BY <2>2, <2>3 DEF Late
  <2>7. \A c \in Bridges : Late(c)' => Late(c)
    BY <1>4, <2>1, <2>4, <2>6 DEF Late
  <2> QED BY <2>3, <2>4, <2>5, <2>7, BridgesShrink, LateLasts DEF BridgeCaps
<1> QED
  BY <1>1, <1>2, <1>5, <1>6, Steps, AccountStepCaps, RegisterCaps, RevokingCaps, GlossaryStepCaps
     DEF BridgeStep

-----------------------------------------------------------------------------
(* The words of the glossary. *)

LEMMA Scale ==
  ASSUME NEW a \in Int, NEW b \in Int, NEW m \in Nat, a <= b
  PROVE  /\ a * m \in Int /\ b * m \in Int /\ a * m <= b * m
         /\ (a - 1) * m = a * m - m
<1>1. PICK d \in Nat : b = a + d
  <2>1. b - a \in Nat /\ b = a + (b - a)
    OBVIOUS
  <2> QED BY <2>1
<1>2. b * m = a * m + d * m /\ d * m >= 0
  BY <1>1
<1>3. (a - 1) * m = a * m - m
  OBVIOUS
<1> QED BY <1>2, <1>3

LEMMA AddingIsFinite ==
  /\ Adding \subseteq Reqs /\ IsFiniteSet(Adding)
  /\ Cardinality(Adding) \in Nat /\ Cardinality(Reqs) \in Nat
  /\ Cardinality(Adding) <= Cardinality(Reqs)
<1>1. Adding \subseteq Reqs
  BY DEF Adding
<1> QED BY <1>1, FS_Subset, FS_CardinalityType

LEMMA CountsAreNumbers ==
  ASSUME RequestsTyped, NEW r \in Adding
  PROVE  reqs[r].count \in Nat /\ reqs[r].count < MaxWords
<1>1. reqs[r].op = "add" /\ reqs[r].at = "read" /\ reqs[r] \in Request
  BY DEF Adding, At, RequestsTyped, Idle
<1>2. reqs[r].count \in Nat
  BY <1>1, Shapes
<1> QED BY <1>2 DEF Adding

\* No more words are stored, and no more additions have found room.
LEMMA RoomLasts ==
  ASSUME RequestsTyped, RequestsTyped', IsFiniteSet(stored), RoomIsKept, stored' \subseteq stored,
         Adding' \subseteq Adding, \A r \in Adding' : reqs'[r].count = reqs[r].count
  PROVE  IsFiniteSet(stored)' /\ RoomIsKept'
<1> DEFINE n == Cardinality(stored)   nn == Cardinality(stored')
           a == Cardinality(Adding)   aa == Cardinality(Adding')
           M == MaxRequestWords
<1>1. /\ IsFiniteSet(stored') /\ n \in Nat /\ nn \in Nat /\ nn <= n
      /\ a \in Nat /\ aa \in Nat /\ aa <= a /\ M \in Nat
  BY AddingIsFinite, FS_Subset, FS_CardinalityType
<1>2. /\ GlossaryBound \in Int /\ UNCHANGED GlossaryBound
      /\ a * M \in Int /\ aa * M \in Int /\ aa * M <= a * M
      /\ (a - 1) * M = a * M - M /\ (aa - 1) * M = aa * M - M
  <2>1. GlossaryBound \in Int /\ UNCHANGED GlossaryBound
    BY AddingIsFinite DEF GlossaryBound
  <2>2. a * M \in Int /\ aa * M \in Int /\ aa * M <= a * M
    BY <1>1, Scale
  <2>3. (a - 1) * M = a * M - M /\ (aa - 1) * M = aa * M - M
    BY <1>1
  <2> QED BY <2>1, <2>2, <2>3
<1>3. CASE n + a * M <= GlossaryBound
  <2>1. nn + aa * M <= GlossaryBound
    BY <1>1, <1>2, <1>3
  <2> QED BY <1>1, <2>1 DEF RoomIsKept, GlossaryBound
<1>4. CASE \E r \in Adding : n + (MaxWords - reqs[r].count) + (a - 1) * M <= GlossaryBound
  <2>1. PICK r \in Adding : n + (MaxWords - reqs[r].count) + (a - 1) * M <= GlossaryBound
    BY <1>4
  <2>2. reqs[r].count \in Nat /\ reqs[r].count < MaxWords /\ MaxWords \in Nat
    BY CountsAreNumbers
  <2>3. CASE r \in Adding'
    <3>1. nn + (MaxWords - reqs'[r].count) + (aa - 1) * M <= GlossaryBound
      BY <1>1, <1>2, <2>1, <2>2, <2>3
    <3> QED BY <1>1, <2>3, <3>1 DEF RoomIsKept, GlossaryBound
  <2>4. CASE r \notin Adding'
    <3>1. aa <= a - 1
      <4>1. IsFiniteSet(Adding \ {r}) /\ Cardinality(Adding \ {r}) = a - 1
        BY AddingIsFinite, FS_RemoveElement
      <4>2. Adding' \subseteq Adding \ {r}
        BY <2>4
      <4> QED BY <4>1, <4>2, FS_Subset
    <3>2. aa * M <= (a - 1) * M
      BY <1>1, <3>1, Scale
    <3>3. nn + aa * M <= GlossaryBound
      BY <1>1, <1>2, <2>1, <2>2, <3>2
    <3> QED BY <1>1, <3>3 DEF RoomIsKept, GlossaryBound
  <2> QED BY <2>3, <2>4
<1> QED BY <1>3, <1>4 DEF RoomIsKept

\* A request turns into one that adds nothing.
LEMMA QuietTurnRoom ==
  ASSUME TypeOK, TypeOK', WordsFit, stored' \subseteq stored, NEW r \in Reqs, NEW n, Turn(r, n),
         n.op # "add" \/ n.at \notin {"check", "read"}
  PROVE  WordsFit'
<1>1. reqs'[r] = n /\ \A q \in Reqs \ {r} : reqs'[q] = reqs[q]
  BY DEF Turn, TypeOK
<1>2. Adding' \subseteq Adding /\ \A q \in Adding' : reqs'[q] = reqs[q]
  BY <1>1 DEF Adding, At
<1>3. AdditionsAreSmall'
  BY <1>1 DEF WordsFit, AdditionsAreSmall
<1>4. RequestsTyped /\ RequestsTyped'
  BY DEF TypeOK, RequestsTyped
<1> QED BY <1>2, <1>3, <1>4, RoomLasts DEF WordsFit

\* An addition moves on, and brings the words it came with.
LEMMA AddTurnRoom ==
  ASSUME TypeOK, TypeOK', WordsFit, UNCHANGED stored, NEW r \in Reqs, NEW n, Turn(r, n),
         n.op = "add" /\ n.at \in {"check", "read"},
         Cardinality(n.words) <= MaxRequestWords,
         n.at = "check" => n.reads = {},
         n.at = "read" /\ "count" \in n.reads => \/ r \in Adding /\ n.count = reqs[r].count
                                                 \/ n.count >= MaxWords
  PROVE  WordsFit'
<1>1. reqs'[r] = n /\ \A q \in Reqs \ {r} : reqs'[q] = reqs[q]
  BY DEF Turn, TypeOK
<1>2. RequestsTyped /\ RequestsTyped'
  BY DEF TypeOK, RequestsTyped
<1>3. ~(r \in Adding' /\ n.count >= MaxWords)
  <2> SUFFICES ASSUME r \in Adding' PROVE ~(n.count >= MaxWords)
    OBVIOUS
  <2>1. n.count < MaxWords
    BY <1>1 DEF Adding
  <2>2. n.count \in Nat
    <3>1. n.at \notin {"recheck", "cleanup"} /\ n \in Request
      BY <1>1, <1>2 DEF Adding, At, RequestsTyped, Idle
    <3> QED BY <3>1, Shapes
  <2> QED BY <2>1, <2>2
<1>4. Adding' \subseteq Adding /\ \A q \in Adding' : reqs'[q].count = reqs[q].count
  <2>1. r \in Adding' => r \in Adding /\ n.count = reqs[r].count
    BY <1>1, <1>3 DEF Adding, At
  <2> QED BY <1>1, <2>1 DEF Adding, At
<1>5. AdditionsAreSmall'
  BY <1>1 DEF WordsFit, AdditionsAreSmall
<1> QED BY <1>2, <1>4, <1>5, RoomLasts DEF WordsFit

\* An addition counts the words while there is room: all that it and the others may then
\* add stays within the bound.
LEMMA CountingRoom ==
  ASSUME TypeOK, TypeOK', WordsFit, NEW r \in Reqs, ReadCount(r)
  PROVE  WordsFit'
<1> DEFINE q == reqs[r]
<1>1. PICK n : n = AddAt("read", q.scope, q.words, q.reads \cup {"count"}, q.existing, Cardinality(stored))
  OBVIOUS
<1>2. /\ n.op = "add" /\ n.at = "read" /\ n.words = q.words /\ n.count = Cardinality(stored)
      /\ n.reads = q.reads \cup {"count"}
  BY <1>1 DEF AddAt
<1>3. Turn(r, n) /\ UNCHANGED stored
  BY <1>1, GlossaryTurns DEF ReadCount, glossary
<1>4. Cardinality(n.words) <= MaxRequestWords
  BY <1>2 DEF WordsFit, AdditionsAreSmall, ReadCount, At
<1>5. CASE n.count >= MaxWords
  BY <1>2, <1>3, <1>4, <1>5, AddTurnRoom
<1>6. CASE ~(n.count >= MaxWords)
  <2> DEFINE c == Cardinality(stored)   aa == Cardinality(Adding')
             M == MaxRequestWords       k == Cardinality(Reqs)
  <2>1. c \in Nat /\ c < MaxWords /\ MaxWords \in Nat /\ M \in Nat /\ c = n.count
    BY <1>2, <1>6, FS_CardinalityType DEF WordsFit
  <2>2. reqs'[r] = n /\ \A p \in Reqs \ {r} : reqs'[p] = reqs[p]
    BY <1>3 DEF Turn, TypeOK
  <2>3. r \in Adding'
    BY <1>2, <2>1, <2>2 DEF Adding, At
  <2>4. aa \in Nat /\ k \in Nat /\ aa <= k
    <3>1. Adding' \subseteq Reqs
      BY DEF Adding
    <3> QED BY <3>1, FS_Subset, FS_CardinalityType
  <2>5. /\ (aa - 1) * M \in Int /\ (k - 1) * M \in Int
        /\ (aa - 1) * M <= (k - 1) * M
    BY <2>1, <2>4, Scale
  <2>6. c + (MaxWords - n.count) + (aa - 1) * M <= MaxWords + (k - 1) * M
    BY <2>1, <2>5
  <2>7. RoomIsKept'
    BY <1>3, <2>2, <2>3, <2>6 DEF RoomIsKept, GlossaryBound
  <2>8. AdditionsAreSmall'
    BY <1>2, <1>4, <2>2 DEF WordsFit, AdditionsAreSmall
  <2> QED BY <1>3, <2>7, <2>8 DEF WordsFit
<1> QED BY <1>5, <1>6

\* What an addition adds is no more than it had found room for, nor than it brought.
LEMMA GrantsAreSmall ==
  ASSUME TypeOK, WordsFit, NEW r \in Reqs, At(r, "add", "read"), NEW W \in Grants(reqs[r])
  PROVE  /\ IsFiniteSet(W) /\ Cardinality(W) \in Nat /\ Cardinality(W) <= MaxRequestWords
         /\ reqs[r].count \in Nat
         /\ Cardinality(W) <= IF reqs[r].count >= MaxWords THEN 0 ELSE MaxWords - reqs[r].count
<1> DEFINE q == reqs[r]
           C == q.words \ q.existing
           room == IF q.count >= MaxWords THEN 0 ELSE MaxWords - q.count
<1>1. q.op = "add" /\ q.at = "read" /\ q \in Request
  BY DEF At, TypeOK, Idle
<1>2. q.words \subseteq Words /\ q.count \in Nat
  BY <1>1, Shapes
<1>3. /\ IsFiniteSet(q.words) /\ Cardinality(q.words) \in Nat
      /\ IsFiniteSet(C) /\ Cardinality(C) \in Nat /\ Cardinality(C) <= Cardinality(q.words)
  BY <1>2, FS_Subset, FS_CardinalityType
<1>4. Cardinality(q.words) <= MaxRequestWords
  BY <1>1 DEF WordsFit, AdditionsAreSmall
<1>5. W \subseteq C /\ Cardinality(W) = IF Cardinality(C) < room THEN Cardinality(C) ELSE room
  BY DEF Grants
<1>6. room \in Nat
  BY <1>2
<1>7. IsFiniteSet(W) /\ Cardinality(W) \in Nat
  BY <1>3, <1>5, FS_Subset, FS_CardinalityType
<1>8. Cardinality(W) <= room /\ Cardinality(W) <= Cardinality(C)
  <2> HIDE DEF room, C
  <2> QED BY <1>3, <1>5, <1>6
<1>9. Cardinality(W) <= MaxRequestWords
  <2> HIDE DEF C
  <2> QED BY <1>3, <1>4, <1>7, <1>8
<1> QED BY <1>2, <1>7, <1>8, <1>9

LEMMA AddingRoom ==
  ASSUME TypeOK, TypeOK', WordsFit, NEW r \in Reqs, AddWords(r)
  PROVE  WordsFit'
<1>1. At(r, "add", "read") /\ reqs[r].reads = {"existing", "count"}
  BY DEF AddWords
<1>2. PICK s, W : s = reqs[r].scope /\ W \in Grants(reqs[r]) /\ stored' = stored \cup ({s} \X W)
  BY DEF AddWords
<1>3. PICK c : c = reqs[r].count
  OBVIOUS
<1>4. /\ IsFiniteSet(W) /\ Cardinality(W) \in Nat /\ Cardinality(W) <= MaxRequestWords
      /\ c \in Nat /\ Cardinality(W) <= IF c >= MaxWords THEN 0 ELSE MaxWords - c
  BY <1>1, <1>2, <1>3, GrantsAreSmall
<1> DEFINE n == Cardinality(stored)   nn == Cardinality(stored')
           a == Cardinality(Adding)   aa == Cardinality(Adding')
           M == MaxRequestWords       g == Cardinality(W)
<1>5. IsFiniteSet(stored') /\ n \in Nat /\ nn \in Nat /\ nn <= n + g
  <2>1. IsFiniteSet({s} \X W) /\ Cardinality({s} \X W) = g
    <3>1. IsFiniteSet({s}) /\ Cardinality({s}) = 1
      BY FS_Singleton
    <3>2. IsFiniteSet({s} \X W) /\ Cardinality({s} \X W) = Cardinality({s}) * g
      BY <1>4, <3>1, FS_Product
    <3> QED BY <1>4, <3>1, <3>2
  <2>2. /\ IsFiniteSet(stored \cup ({s} \X W))
        /\ Cardinality(stored \cup ({s} \X W)) = n + Cardinality({s} \X W)
                                                   - Cardinality(stored \cap ({s} \X W))
    BY <2>1, FS_Union DEF WordsFit
  <2>3. n \in Nat /\ Cardinality(stored \cap ({s} \X W)) \in Nat
    BY FS_Intersection, FS_CardinalityType DEF WordsFit
  <2>4. nn \in Nat
    BY <1>2, <2>2, FS_CardinalityType
  <2> QED BY <1>2, <1>4, <2>1, <2>2, <2>3, <2>4
<1>6. PICK m : Turn(r, m) /\ ~(m.op = "add" /\ m.at \in {"check", "read"})
  <2>1. Turn(r, Idle) \/ Turn(r, AddedAt("recheck", s))
    BY <1>2, GlossaryTurns
  <2>2. Idle.op # "add" /\ AddedAt("recheck", s).at = "recheck"
    BY DEF Idle, AddedAt
  <2> QED BY <2>1, <2>2
<1>7. reqs'[r] = m /\ \A q \in Reqs \ {r} : reqs'[q] = reqs[q]
  BY <1>6 DEF Turn, TypeOK
<1>8. AdditionsAreSmall'
  BY <1>6, <1>7 DEF WordsFit, AdditionsAreSmall
<1>9. Adding' = Adding \ {r}
  BY <1>6, <1>7 DEF Adding, At
<1>10. CASE c >= MaxWords
  <2>1. g = 0
    BY <1>4, <1>10
  <2>2. W = {}
    BY <1>4, <2>1, FS_EmptySet
  <2>3. UNCHANGED stored
    BY <1>2, <2>2
  <2> QED BY <1>6, <2>3, QuietTurnRoom
<1>11. CASE ~(c >= MaxWords)
  <2>1. r \in Adding /\ g <= MaxWords - c
    BY <1>1, <1>3, <1>4, <1>11 DEF Adding
  <2>2. a \in Nat /\ aa = a - 1
    BY <1>9, <2>1, AddingIsFinite, FS_RemoveElement
  <2>3. /\ GlossaryBound \in Int /\ UNCHANGED GlossaryBound /\ M \in Nat /\ MaxWords \in Nat
        /\ aa \in Nat /\ a * M \in Int /\ aa * M \in Int
        /\ aa * M = a * M - M /\ (a - 1) * M = a * M - M /\ (aa - 1) * M = aa * M - M
    <3>1. aa \in Nat
      BY <1>9, AddingIsFinite, FS_RemoveElement, FS_CardinalityType
    <3> QED BY <2>2, <3>1, AddingIsFinite, Scale DEF GlossaryBound
  <2>4. RoomIsKept'
    <3>1. CASE n + a * M <= GlossaryBound
      <4>1. nn + aa * M <= GlossaryBound
        <5> HIDE DEF n, nn, a, aa, M, g
        <5> QED BY <1>4, <1>5, <2>3, <3>1 DEF g, M
      <4> QED BY <2>3, <4>1 DEF RoomIsKept
    <3>2. CASE \E p \in Adding : n + (MaxWords - reqs[p].count) + (a - 1) * M <= GlossaryBound
      <4>1. PICK p \in Adding : n + (MaxWords - reqs[p].count) + (a - 1) * M <= GlossaryBound
        BY <3>2
      <4>2. reqs[p].count \in Nat
        BY <4>1, CountsAreNumbers DEF TypeOK, RequestsTyped
      <4>3. CASE p = r
        <5>1. nn + aa * M <= GlossaryBound
          BY <1>3, <1>4, <1>5, <2>1, <2>3, <4>1, <4>3
        <5> QED BY <2>3, <5>1 DEF RoomIsKept
      <4>4. CASE p # r
        <5>1. p \in Adding' /\ reqs'[p].count = reqs[p].count
          BY <1>7, <1>9, <4>1, <4>4 DEF Adding
        <5>2. nn + (MaxWords - reqs[p].count) + (aa - 1) * M <= GlossaryBound
          BY <1>4, <1>5, <2>3, <4>1, <4>2
        <5> QED BY <2>3, <5>1, <5>2 DEF RoomIsKept
      <4> QED BY <4>3, <4>4
    <3> QED BY <3>1, <3>2 DEF WordsFit, RoomIsKept
  <2> QED BY <1>5, <1>8, <2>4 DEF WordsFit
<1> QED BY <1>10, <1>11

LEMMA GlossaryStepRoom ==
  ASSUME TypeOK, TypeOK', WordsFit, NEW r \in Reqs, GlossaryStep(r)
  PROVE  WordsFit'
<1>1. /\ Idle.op = "none"
      /\ \A at, s : AddedAt(at, s).op = "add" /\ AddedAt(at, s).at = at
      /\ \A at, s, W : RemoveAt(at, s, W).op = "remove"
  BY DEF AddedAt, RemoveAt, Idle
<1>3. CASE \E s \in Scopes, W \in SUBSET Words : AddArrives(r, s, W)
  <2>1. PICK s \in Scopes, W \in SUBSET Words : AddArrives(r, s, W)
    BY <1>3
  <2>2. PICK n : n = AddAt(IF s = Shared THEN "read" ELSE "check", s, W, {}, {}, 0)
    OBVIOUS
  <2>3. n.op = "add" /\ n.at \in {"check", "read"} /\ n.words = W /\ n.reads = {}
    BY <2>2 DEF AddAt
  <2>4. UNCHANGED stored /\ Cardinality(W) <= MaxRequestWords
    BY <2>1 DEF AddArrives, Start, glossary
  <2>5. Turn(r, n)
    BY <2>1, <2>2, GlossaryTurns
  <2> QED BY <2>3, <2>4, <2>5, AddTurnRoom
<1>4. CASE \E s \in Scopes, W \in SUBSET Words : RemoveArrives(r, s, W)
  <2>1. PICK s \in Scopes, W \in SUBSET Words : RemoveArrives(r, s, W)
    BY <1>4
  <2>2. Turn(r, RemoveAt(IF s = Shared THEN "pull" ELSE "check", s, W))
    BY <2>1, GlossaryTurns
  <2>3. UNCHANGED stored
    BY <2>1 DEF RemoveArrives, Start, glossary
  <2> QED BY <1>1, <2>2, <2>3, QuietTurnRoom
<1>5. ASSUME NEW n, Turn(r, n), n.op = "add", n.at = "read", n.words = reqs[r].words,
             n.count = reqs[r].count, UNCHANGED stored,
             \/ At(r, "add", "check") /\ n.reads = reqs[r].reads
             \/ At(r, "add", "read") /\ n.reads = reqs[r].reads \cup {"existing"}
      PROVE  WordsFit'
  <2>1. reqs[r].op = "add" /\ reqs[r].at \in {"check", "read"} /\ reqs[r] \in Request
    BY <1>5 DEF At, TypeOK, Idle
  <2>2. Cardinality(n.words) <= MaxRequestWords
    BY <1>5, <2>1 DEF WordsFit, AdditionsAreSmall
  <2>3. "count" \in n.reads => r \in Adding \/ n.count >= MaxWords
    <3>1. reqs[r].count \in Nat /\ MaxWords \in Nat
      BY <2>1, Shapes
    <3>2. "count" \in n.reads => At(r, "add", "read") /\ "count" \in reqs[r].reads
      BY <1>5, <2>1 DEF WordsFit, AdditionsAreSmall, At
    <3> QED BY <1>5, <3>1, <3>2 DEF Adding
  <2> QED BY <1>5, <2>2, <2>3, AddTurnRoom
<1>6. CASE CheckBridge(r)
  <2>1. UNCHANGED stored
    BY <1>6 DEF CheckBridge, glossary
  <2>2. CASE Turn(r, Idle)
    BY <1>1, <2>1, <2>2, QuietTurnRoom
  <2>3. CASE At(r, "add", "check") /\ Turn(r, AddAt("read", reqs[r].scope, reqs[r].words, reqs[r].reads,
                                                    reqs[r].existing, reqs[r].count))
    <3>1. PICK n : n = AddAt("read", reqs[r].scope, reqs[r].words, reqs[r].reads, reqs[r].existing,
                             reqs[r].count)
      OBVIOUS
    <3>2. n.op = "add" /\ n.at = "read" /\ n.words = reqs[r].words /\ n.count = reqs[r].count
      BY <3>1 DEF AddAt
    <3>3. n.reads = reqs[r].reads
      BY <3>1 DEF AddAt
    <3>4. Turn(r, n)
      BY <2>3, <3>1
    <3> QED BY <1>5, <2>1, <2>3, <3>2, <3>3, <3>4
  <2>4. CASE Turn(r, RemoveAt("pull", reqs[r].scope, reqs[r].words))
    BY <1>1, <2>1, <2>4, QuietTurnRoom
  <2> QED BY <1>6, <2>2, <2>3, <2>4, GlossaryTurns
<1>7. CASE ReadExisting(r)
  <2>1. At(r, "add", "read") /\ UNCHANGED stored
    BY <1>7 DEF ReadExisting, glossary
  <2>2. PICK n : n = AddAt("read", reqs[r].scope, reqs[r].words, reqs[r].reads \cup {"existing"},
                           WordsOf(reqs[r].scope), reqs[r].count)
    OBVIOUS
  <2>3. n.op = "add" /\ n.at = "read" /\ n.words = reqs[r].words /\ n.count = reqs[r].count
    BY <2>2 DEF AddAt
  <2>4. n.reads = reqs[r].reads \cup {"existing"}
    BY <2>2 DEF AddAt
  <2>5. Turn(r, n)
    BY <1>7, <2>2, GlossaryTurns
  <2> QED BY <1>5, <2>1, <2>3, <2>4, <2>5
<1>8. CASE RecheckBridge(r)
  <2>1. UNCHANGED stored
    BY <1>8 DEF RecheckBridge, glossary
  <2>2. Turn(r, Idle) \/ Turn(r, AddedAt("cleanup", reqs[r].scope))
    BY <1>8, GlossaryTurns
  <2> QED BY <1>1, <2>1, <2>2, QuietTurnRoom
<1>9. CASE CleanUp(r) \/ RemoveWords(r)
  <2>1. stored' \subseteq stored
    BY <1>9 DEF CleanUp, RemoveWords, DeleteWordsOf
  <2>2. Turn(r, Idle)
    BY <1>9, GlossaryTurns
  <2> QED BY <1>1, <2>1, <2>2, QuietTurnRoom
<1> QED
  BY <1>3, <1>4, <1>6, <1>7, <1>8, <1>9, CountingRoom, AddingRoom DEF GlossaryStep

LEMMA OtherStepRoom ==
  ASSUME TypeOK, TypeOK', WordsFit, NEW r \in Reqs, AccountStep(r) \/ BridgeStep(r) \/ RevokeStep(r)
  PROVE  WordsFit'
<1>1. PICK n : Turn(r, n) /\ n.op # "add"
  <2>1. /\ Idle.op = "none" /\ [op |-> "logout", at |-> "bump"].op = "logout"
        /\ \A at : SignInAt(at).op = "signIn"
        /\ \A at, b : RegisterAt(at, b).op = "register" /\ RevokeOneAt(at, b).op = "revokeOne"
        /\ \A at, I, S, T : RevokeAt(at, I, S, T).op = "revoke"
    BY DEF Idle, SignInAt, RegisterAt, RevokeOneAt, RevokeAt
  <2>2. CASE AccountStep(r)
    <3>1. \/ Turn(r, Idle) \/ Turn(r, [op |-> "logout", at |-> "bump"])
          \/ \E at : Turn(r, SignInAt(at))
      BY <2>2, AccountTurns, Zenon DEF AccountStep
    <3> QED BY <2>1, <3>1
  <2>3. CASE BridgeStep(r)
    <3>1. \/ Turn(r, Idle) \/ (\E at, b : Turn(r, RegisterAt(at, b)))
          \/ \E at, b : Turn(r, RevokeOneAt(at, b))
      BY <2>3, BridgeTurns, Zenon DEF BridgeStep
    <3> QED BY <2>1, <3>1
  <2>4. CASE RevokeStep(r)
    <3>1. \E at, I, S, T : Turn(r, RevokeAt(at, I, S, T))
      BY <2>4, RevokeTurns, Zenon DEF RevokeStep
    <3> QED BY <2>1, <3>1
  <2> QED BY <2>2, <2>3, <2>4
<1>2. stored' \subseteq stored
  <2>1. CASE AccountStep(r)
    BY <2>1 DEF AccountStep, SignInArrives, UpsertAccount, CreateUser, FindUser, LogoutArrives,
                BumpVersion, Start, glossary
  <2>2. CASE BridgeStep(r)
    BY <2>2 DEF BridgeStep, RegisterArrives, CountBridges, InsertBridge, Rerank, RevokeOneArrives,
                RevokeOne, DeleteOne, DeleteWordsOf, Start, glossary
  <2>3. CASE RevokeStep(r)
    BY <2>3 DEF RevokeStep, RevokeArrives, RevokeAll, FindCandidates, FindRevoked, DeleteAll,
                DeleteWordsOf, Start, glossary
  <2> QED BY <2>1, <2>2, <2>3
<1> QED BY <1>1, <1>2, QuietTurnRoom

LEMMA WordsAreKept ==
  ASSUME TypeOK, TypeOK', RequestsFit, WordsFit, [Next]_vars
  PROVE  WordsFit'
<1>1. RequestsTyped /\ RequestsTyped'
  BY DEF TypeOK, RequestsTyped
<1>2. CASE UNCHANGED <<stored, reqs>>
  <2>1. Adding' = Adding
    BY <1>2 DEF Adding, At
  <2>2. AdditionsAreSmall'
    BY <1>2 DEF WordsFit, AdditionsAreSmall
  <2> QED BY <1>1, <1>2, <2>1, <2>2, RoomLasts DEF WordsFit
<1>3. UNCHANGED vars \/ (\E t \in tokens : Refresh(t)) => UNCHANGED <<stored, reqs>>
  BY DEF vars, Refresh, glossary
<1>4. ASSUME NEW r \in Reqs, GiveUp(r) \/ Fail(r) PROVE WordsFit'
  <2>1. PICK left \in SUBSET Bridges : Pass(r, left)
    BY <1>4, GivingUp, Failing DEF TypeOK
  <2>2. UNCHANGED stored
    BY <1>4 DEF GiveUp, Fail
  <2>3. reqs'[r] = Idle
    BY <1>1, <2>1, PassIs DEF RequestsTyped
  <2>4. \A q \in Reqs : reqs'[q].op = "add" => reqs'[q] = reqs[q]
    BY <1>1, <2>1, <2>3, PassedFields DEF Idle
  <2>5. Adding' \subseteq Adding /\ \A q \in Adding' : reqs'[q].count = reqs[q].count
    BY <2>4 DEF Adding, At
  <2>6. AdditionsAreSmall'
    BY <2>4 DEF WordsFit, AdditionsAreSmall
  <2> QED BY <1>1, <2>2, <2>5, <2>6, RoomLasts DEF WordsFit
<1> QED BY <1>2, <1>3, <1>4, Steps, GlossaryStepRoom, OtherStepRoom

-----------------------------------------------------------------------------
(* The theorems. *)

LEMMA Initially ==
  ASSUME Init
  PROVE  IInv
<1>1. /\ \A r \in Reqs : reqs[r] = Idle
      /\ Live = {} /\ Revoked = {} /\ Registered = {}
  BY DEF Init, Live, Revoked, Registered
<1>2. \A r \in Reqs : reqs[r].op = "none"
  BY <1>1 DEF Idle
<1>3. Inserting = {} /\ Adding = {}
  BY <1>2 DEF Inserting, Adding, At
<1>4. IsFiniteSet({}) /\ Cardinality({}) = 0
  BY FS_EmptySet
<1>5. Cardinality(Reqs) \in Nat /\ Cardinality(Reqs) >= 1
  BY FS_CardinalityType, FS_EmptySet
<1>6. TypeOK
  BY DEF Init, TypeOK
<1>7. AccountInv
  BY <1>2 DEF Init, AccountInv, At
<1>8. RequestsFit
  BY <1>1, <1>2, <1>3, <1>4 DEF RequestsFit, Fits
<1>9. WordsDieWithBridge /\ RevokesCover
  BY <1>1, <1>2 DEF WordsDieWithBridge, RevokesCover
<1>10. BridgesFit /\ GivenUpAreLate
  BY <1>1, <1>2, <1>3, <1>4, <1>5 DEF BridgesFit, GivenUpAreLate, At
<1>11. WordsFit
  <2>1. stored = {}
    BY DEF Init
  <2>2. (Cardinality(Reqs) - 1) * MaxRequestWords \in Nat
    BY <1>5
  <2>3. 0 * MaxRequestWords = 0
    OBVIOUS
  <2>4. RoomIsKept
    BY <1>3, <1>4, <2>1, <2>2, <2>3 DEF RoomIsKept, GlossaryBound
  <2>5. AdditionsAreSmall
    BY <1>2 DEF AdditionsAreSmall
  <2> QED BY <1>4, <2>1, <2>4, <2>5 DEF WordsFit
<1> QED BY <1>6, <1>7, <1>8, <1>9, <1>10, <1>11 DEF IInv

LEMMA Inductive ==
  ASSUME IInv, [Next]_vars
  PROVE  IInv'
<1>1. TypeOK /\ AccountInv /\ RequestsFit /\ Cleaning /\ BridgeCaps /\ WordsFit
  BY DEF IInv, Cleaning, BridgeCaps
<1>2. TypeOK'
  BY <1>1, TypesAreKept DEF WordsFit
<1>3. AccountInv'
  BY <1>1, <1>2, AccountIsKept
<1>4. RequestsFit'
  BY <1>1, <1>2, FittingIsKept
<1>5. Cleaning'
  BY <1>1, <1>2, <1>4, CleaningIsKept
<1>6. BridgeCaps'
  BY <1>1, <1>2, <1>4, BridgeCapsAreKept
<1>7. WordsFit'
  BY <1>1, <1>2, WordsAreKept
<1> QED BY <1>2, <1>3, <1>4, <1>5, <1>6, <1>7 DEF IInv, Cleaning, BridgeCaps

LEMMA BurstsFill ==
  ASSUME TypeOK, RequestsFit, GivenUpAreLate
  PROVE  BurstFillsCapacity
<1> SUFFICES ASSUME ~closed
             PROVE  Cardinality(Live) >= IF Cardinality(Registered) < MaxBridges
                                         THEN Cardinality(Registered) ELSE MaxBridges
  BY DEF BurstFillsCapacity, Registered
<1>1. IsFiniteSet(Live) /\ Cardinality(Live) \in Nat /\ Cardinality(Registered) \in Nat
  BY FS_Subset, FS_CardinalityType DEF RequestsFit, Registered
<1>2. CASE Revoked = {}
  <2>1. Live = Registered
    BY <1>2 DEF Registered
  <2> QED BY <1>1, <2>1
<1>3. CASE Revoked # {}
  <2>1. PICK m \in Revoked : \A n \in Revoked : m <= n
    BY <1>3, LeastElement DEF Revoked
  <2>2. Below(m) \subseteq Live
    <3> SUFFICES ASSUME NEW c \in Below(m), c \in Revoked PROVE FALSE
      BY DEF Below, Registered
    <3>1. m <= c /\ c < m /\ m \in Nat /\ c \in Nat
      BY <2>1 DEF Below, Revoked
    <3> QED BY <3>1
  <2>3. Cardinality(Below(m)) \in Nat /\ Cardinality(Below(m)) <= Cardinality(Live)
    BY <1>1, <2>2, FS_Subset, FS_CardinalityType
  <2>4. Cardinality(Below(m)) >= MaxBridges
    BY DEF GivenUpAreLate, Revoked
  <2> QED BY <1>1, <2>3, <2>4
<1> QED BY <1>2, <1>3

LEMMA CapsFollow ==
  ASSUME IInv
  PROVE  CapsAreKept
<1>1. CapIsBounded
  <2>1. Cardinality(Live) \in Nat /\ Cardinality(Inserting) \in Nat /\ Cardinality(Reqs) \in Nat
    <3>1. IsFiniteSet(Live) /\ IsFiniteSet(Inserting)
      BY FS_Subset DEF IInv, RequestsFit, Registered, Inserting
    <3> QED BY <3>1, FS_CardinalityType
  <2> QED BY <2>1 DEF IInv, BridgesFit, CapIsBounded
<1>2. BurstFillsCapacity
  BY BurstsFill DEF IInv
<1>3. GlossaryIsBounded
  <2> DEFINE n == Cardinality(stored)   a == Cardinality(Adding)   M == MaxRequestWords
  <2>1. n \in Nat /\ a \in Nat /\ M \in Nat /\ MaxWords \in Nat
    BY AddingIsFinite, FS_CardinalityType DEF IInv, WordsFit
  <2>2. (Cardinality(Reqs) - 1) * M \in Int /\ GlossaryBound \in Int
    BY AddingIsFinite DEF GlossaryBound
  <2>3. n <= GlossaryBound
    <3>1. CASE n + a * M <= GlossaryBound
      <4>1. a * M \in Nat
        BY <2>1
      <4> QED BY <2>1, <2>2, <3>1, <4>1
    <3>2. CASE \E r \in Adding : n + (MaxWords - reqs[r].count) + (a - 1) * M <= GlossaryBound
      <4>1. PICK r \in Adding : n + (MaxWords - reqs[r].count) + (a - 1) * M <= GlossaryBound
        BY <3>2
      <4>2. reqs[r].count \in Nat /\ reqs[r].count < MaxWords
        BY CountsAreNumbers DEF IInv, TypeOK, RequestsTyped
      <4>3. a >= 1
        BY <2>1, AddingIsFinite, FS_EmptySet
      <4>4. (a - 1) * M \in Nat
        BY <2>1, <4>3
      <4> QED BY <2>1, <2>2, <4>1, <4>2, <4>4
    <3> QED BY <3>1, <3>2 DEF IInv, WordsFit, RoomIsKept
  <2> QED BY <2>3 DEF GlossaryIsBounded, GlossaryBound
<1> QED BY <1>1, <1>2, <1>3 DEF CapsAreKept

LEMMA CleaningFollows ==
  ASSUME IInv
  PROVE  WordsAreCleaned
<1> SUFFICES ASSUME NEW r \in Reqs, At(r, "revoke", "bump"), NEW b \in reqs[r].start
             PROVE  b \in Revoked
                    /\ (WordsOf(b) # {} => b \in reqs[r].since \/ \E q \in Reqs : InCharge(reqs[q], b))
  BY DEF IInv, WordsAreCleaned, RevokeIsComplete
<1>1. b \in Revoked
  BY DEF IInv, RequestsFit, Fits, At
<1>2. WordsOf(b) # {} => b \in reqs[r].since \/ Covered(b)
  BY DEF IInv, RevokesCover, At
<1> QED BY <1>1, <1>2 DEF Covered

\* A step that takes words of a live bridge and adds none is a removal of them.
LEMMA OnlyRemovalsTake ==
  ASSUME IInv, [Next]_vars, NEW b \in Live, WordsOf(b)' # WordsOf(b), WordsOf(b)' \subseteq WordsOf(b)
  PROVE  \E r \in Reqs : At(r, "remove", "pull") /\ reqs[r].scope = b
<1>1. ~(stored \subseteq stored')
  BY DEF WordsOf
<1>2. PICK r \in Reqs : DeleteOne(r) \/ DeleteAll(r) \/ CleanUp(r) \/ RemoveWords(r)
  <2>1. ~UNCHANGED stored
    BY <1>1
  <2>2. \A t \in tokens : ~Refresh(t)
    BY <2>1 DEF Refresh, glossary
  <2>3. \A r \in Reqs : ~AccountStep(r) /\ ~GiveUp(r) /\ ~Fail(r)
    BY <2>1 DEF AccountStep, SignInArrives, UpsertAccount, CreateUser, FindUser, LogoutArrives,
                BumpVersion, Start, glossary, GiveUp, Fail
  <2>4. \A r \in Reqs : BridgeStep(r) => DeleteOne(r)
    BY <2>1 DEF BridgeStep, RegisterArrives, CountBridges, InsertBridge, Rerank, RevokeOneArrives,
                RevokeOne, Start, glossary
  <2>5. \A r \in Reqs : RevokeStep(r) => DeleteAll(r)
    BY <2>1 DEF RevokeStep, RevokeArrives, RevokeAll, FindCandidates, FindRevoked, Start, glossary
  <2>6. \A r \in Reqs : ~AddWords(r)
    BY <1>1 DEF AddWords
  <2>7. \A r \in Reqs : GlossaryStep(r) => CleanUp(r) \/ RemoveWords(r)
    BY <2>1, <2>6 DEF GlossaryStep, AddArrives, RemoveArrives, CheckBridge, ReadExisting, ReadCount,
                      RecheckBridge, Start, glossary
  <2>8. Next
    BY <2>1 DEF vars
  <2> QED BY <2>2, <2>3, <2>4, <2>5, <2>7, <2>8, Steps
<1>3. Fits(reqs[r]) /\ b \notin Revoked
  BY DEF IInv, RequestsFit, Live, Revoked
<1>4. CASE DeleteOne(r) \/ DeleteAll(r) \/ CleanUp(r)
  <2>1. PICK B : B \subseteq Revoked /\ DeleteWordsOf(B)
    <3>1. CASE DeleteOne(r)
      BY <1>3, <3>1 DEF DeleteOne, Fits, At
    <3>2. CASE DeleteAll(r)
      BY <1>3, <3>2 DEF DeleteAll, Fits, At
    <3>3. CASE CleanUp(r)
      BY <1>3, <3>3 DEF CleanUp, Fits, At
    <3> QED BY <1>4, <3>1, <3>2, <3>3
  <2>2. \A w \in Words : <<b, w>> \in stored' <=> <<b, w>> \in stored
    BY <1>3, <2>1 DEF DeleteWordsOf
  <2> QED BY <2>2 DEF WordsOf
<1>5. CASE RemoveWords(r)
  <2>1. At(r, "remove", "pull") /\ stored' = stored \ ({reqs[r].scope} \X reqs[r].words)
    BY <1>5 DEF RemoveWords
  <2>2. reqs[r].scope # b => \A w \in Words : <<b, w>> \in stored' <=> <<b, w>> \in stored
    BY <2>1
  <2> QED BY <2>1, <2>2 DEF WordsOf
<1> QED BY <1>2, <1>4, <1>5

\* The inductive invariant: it holds initially, and every step keeps it.
THEOREM Invariance == Spec => []IInv
<1>1. Init => IInv
  BY Initially
<1>2. IInv /\ [Next]_vars => IInv'
  BY Inductive
<1> QED BY <1>1, <1>2, PTL DEF Spec

\* Every variable keeps its type: in particular a request has the fields of its operation.
THEOREM TypeCorrect == Spec => []TypeOK
<1>1. IInv => TypeOK
  BY DEF IInv
<1> QED BY <1>1, Invariance, PTL

\* No refresh token of a sign-in that a logout has ended can be used again, whatever
\* sign-ins and refreshes overlap it (AuthService.logoutUser, refreshAuthTokens).
THEOREM LogoutStaysFinal == Spec => []LogoutIsFinal
<1>1. IInv => LogoutIsFinal
  <2> SUFFICES ASSUME IInv, ~tooEarly, NEW t \in tokens, t.ended PROVE t.version # version
    BY DEF LogoutIsFinal
  <2>1. version # None /\ t.version < version
    BY DEF IInv, AccountInv
  <2>2. t.version \in Nat /\ version \in Nat
    BY <2>1 DEF IInv, TypeOK, Token, Versions
  <2> QED BY <2>1, <2>2
<1> QED BY <1>1, Invariance, PTL

\* However registrations and additions overlap, no cap is passed by more than the other
\* requests under way, and contenders for the last bridge do not all give up
\* (BridgeService.registerForUser, GlossaryService.addWords).
THEOREM CapsStayKept == Spec => []CapsAreKept
<1>1. IInv => CapsAreKept
  BY CapsFollow
<1> QED BY <1>1, Invariance, PTL

\* The words of a revoked bridge are in the charge of a request that deletes them, or of
\* one that has failed; a revoke that has come to the tokens has left none
\* (AuthService.revokeAllForUser, BridgeService.revokeForUser, GlossaryService.addWords).
THEOREM WordsStayCleaned == Spec => []WordsAreCleaned
<1>1. IInv => WordsAreCleaned
  BY CleaningFollows
<1> QED BY <1>1, Invariance, PTL

\* No step takes the words of a live bridge but a request to remove them: neither a
\* revoke nor an addition that cleans up mistakes a live bridge for a revoked one.
THEOREM LiveBridgesKeepWords == Spec => LiveKeepsWords
<1>1. IInv /\ [Next]_vars =>
        [\A b \in Live : b \in Live' /\ WordsOf(b)' # WordsOf(b) /\ WordsOf(b)' \subseteq WordsOf(b) =>
           \E r \in Reqs : At(r, "remove", "pull") /\ reqs[r].scope = b]_vars
  BY OnlyRemovalsTake
<1> QED BY <1>1, Invariance, PTL DEF Spec, LiveKeepsWords
=============================================================================
