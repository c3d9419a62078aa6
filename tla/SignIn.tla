------------------------------ MODULE SignIn ------------------------------
(***************************************************************************)
(* What the sign-in flow promises of one attempt: nothing is delivered     *)
(* before the user, asked in the browser, has granted it; a refusal or a   *)
(* failure is final; a grant is delivered any number of times until it is  *)
(* acknowledged and never again; and the server may forget an attempt at   *)
(* any moment (expiry, eviction, a new attempt with the same token).       *)
(***************************************************************************)
CONSTANT Attempts

VARIABLES
  phase,      \* how far each attempt has come
  delivered   \* attempts whose tokens have reached a client

vars == <<phase, delivered>>

Undecided == {"open", "asked"}
Begun == Undecided \cup {"granted", "refused", "failed", "acknowledged", "gone"}

Init ==
  /\ phase = [a \in Attempts |-> "new"]
  /\ delivered = {}

\* Attempt a moves from one of the phases in "from" to "to".
Move(a, from, to) ==
  /\ phase[a] \in from
  /\ phase' = [phase EXCEPT ![a] = to]
  /\ UNCHANGED delivered

\* A new attempt, which may push earlier ones out of the store.
Begin(a, forgotten) ==
  /\ phase[a] = "new"
  /\ phase' = [b \in Attempts |-> IF b = a THEN "open"
                                  ELSE IF b \in forgotten THEN "gone" ELSE phase[b]]
  /\ UNCHANGED delivered

Forget(forgotten) ==
  /\ phase' = [b \in Attempts |-> IF b \in forgotten THEN "gone" ELSE phase[b]]
  /\ UNCHANGED delivered

Deliver(a) ==
  /\ phase[a] = "granted"
  /\ delivered' = delivered \cup {a}
  /\ UNCHANGED phase

\* What is stored can be forgotten; what never began or was settled cannot.
Forgettable == {a \in Attempts : phase[a] \in Undecided \cup {"granted", "refused", "failed"}}

Next ==
  \/ \E a \in Attempts :
       \/ \E forgotten \in SUBSET Forgettable : Begin(a, forgotten)
       \/ Move(a, {"open"}, "asked")
       \/ Move(a, {"asked"}, "granted")
       \/ Move(a, Undecided, "refused")
       \/ Move(a, Undecided, "failed")
       \/ Move(a, {"granted"}, "acknowledged")
       \/ Deliver(a)
  \/ \E forgotten \in SUBSET Forgettable : Forget(forgotten)

Spec == Init /\ [][Next]_vars
=============================================================================
