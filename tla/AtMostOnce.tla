----------------------------- MODULE AtMostOnce -----------------------------
(***************************************************************************)
(* What the Idempotency-Key header promises to a client: however often a   *)
(* request is sent with one key, its handler takes effect at most once,    *)
(* and whoever is answered with a result is answered with the result of    *)
(* that one execution.  runIdempotent (module Idempotency) implements it.  *)
(* Only an execution whose request is then lost, that is, fails after its  *)
(* commit and is reported as an error, frees its key for another one.      *)
(***************************************************************************)
CONSTANTS Requests,  \* HTTP requests, retries of one another when they share a key
          Keys,      \* the (tenantId, scope, key) triples in use
          NoKey,     \* the header is missing or blank
          LongKey,   \* the header exceeds MAX_KEY_LEN
          KeyOf,     \* the key each request carries
          None,      \* not answered yet
          Conflict,  \* answered 409, "already in progress"
          Failed,    \* answered with an error
          Lossy      \* may a request fail after its handler took effect?

VARIABLES executed,  \* the requests whose handler took effect
          answer     \* what each client was told: a result is named by its request

vars == <<executed, answer>>

Init == /\ executed = {}
        /\ answer = [r \in Requests |-> None]

(* Took effect, and its client was told that it failed. *)
Lost(r) == r \in executed /\ answer[r] = Failed

(* The handler takes effect: never twice for one key, but for what is      *)
(* lost.  Its client may be answered at once.                              *)
Execute(r) ==
    /\ r \notin executed
    /\ KeyOf[r] \in Keys => \A s \in executed : KeyOf[s] = KeyOf[r] => Lost(s)
    /\ executed' = executed \cup {r}
    /\ \/ UNCHANGED answer
       \/ /\ answer[r] = None
          /\ \E a \in {r} \cup (IF Lossy THEN {Failed} ELSE {}) : answer' = [answer EXCEPT ![r] = a]

(* The client gets the result of an execution under its own key. *)
Answer(r) ==
    /\ answer[r] = None
    /\ \E s \in executed : /\ s = r \/ (KeyOf[r] \in Keys /\ KeyOf[s] = KeyOf[r])
                           /\ answer' = [answer EXCEPT ![r] = s]
    /\ UNCHANGED executed

(* Who is told of a conflict has had no effect, and so has, unless it is   *)
(* lost, who is told of a failure.                                         *)
Refuse(r) ==
    /\ answer[r] = None
    /\ \/ r \notin executed /\ answer' = [answer EXCEPT ![r] = Conflict]
       \/ (r \in executed => Lossy) /\ answer' = [answer EXCEPT ![r] = Failed]
    /\ UNCHANGED executed

Next == \E r \in Requests : Execute(r) \/ Answer(r) \/ Refuse(r)

Spec == Init /\ [][Next]_vars
=============================================================================
