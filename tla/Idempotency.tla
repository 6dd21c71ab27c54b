----------------------------- MODULE Idempotency -----------------------------
(***************************************************************************)
(* runIdempotent (src/src/common/helpers/idempotency.helper.ts): the       *)
(* wrapper that the controllers of deliveries, payments, cash handovers,   *)
(* goods receipts, vendor bill payments and production completion put      *)
(* around their handler.  Every await of the helper is a step of its own,  *)
(* so requests that share a key interleave between any two of them.        *)
(*                                                                         *)
(* A stored response is named by the request whose handler produced it.    *)
(* Faults selects what the environment may do to a request:                *)
(*   "crash"   the process dies between two awaits;                        *)
(*   "late"    the handler, or the update that stores its response, fails  *)
(*             although the handler's transaction has committed;           *)
(*   "delete"  the delete that releases the key fails (its error is        *)
(*             swallowed).                                                 *)
(***************************************************************************)
CONSTANTS Requests, Keys, NoKey, LongKey, KeyOf, None, Conflict, Failed,
          Absent,    \* no idempotency_keys row
          Pending,   \* a row whose responseJson is null
          Faults

KeyAssumption ==
    /\ KeyOf \in [Requests -> Keys \cup {NoKey, LongKey}]
    /\ NoKey \notin Keys /\ LongKey \notin Keys /\ NoKey # LongKey
    /\ {None, Conflict, Failed, Absent, Pending} \cap Requests = {}
    /\ None # Conflict /\ None # Failed /\ Conflict # Failed /\ Absent # Pending

ASSUME KeyAssumption

VARIABLES keyRow,   \* idempotency_keys: per key Absent, Pending or the stored response
          pc,       \* where each request stands in runIdempotent
          answer,   \* what its client has been told
          executed  \* the requests whose handler's transaction has committed

keyVars == <<keyRow, pc, answer, executed>>

KeyInit == /\ keyRow = [k \in Keys |-> Absent]
           /\ pc = [r \in Requests |-> "lookup"]
           /\ answer = [r \in Requests |-> None]
           /\ executed = {}

(* Finish r with the answer a. *)
Return(r, a) == /\ pc' = [pc EXCEPT ![r] = "done"]
                /\ answer' = [answer EXCEPT ![r] = a]

Goto(r, l) == /\ pc' = [pc EXCEPT ![r] = l]
              /\ UNCHANGED answer

(* A key that is too long is refused before any lookup; without a key the  *)
(* handler just runs.                                                      *)
CheckKey(r) ==
    /\ pc[r] = "lookup"
    /\ \/ KeyOf[r] = LongKey /\ Return(r, Failed)
       \/ KeyOf[r] = NoKey /\ Goto(r, "run")
    /\ UNCHANGED <<keyRow, executed>>

(* Mutant: a key in progress does not stop the second request. *)
LookupIgnoresPending(r) ==
    /\ pc[r] = "lookup"
    /\ KeyOf[r] \in Keys
    /\ \/ keyRow[KeyOf[r]] = Absent /\ Goto(r, "create")
       \/ keyRow[KeyOf[r]] = Pending /\ Goto(r, "run")
       \/ keyRow[KeyOf[r]] \in Requests /\ Return(r, keyRow[KeyOf[r]])
    /\ UNCHANGED <<keyRow, executed>>

(* findUnique: replay a stored response, refuse a key in progress. *)
Lookup(r) ==
    /\ pc[r] = "lookup"
    /\ KeyOf[r] \in Keys
    /\ \/ keyRow[KeyOf[r]] = Absent /\ Goto(r, "create")
       \/ keyRow[KeyOf[r]] = Pending /\ Return(r, Conflict)
       \/ keyRow[KeyOf[r]] \in Requests /\ Return(r, keyRow[KeyOf[r]])
    /\ UNCHANGED <<keyRow, executed>>

(* Mutant: no unique index on (tenantId, scope, key). *)
ClaimWithoutIndex(r) ==
    /\ pc[r] = "create"
    /\ keyRow' = [keyRow EXCEPT ![KeyOf[r]] = Pending]
    /\ Goto(r, "run")
    /\ UNCHANGED executed

(* Mutant: the create stands inside the try block whose catch deletes.     *)
ClaimInsideTry(r) ==
    /\ pc[r] = "create"
    /\ IF keyRow[KeyOf[r]] = Absent
       THEN keyRow' = [keyRow EXCEPT ![KeyOf[r]] = Pending] /\ Goto(r, "run")
       ELSE Goto(r, "release") /\ UNCHANGED keyRow
    /\ UNCHANGED executed

(* create: the unique index lets one request claim the key (else P2002). *)
Claim(r) ==
    /\ pc[r] = "create"
    /\ IF keyRow[KeyOf[r]] = Absent
       THEN keyRow' = [keyRow EXCEPT ![KeyOf[r]] = Pending] /\ Goto(r, "run")
       ELSE Goto(r, "again") /\ UNCHANGED keyRow
    /\ UNCHANGED executed

(* The second findUnique, after P2002; the row may be gone again by now. *)
LookupAgain(r) ==
    /\ pc[r] = "again"
    /\ IF keyRow[KeyOf[r]] \in {Absent, Pending}
       THEN Return(r, Conflict)
       ELSE Return(r, keyRow[KeyOf[r]])
    /\ UNCHANGED <<keyRow, executed>>

(* A query before the handler rejects for another reason: a lost           *)
(* connection, a tenant row that is gone.                                  *)
QueryError(r) ==
    /\ KeyOf[r] \in Keys
    /\ pc[r] \in {"lookup", "create", "again"}
    /\ Return(r, Failed)
    /\ UNCHANGED <<keyRow, executed>>

(* fn() resolves, or rejects with nothing committed. *)
Run(r) ==
    /\ pc[r] = "run"
    /\ UNCHANGED keyRow
    /\ \/ /\ executed' = executed \cup {r}
          /\ IF KeyOf[r] = NoKey THEN Return(r, r) ELSE Goto(r, "save")
       \/ /\ UNCHANGED executed
          /\ IF KeyOf[r] = NoKey THEN Return(r, Failed) ELSE Goto(r, "release")

(* fn() commits its transaction and then rejects: the re-read of the       *)
(* record, the summary or the connection fails.                            *)
RunLateFailure(r) ==
    /\ "late" \in Faults
    /\ pc[r] = "run"
    /\ executed' = executed \cup {r}
    /\ IF KeyOf[r] = NoKey THEN Return(r, Failed) ELSE Goto(r, "release")
    /\ UNCHANGED keyRow

(* Mutant: the response is answered and not stored. *)
SaveNothing(r) ==
    /\ pc[r] = "save"
    /\ Return(r, r)
    /\ UNCHANGED <<keyRow, executed>>

(* update: store the response and answer. *)
Save(r) ==
    /\ pc[r] = "save"
    /\ keyRow' = [keyRow EXCEPT ![KeyOf[r]] = r]
    /\ Return(r, r)
    /\ UNCHANGED executed

(* The update rejects, with or without having been applied. *)
SaveFailure(r) ==
    /\ "late" \in Faults
    /\ pc[r] = "save"
    /\ \/ keyRow' = [keyRow EXCEPT ![KeyOf[r]] = r]
       \/ UNCHANGED keyRow
    /\ Goto(r, "release")
    /\ UNCHANGED executed

(* The catch block: delete the row, whatever it holds by now, and rethrow. *)
Release(r) ==
    /\ pc[r] = "release"
    /\ \/ keyRow' = [keyRow EXCEPT ![KeyOf[r]] = Absent]
       \/ "delete" \in Faults /\ UNCHANGED keyRow
    /\ Return(r, Failed)
    /\ UNCHANGED executed

Crash(r) ==
    /\ "crash" \in Faults
    /\ pc[r] \notin {"done", "dead"}
    /\ Goto(r, "dead")
    /\ UNCHANGED <<keyRow, executed>>

Step(r) == \/ CheckKey(r) \/ Lookup(r) \/ Claim(r) \/ LookupAgain(r)
           \/ Run(r) \/ Save(r) \/ Release(r)

Fault(r) == QueryError(r) \/ RunLateFailure(r) \/ SaveFailure(r) \/ Crash(r)

KeyNext == \E r \in Requests : Step(r) \/ Fault(r)

KeySpec == KeyInit /\ [][KeyNext]_keyVars

(* Node keeps scheduling a request whose await has settled, and MySQL      *)
(* answers every query: each request that has not crashed makes progress.  *)
FairSpec == KeySpec /\ \A r \in Requests : WF_keyVars(Step(r))
-----------------------------------------------------------------------------
TypeOK ==
    /\ keyRow \in [Keys -> Requests \cup {Absent, Pending}]
    /\ pc \in [Requests -> {"lookup", "create", "again", "run", "save",
                            "release", "done", "dead"}]
    /\ answer \in [Requests -> Requests \cup {None, Conflict, Failed}]
    /\ executed \subseteq Requests

(* r has claimed its key and not given it back. *)
Owner(r) == pc[r] \in {"run", "save", "release"} /\ KeyOf[r] \in Keys

(* r took effect, but the helper has told its client that it failed. *)
Lost(r) == r \in executed /\ answer[r] = Failed

(* One request at a time runs the handler under a key, although the lookup *)
(* and the claim are two statements: the unique index decides.             *)
OneOwner == \A r, s \in Requests :
                (r # s /\ Owner(r) /\ Owner(s)) => KeyOf[r] # KeyOf[s]

(* Two executions under one key are possible only if one of them failed    *)
(* after its commit: runIdempotent's catch block releases the key without  *)
(* knowing whether fn took effect.                                         *)
OnceUnlessLost == \A r, s \in executed :
                      (r # s /\ KeyOf[r] = KeyOf[s] /\ KeyOf[r] \in Keys)
                         => Lost(r) \/ Lost(s)

(* Whoever is answered with a result gets the result of an execution that  *)
(* has committed under the same key.                                       *)
ReplayFaithful == \A r \in Requests : answer[r] \in Requests =>
                      /\ answer[r] \in executed
                      /\ KeyOf[answer[r]] = KeyOf[r]

(* A stored response is only ever withdrawn by the request that stored it, *)
(* and is never replaced by another one.                                   *)
ResponseStable == [][\A k \in Keys : keyRow[k] \in Requests =>
                        \/ keyRow'[k] = keyRow[k]
                        \/ keyRow'[k] = Absent /\ pc[keyRow[k]] = "release"]_keyVars

(* One request at a time runs the handler under a key; two executions      *)
(* under one key need a first one that failed after its commit; and every  *)
(* result that a client receives was committed under its own key.          *)
KeysSound == TypeOK /\ OneOwner /\ OnceUnlessLost /\ ReplayFaithful

(* A key is stranded by a request that died, or whose delete failed. *)
Stranded(k) == \E r \in Requests :
    KeyOf[r] = k /\ (pc[r] = "dead" \/ ("delete" \in Faults /\ answer[r] = Failed))

(* Every request is answered unless its process dies, and no key stays in  *)
(* progress for ever unless it is stranded.                                *)
Answered == /\ \A r \in Requests : <>(answer[r] # None \/ pc[r] = "dead")
            /\ \A k \in Keys : keyRow[k] = Pending ~> keyRow[k] # Pending \/ Stranded(k)

Once == INSTANCE AtMostOnce WITH Lossy <- "late" \in Faults

(* runIdempotent implements AtMostOnce: a key is used twice only after a   *)
(* failure past the commit of the first use.                               *)
OnceSpec == Once!Spec
=============================================================================
