---------------------------- MODULE PlannedStops ----------------------------
(***************************************************************************)
(* The planned stops of one customer (scheduling.service.ts): a schedule   *)
(* keeps one stop ahead; a stop is put on a run, delivered, skipped,       *)
(* failed or converted to an order, and each of these plans the next one.  *)
(*                                                                         *)
(* A request is modelled by its awaits: Check... reads outside of any      *)
(* transaction or as the snapshot of one, the step after it writes, by     *)
(* primary key and whatever the row holds by then unless the code says     *)
(* otherwise.  Skip, fail and the end of a conversion first write, and so  *)
(* lock, their stop and read after that.  The items and the date of a stop *)
(* (updatePlannedStop changes nothing else), the run it is put on and the  *)
(* truck (DeliveryRuns) are left out.                                      *)
(***************************************************************************)
EXTENDS Integers, Sequences, FiniteSetsExt

CONSTANTS
    Clerks,       \* the requests that can be in progress at once
    MaxStops, MaxDeliveries   \* bounds

VARIABLES
    schedule,        \* "none", "active" or "inactive"
    stops,           \* all stops ever planned, in the order of createdAt
    stopDeliveries,  \* the deliveries made at stops: [stop, status]
    pending          \* what each clerk has read and is about to do

stopVars == <<schedule, stops, stopDeliveries, pending>>

NoTx == [op |-> "none"]
NoRequest(c) == pending[c] = NoTx
In(c, op) == pending[c].op = op
Goto(c, tx) == pending' = [pending EXCEPT ![c] = tx]
Finish(c) == Goto(c, NoTx)

StopsInit == /\ schedule = "none"
             /\ stops = <<>>
             /\ stopDeliveries = <<>>
             /\ pending = [c \in Clerks |-> NoTx]

(* reason is skipReason; mark stands for updatedAt, the number of stops    *)
(* that were planned before; orders is what a conversion made of the stop. *)
NewStop(source) ==
    [status |-> "PLANNED", source |-> source, onRun |-> FALSE, delivery |-> 0,
     reason |-> "none", mark |-> 0, orders |-> 0]

Upcoming(s) == s.status \in {"PLANNED", "INCLUDED"}
HasUpcoming(ss) == \E i \in DOMAIN ss : Upcoming(ss[i]) /\ ss[i].source = "SCHEDULE"
Exists(i) == stops[i].status # "GONE"

(* A transaction that has written stop i holds its lock. *)
Locked(i) == \E c \in Clerks : In(c, "spawning") /\ pending[c].stop = i

(* createStopIfNoUpcoming, the decision: is the next stop to be planned?   *)
NextDue(ss) == schedule = "active" /\ ~HasUpcoming(ss)

Spawned(ss, due) == IF due THEN Append(ss, NewStop("SCHEDULE")) ELSE ss

RoomFor(due) == due => Len(stops) < MaxStops
-----------------------------------------------------------------------------
(* upsertSchedule: the snapshot tells whether a stop is ahead. *)
CheckUpsert(c, active) ==
    /\ NoRequest(c)
    /\ Goto(c, [op |-> "upsert", new |-> schedule = "none", active |-> active,
                due |-> active /\ ~HasUpcoming(stops)])
    /\ UNCHANGED <<schedule, stops, stopDeliveries>>

CommitUpsert(c) ==
    /\ In(c, "upsert")
    /\ LET tx == pending[c] IN
           /\ RoomFor(tx.due)
           /\ tx.new => schedule = "none"   \* unique(tenantId, customerId)
           /\ \/ /\ tx.active
                 /\ schedule' = "active"
                 /\ stops' = Spawned(stops, tx.due)
              \/ /\ ~tx.active
                 /\ \A i \in DOMAIN stops : stops[i].status = "PLANNED" => ~Locked(i)
                 /\ schedule' = "inactive"
                 /\ stops' = [i \in DOMAIN stops |->
                        IF stops[i].status = "PLANNED" /\ stops[i].source = "SCHEDULE"
                        THEN [stops[i] EXCEPT !.status = "CANCELLED"] ELSE stops[i]]
    /\ Finish(c)
    /\ UNCHANGED stopDeliveries

(* listPlannedStops, getDeliveryContext: plan a stop if none is ahead. *)
CheckEnsure(c) ==
    /\ NoRequest(c)
    /\ NextDue(stops)
    /\ Goto(c, [op |-> "ensure"])
    /\ UNCHANGED <<schedule, stops, stopDeliveries>>

CommitEnsure(c) ==
    /\ In(c, "ensure")
    /\ RoomFor(TRUE)
    /\ stops' = Spawned(stops, TRUE)
    /\ Finish(c)
    /\ UNCHANGED <<schedule, stopDeliveries>>

(* createManualStop: one insert. *)
CreateManual(c) ==
    /\ NoRequest(c)
    /\ RoomFor(TRUE)
    /\ stops' = Append(stops, NewStop("MANUAL"))
    /\ UNCHANGED <<schedule, stopDeliveries, pending>>

(* includeInRun: only stops seen PLANNED, but the update does not ask.     *)
CheckInclude(c, i) ==
    /\ NoRequest(c)
    /\ stops[i].status = "PLANNED"
    /\ Goto(c, [op |-> "include", stop |-> i])
    /\ UNCHANGED <<schedule, stops, stopDeliveries>>

CommitInclude(c) ==
    /\ In(c, "include")
    /\ LET i == pending[c].stop IN
           /\ ~Locked(i)
           /\ stops' = IF Exists(i)
                       THEN [stops EXCEPT ![i].status = "INCLUDED", ![i].onRun = TRUE]
                       ELSE stops
    /\ Finish(c)
    /\ UNCHANGED <<schedule, stopDeliveries>>
-----------------------------------------------------------------------------
(* What a skip or failure, and the end of a conversion, write to the stop. *)
Result(s, outcome) ==
    IF outcome = "converted" THEN [s EXCEPT !.reason = "converted"]
    ELSE [s EXCEPT !.status = outcome, !.onRun = FALSE, !.reason = "none"]

(* Write stop i, which locks it, then read whether to plan the next one,   *)
(* if the stop belongs to a schedule.                                      *)
Advance(c, i, outcome) ==
    /\ Exists(i) /\ ~Locked(i)
    /\ Goto(c, [op |-> "spawning", stop |-> i, outcome |-> outcome,
                due |-> /\ stops[i].source = "SCHEDULE"
                        /\ NextDue([stops EXCEPT ![i] = Result(@, outcome)])])
    /\ UNCHANGED <<schedule, stops, stopDeliveries>>

(* Mutant: the next stop is not planned. *)
CommitAdvanceNoSpawn(c) ==
    /\ In(c, "spawning")
    /\ stops' = [stops EXCEPT ![pending[c].stop] = Result(@, pending[c].outcome)]
    /\ Finish(c)
    /\ UNCHANGED <<schedule, stopDeliveries>>

CommitAdvance(c) ==
    /\ In(c, "spawning")
    /\ RoomFor(pending[c].due)
    /\ LET tx == pending[c] IN
           stops' = Spawned([stops EXCEPT ![tx.stop] = Result(@, tx.outcome)],
                            tx.due)
    /\ Finish(c)
    /\ UNCHANGED <<schedule, stopDeliveries>>

(* terminalAdvance: the status is checked before the transaction. *)
CheckAdvance(c, i, outcome) ==
    /\ NoRequest(c)
    /\ Upcoming(stops[i])
    /\ Goto(c, [op |-> "advance", stop |-> i, outcome |-> outcome])
    /\ UNCHANGED <<schedule, stops, stopDeliveries>>

WriteAdvance(c) ==
    /\ In(c, "advance")
    /\ Advance(c, pending[c].stop, pending[c].outcome)

(* convertToOrder, outside of any transaction: check; claim the stop if it *)
(* is still upcoming and undelivered; create the order; then plan the next *)
(* stop.  If the order cannot be created, what the stop was is put back.   *)
CheckConvert(c, i) ==
    /\ NoRequest(c)
    /\ Upcoming(stops[i]) /\ stops[i].delivery = 0
    /\ Goto(c, [op |-> "claim", stop |-> i, status |-> stops[i].status,
                onRun |-> stops[i].onRun])
    /\ UNCHANGED <<schedule, stops, stopDeliveries>>

(* Mutant: the claim does not take the stop away from anybody else. *)
ClaimStopUnmarked(c) ==
    /\ In(c, "claim")
    /\ Goto(c, [pending[c] EXCEPT !.op = "order"])
    /\ UNCHANGED <<schedule, stops, stopDeliveries>>

ClaimStop(c) ==
    /\ In(c, "claim")
    /\ LET i == pending[c].stop IN
           /\ ~Locked(i)
           /\ \/ /\ Upcoming(stops[i]) /\ stops[i].delivery = 0
                 /\ stops' = [stops EXCEPT ![i].status = "CANCELLED", ![i].onRun = FALSE,
                                           ![i].reason = "converting"]
                 /\ Goto(c, [pending[c] EXCEPT !.op = "order"])
              \/ /\ ~(Upcoming(stops[i]) /\ stops[i].delivery = 0)
                 /\ Finish(c)
                 /\ UNCHANGED stops
    /\ UNCHANGED <<schedule, stopDeliveries>>

CreateOrder(c) ==
    /\ In(c, "order")
    /\ stops' = [stops EXCEPT ![pending[c].stop].orders = @ + 1]
    /\ Goto(c, [op |-> "ordered", stop |-> pending[c].stop])
    /\ UNCHANGED <<schedule, stopDeliveries>>

OrderFails(c) ==
    /\ In(c, "order")
    /\ LET i == pending[c].stop IN
           /\ Exists(i) /\ ~Locked(i)
           /\ stops' = [stops EXCEPT ![i].status = pending[c].status,
                                     ![i].onRun = pending[c].onRun, ![i].reason = "none"]
    /\ Finish(c)
    /\ UNCHANGED <<schedule, stopDeliveries>>

WriteConverted(c) ==
    /\ In(c, "ordered")
    /\ Advance(c, pending[c].stop, "converted")
-----------------------------------------------------------------------------
(* A delivery at a planned stop; completeStopInTx reads the stop from the  *)
(* snapshot of the delivery's transaction.                                 *)
CheckDeliver(c, i) ==
    /\ NoRequest(c)
    /\ Upcoming(stops[i])
    /\ Len(stopDeliveries) < MaxDeliveries
    /\ Goto(c, [op |-> "deliver", stop |-> i,
                due |-> NextDue([stops EXCEPT ![i].status = "COMPLETED"])])
    /\ UNCHANGED <<schedule, stops, stopDeliveries>>

CommitDeliver(c) ==
    /\ In(c, "deliver")
    /\ RoomFor(pending[c].due)
    /\ Len(stopDeliveries) < MaxDeliveries
    /\ LET i == pending[c].stop IN
           /\ Exists(i) /\ ~Locked(i)
           /\ stopDeliveries' = Append(stopDeliveries, [stop |-> i, status |-> "DELIVERED"])
           /\ stops' = Spawned([stops EXCEPT ![i].status = "COMPLETED",
                                             ![i].delivery = Len(stopDeliveries) + 1,
                                             ![i].mark = Len(stops)],
                               pending[c].due)
    /\ Finish(c)
    /\ UNCHANGED <<schedule>>

(* The delivery is cancelled; revertStopOnDeliveryCancelInTx reads the     *)
(* completed stop and the newest stop that was planned after it.           *)
CheckCancel(c, n) ==
    /\ NoRequest(c)
    /\ stopDeliveries[n].status = "DELIVERED"
    /\ LET linked == {i \in DOMAIN stops :
                         stops[i].delivery = n /\ stops[i].status = "COMPLETED"}
           i == IF linked = {} THEN 0 ELSE CHOOSE j \in linked : TRUE
           newer == {j \in DOMAIN stops : /\ i # 0 /\ j > stops[i].mark
                                          /\ stops[j].status = "PLANNED"
                                          /\ stops[j].source = "SCHEDULE"
                                          /\ ~stops[j].onRun}
       IN  Goto(c, [op |-> "cancel", delivery |-> n, stop |-> i,
                    next |-> IF newer = {} THEN 0 ELSE Max(newer)])
    /\ UNCHANGED <<schedule, stops, stopDeliveries>>

CommitCancel(c) ==
    /\ In(c, "cancel")
    /\ LET i == pending[c].stop
           next == pending[c].next
       IN  /\ \A j \in {i, next} \ {0} : Exists(j) /\ ~Locked(j)
           /\ stops' = [j \in DOMAIN stops |->
                  IF j = next THEN [stops[j] EXCEPT !.status = "GONE"]
                  ELSE IF j = i THEN [stops[j] EXCEPT !.status = "INCLUDED", !.delivery = 0]
                  ELSE stops[j]]
           /\ stopDeliveries' = [stopDeliveries EXCEPT ![pending[c].delivery].status = "CANCELLED"]
    /\ Finish(c)
    /\ UNCHANGED <<schedule>>
-----------------------------------------------------------------------------
(* The process dies or a query fails between two awaits: an open           *)
(* transaction is rolled back, what was written outside of one stays.      *)
CutOff(c) ==
    /\ ~NoRequest(c)
    /\ Finish(c)
    /\ UNCHANGED <<schedule, stops, stopDeliveries>>

Step(c) ==
    \/ \E active \in BOOLEAN : CheckUpsert(c, active)
    \/ CheckEnsure(c) \/ CreateManual(c)
    \/ \E i \in DOMAIN stops :
           \/ CheckInclude(c, i) \/ CheckConvert(c, i) \/ CheckDeliver(c, i)
           \/ \E outcome \in {"SKIPPED", "FAILED"} : CheckAdvance(c, i, outcome)
    \/ \E n \in DOMAIN stopDeliveries : CheckCancel(c, n)
    \/ CommitUpsert(c) \/ CommitEnsure(c) \/ CommitInclude(c)
    \/ WriteAdvance(c) \/ CommitAdvance(c)
    \/ ClaimStop(c) \/ CreateOrder(c) \/ OrderFails(c) \/ WriteConverted(c)
    \/ CommitDeliver(c) \/ CommitCancel(c) \/ CutOff(c)

StopsNext == \E c \in Clerks : Step(c)

StopsSpec == StopsInit /\ [][StopsNext]_stopVars
-----------------------------------------------------------------------------
Statuses == {"PLANNED", "INCLUDED", "COMPLETED", "SKIPPED", "FAILED", "CANCELLED", "GONE"}

TypeOK ==
    /\ schedule \in {"none", "active", "inactive"}
    /\ \A i \in DOMAIN stops : /\ stops[i].status \in Statuses
                               /\ stops[i].source \in {"SCHEDULE", "MANUAL"}
                               /\ stops[i].delivery \in 0..Len(stopDeliveries)
    /\ \A n \in DOMAIN stopDeliveries : stopDeliveries[n].stop \in DOMAIN stops

Standing(i) == {n \in DOMAIN stopDeliveries :
                   stopDeliveries[n].stop = i /\ stopDeliveries[n].status = "DELIVERED"}

(* "Claim stop first (conditional) so concurrent convert / include /       *)
(* deliver cannot double-sell": what is planned at a stop is sold once, by *)
(* one order or by one delivery.                                           *)
SoldOnce == \A i \in DOMAIN stops : stops[i].orders + Cardinality(Standing(i)) <= 1

(* A stop is COMPLETED exactly while the delivery made at it stands, and   *)
(* the two know each other.                                                *)
CompletedIsDelivered == \A i \in DOMAIN stops :
    /\ stops[i].status = "COMPLETED" => Standing(i) = {stops[i].delivery}
    /\ Standing(i) # {} => stops[i].status = "COMPLETED"

(* "so the schedule does not die": an active schedule has a stop ahead,    *)
(* unless a conversion is under way or was cut off, or the cancellation of *)
(* a delivery at a manual stop has deleted it.                             *)
ScheduleAlive == schedule = "active" =>
    \/ HasUpcoming(stops)
    \/ \E i \in DOMAIN stops : stops[i].reason = "converting"
    \/ \E n \in DOMAIN stopDeliveries : /\ stopDeliveries[n].status = "CANCELLED"
                                        /\ stops[stopDeliveries[n].stop].source = "MANUAL"

(* A schedule that is turned off leaves no planned stop behind, only those *)
(* that a run has already taken.                                           *)
OffMeansNothingPlanned == schedule # "active" =>
    \A i \in DOMAIN stops : stops[i].source = "SCHEDULE" => stops[i].status # "PLANNED"

(* What is planned agrees with the schedule, on or off. *)
PlanKept == ScheduleAlive /\ OffMeansNothingPlanned

(* Stops, the deliveries made at them and the schedule agree through any   *)
(* sequence of requests, each of which may be cut off at an await.         *)
StopsAgree == TypeOK /\ CompletedIsDelivered /\ PlanKept
=============================================================================
