------------------------------ MODULE Requests ------------------------------
(***************************************************************************)
(* Requests of the back office that overlap.  A handler reads and checks,  *)
(* and writes later by id: between the two, other requests run.  A request *)
(* in progress is a frame: its operation, the rows it handles ("on") and   *)
(* what it has read.                                                       *)
(***************************************************************************)
EXTENDS Integers, FiniteSets, Sequences

CONSTANTS Desks,  \* requests that can be in progress at once
          Scenes  \* what a behaviour consists of: operations, inputs and bounds

VARIABLES
    scene,   \* the scene being played
    desk,    \* [desk]: the request in progress
    crossed  \* history: rows that two requests handled at once, or one that broke off

requestVars == <<scene, desk, crossed>>

Does(op) == op \in scene.does
Idle == [op |-> "none", on |-> {}]
Holds(k, op) == desk[k].op = op

Starts(k, frame) ==
    /\ desk[k] = Idle
    /\ desk' = [desk EXCEPT ![k] = frame]
    /\ crossed' = crossed \cup UNION {frame.on \cap desk[other].on : other \in Desks}
    /\ UNCHANGED scene

Ends(k) == desk' = [desk EXCEPT ![k] = Idle] /\ UNCHANGED <<scene, crossed>>

\* A request whose writes are not one transaction breaks off between two of them.
BreaksOff(k) ==
    /\ desk' = [desk EXCEPT ![k] = Idle]
    /\ crossed' = crossed \cup desk[k].on
    /\ UNCHANGED scene

\* The writes of a request that also reach rows it does not handle.
EndsTouching(k, rows) ==
    /\ desk' = [desk EXCEPT ![k] = Idle]
    /\ crossed' = crossed \cup (rows \cap UNION {desk[other].on : other \in Desks \ {k}})
    /\ UNCHANGED scene

\* An operation done at once, in the middle of the requests in progress.
Touches(rows) ==
    /\ crossed' = crossed \cup (rows \cap UNION {desk[k].on : k \in Desks})
    /\ UNCHANGED <<scene, desk>>

Apart(row) == row \notin crossed

\* An update writes the columns it is given.
Patched(row, put) == [column \in DOMAIN row |-> IF column \in DOMAIN put THEN put[column] ELSE row[column]]
=============================================================================
