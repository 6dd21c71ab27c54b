-------------------------- MODULE Workspaces_proofs --------------------------
(* Proofs about Accounts and Workspaces for any number of clients, users,  *)
(* workspaces and scenes: a refresh token is exchanged once, requests that *)
(* overlap pass the lockout at most once each, a workspace never touches   *)
(* the grants of platform modules; sign-outs hold, roles belong to members *)
(* and an onboarding is whole or has left nothing behind.                  *)
EXTENDS Workspaces, FiniteSetTheorems, TLAPS

-----------------------------------------------------------------------------
(* Requests and rows are records with their fields, and what a workspace   *)
(* asks to grant or to withdraw is in its catalog.                         *)
Harmless(r) == r.op = "grant" /\ r.u \notin Supers => PlatformOnly \cap (r.arg \cup r.off) = {}

IsFrame(r) == /\ r = [op |-> r.op, at |-> r.at, how |-> r.how, u |-> r.u, t |-> r.t, s |-> r.s,
                      pw |-> r.pw, arg |-> r.arg, off |-> r.off]
              /\ Harmless(r)

IsRow(x) == x = [kind |-> x.kind, state |-> x.state, user |-> x.user, tenant |-> x.tenant,
                 from |-> x.from, pw |-> x.pw, late |-> x.late]

Shapes == /\ req = [c \in Clients |-> req[c]] /\ \A c \in Clients : IsFrame(req[c])
          /\ session = [i \in Rows |-> session[i]] /\ \A i \in Rows : IsRow(session[i])
          /\ failed \in [Users -> Nat]

(* A request that has read a session it is going to rotate, or that has    *)
(* rotated it; a sign-in that has read that it is refused.                 *)
Rotating(r) == r.op = "refresh" /\ r.at \in {"rotate", "create"}
Refused(r) == r.op = "login" /\ r.at = "reject"
Quiet(r) == IsFrame(r) /\ ~Rotating(r) /\ ~Refused(r)

(* What almost every step does: it leaves all such requests alone, deletes *)
(* sessions or changes them, or makes one that replaces no other.          *)
ReqKept == /\ req' = [c \in Clients |-> req'[c]]
           /\ \A c \in Clients : req'[c] = req[c] \/ Quiet(req'[c])

RowKept(i) == /\ session'[i].kind = session[i].kind /\ session'[i].from = session[i].from
              /\ session[i].state = "gone" => session'[i].state = "gone"
RowNew(i) == /\ session[i].kind = "none" /\ session'[i].kind # "none"
             /\ session'[i].from = 0
RowsKept == /\ session' = [i \in Rows |-> session'[i]]
            /\ \A i \in Rows : IsRow(session'[i]) /\ (RowKept(i) \/ RowNew(i))

-----------------------------------------------------------------------------
(* What becomes of a request when one field of it changes. *)
LEMMA FrameIsFrame ==
    ASSUME NEW op, NEW at, NEW u, NEW t, NEW s, NEW pw
    PROVE  LET r == Frame(op, at, u, t, s, pw) IN
           IsFrame(r) /\ r.op = op /\ r.at = at /\ r.u = u /\ r.s = s
BY DEF Frame, IsFrame, Harmless

LEMMA SetAt ==
    ASSUME NEW r, IsFrame(r), NEW x
    PROVE  LET q == [r EXCEPT !.at = x] IN
           IsFrame(q) /\ q.op = r.op /\ q.at = x /\ q.u = r.u /\ q.s = r.s
BY DEF IsFrame, Harmless

LEMMA SetHow ==
    ASSUME NEW r, IsFrame(r), NEW x
    PROVE  LET q == [r EXCEPT !.how = x] IN
           IsFrame(q) /\ q.op = r.op /\ q.at = r.at /\ q.u = r.u /\ q.s = r.s
BY DEF IsFrame, Harmless

LEMMA SetTenant ==
    ASSUME NEW r, IsFrame(r), NEW x
    PROVE  LET q == [r EXCEPT !.t = x] IN
           IsFrame(q) /\ q.op = r.op /\ q.at = r.at /\ q.u = r.u /\ q.s = r.s
BY DEF IsFrame, Harmless

LEMMA SetSession ==
    ASSUME NEW r, IsFrame(r), NEW x
    PROVE  LET q == [r EXCEPT !.s = x] IN
           IsFrame(q) /\ q.op = r.op /\ q.at = r.at /\ q.u = r.u /\ q.s = x
BY DEF IsFrame, Harmless

LEMMA SetPassword ==
    ASSUME NEW r, IsFrame(r), NEW x
    PROVE  LET q == [r EXCEPT !.pw = x] IN
           IsFrame(q) /\ q.op = r.op /\ q.at = r.at /\ q.u = r.u /\ q.s = r.s
BY DEF IsFrame, Harmless

LEMMA SetArg ==
    ASSUME NEW r, IsFrame(r), NEW x,
           r.op = "grant" /\ r.u \notin Supers => PlatformOnly \cap x = {}
    PROVE  LET q == [r EXCEPT !.arg = x] IN
           IsFrame(q) /\ q.op = r.op /\ q.at = r.at /\ q.u = r.u /\ q.s = r.s
BY DEF IsFrame, Harmless

LEMMA SetOff ==
    ASSUME NEW r, IsFrame(r), NEW x,
           r.op = "grant" /\ r.u \notin Supers => PlatformOnly \cap x = {}
    PROVE  LET q == [r EXCEPT !.off = x] IN
           IsFrame(q) /\ q.op = r.op /\ q.at = r.at /\ q.u = r.u /\ q.s = r.s
BY DEF IsFrame, Harmless

LEMMA TaskIsFrame ==
    ASSUME NEW op, NEW at, NEW u, NEW t, NEW how, NEW arg,
           op = "grant" /\ u \notin Supers => PlatformOnly \cap arg = {}
    PROVE  LET task == Task(op, at, u, t, how, arg) IN
           IsFrame(task) /\ task.op = op /\ task.u = u
<1> DEFINE p == Frame(op, at, u, t, 0, 0)
           q == [p EXCEPT !.how = how]
           r == [q EXCEPT !.arg = arg]
<1>1. IsFrame(p) /\ p.op = op /\ p.u = u
  BY FrameIsFrame
<1>2. IsFrame(q) /\ q.op = op /\ q.u = u
  <2> HIDE DEF p
  <2> QED
    BY <1>1, SetHow
<1>3. IsFrame(r) /\ r.op = op /\ r.u = u
  <2> HIDE DEF q
  <2> QED
    BY <1>2, SetArg
<1> QED
  BY <1>3, Zenon DEF Task

-----------------------------------------------------------------------------
(* Ways in which a request goes on that keep the others. *)
LEMMA QuietAsks ==
    ASSUME Shapes, NEW c \in Clients, NEW r, Quiet(r), Asks(c, r)
    PROVE  ReqKept
<1>1. \A d \in Clients : req'[d] = IF d = c THEN r ELSE req[d]
  BY DEF Asks, Shapes
<1>2. req' = [d \in Clients |-> req'[d]]
  BY DEF Asks, Shapes
<1> QED
  BY <1>1, <1>2 DEF ReqKept

LEMMA QuietEnds == ASSUME Shapes, NEW c \in Clients, Ends(c) PROVE ReqKept
<1>1. Quiet(Idle)
  BY FrameIsFrame DEF Idle, Quiet, Rotating, Refused
<1> QED
  BY <1>1, QuietAsks DEF Ends

LEMMA QuietGoes ==
    ASSUME Shapes, NEW c \in Clients, NEW at, Goes(c, at),
           req[c].op \notin {"login", "refresh"} \/ at \notin {"rotate", "create", "reject"}
    PROVE  ReqKept
<1>1. Quiet([req[c] EXCEPT !.at = at])
  BY SetAt DEF Shapes, Quiet, Rotating, Refused
<1> QED
  BY <1>1, QuietAsks DEF Goes

LEMMA QuietFrame ==
    ASSUME Shapes, NEW c \in Clients, NEW op, NEW at, NEW u, NEW t, NEW s, NEW pw,
           op \notin {"login", "refresh"}, Asks(c, Frame(op, at, u, t, s, pw))
    PROVE  ReqKept
<1>1. Quiet(Frame(op, at, u, t, s, pw))
  BY FrameIsFrame DEF Quiet, Rotating, Refused
<1> QED
  BY <1>1, QuietAsks

LEMMA QuietTask ==
    ASSUME Shapes, NEW c \in Clients, NEW op, NEW at, NEW u, NEW t, NEW how, NEW arg,
           op \notin {"login", "refresh", "grant"}, Asks(c, Task(op, at, u, t, how, arg))
    PROVE  ReqKept
<1>1. Quiet(Task(op, at, u, t, how, arg))
  BY TaskIsFrame DEF Quiet, Rotating, Refused
<1> QED
  BY <1>1, QuietAsks

LEMMA QuietThrows ==
    ASSUME Shapes, NEW c \in Clients, Throws(c) PROVE ReqKept
BY QuietGoes, QuietEnds DEF Throws

LEMMA QuietLookup ==
    ASSUME Shapes, NEW c \in Clients, NEW r, IsFrame(r), r.op \notin {"login", "refresh"},
           Lookup(c, r)
    PROVE  ReqKept
<1> DEFINE path == InvitePath(r.u, r.t)
           at == IF path \in {"new", "restored"} THEN "person" ELSE "enrol"
           p == [r EXCEPT !.how = path]
           q == [p EXCEPT !.at = at]
<1>1. IsFrame(p) /\ p.op = r.op
  <2> HIDE DEF path
  <2> QED
    BY SetHow
<1>2. IsFrame(q) /\ q.op = r.op
  <2> HIDE DEF p, at
  <2> QED
    BY <1>1, SetAt
<1>3. Quiet(q)
  <2> HIDE DEF q
  <2> QED
    BY <1>2 DEF Quiet, Rotating, Refused
<1>4. Asks(c, q)
  BY Zenon DEF Lookup
<1> HIDE DEF q
<1> QED
  BY <1>3, <1>4, QuietAsks
-----------------------------------------------------------------------------
(* Ways in which the sessions go on. *)
LEMMA SetState ==
    ASSUME NEW r, IsRow(r), NEW x
    PROVE  LET q == [r EXCEPT !.state = x] IN
           IsRow(q) /\ q.kind = r.kind /\ q.from = r.from /\ q.state = x
BY DEF IsRow

LEMMA SetRoom ==
    ASSUME NEW r, IsRow(r), NEW x
    PROVE  LET q == [r EXCEPT !.tenant = x] IN
           IsRow(q) /\ q.kind = r.kind /\ q.from = r.from /\ q.state = r.state
BY DEF IsRow

LEMMA SetKind ==
    ASSUME NEW r, IsRow(r), NEW x
    PROVE  LET q == [r EXCEPT !.kind = x] IN IsRow(q) /\ q.kind = x /\ q.from = r.from
BY DEF IsRow

LEMMA SameRows == ASSUME Shapes, session' = session PROVE RowsKept
BY DEF Shapes, RowsKept, RowKept

LEMMA WithoutRows == ASSUME Shapes, NEW S, session' = Without(S) PROVE RowsKept
<1>1. session' = [i \in Rows |-> session'[i]]
  BY DEF Without
<1>2. ASSUME NEW i \in Rows PROVE IsRow(session'[i]) /\ RowKept(i)
  <2>1. session'[i] = IF i \in S THEN [session[i] EXCEPT !.state = "gone"] ELSE session[i]
    BY DEF Without
  <2>2. IsRow(session[i])
    BY DEF Shapes
  <2>3. CASE i \in S
    BY <2>1, <2>2, <2>3, SetState DEF RowKept
  <2>4. CASE i \notin S
    BY <2>1, <2>2, <2>4 DEF RowKept
  <2> QED
    BY <2>3, <2>4
<1> QED
  BY <1>1, <1>2 DEF RowsKept

(* A session expires, or is sealed. *)
LEMMA StateRows ==
    ASSUME Shapes, NEW i \in Rows, NEW x, session[i].state # "gone",
           session' = [session EXCEPT ![i].state = x]
    PROVE  RowsKept
<1>1. session' = [session EXCEPT ![i] = [session[i] EXCEPT !.state = x]]
  OBVIOUS
<1> DEFINE y == [session[i] EXCEPT !.state = x]
<1>2. IsRow(y) /\ y.kind = session[i].kind /\ y.from = session[i].from
  BY SetState DEF Shapes
<1> HIDE DEF y
<1>3. session' = [j \in Rows |-> IF j = i THEN y ELSE session[j]]
  BY <1>1 DEF Shapes, y
<1>4. ASSUME NEW j \in Rows PROVE IsRow(session'[j]) /\ RowKept(j)
  <2>1. CASE j = i
    BY <1>2, <1>3, <2>1 DEF RowKept
  <2>2. CASE j # i
    BY <1>3, <2>2 DEF RowKept, Shapes
  <2> QED
    BY <2>1, <2>2
<1> QED
  BY <1>3, <1>4 DEF RowsKept

LEMMA NewRowUnused == ASSUME Spare PROVE NewRow \in Unused
BY DEF Spare, NewRow

(* A session, or a token, is made. *)
LEMMA AddedRow ==
    ASSUME Shapes, Spare, NEW x, IsRow(x), session' = [session EXCEPT ![NewRow] = x]
    PROVE  /\ session' = [i \in Rows |-> IF i = NewRow THEN x ELSE session[i]]
           /\ NewRow \in Rows /\ session[NewRow].kind = "none"
           /\ x.kind # "none" /\ x.from = 0 => RowsKept
<1>1. NewRow \in Rows /\ session[NewRow].kind = "none"
  BY NewRowUnused DEF Unused
<1>2. session' = [i \in Rows |-> IF i = NewRow THEN x ELSE session[i]]
  BY DEF Shapes
<1>3. ASSUME x.kind # "none", x.from = 0 PROVE RowsKept
  <2>1. ASSUME NEW i \in Rows PROVE IsRow(session'[i]) /\ (RowKept(i) \/ RowNew(i))
    <3>1. CASE i = NewRow
      BY <1>1, <1>2, <1>3, <3>1 DEF RowNew
    <3>2. CASE i # NewRow
      BY <1>2, <3>2 DEF RowKept, Shapes
    <3> QED
      BY <3>1, <3>2
  <2> QED
    BY <1>2, <2>1 DEF RowsKept
<1> QED
  BY <1>1, <1>2, <1>3

LEMMA IssuedRows ==
    ASSUME Shapes, Spare, NEW kind, kind # "none", NEW u, NEW t, Issue(kind, u, t)
    PROVE  RowsKept
<1> DEFINE x == [NoRow EXCEPT !.kind = kind, !.state = "open", !.user = u, !.tenant = t]
           a == [NoRow EXCEPT !.kind = kind]
           b == [a EXCEPT !.state = "open"]
           d == [b EXCEPT !.user = u]
           e == [d EXCEPT !.tenant = t]
<1>1. IsRow(a) /\ a.kind = kind /\ a.from = 0
  <2>1. IsRow(NoRow) /\ NoRow.from = 0
    BY DEF NoRow, IsRow
  <2> QED
    BY <2>1, SetKind
<1>2. IsRow(b) /\ b.kind = kind /\ b.from = 0
  <2> HIDE DEF a
  <2> QED
    BY <1>1, SetState
<1>3. IsRow(d) /\ d.kind = kind /\ d.from = 0
  <2> HIDE DEF b
  <2> QED
    BY <1>2 DEF IsRow
<1>4. IsRow(e) /\ e.kind = kind /\ e.from = 0
  <2> HIDE DEF d
  <2> QED
    BY <1>3, SetRoom
<1>5. session' = [session EXCEPT ![NewRow] = e]
  BY Zenon DEF Issue
<1> HIDE DEF e
<1> QED
  BY <1>4, <1>5, AddedRow

(* The rollback of onboarding leaves its sessions without a workspace. *)
LEMMA RoomRows ==
    ASSUME Shapes, NEW t,
           session' = [i \in Rows |-> [session[i] EXCEPT !.tenant = IF @ = t THEN Nobody ELSE @]]
    PROVE  RowsKept
<1>1. ASSUME NEW i \in Rows PROVE IsRow(session'[i]) /\ RowKept(i)
  <2> DEFINE x == IF session[i].tenant = t THEN Nobody ELSE session[i].tenant
  <2>1. session'[i] = [session[i] EXCEPT !.tenant = x]
    OBVIOUS
  <2>2. IsRow(session[i])
    BY DEF Shapes
  <2> DEFINE y == [session[i] EXCEPT !.tenant = x]
  <2>3. /\ IsRow(y) /\ y.kind = session[i].kind /\ y.from = session[i].from
        /\ y.state = session[i].state
    <3> HIDE DEF x
    <3> QED
      BY <2>2, SetRoom
  <2> HIDE DEF x, y
  <2>4. session'[i] = y
    BY <2>1, Zenon DEF y
  <2> QED
    BY <2>3, <2>4 DEF RowKept
<1> QED
  BY <1>1 DEF RowsKept

-----------------------------------------------------------------------------
(* What the steps of the office change of all this: nothing. *)
QuietStep == ReqKept /\ RowsKept /\ failed' = failed

LEMMA SameReq == ASSUME Shapes, req' = req PROVE ReqKept
BY DEF Shapes, ReqKept

LEMMA OfficeIsQuiet ==
    ASSUME Shapes, NEW c \in Clients, OfficeStep(c) PROVE QuietStep
<1> USE DEF QuietStep, authVars
<1>1. ASSUME NEW u \in scene.about, NEW t \in Tenants, NEW rs \in SUBSET Roles,
             BeginInvite(c, u, t, rs)
      PROVE  QuietStep
  BY <1>1, QuietLookup, TaskIsFrame, SameRows DEF BeginInvite
<1>2. ASSUME NEW u \in scene.about, NEW t \in Tenants, NEW rs \in SUBSET Roles,
             BeginCreate(c, u, t, rs) \/ BeginAssign(c, u, t, rs)
      PROVE  QuietStep
  BY <1>2, QuietTask, SameRows DEF BeginCreate, BeginAssign
<1>3. CASE Person(c)
  BY <1>3, QuietGoes, QuietThrows, SameRows DEF Person, At
<1>4. CASE Enrol(c)
  BY <1>4, QuietGoes, QuietThrows, SameRows DEF Enrol, At
<1>5. CASE Staff(c)
  <2>1. \/ Throws(c) \/ Ends(c)
        \/ \E at \in {"clear", "token", "flags"} : Goes(c, at)
    BY <1>5 DEF Staff
  <2>2. ReqKept
    BY <2>1, QuietGoes, QuietEnds, QuietThrows
  <2> QED
    BY <1>5, <2>2, SameRows DEF Staff
<1>6. CASE ClearInvites(c)
  BY <1>6, QuietGoes, WithoutRows DEF ClearInvites, At
<1>7. CASE SendInviteToken(c)
  <2>1. ReqKept
    BY <1>7, QuietGoes, QuietEnds, QuietThrows DEF SendInviteToken, At
  <2>2. RowsKept
    BY <1>7, IssuedRows, SameRows DEF SendInviteToken
  <2> QED
    BY <1>7, <2>1, <2>2 DEF SendInviteToken
<1>8. ASSUME NEW u \in scene.about, NEW t \in Tenants,
             BeginResend(c, u, t) \/ BeginRemove(c, u, t)
      PROVE  QuietStep
  <2>1. ReqKept
    <3>1. \/ \E at : Asks(c, Frame("resend", at, u, t, 0, 0))
          \/ Asks(c, Frame("remove", "commit", u, t, 0, 0))
      BY <1>8 DEF BeginResend, BeginRemove, Ask
    <3> QED
      BY <3>1, QuietFrame
  <2> QED
    BY <1>8, <2>1, SameRows DEF BeginResend, BeginRemove
<1>8b. ASSUME NEW u \in scene.about, BeginDeleteUser(c, u) PROVE QuietStep
  BY <1>8b, QuietFrame, SameRows DEF BeginDeleteUser, Ask
<1>9. ASSUME NEW u \in scene.about, NEW t \in Tenants,
             AdminPassword(c, u, t) \/ UpdateTenant(c, t, u) \/ \E r \in Roles : RemoveRole(c, u, t, r)
      PROVE  QuietStep
  BY <1>9, SameReq, SameRows DEF AdminPassword, UpdateTenant, RemoveRole
<1>10. ASSUME NEW u \in scene.about, NEW t \in Tenants, NEW op \in {"deactivate", "reactivate"},
              NEW from, NEW to, BeginStatus(c, op, from, to, u, t)
       PROVE  QuietStep
  BY <1>10, QuietTask, SameRows DEF BeginStatus
<1>11. ASSUME NEW u \in scene.about, NEW t \in Tenants, BeginOnboard(c, u, t)
       PROVE  QuietStep
  BY <1>11, QuietTask, SameRows DEF BeginOnboard
<1>12. CASE SetMember(c)
  BY <1>12, QuietGoes, QuietEnds, SameRows DEF SetMember, At
<1>13. CASE Kick(c)
  BY <1>13, QuietEnds, WithoutRows DEF Kick
<1>14. CASE CommitRemove(c)
  BY <1>14, QuietEnds, WithoutRows, SameRows DEF CommitRemove
<1>15. CASE CommitDeleteUser(c)
  BY <1>15, QuietEnds, WithoutRows DEF CommitDeleteUser
<1>16. CASE DropRoles(c)
  BY <1>16, QuietGoes, SameRows DEF DropRoles, At
<1>17. CASE AddRoles(c) \/ CommitDeleteRole(c) \/ CommitGrant(c) \/ NameOwner(c)
  BY <1>17, QuietEnds, SameRows DEF AddRoles, CommitDeleteRole, CommitGrant, NameOwner
<1>18. CASE SetFlag(c)
  BY <1>18, SameReq, SameRows DEF SetFlag
<1>19. ASSUME NEW r, NEW t, NEW p,
              CreateRole(c, r, t) \/ RemovePermission(c, t, r, p) \/ DeleteTenant(c, t)
       PROVE  QuietStep
  BY <1>19, SameReq, SameRows, WithoutRows DEF CreateRole, RemovePermission, DeleteTenant
<1>20. ASSUME NEW r, NEW t, BeginDeleteRole(c, r, t) PROVE QuietStep
  <2>1. ReqKept
    BY <1>20, QuietTask DEF BeginDeleteRole
  <2> QED
    BY <1>20, <2>1, SameRows DEF BeginDeleteRole
<1>21. ASSUME NEW a, NEW t, NEW r, NEW ps, BeginGrant(c, a, t, r, ps) PROVE QuietStep
  <2> DEFINE reach == IF a \in Supers THEN Permissions ELSE Catalog(t)
             arg == ps \ grants[r]
             off == Withdrawn(r, ps, reach)
             task == Task("grant", "commit", a, t, r, arg)
  <2>1. a \notin Supers => PlatformOnly \cap arg = {} /\ PlatformOnly \cap off = {}
    BY <1>21 DEF BeginGrant, Catalog, Withdrawn
  <2>2. Asks(c, [task EXCEPT !.off = off])
    BY <1>21, Zenon DEF BeginGrant
  <2> HIDE DEF arg, off
  <2>3. IsFrame(task) /\ task.op = "grant" /\ task.u = a
    BY <2>1, TaskIsFrame
  <2> HIDE DEF task
  <2>4. Quiet([task EXCEPT !.off = off])
    BY <2>1, <2>3, SetOff DEF Quiet, Rotating, Refused
  <2> QED
    BY <1>21, <2>2, <2>4, QuietAsks, SameRows DEF BeginGrant
<1>22. CASE MakeSettings(c)
  <2>1. IsFrame(req[c]) /\ req[c].op = "onboard"
    BY <1>22 DEF MakeSettings, At, Shapes
  <2> QED
    BY <1>22, <2>1, QuietLookup, QuietThrows, SameRows DEF MakeSettings
<1>23. CASE ApplyFlags(c)
  BY <1>23, QuietGoes, QuietThrows, SameRows DEF ApplyFlags, At
<1>24. CASE Undo(c)
  <2>1. ReqKept
    BY <1>24, QuietGoes, QuietEnds DEF Undo
  <2>2. RowsKept
    BY <1>24, SameRows, RoomRows DEF Undo
  <2> QED
    BY <1>24, <2>1, <2>2 DEF Undo
<1>25. ASSUME NEW t, NEW s, BeginTenantStatus(c, t, s) PROVE QuietStep
  BY <1>25, QuietTask, SameRows DEF BeginTenantStatus
<1>26. CASE SetTenantStatus(c)
  BY <1>26, QuietGoes, QuietEnds, SameRows DEF SetTenantStatus, At
<1>27. CASE Breaks(c)
  BY <1>27, QuietThrows, SameRows DEF Breaks
<1>28. CASE Dies(c)
  BY <1>28, QuietEnds, SameRows DEF Dies
<1> QED
  BY <1>1, <1>2, <1>3, <1>4, <1>5, <1>6, <1>7, <1>8, <1>9, <1>10, <1>11, <1>12, <1>13, <1>14,
     <1>15, <1>16, <1>17, <1>18, <1>19, <1>20, <1>21, <1>22, <1>23, <1>24, <1>25, <1>26, <1>27,
     <1>28, <1>8b DEF OfficeStep
-----------------------------------------------------------------------------
(* Of the steps of signing in, five are not of that kind.                  *)
Rotated(c) == At(c, {"refresh"}, "create") /\ CreateSession(c) /\ ~Stray(c)

LEMMA QuietAt ==
    ASSUME Shapes, NEW c \in Clients, NEW r, IsFrame(r), r.at \notin {"rotate", "create", "reject"},
           Asks(c, r)
    PROVE  ReqKept
BY QuietAsks DEF Quiet, Rotating, Refused

LEMMA CreateIsQuiet ==
    ASSUME Shapes, NEW c \in Clients, CreateSession(c), ~Stray(c), req[c].op # "refresh"
    PROVE  QuietStep
<1> DEFINE x == [kind |-> "login", state |-> "pending", user |-> req[c].u, tenant |-> req[c].t,
                 from |-> 0, pw |-> req[c].pw,
                 late |-> ~Entitled(req[c].u, req[c].t) \/ req[c].pw < revoked[req[c].u]]
           p == [req[c] EXCEPT !.at = "seal"]
           q == [p EXCEPT !.s = NewRow]
<1>1. IsRow(x) /\ x.kind # "none" /\ x.from = 0
  BY DEF IsRow
<1>2. session' = [session EXCEPT ![NewRow] = x] /\ Spare /\ failed' = failed
  BY DEF CreateSession
<1>3. RowsKept
  <2> HIDE DEF x
  <2> QED
    BY <1>1, <1>2, AddedRow
<1>4. IsFrame(p) /\ p.at = "seal"
  BY SetAt DEF Shapes
<1>5. IsFrame(q) /\ q.at = "seal"
  <2> HIDE DEF p
  <2> QED
    BY <1>4, SetSession
<1>6. Asks(c, q)
  BY Zenon DEF CreateSession
<1>7. ReqKept
  <2> HIDE DEF q
  <2> QED
    BY <1>5, <1>6, QuietAt
<1> QED
  BY <1>2, <1>3, <1>7 DEF QuietStep

LEMMA SignInIsQuiet ==
    ASSUME Shapes, NEW c \in Clients, SignInStep(c)
    PROVE  \/ QuietStep
           \/ \E u \in scene.about, right \in BOOLEAN : BeginLogin(c, u, right)
           \/ RecordAttempt(c)
           \/ \E i \in Rows : BeginRefresh(c, i)
           \/ Rotate(c) \/ Rotated(c)
<1> USE DEF QuietStep, authVars
<1>1. CASE VerifyTotpLogin(c)
  BY <1>1, QuietGoes, QuietEnds, SameRows DEF VerifyTotpLogin, At
<1>2. CASE SelectTenant(c)
  <2>1. ReqKept
    <3>1. ASSUME NEW t, Asks(c, [req[c] EXCEPT !.at = "create", !.t = t]) PROVE ReqKept
      <4> DEFINE p == [req[c] EXCEPT !.at = "create"]
                 q == [p EXCEPT !.t = t]
      <4>1. IsFrame(p) /\ p.op = "login" /\ p.at = "create"
        BY <1>2, SetAt DEF Shapes, SelectTenant, At
      <4>2. IsFrame(q) /\ q.op = "login" /\ q.at = "create"
        <5> HIDE DEF p
        <5> QED
          BY <4>1, SetTenant
      <4>3. Asks(c, q)
        BY <3>1, Zenon
      <4>4. Quiet(q)
        <5> HIDE DEF q
        <5> QED
          BY <4>2 DEF Quiet, Rotating, Refused
      <4> HIDE DEF q
      <4> QED
        BY <4>3, <4>4, QuietAsks
    <3>2. ASSUME Goes(c, "create") PROVE ReqKept
      <4>1. IsFrame(req[c]) /\ req[c].op = "login"
        BY <1>2 DEF Shapes, SelectTenant, At
      <4>2. Quiet([req[c] EXCEPT !.at = "create"])
        BY <4>1, SetAt DEF Quiet, Rotating, Refused
      <4> QED
        BY <3>2, <4>2, QuietAsks DEF Goes
    <3> QED
      BY <1>2, <3>1, <3>2, QuietEnds DEF SelectTenant
  <2> QED
    BY <1>2, <2>1, SameRows DEF SelectTenant
<1>3. ASSUME NEW i \in Rows, NEW t \in Tenants, SwitchTenant(c, i, t) PROVE QuietStep
  BY <1>3, QuietFrame, SameRows DEF SwitchTenant
<1>4. CASE CreateSession(c)
  <2>1. CASE Stray(c)
    BY <1>4, <2>1, QuietEnds, SameRows DEF CreateSession
  <2> QED
    BY <1>4, <2>1, CreateIsQuiet DEF Rotated, CreateSession, At
<1>5. CASE SealSession(c)
  <2>1. RowsKept
    <3>1. CASE session[req[c].s].state = "pending" /\ req[c].s \in Rows
      BY <1>5, <3>1, StateRows DEF SealSession
    <3>2. CASE session' = session
      BY <3>2, SameRows
    <3>3. CASE req[c].s \notin Rows
      <4>1. session' = session
        BY <1>5, <3>3 DEF SealSession, Shapes
      <4> QED
        BY <4>1, SameRows
    <3> QED
      BY <1>5, <3>1, <3>2, <3>3 DEF SealSession
  <2> QED
    BY <1>5, <2>1, QuietEnds DEF SealSession
<1>6. ASSUME NEW i \in Rows, Logout(c, i) PROVE QuietStep
  BY <1>6, SameReq, WithoutRows DEF Logout
<1>7. ASSUME NEW i \in Rows, UseToken(c, i) PROVE QuietStep
  <2>1. Asks(c, Frame(session[i].kind, "account", session[i].user, session[i].tenant, i, 0))
    BY <1>7 DEF UseToken
  <2>2. ReqKept
    BY <2>1, FrameIsFrame, QuietAt
  <2> QED
    BY <1>7, <2>2, SameRows DEF UseToken
<1>8. CASE SetAccount(c)
  <2>0. PICK at \in {"sweep", "join"} : \E pw : Asks(c, [req[c] EXCEPT !.at = at, !.pw = pw])
    BY <1>8 DEF SetAccount
  <2>1. PICK pw : Asks(c, [req[c] EXCEPT !.at = at, !.pw = pw])
    BY <2>0
  <2> DEFINE p == [req[c] EXCEPT !.at = at]
             q == [p EXCEPT !.pw = pw]
  <2>2. IsFrame(p) /\ p.at = at
    BY SetAt DEF Shapes
  <2>3. IsFrame(q) /\ q.at = at
    <3> HIDE DEF p
    <3> QED
      BY <2>2, SetPassword
  <2>4. Asks(c, q)
    BY <2>1, Zenon
  <2>5. ReqKept
    <3> HIDE DEF q
    <3> QED
      BY <2>3, <2>4, QuietAt
  <2> QED
    BY <1>8, <2>5, SameRows DEF SetAccount
<1>9. CASE Join(c)
  BY <1>9, QuietGoes, SameRows DEF Join
<1>10. CASE Sweep(c)
  BY <1>10, QuietEnds, WithoutRows DEF Sweep
<1>11. CASE CommitChange(c)
  BY <1>11, QuietEnds, WithoutRows DEF CommitChange
<1>12. ASSUME NEW u, ForgotPassword(c, u) PROVE QuietStep
  BY <1>12, SameReq, IssuedRows DEF ForgotPassword
<1>13. ASSUME NEW u, SendVerification(c, u) PROVE QuietStep
  <2>1. RowsKept
    BY <1>13, IssuedRows DEF SendVerification
  <2> QED
    BY <1>13, <2>1, SameReq DEF SendVerification
<1>14. ASSUME NEW u, Totp(c, u) PROVE QuietStep
  BY <1>14, SameReq, SameRows DEF Totp
<1>15. ASSUME NEW u, BeginChange(c, u) PROVE QuietStep
  BY <1>15, QuietFrame, SameRows DEF BeginChange
<1> QED
  BY <1>1, <1>2, <1>3, <1>4, <1>5, <1>6, <1>7, <1>8, <1>9, <1>10, <1>11, <1>12, <1>13, <1>14,
     <1>15 DEF SignInStep

LEMMA TimeIsQuiet ==
    ASSUME Shapes, TimeStep PROVE QuietStep \/ \E u \in Users : WindowPasses(u)
<1>1. ASSUME NEW i \in Rows, Expire(i) PROVE QuietStep
  <2>1. RowsKept
    BY <1>1, StateRows DEF Expire
  <2> QED
    BY <1>1, <2>1, SameReq DEF Expire, QuietStep
<1> QED
  BY <1>1 DEF TimeStep
-----------------------------------------------------------------------------
(* The inductive invariants.  A session that another one came from has     *)
(* been deleted, and a row is never used again; a request that has deleted *)
(* a session and not made the next one is the only one that came from it.  *)
Spent(k) == k \in Rows /\ session[k].kind # "none" /\ session[k].state = "gone"

RotateOK(c) == req[c].s \in Rows /\ session[req[c].s].kind # "none"
CreateOK(c) == /\ Spent(req[c].s)
               /\ \A i \in Rows : session[i].from # req[c].s
               /\ \A d \in Clients : At(d, {"refresh"}, "create") /\ req[d].s = req[c].s => d = c

RotationInv == /\ \A i \in Rows : session[i].from # 0 => Spent(session[i].from)
               /\ RotatedOnce
               /\ \A c \in Clients : /\ At(c, {"refresh"}, "rotate") => RotateOK(c)
                                     /\ At(c, {"refresh"}, "create") => CreateOK(c)

(* The failed attempts on an account, with those that are about to be      *)
(* recorded, are fewer than the limit and the clients together.            *)
Refusals(u) == {c \in Clients : Refused(req[c]) /\ req[c].u = u}

LockoutInv == \A u \in Users :
    failed[u] + Cardinality(Refusals(u)) < MaxAttempts + Cardinality(Clients)

AuthInv == Shapes /\ RotationInv /\ LockoutInv

LEMMA ShapesStep ==
    ASSUME Shapes, ReqKept, RowsKept, failed' = failed PROVE Shapes'
BY DEF Shapes, ReqKept, RowsKept, Quiet, Rows

LEMMA SpentStays == ASSUME RowsKept, NEW k, Spent(k) PROVE Spent(k)'
BY DEF RowsKept, RowKept, RowNew, Spent, Rows

LEMMA QuietRotation ==
    ASSUME RotationInv, ReqKept, RowsKept PROVE RotationInv'
<1> USE DEF Rows
<1>1. ASSUME NEW i \in Rows, session'[i].from # 0
      PROVE  session'[i].from = session[i].from /\ Spent(session[i].from)
  BY <1>1 DEF RowsKept, RowKept, RowNew, RotationInv
<1>2. (\A i \in Rows : session[i].from # 0 => Spent(session[i].from))'
  BY <1>1, SpentStays
<1>3. RotatedOnce'
  BY <1>1 DEF RotatedOnce, RotationInv
<1>4. ASSUME NEW c \in Clients, Rotating(req'[c]) PROVE req'[c] = req[c]
  BY <1>4 DEF ReqKept, Quiet
<1>5. ASSUME NEW c \in Clients, At(c, {"refresh"}, "rotate")' PROVE RotateOK(c)'
  <2>1. req'[c] = req[c]
    BY <1>4, <1>5 DEF At, Rotating
  <2>2. RotateOK(c)
    BY <1>5, <2>1 DEF At, RotationInv
  <2> QED
    BY <2>1, <2>2 DEF RotateOK, RowsKept, RowKept, RowNew
<1>6. ASSUME NEW c \in Clients, At(c, {"refresh"}, "create")' PROVE CreateOK(c)'
  <2>1. req'[c] = req[c]
    BY <1>4, <1>6 DEF At, Rotating
  <2>2. CreateOK(c)
    BY <1>6, <2>1 DEF At, RotationInv
  <2>3. Spent(req[c].s)'
    BY <2>1, <2>2, SpentStays DEF CreateOK, Spent
  <2>4. \A i \in Rows : session'[i].from # req'[c].s
    <3>1. req[c].s # 0
      BY <2>2 DEF CreateOK, Spent
    <3> QED
      BY <2>1, <2>2, <3>1 DEF CreateOK, RowsKept, RowKept, RowNew
  <2>5. ASSUME NEW d \in Clients, At(d, {"refresh"}, "create")', req'[d].s = req'[c].s
        PROVE  d = c
    <3>1. req'[d] = req[d]
      BY <1>4, <2>5 DEF At, Rotating
    <3> QED
      BY <2>1, <2>2, <2>5, <3>1 DEF At, CreateOK
  <2> QED
    BY <2>3, <2>4, <2>5 DEF CreateOK
<1> QED
  BY <1>2, <1>3, <1>5, <1>6 DEF RotationInv

LEMMA BeginRefreshRotation ==
    ASSUME Shapes, RotationInv, NEW c \in Clients, NEW i \in Rows, BeginRefresh(c, i)
    PROVE  Shapes' /\ RotationInv'
<1>1. RowsKept /\ failed' = failed
  BY SameRows, WithoutRows DEF BeginRefresh
<1>2. CASE req' = req
  BY <1>1, <1>2, SameReq, ShapesStep, QuietRotation
<1>3. CASE \E u, t, pw : Asks(c, Frame("refresh", "rotate", u, t, i, pw))
  <2>1. PICK u, t, pw : Asks(c, Frame("refresh", "rotate", u, t, i, pw))
    BY <1>3
  <2> DEFINE r == Frame("refresh", "rotate", u, t, i, pw)
  <2>2. IsFrame(r) /\ r.op = "refresh" /\ r.at = "rotate" /\ r.s = i
    BY FrameIsFrame
  <2> HIDE DEF r
  <2>3. req' = [d \in Clients |-> IF d = c THEN r ELSE req[d]]
    BY <2>1 DEF Asks, Shapes, r
  <2>4. Shapes'
    BY <1>1, <2>2, <2>3 DEF Shapes, RowsKept, Rows
  <2>5. session[i].kind # "none"
    BY DEF BeginRefresh
  <2> DEFINE Others == \A d \in Clients : d = c \/ req'[d] = req[d]
  <2>6. ASSUME NEW d \in Clients, At(d, {"refresh"}, "rotate")' PROVE RotateOK(d)'
    <3>1. CASE d = c
      BY <1>1, <2>2, <2>3, <2>5, <3>1 DEF RotateOK, RowsKept, RowKept, RowNew, Rows
    <3>2. CASE d # c
      <4>1. req'[d] = req[d] /\ RotateOK(d)
        BY <2>3, <2>6, <3>2 DEF At, RotationInv
      <4> QED
        BY <1>1, <4>1 DEF RotateOK, RowsKept, RowKept, RowNew, Rows
    <3> QED
      BY <3>1, <3>2
  <2>7. session' = session
    BY <2>3, <2>2, FrameIsFrame DEF BeginRefresh, Shapes, May, Idle
  <2>8. ASSUME NEW d \in Clients, At(d, {"refresh"}, "create")' PROVE CreateOK(d)'
    <3>1. d # c /\ req'[d] = req[d] /\ CreateOK(d)
      BY <2>2, <2>3, <2>8 DEF At, RotationInv
    <3>2. ASSUME NEW e \in Clients, At(e, {"refresh"}, "create")', req'[e].s = req'[d].s
          PROVE  e = d
      <4>1. req'[e] = req[e]
        BY <2>2, <2>3, <3>2 DEF At
      <4> QED
        BY <3>1, <3>2, <4>1 DEF At, CreateOK
    <3> QED
      BY <2>7, <3>1, <3>2 DEF CreateOK, Spent, Rows
  <2> QED
    BY <2>4, <2>6, <2>7, <2>8 DEF RotationInv, RotatedOnce, Spent, Rows
<1> QED
  BY <1>2, <1>3 DEF BeginRefresh

(* Deleting the session is what only one of its refreshes achieves. *)
LEMMA RotateRotation ==
    ASSUME Shapes, RotationInv, NEW c \in Clients, Rotate(c)
    PROVE  Shapes' /\ RotationInv'
<1>1. RowsKept /\ failed' = failed
  BY SameRows, WithoutRows DEF Rotate
<1>2. CASE Ends(c)
  BY <1>1, <1>2, QuietEnds, ShapesStep, QuietRotation
<1>3. CASE /\ session[req[c].s].state # "gone" /\ Goes(c, "create")
           /\ session' = Without({req[c].s})
  <2> DEFINE k == req[c].s
             r == [req[c] EXCEPT !.at = "create"]
  <2>1. IsFrame(r) /\ r.at = "create" /\ r.s = k
    BY SetAt DEF Shapes
  <2>2. req' = [d \in Clients |-> IF d = c THEN r ELSE req[d]]
    BY <1>3 DEF Goes, Asks, Shapes
  <2> HIDE DEF r
  <2>3. Shapes'
    BY <1>1, <2>1, <2>2 DEF Shapes, RowsKept, Rows
  <2>4. k \in Rows /\ session[k].kind # "none"
    BY DEF Rotate, RotationInv, RotateOK
  <2>5. /\ \A i \in Rows : session'[i].from = session[i].from /\ session'[i].kind = session[i].kind
        /\ session'[k].state = "gone"
    <3>1. ASSUME NEW i \in Rows
          PROVE  session'[i].from = session[i].from /\ session'[i].kind = session[i].kind
      <4>1. session'[i] = IF i \in {k} THEN [session[i] EXCEPT !.state = "gone"] ELSE session[i]
        BY <1>3 DEF Without
      <4>2. IsRow(session[i])
        BY DEF Shapes
      <4> HIDE DEF k
      <4> QED
        BY <4>1, <4>2, SetState
    <3>2. session'[k].state = "gone"
      <4>1. session'[k] = [session[k] EXCEPT !.state = "gone"]
        BY <1>3, <2>4 DEF Without
      <4>2. IsRow(session[k])
        BY <2>4 DEF Shapes
      <4> HIDE DEF k
      <4> QED
        BY <4>1, <4>2, SetState
    <3> QED
      BY <3>1, <3>2
  <2>6. \A i \in Rows : session[i].from # k
    <3>1. \A i \in Rows : session[i].from = k => session[k].state = "gone"
      BY <2>4 DEF RotationInv, Spent, Rows
    <3> QED
      BY <1>3, <3>1
  <2>7. \A d \in Clients : At(d, {"refresh"}, "create") => req[d].s # k
    BY <1>3 DEF RotationInv, CreateOK, Spent
  <2>8. ASSUME NEW d \in Clients, At(d, {"refresh"}, "rotate")' PROVE RotateOK(d)'
    <3>1. d # c /\ req'[d] = req[d] /\ RotateOK(d)
      BY <2>1, <2>2, <2>8 DEF At, RotationInv
    <3> QED
      BY <2>5, <3>1 DEF RotateOK, Rows
  <2>9. ASSUME NEW d \in Clients, At(d, {"refresh"}, "create")' PROVE CreateOK(d)'
    <3>1. CASE d = c
      <4>1. req'[d].s = k
        BY <2>1, <2>2, <3>1
      <4>2. \A e \in Clients : At(e, {"refresh"}, "create")' /\ req'[e].s = k => e = c
        BY <2>2, <2>7 DEF At
      <4>3. session'[k].kind # "none" /\ session'[k].state = "gone"
        BY <2>4, <2>5
      <4> HIDE DEF k
      <4> QED
        BY <2>4, <2>5, <2>6, <3>1, <4>1, <4>2, <4>3 DEF CreateOK, Spent, Rows
    <3>2. CASE d # c
      <4>1. req'[d] = req[d] /\ CreateOK(d) /\ req[d].s # k
        BY <2>2, <2>7, <2>9, <3>2 DEF At, RotationInv
      <4>2. Spent(req[d].s)'
        BY <1>1, <4>1, SpentStays DEF CreateOK, Spent
      <4>3. \A e \in Clients : At(e, {"refresh"}, "create")' /\ req'[e].s = req'[d].s => e = d
        BY <2>1, <2>2, <4>1 DEF At, CreateOK
      <4> QED
        BY <2>5, <4>1, <4>2, <4>3 DEF CreateOK, Rows
    <3> QED
      BY <3>1, <3>2
  <2>10. ASSUME NEW i \in Rows, session'[i].from # 0 PROVE Spent(session[i].from)'
    BY <1>1, <2>5, <2>10, SpentStays DEF RotationInv, Spent
  <2> QED
    BY <2>3, <2>5, <2>8, <2>9, <2>10 DEF RotationInv, RotatedOnce, Rows, Spent
<1> QED
  BY <1>2, <1>3 DEF Rotate

(* The next session is made: its row was not used, and it is the only one  *)
(* that comes from the deleted one.                                        *)
LEMMA RotatedRotation ==
    ASSUME Shapes, RotationInv, NEW c \in Clients, Rotated(c)
    PROVE  Shapes' /\ RotationInv'
<1> DEFINE k == req[c].s
           n == NewRow
           x == [kind |-> "login", state |-> "pending", user |-> req[c].u, tenant |-> req[c].t,
                 from |-> k, pw |-> req[c].pw,
                 late |-> ~Entitled(req[c].u, req[c].t) \/ req[c].pw < revoked[req[c].u]]
           p == [req[c] EXCEPT !.at = "seal"]
           q == [p EXCEPT !.s = n]
<1>1. CreateOK(c) /\ Spare /\ failed' = failed
  BY DEF Rotated, CreateSession, RotationInv
<1>2. IsRow(x) /\ x.kind = "login" /\ x.from = k
  BY DEF IsRow
<1>3. session' = [session EXCEPT ![n] = x]
  BY DEF Rotated, CreateSession, At
<1> HIDE DEF x
<1>4. /\ session' = [i \in Rows |-> IF i = n THEN x ELSE session[i]]
      /\ n \in Rows /\ session[n].kind = "none"
  BY <1>1, <1>2, <1>3, AddedRow
<1>5. IsFrame(p) /\ p.at = "seal"
  BY SetAt DEF Shapes
<1>6. IsFrame(q) /\ q.at = "seal"
  <2> HIDE DEF p, n
  <2> QED
    BY <1>5, SetSession
<1>7. Asks(c, q)
  BY Zenon DEF Rotated, CreateSession
<1> HIDE DEF q, n
<1>8. req' = [d \in Clients |-> IF d = c THEN q ELSE req[d]]
  BY <1>7 DEF Asks, Shapes
<1>9. Shapes'
  <2>1. \A i \in Rows : IsRow(session'[i])
    BY <1>2, <1>4 DEF Shapes
  <2>2. \A d \in Clients : IsFrame(req'[d])
    BY <1>6, <1>8 DEF Shapes
  <2>3. session' = [i \in Rows |-> session'[i]] /\ req' = [d \in Clients |-> req'[d]]
    BY <1>4, <1>8
  <2> QED
    BY <1>1, <2>1, <2>2, <2>3 DEF Shapes, Rows
<1>10. k \in Rows /\ k # n /\ \A i \in Rows : session[i].from # k
  BY <1>1, <1>4 DEF CreateOK, Spent
<1> DEFINE gone(m) == m \in Rows /\ session'[m].kind # "none" /\ session'[m].state = "gone"
<1>11. \A m : Spent(m) => gone(m)
  BY <1>4 DEF Spent
<1>12. ASSUME NEW i \in Rows, session'[i].from # 0 PROVE gone(session'[i].from)
  <2>1. CASE i = n
    <3>1. session'[i].from = k
      BY <1>2, <1>4, <2>1
    <3> QED
      BY <1>1, <1>11, <3>1 DEF CreateOK
  <2>2. CASE i # n
    <3>1. session'[i] = session[i]
      BY <1>4, <2>2
    <3>2. Spent(session[i].from)
      BY <1>12, <3>1 DEF RotationInv
    <3> QED
      BY <1>11, <3>1, <3>2
  <2> QED
    BY <2>1, <2>2
<1>13. RotatedOnce'
  <2> SUFFICES ASSUME NEW i \in Rows, NEW j \in Rows, session'[i].from # 0,
                      session'[i].from = session'[j].from
               PROVE  i = j
    BY DEF RotatedOnce, Rows
  <2>1. CASE i = n \/ j = n
    BY <1>2, <1>4, <1>10, <2>1
  <2>2. CASE i # n /\ j # n
    BY <1>4, <2>2 DEF RotationInv, RotatedOnce
  <2> QED
    BY <2>1, <2>2
<1>14. ASSUME NEW d \in Clients, At(d, {"refresh"}, "rotate")' PROVE RotateOK(d)'
  <2>1. req'[d] = req[d] /\ RotateOK(d)
    BY <1>6, <1>8, <1>14 DEF At, RotationInv
  <2> QED
    BY <1>2, <1>4, <2>1 DEF RotateOK, Rows
<1>15. ASSUME NEW d \in Clients, At(d, {"refresh"}, "create")' PROVE CreateOK(d)'
  <2>1. d # c /\ req'[d] = req[d] /\ CreateOK(d)
    BY <1>6, <1>8, <1>15 DEF At, RotationInv
  <2>2. req[d].s # k
    BY <1>1, <1>15, <2>1 DEF At, CreateOK
  <2>3. gone(req[d].s)
    BY <1>11, <2>1 DEF CreateOK
  <2>4. \A i \in Rows : session'[i].from # req[d].s
    BY <1>2, <1>4, <2>1, <2>2 DEF CreateOK
  <2>5. \A e \in Clients : At(e, {"refresh"}, "create")' /\ req'[e].s = req'[d].s => e = d
    BY <1>6, <1>8, <2>1 DEF At, CreateOK
  <2> QED
    BY <2>1, <2>3, <2>4, <2>5 DEF CreateOK, Spent, Rows
<1> QED
  BY <1>9, <1>12, <1>13, <1>14, <1>15 DEF RotationInv, Spent, Rows

-----------------------------------------------------------------------------
(* The steps that count failed sign-ins. *)
LEMMA RefusalsFinite ==
    ASSUME NEW u
    PROVE  /\ IsFiniteSet(Refusals(u)) /\ Cardinality(Refusals(u)) \in Nat
           /\ Cardinality(Refusals(u)) <= Cardinality(Clients) /\ Cardinality(Clients) \in Nat
<1>1. Refusals(u) \in SUBSET Clients
  BY DEF Refusals
<1>2. IsFiniteSet(Clients)
  BY AccountsAssumption
<1>3. IsFiniteSet(Refusals(u)) /\ Cardinality(Refusals(u)) <= Cardinality(Clients)
  BY <1>1, <1>2, FS_Subset
<1> QED
  BY <1>2, <1>3, FS_CardinalityType

LEMMA LockoutStays ==
    ASSUME Shapes, LockoutInv, Shapes', \A u \in Users : failed'[u] <= failed[u],
           \A d \in Clients : Refused(req'[d]) => req'[d] = req[d]
    PROVE  LockoutInv'
<1> SUFFICES ASSUME NEW u \in Users
             PROVE  failed'[u] + Cardinality(Refusals(u)') < MaxAttempts + Cardinality(Clients)
  BY DEF LockoutInv
<1>1. Refusals(u)' \subseteq Refusals(u)
  BY DEF Refusals
<1>2. /\ Cardinality(Refusals(u)') \in Nat /\ Cardinality(Refusals(u)) \in Nat
      /\ Cardinality(Refusals(u)') <= Cardinality(Refusals(u)) /\ Cardinality(Clients) \in Nat
  BY <1>1, RefusalsFinite, FS_Subset, FS_CardinalityType
<1>3. failed[u] \in Nat /\ failed'[u] \in Nat /\ failed'[u] <= failed[u] /\ MaxAttempts \in Nat
  BY AccountsAssumption DEF Shapes
<1>4. failed[u] + Cardinality(Refusals(u)) < MaxAttempts + Cardinality(Clients)
  BY DEF LockoutInv
<1> QED
  BY <1>2, <1>3, <1>4

(* A sign-in that is going to be refused passed the check.                 *)
LEMMA BeginLoginLockout ==
    ASSUME Shapes, LockoutInv, NEW c \in Clients, NEW u, NEW right, BeginLogin(c, u, right)
    PROVE  Shapes' /\ LockoutInv' /\ RowsKept
           /\ \A d \in Clients : req'[d] = req[d] \/ ~Rotating(req'[d])
<1> DEFINE r == Frame("login", Outcome(u, right), u, Nobody, 0, user[u].password)
<1>1. /\ session' = session /\ failed' = failed /\ failed[u] < MaxAttempts /\ Asks(c, r)
  BY DEF BeginLogin
<1>2. IsFrame(r) /\ r.op = "login" /\ r.u = u
  BY FrameIsFrame
<1> HIDE DEF r
<1>3. req' = [d \in Clients |-> IF d = c THEN r ELSE req[d]]
  BY <1>1 DEF Asks, Shapes
<1>4. RowsKept
  BY <1>1, SameRows
<1>5. Shapes'
  BY <1>1, <1>2, <1>3 DEF Shapes, Rows
<1>6. ASSUME NEW v \in Users
      PROVE  failed'[v] + Cardinality(Refusals(v)') < MaxAttempts + Cardinality(Clients)
  <2>1. failed[v] \in Nat /\ failed'[v] = failed[v] /\ MaxAttempts \in Nat
    BY <1>1, AccountsAssumption DEF Shapes
  <2>2. Refusals(v)' \in SUBSET Clients /\ IsFiniteSet(Clients)
    BY AccountsAssumption DEF Refusals
  <2>3. /\ IsFiniteSet(Refusals(v)') /\ Cardinality(Refusals(v)') <= Cardinality(Clients)
        /\ Cardinality(Refusals(v)') \in Nat /\ Cardinality(Clients) \in Nat
    BY <2>2, FS_Subset, FS_CardinalityType
  <2>4. CASE v = u
    BY <1>1, <2>1, <2>3, <2>4
  <2>5. CASE v # u
    <3>1. Refusals(v)' \in SUBSET Refusals(v)
      BY <1>2, <1>3, <2>5 DEF Refusals
    <3>2. Cardinality(Refusals(v)') <= Cardinality(Refusals(v)) /\ Cardinality(Refusals(v)) \in Nat
      BY <3>1, RefusalsFinite, FS_Subset
    <3> QED
      BY <2>1, <2>3, <3>2 DEF LockoutInv
  <2> QED
    BY <2>4, <2>5
<1> QED
  BY <1>2, <1>3, <1>4, <1>5, <1>6 DEF LockoutInv, Rotating

(* Recording the attempt moves it from the one sum to the other. *)
LEMMA RecordLockout ==
    ASSUME Shapes, LockoutInv, NEW c \in Clients, RecordAttempt(c)
    PROVE  Shapes' /\ LockoutInv' /\ RowsKept /\ ReqKept
<1>1. session' = session /\ RowsKept
  BY SameRows DEF RecordAttempt
<1>2. ReqKept
  <2>1. Ends(c) \/ Goes(c, "pick") \/ Goes(c, "totp")
    BY DEF RecordAttempt
  <2> QED
    BY <2>1, QuietGoes, QuietEnds
<1>3. req' = [d \in Clients |-> req'[d]] /\ \A d \in Clients : IsFrame(req'[d])
  BY <1>2 DEF ReqKept, Quiet, Shapes
<1>4. failed' \in [Users -> Nat]
  <2> DEFINE n == IF req[c].at = "reject" THEN failed[req[c].u] + 1 ELSE failed[req[c].u]
  <2>1. failed' = [failed EXCEPT ![req[c].u] = n]
    BY DEF RecordAttempt
  <2>2. req[c].u \in Users => n \in Nat
    BY DEF Shapes
  <2> HIDE DEF n
  <2> QED
    BY <2>1, <2>2 DEF Shapes
<1>5. Shapes'
  BY <1>1, <1>3, <1>4 DEF Shapes, Rows
<1>6. \A d \in Clients : Refused(req'[d]) => req'[d] = req[d]
  BY <1>2 DEF ReqKept, Quiet
<1>7. CASE ~Refused(req[c])
  <2>1. \A u \in Users : failed'[u] <= failed[u]
    BY <1>7 DEF RecordAttempt, Refused, Shapes
  <2> QED
    BY <1>1, <1>2, <1>5, <1>6, <2>1, LockoutStays
<1>8. CASE Refused(req[c])
  <2> DEFINE v == req[c].u
  <2>1. failed' = [failed EXCEPT ![v] = @ + 1] /\ Ends(c)
    BY <1>8 DEF RecordAttempt, Refused
  <2>2. ~Refused(req'[c])
    <3>1. req'[c] = Idle
      BY <2>1 DEF Ends, Asks, Shapes
    <3> QED
      BY <3>1, FrameIsFrame DEF Idle, Refused
  <2>3. ASSUME NEW u \in Users
        PROVE  failed'[u] + Cardinality(Refusals(u)') < MaxAttempts + Cardinality(Clients)
    <3>1. /\ failed[u] \in Nat /\ failed'[u] = IF u = v THEN failed[u] + 1 ELSE failed[u]
          /\ MaxAttempts \in Nat /\ failed[u] + Cardinality(Refusals(u))
                                         < MaxAttempts + Cardinality(Clients)
      BY <2>1, AccountsAssumption DEF Shapes, LockoutInv
    <3>2. Refusals(u)' \in SUBSET (Refusals(u) \ {c})
      BY <1>6, <2>2 DEF Refusals
    <3>3. /\ IsFiniteSet(Refusals(u) \ {c})
          /\ Cardinality(Refusals(u) \ {c}) = IF c \in Refusals(u) THEN Cardinality(Refusals(u)) - 1
                                              ELSE Cardinality(Refusals(u))
      BY RefusalsFinite, FS_RemoveElement
    <3>4. /\ Cardinality(Refusals(u)') <= Cardinality(Refusals(u) \ {c})
          /\ Cardinality(Refusals(u)') \in Nat
      BY <3>2, <3>3, FS_Subset, FS_CardinalityType
    <3>5. u = v => c \in Refusals(u)
      BY <1>8 DEF Refusals
    <3>6. Cardinality(Refusals(u)) \in Nat /\ Cardinality(Clients) \in Nat
      BY RefusalsFinite
    <3> QED
      BY <3>1, <3>3, <3>4, <3>5, <3>6
  <2> QED
    BY <1>1, <1>2, <1>5, <2>3 DEF LockoutInv
<1> QED
  BY <1>7, <1>8

-----------------------------------------------------------------------------
(* Every step keeps both invariants. *)
LEMMA QuietAuth == ASSUME AuthInv, QuietStep PROVE AuthInv'
<1>1. Shapes'
  BY ShapesStep DEF AuthInv, QuietStep
<1>2. RotationInv'
  BY QuietRotation DEF AuthInv, QuietStep
<1>3. \A d \in Clients : Refused(req'[d]) => req'[d] = req[d]
  BY DEF QuietStep, ReqKept, Quiet
<1>4. \A u \in Users : failed'[u] <= failed[u]
  BY DEF QuietStep, AuthInv, Shapes
<1> QED
  BY <1>1, <1>2, <1>3, <1>4, LockoutStays DEF AuthInv

(* A refresh refuses nobody. *)
LEMMA RefreshLockout ==
    ASSUME AuthInv, Shapes', NEW c \in Clients,
           Rotate(c) \/ Rotated(c) \/ \E i \in Rows : BeginRefresh(c, i)
    PROVE  LockoutInv'
<1>1. failed' = failed
  BY DEF Rotate, Rotated, CreateSession, BeginRefresh
<1>2. \A d \in Clients : d # c => req'[d] = req[d]
  BY DEF Rotate, Rotated, CreateSession, BeginRefresh, Goes, Ends, Asks, AuthInv, Shapes
<1>3. req'[c] = req[c] \/ ~Refused(req'[c])
  <2>1. CASE req' = req
    BY <2>1
  <2>2. CASE \E u, t, i, pw : Asks(c, Frame("refresh", "rotate", u, t, i, pw))
    <3>1. \E u, t, i, pw : req'[c] = Frame("refresh", "rotate", u, t, i, pw)
      BY <2>2 DEF Asks, AuthInv, Shapes
    <3> QED
      BY <3>1, FrameIsFrame DEF Refused
  <2>3. CASE Ends(c)
    <3>1. req'[c] = Idle
      BY <2>3 DEF Ends, Asks, AuthInv, Shapes
    <3> QED
      BY <3>1, FrameIsFrame DEF Idle, Refused
  <2>4. CASE Goes(c, "create")
    <3>1. req'[c] = [req[c] EXCEPT !.at = "create"] /\ IsFrame(req[c])
      BY <2>4 DEF Goes, Asks, AuthInv, Shapes
    <3> QED
      BY <3>1, SetAt DEF Refused
  <2>5. CASE Rotated(c)
    <3> DEFINE p == [req[c] EXCEPT !.at = "seal"]
               q == [p EXCEPT !.s = NewRow]
    <3>1. IsFrame(p) /\ p.at = "seal"
      BY SetAt DEF AuthInv, Shapes
    <3>2. q.at = "seal"
      <4> HIDE DEF p
      <4> QED
        BY <3>1, SetSession
    <3>3. Asks(c, q)
      BY <2>5, Zenon DEF Rotated, CreateSession
    <3> HIDE DEF q
    <3>4. req'[c] = q
      BY <3>3 DEF Asks, AuthInv, Shapes
    <3> QED
      BY <3>2, <3>4 DEF Refused
  <2> QED
    BY <2>1, <2>2, <2>3, <2>4, <2>5 DEF Rotate, BeginRefresh
<1>4. \A d \in Clients : Refused(req'[d]) => req'[d] = req[d]
  BY <1>2, <1>3
<1>5. \A u \in Users : failed'[u] <= failed[u]
  BY <1>1 DEF AuthInv, Shapes
<1> QED
  BY <1>4, <1>5, LockoutStays DEF AuthInv

LEMMA SignInAuth ==
    ASSUME AuthInv, NEW c \in Clients, SignInStep(c) PROVE AuthInv'
<1> USE DEF AuthInv
<1>1. ASSUME NEW u, NEW right, BeginLogin(c, u, right) PROVE AuthInv'
  <2>1. Shapes' /\ LockoutInv' /\ RowsKept
    BY <1>1, BeginLoginLockout
  <2>2. RotationInv'
    <3>1. session' = session
      BY <1>1 DEF BeginLogin
    <3>2. \A d \in Clients : Rotating(req'[d]) => req'[d] = req[d]
      BY <1>1, BeginLoginLockout
    <3> QED
      BY <3>1, <3>2 DEF RotationInv, RotatedOnce, RotateOK, CreateOK, Spent, Rotating, At, Rows
  <2> QED
    BY <2>1, <2>2
<1>2. CASE RecordAttempt(c)
  BY <1>2, RecordLockout, QuietRotation
<1>3. ASSUME NEW i \in Rows, BeginRefresh(c, i) PROVE AuthInv'
  BY <1>3, BeginRefreshRotation, RefreshLockout
<1>4. CASE Rotate(c)
  BY <1>4, RotateRotation, RefreshLockout
<1>5. CASE Rotated(c)
  BY <1>5, RotatedRotation, RefreshLockout
<1> QED
  BY <1>1, <1>2, <1>3, <1>4, <1>5, SignInIsQuiet, QuietAuth

LEMMA TimeAuth == ASSUME AuthInv, TimeStep PROVE AuthInv'
<1>1. ASSUME NEW u \in Users, WindowPasses(u) PROVE AuthInv'
  <2>1. /\ session' = session /\ req' = req
        /\ failed' \in [Users -> Nat] /\ \A v \in Users : failed'[v] <= failed[v]
    BY <1>1 DEF WindowPasses, AuthInv, Shapes
  <2>2. Shapes'
    BY <2>1 DEF AuthInv, Shapes, Rows
  <2>3. RowsKept /\ ReqKept
    BY <2>1, SameRows, SameReq DEF AuthInv
  <2> QED
    BY <2>1, <2>2, <2>3, QuietRotation, LockoutStays DEF AuthInv
<1> QED
  BY <1>1, TimeIsQuiet, QuietAuth DEF AuthInv

LEMMA AuthNext == AuthInv /\ [Next]_vars => AuthInv'
<1> SUFFICES ASSUME AuthInv, [Next]_vars PROVE AuthInv'
  OBVIOUS
<1>1. CASE Next
  BY <1>1, SignInAuth, TimeAuth, OfficeIsQuiet, QuietAuth DEF Next, AuthInv
<1>2. CASE UNCHANGED vars
  <2>1. QuietStep
    BY <1>2, SameReq, SameRows DEF vars, QuietStep, AuthInv
  <2> QED
    BY <2>1, QuietAuth
<1> QED
  BY <1>1, <1>2

LEMMA AuthInit == Init => AuthInv
<1> SUFFICES ASSUME Init PROVE AuthInv
  OBVIOUS
<1>1. /\ session = [i \in Rows |-> NoRow] /\ failed = [u \in Users |-> 0]
      /\ req = [c \in Clients |-> Idle]
  BY DEF Init, AccountsInit
<1>2. IsRow(NoRow) /\ NoRow.from = 0
  BY DEF IsRow, NoRow
<1>3. IsFrame(Idle) /\ Idle.op = "none"
  BY FrameIsFrame DEF Idle
<1>4. Shapes
  BY <1>1, <1>2, <1>3 DEF Shapes
<1>5. RotationInv
  BY <1>1, <1>2, <1>3 DEF RotationInv, RotatedOnce, At
<1>6. LockoutInv
  <2> SUFFICES ASSUME NEW u \in Users
               PROVE  failed[u] + Cardinality(Refusals(u)) < MaxAttempts + Cardinality(Clients)
    BY DEF LockoutInv
  <2>1. Refusals(u) = {}
    BY <1>1, <1>3 DEF Refusals, Refused
  <2>2. Cardinality(Refusals(u)) = 0
    BY <2>1, FS_EmptySet
  <2>3. Cardinality(Clients) \in Nat /\ MaxAttempts \in Nat \ {0} /\ failed[u] = 0
    BY <1>1, RefusalsFinite, AccountsAssumption
  <2> QED
    BY <2>2, <2>3
<1> QED
  BY <1>4, <1>5, <1>6 DEF AuthInv

(* auth.service refreshTokens: however refreshes, sign-outs, revocations   *)
(* and crashes of any number of clients interleave, no two sessions come   *)
(* from one refresh token.                                                 *)
THEOREM TokenSpentOnce == Spec => []RotatedOnce
<1>1. AuthInv => RotatedOnce
  BY DEF AuthInv, RotationInv
<1> QED
  BY AuthInit, AuthNext, <1>1, PTL DEF Spec

(* auth.service login: the attempts are counted before the password is     *)
(* checked and recorded after it, and yet no more of them fail within the  *)
(* window than the limit and one less than the requests under way.         *)
THEOREM LockoutBounded == Spec => []LockoutHolds
<1>1. AuthInv => LockoutHolds
  <2> SUFFICES ASSUME AuthInv, NEW u \in Users
               PROVE  failed[u] < MaxAttempts + Cardinality(Clients)
    BY DEF LockoutHolds
  <2>1. failed[u] + Cardinality(Refusals(u)) < MaxAttempts + Cardinality(Clients)
    BY DEF AuthInv, LockoutInv
  <2>2. failed[u] \in Nat /\ MaxAttempts \in Nat
    BY AccountsAssumption DEF AuthInv, Shapes
  <2> QED
    BY <2>1, <2>2, RefusalsFinite
<1> QED
  BY AuthInit, AuthNext, <1>1, PTL DEF Spec
-----------------------------------------------------------------------------
(* The permissions of the roles. *)
GrantsShape == grants = [r \in Roles |-> grants[r]]

GrantStep(c) == \/ CommitGrant(c) \/ CommitDeleteRole(c)
                \/ \E r \in CustomRoles, t \in Tenants : CreateRole(c, r, t)
                \/ \E r \in Roles, t \in Tenants, p \in Permissions : RemovePermission(c, t, r, p)

LEMMA OnlyGrantSteps ==
    ASSUME NEW c \in Clients, OfficeStep(c), ~GrantStep(c) PROVE grants' = grants
<1> USE DEF officeVars
<1>1. ASSUME NEW u \in scene.about, NEW t \in Tenants, NEW rs \in SUBSET Roles,
             BeginInvite(c, u, t, rs) \/ BeginCreate(c, u, t, rs) \/ BeginAssign(c, u, t, rs)
      PROVE  grants' = grants
  BY <1>1 DEF BeginInvite, BeginCreate, BeginAssign
<1>2. CASE Person(c) \/ Enrol(c) \/ Staff(c) \/ ClearInvites(c) \/ SendInviteToken(c)
  BY <1>2 DEF Person, Enrol, Staff, ClearInvites, SendInviteToken
<1>3. ASSUME NEW u \in scene.about, NEW t \in Tenants,
             \/ BeginResend(c, u, t) \/ BeginRemove(c, u, t) \/ AdminPassword(c, u, t)
             \/ BeginStatus(c, "deactivate", {"INVITED", "ACTIVE"}, "INACTIVE", u, t)
             \/ BeginStatus(c, "reactivate", {"INACTIVE"}, "ACTIVE", u, t)
             \/ BeginOnboard(c, u, t) \/ UpdateTenant(c, t, u)
             \/ \E r \in Roles : RemoveRole(c, u, t, r)
      PROVE  grants' = grants
  BY <1>3 DEF BeginResend, BeginRemove, AdminPassword, BeginStatus, BeginOnboard, UpdateTenant,
              RemoveRole
<1>4. CASE SetMember(c) \/ Kick(c) \/ CommitRemove(c) \/ CommitDeleteUser(c)
           \/ \E u \in scene.about : BeginDeleteUser(c, u)
  BY <1>4 DEF SetMember, Kick, CommitRemove, CommitDeleteUser, BeginDeleteUser
<1>5. CASE DropRoles(c) \/ AddRoles(c) \/ SetFlag(c)
           \/ \E r \in CustomRoles, t \in Tenants : BeginDeleteRole(c, r, t)
  BY <1>5 DEF DropRoles, AddRoles, SetFlag, BeginDeleteRole
<1>6. CASE \E a \in Users, t \in Tenants, r \in Roles, ps \in SUBSET Permissions :
               BeginGrant(c, a, t, r, ps)
  BY <1>6 DEF BeginGrant
<1>7. CASE MakeSettings(c) \/ ApplyFlags(c) \/ NameOwner(c) \/ Undo(c)
  BY <1>7 DEF MakeSettings, ApplyFlags, NameOwner, Undo
<1>8. CASE \/ \E t \in Tenants, s \in {"ACTIVE", "SUSPENDED", "CANCELLED"} :
                  BeginTenantStatus(c, t, s)
           \/ SetTenantStatus(c) \/ \E t \in Tenants : DeleteTenant(c, t)
           \/ Breaks(c) \/ Dies(c)
  BY <1>8 DEF BeginTenantStatus, SetTenantStatus, DeleteTenant, Breaks, Dies
<1> QED
  BY <1>1, <1>2, <1>3, <1>4, <1>5, <1>6, <1>7, <1>8 DEF OfficeStep, GrantStep

LEMMA GrantsNext == GrantsShape /\ [Next]_vars => GrantsShape'
<1> SUFFICES ASSUME GrantsShape, [Next]_vars PROVE GrantsShape'
  OBVIOUS
<1>1. CASE grants' = grants
  BY <1>1 DEF GrantsShape, Roles
<1>2. ASSUME NEW c \in Clients, GrantStep(c) PROVE GrantsShape'
  <2>1. \/ grants' = [r \in Roles |-> IF r \in req[c].arg THEN {} ELSE grants[r]]
        \/ \E x, S : grants' = [grants EXCEPT ![x] = S]
    BY <1>2 DEF GrantStep, CommitGrant, CommitDeleteRole, CreateRole, RemovePermission
  <2> QED
    BY <2>1 DEF GrantsShape, Roles
<1> QED
  BY <1>1, <1>2, OnlyGrantSteps DEF Next, vars, officeVars

(* Only the commit of the grant itself ends the request and changes the    *)
(* permissions of a role in one step.                                      *)
LEMMA GrantCommits ==
    ASSUME AuthInv, GrantsShape, [Next]_vars, NEW c \in Clients, At(c, {"grant"}, "commit"),
           req[c].u \notin Supers, req'[c] # req[c], NEW p \in PlatformOnly, NEW r \in Roles
    PROVE  p \in grants[r] <=> p \in grants'[r]
<1>1. CASE grants' = grants
  BY <1>1
<1>2. ASSUME NEW d \in Clients, GrantStep(d) PROVE p \in grants[r] <=> p \in grants'[r]
  <2>1. req' # req
    OBVIOUS
  <2>2. CommitGrant(d) \/ CommitDeleteRole(d)
    BY <1>2, <2>1 DEF GrantStep, CreateRole, RemovePermission
  <2>3. d = c
    BY <2>2 DEF CommitGrant, CommitDeleteRole, Ends, Asks, AuthInv, Shapes
  <2>4. CommitGrant(c)
    BY <2>2, <2>3 DEF CommitDeleteRole, At
  <2>5. p \notin req[c].arg /\ p \notin req[c].off
    BY DEF At, AuthInv, Shapes, IsFrame, Harmless
  <2> DEFINE x == req[c].how
             S == IF Exists(x) THEN (grants[x] \ req[c].off) \cup req[c].arg ELSE grants[x]
  <2>6. grants' = [grants EXCEPT ![x] = S]
    BY <2>4 DEF CommitGrant
  <2>7. p \in S <=> p \in grants[x]
    BY <2>5
  <2> HIDE DEF x, S
  <2> QED
    BY <2>6, <2>7 DEF GrantsShape
<1> QED
  BY <1>1, <1>2, OnlyGrantSteps DEF Next, vars, officeVars

(* roles.service assignPermissions: whatever requests cross, a workspace   *)
(* that sets the permissions of a role, though it computes the difference  *)
(* from an earlier read, leaves the grants of platform modules alone.      *)
THEOREM HiddenGrantsStand == Spec => HiddenGrantsKept
<1>1. Init => GrantsShape
  BY DEF Init, GrantsShape
<1> DEFINE Kept == \A c \in Clients : At(c, {"grant"}, "commit") /\ req[c].u \notin Supers =>
                      \A p \in PlatformOnly : \A r \in Roles :
                          req'[c] # req[c] => (p \in grants[r] <=> p \in grants'[r])
<1>2. AuthInv /\ GrantsShape /\ [Next]_vars => Kept
  BY GrantCommits
<1> QED
  BY AuthInit, AuthNext, GrantsNext, <1>1, <1>2, PTL DEF Spec, HiddenGrantsKept

-----------------------------------------------------------------------------
(* Which actions write which table.                                        *)
UserStep(c) ==
    \/ SetAccount(c) \/ CommitChange(c) \/ Person(c) \/ CommitDeleteUser(c)
    \/ \E u \in scene.about : Totp(c, u) \/ \E t \in Tenants : AdminPassword(c, u, t)
MemberStep(c) == \/ Join(c) \/ Enrol(c) \/ SetMember(c) \/ CommitRemove(c) \/ CommitDeleteUser(c)
                 \/ Undo(c)
TenantStep(c) ==
    \/ CommitDeleteUser(c) \/ MakeSettings(c) \/ NameOwner(c) \/ Undo(c) \/ SetTenantStatus(c)
    \/ \E t \in Tenants : DeleteTenant(c, t)
                          \/ \E u \in scene.about : BeginOnboard(c, u, t) \/ UpdateTenant(c, t, u)
RoleStep(c) ==
    \/ Staff(c) \/ CommitRemove(c) \/ CommitDeleteUser(c) \/ DropRoles(c) \/ AddRoles(c)
    \/ CommitDeleteRole(c) \/ Undo(c)
    \/ \E u \in scene.about, t \in Tenants, r \in Roles : RemoveRole(c, u, t, r)
SessionStep(c) ==
    \/ CreateSession(c) \/ SealSession(c) \/ Rotate(c) \/ Sweep(c) \/ CommitChange(c)
    \/ ClearInvites(c) \/ SendInviteToken(c) \/ Kick(c) \/ CommitRemove(c) \/ CommitDeleteUser(c)
    \/ Undo(c) \/ \E t \in Tenants : DeleteTenant(c, t)
    \/ \E i \in Rows : BeginRefresh(c, i) \/ Logout(c, i)
    \/ \E u \in scene.about : ForgotPassword(c, u) \/ SendVerification(c, u)
RevokeStep(c) == Sweep(c) \/ CommitChange(c)
CutStep(c) == Undo(c) \/ Dies(c)
OverrideStep(c) == SetFlag(c) \/ ApplyFlags(c) \/ Undo(c)
MadeStep(c) == CommitDeleteRole(c) \/ \E r \in CustomRoles, t \in Tenants : CreateRole(c, r, t)

(* A step that is none of those leaves the table as it is. *)
Written(c) ==
    /\ UserStep(c) \/ user' = user
    /\ MemberStep(c) \/ member' = member
    /\ TenantStep(c) \/ tenant' = tenant
    /\ RoleStep(c) \/ roles' = roles
    /\ SessionStep(c) \/ session' = session
    /\ RevokeStep(c) \/ revoked' = revoked
    /\ CutStep(c) \/ cut' = cut
    /\ OverrideStep(c) \/ override' = override
    /\ MadeStep(c) \/ made' = made
    /\ scene' = scene

LEMMA SignInWrites ==
    ASSUME NEW c \in Clients, SignInStep(c), UNCHANGED officeVars PROVE Written(c)
<1> USE DEF Written, officeVars, authVars
<1>1. ASSUME NEW u \in scene.about, NEW right \in BOOLEAN, BeginLogin(c, u, right) PROVE Written(c)
  BY <1>1 DEF BeginLogin
<1>2. CASE RecordAttempt(c) \/ VerifyTotpLogin(c) \/ SelectTenant(c)
  BY <1>2 DEF RecordAttempt, VerifyTotpLogin, SelectTenant
<1>3. ASSUME NEW i \in Rows, NEW t \in Tenants, SwitchTenant(c, i, t) PROVE Written(c)
  BY <1>3 DEF SwitchTenant
<1>4. CASE CreateSession(c) \/ SealSession(c) \/ Rotate(c)
  BY <1>4 DEF CreateSession, SealSession, Rotate, SessionStep
<1>5. ASSUME NEW i \in Rows, BeginRefresh(c, i) \/ Logout(c, i) \/ UseToken(c, i) PROVE Written(c)
  BY <1>5 DEF BeginRefresh, Logout, UseToken, SessionStep
<1>6. CASE SetAccount(c) \/ Join(c)
  BY <1>6 DEF SetAccount, Join, UserStep, MemberStep
<1>7. CASE Sweep(c) \/ CommitChange(c)
  BY <1>7 DEF Sweep, CommitChange, UserStep, SessionStep, RevokeStep
<1>8. ASSUME NEW u \in scene.about,
             ForgotPassword(c, u) \/ SendVerification(c, u) \/ Totp(c, u) \/ BeginChange(c, u)
      PROVE  Written(c)
  BY <1>8 DEF ForgotPassword, SendVerification, Totp, BeginChange, UserStep, SessionStep
<1> HIDE DEF Written
<1> QED
  BY <1>1, <1>2, <1>3, <1>4, <1>5, <1>6, <1>7, <1>8 DEF SignInStep

LEMMA OfficeWrites == ASSUME NEW c \in Clients, OfficeStep(c) PROVE Written(c)
<1> USE DEF Written, officeVars, authVars
<1>1. ASSUME NEW u \in scene.about, NEW t \in Tenants, NEW rs \in SUBSET Roles,
             BeginInvite(c, u, t, rs) \/ BeginCreate(c, u, t, rs) \/ BeginAssign(c, u, t, rs)
      PROVE  Written(c)
  BY <1>1 DEF BeginInvite, BeginCreate, BeginAssign
<1>2. CASE Person(c) \/ Enrol(c) \/ Staff(c)
  BY <1>2 DEF Person, Enrol, Staff, UserStep, MemberStep, RoleStep
<1>3. CASE ClearInvites(c) \/ SendInviteToken(c) \/ Kick(c)
  BY <1>3 DEF ClearInvites, SendInviteToken, Kick, SessionStep
<1>4. ASSUME NEW u \in scene.about, NEW t \in Tenants,
             \/ BeginResend(c, u, t) \/ BeginRemove(c, u, t)
             \/ BeginStatus(c, "deactivate", {"INVITED", "ACTIVE"}, "INACTIVE", u, t)
             \/ BeginStatus(c, "reactivate", {"INACTIVE"}, "ACTIVE", u, t)
      PROVE  Written(c)
  BY <1>4 DEF BeginResend, BeginRemove, BeginStatus
<1>5. ASSUME NEW u \in scene.about, NEW t \in Tenants,
             \/ BeginOnboard(c, u, t) \/ UpdateTenant(c, t, u) \/ AdminPassword(c, u, t)
             \/ \E r \in Roles : RemoveRole(c, u, t, r)
      PROVE  Written(c)
  BY <1>5 DEF BeginOnboard, UpdateTenant, AdminPassword, RemoveRole, UserStep, TenantStep, RoleStep
<1>6. CASE SetMember(c)
  BY <1>6 DEF SetMember, MemberStep
<1>7. CASE CommitRemove(c)
  BY <1>7 DEF CommitRemove, MemberStep, RoleStep, SessionStep
<1>8. CASE CommitDeleteUser(c)
  BY <1>8 DEF CommitDeleteUser, UserStep, MemberStep, TenantStep, RoleStep, SessionStep
<1>9. ASSUME NEW u \in scene.about, BeginDeleteUser(c, u) PROVE Written(c)
  BY <1>9 DEF BeginDeleteUser
<1>10. CASE DropRoles(c) \/ AddRoles(c) \/ CommitGrant(c)
  BY <1>10 DEF DropRoles, AddRoles, CommitGrant, RoleStep
<1>11. CASE CommitDeleteRole(c) \/ SetFlag(c) \/ ApplyFlags(c)
  BY <1>11 DEF CommitDeleteRole, SetFlag, ApplyFlags, RoleStep, MadeStep, OverrideStep
<1>12. ASSUME NEW r \in CustomRoles, NEW t \in Tenants, CreateRole(c, r, t) \/ BeginDeleteRole(c, r, t)
       PROVE  Written(c)
  BY <1>12 DEF CreateRole, BeginDeleteRole, MadeStep
<1>13. ASSUME NEW r \in Roles, NEW t \in Tenants, NEW p \in Permissions, RemovePermission(c, t, r, p)
       PROVE  Written(c)
  BY <1>13 DEF RemovePermission
<1>14. ASSUME NEW a \in Users, NEW t \in Tenants, NEW r \in Roles, NEW ps \in SUBSET Permissions,
              BeginGrant(c, a, t, r, ps)
       PROVE  Written(c)
  BY <1>14 DEF BeginGrant
<1>15. CASE MakeSettings(c) \/ NameOwner(c) \/ SetTenantStatus(c)
  BY <1>15 DEF MakeSettings, NameOwner, SetTenantStatus, TenantStep
<1>16. CASE Undo(c)
  BY <1>16 DEF Undo, MemberStep, TenantStep, RoleStep, SessionStep, CutStep, OverrideStep
<1>17. ASSUME NEW t \in Tenants,
              DeleteTenant(c, t) \/ \E s \in {"ACTIVE", "SUSPENDED", "CANCELLED"} : BeginTenantStatus(c, t, s)
       PROVE  Written(c)
  BY <1>17 DEF DeleteTenant, BeginTenantStatus, TenantStep, SessionStep
<1>18. CASE Breaks(c) \/ Dies(c)
  BY <1>18 DEF Breaks, Dies, CutStep
<1> HIDE DEF Written
<1> QED
  BY <1>1, <1>2, <1>3, <1>4, <1>5, <1>6, <1>7, <1>8, <1>9, <1>10, <1>11, <1>12, <1>13, <1>14,
     <1>15, <1>16, <1>17, <1>18 DEF OfficeStep

-----------------------------------------------------------------------------
(* How a request goes on: what becomes of its fields.                      *)
SameBut(q, r) == /\ q.op = r.op /\ q.how = r.how /\ q.u = r.u /\ q.t = r.t /\ q.s = r.s
                 /\ q.pw = r.pw /\ q.arg = r.arg
Rest(c) == \A d \in Clients \ {c} : req'[d] = req[d]

LEMMA AsksTo ==
    ASSUME Shapes, NEW c \in Clients, NEW r, Asks(c, r) PROVE req'[c] = r /\ Rest(c)
BY DEF Asks, Shapes, Rest

LEMMA IdleIs == /\ Idle.op = "none" /\ Idle.at = "none" /\ Idle.how = "none" /\ Idle.u = Nobody
                /\ Idle.t = Nobody /\ Idle.s = 0 /\ Idle.pw = 0 /\ Idle.arg = {}
BY DEF Idle, Frame

LEMMA EndsTo ==
    ASSUME Shapes, NEW c \in Clients, Ends(c) PROVE req'[c] = Idle /\ Rest(c)
BY AsksTo DEF Ends

LEMMA MovedTo ==
    ASSUME NEW r, IsFrame(r), NEW at
    PROVE  LET q == [r EXCEPT !.at = at] IN IsFrame(q) /\ q.at = at /\ SameBut(q, r)
<1>1. IsFrame([r EXCEPT !.at = at])
  BY SetAt
<1> QED
  BY <1>1 DEF IsFrame, SameBut

LEMMA GoesTo ==
    ASSUME Shapes, NEW c \in Clients, NEW at, Goes(c, at)
    PROVE  req'[c].at = at /\ SameBut(req'[c], req[c]) /\ Rest(c)
<1> DEFINE q == [req[c] EXCEPT !.at = at]
<1>1. q.at = at /\ SameBut(q, req[c])
  BY MovedTo DEF Shapes
<1>2. Asks(c, q)
  BY Zenon DEF Goes
<1> HIDE DEF q
<1> QED
  BY <1>1, <1>2, AsksTo

LEMMA FrameFields ==
    ASSUME NEW op, NEW at, NEW u, NEW t, NEW s, NEW pw
    PROVE  LET r == Frame(op, at, u, t, s, pw) IN
           /\ r.op = op /\ r.at = at /\ r.how = "none" /\ r.u = u /\ r.t = t /\ r.s = s /\ r.pw = pw
           /\ r.arg = {}
BY DEF Frame

LEMMA TaskFields ==
    ASSUME NEW op, NEW at, NEW u, NEW t, NEW how, NEW arg
    PROVE  LET r == Task(op, at, u, t, how, arg) IN
           /\ r.op = op /\ r.at = at /\ r.how = how /\ r.u = u /\ r.t = t /\ r.s = 0 /\ r.pw = 0
           /\ r.arg = arg
<1> DEFINE p == Frame(op, at, u, t, 0, 0)
           q == [p EXCEPT !.how = how]
           r == [q EXCEPT !.arg = arg]
<1>1. /\ IsFrame(p) /\ p.op = op /\ p.at = at /\ p.u = u /\ p.t = t /\ p.s = 0 /\ p.pw = 0
  BY FrameIsFrame, FrameFields
<1> HIDE DEF p
<1>2. /\ q.op = op /\ q.at = at /\ q.how = how /\ q.u = u /\ q.t = t /\ q.s = 0 /\ q.pw = 0
      /\ q = [op |-> q.op, at |-> q.at, how |-> q.how, u |-> q.u, t |-> q.t, s |-> q.s,
              pw |-> q.pw, arg |-> q.arg, off |-> q.off]
  BY <1>1 DEF IsFrame
<1> HIDE DEF q
<1>3. /\ r.op = op /\ r.at = at /\ r.how = how /\ r.u = u /\ r.t = t /\ r.s = 0 /\ r.pw = 0
      /\ r.arg = arg
  BY <1>2
<1>4. Task(op, at, u, t, how, arg) = r
  BY Zenon DEF Task, r, q, p
<1> QED
  BY <1>3, <1>4

LEMMA LookupTo ==
    ASSUME Shapes, NEW c \in Clients, NEW r, IsFrame(r), Lookup(c, r)
    PROVE  /\ Rest(c) /\ req'[c].how = InvitePath(r.u, r.t)
           /\ req'[c].at = IF InvitePath(r.u, r.t) \in {"new", "restored"} THEN "person" ELSE "enrol"
           /\ req'[c].op = r.op /\ req'[c].u = r.u /\ req'[c].t = r.t /\ req'[c].s = r.s
           /\ req'[c].pw = r.pw /\ req'[c].arg = r.arg
<1> DEFINE path == InvitePath(r.u, r.t)
           at == IF path \in {"new", "restored"} THEN "person" ELSE "enrol"
           p == [r EXCEPT !.how = path]
           q == [p EXCEPT !.at = at]
<1>1. /\ IsFrame(p) /\ p.how = path /\ p.op = r.op /\ p.u = r.u /\ p.t = r.t /\ p.s = r.s
      /\ p.pw = r.pw /\ p.arg = r.arg
  <2> HIDE DEF path
  <2> QED
    BY SetHow DEF IsFrame
<1>2. q.at = at /\ SameBut(q, p)
  <2> HIDE DEF p, at
  <2> QED
    BY <1>1, MovedTo
<1>3. Asks(c, q)
  BY Zenon DEF Lookup
<1>4. req'[c] = q /\ Rest(c)
  <2> HIDE DEF q
  <2> QED
    BY <1>3, AsksTo
<1> HIDE DEF p, q, path
<1> QED
  BY <1>1, <1>2, <1>4 DEF SameBut, path

LEMMA SelectTo ==
    ASSUME Shapes, NEW c \in Clients, NEW t, Asks(c, [req[c] EXCEPT !.at = "create", !.t = t])
    PROVE  /\ Rest(c) /\ req'[c].at = "create" /\ req'[c].t = t
           /\ req'[c].op = req[c].op /\ req'[c].how = req[c].how /\ req'[c].u = req[c].u
           /\ req'[c].s = req[c].s /\ req'[c].pw = req[c].pw /\ req'[c].arg = req[c].arg
<1> DEFINE p == [req[c] EXCEPT !.at = "create"]
           q == [p EXCEPT !.t = t]
<1>1. IsFrame(p) /\ p.at = "create" /\ SameBut(p, req[c])
  BY MovedTo DEF Shapes
<1> HIDE DEF p
<1>2. /\ q.at = p.at /\ q.t = t /\ q.op = p.op /\ q.how = p.how /\ q.u = p.u /\ q.s = p.s
      /\ q.pw = p.pw /\ q.arg = p.arg
  BY <1>1 DEF IsFrame
<1>3. Asks(c, q)
  BY Zenon DEF q, p
<1> HIDE DEF q
<1>4. req'[c] = q /\ Rest(c)
  BY <1>3, AsksTo
<1> QED
  BY <1>1, <1>2, <1>4 DEF SameBut

LEMMA CreatedTo ==
    ASSUME Shapes, NEW c \in Clients, CreateSession(c), ~Stray(c)
    PROVE  /\ Rest(c) /\ req'[c].at = "seal" /\ req'[c].s = NewRow
           /\ req'[c].op = req[c].op /\ req'[c].how = req[c].how /\ req'[c].u = req[c].u
           /\ req'[c].t = req[c].t /\ req'[c].pw = req[c].pw /\ req'[c].arg = req[c].arg
<1> DEFINE p == [req[c] EXCEPT !.at = "seal"]
           q == [p EXCEPT !.s = NewRow]
<1>1. IsFrame(p) /\ p.at = "seal" /\ SameBut(p, req[c])
  BY MovedTo DEF Shapes
<1> HIDE DEF p
<1>2. /\ q.at = p.at /\ q.s = NewRow /\ q.op = p.op /\ q.how = p.how /\ q.u = p.u /\ q.t = p.t
      /\ q.pw = p.pw /\ q.arg = p.arg
  BY <1>1 DEF IsFrame
<1>3. Asks(c, q)
  BY Zenon DEF CreateSession, q, p
<1> HIDE DEF q
<1>4. req'[c] = q /\ Rest(c)
  BY <1>3, AsksTo
<1> QED
  BY <1>1, <1>2, <1>4 DEF SameBut

LEMMA AccountTo ==
    ASSUME Shapes, NEW c \in Clients, SetAccount(c)
    PROVE  /\ Rest(c) /\ req'[c].at \in {"sweep", "join"}
           /\ req'[c].at = "join" => req[c].op # "reset"
           /\ req'[c].pw = IF req[c].op = "verify" THEN user[req[c].u].password
                           ELSE user[req[c].u].password + 1
           /\ req'[c].op = req[c].op /\ req'[c].how = req[c].how /\ req'[c].u = req[c].u
           /\ req'[c].t = req[c].t /\ req'[c].s = req[c].s /\ req'[c].arg = req[c].arg
<1> DEFINE at == IF req[c].op = "reset" \/ req[c].t = Nobody THEN "sweep" ELSE "join"
           word == IF req[c].op = "verify" THEN user[req[c].u].password ELSE user[req[c].u].password + 1
           p == [req[c] EXCEPT !.at = at]
           q == [p EXCEPT !.pw = word]
<1>1. IsFrame(p) /\ p.at = at /\ SameBut(p, req[c])
  BY MovedTo DEF Shapes
<1> HIDE DEF p, word
<1>2. /\ q.at = p.at /\ q.pw = word /\ q.op = p.op /\ q.how = p.how /\ q.u = p.u /\ q.t = p.t
      /\ q.s = p.s /\ q.arg = p.arg
  BY <1>1 DEF IsFrame
<1>3. Asks(c, q)
  BY Zenon DEF SetAccount, q, p, word
<1> HIDE DEF q
<1>4. req'[c] = q /\ Rest(c)
  BY <1>3, AsksTo
<1> QED
  BY <1>1, <1>2, <1>4 DEF SameBut, word

LEMMA GrantTo ==
    ASSUME AuthInv, NEW c \in Clients, NEW a \in Users, NEW t \in Tenants, NEW r \in Roles,
           NEW ps \in SUBSET Permissions, BeginGrant(c, a, t, r, ps)
    PROVE  /\ Rest(c) /\ req'[c].op = "grant" /\ req'[c].at = "commit" /\ req'[c].how = r
           /\ req'[c].u = a /\ req'[c].t = t /\ req'[c].s = 0 /\ req'[c].pw = 0
           /\ req'[c].arg \subseteq Permissions
<1> DEFINE reach == IF a \in Supers THEN Permissions ELSE Catalog(t)
           arg == ps \ grants[r]
           off == Withdrawn(r, ps, reach)
           p == Task("grant", "commit", a, t, r, arg)
           q == [p EXCEPT !.off = off]
<1>1. a \notin Supers => PlatformOnly \cap arg = {}
  BY DEF BeginGrant, Catalog
<1> HIDE DEF arg, off, reach
<1>2. /\ IsFrame(p) /\ p.op = "grant" /\ p.at = "commit" /\ p.how = r /\ p.u = a /\ p.t = t
      /\ p.s = 0 /\ p.pw = 0 /\ p.arg = arg
  BY <1>1, TaskIsFrame, TaskFields
<1> HIDE DEF p
<1>3. /\ q.op = "grant" /\ q.at = "commit" /\ q.how = r /\ q.u = a /\ q.t = t
      /\ q.s = 0 /\ q.pw = 0 /\ q.arg = arg
  BY <1>2 DEF IsFrame
<1>4. Asks(c, q)
  BY Zenon DEF BeginGrant, q, p, arg, off, reach
<1> HIDE DEF q
<1>5. req'[c] = q /\ Rest(c)
  BY <1>4, AsksTo DEF AuthInv
<1> QED
  BY <1>3, <1>5 DEF arg

-----------------------------------------------------------------------------
(* What is always true of a request: its fields have their types, and a    *)
(* client only makes requests of its scene.                                *)
Invites == {"person", "enrol", "staff", "clear", "token"}
OfMember == {"create", "onboard", "assign", "resend", "deactivate", "reactivate", "remove"}
Own == OfMember \cup {"switch", "refresh", "delete_user", "status"}

ReqOK(r, does) ==
    /\ r.u \in Users \cup {Nobody} /\ r.t \in Tenants \cup {Nobody}
    /\ r.s \in 0..MaxSessions /\ r.pw \in 0..MaxPassword
    /\ r.op \in OfMember \cup {"login", "switch", "refresh", "reset", "invite", "verify",
                               "change", "delete_user", "grant"} => r.u \in Users
    /\ r.op \in OfMember \/ (r.op = "invite" /\ r.at \in Invites) => r.t \in Tenants
    /\ r.op \in {"invite", "create", "onboard", "assign"} => r.arg \subseteq Roles
    /\ r.op = "grant" => r.arg \subseteq Permissions
    /\ r.op = "deactivate" => r.how = "INACTIVE"
    /\ r.op = "reactivate" => r.how = "ACTIVE"
    /\ r.op = "status" => r.u = Nobody /\ r.how \in {"ACTIVE", "SUSPENDED", "CANCELLED"}
    /\ r.op \in Own => r.op \in does
    /\ r.op = "invite" /\ r.at \in Invites => "invite" \in does
    /\ r.op = "login" => does \cap {"login", "mistype"} # {}

RowOK(x) == x \in SessionRow /\ (x.kind # "none" => x.user \in Users)

Tables ==
    /\ user \in [Users -> UserRow] /\ member \in [Users -> [Tenants -> MemberStatus]]
    /\ tenant \in [Tenants -> TenantRow] /\ roles \in [Users -> [Tenants -> SUBSET Roles]]
    /\ made \subseteq CustomRoles /\ grants \in [Roles -> SUBSET Permissions]
    /\ session \in [Rows -> SessionRow] /\ \A i \in Rows : RowOK(session[i])
    /\ revoked \in [Users -> 0..MaxPassword] /\ override \in [Tenants -> Overrides]
    /\ \E s \in Scenes : scene = s.play

TypeInv == AuthInv /\ Tables /\ \A c \in Clients : ReqOK(req[c], scene.does[c])

LEMMA SceneTyped == ASSUME Tables PROVE scene.about \subseteq Users /\ scene.words \in 0..MaxPassword
BY StartsAssumption DEF Tables

LEMMA NobodyApart == Nobody \notin Users /\ Nobody \notin Tenants
BY AccountsAssumption

LEMMA RowTyped ==
    ASSUME TypeInv, NEW i \in Rows
    PROVE  /\ session[i].user \in Users \cup {Nobody} /\ session[i].tenant \in Tenants \cup {Nobody}
           /\ session[i].pw \in 0..MaxPassword /\ i \in 0..MaxSessions
           /\ session[i].kind # "none" => session[i].user \in Users
BY AccountsAssumption DEF TypeInv, Tables, RowOK, SessionRow, Rows

LEMMA PasswordTyped ==
    ASSUME TypeInv, NEW u \in Users
    PROVE  /\ user[u].password \in 0..MaxPassword /\ user[u].verified \in BOOLEAN
           /\ user[u].state \in {"none", "live", "deleted"} /\ user[u].totp \in {"off", "setup", "on"}
BY DEF TypeInv, Tables, UserRow

LEMMA IdleOK == ASSUME NEW does PROVE ReqOK(Idle, does)
BY IdleIs, AccountsAssumption DEF ReqOK, OfMember, Own

(* A request that goes on keeps all this.                                  *)
LEMMA MovedOK ==
    ASSUME NEW q, NEW r, NEW does, ReqOK(r, does), SameBut(q, r),
           r.op = "invite" /\ q.at \in Invites => r.at \in Invites
    PROVE  ReqOK(q, does)
BY DEF ReqOK, SameBut

LEMMA EndedOK ==
    ASSUME TypeInv, NEW c \in Clients, Ends(c)
    PROVE  ReqOK(req'[c], scene.does[c]) /\ Rest(c)
BY EndsTo, IdleOK DEF TypeInv, AuthInv

LEMMA GoneOK ==
    ASSUME TypeInv, NEW c \in Clients, NEW at, Goes(c, at),
           req[c].op = "invite" /\ at \in Invites => req[c].at \in Invites
    PROVE  ReqOK(req'[c], scene.does[c]) /\ Rest(c)
<1>1. req'[c].at = at /\ SameBut(req'[c], req[c]) /\ Rest(c)
  BY GoesTo DEF TypeInv, AuthInv
<1>2. ReqOK(req[c], scene.does[c])
  BY DEF TypeInv
<1> QED
  BY <1>1, <1>2, MovedOK

LEMMA ThrownOK ==
    ASSUME TypeInv, NEW c \in Clients, Throws(c)
    PROVE  ReqOK(req'[c], scene.does[c]) /\ Rest(c)
BY GoneOK, EndedOK DEF Throws

LEMMA SameReqOK ==
    ASSUME TypeInv, NEW c \in Clients, req' = req
    PROVE  ReqOK(req'[c], scene.does[c]) /\ Rest(c)
BY DEF TypeInv, Rest

LEMMA FrameOK ==
    ASSUME TypeInv, NEW c \in Clients, NEW op, NEW at, NEW u, NEW t, NEW s, NEW pw,
           Asks(c, Frame(op, at, u, t, s, pw)), ReqOK(Frame(op, at, u, t, s, pw), scene.does[c])
    PROVE  ReqOK(req'[c], scene.does[c]) /\ Rest(c)
BY AsksTo DEF TypeInv, AuthInv

LEMMA TaskOK ==
    ASSUME TypeInv, NEW c \in Clients, NEW op, NEW at, NEW u, NEW t, NEW how, NEW arg,
           Asks(c, Task(op, at, u, t, how, arg)), ReqOK(Task(op, at, u, t, how, arg), scene.does[c])
    PROVE  ReqOK(req'[c], scene.does[c]) /\ Rest(c)
BY AsksTo DEF TypeInv, AuthInv

LEMMA SignInReqs ==
    ASSUME TypeInv, NEW c \in Clients, SignInStep(c)
    PROVE  ReqOK(req'[c], scene.does[c]) /\ Rest(c)
<1> DEFINE does == scene.does[c]
           Goal == ReqOK(req'[c], does) /\ Rest(c)
<1> SUFFICES Goal
  OBVIOUS
<1>0. /\ ReqOK(req[c], does) /\ scene.about \subseteq Users /\ scene.words \in 0..MaxPassword
      /\ Shapes /\ MaxSessions \in Nat /\ MaxPassword \in Nat
  BY SceneTyped, AccountsAssumption DEF TypeInv, AuthInv
<1>1. ASSUME NEW u \in scene.about, NEW right \in BOOLEAN, BeginLogin(c, u, right) PROVE Goal
  <2> DEFINE r == Frame("login", Outcome(u, right), u, Nobody, 0, user[u].password)
  <2>1. ReqOK(r, does)
    <3>1. u \in Users /\ user[u].password \in 0..MaxPassword /\ does \cap {"login", "mistype"} # {}
      BY <1>0, <1>1, PasswordTyped DEF BeginLogin, May
    <3> QED
      BY <1>0, <3>1, FrameFields DEF ReqOK, OfMember, Own
  <2> QED
    BY <1>1, <2>1, FrameOK DEF BeginLogin
<1>2. CASE RecordAttempt(c)
  <2>1. Ends(c) \/ Goes(c, "pick") \/ Goes(c, "totp")
    BY <1>2 DEF RecordAttempt
  <2> QED
    BY <2>1, GoneOK, EndedOK DEF Invites
<1>3. CASE VerifyTotpLogin(c)
  <2>1. Ends(c) \/ Goes(c, "pick")
    BY <1>3 DEF VerifyTotpLogin
  <2> QED
    BY <2>1, GoneOK, EndedOK DEF Invites
<1>4. CASE SelectTenant(c)
  <2>1. \/ Ends(c) \/ Goes(c, "create")
        \/ \E t \in Tenants : Asks(c, [req[c] EXCEPT !.at = "create", !.t = t])
    BY <1>4 DEF SelectTenant, Workspaces
  <2>2. ASSUME NEW t \in Tenants, Asks(c, [req[c] EXCEPT !.at = "create", !.t = t]) PROVE Goal
    <3>1. req[c].op = "login"
      BY <1>4 DEF SelectTenant, At
    <3> QED
      <4> DEFINE r == req'[c]
      <4>1. /\ Rest(c) /\ r.at = "create" /\ r.t = t
            /\ r.op = "login" /\ r.how = req[c].how /\ r.u = req[c].u
            /\ r.s = req[c].s /\ r.pw = req[c].pw /\ r.arg = req[c].arg
        BY <1>0, <2>2, <3>1, SelectTo
      <4> HIDE DEF r
      <4>2. ReqOK(r, does)
        BY <1>0, <3>1, <4>1 DEF ReqOK, OfMember, Own
      <4> QED
        BY <4>1, <4>2 DEF r
  <2> QED
    BY <2>1, <2>2, GoneOK, EndedOK DEF Invites
<1>5. ASSUME NEW i \in Rows, NEW t \in Tenants, SwitchTenant(c, i, t) PROVE Goal
  <2> DEFINE r == Frame("switch", "create", session[i].user, t, 0, session[i].pw)
  <2>1. ReqOK(r, does)
    <3>1. session[i].user \in Users /\ session[i].pw \in 0..MaxPassword /\ "switch" \in does
      BY <1>5, RowTyped DEF SwitchTenant, May
    <3> QED
      BY <1>0, <3>1, FrameFields DEF ReqOK, OfMember, Own
  <2> QED
    BY <1>5, <2>1, FrameOK DEF SwitchTenant
<1>6. CASE CreateSession(c)
  <2>0. CASE Stray(c)
    BY <1>6, <2>0, EndedOK DEF CreateSession
  <2> SUFFICES ASSUME ~Stray(c) PROVE Goal
    BY <2>0
  <2>1. NewRow \in 0..MaxSessions
    BY <1>0, <1>6, NewRowUnused DEF CreateSession, Unused, Rows
  <2>2. req[c].op # "invite"
    BY <1>6 DEF CreateSession, At
  <2> QED
    BY <1>0, <1>6, <2>1, <2>2, CreatedTo DEF ReqOK
<1>7. CASE SealSession(c) \/ Sweep(c) \/ CommitChange(c)
  BY <1>7, EndedOK DEF SealSession, Sweep, CommitChange
<1>8. ASSUME NEW i \in Rows, BeginRefresh(c, i) PROVE Goal
  <2> DEFINE r == Frame("refresh", "rotate", session[i].user, session[i].tenant, i, session[i].pw)
  <2>1. req' = req \/ Asks(c, r)
    BY <1>8 DEF BeginRefresh
  <2>2. ReqOK(r, does)
    <3>1. /\ session[i].user \in Users /\ session[i].pw \in 0..MaxPassword /\ "refresh" \in does
          /\ session[i].tenant \in Tenants \cup {Nobody} /\ i \in 0..MaxSessions
      BY <1>8, RowTyped DEF BeginRefresh, May
    <3> QED
      BY <1>0, <3>1, FrameFields DEF ReqOK, OfMember, Own
  <2> QED
    BY <2>1, <2>2, FrameOK, SameReqOK
<1>9. ASSUME NEW i \in Rows, Logout(c, i) PROVE Goal
  BY <1>9, SameReqOK DEF Logout
<1>10. ASSUME NEW i \in Rows, UseToken(c, i) PROVE Goal
  <2> DEFINE r == Frame(session[i].kind, "account", session[i].user, session[i].tenant, i, 0)
  <2>1. ReqOK(r, does)
    <3>1. /\ session[i].user \in Users /\ session[i].kind \in {"reset", "invite", "verify"}
          /\ session[i].tenant \in Tenants \cup {Nobody} /\ i \in 0..MaxSessions
      BY <1>10, RowTyped DEF UseToken
    <3> QED
      BY <1>0, <3>1, FrameFields DEF ReqOK, OfMember, Own, Invites
  <2> QED
    BY <1>10, <2>1, FrameOK DEF UseToken
<1>11. CASE Rotate(c)
  <2>1. Ends(c) \/ Goes(c, "create")
    BY <1>11 DEF Rotate
  <2> QED
    BY <2>1, GoneOK, EndedOK DEF Invites
<1>12. CASE SetAccount(c)
  <2>1. req[c].u \in Users /\ req[c].op \in {"reset", "invite", "verify"}
    BY <1>0, <1>12 DEF SetAccount, At, ReqOK
  <2>2. req'[c].pw \in 0..MaxPassword
    <3>1. /\ user[req[c].u].password \in 0..MaxPassword
          /\ (IF req[c].op = "verify" THEN user[req[c].u].password
              ELSE user[req[c].u].password + 1) <= scene.words
      BY <1>12, <2>1, PasswordTyped DEF SetAccount
    <3>2. req'[c].pw = IF req[c].op = "verify" THEN user[req[c].u].password
                       ELSE user[req[c].u].password + 1
      BY <1>0, <1>12, AccountTo
    <3> QED
      BY <1>0, <3>1, <3>2
  <2> QED
    BY <1>0, <1>12, <2>1, <2>2, AccountTo DEF ReqOK, OfMember, Own, Invites
<1>13. CASE Join(c)
  BY <1>13, GoneOK DEF Join, Invites
<1>14. ASSUME NEW u \in scene.about, BeginChange(c, u) PROVE Goal
  <2> DEFINE r == Frame("change", "commit", u, Nobody, 0, 0)
  <2>1. ReqOK(r, does)
    BY <1>0, FrameFields DEF ReqOK, OfMember, Own
  <2> QED
    BY <1>14, <2>1, FrameOK DEF BeginChange
<1>15. ASSUME NEW u \in scene.about, ForgotPassword(c, u) \/ SendVerification(c, u) \/ Totp(c, u)
       PROVE  Goal
  BY <1>15, SameReqOK DEF ForgotPassword, SendVerification, Totp
<1> HIDE DEF Goal
<1> QED
  BY ZenonT(60), <1>1, <1>2, <1>3, <1>4, <1>5, <1>6, <1>7, <1>8, <1>9, <1>10, <1>11, <1>12, <1>13,
     <1>14, <1>15
  DEF SignInStep

LEMMA LookedUpOK ==
    ASSUME TypeInv, NEW c \in Clients, NEW r, IsFrame(r), Lookup(c, r), ReqOK(r, scene.does[c]),
           r.op \in {"invite", "onboard"}, r.op \in scene.does[c], r.t \in Tenants
    PROVE  ReqOK(req'[c], scene.does[c]) /\ Rest(c)
<1> DEFINE q == req'[c]
           does == scene.does[c]
<1>1. /\ Rest(c) /\ q.op = r.op /\ q.u = r.u /\ q.t = r.t /\ q.s = r.s /\ q.pw = r.pw /\ q.arg = r.arg
  BY LookupTo DEF TypeInv, AuthInv
<1> HIDE DEF q
<1>2. ReqOK(q, does)
  BY <1>1 DEF ReqOK, OfMember, Own
<1> QED
  BY <1>1, <1>2 DEF q

LEMMA OfficeReqs ==
    ASSUME TypeInv, NEW c \in Clients, OfficeStep(c)
    PROVE  ReqOK(req'[c], scene.does[c]) /\ Rest(c)
<1> DEFINE does == scene.does[c]
           Goal == ReqOK(req'[c], does) /\ Rest(c)
<1> SUFFICES Goal
  OBVIOUS
<1>0. /\ ReqOK(req[c], does) /\ scene.about \subseteq Users /\ Shapes
      /\ Nobody \notin Users /\ Nobody \notin Tenants
      /\ MaxSessions \in Nat /\ MaxPassword \in Nat /\ OwnerRole \in Roles
  BY SceneTyped, AccountsAssumption, StartsAssumption DEF TypeInv, AuthInv, Roles
<1>1. ASSUME NEW u \in scene.about, NEW t \in Tenants, NEW rs \in SUBSET Roles, BeginInvite(c, u, t, rs)
      PROVE  Goal
  <2> DEFINE r == Task("invite", "none", u, t, "none", rs)
  <2>1. IsFrame(r) /\ Lookup(c, r) /\ r.op = "invite" /\ r.t = t /\ "invite" \in does
    BY <1>1, TaskIsFrame, TaskFields DEF BeginInvite, May
  <2>2. ReqOK(r, does)
    BY <1>0, <2>1, TaskFields DEF ReqOK, OfMember, Own
  <2> HIDE DEF r
  <2> QED
    BY <2>1, <2>2, LookedUpOK
<1>2. ASSUME NEW u \in scene.about, NEW t \in Tenants, NEW rs \in SUBSET Roles, BeginCreate(c, u, t, rs)
      PROVE  Goal
  <2> DEFINE how == IF user[u].state = "none" THEN "new" ELSE "known"
             r == Task("create", "person", u, t, how, rs)
  <2>1. ReqOK(r, does)
    <3>1. "create" \in does
      BY <1>2 DEF BeginCreate, May
    <3> HIDE DEF how
    <3> QED
      BY <1>0, <3>1, TaskFields DEF ReqOK, OfMember, Own
  <2> QED
    BY <1>2, <2>1, TaskOK DEF BeginCreate
<1>3. ASSUME NEW u \in scene.about, NEW t \in Tenants, NEW rs \in SUBSET Roles, BeginAssign(c, u, t, rs)
      PROVE  Goal
  <2>1. ASSUME NEW at PROVE ReqOK(Task("assign", at, u, t, "none", rs), does)
    <3>1. "assign" \in does
      BY <1>3 DEF BeginAssign, May
    <3> QED
      BY <1>0, <3>1, TaskFields DEF ReqOK, OfMember, Own
  <2>2. \/ Asks(c, Task("assign", "drop", u, t, "none", rs))
        \/ Asks(c, Task("assign", "add", u, t, "none", rs))
    BY <1>3 DEF BeginAssign
  <2> QED
    BY <2>1, <2>2, TaskOK
<1>4. CASE Person(c)
  <2>1. Throws(c) \/ (Goes(c, "enrol") /\ req[c].at \in Invites)
    BY <1>4 DEF Person, At, Invites
  <2> QED
    BY <2>1, ThrownOK, GoneOK
<1>5. CASE Enrol(c)
  <2>1. Throws(c) \/ (Goes(c, "staff") /\ req[c].at \in Invites)
    BY <1>5 DEF Enrol, At, Invites
  <2> QED
    BY <2>1, ThrownOK, GoneOK
<1>6. CASE Staff(c)
  <2>1. \/ Throws(c) \/ Ends(c)
        \/ (Goes(c, "clear") \/ Goes(c, "token") \/ Goes(c, "flags")) /\ req[c].at \in Invites
    BY <1>6 DEF Staff, At, Invites
  <2> QED
    BY <2>1, ThrownOK, EndedOK, GoneOK
<1>7. CASE ClearInvites(c) \/ SendInviteToken(c)
  <2>1. Throws(c) \/ Ends(c) \/ ((Goes(c, "token") \/ Goes(c, "flags")) /\ req[c].at \in Invites)
    BY <1>7 DEF ClearInvites, SendInviteToken, At, Invites
  <2> QED
    BY <2>1, ThrownOK, EndedOK, GoneOK
<1>8. ASSUME NEW u \in scene.about, NEW t \in Tenants, BeginResend(c, u, t) PROVE Goal
  <2> DEFINE at == IF member[u][t] = "INVITED" THEN "clear" ELSE "again"
  <2>1. Asks(c, Frame("resend", at, u, t, 0, 0)) /\ "resend" \in does
    BY <1>8 DEF BeginResend, May, Ask
  <2> HIDE DEF at
  <2>2. ReqOK(Frame("resend", at, u, t, 0, 0), does)
    BY <1>0, <2>1, FrameFields DEF ReqOK, OfMember, Own
  <2> QED
    BY <2>1, <2>2, FrameOK
<1>9. ASSUME NEW u \in scene.about, NEW t \in Tenants, BeginRemove(c, u, t) PROVE Goal
  <2>1. Asks(c, Frame("remove", "commit", u, t, 0, 0)) /\ "remove" \in does
    BY <1>9 DEF BeginRemove, May, Ask
  <2>2. ReqOK(Frame("remove", "commit", u, t, 0, 0), does)
    BY <1>0, <2>1, FrameFields DEF ReqOK, OfMember, Own
  <2> QED
    BY <2>1, <2>2, FrameOK
<1>10. ASSUME NEW u \in scene.about, NEW t \in Tenants, NEW op \in {"deactivate", "reactivate"},
              NEW from, NEW to, to = IF op = "deactivate" THEN "INACTIVE" ELSE "ACTIVE",
              BeginStatus(c, op, from, to, u, t)
       PROVE  Goal
  <2>1. Asks(c, Task(op, "member", u, t, to, {})) /\ op \in does
    BY <1>10 DEF BeginStatus, May
  <2>2. ReqOK(Task(op, "member", u, t, to, {}), does)
    BY <1>0, <1>10, <2>1, TaskFields DEF ReqOK, OfMember, Own
  <2> QED
    BY <2>1, <2>2, TaskOK
<1>11. ASSUME NEW u \in scene.about, NEW t \in Tenants, BeginOnboard(c, u, t) PROVE Goal
  <2>1. Asks(c, Task("onboard", "settings", u, t, "none", {OwnerRole})) /\ "onboard" \in does
    BY <1>11 DEF BeginOnboard, May
  <2>2. ReqOK(Task("onboard", "settings", u, t, "none", {OwnerRole}), does)
    BY <1>0, <2>1, TaskFields DEF ReqOK, OfMember, Own
  <2> QED
    BY <2>1, <2>2, TaskOK
<1>12. ASSUME NEW u \in scene.about, NEW t \in Tenants,
              UpdateTenant(c, t, u) \/ AdminPassword(c, u, t) \/ \E r \in Roles : RemoveRole(c, u, t, r)
       PROVE  Goal
  BY <1>12, SameReqOK DEF UpdateTenant, AdminPassword, RemoveRole
<1>13. CASE SetMember(c)
  <2>1. Ends(c) \/ ((Goes(c, "kick") \/ Goes(c, "clear")) /\ req[c].op # "invite")
    BY <1>13 DEF SetMember, At
  <2> QED
    BY <2>1, EndedOK, GoneOK
<1>14. CASE Kick(c) \/ CommitRemove(c) \/ CommitDeleteUser(c)
  BY <1>14, EndedOK DEF Kick, CommitRemove, CommitDeleteUser
<1>15. ASSUME NEW u \in scene.about, BeginDeleteUser(c, u) PROVE Goal
  <2>1. Asks(c, Frame("delete_user", "commit", u, Nobody, 0, 0)) /\ "delete_user" \in does
    BY <1>15 DEF BeginDeleteUser, May, Ask
  <2>2. ReqOK(Frame("delete_user", "commit", u, Nobody, 0, 0), does)
    BY <1>0, <2>1, FrameFields DEF ReqOK, OfMember, Own
  <2> QED
    BY <2>1, <2>2, FrameOK
<1>16. CASE DropRoles(c) \/ AddRoles(c)
  <2>1. Ends(c) \/ Goes(c, "add")
    BY <1>16 DEF DropRoles, AddRoles
  <2> QED
    BY <2>1, EndedOK, GoneOK DEF Invites
<1>17. CASE CommitDeleteRole(c) \/ CommitGrant(c)
  BY <1>17, EndedOK DEF CommitDeleteRole, CommitGrant
<1>18. CASE SetFlag(c)
  BY <1>18, SameReqOK DEF SetFlag
<1>19. ASSUME NEW r \in CustomRoles, NEW t \in Tenants, CreateRole(c, r, t) PROVE Goal
  BY <1>19, SameReqOK DEF CreateRole
<1>20. ASSUME NEW r \in CustomRoles, NEW t \in Tenants, BeginDeleteRole(c, r, t) PROVE Goal
  <2>1. Asks(c, Task("delete_role", "commit", Nobody, t, "none", {r}))
    BY <1>20 DEF BeginDeleteRole
  <2>2. ReqOK(Task("delete_role", "commit", Nobody, t, "none", {r}), does)
    BY <1>0, <2>1, TaskFields DEF ReqOK, OfMember, Own
  <2> QED
    BY <2>1, <2>2, TaskOK
<1>21. ASSUME NEW r \in Roles, NEW t \in Tenants, NEW p \in Permissions, RemovePermission(c, t, r, p)
       PROVE  Goal
  BY <1>21, SameReqOK DEF RemovePermission
<1>22. ASSUME NEW a \in Users, NEW t \in Tenants, NEW r \in Roles, NEW ps \in SUBSET Permissions,
              BeginGrant(c, a, t, r, ps)
       PROVE  Goal
  <2> DEFINE q == req'[c]
  <2>1. /\ Rest(c) /\ q.op = "grant" /\ q.at = "commit" /\ q.how = r /\ q.u = a /\ q.t = t
        /\ q.s = 0 /\ q.pw = 0 /\ q.arg \subseteq Permissions
    BY <1>22, GrantTo DEF TypeInv
  <2> HIDE DEF q
  <2>2. ReqOK(q, does)
    BY <1>0, <2>1 DEF ReqOK, OfMember, Own
  <2> QED
    BY <2>1, <2>2 DEF q
<1>23. CASE MakeSettings(c)
  <2>1. (Throws(c) \/ Lookup(c, req[c])) /\ IsFrame(req[c]) /\ req[c].op = "onboard"
    BY <1>0, <1>23 DEF MakeSettings, At, Shapes
  <2>2. "onboard" \in does /\ req[c].t \in Tenants
    BY <1>0, <2>1 DEF ReqOK, OfMember, Own
  <2> QED
    BY <1>0, <2>1, <2>2, LookedUpOK, ThrownOK
<1>24. CASE ApplyFlags(c) \/ NameOwner(c)
  <2>1. Throws(c) \/ Ends(c) \/ Goes(c, "owner")
    BY <1>24 DEF ApplyFlags, NameOwner
  <2> QED
    BY <2>1, ThrownOK, EndedOK, GoneOK DEF Invites
<1>25. CASE Undo(c)
  <2>1. \/ Ends(c) \/ Goes(c, "undo_settings") \/ Goes(c, "undo_members") \/ Goes(c, "undo_roles")
        \/ Goes(c, "undo_tenant")
    BY <1>25 DEF Undo
  <2> QED
    BY <2>1, EndedOK, GoneOK DEF Invites
<1>26. ASSUME NEW t \in Tenants, NEW s \in {"ACTIVE", "SUSPENDED", "CANCELLED"}, BeginTenantStatus(c, t, s)
       PROVE  Goal
  <2>1. Asks(c, Task("status", "write", Nobody, t, s, {})) /\ "status" \in does
    BY <1>26 DEF BeginTenantStatus, May
  <2>2. ReqOK(Task("status", "write", Nobody, t, s, {}), does)
    BY <1>0, <2>1, TaskFields DEF ReqOK, OfMember, Own
  <2> QED
    BY <2>1, <2>2, TaskOK
<1>27. CASE SetTenantStatus(c)
  <2>1. Ends(c) \/ Goes(c, "kick")
    BY <1>27 DEF SetTenantStatus
  <2> QED
    BY <2>1, EndedOK, GoneOK DEF Invites
<1>28. ASSUME NEW t \in Tenants, DeleteTenant(c, t) PROVE Goal
  BY <1>28, SameReqOK DEF DeleteTenant
<1>29. CASE Breaks(c) \/ Dies(c)
  BY <1>29, ThrownOK, EndedOK DEF Breaks, Dies
<1> HIDE DEF Goal
<1>30. ASSUME NEW u \in scene.about, NEW t \in Tenants,
              \/ BeginStatus(c, "deactivate", {"INVITED", "ACTIVE"}, "INACTIVE", u, t)
              \/ BeginStatus(c, "reactivate", {"INACTIVE"}, "ACTIVE", u, t)
       PROVE  Goal
  BY <1>10, <1>30
<1> QED
  BY ZenonT(60), <1>1, <1>2, <1>3, <1>4, <1>5, <1>6, <1>7, <1>8, <1>9, <1>11, <1>12, <1>13, <1>14,
     <1>15, <1>16, <1>17, <1>18, <1>19, <1>20, <1>21, <1>22, <1>23, <1>24, <1>25, <1>26, <1>27, <1>28,
     <1>29, <1>30
  DEF OfficeStep

-----------------------------------------------------------------------------
(* What becomes of the tables: they keep their types, and only what the    *)
(* lemmas name changes in them.                                            *)
StaysLive(c) == \A u \in Users : user[u].state = "live" /\ (CommitDeleteUser(c) => u # req[c].u)
                                 => user'[u].state = "live"

LEMMA UserRowTo ==
    ASSUME user \in [Users -> UserRow], NEW u \in Users, NEW x \in UserRow
    PROVE  [user EXCEPT ![u] = x] \in [Users -> UserRow]
OBVIOUS

LEMMA UserTo ==
    ASSUME TypeInv, NEW c \in Clients, UserStep(c)
    PROVE  user' \in [Users -> UserRow] /\ StaysLive(c)
<1> DEFINE Goal == user' \in [Users -> UserRow] /\ StaysLive(c)
<1> SUFFICES Goal
  OBVIOUS
<1>0. /\ user \in [Users -> UserRow] /\ ReqOK(req[c], scene.does[c])
      /\ scene.about \subseteq Users /\ scene.words \in 0..MaxPassword
      /\ MaxPassword \in Nat
  BY SceneTyped, AccountsAssumption DEF TypeInv, Tables
<1>1. CASE SetAccount(c)
  <2> DEFINE u == req[c].u
             word == IF req[c].op = "verify" THEN user[u].password ELSE user[u].password + 1
  <2>1. u \in Users
    BY <1>0, <1>1 DEF SetAccount, At, ReqOK
  <2>2. word \in 0..MaxPassword
    BY <1>0, <1>1, <2>1, PasswordTyped DEF SetAccount
  <2>3. user' = [user EXCEPT ![u].password = word, ![u].verified = @ \/ req[c].op # "reset"]
    BY Zenon, <1>1 DEF SetAccount
  <2> HIDE DEF word, u
  <2>4. user' \in [Users -> UserRow]
    BY ZenonT(60), <1>0, <2>1, <2>2, <2>3 DEF UserRow
  <2>5. \A v \in Users : user'[v].state = user[v].state
    BY <1>0, <2>1, <2>3 DEF UserRow
  <2> QED
    BY <2>4, <2>5 DEF StaysLive
<1>2. CASE CommitChange(c)
  <2>1. req[c].u \in Users
    BY <1>0, <1>2 DEF CommitChange, At, ReqOK
  <2>2. user[req[c].u].password + 1 \in 0..MaxPassword
    BY <1>0, <1>2, <2>1, PasswordTyped DEF CommitChange
  <2>3. user' = [user EXCEPT ![req[c].u].password = user[req[c].u].password + 1]
    BY <1>2 DEF CommitChange
  <2>4. user' \in [Users -> UserRow]
    BY <1>0, <2>1, <2>2, <2>3 DEF UserRow
  <2>5. \A v \in Users : user'[v].state = user[v].state
    BY <1>0, <2>1, <2>3 DEF UserRow
  <2> QED
    BY <2>4, <2>5 DEF StaysLive
<1>3. CASE Person(c)
  <2>1. req[c].u \in Users
    BY <1>0, <1>3 DEF Person, At, ReqOK, OfMember
  <2>2. CASE user' = user
    BY <1>0, <2>2 DEF StaysLive
  <2>3. CASE user' # user
    <3> DEFINE u == req[c].u
               sets == req[c].op = "create"
               word == IF sets THEN user[u].password + 1 ELSE user[u].password
    <3>1. /\ user' = [user EXCEPT ![u].state = "live", ![u].verified = @ \/ sets,
                                  ![u].password = IF sets THEN @ + 1 ELSE @]
          /\ sets => user[u].password < scene.words
      BY Zenon, <1>3, <2>3 DEF Person
    <3>2. word \in 0..MaxPassword
      BY <1>0, <2>1, <3>1, PasswordTyped
    <3>3. user' = [user EXCEPT ![u].state = "live", ![u].verified = @ \/ sets, ![u].password = word]
      BY <1>0, <2>1, <3>1 DEF UserRow
    <3> HIDE DEF word, sets
    <3>4. user' \in [Users -> UserRow]
      BY <1>0, <2>1, <3>2, <3>3 DEF UserRow
    <3>5. \A v \in Users : user'[v].state = IF v = u THEN "live" ELSE user[v].state
      BY <1>0, <2>1, <3>3 DEF UserRow
    <3> QED
      BY <3>4, <3>5 DEF StaysLive
  <2> QED
    BY <2>2, <2>3
<1>4. CASE CommitDeleteUser(c)
  BY <1>0, <1>4 DEF CommitDeleteUser, StaysLive, UserRow, ReqOK, At
<1>5. ASSUME NEW u \in scene.about, Totp(c, u) PROVE Goal
  BY <1>0, <1>5 DEF Totp, StaysLive, UserRow
<1>6. ASSUME NEW u \in scene.about, NEW t \in Tenants, AdminPassword(c, u, t) PROVE Goal
  <2>1. user[u].password + 1 \in 0..MaxPassword
    BY <1>0, <1>6, PasswordTyped DEF AdminPassword
  <2>2. user' = [user EXCEPT ![u].password = user[u].password + 1]
    BY <1>6 DEF AdminPassword
  <2> QED
    BY <1>0, <2>1, <2>2 DEF StaysLive, UserRow
<1> HIDE DEF Goal
<1> QED
  BY <1>1, <1>2, <1>3, <1>4, <1>5, <1>6 DEF UserStep

MemberMove(c, u, t) ==
    \/ member'[u][t] = member[u][t]
    \/ /\ u = req[c].u /\ t = req[c].t /\ member'[u][t] # "none"
       /\ Enrol(c) \/ (member[u][t] # "none" /\ (Join(c) \/ SetMember(c)))
       /\ \/ member'[u][t] = "ACTIVE"
          \/ Enrol(c) /\ req[c].op # "create"
          \/ SetMember(c) /\ (req[c].op = "resend" \/ (req[c].op = "deactivate" /\ Goes(c, "kick")))
    \/ member'[u][t] = "none" /\ u = req[c].u /\ t = req[c].t /\ CommitRemove(c)
    \/ member'[u][t] = "none" /\ u = req[c].u /\ CommitDeleteUser(c)
    \/ member'[u][t] = "none" /\ t = req[c].t /\ Undo(c)
       /\ \/ req[c].at = "undo_members"
          \/ req[c].at = "undo_tenant" /\ ~Referenced(t)

LEMMA OneMember ==
    ASSUME member \in [Users -> [Tenants -> MemberStatus]], NEW u, NEW t, NEW x \in MemberStatus,
           member' = [member EXCEPT ![u][t] = x]
    PROVE  /\ member' \in [Users -> [Tenants -> MemberStatus]]
           /\ \A v \in Users, s \in Tenants :
                 member'[v][s] = IF v = u /\ s = t THEN x ELSE member[v][s]
OBVIOUS

LEMMA MemberTo ==
    ASSUME TypeInv, NEW c \in Clients, MemberStep(c)
    PROVE  /\ member' \in [Users -> [Tenants -> MemberStatus]]
           /\ \A u \in Users, t \in Tenants : MemberMove(c, u, t)
<1> DEFINE Goal == /\ member' \in [Users -> [Tenants -> MemberStatus]]
                   /\ \A u \in Users, t \in Tenants : MemberMove(c, u, t)
<1> SUFFICES Goal
  OBVIOUS
<1>0. member \in [Users -> [Tenants -> MemberStatus]] /\ ReqOK(req[c], scene.does[c])
  BY DEF TypeInv, Tables
<1>1. ASSUME member' = member PROVE Goal
  BY <1>0, <1>1 DEF MemberMove
<1>2. CASE Join(c)
  <2>0. req[c].u \in Users
    BY <1>0, <1>2 DEF Join, At, ReqOK
  <2> DEFINE old == member[req[c].u][req[c].t]
             x == IF old = "INVITED" THEN "ACTIVE" ELSE old
  <2>1. member' = [member EXCEPT ![req[c].u][req[c].t] = x]
    BY <1>0, <1>2, <2>0 DEF Join
  <2>2. CASE req[c].t \in Tenants
    <3>1. x \in MemberStatus /\ (old = "none" => x = "none") /\ (x # old => x = "ACTIVE")
      BY <1>0, <2>0, <2>2 DEF MemberStatus
    <3> HIDE DEF x
    <3> QED
      BY ZenonT(60), <1>0, <1>2, <2>1, <3>1, OneMember DEF MemberMove
  <2>3. CASE req[c].t \notin Tenants
    BY <1>0, <2>0, <2>1, <2>3, <1>1
  <2> QED
    BY <2>2, <2>3
<1>3. CASE Enrol(c)
  <2> DEFINE x == IF req[c].op = "create" \/ req[c].how = "enrol" THEN "ACTIVE" ELSE "INVITED"
  <2>1. member' = member \/ member' = [member EXCEPT ![req[c].u][req[c].t] = x]
    BY <1>3 DEF Enrol
  <2>2. x \in MemberStatus /\ x # "none" /\ (x # "ACTIVE" => req[c].op # "create")
    BY DEF MemberStatus
  <2> HIDE DEF x
  <2>3. CASE member' # member
    BY <1>0, <1>3, <2>1, <2>2, <2>3, OneMember DEF MemberMove
  <2> QED
    BY <1>1, <2>3
<1>4. CASE SetMember(c)
  <2> DEFINE x == IF req[c].op = "resend" THEN "INVITED" ELSE req[c].how
  <2>1. CASE member' # member
    <3>1. /\ member' = [member EXCEPT ![req[c].u][req[c].t] = x] /\ member[req[c].u][req[c].t] # "none"
          /\ req[c].op \in {"resend", "deactivate", "reactivate"}
          /\ req[c].op = "deactivate" => Goes(c, "kick")
      BY <1>4, <2>1 DEF SetMember, At
    <3>2. x \in MemberStatus /\ x # "none" /\ (x # "ACTIVE" => req[c].op \in {"resend", "deactivate"})
      BY <1>0, <3>1 DEF MemberStatus, ReqOK
    <3> HIDE DEF x
    <3> QED
      BY ZenonT(60), <1>0, <1>4, <3>1, <3>2, OneMember DEF MemberMove
  <2> QED
    BY <1>1, <2>1
<1>5. CASE CommitRemove(c)
  <2>1. member' = member \/ member' = [member EXCEPT ![req[c].u][req[c].t] = "none"]
    BY <1>5 DEF CommitRemove
  <2>2. CASE member' # member
    BY <1>0, <1>5, <2>1, <2>2, OneMember DEF MemberMove, MemberStatus
  <2> QED
    BY <1>1, <2>2
<1>6. CASE CommitDeleteUser(c)
  <2>1. member' = [member EXCEPT ![req[c].u] = [t \in Tenants |-> "none"]]
    BY <1>6 DEF CommitDeleteUser
  <2> QED
    BY <1>0, <1>6, <2>1 DEF MemberMove, MemberStatus
<1>7. CASE Undo(c)
  <2>1. \/ member' = member
        \/ /\ \/ req[c].at = "undo_members"
              \/ req[c].at = "undo_tenant" /\ ~Referenced(req[c].t)
           /\ member' = [u \in Users |-> [member[u] EXCEPT ![req[c].t] = "none"]]
    BY <1>7 DEF Undo
  <2>2. CASE member' # member
    <3>1. \A u \in Users, t \in Tenants :
             member'[u][t] = IF t = req[c].t THEN "none" ELSE member[u][t]
      BY <1>0, <2>1, <2>2
    <3>2. member' \in [Users -> [Tenants -> MemberStatus]]
      BY <1>0, <2>1, <2>2 DEF MemberStatus
    <3> QED
      BY <1>7, <2>1, <2>2, <3>1, <3>2 DEF MemberMove
  <2> QED
    BY <1>1, <2>2
<1> HIDE DEF Goal
<1> QED
  BY <1>2, <1>3, <1>4, <1>5, <1>6, <1>7 DEF MemberStep

-----------------------------------------------------------------------------
(* Roles of members.                                                       *)
RoleMove(c, u, t) ==
    \/ roles'[u][t] \subseteq roles[u][t]
    \/ u = req[c].u /\ t = req[c].t /\ (Staff(c) \/ AddRoles(c))

LEMMA OneRoles ==
    ASSUME roles \in [Users -> [Tenants -> SUBSET Roles]], NEW u, NEW t, NEW x \in SUBSET Roles,
           roles' = [roles EXCEPT ![u][t] = x]
    PROVE  /\ roles' \in [Users -> [Tenants -> SUBSET Roles]]
           /\ \A v \in Users, s \in Tenants :
                 roles'[v][s] = IF v = u /\ s = t THEN x ELSE roles[v][s]
OBVIOUS

LEMMA RolesTo ==
    ASSUME TypeInv, NEW c \in Clients, RoleStep(c)
    PROVE  /\ roles' \in [Users -> [Tenants -> SUBSET Roles]]
           /\ \A u \in Users, t \in Tenants : RoleMove(c, u, t)
<1> DEFINE Goal == /\ roles' \in [Users -> [Tenants -> SUBSET Roles]]
                   /\ \A u \in Users, t \in Tenants : RoleMove(c, u, t)
           u0 == req[c].u
           t0 == req[c].t
<1> SUFFICES Goal
  OBVIOUS
<1>0. roles \in [Users -> [Tenants -> SUBSET Roles]] /\ ReqOK(req[c], scene.does[c])
      /\ scene.about \subseteq Users
  BY SceneTyped DEF TypeInv, Tables
<1>1. ASSUME roles' = roles PROVE Goal
  BY <1>0, <1>1 DEF RoleMove
<1>2. ASSUME NEW x \in SUBSET Roles, roles' = [roles EXCEPT ![u0][t0] = x], Staff(c) \/ AddRoles(c)
      PROVE  Goal
  <2>1. /\ roles' \in [Users -> [Tenants -> SUBSET Roles]]
        /\ \A v \in Users, s \in Tenants : roles'[v][s] = IF v = u0 /\ s = t0 THEN x ELSE roles[v][s]
    BY <1>0, <1>2, OneRoles
  <2> QED
    BY <1>2, <2>1 DEF RoleMove
<1>3. ASSUME NEW u \in Users, NEW t \in Tenants, NEW x \in SUBSET roles[u][t],
             roles' = [roles EXCEPT ![u][t] = x]
      PROVE  Goal
  <2>1. x \in SUBSET Roles
    BY <1>0
  <2>2. /\ roles' \in [Users -> [Tenants -> SUBSET Roles]]
        /\ \A v \in Users, s \in Tenants : roles'[v][s] = IF v = u /\ s = t THEN x ELSE roles[v][s]
    BY <1>0, <1>3, <2>1, OneRoles
  <2> QED
    BY <2>2 DEF RoleMove
<1>4. CASE Staff(c)
  <2>1. u0 \in Users /\ t0 \in Tenants /\ req[c].arg \subseteq Roles
    <3>1. req[c].op \in {"invite", "onboard", "create"} /\ req[c].at \in Invites
      BY <1>4 DEF Staff, At, Invites
    <3> QED
      BY <1>0, <3>1 DEF ReqOK, OfMember
  <2>2. roles' = roles \/ roles' = [roles EXCEPT ![u0][t0] = roles[u0][t0] \cup req[c].arg]
    BY <1>0, <1>4, <2>1 DEF Staff
  <2>3. roles[u0][t0] \cup req[c].arg \in SUBSET Roles
    BY <1>0, <2>1
  <2> HIDE DEF Goal
  <2> QED
    BY <1>1, <1>2, <1>4, <2>2, <2>3
<1>5. CASE DropRoles(c) \/ AddRoles(c)
  <2>1. u0 \in Users /\ t0 \in Tenants /\ req[c].arg \subseteq Roles
    BY <1>0, <1>5 DEF DropRoles, AddRoles, At, ReqOK, OfMember
  <2> DEFINE more == roles[u0][t0] \cup {r \in req[c].arg : Exists(r) /\ ~Stray(c)}
             less == roles[u0][t0] \cap req[c].arg
  <2>2. CASE AddRoles(c)
    <3>1. roles' = [roles EXCEPT ![u0][t0] = more]
      BY <1>0, <2>1, <2>2 DEF AddRoles
    <3>2. more \in SUBSET Roles
      BY <1>0, <2>1
    <3> HIDE DEF Goal, more
    <3> QED
      BY <1>2, <2>2, <3>1, <3>2
  <2>3. CASE DropRoles(c)
    <3>1. roles' = [roles EXCEPT ![u0][t0] = less]
      BY <1>0, <2>1, <2>3 DEF DropRoles
    <3>2. less \in SUBSET roles[u0][t0]
      OBVIOUS
    <3> HIDE DEF Goal, less
    <3> QED
      BY <1>3, <2>1, <3>1, <3>2
  <2> QED
    BY <1>5, <2>2, <2>3
<1>6. ASSUME NEW u \in scene.about, NEW t \in Tenants, NEW r \in Roles, RemoveRole(c, u, t, r)
      PROVE  Goal
  <2>1. roles' = [roles EXCEPT ![u][t] = roles[u][t] \ {r}]
    BY <1>0, <1>6 DEF RemoveRole
  <2> DEFINE less == roles[u][t] \ {r}
  <2>2. less \in SUBSET roles[u][t] /\ roles' = [roles EXCEPT ![u][t] = less] /\ u \in Users
    BY <1>0, <2>1
  <2> HIDE DEF Goal, less
  <2> QED
    BY <1>3, <2>2
<1>7. CASE CommitRemove(c)
  <2>1. u0 \in Users /\ t0 \in Tenants
    BY <1>0, <1>7 DEF CommitRemove, At, ReqOK, OfMember
  <2>2. roles' = roles \/ roles' = [roles EXCEPT ![u0][t0] = {}]
    BY <1>7 DEF CommitRemove
  <2>3. {} \in SUBSET roles[u0][t0]
    OBVIOUS
  <2> HIDE DEF Goal
  <2> QED
    BY <1>1, <1>3, <2>1, <2>2, <2>3
<1>8. CASE CommitDeleteUser(c)
  <2>1. roles' = [roles EXCEPT ![u0] = [t \in Tenants |-> {}]]
    BY <1>8 DEF CommitDeleteUser
  <2> QED
    BY <1>0, <2>1 DEF RoleMove
<1>9. CASE CommitDeleteRole(c)
  <2>1. roles' = [u \in Users |-> [t \in Tenants |-> roles[u][t] \ req[c].arg]]
    BY <1>9 DEF CommitDeleteRole
  <2> QED
    BY <1>0, <2>1 DEF RoleMove
<1>10. CASE Undo(c)
  <2>1. roles' = roles \/ roles' = [u \in Users |-> [roles[u] EXCEPT ![t0] = {}]]
    BY <1>10 DEF Undo
  <2>2. ASSUME roles' = [u \in Users |-> [roles[u] EXCEPT ![t0] = {}]] PROVE Goal
    BY <1>0, <2>2 DEF RoleMove
  <2> HIDE DEF Goal
  <2> QED
    BY <1>1, <2>1, <2>2
<1> HIDE DEF Goal
<1> QED
  BY <1>4, <1>5, <1>6, <1>7, <1>8, <1>9, <1>10 DEF RoleStep

-----------------------------------------------------------------------------
(* Workspaces.                                                             *)
TenantMove(c, t) ==
    LET x == tenant[t]
        y == tenant'[t]
        open == y.status = x.status /\ y.gone = x.gone
        named == y.owner = x.owner /\ y.orphan = x.orphan
        settled == y.settings = x.settings
    IN \/ y = x
       \/ CommitDeleteUser(c) /\ x.owner = req[c].u /\ open /\ settled /\ y.owner = Nobody /\ y.orphan
       \/ /\ x.status = "none" /\ y = [NoTenant EXCEPT !.status = "PENDING"]
          /\ \E u \in scene.about : BeginOnboard(c, u, t)
       \/ MakeSettings(c) /\ t = req[c].t /\ open /\ named /\ y.settings
       \/ NameOwner(c) /\ t = req[c].t /\ open /\ settled /\ y.owner = req[c].u /\ y.orphan = x.orphan
       \/ Undo(c) /\ t = req[c].t /\ req[c].at = "undo_settings" /\ open /\ named /\ ~y.settings
       \/ Undo(c) /\ t = req[c].t /\ req[c].at = "undo_tenant" /\ ~Referenced(t) /\ y = NoTenant
       \/ /\ SetTenantStatus(c) /\ t = req[c].t /\ named /\ settled /\ x.status # "none"
          /\ y.status = req[c].how /\ y.gone = x.gone /\ (req[c].how = "ACTIVE" \/ Goes(c, "kick"))
       \/ DeleteTenant(c, t) /\ x.status # "none" /\ y.status = x.status /\ named /\ settled /\ y.gone
       \/ open /\ x.status # "none" /\ y.owner \in Users /\ y.orphan = x.orphan /\ y.settings

LEMMA OneTenant ==
    ASSUME tenant \in [Tenants -> TenantRow], NEW t, NEW x \in TenantRow,
           tenant' = [tenant EXCEPT ![t] = x]
    PROVE  /\ tenant' \in [Tenants -> TenantRow]
           /\ \A s \in Tenants : tenant'[s] = IF s = t THEN x ELSE tenant[s]
OBVIOUS

LEMMA NoTenantIs == /\ NoTenant \in TenantRow /\ NoTenant.status = "none" /\ ~NoTenant.gone
                    /\ ~NoTenant.settings /\ NoTenant.owner = Nobody /\ ~NoTenant.orphan
BY DEF NoTenant, TenantRow

LEMMA PendingIs ==
    LET x == [NoTenant EXCEPT !.status = "PENDING"] IN
    /\ x \in TenantRow /\ x.status = "PENDING" /\ ~x.gone /\ ~x.settings /\ x.owner = Nobody /\ ~x.orphan
BY DEF NoTenant, TenantRow

LEMMA TenantTo ==
    ASSUME TypeInv, NEW c \in Clients, TenantStep(c)
    PROVE  /\ tenant' \in [Tenants -> TenantRow]
           /\ \A t \in Tenants : TenantMove(c, t)
<1> DEFINE Goal == /\ tenant' \in [Tenants -> TenantRow]
                   /\ \A t \in Tenants : TenantMove(c, t)
           t0 == req[c].t
<1> SUFFICES Goal
  OBVIOUS
<1>0. tenant \in [Tenants -> TenantRow] /\ ReqOK(req[c], scene.does[c]) /\ scene.about \subseteq Users
  BY SceneTyped DEF TypeInv, Tables
<1>1. ASSUME tenant' = tenant PROVE Goal
  BY <1>0, <1>1 DEF TenantMove
<1>2. ASSUME NEW t \in Tenants, NEW x \in TenantRow, tenant' = [tenant EXCEPT ![t] = x],
             tenant'[t] = x => TenantMove(c, t)
      PROVE  Goal
  <2>1. /\ tenant' \in [Tenants -> TenantRow]
        /\ \A s \in Tenants : tenant'[s] = IF s = t THEN x ELSE tenant[s]
    BY <1>0, <1>2, OneTenant
  <2>2. TenantMove(c, t)
    BY <1>2, <2>1
  <2>3. ASSUME NEW s \in Tenants, s # t PROVE TenantMove(c, s)
    BY <2>1, <2>3 DEF TenantMove
  <2> QED
    BY <2>1, <2>2, <2>3
<1>3. CASE CommitDeleteUser(c)
  <2> DEFINE x(t) == [tenant[t] EXCEPT !.owner = Nobody, !.orphan = TRUE]
  <2>1. tenant' = [t \in Tenants |-> IF tenant[t].owner # req[c].u THEN tenant[t] ELSE x(t)]
    BY <1>3, Zenon DEF CommitDeleteUser
  <2>2. ASSUME NEW t \in Tenants
        PROVE  /\ x(t) \in TenantRow /\ x(t).status = tenant[t].status /\ x(t).gone = tenant[t].gone
               /\ x(t).settings = tenant[t].settings /\ x(t).owner = Nobody /\ x(t).orphan
    BY <1>0 DEF TenantRow
  <2> HIDE DEF x
  <2>3. tenant' \in [Tenants -> TenantRow]
    BY <1>0, <2>1, <2>2
  <2>4. ASSUME NEW t \in Tenants PROVE TenantMove(c, t)
    BY <1>3, <2>1, <2>2 DEF TenantMove
  <2> QED
    BY <2>3, <2>4
<1>4. ASSUME NEW u \in scene.about, NEW t \in Tenants, BeginOnboard(c, u, t) PROVE Goal
  <2> DEFINE x == [NoTenant EXCEPT !.status = "PENDING"]
  <2>1. tenant' = [tenant EXCEPT ![t] = x] /\ tenant[t].status = "none" /\ x \in TenantRow
    BY <1>4, PendingIs DEF BeginOnboard
  <2>2. tenant'[t] = x => TenantMove(c, t)
    BY <1>4, <2>1 DEF TenantMove
  <2> HIDE DEF x, Goal
  <2> QED
    BY <1>2, <2>1, <2>2
<1>5. CASE MakeSettings(c)
  <2> DEFINE x == [tenant[t0] EXCEPT !.settings = TRUE]
  <2>1. t0 \in Tenants /\ tenant' = [tenant EXCEPT ![t0] = x]
    BY <1>0, <1>5 DEF MakeSettings, At, ReqOK, OfMember
  <2>2. /\ x \in TenantRow /\ x.status = tenant[t0].status /\ x.gone = tenant[t0].gone /\ x.settings
        /\ x.owner = tenant[t0].owner /\ x.orphan = tenant[t0].orphan
    BY <1>0, <2>1 DEF TenantRow
  <2> HIDE DEF x, Goal
  <2>3. tenant'[t0] = x => TenantMove(c, t0)
    BY <1>5, <2>2 DEF TenantMove
  <2> QED
    BY <1>2, <2>1, <2>2, <2>3
<1>6. CASE NameOwner(c)
  <2> DEFINE x == [tenant[t0] EXCEPT !.owner = req[c].u]
  <2>1. t0 \in Tenants /\ req[c].u \in Users /\ tenant' = [tenant EXCEPT ![t0] = x]
    BY <1>0, <1>6 DEF NameOwner, At, ReqOK, OfMember
  <2>2. /\ x \in TenantRow /\ x.status = tenant[t0].status /\ x.gone = tenant[t0].gone
        /\ x.settings = tenant[t0].settings
        /\ x.owner = req[c].u /\ x.orphan = tenant[t0].orphan
    BY <1>0, <2>1 DEF TenantRow
  <2> HIDE DEF x, Goal
  <2>3. tenant'[t0] = x => TenantMove(c, t0)
    BY <1>6, <2>2 DEF TenantMove
  <2> QED
    BY <1>2, <2>1, <2>2, <2>3
<1>7. CASE Undo(c)
  <2> DEFINE x == [tenant[t0] EXCEPT !.settings = FALSE]
  <2>1. t0 \in Tenants
    BY <1>0, <1>7 DEF Undo, ReqOK, OfMember
  <2>2. \/ tenant' = tenant
        \/ req[c].at = "undo_settings" /\ tenant' = [tenant EXCEPT ![t0] = x]
        \/ req[c].at = "undo_tenant" /\ ~Referenced(t0) /\ tenant' = [tenant EXCEPT ![t0] = NoTenant]
    BY <1>7 DEF Undo
  <2>3. /\ x \in TenantRow /\ x.status = tenant[t0].status /\ x.gone = tenant[t0].gone /\ ~x.settings
        /\ x.owner = tenant[t0].owner /\ x.orphan = tenant[t0].orphan
    BY <1>0, <2>1 DEF TenantRow
  <2> HIDE DEF x, Goal
  <2>4. req[c].at = "undo_settings" /\ tenant'[t0] = x => TenantMove(c, t0)
    BY <1>7, <2>3 DEF TenantMove
  <2>5. req[c].at = "undo_tenant" /\ ~Referenced(t0) /\ tenant'[t0] = NoTenant => TenantMove(c, t0)
    BY <1>7 DEF TenantMove
  <2> QED
    BY <1>1, <1>2, <2>1, <2>2, <2>3, <2>4, <2>5, NoTenantIs
<1>8. CASE SetTenantStatus(c)
  <2> DEFINE x == [tenant[t0] EXCEPT !.status = req[c].how]
  <2>1. \/ tenant' = tenant
        \/ /\ tenant' = [tenant EXCEPT ![t0] = x] /\ tenant[t0].status # "none"
           /\ req[c].how = "ACTIVE" \/ Goes(c, "kick")
    BY <1>8 DEF SetTenantStatus
  <2>2. CASE t0 \in Tenants /\ tenant' # tenant
    <3>1. req[c].how \in {"ACTIVE", "SUSPENDED", "CANCELLED"}
      BY <1>0, <1>8 DEF SetTenantStatus, At, ReqOK
    <3>2. /\ x \in TenantRow /\ x.status = req[c].how /\ x.gone = tenant[t0].gone
          /\ x.settings = tenant[t0].settings
          /\ x.owner = tenant[t0].owner /\ x.orphan = tenant[t0].orphan
      BY <1>0, <2>2, <3>1 DEF TenantRow
    <3> HIDE DEF x, Goal
    <3>3. tenant'[t0] = x => TenantMove(c, t0)
      BY <1>8, <2>1, <2>2, <3>2 DEF TenantMove
    <3> QED
      BY <1>2, <2>1, <2>2, <3>2, <3>3
  <2>3. CASE t0 \notin Tenants
    BY <1>0, <1>1, <2>1, <2>3
  <2> QED
    BY <1>1, <2>2, <2>3
<1>9. ASSUME NEW t \in Tenants, DeleteTenant(c, t) PROVE Goal
  <2> DEFINE x == [tenant[t] EXCEPT !.gone = TRUE]
  <2>1. tenant' = [tenant EXCEPT ![t] = x] /\ tenant[t].status # "none"
    BY <1>9 DEF DeleteTenant
  <2>2. /\ x \in TenantRow /\ x.status = tenant[t].status /\ x.gone
        /\ x.settings = tenant[t].settings
        /\ x.owner = tenant[t].owner /\ x.orphan = tenant[t].orphan
    BY <1>0 DEF TenantRow
  <2> HIDE DEF x, Goal
  <2>3. tenant'[t] = x => TenantMove(c, t)
    BY <1>9, <2>1, <2>2 DEF TenantMove
  <2> QED
    BY <1>2, <2>1, <2>2, <2>3
<1>10. ASSUME NEW u \in scene.about, NEW t \in Tenants, UpdateTenant(c, t, u) PROVE Goal
  <2> DEFINE x == [tenant[t] EXCEPT !.owner = u, !.settings = TRUE]
  <2>1. tenant' = [tenant EXCEPT ![t] = x] /\ tenant[t].status # "none"
    BY <1>0, <1>10 DEF UpdateTenant
  <2>2. /\ x \in TenantRow /\ x.status = tenant[t].status /\ x.gone = tenant[t].gone
        /\ x.settings /\ x.owner \in Users /\ x.orphan = tenant[t].orphan
    BY <1>0 DEF TenantRow
  <2> HIDE DEF x, Goal
  <2>3. tenant'[t] = x => TenantMove(c, t)
    BY <2>1, <2>2 DEF TenantMove
  <2> QED
    BY <1>2, <2>1, <2>2, <2>3
<1> HIDE DEF Goal
<1> QED
  BY <1>3, <1>4, <1>5, <1>6, <1>7, <1>8, <1>9, <1>10 DEF TenantStep

-----------------------------------------------------------------------------
(* Sessions and tokens: a row is made once, is aged or deleted, and keeps  *)
(* what it says otherwise (a workspace that goes leaves them without one). *)
SameRow(y, x) == /\ y.kind = x.kind /\ y.user = x.user /\ y.pw = x.pw /\ y.late = x.late /\ y.from = x.from
Aged(y, x) == /\ SameRow(y, x) /\ y.tenant = x.tenant
              /\ \/ y.state \in {x.state, "gone"}
                 \/ x.state = "pending" /\ y.state = "open"
                 \/ x.state = "open" /\ y.state = "expired"

Created(c, y) == /\ y.kind = "login" /\ y.state = "pending" /\ y.user = req[c].u /\ y.tenant = req[c].t
                 /\ y.from \in 0..MaxSessions /\ y.pw = req[c].pw
                 /\ y.late = (~Entitled(req[c].u, req[c].t) \/ req[c].pw < revoked[req[c].u])
Issued(c, y) ==
    /\ y.kind \in {"reset", "invite", "verify"} /\ y.state = "open" /\ y.user \in Users
    /\ y.from = 0 /\ y.pw = 0 /\ y.late = FALSE
    /\ \/ y.tenant = Nobody
       \/ SendInviteToken(c) /\ ~Stray(c) /\ y.tenant = req[c].t
       \/ y.tenant \in Tenants /\ member[y.user][y.tenant] # "none"

RowMove(c, i) ==
    LET x == session[i]
        y == session'[i]
    IN \/ Aged(y, x)
       \/ CreateSession(c) /\ ~Stray(c) /\ x.kind = "none" /\ Created(c, y)
       \/ x.kind = "none" /\ Issued(c, y)
       \/ /\ Undo(c) /\ req[c].at = "undo_tenant" /\ ~Referenced(req[c].t)
          /\ SameRow(y, x) /\ y.state = x.state
          /\ y.tenant = IF x.tenant = req[c].t THEN Nobody ELSE x.tenant

LEMMA WithoutTo ==
    ASSUME Shapes, NEW S, session' = Without(S), NEW i \in Rows
    PROVE  /\ Aged(session'[i], session[i])
           /\ session'[i].state = IF i \in S THEN "gone" ELSE session[i].state
<1> DEFINE gone == [session[i] EXCEPT !.state = "gone"]
<1>1. session'[i] = IF i \in S THEN gone ELSE session[i]
  BY DEF Without
<1>2. SameRow(gone, session[i]) /\ gone.tenant = session[i].tenant /\ gone.state = "gone"
  BY DEF Shapes, IsRow, SameRow
<1> HIDE DEF gone
<1> QED
  BY <1>1, <1>2 DEF Aged, SameRow

LEMMA IssueTo ==
    ASSUME Shapes, Spare, NEW kind \in {"reset", "invite", "verify"}, NEW u \in Users, NEW t,
           Issue(kind, u, t), NEW i \in Rows
    PROVE  \/ session'[i] = session[i]
           \/ /\ session[i].kind = "none" /\ session'[i].kind = kind /\ session'[i].state = "open"
              /\ session'[i].user = u /\ session'[i].tenant = t
              /\ session'[i].from = 0 /\ session'[i].pw = 0 /\ session'[i].late = FALSE
<1> DEFINE row == [NoRow EXCEPT !.kind = kind, !.state = "open", !.user = u, !.tenant = t]
<1>1. session' = [session EXCEPT ![NewRow] = row]
  BY Zenon DEF Issue
<1>2. /\ row.kind = kind /\ row.state = "open" /\ row.user = u /\ row.tenant = t
      /\ row.from = 0 /\ row.pw = 0 /\ row.late = FALSE
  BY DEF NoRow
<1>3. NewRow \in Rows /\ session[NewRow].kind = "none"
  BY NewRowUnused DEF Unused
<1> HIDE DEF row
<1>4. session'[i] = IF i = NewRow THEN row ELSE session[i]
  BY <1>1, <1>3 DEF Shapes
<1> QED
  BY <1>2, <1>3, <1>4

LEMMA SameAged == ASSUME NEW x PROVE Aged(x, x)
BY DEF Aged, SameRow

LEMMA RowsTo ==
    ASSUME TypeInv, NEW c \in Clients, SessionStep(c), NEW i \in Rows
    PROVE  RowMove(c, i)
<1> DEFINE Goal == RowMove(c, i)
<1> SUFFICES Goal
  OBVIOUS
<1>0. /\ Shapes /\ ReqOK(req[c], scene.does[c]) /\ scene.about \subseteq Users
  BY SceneTyped DEF TypeInv, AuthInv, Tables
<1>1. ASSUME NEW S, session' = Without(S) PROVE Goal
  BY <1>0, <1>1, WithoutTo DEF RowMove
<1>2. ASSUME session' = session PROVE Goal
  BY <1>2, SameAged DEF RowMove
<1>3. ASSUME Spare, NEW kind \in {"reset", "invite", "verify"}, NEW u \in Users, NEW t, Issue(kind, u, t),
             \/ t = Nobody
             \/ SendInviteToken(c) /\ ~Stray(c) /\ t = req[c].t
             \/ t \in Tenants /\ member[u][t] # "none"
      PROVE  Goal
  <2>0. \/ session'[i] = session[i]
        \/ /\ session[i].kind = "none" /\ session'[i].kind = kind /\ session'[i].state = "open"
           /\ session'[i].user = u /\ session'[i].tenant = t
           /\ session'[i].from = 0 /\ session'[i].pw = 0 /\ session'[i].late = FALSE
    <3> HIDE DEF Goal
    <3> QED
      BY <1>0, <1>3, IssueTo
  <2>1. CASE session'[i] = session[i]
    BY <2>1, SameAged DEF RowMove
  <2>2. CASE session'[i] # session[i]
    <3> DEFINE y == session'[i]
    <3>1. /\ session[i].kind = "none" /\ y.kind = kind /\ y.state = "open" /\ y.user = u /\ y.tenant = t
          /\ y.from = 0 /\ y.pw = 0 /\ y.late = FALSE
      BY <2>0, <2>2
    <3>2. Issued(c, y)
      BY <1>3, <3>1 DEF Issued
    <3> QED
      BY <3>1, <3>2 DEF RowMove
  <2> QED
    BY <2>1, <2>2
<1>4. CASE CreateSession(c)
  <2>0. CASE Stray(c)
    BY <1>2, <1>4, <2>0 DEF CreateSession
  <2> SUFFICES ASSUME ~Stray(c) PROVE Goal
    BY <2>0
  <2> DEFINE from == IF req[c].op = "refresh" THEN req[c].s ELSE 0
             late == ~Entitled(req[c].u, req[c].t) \/ req[c].pw < revoked[req[c].u]
             row == [kind |-> "login", state |-> "pending", user |-> req[c].u, tenant |-> req[c].t,
                     from |-> from, pw |-> req[c].pw, late |-> late]
  <2>1. Spare /\ session' = [session EXCEPT ![NewRow] = row]
    BY <1>4, Zenon DEF CreateSession
  <2>2. NewRow \in Rows /\ session[NewRow].kind = "none"
    BY <2>1, NewRowUnused DEF Unused
  <2>3. from \in 0..MaxSessions
    BY <1>0, AccountsAssumption DEF ReqOK
  <2> HIDE DEF from, late
  <2>4. Created(c, row)
    BY <2>3 DEF Created, late
  <2> HIDE DEF row
  <2>5. session'[i] = IF i = NewRow THEN row ELSE session[i]
    BY <1>0, <2>1, <2>2 DEF Shapes
  <2> QED
    BY <1>4, <2>2, <2>4, <2>5, SameAged DEF RowMove
<1>5. CASE SealSession(c)
  <2>1. CASE session' = session
    BY <1>2, <2>1
  <2>2. CASE session' # session
    <3> DEFINE k == req[c].s
               open == [session[k] EXCEPT !.state = "open"]
    <3>1. session[k].state = "pending" /\ session' = [session EXCEPT ![k] = open]
      BY <1>5, <2>2 DEF SealSession
    <3>2. CASE i = k
      <4>1. session'[i] = open
        BY <1>0, <3>1, <3>2 DEF Shapes
      <4>2. Aged(open, session[k])
        BY <1>0, <3>1, <3>2 DEF Shapes, IsRow, Aged, SameRow
      <4> HIDE DEF open
      <4> QED
        BY <3>2, <4>1, <4>2 DEF RowMove
    <3>3. CASE i # k
      <4>1. session'[i] = session[i]
        BY <1>0, <3>1, <3>3 DEF Shapes
      <4> QED
        BY <4>1, SameAged DEF RowMove
    <3> QED
      BY <3>2, <3>3
  <2> QED
    BY <2>1, <2>2
<1> HIDE DEF Goal
<1>6. CASE Rotate(c) \/ Sweep(c) \/ CommitChange(c) \/ ClearInvites(c) \/ Kick(c) \/ CommitRemove(c)
           \/ CommitDeleteUser(c)
  <2>1. \/ session' = session
        \/ session' = Without({req[c].s})
        \/ session' = Without(SessionsOf(req[c].u))
        \/ session' = Without({k \in SessionsOf(req[c].u) :
                                  session[k].tenant = req[c].t /\ session[k].kind = "invite"})
        \/ session' = Without({k \in SessionsIn(req[c].t) : req[c].u \in {session[k].user, Nobody}})
        \/ session' = Without(SessionsOf(req[c].u) \cap SessionsIn(req[c].t))
    BY <1>6 DEF Rotate, Sweep, CommitChange, ClearInvites, Kick, CommitRemove, CommitDeleteUser
  <2> QED
    BY <1>1, <1>2, <2>1
<1>7. CASE SendInviteToken(c)
  <2>1. req[c].u \in Users
    BY <1>0, <1>7 DEF SendInviteToken, At, ReqOK, OfMember
  <2>2. session' = session \/ (Spare /\ Issue("invite", req[c].u, req[c].t) /\ ~Stray(c))
    BY <1>7 DEF SendInviteToken
  <2> QED
    BY <1>2, <1>3, <1>7, <2>1, <2>2
<1>8. CASE Undo(c)
  <2>1. CASE session' = session
    BY <1>2, <2>1
  <2>2. CASE session' # session
    <3> DEFINE t == req[c].t
               new == [session[i] EXCEPT !.tenant = IF @ = t THEN Nobody ELSE @]
    <3>1. /\ req[c].at = "undo_tenant" /\ ~Referenced(t)
          /\ session' = [k \in Rows |-> [session[k] EXCEPT !.tenant = IF @ = t THEN Nobody ELSE @]]
      BY <1>8, <2>2 DEF Undo
    <3>2. session'[i] = new
      BY <3>1
    <3>3. SameRow(new, session[i]) /\ new.state = session[i].state
          /\ new.tenant = IF session[i].tenant = t THEN Nobody ELSE session[i].tenant
      BY <1>0 DEF Shapes, IsRow, SameRow
    <3> HIDE DEF new
    <3> QED
      BY <1>8, <3>1, <3>2, <3>3 DEF RowMove, Goal
  <2> QED
    BY <2>1, <2>2
<1>9. ASSUME NEW t \in Tenants, DeleteTenant(c, t) PROVE Goal
  BY <1>1, <1>9 DEF DeleteTenant
<1>10. ASSUME NEW k \in Rows, BeginRefresh(c, k) \/ Logout(c, k) PROVE Goal
  <2>1. \/ session' = session \/ session' = Without({k})
        \/ session' = Without(SessionsOf(session[k].user))
    BY <1>10 DEF BeginRefresh, Logout
  <2> QED
    BY <1>1, <1>2, <2>1
<1>11. ASSUME NEW u \in scene.about, ForgotPassword(c, u) PROVE Goal
  <2>1. Spare /\ Issue("reset", u, Nobody) /\ u \in Users /\ "reset" \in {"reset", "invite", "verify"}
    BY <1>0, <1>11 DEF ForgotPassword
  <2> QED
    BY <1>3, <2>1
<1>12. ASSUME NEW u \in scene.about, SendVerification(c, u) PROVE Goal
  <2>1. PICK t : /\ Spare /\ Issue("verify", u, t)
                 /\ t = Nobody \/ (t \in Tenants /\ member[u][t] \in {"ACTIVE", "INVITED"})
    BY <1>12 DEF SendVerification
  <2>2. "verify" \in {"reset", "invite", "verify"} /\ u \in Users
    BY <1>0
  <2>3. t \in Tenants => member[u][t] # "none"
    BY <2>1, NobodyApart
  <2> QED
    BY <1>3, <2>1, <2>2, <2>3
<1> QED
  BY <1>4, <1>5, <1>6, <1>7, <1>8, <1>9, <1>10, <1>11, <1>12 DEF SessionStep

LEMMA RowOKStep ==
    ASSUME TypeInv, Shapes', NEW c \in Clients, NEW i \in Rows, RowMove(c, i)
    PROVE  RowOK(session'[i])
<1> DEFINE x == session[i]
           y == session'[i]
<1> SUFFICES RowOK(y)
  OBVIOUS
<1>0. /\ IsRow(y) /\ x \in SessionRow /\ RowOK(x) /\ ReqOK(req[c], scene.does[c])
      /\ MaxSessions \in Nat /\ MaxPassword \in Nat
  BY AccountsAssumption DEF TypeInv, Tables, Shapes
<1> HIDE DEF x, y
<1>1. CASE Aged(y, x)
  BY <1>0, <1>1 DEF RowOK, SessionRow, IsRow, Aged, SameRow
<1>2. CASE CreateSession(c) /\ Created(c, y)
  <2>1. /\ req[c].u \in Users /\ req[c].t \in Tenants \cup {Nobody} /\ req[c].pw \in 0..MaxPassword
    BY <1>0, <1>2 DEF CreateSession, At, ReqOK
  <2>2. y.late \in BOOLEAN
    BY <1>2 DEF Created
  <2>3. /\ y.kind = "login" /\ y.state = "pending" /\ y.user \in Users /\ y.tenant \in Tenants \cup {Nobody}
        /\ y.from \in 0..MaxSessions /\ y.pw \in 0..MaxPassword
    BY <1>2, <2>1 DEF Created
  <2> QED
    BY <1>0, <2>2, <2>3 DEF RowOK, SessionRow, IsRow
<1>3. CASE Issued(c, y)
  <2>1. req[c].t \in Tenants \cup {Nobody}
    BY <1>0 DEF ReqOK
  <2>2. /\ y.kind \in {"reset", "invite", "verify"} /\ y.state = "open" /\ y.user \in Users
        /\ y.tenant \in Tenants \cup {Nobody} /\ y.from = 0 /\ y.pw = 0 /\ y.late = FALSE
    BY <1>3, <2>1 DEF Issued
  <2>3. 0 \in 0..MaxSessions /\ 0 \in 0..MaxPassword
    BY AccountsAssumption
  <2> QED
    BY <1>0, <2>2, <2>3 DEF RowOK, SessionRow, IsRow
<1>4. CASE SameRow(y, x) /\ y.state = x.state /\ y.tenant \in {x.tenant, Nobody}
  BY <1>0, <1>4 DEF RowOK, SessionRow, IsRow, SameRow
<1> QED
  BY <1>1, <1>2, <1>3, <1>4 DEF RowMove, x, y

LEMMA RowOKAged ==
    ASSUME TypeInv, Shapes', NEW i \in Rows, Aged(session'[i], session[i])
    PROVE  RowOK(session'[i])
<1> DEFINE x == session[i]
           y == session'[i]
<1>1. IsRow(y) /\ x \in SessionRow /\ RowOK(x)
  BY DEF TypeInv, Tables, Shapes
<1>2. Aged(y, x)
  OBVIOUS
<1> HIDE DEF x, y
<1>3. RowOK(y)
  BY <1>1, <1>2 DEF RowOK, SessionRow, IsRow, Aged, SameRow
<1> QED
  BY <1>3 DEF y

LEMMA RevokedTo ==
    ASSUME TypeInv, NEW c \in Clients, RevokeStep(c)
    PROVE  /\ revoked' \in [Users -> 0..MaxPassword]
           /\ \A u \in Users : \/ revoked'[u] = revoked[u]
                               \/ u = req[c].u /\ session' = Without(SessionsOf(u))
<1>0. /\ revoked \in [Users -> 0..MaxPassword] /\ ReqOK(req[c], scene.does[c])
      /\ scene.words \in 0..MaxPassword /\ MaxPassword \in Nat
  BY SceneTyped, AccountsAssumption DEF TypeInv, Tables
<1>1. CASE revoked' = revoked
  BY <1>0, <1>1
<1>2. CASE revoked' # revoked
  <2>1. PICK x : revoked' = [revoked EXCEPT ![req[c].u] = x] /\ x \in 0..MaxPassword
    <3>1. CASE Sweep(c)
      <4>1. revoked' = [revoked EXCEPT ![req[c].u] = IF req[c].pw > @ THEN req[c].pw ELSE @]
        BY <1>2, <3>1 DEF Sweep
      <4>2. req[c].u \in Users /\ req[c].pw \in 0..MaxPassword
        BY <1>0, <3>1 DEF Sweep, At, ReqOK
      <4> QED
        BY <1>0, <4>1, <4>2
    <3>2. CASE CommitChange(c)
      <4>1. /\ revoked' = [revoked EXCEPT ![req[c].u] = user[req[c].u].password + 1]
            /\ user[req[c].u].password < scene.words /\ req[c].u \in Users
        BY <1>0, <3>2 DEF CommitChange, At, ReqOK
      <4>2. user[req[c].u].password + 1 \in 0..MaxPassword
        BY <1>0, <4>1, PasswordTyped
      <4> QED
        BY <4>1, <4>2
    <3> QED
      BY <3>1, <3>2 DEF RevokeStep
  <2>2. session' = Without(SessionsOf(req[c].u))
    BY <1>2 DEF RevokeStep, Sweep, CommitChange
  <2> QED
    BY <1>0, <2>1, <2>2
<1> QED
  BY <1>1, <1>2

OverrideMove(c, t) ==
    \/ override'[t] = override[t]
    \/ SetFlag(c) /\ tenant[t].status # "none"
    \/ ApplyFlags(c) /\ t = req[c].t
    \/ Undo(c) /\ t = req[c].t /\ req[c].at = "undo_flags" /\ override'[t] = "none"

LEMMA OverrideTo ==
    ASSUME TypeInv, NEW c \in Clients, OverrideStep(c)
    PROVE  override' \in [Tenants -> Overrides] /\ \A t \in Tenants : OverrideMove(c, t)
<1>0. override \in [Tenants -> Overrides]
  BY DEF TypeInv, Tables
<1>1. CASE SetFlag(c)
  <2>1. \/ override' = override
        \/ \E t \in Tenants, v \in Overrides : tenant[t].status # "none" /\ override' = [override EXCEPT ![t] = v]
    BY <1>1 DEF SetFlag
  <2> QED
    BY <1>0, <1>1, <2>1 DEF OverrideMove
<1>2. CASE ApplyFlags(c)
  <2>1. \/ override' = override
        \/ \E v \in {"on", "off"} : override' = [override EXCEPT ![req[c].t] = v]
    BY <1>2 DEF ApplyFlags
  <2> QED
    BY <1>0, <1>2, <2>1 DEF OverrideMove, Overrides
<1>3. CASE Undo(c)
  <2>1. \/ override' = override
        \/ req[c].at = "undo_flags" /\ override' = [override EXCEPT ![req[c].t] = "none"]
    BY <1>3 DEF Undo
  <2> QED
    BY <1>0, <1>3, <2>1 DEF OverrideMove, Overrides
<1> QED
  BY <1>1, <1>2, <1>3 DEF OverrideStep

LEMMA GrantsTo ==
    ASSUME TypeInv, NEW c \in Clients, GrantStep(c)
    PROVE  grants' \in [Roles -> SUBSET Permissions] /\ made' \subseteq CustomRoles
<1>0. /\ grants \in [Roles -> SUBSET Permissions] /\ made \subseteq CustomRoles
      /\ ReqOK(req[c], scene.does[c])
  BY DEF TypeInv, Tables
<1>1. CASE CommitGrant(c)
  <2>1. req[c].arg \subseteq Permissions
    BY <1>0, <1>1 DEF CommitGrant, At, ReqOK
  <2> DEFINE x == req[c].how
             S == IF Exists(x) THEN (grants[x] \ req[c].off) \cup req[c].arg ELSE grants[x]
  <2>2. grants' = [grants EXCEPT ![x] = S]
    BY <1>1 DEF CommitGrant
  <2>3. x \in Roles => S \subseteq Permissions
    BY <1>0, <2>1
  <2> HIDE DEF S
  <2> QED
    BY <1>0, <1>1, <2>2, <2>3 DEF CommitGrant
<1>2. CASE CommitDeleteRole(c)
  BY <1>0, <1>2 DEF CommitDeleteRole
<1>3. ASSUME NEW r \in CustomRoles, NEW t \in Tenants, CreateRole(c, r, t)
      PROVE  grants' \in [Roles -> SUBSET Permissions] /\ made' \subseteq CustomRoles
  BY <1>0, <1>3 DEF CreateRole
<1>4. ASSUME NEW r \in Roles, NEW t \in Tenants, NEW p \in Permissions, RemovePermission(c, t, r, p)
      PROVE  grants' \in [Roles -> SUBSET Permissions] /\ made' \subseteq CustomRoles
  <2>1. grants' = [grants EXCEPT ![r] = grants[r] \ {p}] /\ made' = made
    BY <1>0, <1>4 DEF RemovePermission
  <2> QED
    BY <1>0, <2>1
<1> QED
  BY <1>1, <1>2, <1>3, <1>4 DEF GrantStep

-----------------------------------------------------------------------------
(* Types are kept by every step.                                           *)
Acts(c) == \/ SignInStep(c) /\ UNCHANGED officeVars
           \/ OfficeStep(c)

LEMMA ActsTables ==
    ASSUME TypeInv, Shapes', NEW c \in Clients, Acts(c)
    PROVE  Tables'
<1>1. Written(c)
  BY SignInWrites, OfficeWrites DEF Acts
<1>2. user' \in [Users -> UserRow]
  BY <1>1, UserTo DEF Written, TypeInv, Tables
<1>3. member' \in [Users -> [Tenants -> MemberStatus]]
  BY <1>1, MemberTo DEF Written, TypeInv, Tables
<1>4. tenant' \in [Tenants -> TenantRow]
  BY <1>1, TenantTo DEF Written, TypeInv, Tables
<1>5. roles' \in [Users -> [Tenants -> SUBSET Roles]]
  BY <1>1, RolesTo DEF Written, TypeInv, Tables
<1>6. revoked' \in [Users -> 0..MaxPassword]
  BY <1>1, RevokedTo DEF Written, TypeInv, Tables
<1>7. override' \in [Tenants -> Overrides]
  BY <1>1, OverrideTo DEF Written, TypeInv, Tables
<1>8. made' \subseteq CustomRoles
  <2>1. MadeStep(c) => GrantStep(c)
    BY DEF MadeStep, GrantStep
  <2> QED
    BY <1>1, <2>1, GrantsTo DEF Written, TypeInv, Tables
<1>9. grants' \in [Roles -> SUBSET Permissions]
  <2>1. GrantStep(c) \/ grants' = grants
    BY OnlyGrantSteps DEF Acts, officeVars
  <2> QED
    BY <2>1, GrantsTo DEF TypeInv, Tables
<1>10. ASSUME NEW i \in Rows PROVE RowOK(session'[i])
  <2>1. RowMove(c, i)
    BY <1>1, RowsTo, SameAged DEF Written, RowMove
  <2> QED
    BY <2>1, RowOKStep
<1>11. session' \in [Rows -> SessionRow]
  BY <1>10 DEF Shapes, RowOK
<1>12. scene' = scene
  BY <1>1 DEF Written
<1> QED
  BY <1>2, <1>3, <1>4, <1>5, <1>6, <1>7, <1>8, <1>9, <1>10, <1>11, <1>12 DEF Tables, TypeInv

LEMMA ActsReqs ==
    ASSUME TypeInv, NEW c \in Clients, Acts(c)
    PROVE  \A d \in Clients : ReqOK(req'[d], scene'.does[d])
<1>1. ReqOK(req'[c], scene.does[c]) /\ Rest(c) /\ scene' = scene
  BY SignInReqs, OfficeReqs, SignInWrites, OfficeWrites DEF Acts, Written
<1> QED
  BY <1>1 DEF Rest, TypeInv

LEMMA TimeTables ==
    ASSUME TypeInv, Shapes', TimeStep, UNCHANGED officeVars
    PROVE  /\ Tables' /\ req' = req /\ scene' = scene /\ user' = user /\ member' = member /\ tenant' = tenant
           /\ revoked' = revoked /\ cut' = cut /\ \A i \in Rows : Aged(session'[i], session[i])
<1>1. /\ req' = req /\ scene' = scene /\ user' = user /\ member' = member /\ tenant' = tenant
      /\ revoked' = revoked /\ cut' = cut /\ UNCHANGED officeVars
  BY DEF TimeStep, WindowPasses, Expire
<1>2. ASSUME NEW i \in Rows PROVE Aged(session'[i], session[i])
  <2>1. CASE session' = session
    BY <2>1, SameAged
  <2>2. ASSUME NEW k \in Rows, Expire(k) PROVE Aged(session'[i], session[i])
    <3> DEFINE late == [session[k] EXCEPT !.state = "expired"]
    <3>1. session' = [session EXCEPT ![k] = late] /\ session[k].state = "open"
      BY <2>2 DEF Expire
    <3>2. Aged(late, session[k])
      BY <3>1 DEF TypeInv, AuthInv, Shapes, IsRow, Aged, SameRow
    <3> HIDE DEF late
    <3>3. session'[i] = IF i = k THEN late ELSE session[i]
      BY <3>1 DEF TypeInv, AuthInv, Shapes
    <3> QED
      BY <3>2, <3>3, SameAged
  <2> QED
    BY <2>1, <2>2 DEF TimeStep, WindowPasses
<1>3. ASSUME NEW i \in Rows PROVE RowOK(session'[i])
  BY <1>2, RowOKAged
<1>4. session' \in [Rows -> SessionRow]
  BY <1>3 DEF Shapes, RowOK
<1> QED
  BY <1>1, <1>2, <1>3, <1>4 DEF Tables, TypeInv, officeVars

LEMMA TypeNext == TypeInv /\ [Next]_vars => TypeInv'
<1> SUFFICES ASSUME TypeInv, [Next]_vars PROVE TypeInv'
  OBVIOUS
<1>1. AuthInv'
  BY AuthNext DEF TypeInv
<1>2. Shapes'
  BY <1>1 DEF AuthInv
<1>3. ASSUME NEW c \in Clients, Acts(c) PROVE TypeInv'
  BY <1>1, <1>2, <1>3, ActsTables, ActsReqs DEF TypeInv
<1>4. CASE TimeStep /\ UNCHANGED officeVars
  BY <1>1, <1>2, <1>4, TimeTables DEF TypeInv
<1>5. CASE UNCHANGED vars
  BY <1>1, <1>5 DEF vars, officeVars, TypeInv, Tables
<1> QED
  BY <1>3, <1>4, <1>5 DEF Next, Acts

LEMMA TypeInit == Init => TypeInv
<1> SUFFICES ASSUME Init PROVE TypeInv
  OBVIOUS
<1>1. PICK s \in Scenes : scene = s.play /\ user = s.user /\ member = s.member /\ tenant = s.tenant
                          /\ roles = s.roles
  BY DEF Init
<1>2. /\ session = [i \in Rows |-> NoRow] /\ revoked = [u \in Users |-> 0]
      /\ req = [c \in Clients |-> Idle] /\ made = {}
      /\ grants = [r \in Roles |-> IF r \in SystemRoles THEN {StaffPermission} \cup PlatformOnly ELSE {}]
      /\ override = [t \in Tenants |-> "none"]
  BY DEF Init, AccountsInit
<1>3. NoRow \in SessionRow /\ RowOK(NoRow)
  BY AccountsAssumption DEF NoRow, SessionRow, RowOK
<1>4. roles \in [Users -> [Tenants -> SUBSET Roles]]
  BY <1>1, StartsAssumption DEF Roles
<1>5. grants \in [Roles -> SUBSET Permissions]
  BY <1>2, StartsAssumption
<1>6. user \in [Users -> UserRow] /\ member \in [Users -> [Tenants -> MemberStatus]]
      /\ tenant \in [Tenants -> TenantRow]
  BY <1>1, StartsAssumption
<1>7. Tables
  BY <1>1, <1>2, <1>3, <1>4, <1>5, <1>6, AccountsAssumption DEF Tables, Overrides
<1>8. \A c \in Clients : ReqOK(req[c], scene.does[c])
  BY <1>2, IdleOK
<1> QED
  BY <1>7, <1>8, AuthInit DEF TypeInv

-----------------------------------------------------------------------------
(* Signing out.  What a session that stands relies on is kept by every     *)
(* step, or the step deletes the session.                                  *)
Kicked(u, t) == \E c \in Clients : req[c].at = "kick" /\ req[c].t = t /\ req[c].u \in {u, Nobody}
Covered(u, t) == Entitled(u, t) \/ {<<u, t>>, <<Nobody, t>>} \cap cut # {} \/ Kicked(u, t)
Standing(x) == x.kind = "login" /\ x.state \in {"pending", "open"} /\ ~x.late
Fine(i) == Standing(session[i]) => /\ session[i].pw >= revoked[session[i].user]
                                   /\ Covered(session[i].user, session[i].tenant)
SignInv == \A i \in Rows : IF SigningIn(scene) THEN Fine(i) ELSE session[i].kind # "login"

(* Steps that delete the sessions of a user in a workspace.                *)
Expels(c, u, t) ==
    \/ Kick(c) /\ req[c].t = t /\ req[c].u \in {u, Nobody}
    \/ CommitRemove(c) /\ req[c].u = u /\ req[c].t = t /\ member[u][t] # "none"
    \/ CommitDeleteUser(c) /\ req[c].u = u
    \/ t \in Tenants /\ DeleteTenant(c, t)

LEMMA Expelled ==
    ASSUME TypeInv, NEW c \in Clients, NEW i \in Rows, Expels(c, session[i].user, session[i].tenant)
    PROVE  session'[i].state = "gone"
<1>0. Shapes
  BY DEF TypeInv, AuthInv
<1>1. PICK S : i \in S /\ session' = Without(S)
  BY DEF Expels, Kick, CommitRemove, CommitDeleteUser, DeleteTenant, SessionsOf, SessionsIn
<1> QED
  BY <1>0, <1>1, WithoutTo

LEMMA OnlyKicks ==
    ASSUME TypeInv, NEW c \in Clients, Acts(c), req[c].at = "kick" PROVE Kick(c) \/ Dies(c)
<1>0. req[c] # Idle
  BY IdleIs
<1>1. CASE SignInStep(c)
  BY <1>0, <1>1 DEF SignInStep, BeginLogin, RecordAttempt, VerifyTotpLogin, SelectTenant, SwitchTenant,
     CreateSession, SealSession, BeginRefresh, Logout, UseToken, Rotate, SetAccount, Join, Sweep, CommitChange,
     ForgotPassword, SendVerification, Totp, BeginChange, May, At
<1>2. CASE OfficeStep(c)
  <2>1. ASSUME NEW op PROVE ~May(c, op)
    BY <1>0 DEF May
  <2>2. ~(\E u \in scene.about, t \in Tenants, rs \in SUBSET Roles :
             BeginInvite(c, u, t, rs) \/ BeginCreate(c, u, t, rs) \/ BeginAssign(c, u, t, rs))
    BY <2>1 DEF BeginInvite, BeginCreate, BeginAssign
  <2>3. ~(Person(c) \/ Enrol(c) \/ Staff(c) \/ ClearInvites(c) \/ SendInviteToken(c))
    BY DEF Person, Enrol, Staff, ClearInvites, SendInviteToken, At
  <2>4. ~(\E u \in scene.about, t \in Tenants :
          \/ BeginResend(c, u, t) \/ BeginRemove(c, u, t) \/ AdminPassword(c, u, t)
          \/ BeginStatus(c, "deactivate", {"INVITED", "ACTIVE"}, "INACTIVE", u, t)
          \/ BeginStatus(c, "reactivate", {"INACTIVE"}, "ACTIVE", u, t)
          \/ BeginOnboard(c, u, t) \/ UpdateTenant(c, t, u)
          \/ \E r \in Roles : RemoveRole(c, u, t, r))
    BY ZenonT(60), <2>1 DEF BeginResend, BeginRemove, AdminPassword, BeginStatus, BeginOnboard, UpdateTenant, RemoveRole
  <2>5. ~(SetMember(c) \/ CommitRemove(c) \/ CommitDeleteUser(c))
    BY DEF SetMember, CommitRemove, CommitDeleteUser, At
  <2>6. ~(\E u \in scene.about : BeginDeleteUser(c, u))
    BY <2>1 DEF BeginDeleteUser
  <2>7. ~(DropRoles(c) \/ AddRoles(c) \/ CommitDeleteRole(c) \/ CommitGrant(c) \/ SetFlag(c))
    BY <2>1 DEF DropRoles, AddRoles, CommitDeleteRole, CommitGrant, SetFlag, At
  <2>8. ~(\E r \in CustomRoles, t \in Tenants : CreateRole(c, r, t) \/ BeginDeleteRole(c, r, t))
    BY <2>1 DEF CreateRole, BeginDeleteRole
  <2>9. ~(\E r \in Roles, t \in Tenants, p \in Permissions : RemovePermission(c, t, r, p))
    BY <2>1 DEF RemovePermission
  <2>10. ~(\E a \in Users, t \in Tenants, r \in Roles, ps \in SUBSET Permissions : BeginGrant(c, a, t, r, ps))
    BY <2>1 DEF BeginGrant
  <2>11. ~(MakeSettings(c) \/ ApplyFlags(c) \/ NameOwner(c) \/ Undo(c))
    BY DEF MakeSettings, ApplyFlags, NameOwner, Undo, At
  <2>12. ~(\E t \in Tenants, s \in {"ACTIVE", "SUSPENDED", "CANCELLED"} : BeginTenantStatus(c, t, s))
    BY <2>1 DEF BeginTenantStatus
  <2>13. ~(SetTenantStatus(c) \/ (\E t \in Tenants : DeleteTenant(c, t)) \/ Breaks(c))
    BY <2>1 DEF SetTenantStatus, DeleteTenant, Breaks, At
  <2> QED
    BY ZenonT(60), <1>2, <2>2, <2>3, <2>4, <2>5, <2>6, <2>7, <2>8, <2>9, <2>10, <2>11, <2>12, <2>13 DEF OfficeStep
<1> QED
  BY <1>1, <1>2 DEF Acts

LEMMA CutGrows ==
    ASSUME TypeInv, NEW c \in Clients, Acts(c)
    PROVE  cut \subseteq cut' /\ (Dies(c) /\ req[c].at = "kick" => <<req[c].u, req[c].t>> \in cut')
<1>1. CutStep(c) \/ cut' = cut
  BY SignInWrites, OfficeWrites DEF Acts, Written
<1>2. Undo(c) => cut \subseteq cut'
  BY DEF Undo
<1>3. Dies(c) => cut \subseteq cut' /\ (req[c].at = "kick" => <<req[c].u, req[c].t>> \in cut')
  BY DEF Dies
<1>4. Undo(c) => req[c].at # "kick"
  BY DEF Undo
<1> QED
  BY <1>1, <1>2, <1>3 DEF CutStep

LEMMA NoInvites ==
    ASSUME SignInsApart, TypeInv, SigningIn(scene), NEW c \in Clients
    PROVE  req[c].op \notin {"resend", "onboard"} /\ (req[c].op = "invite" => req[c].at \notin Invites)
<1>1. scene.does[c] \cap {"invite", "resend", "onboard"} = {}
  BY DEF SignInsApart, Does, TypeInv, Tables
<1>2. ReqOK(req[c], scene.does[c])
  BY DEF TypeInv
<1> QED
  BY <1>1, <1>2 DEF ReqOK, OfMember, Own

LEMMA CoverStays ==
    ASSUME SignInsApart, TypeInv, SigningIn(scene), NEW c \in Clients, Acts(c),
           NEW u \in Users, NEW t \in Tenants \cup {Nobody}, Covered(u, t), ~Expels(c, u, t)
    PROVE  Covered(u, t)'
<1>0. /\ req[c].op \notin {"resend", "onboard"} /\ (req[c].op = "invite" => req[c].at \notin Invites)
      /\ Written(c) /\ cut \subseteq cut' /\ Rest(c) /\ Shapes /\ ReqOK(req[c], scene.does[c])
      /\ Nobody \notin Users /\ Nobody \notin Tenants
  BY NoInvites, SignInWrites, OfficeWrites, CutGrows, SignInReqs, OfficeReqs, AccountsAssumption DEF Acts, TypeInv, AuthInv
<1>1. CASE {<<u, t>>, <<Nobody, t>>} \cap cut # {}
  BY <1>0, <1>1 DEF Covered
<1>2. ASSUME NEW d \in Clients, req[d].at = "kick", req[d].t = t, req[d].u \in {u, Nobody}
      PROVE  Covered(u, t)'
  <2>1. CASE d = c
    <3>1. Dies(c)
      BY <1>2, <2>1, OnlyKicks DEF Expels
    <3>2. <<req[c].u, req[c].t>> \in cut'
      BY <1>2, <2>1, <3>1, CutGrows
    <3> QED
      BY <1>2, <2>1, <3>2 DEF Covered
  <2>2. CASE d # c
    <3>1. req'[d] = req[d]
      BY <1>0, <2>2 DEF Rest
    <3> QED
      BY <1>2, <3>1 DEF Covered, Kicked
  <2> QED
    BY <2>1, <2>2
<1>3. ASSUME Goes(c, "kick"), req[c].t = t, req[c].u \in {u, Nobody} PROVE Covered(u, t)'
  <2>1. req'[c].at = "kick" /\ req'[c].t = t /\ req'[c].u \in {u, Nobody}
    BY <1>0, <1>3, GoesTo DEF SameBut
  <2> QED
    BY <2>1 DEF Covered, Kicked
<1>4. ASSUME Entitled(u, t), ~Covered(u, t)' PROVE FALSE
  <2>1. user'[u].state = "live"
    <3>1. user[u].state = "live" /\ ~(CommitDeleteUser(c) /\ req[c].u = u)
      BY <1>4 DEF Entitled, Expels
    <3> QED
      BY <1>0, <3>1, UserTo DEF Written, StaysLive
  <2>2. t \in Workspaces(u) /\ t \in Tenants /\ u \notin Supers
    BY <1>0, <1>4, <2>1 DEF Entitled, Covered, Workspaces
  <2>3. member[u][t] = "ACTIVE" /\ tenant[t].status = "ACTIVE" /\ ~tenant[t].gone
    BY <2>2 DEF Workspaces, Usable
  <2>4. member'[u][t] = "ACTIVE"
    <3>1. MemberMove(c, u, t)
      BY <1>0, <2>2, MemberTo DEF Written, MemberMove
    <3>2. Enrol(c) => req[c].op = "create"
      BY <1>0 DEF Enrol, At, Invites
    <3>3. ~Undo(c)
      BY <1>0 DEF Undo
    <3>4. SetMember(c) /\ req[c].op = "deactivate" /\ u = req[c].u /\ t = req[c].t => ~Goes(c, "kick")
      BY <1>3, <1>4
    <3>5. ~(CommitRemove(c) /\ u = req[c].u /\ t = req[c].t) /\ ~(CommitDeleteUser(c) /\ u = req[c].u)
      BY <2>3 DEF Expels
    <3> QED
      BY <1>0, <2>3, <3>1, <3>2, <3>3, <3>4, <3>5 DEF MemberMove
  <2>5. tenant'[t].status = "ACTIVE" /\ ~tenant'[t].gone
    <3>1. TenantMove(c, t)
      BY <1>0, <2>2, TenantTo DEF Written, TenantMove
    <3>2. ~Undo(c) /\ ~DeleteTenant(c, t)
      BY <1>0, <2>2 DEF Undo, Expels
    <3>3. SetTenantStatus(c) /\ t = req[c].t => ~Goes(c, "kick")
      <4>1. SetTenantStatus(c) => req[c].u = Nobody
        BY <1>0 DEF SetTenantStatus, At, ReqOK
      <4> QED
        BY <1>3, <1>4, <4>1
    <3> QED
      BY <2>3, <3>1, <3>2, <3>3 DEF TenantMove
  <2> QED
    BY <1>4, <2>1, <2>2, <2>4, <2>5 DEF Covered, Entitled, Workspaces, Usable
<1> QED
  BY <1>1, <1>2, <1>4 DEF Covered, Kicked

LEMMA EntitledKept ==
    ASSUME UNCHANGED <<user, member, tenant>>, NEW u, NEW t, Entitled(u, t) PROVE Entitled(u, t)'
BY DEF Entitled, Workspaces, Usable

LEMMA SignOutActs ==
    ASSUME SignInsApart, TypeInv, SignInv, NEW c \in Clients, Acts(c) PROVE SignInv'
<1>0. /\ Written(c) /\ scene' = scene /\ ReqOK(req[c], scene.does[c]) /\ Shapes
  BY SignInWrites, OfficeWrites DEF Acts, Written, TypeInv, AuthInv
<1> SUFFICES ASSUME NEW i \in Rows
             PROVE  IF SigningIn(scene) THEN Fine(i)' ELSE session'[i].kind # "login"
  BY <1>0 DEF SignInv, SigningIn
<1>1. RowMove(c, i)
  BY <1>0, RowsTo, SameAged DEF Written, RowMove
<1>2. CASE ~SigningIn(scene)
  <2>1. session[i].kind # "login"
    BY <1>2 DEF SignInv
  <2>2. ~CreateSession(c)
    BY <1>0, <1>2 DEF CreateSession, At, SigningIn, Does, ReqOK, Own
  <2> QED
    BY <1>1, <1>2, <2>1, <2>2 DEF RowMove, Aged, SameRow, Issued
<1>3. CASE SigningIn(scene)
  <2>0. PICK u, t : u = session'[i].user /\ t = session'[i].tenant
    OBVIOUS
  <2> SUFFICES ASSUME Standing(session'[i])
               PROVE  session'[i].pw >= revoked'[u] /\ Covered(u, t)'
    BY <1>3, <2>0 DEF Fine, Covered, Entitled, Workspaces, Kicked
  <2>1. CASE Aged(session'[i], session[i])
    <3>1. /\ session[i].user = u /\ session[i].tenant = t /\ session'[i].pw = session[i].pw
          /\ Standing(session[i]) /\ session'[i].state # "gone"
      BY <2>0, <2>1 DEF Aged, SameRow, Standing
    <3>2. /\ u \in Users /\ t \in Tenants \cup {Nobody}
      BY <3>1, RowTyped DEF Standing
    <3>3. session[i].pw >= revoked[u] /\ Covered(u, t)
      BY <1>3, <3>1 DEF SignInv, Fine
    <3>4. ~Expels(c, u, t)
      BY <3>1, Expelled
    <3>5. Covered(u, t)'
      BY <1>3, <3>2, <3>3, <3>4, CoverStays
    <3>6. revoked'[u] = revoked[u]
      <4>1. session' # Without(SessionsOf(u))
        BY <1>0, <3>1, WithoutTo DEF SessionsOf
      <4> QED
        BY <1>0, <3>2, <4>1, RevokedTo DEF Written
    <3> QED
      BY <3>1, <3>3, <3>5, <3>6
  <2>2. CASE CreateSession(c) /\ Created(c, session'[i])
    <3>1. /\ req[c].u = u /\ req[c].t = t /\ session'[i].pw = req[c].pw
          /\ Entitled(u, t) /\ ~(req[c].pw < revoked[u])
      BY <2>0, <2>2 DEF Created, Standing
    <3>2. /\ UNCHANGED <<user, member, tenant>> /\ revoked' = revoked
      BY <2>2 DEF CreateSession
    <3>3. revoked[u] \in Int /\ req[c].pw \in Int
      <4>1. u \in Users /\ req[c].pw \in 0..MaxPassword /\ revoked \in [Users -> 0..MaxPassword]
        BY <1>0, <2>2, <3>1 DEF CreateSession, At, ReqOK, TypeInv, Tables
      <4> QED
        BY <4>1, AccountsAssumption
    <3>4. Entitled(u, t)'
      BY <3>1, <3>2, EntitledKept
    <3> QED
      BY <3>1, <3>2, <3>3, <3>4 DEF Covered
  <2>3. CASE Undo(c)
    BY <1>3, <2>3, NoInvites DEF Undo
  <2> QED
    BY <1>1, <2>1, <2>2, <2>3 DEF RowMove, Issued, Standing
<1> QED
  BY <1>2, <1>3

LEMMA SignOutTime ==
    ASSUME TypeInv, SignInv, Shapes', TimeStep, UNCHANGED officeVars PROVE SignInv'
<1>0. /\ req' = req /\ scene' = scene /\ user' = user /\ member' = member /\ tenant' = tenant
      /\ revoked' = revoked /\ cut' = cut /\ \A i \in Rows : Aged(session'[i], session[i])
  BY TimeTables
<1> SUFFICES ASSUME NEW i \in Rows
             PROVE  IF SigningIn(scene) THEN Fine(i)' ELSE session'[i].kind # "login"
  BY <1>0 DEF SignInv, SigningIn
<1>1. /\ session'[i].kind = session[i].kind /\ session'[i].user = session[i].user
      /\ session'[i].tenant = session[i].tenant /\ session'[i].pw = session[i].pw
      /\ Standing(session'[i]) => Standing(session[i])
  BY <1>0 DEF Aged, SameRow, Standing
<1>2. CASE SigningIn(scene)
  <2>1. Fine(i)
    BY <1>2 DEF SignInv
  <2>2. Fine(i)'
    BY <1>0, <1>1, <2>1 DEF Fine, Covered, Kicked, Entitled, Workspaces, Usable
  <2> QED
    BY <1>2, <2>2
<1>3. CASE ~SigningIn(scene)
  BY <1>1, <1>3 DEF SignInv
<1> QED
  BY <1>2, <1>3

(* auth.service generateTokens and the revocations of users.service and    *)
(* tenants.service: however sign-ins, refreshes and switches interleave    *)
(* with deactivation, removal, deletion, suspension and new passwords, a   *)
(* session that was not made late is gone when its user may no longer use  *)
(* its workspace, but for a closing that is under way or died half-way.    *)
THEOREM SignOutsHold == ASSUME SignInsApart PROVE Spec => []SignedOut
<1>1. Init => SignInv
  BY DEF Init, AccountsInit, SignInv, Fine, Standing, NoRow
<1>2. TypeInv /\ SignInv /\ [Next]_vars => SignInv'
  <2> SUFFICES ASSUME TypeInv, SignInv, [Next]_vars PROVE SignInv'
    OBVIOUS
  <2>1. ASSUME NEW c \in Clients, Acts(c) PROVE SignInv'
    BY <2>1, SignOutActs
  <2>2. CASE TimeStep /\ UNCHANGED officeVars
    BY <2>2, SignOutTime, TypeNext DEF TypeInv, AuthInv
  <2>3. CASE UNCHANGED vars
    BY <2>3 DEF vars, officeVars, SignInv, SigningIn, Fine, Covered, Kicked, Entitled, Workspaces, Usable
  <2> QED
    BY <2>1, <2>2, <2>3 DEF Next, Acts
<1>3. TypeInv /\ SignInv => SignedOut
  <2> SUFFICES ASSUME TypeInv, SignInv, NEW i \in Rows,
                      session[i].kind = "login", session[i].state = "open", ~session[i].late
               PROVE  LET u == session[i].user
                          t == session[i].tenant
                      IN /\ session[i].pw >= revoked[u]
                         /\ \/ Entitled(u, t)
                            \/ {<<u, t>>, <<Nobody, t>>} \cap cut # {}
                            \/ \E c \in Clients : req[c].at = "kick" /\ req[c].t = t /\ req[c].u \in {u, Nobody}
    BY DEF SignedOut
  <2>1. Fine(i)
    BY DEF SignInv
  <2> QED
    BY <2>1 DEF Fine, Standing, Covered, Kicked
<1> QED
  BY <1>1, <1>2, <1>3, TypeInit, TypeNext, PTL DEF Spec

-----------------------------------------------------------------------------
(* How a request goes on.                                                  *)
Working == {"person", "enrol", "staff", "clear", "token", "flags", "owner"}
UndoOrder == {<<"undo_flags", "undo_settings">>, <<"undo_settings", "undo_members">>,
              <<"undo_members", "undo_roles">>, <<"undo_roles", "undo_tenant">>}
Attached(r) == \/ r.op \in {"login", "switch", "refresh", "create", "resend", "assign", "onboard"}
               \/ r.op = "invite" /\ r.at \in Invites
There(t) == t \in Tenants /\ tenant[t].status # "none"

Finishes(c) == /\ req'[c] = Idle
               /\ req[c].op = "onboard" => \/ NameOwner(c) \/ Dies(c) \/ Staff(c)
                                           \/ Undo(c) /\ req[c].at = "undo_tenant"
Starts(c) ==
    LET q == req'[c] IN
    /\ req[c] = Idle /\ q.at \notin {"staff", "undo_roles", "undo_tenant"}
    /\ q.op = "assign" => member[q.u][q.t] # "none"
    /\ Attached(q) => \/ There(q.t) /\ q.op # "onboard"
                      \/ q.t = Nobody /\ q.op \in {"login", "refresh"}
                      \/ q.op = "refresh" /\ \E i \in Rows : session[i].tenant = q.t
                      \/ q.op = "onboard" /\ q.at = "settings" /\ \E u \in scene.about : BeginOnboard(c, u, q.t)
Paths == {"new", "restored", "again", "enrol"}
OnboardMoves(c) ==
    LET r == req[c]
        q == req'[c]
    IN \/ MakeSettings(c) /\ q.at \in {"person", "enrol"} /\ q.how \in Paths
       \/ q.how = r.how /\ r.at \in Working /\ q.at \in Working
       \/ r.at \in Working \cup {"settings"} /\ q.at = "undo_flags"
       \/ Undo(c) /\ <<r.at, q.at>> \in UndoOrder
Moves(c) ==
    LET r == req[c]
        q == req'[c]
    IN /\ q.op = r.op /\ q.u = r.u
       /\ q.t = r.t \/ (r.op = "login" /\ There(q.t))
       /\ q.at = "staff" => Enrol(c)
       /\ r.op = "assign" => r.at = "drop"
       /\ r.op = "invite" /\ q.at \in Invites => r.at \in Invites
       /\ r.op = "onboard" => OnboardMoves(c)
Flow(c) == Rest(c) /\ (req'[c] = req[c] \/ Finishes(c) \/ Starts(c) \/ Moves(c))

LEMMA FlowSame == ASSUME Shapes, NEW c \in Clients, req' = req PROVE Flow(c)
BY DEF Flow, Rest

LEMMA FlowEnds ==
    ASSUME Shapes, NEW c \in Clients, Ends(c),
           req[c].op = "onboard" => \/ NameOwner(c) \/ Dies(c) \/ Staff(c)
                                    \/ Undo(c) /\ req[c].at = "undo_tenant"
    PROVE  Flow(c)
BY EndsTo DEF Flow, Finishes

LEMMA FlowGoes ==
    ASSUME Shapes, NEW c \in Clients, NEW at, Goes(c, at),
           req[c].op # "onboard", at = "staff" => Enrol(c), req[c].op = "assign" => req[c].at = "drop",
           req[c].op = "invite" /\ at \in Invites => req[c].at \in Invites
    PROVE  Flow(c)
BY GoesTo DEF Flow, Moves, SameBut

LEMMA FlowWorks ==
    ASSUME Shapes, NEW c \in Clients, NEW at \in Working, Goes(c, at), req[c].at \in Working,
           at = "staff" => Enrol(c), req[c].op \in {"invite", "create", "onboard", "resend"},
           req[c].op = "invite" => req[c].at \in Invites
    PROVE  Flow(c)
<1>1. req'[c].at = at /\ SameBut(req'[c], req[c]) /\ Rest(c)
  BY GoesTo
<1>2. OnboardMoves(c)
  BY <1>1 DEF OnboardMoves, SameBut
<1> QED
  BY <1>1, <1>2 DEF Flow, Moves, SameBut

LEMMA FlowUndoes ==
    ASSUME Shapes, NEW c \in Clients, NEW at, Goes(c, at), req[c].op = "onboard",
           \/ at = "undo_flags" /\ req[c].at \in Working \cup {"settings"}
           \/ Undo(c) /\ <<req[c].at, at>> \in UndoOrder
    PROVE  Flow(c)
<1>1. req'[c].at = at /\ SameBut(req'[c], req[c]) /\ Rest(c)
  BY GoesTo
<1>2. OnboardMoves(c)
  BY <1>1 DEF OnboardMoves
<1>3. at # "staff"
  BY DEF UndoOrder
<1> QED
  BY <1>1, <1>2, <1>3 DEF Flow, Moves, SameBut

LEMMA FlowThrows ==
    ASSUME Shapes, NEW c \in Clients, Throws(c), req[c].at \in Working \cup {"settings"} PROVE Flow(c)
BY FlowEnds, FlowUndoes DEF Throws

LEMMA FlowStarts ==
    ASSUME Shapes, NEW c \in Clients, NEW q, Asks(c, q), req[c] = Idle, q.at \notin {"staff", "undo_roles", "undo_tenant"},
           q.op = "assign" => member[q.u][q.t] # "none",
           Attached(q) => \/ There(q.t) /\ q.op # "onboard"
                          \/ q.t = Nobody /\ q.op \in {"login", "refresh"}
                          \/ q.op = "refresh" /\ \E i \in Rows : session[i].tenant = q.t
                          \/ q.op = "onboard" /\ q.at = "settings" /\ \E u \in scene.about : BeginOnboard(c, u, q.t)
    PROVE  Flow(c)
BY AsksTo DEF Flow, Starts

LEMMA SignInFlow == ASSUME TypeInv, NEW c \in Clients, SignInStep(c) PROVE Flow(c)
<1>0. Shapes /\ ReqOK(req[c], scene.does[c])
  BY DEF TypeInv, AuthInv
<1>1. ASSUME NEW u \in scene.about, NEW right \in BOOLEAN, BeginLogin(c, u, right) PROVE Flow(c)
  <2> DEFINE at == Outcome(u, right)
             q == Frame("login", at, u, Nobody, 0, user[u].password)
  <2>1. at \in {"reject", "unverified", "challenge", "accept"}
    BY DEF Outcome
  <2> HIDE DEF at
  <2>2. req[c] = Idle /\ Asks(c, q) /\ q.op = "login" /\ q.at = at /\ q.t = Nobody
    BY <1>1, FrameFields DEF May, BeginLogin, at
  <2> HIDE DEF q
  <2> QED
    BY <1>0, <2>1, <2>2, FlowStarts
<1>2. CASE RecordAttempt(c) \/ VerifyTotpLogin(c)
  <2>1. (Ends(c) \/ Goes(c, "pick") \/ Goes(c, "totp")) /\ req[c].op = "login"
    BY <1>2 DEF RecordAttempt, VerifyTotpLogin, At
  <2> QED
    BY <1>0, <2>1, FlowEnds, FlowGoes
<1>3. CASE SelectTenant(c)
  <2>1. /\ \/ Ends(c) \/ Goes(c, "create")
           \/ \E t \in Tenants : There(t) /\ Asks(c, [req[c] EXCEPT !.at = "create", !.t = t])
        /\ req[c].op = "login"
    BY <1>3 DEF SelectTenant, Workspaces, Usable, There, At
  <2>2. ASSUME NEW t \in Tenants, There(t), Asks(c, [req[c] EXCEPT !.at = "create", !.t = t]) PROVE Flow(c)
    <3>1. Rest(c) /\ req'[c].at = "create" /\ req'[c].t = t /\ req'[c].op = req[c].op /\ req'[c].u = req[c].u
      BY <1>0, <2>2, SelectTo
    <3> QED
      BY <2>1, <2>2, <3>1 DEF Flow, Moves
  <2> QED
    BY <1>0, <2>1, <2>2, FlowEnds, FlowGoes
<1>4. ASSUME NEW i \in Rows, NEW t \in Tenants, SwitchTenant(c, i, t) PROVE Flow(c)
  <2> DEFINE q == Frame("switch", "create", session[i].user, t, 0, session[i].pw)
  <2>1. req[c] = Idle /\ Asks(c, q) /\ q.op = "switch" /\ q.at = "create" /\ q.t = t /\ There(t)
    BY <1>4, FrameFields DEF May, SwitchTenant, Workspaces, Usable, There
  <2> HIDE DEF q
  <2> QED
    BY <1>0, <2>1, FlowStarts
<1>5. CASE CreateSession(c)
  <2>0. CASE Stray(c)
    BY <1>0, <1>5, <2>0, FlowEnds DEF CreateSession, At
  <2>1. req[c].op \in {"login", "switch", "refresh"}
    BY <1>5 DEF CreateSession, At
  <2> QED
    BY <1>0, <1>5, <2>0, <2>1, CreatedTo DEF Flow, Moves
<1>6. CASE SealSession(c) \/ Sweep(c) \/ CommitChange(c)
  BY <1>0, <1>6, FlowEnds DEF SealSession, Sweep, CommitChange, At
<1>7. ASSUME NEW i \in Rows, BeginRefresh(c, i) PROVE Flow(c)
  <2> DEFINE q == Frame("refresh", "rotate", session[i].user, session[i].tenant, i, session[i].pw)
  <2>1. req[c] = Idle /\ (req' = req \/ Asks(c, q))
    BY <1>7 DEF BeginRefresh, May
  <2>2. q.op = "refresh" /\ q.at = "rotate" /\ q.t = session[i].tenant
    BY FrameFields
  <2> HIDE DEF q
  <2> QED
    BY <1>0, <2>1, <2>2, FlowStarts, FlowSame
<1>8. ASSUME NEW i \in Rows, Logout(c, i) PROVE Flow(c)
  BY <1>0, <1>8, FlowSame DEF Logout
<1>9. ASSUME NEW i \in Rows, UseToken(c, i) PROVE Flow(c)
  <2> DEFINE q == Frame(session[i].kind, "account", session[i].user, session[i].tenant, i, 0)
  <2>1. req[c] = Idle /\ Asks(c, q) /\ q.op \in {"reset", "invite", "verify"} /\ q.at = "account"
    BY <1>9, FrameFields DEF May, UseToken
  <2> HIDE DEF q
  <2> QED
    BY <1>0, <2>1, FlowStarts DEF Attached, Invites
<1>10. CASE Rotate(c)
  <2>1. (Ends(c) \/ Goes(c, "create")) /\ req[c].op = "refresh"
    BY <1>10 DEF Rotate, At
  <2> QED
    BY <1>0, <2>1, FlowEnds, FlowGoes
<1>11. CASE SetAccount(c)
  <2>1. req[c].op \in {"reset", "invite", "verify"}
    BY <1>11 DEF SetAccount, At
  <2>2. Rest(c) /\ req'[c].at \in {"sweep", "join"} /\ req'[c].op = req[c].op /\ req'[c].u = req[c].u
        /\ req'[c].t = req[c].t
    BY <1>0, <1>11, AccountTo
  <2> QED
    BY <2>1, <2>2 DEF Flow, Moves, Invites
<1>12. CASE Join(c)
  <2>1. Goes(c, "sweep") /\ req[c].op \in {"invite", "verify"}
    BY <1>12 DEF Join, At
  <2> QED
    BY <1>0, <2>1, FlowGoes DEF Invites
<1>13. ASSUME NEW u \in scene.about, BeginChange(c, u) PROVE Flow(c)
  <2> DEFINE q == Frame("change", "commit", u, Nobody, 0, 0)
  <2>1. req[c] = Idle /\ Asks(c, q) /\ q.op = "change" /\ q.at = "commit"
    BY <1>13, FrameFields DEF May, BeginChange
  <2> HIDE DEF q
  <2> QED
    BY <1>0, <2>1, FlowStarts DEF Attached
<1>14. ASSUME NEW u \in scene.about, ForgotPassword(c, u) \/ SendVerification(c, u) \/ Totp(c, u)
       PROVE  Flow(c)
  BY <1>0, <1>14, FlowSame DEF ForgotPassword, SendVerification, Totp
<1> QED
  BY ZenonT(60), <1>1, <1>2, <1>3, <1>4, <1>5, <1>6, <1>7, <1>8, <1>9, <1>10, <1>11, <1>12, <1>13,
     <1>14
  DEF SignInStep

LEMMA ManagedThere == ASSUME NEW u, NEW t \in Tenants, ManagedFor(u, t) PROVE There(t)
BY DEF ManagedFor, Manages, There

LEMMA OfficeFlow == ASSUME TypeInv, NEW c \in Clients, OfficeStep(c) PROVE Flow(c)
<1>0. Shapes /\ ReqOK(req[c], scene.does[c])
  BY DEF TypeInv, AuthInv
<1>1. ASSUME NEW u \in scene.about, NEW t \in Tenants, NEW rs \in SUBSET Roles, BeginInvite(c, u, t, rs)
      PROVE  Flow(c)
  <2> DEFINE r == Task("invite", "none", u, t, "none", rs)
  <2>1. IsFrame(r) /\ Lookup(c, r) /\ r.op = "invite" /\ r.t = t /\ There(t)
    BY <1>1, TaskIsFrame, TaskFields, ManagedThere DEF BeginInvite
  <2> HIDE DEF r
  <2>2. Rest(c) /\ req'[c].op = "invite" /\ req'[c].t = t /\ req'[c].at \in {"person", "enrol"}
    BY <1>0, <2>1, LookupTo
  <2>3. req[c] = Idle
    BY <1>1 DEF BeginInvite, May
  <2> QED
    BY <2>1, <2>2, <2>3 DEF Flow, Starts
<1>2. ASSUME NEW u \in scene.about, NEW t \in Tenants, NEW rs \in SUBSET Roles, BeginCreate(c, u, t, rs)
      PROVE  Flow(c)
  <2> DEFINE how == IF user[u].state = "none" THEN "new" ELSE "known"
             q == Task("create", "person", u, t, how, rs)
  <2>1. req[c] = Idle /\ Asks(c, q) /\ There(t)
    BY <1>2, ManagedThere DEF May, BeginCreate
  <2>2. q.op = "create" /\ q.at = "person" /\ q.t = t
    <3> HIDE DEF how
    <3> QED
      BY TaskFields
  <2> HIDE DEF q
  <2> QED
    BY <1>0, <2>1, <2>2, FlowStarts
<1>3. ASSUME NEW u \in scene.about, NEW t \in Tenants, NEW rs \in SUBSET Roles, BeginAssign(c, u, t, rs)
      PROVE  Flow(c)
  <2>1. PICK at \in {"drop", "add"} : Asks(c, Task("assign", at, u, t, "none", rs))
    BY <1>3 DEF BeginAssign
  <2>2. req[c] = Idle /\ There(t) /\ member[u][t] # "none"
    BY <1>3, ManagedThere DEF BeginAssign, May
  <2> DEFINE q == Task("assign", at, u, t, "none", rs)
  <2>3. req[c] = Idle /\ Asks(c, q) /\ q.op = "assign" /\ q.at = at /\ q.u = u /\ q.t = t
    BY <2>1, <2>2, TaskFields
  <2> HIDE DEF q
  <2> QED
    BY <1>0, <2>2, <2>3, FlowStarts
<1>4. CASE Person(c)
  <2>1. /\ Throws(c) \/ Goes(c, "enrol")
        /\ req[c].op \in {"invite", "onboard", "create"} /\ req[c].at = "person"
    BY <1>4 DEF Person, At
  <2> QED
    BY <1>0, <2>1, FlowThrows, FlowWorks DEF Working, Invites
<1>5. CASE Enrol(c)
  <2>1. /\ Throws(c) \/ Goes(c, "staff")
        /\ req[c].op \in {"invite", "onboard", "create"} /\ req[c].at = "enrol"
    BY <1>5 DEF Enrol, At
  <2> QED
    BY <1>0, <1>5, <2>1, FlowThrows, FlowWorks DEF Working, Invites
<1>6. CASE Staff(c)
  <2>1. /\ Throws(c) \/ Ends(c) \/ Goes(c, "clear") \/ Goes(c, "token") \/ Goes(c, "flags")
        /\ req[c].op \in {"invite", "onboard", "create"} /\ req[c].at = "staff"
    BY <1>6 DEF Staff, At
  <2>2. CASE Ends(c)
    BY <1>0, <1>6, <2>2, FlowEnds
  <2> QED
    BY <1>0, <2>1, <2>2, FlowThrows, FlowWorks DEF Working, Invites
<1>7. CASE ClearInvites(c)
  <2>1. Goes(c, "token") /\ req[c].op \in {"invite", "onboard", "resend"} /\ req[c].at = "clear"
    BY <1>7 DEF ClearInvites, At
  <2> QED
    BY <1>0, <2>1, FlowWorks DEF Working, Invites
<1>8. CASE SendInviteToken(c)
  <2>1. /\ Throws(c) \/ (IF req[c].op = "onboard" THEN Goes(c, "flags") ELSE Ends(c))
        /\ req[c].op \in {"invite", "onboard", "resend"} /\ req[c].at = "token"
    BY <1>8 DEF SendInviteToken, At
  <2> QED
    BY <1>0, <2>1, FlowThrows, FlowEnds, FlowWorks DEF Working, Invites
<1>9. ASSUME NEW u \in scene.about, NEW t \in Tenants, BeginResend(c, u, t) PROVE Flow(c)
  <2> DEFINE at == IF member[u][t] = "INVITED" THEN "clear" ELSE "again"
             q == Frame("resend", at, u, t, 0, 0)
  <2>1. req[c] = Idle /\ Asks(c, q) /\ There(t)
    BY <1>9, ManagedThere DEF May, BeginResend, Ask
  <2>2. q.op = "resend" /\ q.t = t /\ q.at \in {"clear", "again"}
    BY FrameFields
  <2> HIDE DEF q
  <2> QED
    BY <1>0, <2>1, <2>2, FlowStarts
<1>10. ASSUME NEW u \in scene.about, NEW t \in Tenants, BeginRemove(c, u, t) PROVE Flow(c)
  <2> DEFINE q == Frame("remove", "commit", u, t, 0, 0)
  <2>1. req[c] = Idle /\ Asks(c, q) /\ q.op = "remove" /\ q.at = "commit"
    BY <1>10, FrameFields DEF May, BeginRemove, Ask
  <2> HIDE DEF q
  <2> QED
    BY <1>0, <2>1, FlowStarts DEF Attached
<1>11. ASSUME NEW u \in scene.about, NEW t \in Tenants, NEW op \in {"deactivate", "reactivate"},
              NEW from, NEW to, BeginStatus(c, op, from, to, u, t)
       PROVE  Flow(c)
  <2> DEFINE q == Task(op, "member", u, t, to, {})
  <2>1. req[c] = Idle /\ Asks(c, q) /\ q.op = op /\ q.at = "member"
    BY <1>11, TaskFields DEF May, BeginStatus
  <2> HIDE DEF q
  <2> QED
    BY <1>0, <2>1, FlowStarts DEF Attached
<1>12. ASSUME NEW u \in scene.about, NEW t \in Tenants, BeginOnboard(c, u, t) PROVE Flow(c)
  <2> DEFINE q == Task("onboard", "settings", u, t, "none", {OwnerRole})
  <2>1. req[c] = Idle /\ Asks(c, q) /\ q.op = "onboard" /\ q.at = "settings" /\ q.t = t
    BY <1>12, TaskFields DEF May, BeginOnboard
  <2> HIDE DEF q
  <2> QED
    BY <1>0, <1>12, <2>1, FlowStarts
<1>13. ASSUME NEW u \in scene.about, NEW t \in Tenants,
              UpdateTenant(c, t, u) \/ AdminPassword(c, u, t) \/ \E r \in Roles : RemoveRole(c, u, t, r)
       PROVE  Flow(c)
  BY <1>0, <1>13, FlowSame DEF UpdateTenant, AdminPassword, RemoveRole
<1>14. CASE SetMember(c)
  <2>1. /\ Ends(c) \/ Goes(c, "kick") \/ Goes(c, "clear")
        /\ req[c].op \in {"deactivate", "reactivate", "resend"}
    BY <1>14 DEF SetMember, At
  <2> QED
    BY <1>0, <2>1, FlowEnds, FlowGoes
<1>15. CASE Kick(c) \/ CommitRemove(c) \/ CommitDeleteUser(c)
  BY <1>0, <1>15, FlowEnds DEF Kick, CommitRemove, CommitDeleteUser, At
<1>16. ASSUME NEW u \in scene.about, BeginDeleteUser(c, u) PROVE Flow(c)
  <2> DEFINE q == Frame("delete_user", "commit", u, Nobody, 0, 0)
  <2>1. req[c] = Idle /\ Asks(c, q) /\ q.op = "delete_user" /\ q.at = "commit"
    BY <1>16, FrameFields DEF May, BeginDeleteUser, Ask
  <2> HIDE DEF q
  <2> QED
    BY <1>0, <2>1, FlowStarts DEF Attached
<1>17. CASE DropRoles(c) \/ AddRoles(c)
  <2>1. Ends(c) \/ (Goes(c, "add") /\ req[c].at = "drop")
    BY <1>17 DEF DropRoles, AddRoles, At
  <2>2. req[c].op = "assign"
    BY <1>17 DEF DropRoles, AddRoles, At
  <2> QED
    BY <1>0, <2>1, <2>2, FlowEnds, FlowGoes
<1>18. CASE CommitDeleteRole(c) \/ CommitGrant(c)
  BY <1>0, <1>18, FlowEnds DEF CommitDeleteRole, CommitGrant, At
<1>19. CASE SetFlag(c)
  BY <1>0, <1>19, FlowSame DEF SetFlag
<1>20. ASSUME NEW r \in CustomRoles, NEW t \in Tenants, CreateRole(c, r, t) PROVE Flow(c)
  BY <1>0, <1>20, FlowSame DEF CreateRole
<1>21. ASSUME NEW r \in CustomRoles, NEW t \in Tenants, BeginDeleteRole(c, r, t) PROVE Flow(c)
  <2> DEFINE q == Task("delete_role", "commit", Nobody, t, "none", {r})
  <2>1. req[c] = Idle /\ Asks(c, q) /\ q.op = "delete_role" /\ q.at = "commit"
    BY <1>21, TaskFields DEF May, BeginDeleteRole
  <2> HIDE DEF q
  <2> QED
    BY <1>0, <2>1, FlowStarts DEF Attached
<1>22. ASSUME NEW r \in Roles, NEW t \in Tenants, NEW p \in Permissions, RemovePermission(c, t, r, p)
       PROVE  Flow(c)
  BY <1>0, <1>22, FlowSame DEF RemovePermission
<1>23. ASSUME NEW a \in Users, NEW t \in Tenants, NEW r \in Roles, NEW ps \in SUBSET Permissions,
              BeginGrant(c, a, t, r, ps)
       PROVE  Flow(c)
  <2>1. Rest(c) /\ req'[c].op = "grant" /\ req'[c].at = "commit"
    BY <1>23, GrantTo DEF TypeInv
  <2>2. req[c] = Idle
    BY <1>23 DEF BeginGrant, May
  <2> QED
    BY <2>1, <2>2 DEF Flow, Starts, Attached
<1>24. CASE MakeSettings(c)
  <2>0. IsFrame(req[c]) /\ req[c].op = "onboard" /\ req[c].at = "settings"
    BY <1>0, <1>24 DEF MakeSettings, At, Shapes
  <2>1. CASE Throws(c)
    BY <1>0, <2>0, <2>1, FlowThrows
  <2>2. CASE Lookup(c, req[c]) /\ InvitePath(req[c].u, req[c].t) # "conflict"
    <3>1. req[c].u \in Users
      BY <1>0, <2>0 DEF ReqOK, OfMember
    <3>2. InvitePath(req[c].u, req[c].t) \in Paths
      BY <2>2, <3>1, PasswordTyped DEF InvitePath, Paths
    <3>3. /\ Rest(c) /\ req'[c].how \in Paths /\ req'[c].at \in {"person", "enrol"}
          /\ req'[c].op = req[c].op /\ req'[c].u = req[c].u /\ req'[c].t = req[c].t
      BY <1>0, <2>0, <2>2, <3>2, LookupTo
    <3> QED
      BY <1>24, <2>0, <3>3 DEF Flow, Moves, OnboardMoves
  <2> QED
    BY <1>24, <2>1, <2>2 DEF MakeSettings
<1>25. CASE ApplyFlags(c)
  <2>1. (Throws(c) \/ Goes(c, "owner")) /\ req[c].op = "onboard" /\ req[c].at = "flags"
    BY <1>25 DEF ApplyFlags, At
  <2> QED
    BY <1>0, <2>1, FlowThrows, FlowWorks DEF Working
<1>26. CASE NameOwner(c)
  BY <1>0, <1>26, FlowEnds DEF NameOwner
<1>27. CASE Undo(c)
  <2>1. /\ req[c].op = "onboard"
        /\ \/ Ends(c) /\ req[c].at = "undo_tenant"
           \/ req[c].at = "undo_flags" /\ Goes(c, "undo_settings")
           \/ req[c].at = "undo_settings" /\ Goes(c, "undo_members")
           \/ req[c].at = "undo_members" /\ Goes(c, "undo_roles")
           \/ req[c].at = "undo_roles" /\ Goes(c, "undo_tenant")
    BY <1>27 DEF Undo
  <2>2. ASSUME NEW at, <<req[c].at, at>> \in UndoOrder, Goes(c, at) PROVE Flow(c)
    BY <1>0, <1>27, <2>1, <2>2, FlowUndoes
  <2> QED
    BY <1>0, <1>27, <2>1, <2>2, FlowEnds DEF UndoOrder
<1>28. ASSUME NEW t \in Tenants, NEW s \in {"ACTIVE", "SUSPENDED", "CANCELLED"}, BeginTenantStatus(c, t, s)
       PROVE  Flow(c)
  <2> DEFINE q == Task("status", "write", Nobody, t, s, {})
  <2>1. req[c] = Idle /\ Asks(c, q) /\ q.op = "status" /\ q.at = "write"
    BY <1>28, TaskFields DEF May, BeginTenantStatus
  <2> HIDE DEF q
  <2> QED
    BY <1>0, <2>1, FlowStarts DEF Attached
<1>29. CASE SetTenantStatus(c)
  <2>1. (Ends(c) \/ Goes(c, "kick")) /\ req[c].op = "status"
    BY <1>29 DEF SetTenantStatus, At
  <2> QED
    BY <1>0, <2>1, FlowEnds, FlowGoes
<1>30. ASSUME NEW t \in Tenants, DeleteTenant(c, t) PROVE Flow(c)
  BY <1>0, <1>30, FlowSame DEF DeleteTenant
<1>31. CASE Breaks(c)
  BY <1>0, <1>31, FlowThrows DEF Breaks, Working
<1>32. CASE Dies(c)
  BY <1>0, <1>32, FlowEnds DEF Dies
<1>33. ASSUME NEW u \in scene.about, NEW t \in Tenants,
              \/ BeginStatus(c, "deactivate", {"INVITED", "ACTIVE"}, "INACTIVE", u, t)
              \/ BeginStatus(c, "reactivate", {"INACTIVE"}, "ACTIVE", u, t)
       PROVE  Flow(c)
  BY <1>11, <1>33
<1> QED
  BY ZenonT(60), <1>1, <1>2, <1>3, <1>4, <1>5, <1>6, <1>7, <1>8, <1>9, <1>10, <1>12, <1>13, <1>14,
     <1>15, <1>16, <1>17, <1>18, <1>19, <1>20, <1>21, <1>22, <1>23, <1>24, <1>25, <1>26, <1>27, <1>28,
     <1>29, <1>30, <1>31, <1>32, <1>33
  DEF OfficeStep

-----------------------------------------------------------------------------
(* Roles and members.                                                      *)
Giving(r) == \/ r.op \in {"invite", "create", "onboard"} /\ r.at = "staff"
             \/ r.op = "assign"
CutAt(t) == \E v \in Users : <<v, t>> \in cut
Undoing(t) == \E c \in Clients : At(c, {"onboard"}, "undo_roles") /\ req[c].t = t
OnboardOK ==
    \A c \in Clients : req[c].op = "onboard" =>
        There(req[c].t) /\ \A d \in Clients \ {c} : req[d].op = "onboard" => req[d].t # req[c].t
GiveOK(c) == Giving(req[c]) => member[req[c].u][req[c].t] # "none"
RoleOK(u, t) == roles[u][t] # {} => member[u][t] # "none" \/ CutAt(t) \/ Undoing(t)
RolesInv == /\ \A c \in Clients : GiveOK(c)
            /\ \A u \in Users, t \in Tenants : RoleOK(u, t)

LEMMA ActsAre ==
    ASSUME TypeInv, NEW c \in Clients, Acts(c)
    PROVE  /\ Written(c) /\ Flow(c) /\ Rest(c) /\ Shapes /\ ReqOK(req[c], scene.does[c])
           /\ cut \subseteq cut' /\ Nobody \notin Users /\ Nobody \notin Tenants
BY SignInWrites, OfficeWrites, SignInFlow, OfficeFlow, CutGrows, AccountsAssumption
DEF Acts, Flow, TypeInv, AuthInv

LEMMA ThereStays ==
    ASSUME TypeInv, NEW c \in Clients, Acts(c), NEW t, There(t),
           ~(Undo(c) /\ req[c].at = "undo_tenant" /\ t = req[c].t)
    PROVE  There(t)'
<1>1. TenantMove(c, t)
  BY ActsAre, TenantTo DEF Written, TenantMove, There
<1>2. SetTenantStatus(c) => req[c].how # "none"
  BY ActsAre DEF SetTenantStatus, At, ReqOK
<1>3. tenant'[t].status # "none"
  BY <1>1, <1>2, PendingIs DEF TenantMove, There
<1> QED
  BY <1>3 DEF There

LEMMA OnboardStep ==
    ASSUME TypeInv, OnboardOK, NEW c \in Clients, Acts(c) PROVE OnboardOK'
<1>0. Written(c) /\ Flow(c) /\ Rest(c) /\ Shapes
  BY ActsAre
<1>1. ASSUME NEW d \in Clients \ {c}, req[d].op = "onboard" PROVE There(req[d].t)'
  <2>0. PICK t : t = req[d].t
    OBVIOUS
  <2>1. There(t) /\ ~(Undo(c) /\ t = req[c].t)
    BY <1>1, <2>0 DEF OnboardOK, Undo
  <2>2. There(t)'
    BY <2>1, ThereStays
  <2>3. req'[d].t = t
    BY <1>0, <2>0 DEF Rest
  <2> QED
    BY <2>2, <2>3 DEF There
<1>2. CASE req'[c].op = "onboard" /\ req[c].op = "onboard" /\ req'[c].t = req[c].t
  <2>0. PICK t : t = req[c].t
    OBVIOUS
  <2>1. There(t)'
    <3>1. Undo(c) /\ req[c].at = "undo_tenant" => req'[c].op # "onboard"
      BY <1>0, EndsTo, IdleIs DEF Undo
    <3> QED
      BY <1>2, <2>0, <3>1, ThereStays DEF OnboardOK
  <2>2. There(req[c].t)'
    BY <1>2, <2>0, <2>1 DEF There
  <2> QED
    BY <1>0, <1>1, <1>2, <2>2 DEF OnboardOK, Rest
<1>3. CASE req'[c].op = "onboard" /\ Starts(c)
  <2>0. PICK t : t = req'[c].t
    OBVIOUS
  <2>1. PICK u \in scene.about : BeginOnboard(c, u, t)
    BY <1>3, <2>0, NobodyApart DEF Starts, Attached
  <2>2. t \in Tenants /\ tenant[t].status = "none" /\ tenant'[t].status = "PENDING"
    <3>1. tenant' = [tenant EXCEPT ![t] = [NoTenant EXCEPT !.status = "PENDING"]]
      BY <2>1 DEF BeginOnboard
    <3>2. t \in Tenants
      BY <1>3, <2>0, SignInReqs, OfficeReqs DEF Acts, ReqOK, OfMember
    <3> QED
      BY <2>1, <3>1, <3>2, PendingIs DEF BeginOnboard, TypeInv, Tables
  <2>3. \A d \in Clients \ {c} : req[d].op = "onboard" => req[d].t # t
    BY <2>2 DEF OnboardOK, There
  <2>4. There(req[c].t)'
    BY <2>0, <2>2 DEF There
  <2> QED
    BY <1>0, <1>1, <1>3, <2>0, <2>3, <2>4 DEF OnboardOK, Rest
<1>4. CASE req'[c].op # "onboard"
  BY <1>0, <1>1, <1>4 DEF OnboardOK, Rest
<1> QED
  BY <1>0, <1>2, <1>3, <1>4, IdleIs DEF Flow, Finishes, Moves

LEMMA MemberKept ==
    ASSUME RolesApart, TypeInv, OnboardOK, NEW c \in Clients, Acts(c), NEW d \in Clients, Giving(req[d]),
           NEW u, NEW t, u = req[d].u, t = req[d].t, member[u][t] # "none"
    PROVE  u \in Users /\ t \in Tenants /\ member'[u][t] # "none"
<1>0. /\ Written(c) /\ ReqOK(req[c], scene.does[c]) /\ ReqOK(req[d], scene.does[d])
      /\ \E s \in Scenes : scene = s.play
  BY ActsAre DEF TypeInv, Tables
<1>1. /\ u \in Users /\ t \in Tenants
      /\ req[d].op \in {"invite", "create", "onboard", "assign"} /\ req[d].op \in scene.does[d]
      /\ req[d].at \in {"staff", "drop", "add"} \/ req[d].op = "assign"
  BY <1>0 DEF Giving, ReqOK, OfMember, Own, Invites
<1>2. MemberMove(c, u, t)
  BY <1>0, <1>1, MemberTo DEF Written, MemberMove
<1>3. ~CommitRemove(c) /\ ~CommitDeleteUser(c)
  <2> SUFFICES ASSUME req[c].op \in {"remove", "delete_user"} PROVE FALSE
    BY DEF CommitRemove, CommitDeleteUser, At
  <2>1. c # d
    BY <1>1
  <2>2. Does(scene, c, {"remove", "delete_user"}) /\ Does(scene, d, {"invite", "create", "assign", "onboard"})
    BY <1>0, <1>1 DEF ReqOK, OfMember, Own, Does
  <2> QED
    BY <1>0, <2>1, <2>2 DEF RolesApart
<1>4. ~(Undo(c) /\ t = req[c].t /\ req[c].at \in {"undo_members", "undo_tenant"})
  <2> SUFFICES ASSUME req[c].op = "onboard", t = req[c].t, req[c].at \in {"undo_members", "undo_tenant"}
               PROVE  FALSE
    BY DEF Undo
  <2>1. c # d
    BY <1>1
  <2>2. req[d].op # "onboard"
    BY <2>1 DEF OnboardOK
  <2>3. Does(scene, c, {"onboard"}) /\ Does(scene, d, {"invite", "create", "assign"})
    BY <1>0, <1>1, <2>2 DEF ReqOK, OfMember, Own, Does
  <2> QED
    BY <1>0, <2>1, <2>3 DEF RolesApart
<1> QED
  BY <1>1, <1>2, <1>3, <1>4 DEF MemberMove

LEMMA GiveStep ==
    ASSUME RolesApart, TypeInv, OnboardOK, RolesInv, NEW c \in Clients, Acts(c), NEW d \in Clients
    PROVE  GiveOK(d)'
<1>0. Written(c) /\ Flow(c) /\ Rest(c) /\ Shapes
  BY ActsAre
<1>1. PICK u, t : u = req'[d].u /\ t = req'[d].t
  OBVIOUS
<1> SUFFICES ASSUME Giving(req'[d]) PROVE member'[u][t] # "none"
  BY <1>1 DEF GiveOK, Giving
<1>2. ASSUME req[d].u = u, req[d].t = t, Giving(req[d]) PROVE member'[u][t] # "none"
  BY <1>2, MemberKept DEF RolesInv, GiveOK
<1>3. CASE req'[d] = req[d]
  BY <1>1, <1>2, <1>3
<1>4. CASE d = c /\ Starts(c)
  <2>1. req'[c].op = "assign" /\ member[u][t] # "none" /\ req[c] = Idle
    BY <1>1, <1>4 DEF Starts, Giving
  <2>2. member' = member
    BY <1>0, <2>1, IdleIs DEF Written, MemberStep, Join, Enrol, SetMember, CommitRemove, CommitDeleteUser, Undo, At
  <2> QED
    BY <2>1, <2>2
<1>5. CASE d = c /\ Moves(c)
  <2>1. CASE req'[c].at = "staff" /\ req[c].op # "assign"
    <3>1. Enrol(c) /\ req[c].op # "login"
      BY <1>5, <2>1 DEF Moves, Enrol, At
    <3>2. req[c].u = u /\ req[c].t = t
      BY <1>1, <1>5, <3>1 DEF Moves
    <3>3. u \in Users /\ t \in Tenants
      <4>1. ReqOK(req[c], scene.does[c]) /\ req[c].op \in {"invite", "create", "onboard"} /\ req[c].at = "enrol"
        BY <3>1, ActsAre DEF Enrol, At
      <4> QED
        BY <3>2, <4>1 DEF ReqOK, OfMember, Invites
    <3>4. ~Throws(c)
      BY <1>0, <2>1, GoesTo, EndsTo, IdleIs DEF Throws
    <3> DEFINE x == IF req[c].op = "create" \/ req[c].how = "enrol" THEN "ACTIVE" ELSE "INVITED"
    <3>5. member' = [member EXCEPT ![u][t] = x]
      BY <3>1, <3>2, <3>4 DEF Enrol
    <3>6. member \in [Users -> [Tenants -> MemberStatus]]
      BY DEF TypeInv, Tables
    <3> QED
      BY <3>3, <3>5, <3>6
  <2>2. CASE req[c].op = "assign"
    <3>1. Giving(req[c]) /\ req[c].u = u /\ req[c].t = t
      BY <1>1, <1>5, <2>2 DEF Moves, Giving
    <3> QED
      BY <1>2, <1>5, <3>1
  <2> QED
    BY <1>5, <2>1, <2>2 DEF Giving, Moves
<1>6. ~(d = c /\ Finishes(c))
  BY IdleIs DEF Finishes, Giving
<1> QED
  BY <1>0, <1>3, <1>4, <1>5, <1>6 DEF Flow, Rest

LEMMA UndoingStays ==
    ASSUME TypeInv, NEW c \in Clients, Acts(c), NEW u \in Users, NEW t \in Tenants, Undoing(t)
    PROVE  CutAt(t)' \/ Undoing(t)' \/ roles'[u][t] = {}
<1>0. Flow(c) /\ Rest(c) /\ ReqOK(req[c], scene.does[c])
  BY ActsAre
<1>1. PICK d \in Clients : At(d, {"onboard"}, "undo_roles") /\ req[d].t = t
  BY DEF Undoing
<1>2. CASE req'[d] = req[d]
  BY <1>1, <1>2 DEF Undoing, At
<1>3. CASE d = c /\ Finishes(c)
  <2>1. Dies(c)
    BY <1>1, <1>3 DEF Finishes, At, NameOwner, Staff
  <2>2. req[c].u \in Users /\ <<req[c].u, t>> \in cut'
    BY <1>0, <1>1, <1>3, <2>1 DEF Dies, At, ReqOK, OfMember
  <2> QED
    BY <2>2 DEF CutAt
<1>4. CASE d = c /\ Moves(c)
  <2>1. Undo(c) /\ req[c].at = "undo_roles"
    BY <1>1, <1>4 DEF Moves, OnboardMoves, At, MakeSettings, Working
  <2>2. roles' = [v \in Users |-> [roles[v] EXCEPT ![t] = {}]]
    BY <1>1, <1>4, <2>1 DEF Undo
  <2>3. roles \in [Users -> [Tenants -> SUBSET Roles]]
    BY DEF TypeInv, Tables
  <2> QED
    BY <2>2, <2>3
<1>5. ~(d = c /\ Starts(c))
  BY <1>1, IdleIs DEF Starts, At
<1> QED
  BY <1>0, <1>2, <1>3, <1>4, <1>5 DEF Flow, Rest

LEMMA MemberGoes ==
    ASSUME TypeInv, NEW c \in Clients, Acts(c), NEW u \in Users, NEW t \in Tenants,
           member[u][t] # "none", member'[u][t] = "none"
    PROVE  Undoing(t)' \/ roles'[u][t] = {}
<1>0. Written(c) /\ Shapes /\ roles \in [Users -> [Tenants -> SUBSET Roles]]
  BY ActsAre DEF TypeInv, Tables
<1>1. MemberMove(c, u, t)
  BY <1>0, MemberTo DEF Written, MemberMove
<1>2. CASE CommitRemove(c) /\ u = req[c].u /\ t = req[c].t
  <2>1. roles' = [roles EXCEPT ![u][t] = {}]
    BY <1>2 DEF CommitRemove
  <2> QED
    BY <1>0, <2>1
<1>3. CASE CommitDeleteUser(c) /\ u = req[c].u
  <2>1. roles' = [roles EXCEPT ![u] = [s \in Tenants |-> {}]]
    BY <1>3 DEF CommitDeleteUser
  <2> QED
    BY <1>0, <2>1
<1>4. CASE Undo(c) /\ req[c].at = "undo_members" /\ t = req[c].t
  <2>1. Goes(c, "undo_roles") /\ req[c].op = "onboard"
    BY <1>4 DEF Undo
  <2>2. req'[c].at = "undo_roles" /\ req'[c].op = "onboard" /\ req'[c].t = t
    BY <1>0, <1>4, <2>1, GoesTo DEF SameBut
  <2> QED
    BY <2>2 DEF Undoing, At
<1>5. CASE Undo(c) /\ req[c].at = "undo_tenant" /\ t = req[c].t /\ ~Referenced(t)
  BY <1>5 DEF Undo, Referenced
<1> QED
  BY <1>1, <1>2, <1>3, <1>4, <1>5 DEF MemberMove

LEMMA RoleStepOK ==
    ASSUME RolesApart, TypeInv, OnboardOK, RolesInv, NEW c \in Clients, Acts(c),
           NEW u \in Users, NEW t \in Tenants
    PROVE  RoleOK(u, t)'
<1>0. Written(c) /\ cut \subseteq cut'
  BY ActsAre
<1> SUFFICES ASSUME roles'[u][t] # {} PROVE member'[u][t] # "none" \/ CutAt(t)' \/ Undoing(t)'
  BY DEF RoleOK
<1>1. RoleMove(c, u, t)
  BY <1>0, RolesTo DEF Written, RoleMove
<1>2. CASE u = req[c].u /\ t = req[c].t /\ (Staff(c) \/ AddRoles(c))
  <2>1. Giving(req[c])
    BY <1>2 DEF Staff, AddRoles, At, Giving
  <2>2. member[u][t] # "none"
    BY <1>2, <2>1 DEF RolesInv, GiveOK
  <2> QED
    BY <1>2, <2>1, <2>2, MemberKept
<1>3. CASE roles'[u][t] \subseteq roles[u][t]
  <2>1. member[u][t] # "none" \/ CutAt(t) \/ Undoing(t)
    BY <1>3 DEF RolesInv, RoleOK
  <2>2. CASE CutAt(t)
    BY <1>0, <2>2 DEF CutAt
  <2> QED
    BY <2>1, <2>2, UndoingStays, MemberGoes
<1> QED
  BY <1>1, <1>2, <1>3 DEF RoleMove

LEMMA RolesSame ==
    ASSUME OnboardOK, RolesInv, UNCHANGED <<member, tenant, cut, req, roles>>
    PROVE  OnboardOK' /\ RolesInv'
<1>1. OnboardOK'
  BY DEF OnboardOK, There
<1>2. RolesInv'
  BY DEF RolesInv, GiveOK, RoleOK, CutAt, Undoing, At
<1> QED
  BY <1>1, <1>2

LEMMA RolesInit == Init => OnboardOK /\ RolesInv
<1> SUFFICES ASSUME Init PROVE OnboardOK /\ RolesInv
  OBVIOUS
<1>1. \A c \in Clients : req[c] = Idle
  BY DEF Init, AccountsInit
<1>2. \A u \in Users, t \in Tenants : roles[u][t] # {} => member[u][t] # "none"
  BY StartsAssumption DEF Init
<1> QED
  BY <1>1, <1>2, IdleIs DEF OnboardOK, RolesInv, GiveOK, Giving, RoleOK

LEMMA OnboardInit == Init => OnboardOK
BY RolesInit

LEMMA OnboardNext == TypeInv /\ OnboardOK /\ [Next]_vars => OnboardOK'
<1> SUFFICES ASSUME TypeInv, OnboardOK, [Next]_vars PROVE OnboardOK'
  OBVIOUS
<1>1. CASE TimeStep /\ UNCHANGED officeVars
  <2>1. req' = req /\ tenant' = tenant
    BY <1>1 DEF TimeStep, WindowPasses, Expire
  <2> QED
    BY <2>1 DEF OnboardOK, There
<1>2. CASE UNCHANGED vars
  BY <1>2 DEF vars, OnboardOK, There
<1> QED
  BY <1>1, <1>2, OnboardStep DEF Next, Acts

(* users.service inviteUser, createUser, assignRoles, removeUser and       *)
(* deleteUser, tenants.service onboard: as long as nobody takes a member   *)
(* away while another request gives roles there, whoever holds a role in a *)
(* workspace is a member of it.                                            *)
THEOREM RolesOfMembers == ASSUME RolesApart PROVE Spec => []RolesHaveMembers
<1>1. TypeInv /\ OnboardOK /\ RolesInv /\ [Next]_vars => RolesInv'
  <2> SUFFICES ASSUME TypeInv, OnboardOK, RolesInv, [Next]_vars PROVE RolesInv'
    OBVIOUS
  <2>1. ASSUME NEW c \in Clients, Acts(c) PROVE RolesInv'
    <3>1. \A d \in Clients : GiveOK(d)'
      BY <2>1, GiveStep
    <3>2. \A u \in Users, t \in Tenants : RoleOK(u, t)'
      BY <2>1, RoleStepOK
    <3> QED
      BY <3>1, <3>2 DEF RolesInv
  <2>2. CASE TimeStep /\ UNCHANGED officeVars
    BY <2>2, RolesSame DEF TimeStep, WindowPasses, Expire, officeVars
  <2>3. CASE UNCHANGED vars
    BY <2>3, RolesSame DEF vars, officeVars
  <2> QED
    BY <2>1, <2>2, <2>3 DEF Next, Acts
<1>2. TypeInv /\ RolesInv => RolesHaveMembers
  <2> SUFFICES ASSUME TypeInv, RolesInv PROVE RolesHaveMembers
    OBVIOUS
  <2>1. TypeOK
    BY DEF TypeInv, Tables, TypeOK
  <2>2. ASSUME NEW u \in Users, NEW t \in Tenants PROVE RoleOK(u, t)
    BY DEF RolesInv
  <2> QED
    BY <2>1, <2>2 DEF RolesHaveMembers, RoleOK, CutAt, Undoing
<1> QED
  BY <1>1, <1>2, TypeInit, TypeNext, RolesInit, OnboardNext, PTL DEF Spec

-----------------------------------------------------------------------------
(* Onboarding.  A workspace that is not there has left nothing behind; one *)
(* that is there and that nobody onboards any more is complete.            *)
Empty(t) == /\ tenant[t] = NoTenant /\ override[t] = "none" /\ SessionsIn(t) = {}
            /\ \A u \in Users : member[u][t] = "none" /\ roles[u][t] = {}
Complete(t) == tenant[t].settings /\ (tenant[t].owner = Nobody => tenant[t].orphan)
Onboarding(t) == \E c \in Clients : req[c].op = "onboard" /\ req[c].t = t

EmptyOK(t) == tenant[t].status = "none" => Empty(t)
CompleteOK(t) == tenant[t].status # "none" => Onboarding(t) \/ CutAt(t) \/ Complete(t)
WorkOK(c) == req[c].op = "onboard" /\ req[c].at \in Working =>
                 tenant[req[c].t].settings /\ req[c].how \in Paths
WholeInv == /\ \A t \in Tenants : EmptyOK(t) /\ CompleteOK(t)
            /\ \A c \in Clients : WorkOK(c)

LEMMA OnboardAt ==
    ASSUME TypeInv, OnboardOK, NEW c \in Clients, req[c].op = "onboard"
    PROVE  req[c].t \in Tenants /\ req[c].u \in Users /\ tenant[req[c].t].status # "none"
BY DEF TypeInv, OnboardOK, There, ReqOK, OfMember

LEMMA StaysEmpty ==
    ASSUME TypeInv, OnboardOK, NEW c \in Clients, Acts(c), NEW t \in Tenants,
           tenant[t].status = "none", Empty(t), tenant'[t].status = "none"
    PROVE  Empty(t)'
<1>0. /\ Written(c) /\ Shapes /\ Nobody \notin Users /\ Nobody \notin Tenants
      /\ member \in [Users -> [Tenants -> MemberStatus]]
      /\ roles \in [Users -> [Tenants -> SUBSET Roles]]
  BY ActsAre DEF TypeInv, Tables
<1>1. t = req[c].t => req[c].op # "onboard" /\ Stray(c)
  BY <1>0, OnboardAt DEF Stray
<1>2. tenant'[t] = NoTenant
  <2>1. TenantMove(c, t)
    BY <1>0, TenantTo DEF Written, TenantMove
  <2>2. tenant[t] = NoTenant /\ NoTenant.owner = Nobody
    BY NoTenantIs DEF Empty
  <2>3. ~(CommitDeleteUser(c) /\ tenant[t].owner = req[c].u)
    <3>1. CommitDeleteUser(c) => req[c].u \in Users
      BY ActsAre DEF CommitDeleteUser, At, ReqOK
    <3> QED
      BY <1>0, <2>2, <3>1
  <2>4. ~(MakeSettings(c) /\ t = req[c].t) /\ ~(NameOwner(c) /\ t = req[c].t) /\ ~(Undo(c) /\ t = req[c].t)
    BY <1>1 DEF MakeSettings, NameOwner, Undo, At
  <2> QED
    BY <2>1, <2>2, <2>3, <2>4, PendingIs DEF TenantMove
<1>3. ASSUME NEW u \in Users PROVE member'[u][t] = "none"
  <2>1. member[u][t] = "none" /\ MemberMove(c, u, t)
    BY <1>0, MemberTo DEF Written, MemberMove, Empty
  <2>2. ~(Enrol(c) /\ t = req[c].t /\ member'[u][t] # "none")
    BY <2>1 DEF Enrol
  <2> QED
    BY <2>1, <2>2 DEF MemberMove
<1>4. ASSUME NEW u \in Users PROVE roles'[u][t] = {}
  <2>1. roles[u][t] = {} /\ RoleMove(c, u, t)
    BY <1>0, RolesTo DEF Written, RoleMove, Empty
  <2>2. CASE t = req[c].t /\ u = req[c].u /\ Staff(c)
    BY <1>1, <2>1, <2>2 DEF Staff
  <2>3. CASE t = req[c].t /\ u = req[c].u /\ AddRoles(c)
    <3>1. roles' = [roles EXCEPT ![u][t] = @ \cup {r \in req[c].arg : Exists(r) /\ ~Stray(c)}]
      BY <2>3 DEF AddRoles
    <3>2. {r \in req[c].arg : Exists(r) /\ ~Stray(c)} = {}
      BY <1>1, <2>3
    <3>3. roles' = [roles EXCEPT ![u][t] = @ \cup {}]
      BY <3>1, <3>2
    <3> QED
      BY <1>0, <2>1, <3>3
  <2> QED
    BY <2>1, <2>2, <2>3 DEF RoleMove
<1>5. override'[t] = "none"
  <2>1. override[t] = "none" /\ OverrideMove(c, t)
    BY <1>0, OverrideTo DEF Written, OverrideMove, Empty
  <2>2. ~(ApplyFlags(c) /\ t = req[c].t)
    BY <1>1 DEF ApplyFlags, At
  <2> QED
    BY <2>1, <2>2 DEF OverrideMove
<1>6. ASSUME NEW i \in Rows PROVE session'[i].tenant # t
  <2>1. session[i].tenant # t /\ RowMove(c, i)
    BY <1>0, RowsTo, SameAged DEF Written, RowMove, Empty, SessionsIn
  <2>2. Issued(c, session'[i]) => session'[i].tenant # t
    <3>1. \A u \in Users : member[u][t] = "none"
      BY DEF Empty
    <3> QED
      BY <1>0, <1>1, <3>1 DEF Issued
  <2> QED
    BY <1>0, <1>1, <2>1, <2>2 DEF RowMove, Aged, Created
<1> QED
  BY <1>2, <1>3, <1>4, <1>5, <1>6 DEF Empty, SessionsIn

LEMMA GoesEmpty ==
    ASSUME TypeInv, OnboardOK, NEW c \in Clients, Acts(c), NEW t \in Tenants,
           tenant[t].status # "none", tenant'[t].status = "none"
    PROVE  Empty(t)'
<1>0. /\ Written(c) /\ ReqOK(req[c], scene.does[c]) /\ Nobody \notin Tenants
      /\ member \in [Users -> [Tenants -> MemberStatus]]
  BY ActsAre DEF TypeInv, Tables
<1>1. Undo(c) /\ t = req[c].t /\ req[c].at = "undo_tenant" /\ ~Referenced(t) /\ tenant'[t] = NoTenant
  <2>1. TenantMove(c, t)
    BY <1>0, TenantTo DEF Written, TenantMove
  <2>2. SetTenantStatus(c) => req[c].how # "none"
    BY <1>0 DEF SetTenantStatus, At, ReqOK
  <2> QED
    BY <2>1, <2>2 DEF TenantMove
<1>2. /\ member' = [u \in Users |-> [member[u] EXCEPT ![t] = "none"]]
      /\ session' = [i \in Rows |-> [session[i] EXCEPT !.tenant = IF @ = t THEN Nobody ELSE @]]
      /\ override' = override /\ roles' = roles
  BY <1>1, Zenon DEF Undo
<1>3. override'[t] = "none" /\ \A u \in Users : roles'[u][t] = {} /\ member'[u][t] = "none"
  BY <1>0, <1>1, <1>2 DEF Referenced
<1>4. ASSUME NEW i \in Rows PROVE session'[i].tenant # t
  <2>1. Shapes /\ session'[i] = [session[i] EXCEPT !.tenant = IF @ = t THEN Nobody ELSE @]
    BY <1>2 DEF TypeInv, AuthInv
  <2> QED
    BY <1>0, <2>1 DEF Shapes, IsRow
<1> QED
  BY <1>1, <1>3, <1>4 DEF Empty, SessionsIn

LEMMA WorkStep ==
    ASSUME TypeInv, OnboardOK, WholeInv, NEW c \in Clients, Acts(c), NEW d \in Clients
    PROVE  WorkOK(d)'
<1>0. Written(c) /\ Flow(c) /\ Rest(c) /\ ReqOK(req[c], scene.does[c])
  BY ActsAre
<1>1. PICK t : t = req'[d].t
  OBVIOUS
<1> SUFFICES ASSUME req'[d].op = "onboard", req'[d].at \in Working
             PROVE  tenant'[t].settings /\ req'[d].how \in Paths
  BY <1>1 DEF WorkOK
<1>2. ASSUME req[d].op = "onboard", req[d].t = t, tenant[t].settings, ~(Undo(c) /\ t = req[c].t)
      PROVE  tenant'[t].settings
  <2>1. t \in Tenants /\ tenant[t].status # "none"
    BY <1>2, OnboardAt
  <2>2. TenantMove(c, t)
    BY <1>0, <2>1, TenantTo DEF Written, TenantMove
  <2> QED
    BY <1>2, <2>1, <2>2 DEF TenantMove
<1>3. CASE req'[d] = req[d]
  <2>1. req[d].op = "onboard" /\ req[d].t = t /\ tenant[t].settings /\ req[d].how \in Paths
    BY <1>1, <1>3 DEF WholeInv, WorkOK
  <2>2. ~(Undo(c) /\ t = req[c].t)
    <3>1. c # d => ~(Undo(c) /\ t = req[c].t)
      BY <2>1 DEF OnboardOK, Undo
    <3>2. c = d => ~Undo(c)
      BY <1>3 DEF Undo, Working
    <3> QED
      BY <3>1, <3>2
  <2> QED
    BY <1>2, <1>3, <2>1, <2>2
<1>4. CASE d = c /\ Moves(c)
  <2>1. req[c].op = "onboard" /\ req[c].t = t /\ OnboardMoves(c)
    BY <1>1, <1>4 DEF Moves
  <2>2. CASE MakeSettings(c) /\ req'[c].how \in Paths
    <3>1. tenant' = [tenant EXCEPT ![t].settings = TRUE]
      BY <2>1, <2>2 DEF MakeSettings
    <3>2. t \in Tenants /\ tenant \in [Tenants -> TenantRow]
      BY <2>1, OnboardAt DEF TypeInv, Tables
    <3>3. tenant'[t].settings
      BY <3>1, <3>2 DEF TenantRow
    <3> QED
      BY <1>4, <2>2, <3>3
  <2>3. CASE req'[c].how = req[c].how /\ req[c].at \in Working
    <3>1. tenant[t].settings /\ req[c].how \in Paths /\ ~Undo(c)
      BY <2>1, <2>3 DEF WholeInv, WorkOK, Undo, Working
    <3> QED
      BY <1>2, <1>4, <2>1, <2>3, <3>1
  <2> QED
    BY <1>4, <2>1, <2>2, <2>3 DEF OnboardMoves, UndoOrder, Working
<1>5. ~(d = c /\ Starts(c))
  BY NobodyApart DEF Starts, Attached, Working
<1>6. ~(d = c /\ Finishes(c))
  BY IdleIs DEF Finishes
<1> QED
  BY <1>0, <1>3, <1>4, <1>5, <1>6 DEF Flow, Rest

LEMMA Finished ==
    ASSUME TypeInv, OnboardOK, WholeInv, NEW c \in Clients, Acts(c), req[c].op = "onboard", Finishes(c),
           NEW t, t = req[c].t, tenant'[t].status # "none"
    PROVE  CutAt(t)' \/ Complete(t)'
<1>0. t \in Tenants /\ req[c].u \in Users /\ tenant \in [Tenants -> TenantRow] /\ Shapes
      /\ Nobody \notin Users
  BY OnboardAt, ActsAre DEF TypeInv, Tables
<1>1. CASE NameOwner(c)
  <2>1. tenant' = [tenant EXCEPT ![t].owner = req[c].u]
    BY <1>1 DEF NameOwner
  <2>2. tenant[t].settings
    BY <1>1 DEF WholeInv, WorkOK, Working, NameOwner, At
  <2>3. tenant'[t].settings /\ tenant'[t].owner = req[c].u
    BY <1>0, <2>1, <2>2 DEF TenantRow
  <2> QED
    BY <1>0, <2>3 DEF Complete
<1>2. CASE Dies(c)
  <2>1. <<req[c].u, t>> \in cut'
    BY <1>2 DEF Dies
  <2> QED
    BY <1>0, <2>1 DEF CutAt
<1>3. CASE Undo(c) /\ req[c].at = "undo_tenant"
  <2>1. \/ <<req[c].u, t>> \in cut'
        \/ tenant' = [tenant EXCEPT ![t] = NoTenant]
    BY <1>3 DEF Undo
  <2>2. tenant' # [tenant EXCEPT ![t] = NoTenant]
    BY <1>0, NoTenantIs
  <2> QED
    BY <1>0, <2>1, <2>2 DEF CutAt
<1>4. CASE Staff(c)
  <2>1. req[c].how \in Paths
    BY <1>4 DEF WholeInv, WorkOK, Working, Staff, At
  <2>2. Throws(c) \/ Goes(c, "clear") \/ Goes(c, "token") \/ Goes(c, "flags")
    BY <1>4, <2>1 DEF Staff, Paths
  <2>3. req'[c].op = "onboard"
    BY <1>0, <2>2, GoesTo DEF Throws, SameBut
  <2> QED
    BY <2>3, IdleIs DEF Finishes
<1> QED
  BY <1>1, <1>2, <1>3, <1>4 DEF Finishes

LEMMA CompleteStep ==
    ASSUME TypeInv, OnboardOK, WholeInv, NEW c \in Clients, Acts(c), NEW t \in Tenants
    PROVE  CompleteOK(t)'
<1>0. Written(c) /\ Flow(c) /\ Rest(c) /\ ReqOK(req[c], scene.does[c]) /\ cut \subseteq cut'
      /\ Nobody \notin Users /\ Nobody \notin Tenants /\ Shapes
  BY ActsAre
<1> SUFFICES ASSUME tenant'[t].status # "none", ~Onboarding(t)', ~CutAt(t)'
             PROVE  Complete(t)'
  BY DEF CompleteOK
<1>1. ~CutAt(t)
  BY <1>0 DEF CutAt
<1>2. ASSUME NEW d \in Clients, req[d].op = "onboard", req[d].t = t PROVE Complete(t)'
  <2>1. req'[d] # req[d]
    BY <1>2 DEF Onboarding
  <2>2. d = c /\ ~Starts(c) /\ ~Moves(c)
    <3>1. d = c
      BY <1>0, <2>1 DEF Rest
    <3>2. ~Starts(c)
      BY <1>2, <3>1, IdleIs DEF Starts
    <3>3. ~Moves(c)
      BY <1>2, <3>1 DEF Moves, Onboarding
    <3> QED
      BY <3>1, <3>2, <3>3
  <2> QED
    BY <1>0, <1>2, <2>1, <2>2, Finished DEF Flow
<1>3. CASE ~Onboarding(t) /\ tenant[t].status = "none"
  <2>1. TenantMove(c, t)
    BY <1>0, TenantTo DEF Written, TenantMove
  <2>2. ~(t = req[c].t /\ req[c].op = "onboard")
    BY <1>3 DEF Onboarding
  <2>3. tenant[t] = NoTenant /\ ~(CommitDeleteUser(c) /\ tenant[t].owner = req[c].u)
    <3>1. tenant[t] = NoTenant
      BY <1>3 DEF WholeInv, EmptyOK, Empty
    <3>2. CommitDeleteUser(c) => req[c].u \in Users
      BY <1>0 DEF CommitDeleteUser, At, ReqOK
    <3> QED
      BY <1>0, <3>1, <3>2, NoTenantIs
  <2>4. PICK u \in scene.about : BeginOnboard(c, u, t)
    BY <1>3, <2>1, <2>2, <2>3 DEF TenantMove, MakeSettings, NameOwner, Undo, At
  <2>5. req'[c].op = "onboard" /\ req'[c].t = t
    <3> DEFINE q == Task("onboard", "settings", u, t, "none", {OwnerRole})
    <3>1. Asks(c, q) /\ q.op = "onboard" /\ q.t = t
      BY <2>4, TaskFields DEF BeginOnboard
    <3> HIDE DEF q
    <3> QED
      BY <1>0, <3>1, AsksTo
  <2> QED
    BY <2>5 DEF Onboarding
<1>4. CASE ~Onboarding(t) /\ tenant[t].status # "none"
  <2>1. Complete(t)
    BY <1>1, <1>4 DEF WholeInv, CompleteOK
  <2>2. TenantMove(c, t)
    BY <1>0, TenantTo DEF Written, TenantMove
  <2>3. ~(t = req[c].t /\ req[c].op = "onboard")
    BY <1>4 DEF Onboarding
  <2>4. ~(Undo(c) /\ t = req[c].t) /\ ~(NameOwner(c) /\ t = req[c].t)
    BY <2>3 DEF Undo, NameOwner, At
  <2> QED
    BY <1>0, <1>4, <2>1, <2>2, <2>4 DEF TenantMove, Complete
<1> QED
  BY <1>2, <1>3, <1>4 DEF Onboarding

LEMMA WholeSame ==
    ASSUME WholeInv, UNCHANGED <<member, tenant, cut, req, roles, override>>,
           \A i \in Rows : session'[i].tenant = session[i].tenant
    PROVE  WholeInv'
<1>1. ASSUME NEW t \in Tenants PROVE EmptyOK(t)' /\ CompleteOK(t)'
  <2>1. EmptyOK(t) /\ CompleteOK(t)
    BY DEF WholeInv
  <2> QED
    BY <2>1 DEF EmptyOK, Empty, SessionsIn, CompleteOK, Complete, Onboarding, CutAt
<1>2. \A c \in Clients : WorkOK(c)'
  BY DEF WholeInv, WorkOK
<1> QED
  BY <1>1, <1>2 DEF WholeInv

LEMMA WholeInit == Init => WholeInv
<1> SUFFICES ASSUME Init PROVE WholeInv
  OBVIOUS
<1>0. PICK s \in Scenes : scene = s.play /\ user = s.user /\ member = s.member /\ tenant = s.tenant
                          /\ roles = s.roles
  BY DEF Init
<1>1. /\ \A c \in Clients : req[c] = Idle
      /\ \A t \in Tenants : override[t] = "none"
      /\ \A i \in Rows : session[i].tenant = Nobody
      /\ Nobody \notin Tenants
  BY AccountsAssumption DEF Init, AccountsInit, NoRow
<1>2. \A t \in Tenants : IF tenant[t].status = "none" THEN tenant[t] = NoTenant
                         ELSE tenant[t].settings /\ tenant[t].owner # Nobody
  BY <1>0, StartsAssumption
<1>3. \A u \in Users, t \in Tenants : /\ member[u][t] # "none" => tenant[t].status # "none"
                                      /\ roles[u][t] # {} => member[u][t] # "none"
  BY <1>0, StartsAssumption
<1>4. ASSUME NEW t \in Tenants PROVE EmptyOK(t) /\ CompleteOK(t)
  BY <1>1, <1>2, <1>3 DEF EmptyOK, Empty, SessionsIn, CompleteOK, Complete
<1>5. \A c \in Clients : WorkOK(c)
  BY <1>1, IdleIs DEF WorkOK
<1> QED
  BY <1>4, <1>5 DEF WholeInv

(* tenants.service onboard with its catch block: however onboardings       *)
(* interleave with invitations, roles, sign-ins, status changes and one    *)
(* another, and wherever one fails, a workspace nobody is onboarding is    *)
(* complete or has left nothing behind, unless the undoing itself failed   *)
(* or died.                                                                *)
THEOREM OnboardedWhole == Spec => []OnboardingWhole
<1>1. TypeInv /\ OnboardOK /\ WholeInv /\ [Next]_vars => WholeInv'
  <2> SUFFICES ASSUME TypeInv, OnboardOK, WholeInv, [Next]_vars PROVE WholeInv'
    OBVIOUS
  <2>1. ASSUME NEW c \in Clients, Acts(c) PROVE WholeInv'
    <3>1. ASSUME NEW t \in Tenants PROVE EmptyOK(t)'
      <4>1. EmptyOK(t)
        BY DEF WholeInv
      <4> QED
        BY <2>1, <4>1, StaysEmpty, GoesEmpty DEF EmptyOK
    <3>2. \A t \in Tenants : CompleteOK(t)'
      BY <2>1, CompleteStep
    <3>3. \A d \in Clients : WorkOK(d)'
      BY <2>1, WorkStep
    <3> QED
      BY <3>1, <3>2, <3>3 DEF WholeInv
  <2>2. CASE TimeStep /\ UNCHANGED officeVars
    <3>1. \A i \in Rows : session'[i].tenant = session[i].tenant
      BY <2>2, TimeTables, TypeNext DEF TypeInv, AuthInv, Aged
    <3> QED
      BY <2>2, <3>1, WholeSame DEF TimeStep, WindowPasses, Expire, officeVars
  <2>3. CASE UNCHANGED vars
    BY <2>3, WholeSame DEF vars, officeVars
  <2> QED
    BY <2>1, <2>2, <2>3 DEF Next, Acts
<1>2. WholeInv => OnboardingWhole
  <2> SUFFICES ASSUME WholeInv, NEW t \in Tenants
               PROVE  Onboarding(t) \/ CutAt(t) \/ (IF tenant[t].status = "none" THEN Empty(t) ELSE Complete(t))
    BY NoTenantIs DEF OnboardingWhole, Onboarding, CutAt, Empty, Complete
  <2> QED
    BY DEF WholeInv, EmptyOK, CompleteOK
<1> QED
  BY <1>1, <1>2, TypeInit, TypeNext, OnboardInit, OnboardNext, WholeInit, PTL DEF Spec
=============================================================================
