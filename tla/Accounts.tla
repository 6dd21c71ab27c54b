------------------------------ MODULE Accounts ------------------------------
(***************************************************************************)
(* Sign-in of the SupplyKhata back end (auth.service.ts): passwords,       *)
(* sessions and their rotation, one-time tokens, second factor.            *)
(*                                                                         *)
(* A request is a sequence of awaits: req[c] holds what client c has read  *)
(* and the await at which it stands.  A row of user_sessions keeps its     *)
(* place when it is deleted, so that the history can be talked about.      *)
(***************************************************************************)
EXTENDS Naturals, FiniteSets

CONSTANTS Users, Supers,      \* user accounts; those with isSuperAdmin
          Tenants, Nobody,    \* workspaces; the null of every reference
          Clients,            \* requests that can be under way at once
          MaxSessions,        \* bound: rows ever made in user_sessions
          MaxPassword,        \* bound: times a password is set
          MaxAttempts,        \* LOGIN_MAX_ATTEMPTS
          Scenes              \* what the clients do (play), and the tables they start from

ASSUME AccountsAssumption ==
    /\ Supers \subseteq Users
    /\ Nobody \notin Users \cup Tenants
    /\ IsFiniteSet(Clients)
    /\ MaxSessions \in Nat /\ MaxPassword \in Nat /\ MaxAttempts \in Nat \ {0}

VARIABLES
    user,      \* [u]: the row of users
    member,    \* [u][t]: status of the membership, "none" without a row
    tenant,    \* [t]: the row of tenants
    session,   \* [i]: the rows of user_sessions
    failed,    \* [u]: failed login attempts within the lockout window
    revoked,   \* [u]: history: the password with which all sessions were last deleted
    cut,       \* history: <<u, t>> (or <<Nobody, t>>) whose closing or onboarding died half-way
    req,       \* [c]: the request of client c
    scene      \* what this behaviour plays: which client makes which requests, about whom

authVars == <<session, failed, revoked>>

\* A request: what it does, the await it stands at, the user, workspace and session it is about.
Frame(op, at, u, t, s, pw) == [op |-> op, at |-> at, how |-> "none", u |-> u, t |-> t, s |-> s,
                               pw |-> pw, arg |-> {}, off |-> {}]
Idle == Frame("none", "none", Nobody, Nobody, 0, 0)
NoRow == [kind |-> "none", state |-> "gone", user |-> Nobody, tenant |-> Nobody,
          from |-> 0, pw |-> 0, late |-> FALSE]
Rows == 1..MaxSessions

\* orphan is history: the owner was deleted.
TenantRow == [status : {"none", "PENDING", "ACTIVE", "SUSPENDED", "CANCELLED"}, gone : BOOLEAN,
              settings : BOOLEAN, owner : Users \cup {Nobody}, orphan : BOOLEAN]
UserRow == [state : {"none", "live", "deleted"}, verified : BOOLEAN,
            password : 0..MaxPassword, totp : {"off", "setup", "on"}]
MemberStatus == {"none", "INVITED", "ACTIVE", "INACTIVE"}
SessionRow == [kind : {"none", "login", "reset", "invite", "verify"},
               state : {"pending", "open", "expired", "gone"},
               user : Users \cup {Nobody}, tenant : Tenants \cup {Nobody},
               from : 0..MaxSessions, pw : 0..MaxPassword, late : BOOLEAN]

May(c, op) == req[c] = Idle /\ op \in scene.does[c]
Asks(c, r) == req' = [req EXCEPT ![c] = r]
Goes(c, at) == Asks(c, [req[c] EXCEPT !.at = at])
Ends(c) == Asks(c, Idle)
At(c, ops, at) == req[c].op \in ops /\ req[c].at = at

\* What becomes of the rows in S when they are deleted.
Without(S) == [i \in Rows |-> IF i \in S THEN [session[i] EXCEPT !.state = "gone"] ELSE session[i]]
SessionsOf(u) == {i \in Rows : session[i].user = u}
SessionsIn(t) == {i \in Rows : session[i].tenant = t}
Unused == {i \in Rows : session[i].kind = "none"}
Spare == Unused # {} /\ MaxSessions - Cardinality(Unused) < scene.rows   \* bounds
NewRow == CHOOSE i \in Unused : TRUE

(* Who may act for a workspace: JwtStrategy.validate and the sign-in queries. *)
Usable(t) == tenant[t].status = "ACTIVE" /\ ~tenant[t].gone
Workspaces(u) == {t \in Tenants : member[u][t] = "ACTIVE" /\ Usable(t)}
Admitted(u, t) ==
    /\ user[u].state = "live"
    /\ u \in Supers \/ t = Nobody \/
         (member[u][t] \notin {"none", "INACTIVE"} /\ Usable(t))
Entitled(u, t) ==
    user[u].state = "live" /\ (t = Nobody \/ u \in Supers \/ t \in Workspaces(u))

AccountsInit ==
    /\ session = [i \in Rows |-> NoRow]
    /\ failed = [u \in Users |-> 0]
    /\ revoked = [u \in Users |-> 0]
    /\ cut = {}
    /\ req = [c \in Clients |-> Idle]

-----------------------------------------------------------------------------
(* login: the lockout is counted, the user is read, the attempt is recorded. *)

Outcome(u, right) ==
    IF ~(right /\ user[u].state = "live" /\ user[u].password > 0) THEN "reject"
    ELSE IF ~user[u].verified THEN "unverified"
    ELSE IF user[u].totp = "on" THEN "challenge" ELSE "accept"

BeginLoginUnlocked(c, u, right) ==
    /\ May(c, IF right THEN "login" ELSE "mistype")
    /\ failed[u] <= MaxAttempts + Cardinality(Clients)
    /\ Asks(c, Frame("login", Outcome(u, right), u, Nobody, 0, user[u].password))
    /\ UNCHANGED <<user, member, tenant, session, failed, revoked, cut, scene>>

BeginLogin(c, u, right) ==
    /\ May(c, IF right THEN "login" ELSE "mistype")
    /\ failed[u] < MaxAttempts
    /\ Asks(c, Frame("login", Outcome(u, right), u, Nobody, 0, user[u].password))
    /\ UNCHANGED <<user, member, tenant, session, failed, revoked, cut, scene>>

RecordAttempt(c) ==
    /\ req[c].op = "login" /\ req[c].at \in {"reject", "unverified", "challenge", "accept"}
    /\ failed' = [failed EXCEPT ![req[c].u] = IF req[c].at = "reject" THEN @ + 1 ELSE @]
    /\ CASE req[c].at = "accept" -> Goes(c, "pick")
         [] req[c].at = "challenge" -> Goes(c, "totp")
         [] req[c].at \in {"reject", "unverified"} -> Ends(c)
    /\ UNCHANGED <<user, member, tenant, session, revoked, cut, scene>>

WindowPasses(u) ==
    /\ failed[u] > 0
    /\ failed' = [failed EXCEPT ![u] = 0]
    /\ UNCHANGED <<user, member, tenant, session, revoked, cut, req, scene>>

VerifyTotpLogin(c) ==
    /\ At(c, {"login"}, "totp")
    /\ IF user[req[c].u].state = "live" /\ user[req[c].u].totp = "on" THEN Goes(c, "pick") ELSE Ends(c)
    /\ UNCHANGED <<user, member, tenant, authVars, cut, scene>>

\* One workspace is taken at once, one of several is picked with the selection token.
SelectTenant(c) ==
    /\ At(c, {"login"}, "pick")
    /\ LET u == req[c].u IN
       \/ u \in Supers /\ Goes(c, "create")
       \/ u \notin Supers /\ Workspaces(u) = {} /\ Ends(c)
       \/ u \notin Supers /\ \E t \in Workspaces(u) :
              Asks(c, [req[c] EXCEPT !.at = "create", !.t = t])
    /\ UNCHANGED <<user, member, tenant, authVars, cut, scene>>

SwitchTenant(c, i, t) ==
    /\ May(c, "switch")
    /\ session[i].kind = "login" /\ session[i].state # "pending"
    /\ session[i].tenant # t
    /\ Admitted(session[i].user, session[i].tenant)
    /\ t \in Workspaces(session[i].user)
    /\ Asks(c, Frame("switch", "create", session[i].user, t, 0, session[i].pw))
    /\ UNCHANGED <<user, member, tenant, authVars, cut, scene>>

-----------------------------------------------------------------------------
(* generateTokens: the row is created, and sealed with the hash of the token. *)

\* A row for a workspace that is gone by now cannot be inserted (foreign key).
Stray(c) == req[c].t # Nobody /\ tenant[req[c].t].status = "none"

CreateSession(c) ==
    /\ At(c, {"login", "switch", "refresh"}, "create")
    /\ IF Stray(c)
       THEN Ends(c) /\ UNCHANGED session
       ELSE /\ Spare
            /\ session' = [session EXCEPT ![NewRow] =
                  [kind |-> "login", state |-> "pending", user |-> req[c].u, tenant |-> req[c].t,
                   from |-> IF req[c].op = "refresh" THEN req[c].s ELSE 0, pw |-> req[c].pw,
                   late |-> ~Entitled(req[c].u, req[c].t) \/ req[c].pw < revoked[req[c].u]]]
            /\ Asks(c, [req[c] EXCEPT !.at = "seal", !.s = NewRow])
    /\ UNCHANGED <<user, member, tenant, failed, revoked, cut, scene>>

SealSession(c) ==
    /\ At(c, {"login", "switch", "refresh"}, "seal")
    /\ session' = IF session[req[c].s].state = "pending"
                  THEN [session EXCEPT ![req[c].s].state = "open"] ELSE session
    /\ Ends(c)
    /\ UNCHANGED <<user, member, tenant, failed, revoked, cut, scene>>

-----------------------------------------------------------------------------
(* refreshTokens and logout. *)

BeginRefresh(c, i) ==
    /\ May(c, "refresh")
    /\ session[i].kind = "login" /\ session[i].state = "open"
    /\ LET u == session[i].user
           t == session[i].tenant
       IN IF t # Nobody /\ ~Usable(t)
          THEN session' = Without({i}) /\ UNCHANGED req
          ELSE /\ user[u].state = "live"
               /\ Asks(c, Frame("refresh", "rotate", u, t, i, session[i].pw))
               /\ UNCHANGED session
    /\ UNCHANGED <<user, member, tenant, failed, revoked, cut, scene>>

RotateAny(c) ==
    /\ At(c, {"refresh"}, "rotate")
    /\ session' = Without({req[c].s}) /\ Goes(c, "create")
    /\ UNCHANGED <<user, member, tenant, failed, revoked, cut, scene>>

\* delete throws when another refresh, a logout or a revocation has been faster.
Rotate(c) ==
    /\ At(c, {"refresh"}, "rotate")
    /\ IF session[req[c].s].state = "gone"
       THEN Ends(c) /\ UNCHANGED session
       ELSE session' = Without({req[c].s}) /\ Goes(c, "create")
    /\ UNCHANGED <<user, member, tenant, failed, revoked, cut, scene>>

Logout(c, i) ==
    /\ May(c, "logout")
    /\ session[i].kind = "login" /\ session[i].state = "open"
    /\ \/ session' = Without({i})
       \/ session' = Without(SessionsOf(session[i].user))
    /\ UNCHANGED <<user, member, tenant, failed, revoked, cut, req, scene>>

Expire(i) ==
    /\ scene.time
    /\ session[i].state = "open"
    /\ session' = [session EXCEPT ![i].state = "expired"]
    /\ UNCHANGED <<user, member, tenant, failed, revoked, cut, req, scene>>

-----------------------------------------------------------------------------
(* Passwords and one-time tokens. *)

Issue(kind, u, t) ==
    session' = [session EXCEPT ![NewRow] =
        [NoRow EXCEPT !.kind = kind, !.state = "open", !.user = u, !.tenant = t]]

ForgotPassword(c, u) ==
    /\ May(c, "forgot")
    /\ user[u].state = "live" /\ Spare
    /\ Issue("reset", u, Nobody)
    /\ UNCHANGED <<user, member, tenant, failed, revoked, cut, req, scene>>

SendVerification(c, u) ==
    /\ May(c, "send_verification")
    /\ user[u].state = "live" /\ ~user[u].verified /\ Spare
    /\ LET joined == {t \in Tenants : member[u][t] \in {"ACTIVE", "INVITED"}} IN
       \E t \in IF joined = {} THEN {Nobody} ELSE joined : Issue("verify", u, t)
    /\ UNCHANGED <<user, member, tenant, failed, revoked, cut, req, scene>>

\* resetPassword and verifyEmail look the token up, then write one table after the other.
UseToken(c, i) ==
    /\ session[i].state = "open"
    /\ \/ May(c, "reset") /\ session[i].kind \in {"reset", "invite"}
       \/ May(c, "verify") /\ session[i].kind = "verify"
    /\ Asks(c, Frame(session[i].kind, "account", session[i].user, session[i].tenant, i, 0))
    /\ UNCHANGED <<user, member, tenant, authVars, cut, scene>>

SetAccount(c) ==
    /\ At(c, {"reset", "invite", "verify"}, "account")
    /\ LET u == req[c].u
           word == IF req[c].op = "verify" THEN user[u].password ELSE user[u].password + 1
       IN /\ word <= scene.words
          /\ user' = [user EXCEPT ![u].password = word,
                                  ![u].verified = @ \/ req[c].op # "reset"]
          /\ Asks(c, [req[c] EXCEPT !.at = IF req[c].op = "reset" \/ req[c].t = Nobody
                                           THEN "sweep" ELSE "join", !.pw = word])
    /\ UNCHANGED <<member, tenant, authVars, cut, scene>>

Join(c) ==
    /\ At(c, {"invite", "verify"}, "join")
    /\ member' = [member EXCEPT ![req[c].u][req[c].t] = IF @ = "INVITED" THEN "ACTIVE" ELSE @]
    /\ Goes(c, "sweep")
    /\ UNCHANGED <<user, tenant, authVars, cut, scene>>

\* A reset signs the user out everywhere, a verification spends its token.
Sweep(c) ==
    /\ At(c, {"reset", "invite", "verify"}, "sweep")
    /\ IF req[c].op = "verify"
       THEN session' = Without({req[c].s}) /\ UNCHANGED revoked
       ELSE /\ session' = Without(SessionsOf(req[c].u))
            /\ revoked' = [revoked EXCEPT ![req[c].u] = IF req[c].pw > @ THEN req[c].pw ELSE @]
    /\ Ends(c)
    /\ UNCHANGED <<user, member, tenant, failed, cut, scene>>

BeginChange(c, u) ==
    /\ May(c, "change")
    /\ user[u].state = "live" /\ user[u].password > 0
    /\ Asks(c, Frame("change", "commit", u, Nobody, 0, 0))
    /\ UNCHANGED <<user, member, tenant, authVars, cut, scene>>

CommitChange(c) ==
    /\ At(c, {"change"}, "commit")
    /\ LET u == req[c].u IN
       /\ user[u].password < scene.words
       /\ user' = [user EXCEPT ![u].password = @ + 1]
       /\ session' = Without(SessionsOf(u))
       /\ revoked' = [revoked EXCEPT ![u] = user[u].password + 1]
    /\ Ends(c)
    /\ UNCHANGED <<member, tenant, failed, cut, scene>>

\* setupTotp, enableTotp, disableTotp.  Setting up again replaces the secret and leaves
\* the second factor on.
Totp(c, u) ==
    /\ May(c, "totp")
    /\ user[u].state = "live"
    /\ \/ user[u].totp = "off" /\ user' = [user EXCEPT ![u].totp = "setup"]
       \/ user[u].totp = "setup" /\ user' = [user EXCEPT ![u].totp = "on"]
       \/ user[u].totp = "on" /\ user' = [user EXCEPT ![u].totp = "off"]
    /\ UNCHANGED <<member, tenant, authVars, cut, req, scene>>

SignInStep(c) ==
    \/ \E u \in scene.about, right \in BOOLEAN : BeginLogin(c, u, right)
    \/ RecordAttempt(c) \/ VerifyTotpLogin(c) \/ SelectTenant(c)
    \/ \E i \in Rows, t \in Tenants : SwitchTenant(c, i, t)
    \/ CreateSession(c) \/ SealSession(c)
    \/ \E i \in Rows : BeginRefresh(c, i) \/ Logout(c, i) \/ UseToken(c, i)
    \/ Rotate(c) \/ SetAccount(c) \/ Join(c) \/ Sweep(c) \/ CommitChange(c)
    \/ \E u \in scene.about : ForgotPassword(c, u) \/ SendVerification(c, u) \/ Totp(c, u) \/ BeginChange(c, u)

TimeStep == (\E u \in Users : WindowPasses(u)) \/ (\E i \in Rows : Expire(i))

-----------------------------------------------------------------------------
(* Properties *)

\* A refresh token is exchanged at most once: two tabs that refresh with the same cookie,
\* or a retry after a lost answer, never get two sessions out of one.
RotatedOnce == \A i, j \in Rows : session[i].from # 0 /\ session[i].from = session[j].from => i = j

\* The lockout check counts before the attempt is recorded: requests that overlap can pass
\* it together, but no more of them than are under way at once.
LockoutHolds == \A u \in Users : failed[u] < MaxAttempts + Cardinality(Clients)

\* A session that is open belongs to a user who may still use its workspace, and is not
\* older than the last sign-out everywhere (deactivation, removal, suspension, deletion,
\* change and reset of the password).  Excepted are sessions made late, by a request that
\* had read the tables before, and closings that are half-way or died there.
SignedOut ==
    \A i \in Rows : session[i].kind = "login" /\ session[i].state = "open" /\ ~session[i].late =>
        LET u == session[i].user
            t == session[i].tenant
        IN /\ session[i].pw >= revoked[u]
           /\ \/ Entitled(u, t)
              \/ {<<u, t>>, <<Nobody, t>>} \cap cut # {}
              \/ \E c \in Clients : req[c].at = "kick" /\ req[c].t = t /\ req[c].u \in {u, Nobody}
=============================================================================
