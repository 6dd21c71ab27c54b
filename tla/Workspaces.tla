----------------------------- MODULE Workspaces -----------------------------
(***************************************************************************)
(* Workspaces of the SupplyKhata back end and who works in them: invitations, *)
(* members and their roles (users.service.ts, roles.service.ts), onboarding  *)
(* and status of tenants (tenants.service.ts), feature flags.  Composed with *)
(* Accounts: closing a workspace or a membership signs users out.            *)
(*                                                                         *)
(* None of these handlers runs in a transaction except where it says so:   *)
(* every write is a step of its own, and a request can end before any.     *)
(***************************************************************************)
EXTENDS Accounts

CONSTANTS OwnerRole,       \* the system role tenant_owner
          SystemRoles,     \* roles shared by all workspaces
          CustomRoles,     \* roles a workspace makes for itself
          Permissions, PlatformOnly, Gated, \* all; those of SA_ONLY modules; behind the flag
          StaffPermission  \* what users:* and roles:* ask for

VARIABLES
    roles,     \* [u][t]: user_roles
    made,      \* the custom roles that exist
    grants,    \* [r]: role_permissions
    flag,      \* the feature flag: isActive, isGlobal
    override   \* [t]: tenant_features for that flag

officeVars == <<roles, made, grants, flag, override>>
vars == <<user, member, tenant, session, failed, revoked, cut, req, scene, officeVars>>

Roles == SystemRoles \cup CustomRoles
Overrides == {"none", "on", "off"}
NoTenant == [status |-> "none", gone |-> FALSE, settings |-> FALSE, owner |-> Nobody, orphan |-> FALSE]

\* The tables a scene starts from are those that the program leaves behind.
ASSUME StartsAssumption ==
    /\ OwnerRole \in SystemRoles /\ StaffPermission \in Permissions /\ PlatformOnly \subseteq Permissions
    /\ \A s \in Scenes :
          /\ s.user \in [Users -> UserRow] /\ s.member \in [Users -> [Tenants -> MemberStatus]]
          /\ s.tenant \in [Tenants -> TenantRow] /\ s.roles \in [Users -> [Tenants -> SUBSET SystemRoles]]
          /\ s.play.words \in 0..MaxPassword /\ s.play.about \subseteq Users
          /\ \A t \in Tenants : IF s.tenant[t].status = "none" THEN s.tenant[t] = NoTenant
                                ELSE s.tenant[t].settings /\ s.tenant[t].owner # Nobody
          /\ \A u \in Users, t \in Tenants :
                /\ s.member[u][t] # "none" => s.tenant[t].status # "none"
                /\ s.roles[u][t] # {} => s.member[u][t] # "none"
Exists(r) == r \in SystemRoles \cup made

(* Guards: JwtStrategy, TenantGuard, PermissionsGuard; feature-flag evaluation. *)
Granted(u, t) == UNION {grants[r] : r \in roles[u][t]}
Manages(a, t) ==
    /\ tenant[t].status # "none"
    /\ a \in Supers \/ (Admitted(a, t) /\ StaffPermission \in Granted(a, t))
ManagedFor(u, t) == \E a \in Users \ {u} : Manages(a, t)
FlagOn(t) == flag.active /\ (override[t] = "on" \/ (override[t] = "none" /\ flag.global))
Catalog(t) == (Permissions \ PlatformOnly) \ (IF FlagOn(t) THEN {} ELSE Gated)
Assignable(rs) == \A r \in rs : Exists(r)

Task(op, at, u, t, how, arg) == [Frame(op, at, u, t, 0, 0) EXCEPT !.how = how, !.arg = arg]
Ask(c, op, at, u, t) == Asks(c, Frame(op, at, u, t, 0, 0))

ThrowsAway(c) == Ends(c)

\* An await that throws: onboarding goes to its catch block, other requests just end.
Throws(c) == IF req[c].op = "onboard" THEN Goes(c, "undo_flags") ELSE Ends(c)

-----------------------------------------------------------------------------
(* invite, also as part of onboarding. *)

InvitePath(u, t) ==
    CASE user[u].state = "none" -> "new"
      [] user[u].state = "deleted" -> "restored"
      [] user[u].state = "live" /\ member[u][t] # "none" -> "conflict"
      [] user[u].state = "live" /\ member[u][t] = "none" /\ ~user[u].verified -> "again"
      [] user[u].state = "live" /\ member[u][t] = "none" /\ user[u].verified -> "enrol"

Lookup(c, frame) ==
    LET path == InvitePath(frame.u, frame.t) IN
    Asks(c, [frame EXCEPT !.how = path,
                          !.at = IF path \in {"new", "restored"} THEN "person" ELSE "enrol"])

BeginInvite(c, u, t, rs) ==
    /\ May(c, "invite")
    /\ ManagedFor(u, t)
    /\ InvitePath(u, t) # "conflict"
    /\ Lookup(c, Task("invite", "none", u, t, "none", rs))
    /\ UNCHANGED <<user, member, tenant, authVars, cut, scene, officeVars>>

BeginCreate(c, u, t, rs) ==
    /\ May(c, "create")
    /\ ManagedFor(u, t)
    /\ InvitePath(u, t) # "conflict"
    /\ Asks(c, Task("create", "person", u, t,
                     IF user[u].state = "none" THEN "new" ELSE "known", rs))
    /\ UNCHANGED <<user, member, tenant, authVars, cut, scene, officeVars>>

\* create gives an account a password, whoever it belongs to; e-mail addresses are unique.
Person(c) ==
    /\ At(c, {"invite", "onboard", "create"}, "person")
    /\ LET u == req[c].u
           sets == req[c].op = "create"
       IN IF req[c].how = "new" /\ user[u].state # "none"
          THEN Throws(c) /\ UNCHANGED user
          ELSE /\ sets => user[u].password < scene.words
               /\ user' = [user EXCEPT ![u].state = "live", ![u].verified = @ \/ sets,
                                       ![u].password = IF sets THEN @ + 1 ELSE @]
               /\ Goes(c, "enrol")
    /\ UNCHANGED <<member, tenant, authVars, cut, scene, officeVars>>

\* The pair (user, tenant) is unique: the row of a member is updated only on a restore.
Enrol(c) ==
    /\ At(c, {"invite", "onboard", "create"}, "enrol")
    /\ LET u == req[c].u
           t == req[c].t
       IN IF tenant[t].status = "none" \/ (member[u][t] # "none" /\ req[c].how # "restored")
          THEN Throws(c) /\ UNCHANGED member
          ELSE /\ member' = [member EXCEPT ![u][t] =
                     IF req[c].op = "create" \/ req[c].how = "enrol" THEN "ACTIVE" ELSE "INVITED"]
               /\ Goes(c, "staff")
    /\ UNCHANGED <<user, tenant, authVars, cut, scene, officeVars>>

\* syncRoles: the roles are checked only now, and only added.
Staff(c) ==
    /\ At(c, {"invite", "onboard", "create"}, "staff")
    /\ IF Assignable(req[c].arg) /\ ~Stray(c)
       THEN /\ roles' = [roles EXCEPT ![req[c].u][req[c].t] = @ \cup req[c].arg]
            /\ CASE req[c].how = "again" -> Goes(c, "clear")
                 [] req[c].how \in {"new", "restored"} /\ req[c].op # "create" -> Goes(c, "token")
                 [] req[c].op = "onboard" /\ req[c].how = "enrol" -> Goes(c, "flags")
                 [] OTHER -> Ends(c)
       ELSE Throws(c) /\ UNCHANGED roles
    /\ UNCHANGED <<user, member, tenant, authVars, cut, scene, made, grants, flag, override>>

ClearInvites(c) ==
    /\ At(c, {"invite", "onboard", "resend"}, "clear")
    /\ session' = Without({i \in SessionsOf(req[c].u) :
                              session[i].tenant = req[c].t /\ session[i].kind = "invite"})
    /\ Goes(c, "token")
    /\ UNCHANGED <<user, member, tenant, failed, revoked, cut, scene, officeVars>>

SendInviteToken(c) ==
    /\ At(c, {"invite", "onboard", "resend"}, "token")
    /\ IF Stray(c)
       THEN Throws(c) /\ UNCHANGED session
       ELSE /\ Spare
            /\ Issue("invite", req[c].u, req[c].t)
            /\ IF req[c].op = "onboard" THEN Goes(c, "flags") ELSE Ends(c)
    /\ UNCHANGED <<user, member, tenant, failed, revoked, cut, scene, officeVars>>

\* resendInviteEmail, for a member who has not finished; a joined one only gets mail.
BeginResend(c, u, t) ==
    /\ May(c, "resend")
    /\ ManagedFor(u, t)
    /\ user[u].state = "live" /\ member[u][t] # "none"
    /\ member[u][t] = "INVITED" \/ ~user[u].verified
    /\ Ask(c, "resend", IF member[u][t] = "INVITED" THEN "clear" ELSE "again", u, t)
    /\ UNCHANGED <<user, member, tenant, authVars, cut, scene, officeVars>>

-----------------------------------------------------------------------------
(* Members: deactivate, reactivate, resend's status, remove, platform deletion, update. *)

BeginStatus(c, op, from, to, u, t) ==
    /\ May(c, op)
    /\ ManagedFor(u, t)
    /\ member[u][t] \in from
    /\ Asks(c, Task(op, "member", u, t, to, {}))
    /\ UNCHANGED <<user, member, tenant, authVars, cut, scene, officeVars>>

SetMember(c) ==
    /\ At(c, {"deactivate", "reactivate"}, "member") \/ At(c, {"resend"}, "again")
    /\ IF member[req[c].u][req[c].t] = "none"
       THEN Ends(c) /\ UNCHANGED member
       ELSE /\ member' = [member EXCEPT ![req[c].u][req[c].t] =
                             IF req[c].op = "resend" THEN "INVITED" ELSE req[c].how]
            /\ CASE req[c].op = "deactivate" -> Goes(c, "kick")
                 [] req[c].op = "reactivate" -> Ends(c)
                 [] req[c].op = "resend" -> Goes(c, "clear")
    /\ UNCHANGED <<user, tenant, authVars, cut, scene, officeVars>>

KickNobody(c) ==
    /\ At(c, {"deactivate", "status"}, "kick")
    /\ Ends(c)
    /\ UNCHANGED <<user, member, tenant, authVars, cut, scene, officeVars>>

\* The sessions of the member, or of everyone in a suspended or cancelled workspace.
Kick(c) ==
    /\ At(c, {"deactivate", "status"}, "kick")
    /\ session' = Without({i \in SessionsIn(req[c].t) : req[c].u \in {session[i].user, Nobody}})
    /\ Ends(c)
    /\ UNCHANGED <<user, member, tenant, failed, revoked, cut, scene, officeVars>>

BeginRemove(c, u, t) ==
    /\ May(c, "remove")
    /\ ManagedFor(u, t)
    /\ member[u][t] # "none" /\ tenant[t].owner # u
    /\ Ask(c, "remove", "commit", u, t)
    /\ UNCHANGED <<user, member, tenant, authVars, cut, scene, officeVars>>

CommitRemoveKeepsRoles(c) ==
    /\ At(c, {"remove"}, "commit")
    /\ LET u == req[c].u
           t == req[c].t
       IN IF member[u][t] = "none"
          THEN UNCHANGED <<session, member>>
          ELSE /\ session' = Without(SessionsOf(u) \cap SessionsIn(t))
               /\ member' = [member EXCEPT ![u][t] = "none"]
    /\ Ends(c)
    /\ UNCHANGED <<user, tenant, failed, revoked, cut, scene, officeVars>>

\* One transaction; the delete of the member throws when there is none any more.
CommitRemove(c) ==
    /\ At(c, {"remove"}, "commit")
    /\ LET u == req[c].u
           t == req[c].t
       IN IF member[u][t] = "none"
          THEN UNCHANGED <<roles, session, member>>
          ELSE /\ roles' = [roles EXCEPT ![u][t] = {}]
               /\ session' = Without(SessionsOf(u) \cap SessionsIn(t))
               /\ member' = [member EXCEPT ![u][t] = "none"]
    /\ Ends(c)
    /\ UNCHANGED <<user, tenant, failed, revoked, cut, scene, made, grants, flag, override>>

BeginDeleteUser(c, u) ==
    /\ May(c, "delete_user")
    /\ user[u].state = "live" /\ u \notin Supers
    /\ Ask(c, "delete_user", "commit", u, Nobody)
    /\ UNCHANGED <<user, member, tenant, authVars, cut, scene, officeVars>>

CommitDeleteUser(c) ==
    /\ At(c, {"delete_user"}, "commit")
    /\ LET u == req[c].u IN
       /\ roles' = [roles EXCEPT ![u] = [t \in Tenants |-> {}]]
       /\ session' = Without(SessionsOf(u))
       /\ member' = [member EXCEPT ![u] = [t \in Tenants |-> "none"]]
       /\ tenant' = [t \in Tenants |-> IF tenant[t].owner # u THEN tenant[t]
                         ELSE [tenant[t] EXCEPT !.owner = Nobody, !.orphan = TRUE]]
       /\ user' = [user EXCEPT ![u].state = "deleted"]
    /\ Ends(c)
    /\ UNCHANGED <<failed, revoked, cut, scene, made, grants, flag, override>>

\* update: a manager sets a member's password; nobody is signed out.
AdminPassword(c, u, t) ==
    /\ May(c, "update_user")
    /\ ManagedFor(u, t) /\ member[u][t] # "none"
    /\ user[u].password < scene.words
    /\ user' = [user EXCEPT ![u].password = @ + 1]
    /\ UNCHANGED <<member, tenant, authVars, cut, req, scene, officeVars>>

-----------------------------------------------------------------------------
(* Roles and permissions. *)

BeginAssign(c, u, t, rs) ==
    /\ May(c, "assign")
    /\ ManagedFor(u, t)
    /\ member[u][t] # "none" /\ Assignable(rs)
    /\ \/ Asks(c, Task("assign", "drop", u, t, "none", rs))
       \/ /\ Cardinality(rs) = 1     \* assignRoleToUser adds one
          /\ Asks(c, Task("assign", "add", u, t, "none", rs))
    /\ UNCHANGED <<user, member, tenant, authVars, cut, scene, officeVars>>

DropRoles(c) ==
    /\ At(c, {"assign"}, "drop")
    /\ roles' = [roles EXCEPT ![req[c].u][req[c].t] = @ \cap req[c].arg]
    /\ Goes(c, "add")
    /\ UNCHANGED <<user, member, tenant, authVars, cut, scene, made, grants, flag, override>>

AddRoles(c) ==
    /\ At(c, {"assign"}, "add")
    /\ roles' = [roles EXCEPT ![req[c].u][req[c].t] =
                     @ \cup {r \in req[c].arg : Exists(r) /\ ~Stray(c)}]
    /\ Ends(c)
    /\ UNCHANGED <<user, member, tenant, authVars, cut, scene, made, grants, flag, override>>

RemoveRole(c, u, t, r) ==
    /\ May(c, "assign")
    /\ ManagedFor(u, t)
    /\ r \in roles[u][t]
    /\ roles' = [roles EXCEPT ![u][t] = @ \ {r}]
    /\ UNCHANGED <<user, member, tenant, authVars, cut, req, scene, made, grants, flag, override>>

CreateRole(c, r, t) ==
    /\ May(c, "roles")
    /\ ManagedFor(Nobody, t) /\ r \notin made
    /\ made' = made \cup {r} /\ grants' = [grants EXCEPT ![r] = {}]
    /\ UNCHANGED <<user, member, tenant, authVars, cut, req, scene, roles, flag, override>>

BeginDeleteRole(c, r, t) ==
    /\ May(c, "roles")
    /\ ManagedFor(Nobody, t) /\ r \in made
    /\ \A u \in Users : r \notin roles[u][t]
    /\ Asks(c, Task("delete_role", "commit", Nobody, t, "none", {r}))
    /\ UNCHANGED <<user, member, tenant, authVars, cut, scene, officeVars>>

\* Assignments and grants go with the role (ON DELETE CASCADE).
CommitDeleteRole(c) ==
    /\ At(c, {"delete_role"}, "commit")
    /\ made' = made \ req[c].arg
    /\ roles' = [u \in Users |-> [t \in Tenants |-> roles[u][t] \ req[c].arg]]
    /\ grants' = [r \in Roles |-> IF r \in req[c].arg THEN {} ELSE grants[r]]
    /\ Ends(c)
    /\ UNCHANGED <<user, member, tenant, authVars, cut, scene, flag, override>>

WithdrawnAll(r, ps, reach) == grants[r] \ ps
Withdrawn(r, ps, reach) == (grants[r] \cap reach) \ ps

\* assignPermissions: the difference is taken from an earlier read; a workspace reaches only
\* the permissions of its catalog, a super admin all of them.
BeginGrant(c, a, t, r, ps) ==
    /\ May(c, "grant")
    /\ Manages(a, t) /\ Exists(r)
    /\ LET reach == IF a \in Supers THEN Permissions ELSE Catalog(t) IN
       /\ ps \subseteq reach
       /\ Asks(c, [Task("grant", "commit", a, t, r, ps \ grants[r])
                      EXCEPT !.off = Withdrawn(r, ps, reach)])
    /\ UNCHANGED <<user, member, tenant, authVars, cut, scene, officeVars>>

CommitGrant(c) ==
    /\ At(c, {"grant"}, "commit")
    /\ grants' = [grants EXCEPT ![req[c].how] =
                     IF Exists(req[c].how) THEN (@ \ req[c].off) \cup req[c].arg ELSE @]
    /\ Ends(c)
    /\ UNCHANGED <<user, member, tenant, authVars, cut, scene, roles, made, flag, override>>

\* removePermission deletes one, whatever the catalog says.
RemovePermission(c, t, r, p) ==
    /\ May(c, "roles")
    /\ ManagedFor(Nobody, t) /\ Exists(r) /\ p \in grants[r]
    /\ grants' = [grants EXCEPT ![r] = @ \ {p}]
    /\ UNCHANGED <<user, member, tenant, authVars, cut, req, scene, roles, made, flag, override>>

SetFlag(c) ==
    /\ May(c, "flags")
    /\ \/ \E f \in [active : BOOLEAN, global : BOOLEAN] : flag' = f /\ UNCHANGED override
       \/ \E t \in Tenants, v \in Overrides : tenant[t].status # "none" /\
              override' = [override EXCEPT ![t] = v] /\ UNCHANGED flag
    /\ UNCHANGED <<user, member, tenant, authVars, cut, req, scene, roles, made, grants>>

-----------------------------------------------------------------------------
(* Tenants: onboarding with its manual rollback, status changes, deletion. *)

BeginOnboard(c, u, t) ==
    /\ May(c, "onboard")
    /\ tenant[t].status = "none"
    /\ tenant' = [tenant EXCEPT ![t] = [NoTenant EXCEPT !.status = "PENDING"]]
    /\ Asks(c, Task("onboard", "settings", u, t, "none", {OwnerRole}))
    /\ UNCHANGED <<user, member, authVars, cut, scene, officeVars>>

MakeSettings(c) ==
    /\ At(c, {"onboard"}, "settings")
    /\ tenant' = [tenant EXCEPT ![req[c].t].settings = TRUE]
    /\ IF InvitePath(req[c].u, req[c].t) = "conflict" THEN Throws(c) ELSE Lookup(c, req[c])
    /\ UNCHANGED <<user, member, authVars, cut, scene, officeVars>>

ApplyFlags(c) ==
    /\ At(c, {"onboard"}, "flags")
    /\ \/ UNCHANGED override /\ Goes(c, "owner")     \* no flag is asked for
       \/ ~flag.active /\ UNCHANGED override /\ Throws(c)
       \/ flag.active /\ Goes(c, "owner") /\ \E v \in {"on", "off"} :
             override' = [override EXCEPT ![req[c].t] = v]
    /\ UNCHANGED <<user, member, tenant, authVars, cut, scene, roles, made, grants, flag>>

NameOwner(c) ==
    /\ At(c, {"onboard"}, "owner")
    /\ tenant' = [tenant EXCEPT ![req[c].t].owner = req[c].u]
    /\ Ends(c)
    /\ UNCHANGED <<user, member, authVars, cut, scene, officeVars>>

\* The catch block, delete by delete.  Foreign keys keep a workspace that has settings, roles
\* or overrides (again); its members go with it (ON DELETE CASCADE), its sessions stay,
\* without a workspace (ON DELETE SET NULL).
Referenced(t) == tenant[t].settings \/ override[t] # "none" \/ \E u \in Users : roles[u][t] # {}

Undo(c) ==
    /\ req[c].op = "onboard"
    /\ LET t == req[c].t IN
       \/ /\ req[c].at = "undo_flags" /\ override' = [override EXCEPT ![t] = "none"]
          /\ Goes(c, "undo_settings") /\ UNCHANGED <<tenant, member, roles, session>>
       \/ /\ req[c].at = "undo_settings" /\ tenant' = [tenant EXCEPT ![t].settings = FALSE]
          /\ Goes(c, "undo_members") /\ UNCHANGED <<override, member, roles, session>>
       \/ /\ req[c].at = "undo_members"
          /\ member' = [u \in Users |-> [member[u] EXCEPT ![t] = "none"]]
          /\ Goes(c, "undo_roles") /\ UNCHANGED <<override, tenant, roles, session>>
       \/ /\ req[c].at = "undo_roles" /\ roles' = [u \in Users |-> [roles[u] EXCEPT ![t] = {}]]
          /\ Goes(c, "undo_tenant") /\ UNCHANGED <<override, tenant, member, session>>
       \/ /\ req[c].at = "undo_tenant"
          /\ IF Referenced(t)
             THEN cut' = cut \cup {<<req[c].u, t>>} /\ UNCHANGED <<tenant, member, session>>
             ELSE /\ tenant' = [tenant EXCEPT ![t] = NoTenant]
                  /\ member' = [u \in Users |-> [member[u] EXCEPT ![t] = "none"]]
                  /\ session' = [i \in Rows |-> [session[i] EXCEPT !.tenant = IF @ = t THEN Nobody ELSE @]]
                  /\ UNCHANGED cut
          /\ Ends(c) /\ UNCHANGED <<override, roles>>
    /\ req[c].at # "undo_tenant" => UNCHANGED cut
    /\ UNCHANGED <<user, failed, revoked, scene, made, grants, flag>>

BeginTenantStatus(c, t, s) ==
    /\ May(c, "status")
    /\ tenant[t].status \notin {"none", s} /\ ~tenant[t].gone
    /\ Asks(c, Task("status", "write", Nobody, t, s, {}))
    /\ UNCHANGED <<user, member, tenant, authVars, cut, scene, officeVars>>

SetTenantStatus(c) ==
    /\ At(c, {"status"}, "write")
    /\ IF tenant[req[c].t].status = "none"
       THEN Ends(c) /\ UNCHANGED tenant
       ELSE /\ tenant' = [tenant EXCEPT ![req[c].t].status = req[c].how]
            /\ IF req[c].how = "ACTIVE" THEN Ends(c) ELSE Goes(c, "kick")
    /\ UNCHANGED <<user, member, authVars, cut, scene, officeVars>>

\* delete is one transaction; update may name any user as the owner.
DeleteTenant(c, t) ==
    /\ May(c, "delete_tenant")
    /\ tenant[t].status # "none" /\ ~tenant[t].gone
    /\ session' = Without(SessionsIn(t))
    /\ tenant' = [tenant EXCEPT ![t].gone = TRUE]
    /\ UNCHANGED <<user, member, failed, revoked, cut, req, scene, officeVars>>

UpdateTenant(c, t, u) ==
    /\ May(c, "update_tenant")
    /\ tenant[t].status # "none" /\ ~tenant[t].gone
    /\ tenant' = [tenant EXCEPT ![t].owner = u, ![t].settings = TRUE]
    /\ UNCHANGED <<user, member, authVars, cut, req, scene, officeVars>>

-----------------------------------------------------------------------------
(* Failures: an await of onboarding throws; a process dies; an undo throws. *)

Breaks(c) ==
    /\ scene.breaks
    /\ req[c].op = "onboard" /\ req[c].at \in {"settings", "person", "enrol", "staff", "clear", "token", "flags", "owner"}
    /\ Throws(c)
    /\ UNCHANGED <<user, member, tenant, authVars, cut, scene, officeVars>>

Dies(c) ==
    /\ scene.breaks
    /\ req[c] # Idle
    /\ cut' = IF req[c].op = "onboard" \/ req[c].at = "kick" THEN cut \cup {<<req[c].u, req[c].t>>} ELSE cut
    /\ Ends(c)
    /\ UNCHANGED <<user, member, tenant, authVars, scene, officeVars>>

OfficeStep(c) ==
    \/ \E u \in scene.about, t \in Tenants, rs \in SUBSET Roles :
          BeginInvite(c, u, t, rs) \/ BeginCreate(c, u, t, rs) \/ BeginAssign(c, u, t, rs)
    \/ Person(c) \/ Enrol(c) \/ Staff(c) \/ ClearInvites(c) \/ SendInviteToken(c)
    \/ \E u \in scene.about, t \in Tenants :
          \/ BeginResend(c, u, t) \/ BeginRemove(c, u, t) \/ AdminPassword(c, u, t)
          \/ BeginStatus(c, "deactivate", {"INVITED", "ACTIVE"}, "INACTIVE", u, t)
          \/ BeginStatus(c, "reactivate", {"INACTIVE"}, "ACTIVE", u, t)
          \/ BeginOnboard(c, u, t) \/ UpdateTenant(c, t, u)
          \/ \E r \in Roles : RemoveRole(c, u, t, r)
    \/ SetMember(c) \/ Kick(c) \/ CommitRemove(c) \/ CommitDeleteUser(c)
    \/ \E u \in scene.about : BeginDeleteUser(c, u)
    \/ DropRoles(c) \/ AddRoles(c) \/ CommitDeleteRole(c) \/ CommitGrant(c) \/ SetFlag(c)
    \/ \E r \in CustomRoles, t \in Tenants : CreateRole(c, r, t) \/ BeginDeleteRole(c, r, t)
    \/ \E r \in Roles, t \in Tenants, p \in Permissions : RemovePermission(c, t, r, p)
    \/ \E a \in Users, t \in Tenants, r \in Roles, ps \in SUBSET Permissions : BeginGrant(c, a, t, r, ps)
    \/ MakeSettings(c) \/ ApplyFlags(c) \/ NameOwner(c) \/ Undo(c)
    \/ \E t \in Tenants, s \in {"ACTIVE", "SUSPENDED", "CANCELLED"} : BeginTenantStatus(c, t, s)
    \/ SetTenantStatus(c)
    \/ \E t \in Tenants : DeleteTenant(c, t)
    \/ Breaks(c) \/ Dies(c)

Init ==
    /\ AccountsInit
    /\ \E s \in Scenes : /\ scene = s.play /\ user = s.user /\ member = s.member
                         /\ tenant = s.tenant /\ roles = s.roles
    /\ made = {}
    /\ grants = [r \in Roles |-> IF r \in SystemRoles THEN {StaffPermission} \cup PlatformOnly ELSE {}]
    /\ flag = [active |-> TRUE, global |-> FALSE]
    /\ override = [t \in Tenants |-> "none"]

Next == \/ \E c \in Clients : (SignInStep(c) /\ UNCHANGED officeVars) \/ OfficeStep(c)
        \/ TimeStep /\ UNCHANGED officeVars
Spec == Init /\ [][Next]_vars

-----------------------------------------------------------------------------
(* Which requests overlap in a scene.  The sign-outs and the roles below   *)
(* do not survive every overlap: these say which ones they do survive.     *)
Does(play, c, ops) == play.does[c] \cap ops # {}
SigningIn(play) == \E c \in Clients : Does(play, c, {"login", "mistype", "switch", "refresh"})

\* While somebody signs in, no invitation is sent: one that reaches a deleted account, or a
\* resend that crosses the joining, takes a member back to INVITED and leaves the sessions.
SignInsApart ==
    \A s \in Scenes : SigningIn(s.play) =>
        \A c \in Clients : ~Does(s.play, c, {"invite", "resend", "onboard"})

\* Nobody takes members away while another request gives roles: the membership is not looked
\* at again when the roles are written.
RolesApart ==
    \A s \in Scenes : \A c, d \in Clients : c # d =>
        /\ ~(Does(s.play, c, {"invite", "create", "assign", "onboard"})
             /\ Does(s.play, d, {"remove", "delete_user"}))
        /\ ~(Does(s.play, c, {"invite", "create", "assign"}) /\ Does(s.play, d, {"onboard"}))

-----------------------------------------------------------------------------
(* Properties *)

TypeOK ==
    /\ user \in [Users -> UserRow]
    /\ member \in [Users -> [Tenants -> MemberStatus]]
    /\ tenant \in [Tenants -> TenantRow]
    /\ session \in [Rows -> SessionRow]
    /\ roles \in [Users -> [Tenants -> SUBSET Roles]]
    /\ made \subseteq CustomRoles
    /\ grants \in [Roles -> SUBSET Permissions]

\* Nobody holds a role in a workspace they are not a member of, so that an invitation never
\* revives the roles of an earlier membership (the catch block of onboarding, which deletes
\* the members before the roles, excepted while it runs or when it died).  The rows are
\* well typed.
RolesHaveMembers ==
    /\ TypeOK
    /\ \A u \in Users, t \in Tenants : roles[u][t] # {} =>
           \/ member[u][t] # "none"
           \/ \E v \in Users : <<v, t>> \in cut
           \/ \E c \in Clients : At(c, {"onboard"}, "undo_roles") /\ req[c].t = t

\* Onboarding is all or nothing, although it is undone by hand: once no request is at work
\* on a workspace and none died there, it is there with its settings and an owner (unless
\* its owner was deleted), or it has left no member, role, override or session behind.
OnboardingWhole ==
    \A t \in Tenants :
        \/ \E c \in Clients : req[c].op = "onboard" /\ req[c].t = t
        \/ \E v \in Users : <<v, t>> \in cut
        \/ IF tenant[t].status = "none"
           THEN /\ \A u \in Users : member[u][t] = "none" /\ roles[u][t] = {}
                /\ override[t] = "none" /\ ~tenant[t].settings /\ SessionsIn(t) = {}
           ELSE /\ tenant[t].settings
                /\ tenant[t].owner = Nobody => tenant[t].orphan

\* The set of permissions a workspace gives to a role replaces only what its catalog shows:
\* a grant of a platform module survives it, though the difference is computed from an earlier read.
HiddenGrantsKept ==
    [][\A c \in Clients : At(c, {"grant"}, "commit") /\ req[c].u \notin Supers =>
          \A p \in PlatformOnly : \A r \in Roles :
              req'[c] # req[c] => (p \in grants[r] <=> p \in grants'[r])]_vars
=============================================================================
