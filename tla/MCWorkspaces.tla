---------------------------- MODULE MCWorkspaces ----------------------------
(* Small instance of Workspaces: scenes, each with the requests that two  *)
(* clients make and the tables from which they start.                      *)
EXTENDS Workspaces

CONSTANTS root, ann, eve, t1, t2, owner, clerk, c1, c2

MCScenes ==
    LET asks(one, two) == [c \in Clients |-> IF c = c1 THEN one ELSE two]
        person(state, verified, password) ==
            [state |-> state, verified |-> verified, password |-> password, totp |-> "off"]
        people(a, e) == [u \in Users |-> IF u = root THEN person("live", TRUE, 0) ELSE IF u = ann THEN a ELSE e]
        room(status) == [status |-> status, gone |-> status = "CANCELLED", settings |-> status # "none",
                         owner |-> IF status = "none" THEN Nobody ELSE root, orphan |-> FALSE]
        rooms(a, b) == [t \in Tenants |-> room(IF t = t1 THEN a ELSE b)]
        staff(us, ts, v, none) == [u \in Users |-> [t \in Tenants |-> IF u \in us /\ t \in ts THEN v ELSE none]]
        known == person("live", TRUE, 1)
        stranger == person("none", FALSE, 0)
        world(a, e, ts, ms) ==
            [user |-> people(a, e), tenant |-> ts, member |-> staff({ann}, ms, "ACTIVE", "none"),
             roles |-> staff({ann}, ms, {owner}, {})]
        scene1(does, about, time, breaks, rows, words, start) ==
            [play |-> [does |-> does, about |-> about, time |-> time, breaks |-> breaks, rows |-> rows,
                       words |-> words],
             user |-> start.user, tenant |-> start.tenant, member |-> start.member, roles |-> start.roles]
        home == world(known, stranger, rooms("ACTIVE", "none"), {t1})
    IN {\* ann works in two workspaces: signs in, refreshes in two tabs, changes her password
        scene1(asks({"login", "refresh", "switch"}, {"refresh", "logout", "change"}),
               {ann}, FALSE, FALSE, 3, 2, world(known, stranger, rooms("ACTIVE", "ACTIVE"), {t1, t2})),
        \* she has forgotten it, and signs in with a second factor
        scene1(asks({"login", "mistype", "refresh"}, {"mistype", "forgot", "reset", "totp"}),
               {ann}, TRUE, TRUE, 2, 2, home),
        \* workspaces and memberships are closed while she works there
        scene1(asks({"login", "refresh"},
                    {"deactivate", "reactivate", "status", "remove", "delete_user", "delete_tenant"}),
               {ann}, FALSE, TRUE, 2, 1, home),
        \* eve is unknown: she is invited, joins, is removed, deleted and restored
        scene1(asks({"invite", "resend", "create", "remove", "delete_user", "assign", "deactivate",
                     "reactivate", "update_user"}, {"reset", "verify", "send_verification"}),
               {eve}, FALSE, FALSE, 2, 2, home),
        \* two managers invite, or remove, the same person
        scene1(asks({"invite"}, {"invite"}), {eve}, FALSE, FALSE, 2, 1, home),
        scene1(asks({"remove", "deactivate"}, {"remove"}), {ann}, FALSE, FALSE, 0, 1, home),
        \* two workspaces are onboarded at once, for an owner who is new
        scene1(asks({"onboard"}, {"onboard", "reset"}),
               {eve}, FALSE, TRUE, 2, 1, world(known, stranger, rooms("none", "none"), {})),
        \* a manager sends the invitation again while the onboarding is undone
        scene1(asks({"onboard"}, {"resend"}),
               {eve}, FALSE, TRUE, 2, 1, world(known, stranger, rooms("none", "CANCELLED"), {})),
        \* one is updated and activated while it is onboarded for somebody known
        scene1(asks({"onboard"}, {"status", "update_tenant", "flags"}),
               {ann}, FALSE, TRUE, 0, 1, world(known, stranger, rooms("none", "CANCELLED"), {})),
        \* two managers set the permissions of roles that come and go
        scene1(asks({"grant", "roles"}, {"grant"}),
               {ann}, FALSE, FALSE, 0, 1, home),
        \* a module is switched off and on meanwhile
        scene1(asks({"grant", "onboard"}, {"flags"}), {ann}, FALSE, FALSE, 0, 1, home),
        \* roles are assigned while they come and go
        scene1(asks({"assign", "roles"}, {"assign"}),
               {ann}, FALSE, FALSE, 0, 1, home)}

\* These scenes are among those that the theorems about sign-outs and roles are about.
ASSUME ScenesApart == SignInsApart /\ RolesApart
=============================================================================
