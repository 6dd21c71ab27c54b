CONSTANTS
    root = root
    ann = ann
    eve = eve
    Users = {root, ann, eve}
    Supers = {root}
    t1 = t1
    t2 = t2
    Tenants = {t1, t2}
    Nobody = Nobody
    c1 = c1
    c2 = c2
    Clients = {c1, c2}
    MaxSessions = 3
    MaxPassword = 2
    MaxAttempts = 2
    Scenes <- MCScenes
    owner = owner
    clerk = clerk
    OwnerRole = owner
    SystemRoles = {owner}
    CustomRoles = {clerk}
    Permissions = {"staff", "platform"}
    PlatformOnly = {"platform"}
    Gated = {"staff"}
    StaffPermission = "staff"
SPECIFICATION Spec
INVARIANTS RotatedOnce LockoutHolds SignedOut RolesHaveMembers OnboardingWhole
PROPERTIES HiddenGrantsKept
CHECK_DEADLOCK FALSE
