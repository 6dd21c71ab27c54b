CONSTANTS
    ann = ann
    bob = bob
    Customers = {ann, bob}
    r1 = r1
    r2 = r2
    Riders = {r1, r2}
    Nobody = Nobody
    d1 = d1
    d2 = d2
    Desks = {d1, d2}
    Days = {1, 2}
    Products = {"juice", "syrup"}
    Raws = {"sugar", "salt"}
    PlaceNames = {"Main", "Shed"}
    Main = "Main"
    ItemNames = {"x", "y"}
    Kinds = {"area", "vehicle", "packaging", "product", "raw"}
    Mangled <- MCMangled
    Horizon = 2
    Scenes <- MCScenes
SYMMETRY DesksAlike
SPECIFICATION Spec
INVARIANTS FactoryAgrees BomsStand CansConserved FilesStand  CatalogStands
PROPERTIES DeactivationChecked HandoverCovered
CHECK_DEADLOCK FALSE
