CONSTANTS
    Daemon = Daemon
    Tools = {t1}
    Migrations = {1, 2}
    Admins = {a1, a2}
    Browsers = {b1}
    Ids = {1, 2}
    Requests = {r1, r2}
    None = None

SPECIFICATION FairSpec

INVARIANTS
    TypeOK
    SchemaWhole
    LoggedOutStaysOut
    FormsKeepTheirAdmin

PROPERTIES
    ComesBack
    DisabledLosesAccess
