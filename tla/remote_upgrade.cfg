SPECIFICATION Spec
CONSTANTS
    None = None
    m = m
    w1 = w1
    Master = m
    Calls = {c1, c2}
    MaxTroubles = 1
    MaxFailures = 2
    Workers = {w1, w2}
    Launches = {1, 2}
    Attempts = 2
    Hosts = {m, w1}
    Storages = {s1, s2}
    Shares = {s2}
    Owner = m
    Deployed = {{w1}}
    Installs = {w1}
    Sources = {x, y}
    Mounting = {"deploy", "share", "unmount"}
    Installer = inst
    MaxMounts = 2
    MaxEdits = 1
    Templates = {"np4", "zot"}
    Others = {w1}
    MaxDeploys = 3
    Contents = {1, 2}
    MaxCalls = 3
    MaxVersions = 3
    MaxChanges = 1
    Jars = {"a", "b"}
    Order <- Visited
    JarNodes = {m, w1}
    Storing = {"upload", "store", "sync"}
    MaxStores = 2
    Upgrading = {"upload", "check", "run", "repair"}
    MaxUpgrades = 4
INVARIANT RunFailsForCause
CHECK_DEADLOCK FALSE
