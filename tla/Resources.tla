------------------------------ MODULE Resources ------------------------------
(***************************************************************************)
(* What the program sets up on hosts and projects: the installation of the *)
(* cluster (cluster/init.rs), the mounts (storage.rs), the projects made   *)
(* of templates and the repository (api.rs), the JARs (jar_store.rs and    *)
(* jar_upgrade.rs).  The components share nothing here: `comp` says which  *)
(* one a behaviour is about.  JarUpgrade is looked at twice, with the      *)
(* uploads and their distribution ("jars") and with the upgrades           *)
(* ("upgrade").                                                            *)
(***************************************************************************)
EXTENDS Naturals, Sequences

CONSTANTS
    None, Master, Calls, MaxTroubles, MaxFailures,
    Workers, Launches, Attempts,
    Hosts, Storages, Shares, Owner, Deployed, Installs, Sources, Mounting, Installer, MaxMounts, MaxEdits,
    Templates, Others, MaxDeploys,
    Contents, MaxCalls, MaxVersions, MaxChanges,
    Jars, Order, JarNodes, Storing, MaxStores, Upgrading, MaxUpgrades

VARIABLES
    comp,
    running, finished, error, steps, ipc, itodo, tries, swap, k3s, online, late, skipped, ioverlapped, itroubles,
    row, req, job, mounted, fstab, smb, want, storn, edited, raced, requests, edits, stroubles,
    dir, rows, drunning, dpc, what, nodes, results, trusts, verified, made, overlapped, torn, dcalls, dtroubles,
    repo, versions, current, live, manifest, lock, pc, action, was, stamps, staged, moved, mixed, calls, changes, troubles,
    incoming, report, script, flag, jar, up, copy, mount, call, jrequests, jtroubles

install == <<running, finished, error, steps, ipc, itodo, tries, swap, k3s, online, late, skipped, ioverlapped, itroubles>>
storage == <<row, req, job, mounted, fstab, smb, want, storn, edited, raced, requests, edits, stroubles>>
deploy  == <<dir, rows, drunning, dpc, what, nodes, results, trusts, verified, made, overlapped, torn, dcalls, dtroubles>>
np4     == <<repo, versions, current, live, manifest, lock, pc, action, was, stamps, staged, moved, mixed, calls,
             changes, troubles>>
jars    == <<incoming, report, script, flag, jar, up, copy, mount, call, jrequests, jtroubles>>
vars    == <<comp, install, storage, deploy, np4, jars>>

I == INSTANCE ClusterInit WITH
       MaxTroubles <- MaxFailures,
       pc <- ipc, todo <- itodo, overlapped <- ioverlapped, troubles <- itroubles
\* The storages come with their theorem.
S == INSTANCE StorageMounts_proofs WITH
       Targets <- Deployed, Requests <- Mounting, MaxRequests <- MaxMounts, torn <- storn, troubles <- stroubles
D == INSTANCE TemplateDeploy WITH
       Workers <- Others, MaxCalls <- MaxDeploys, MaxTroubles <- MaxFailures,
       running <- drunning, pc <- dpc, calls <- dcalls, troubles <- dtroubles
N == INSTANCE Np4Repo
J == INSTANCE JarUpgrade WITH
       Nodes <- JarNodes, Ops <- Storing, MaxRequests <- MaxStores, requests <- jrequests, troubles <- jtroubles
V == INSTANCE JarUpgrade WITH
       Nodes <- JarNodes, Ops <- Upgrading, MaxRequests <- MaxUpgrades, requests <- jrequests, troubles <- jtroubles

\* A component that is not looked at is in one of its initial states, and of
\* the states that differ only in the names of the sources one is looked at.
Init ==
    /\ comp \in {"install", "storage", "deploy", "np4", "jars", "upgrade"}
    /\ I!Init /\ S!Init /\ D!Init /\ N!Init /\ J!Init
    /\ comp # "np4" => repo = CHOOSE r \in Contents : TRUE
    /\ \A s \in Storages : row[s].src = CHOOSE src \in Sources : TRUE

Next ==
    \/ comp = "install" /\ I!Next /\ UNCHANGED <<comp, storage, deploy, np4, jars>>
    \/ comp = "storage" /\ S!Next /\ UNCHANGED <<comp, install, deploy, np4, jars>>
    \/ comp = "deploy" /\ D!Next /\ UNCHANGED <<comp, install, storage, np4, jars>>
    \/ comp = "np4" /\ N!Next /\ UNCHANGED <<comp, install, storage, deploy, jars>>
    \/ comp = "jars" /\ J!Next /\ UNCHANGED <<comp, install, storage, deploy, np4>>
    \/ comp = "upgrade" /\ V!Next /\ UNCHANGED <<comp, install, storage, deploy, np4>>

Spec == Init /\ [][Next]_vars
-----------------------------------------------------------------------------
\* Every component keeps its types (the checks of the handlers' inputs).
TypeOK ==
    /\ comp = "install" => I!TypeOK
    /\ comp = "storage" => S!TypeOK
    /\ comp = "deploy" => D!TypeOK
    /\ comp = "np4" => N!TypeOK
    /\ comp = "jars" => J!TypeOK
    /\ comp = "upgrade" => V!TypeOK

\* cluster/init.rs: no K3s on a node with swap, and an installation that ends
\* well has done all its steps.
InstallsInOrder == I!InstallsInOrder

\* storage.rs: what was last done to a mount point is what the next boot finds.
StoragesLast == S!StoragesLast

\* api.rs deploy_harbor, deploy_np4, check_zot_environment: registered is whole,
\* failed is gone, verified is trusted.
DeploysWhole == D!DeploysWhole

\* api.rs update_np4_from_repo: the manifest tells what runs.
ManifestIsLive == N!ManifestIsLive

\* jar_upgrade.rs: one upgrade or repair at a time, and each knows what it did.
UpgradesAreWhole == comp = "upgrade" => V!UpgradesAreWhole

\* jar_upgrade.rs run: an upgrade fails only when a command failed or nothing
\* matched.
RunFailsForCause == comp = "upgrade" => V!RunFailsForCause

\* api.rs harbor_deploy_status: an existing directory is not overwritten.
NothingOverwritten == D!NothingOverwritten
=============================================================================
