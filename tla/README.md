# Verification of cangling-update

`cangling-update` is one Rust program that looks after Docker Compose projects on the hosts of a small
cluster: it registers a project directory, backs it up before every upgrade, loads images and JARs, restores
earlier versions, edits the Compose file online, backs up databases, counts access logs, installs and joins
other hosts, distributes images and accounts to them, and replaces itself.  This directory holds TLA+ models
of it, the TLC configurations that check them and the proofs that `tlapm` checks.  Paths below are relative to
the repository; `PROJECT.json` maps every definition to the lines it translates, and lists the hazards of the
code at their lines.

## 1. The system

The process is an axum server on the tokio runtime.  Its shared state (`src/src/state.rs`) is one SQLite
connection behind a `std::sync::Mutex`, one async mutex per project (`lock_project`), a few more mutexes
(images, statistics), flags (`UPGRADING`, `APPLYING`, `running`), a map of job progress and a map of login
failures.  A handler runs between two awaits without interruption by its own code, but other handlers run on
other threads, so everything not under one of these locks interleaves.  A handler is a future: when its client
disconnects it is dropped at its await and its lock guard with it, while `spawn_blocking` closures and child
processes go on.  There is no transaction around the steps of a handler: files, rows, image tags, mounts and
running containers change one after the other, and each step may fail or be the last before a crash.

| Component | State | Operations | Hard behaviour | What makes it correct |
| --- | --- | --- | --- | --- |
| Project versions (`api.rs`, `db.rs`) | `projects` and `versions` rows, the current mark | create, update, replace, rollback, delete, delete_orphan | many steps over four stores, each with its own error branch; deletions take no lock | listed versions have their backup; no overwrite before its undo exists; one writer; one current version; gapless numbers |
| Directory backups (`backup.rs`) | `config/backups/<project>/<version>/` | snapshot, restore, remove | long copies of a live tree | a backup is the tree of one moment |
| Docker driver (`docker.rs`) | the stack, the image tags | up, down, restart, config, load | any call may fail | the stack comes back after a failure |
| Locks and login guard (`state.rs`) | mutexes, failure counts | lock, try_lock, record_failure | guards dropped with their futures | mutual exclusion; a bounded number of guesses |
| Compose and .env editor (`api.rs`, `paths.rs`, `db.rs`) | the file, its draft, its revisions | open, save, restore | edits from outside; validation between reading and renaming | nothing overwritten is lost; the history ends with the live text |
| Accounts (`auth.rs`, `main.rs`) | the hash, sessions, failures | login, change by page, master and command line | awaits between check and effect; two statements | a bounded number of guesses; a change ends the old sessions |
| Temporary uploads (`api.rs`) | `.part`, `.done`, target | chunk, status, finish | lost answers, repeated chunks, late blocking writes, crash between marker and rename | a completed upload is whole; an interrupted one can be resumed |
| Database backups (`dbbackup.rs`) | the schedule's row, backup directories, copies on a storage | manual and scheduled backups, retention, restore | a tick against a request, midnight, a crash while running | every day runs, once; only old scheduled backups go; what a restore replaces is saved |
| Nginx statistics (`nginx_stats.rs`) | settings, cursors, buckets | scan, save settings | rotation, truncation, half lines, settings saved during a scan | each line is counted once |
| Cluster membership (`cluster/server.rs`, `client.rs`, `discovery.rs`, `auth.rs`) | `cluster_nodes`, the worker's loop | register, heartbeat, discover, push accounts | lost and late messages, new addresses, restarts | every worker joins; accounts differ only by a lost push; one row per address |
| Cluster installation (`cluster/init.rs`) | the list of steps, the hosts | bootstrap, install package by package | two launches, requests sent again, answers that come late | swap ends before K3s comes; the outcome is true |
| Self-upgrade (`self_upgrade.rs`, `update.rs`, `binaries.rs`, `cluster/self_update.rs`, `service.rs`) | the program file, its draft, the kept packages, `APPLYING` | upload, `update`, offer, download, restart | one draft for all writers, a restart after the file was replaced | a whole program starts; no downgrade; workers follow |
| Images (`images.rs`), upload progress (`progress.rs`) | the archive directory, job maps | monitor, import, delete, poll | archives that grow, a job map that is pruned, worker restarts | an import reported done was done; every import ends |
| Storage mounts (`storage.rs`) | rows, `/etc/fstab`, `smb.conf`, mounts | deploy, share, unmount, edit | files rewritten without a lock, rows written back whole | what was done last is what the next boot finds |
| Template projects (`api.rs`) | the directories of NP4 and Zot, rows, certificates | deploy, check | no lock; cleaning up what another request made | a registered project is whole; verified is trusted |
| NP4 repository (`api.rs`) | repository, manifest | check, publish, replace | the manifest is saved after the update | the manifest tells what runs |
| JAR store and upgrades (`jar_store.rs`, `jar_upgrade.rs`) | upload directory, report, script, flag, containers | upload, distribute, check, run, repair | one flag for two operations, clients that leave, failing commands | one at a time, and each knows what it did |
| Database administration, tunnel and port forwarding, hosts and certificates, Kubernetes and applications, terminal, program frame | little or none | calls of other programs, parsing, byte pumps | input and output | not modelled, section 8 |

Interaction: the handlers of a project meet on its async mutex (versions, editor, database backups, uploads,
NP4), on SQLite and on the project directory, which the administrator's shell writes too. `delete_project`,
`delete_orphan`, the template deployments and the `GET` handlers take no project lock.  The nodes of a cluster
call each other over HTTP.  On a host, storages and the installation meet in `/etc/fstab` (`StorageMounts` has
both).

## 2. Modules

A component has a module.  `Sessions`, `Services`, `Resources` and `Upkeep` put components that share nothing
side by side: the variable `comp` says which component a behaviour is about, the others stay in one initial
state, so that the state spaces add up and do not multiply, and one run asks the questions of a whole area.
They have constants of their own; the MC modules extend them and only give values, and the proofs are about
them for any values.  An action is the code between two awaits, or
one statement or file operation where a crash or an error can fall between two of them.  `pc` is the step of a
request, task or process, and its values carry the names of what the code does there.  History variables,
marked "never read", exist only for the properties.

| Module | Role | In run |
| --- | --- | --- |
| `VersionHistory` | abstract specification: the versions as a gapless log that opens and closes with the project | `versions_safety` |
| `ProjectVersions` | the handlers of one project, step by step; implements `VersionHistory` | `versions_*` |
| `MCProjectVersions`, `ProjectVersions_proofs` | its instances, its theorems | |
| `ComposeEditor`, `MCComposeEditor` | the editor of the Compose and the `.env` file | `compose_editor` |
| `Accounts` | one account | |
| `Sessions`, `MCSessions`, `Sessions_proofs` | the editor of the `.env` file and the account; the theorems about both and about the editor of the Compose file | `sessions` |
| `NginxScan`, `NginxScan_proofs`, `DbBackups`, `DbBackups_proofs`, `ClusterSync` | statistics, database backups, membership and accounts | |
| `Services`, `MCServices`, `Services_proofs` | the three; the theorems about the nodes, and those of the others carried over | `services` |
| `TempUpload`, `SelfUpdate`, `ImageImport` | chunked uploads, the program's own updates, images | |
| `Upkeep`, `MCUpkeep`, `Upkeep_proofs` | the three with their theorems, and `DbBackups` and `ClusterSync` again for what their loops must do in the end | `upkeep` |
| `ClusterInit`, `StorageMounts`, `StorageMounts_proofs`, `TemplateDeploy`, `Np4Repo`, `JarUpgrade` | what is set up on hosts | |
| `Resources`, `MCResources`, `Resources_proofs` | the five; the theorems about the installation, the deployments, the repository and the upgrades, and that of the storages carried over | `resources` |

### ProjectVersions

State: `project`, `rows`, `current` are the SQLite rows of one project; `backup[v]` and `saved[v]` the version
directories and what they hold; `live`, `latest`, `running` the host; `lock` the project's mutex; `pc`, `op`,
`body`, `target`, `no`, `stopped`, `detached` the requests.  The live tree is two files, a JAR and the Compose
file: a file is the original, the one a request uploaded, half written (`torn`) or missing.  A request is one
HTTP call, and the version it creates carries its name (the code draws a UUID).  `OnError` says where each
handler goes when a step fails: to `cleanup` (remove the version directory), to `upagain` (start the stack
again) or out.  `Fail` takes that branch, either because the step cannot succeed (`Doomed`: the row's project
is gone, its number is taken, the backup to restore is gone) or because the disk, docker or SQLite fails.
`Drop` is a client that disconnects, `Crash` a restart.  Copying is two steps: what is copied while the tree
changes is, file by file, the old or the new one.  Restoring is two steps as well, with the files torn in
between.

### ComposeEditor and Accounts

`files[n]` are the texts of the file under each name it may have, `drafts[n]` the drafts beside them, `revs`
the revisions, and per session the etag it expects, the text it wants, the path it found before the lock and
the text it read after it.  The etag of a text is the text; a missing file has the etag of an empty one, as in
`read_compose_disk`.  `LockAndRead`, `Install` or `Reject`, `SnapshotDisk` and `Record` are the steps of
`save_compose_content` and `save_env_content`.  Everything else that writes the file is `EditOutside`.

`Accounts` has login as two steps (lockout and hash read; the verification, counting and the session), the
change of the password as its verification and then the two statements that replace the hash and end the
sessions, which the master's push and the command line share, idle sessions, the end of the lockout and a
restart that forgets it.

### NginxScan, DbBackups, ClusterSync

`NginxScan` gives every line two bytes and reads chunks of three, so that a read ends inside a line. A scan
lists the files, and for each takes its size (`Stat`), its cursor, chunk after chunk, and persists counts and
cursor together, as `persist_batch` does.  The files grow, are truncated, rotated.

`DbBackups` has the scheduler's loop (`Boot`, `Tick`, `TickLocked`) beside requests for a backup, an update's
backup and a restore; a backup is `BeginDump`, `EndDump`, `Copy` and `Rename` of the copy, `Trim` and
`TrimCopies`; a restore is check, safety backup, truncate, load or undo.  A backup is a number in the order of
creation, the content of the database the number of its last write.

`ClusterSync` has the master's table and, per worker, the loop of `client::run` with its `registered`, `fails`
and `master_slot`.  A tick of the loop is a registration or a heartbeat with the master's handler and the
reply.  The pushes are tasks: `ReadTables` reads hash and nodes, `Push` is one request.  Links fail, workers
stop and move to other addresses, a row lapses.

### TempUpload, SelfUpdate, ImageImport

`TempUpload`: two tabs upload files to one name; a piece is what one blocking write appends, and the write of
a dropped request comes later (`LateWrite`), to the file it had opened: when that was renamed in between
(`Renamed`) the piece is appended to the target.  `SelfUpdate`: every writer of the program on a host
(uploads, command line, the worker's download) goes through `Copy`, `Fill`, `Rename` with one draft; `moved`
says that the file of the running process was replaced, after which `current_exe` is another path.
`ImageImport`: the monitor's two equal polls, jobs that wait for one lock and take their nodes in the order of
the nodes' names (`Order`, `Turn`), a worker's own job with `Get`, `Place`, `Import`, and the job maps that
forget.

### ClusterInit, StorageMounts, TemplateDeploy, Np4Repo, JarUpgrade

`ClusterInit` is `run_init` from the launch to the outcome.  The end of swap and K3s stand for all packages:
the first must be done, the second is one of those that come after it.  A request without an answer is sent
again while the worker may still be at the first one (`late`).  `StorageMounts` splits every change of `fstab`
and `smb.conf` in `Read` and `Rewrite`, and holds the row a request writes back at its end. `TemplateDeploy`
has the deployments of NP4 (copied in place) and Zot (unpacked beside and renamed), and the check that brings
Zot's certificate to the nodes.  `Np4Repo` has the stamps, the comparison, the staged copies, the update under
the project lock and the manifest, beside uploads and rollbacks.  `Resources` has `JarUpgrade` twice, once
with uploads and distribution and once with check, run and repair.

## 3. Runs

| Run | Bounds | Shows |
| --- | --- | --- |
| `versions_safety` | 3 requests of any kind but delete_orphan, 2 at once, 1 crash, 1 failed step, 2 forms | `OneWriter`, `RegisteredBackupsExist`, `BackupIsExact`, `RestoredTreeStays`, `UndoRecordedFirst`, `StackComesBack`, and that the rows implement `VersionHistory` |
| `versions_liveness` | create, update, rollback, delete, delete_orphan; 3 at once, 1 disconnected client, 1 failed step outside `mark_current`, no crash | `OneCurrent`; `EveryRequestEnds` |
| `compose_editor` | 3 requests, 2 texts, 2 names of the file; two of: edits from outside while a save waits for the lock, a failed rename, a disconnected client | `ComposeIsKept`, `LatestIsLive` |
| `sessions` | `.env`: 3 requests, 2 texts; two of: such an edit, any failed step, a crash, a disconnected client. Account: 4 requests, 2 at once, lockout after 2 failures, 1 restart before the third request | `ExternalIsNews`, `NothingUnseenReplaced`, `GuessBudget`, `OldSessionsEnd` |
| `services` | Nginx: 2 scans, 1 file, 2 lines, 1 generation change, 1 change of settings, 1 restart. Backups: 4 backups, 2 days, 1 saved schedule, 2 writes, 1 trouble, with a restore. Cluster: 2 workers, 3 addresses, 2 tasks, 1 new password, 2 troubles | `CountedOnce`, `RunningIsReal`, `DataStaysKept`, `RunsAreHonest`, `DiffersOnlyByLoss`, `OneRowPerAddress` |
| `upkeep` | Uploads: 1 file of 3 pieces, 2 tabs, one drop, restart and fault each; no file of that name before or one of another size. Program: versions 1 to 3, 2 uploads, 1 each of keeper's sync, command line, drop, restart. Images: master and worker, 2 jobs, 1 change, 1 trouble. Backups: 1 day, a backup asked for, 1 write, 1 trouble. Cluster: 2 workers, 3 addresses, no master given, 2 troubles | `PartIsPrefix`, `ToldIsThere`, `AlwaysStarts`, `UpdatesInOrder`, `CatchesUp`, `OutcomesHold`, `TransfersEnd`, `LoopsComeThrough` |
| `resources` | Installation: 2 workers, 2 launches, 2 attempts, 2 troubles. Storages: 2 hosts, 2 storages, 2 requests, the installer, 1 edit, 1 trouble. Templates: 2 at once, 3 requests, 2 troubles. NP4: 2 contents, 3 requests, 3 versions, 1 change, 1 trouble. JARs: 2 JARs, 2 nodes, 2 and 4 requests, 1 trouble | `InstallsInOrder`, `StoragesLast`, `DeploysWhole`, `ManifestIsLive`, `UpgradesAreWhole` |
| `orphan_race`, `dropped_writer`, `failed_update`, `remote_upgrade`, `deploy_race` | the smallest that show it | section 4 |

Every passing run but `versions_liveness` checks one type invariant, of its component or of all of them.

Why these bounds are of use.  A version needs a create before it, so three requests are a create and two that
compete, each possibly restoring what the other saves.  Two editing sessions make a conflict, the third
restores what they replaced.  Two parallel logins are what it takes to pass the lockout together.  Two scans
and one change of settings make the stale cursor; two lines of two bytes against chunks of three make every
kind of cut.  Four backups are two scheduled ones, a safety backup and one more, so that retention has
something to remove and something it must leave.  Two workers and three addresses let one take the address the
other had.  Three pieces and two tabs give a chunk, a repeated chunk and a late write.  Three versions let an
offer be overtaken.  Two launches, two attempts and two troubles give a late answer beside a second
installation.  A "trouble" is one fault of the environment (a failed command, a lost answer, a stopped
process): with one or two a run reaches every error branch, and errors of a branch's own clean-up are ignored
by the code.

Bounds that leave something out on purpose, each with what happens beyond it in section 4: `DropAt` and
`Beside` of `NginxScan` (a client that leaves while a scan works; settings saved while a scan works), `Stalls`
of `ImageImport` (a copy that stalls two polls), `CliBeside` of `SelfUpdate` (the command line beside an
upload) with its `Installed` and `DropAt` (hosts without the unit; a client that leaves while the program is
replaced), `Old` of `TempUpload` (a file of the same size), `EditDuring` of `ComposeEditor` (an outside edit
during validation), `CrashInCopy` of `DbBackups`.

Deadlock is checked in all runs but `resources` and the two violation runs of `MCResources`: requests and
launches there are made a bounded number of times, and when all have ended nothing is left to do.  In the
other modules such states have a stuttering disjunct of their own (`Rest`, `Stay`, `Quiet`), which holds
either only when every request has ended or says that a server waits.

Fairness.  `ProjectVersions`: weak fairness of `Step(r)` for each request: tokio polls every future that is
ready, its mutex is FIFO so a waiter is not overtaken for ever, uploads end or their connection does, docker
and file operations return.  `TempUpload`: the console's loop takes a file again after a break and the handler
goes on; nothing is assumed of drops or faults but their bound.  `SelfUpdate`: blocking work ends, the
worker's loop turns every 15 seconds and its back-off ends, the scheduled restart comes.  `DbBackups`: the
loop turns every 30 seconds and takes its lock, a dump ends.  `ClusterSync`: the loops turn, a broken link or
a stopped worker is mended (the service unit restarts it).  `ImageImport`: polls come again, tasks run on, a
copy into the directory ends; a worker need not come back.  Users, crashes, failures and truncations are never
fair.

Every property of a passing run has a mutant: a dropped guard, a swapped order or a wrong number in a
definition that models code, under which TLC finds the property violated.  The mutants stand before the
definitions they change and are used by nothing else.

## 4. Where code and documentation disagree

With a run each:

* `orphan_race`: `delete_orphan` takes no lock and judges by the rows alone, so it can remove the directory of
  an upgrade in progress, which then lists a version without a backup.
* `dropped_writer`: a rollback whose client disconnected still writes while the next request has the lock.
* `failed_update`: when copying the JARs fails half way, `apply_update` removes the version directory, the
  only copy of the file it has just overwritten.
* `remote_upgrade`: the script for containers of another node quotes `"$RUN_ID"` for the remote shell, so the
  copy goes to a directory that is not there and the run ends before the install.
* `deploy_race`: two deployments of Zot pass the look at the directory, and the one that fails removes what
  the other has made.

Seen while modelling, stated in the modules or kept out by a named bound, without a run of their own:

* `JarRestoreTouchesOnlyJars`, `RestoredUpdateHasItsJar` (`ProjectVersions`): restoring a replacement when
  there is no live JAR lists a version that holds nothing, and restoring that one empties the project
  directory; restoring an upgrade loads the archives kept with it but not its JARs.
* A replacement that saved a JAR is listed as `pre-replace`, although the README says replacements are not
  listed; deleting a project during a rollback leaves the Compose directory half restored.
* An outside edit while docker validates the draft is overwritten and not recorded; a crash between the
  editor's rename and its insert loses the replaced text; a save that waited while a rollback renamed the
  Compose file writes to the old name.
* A login in flight with the old password makes its session after the change (`auth.rs:195`).
* Two scans at work after a client left count lines twice (`nginx_stats.rs:266`).
* An archive whose copy stalls for two polls is imported halfway (`images.rs:517`).
* A crash between the copy of a backup to the storage and its rename leaves a `.part` directory with a
  manifest, which retention on the storage counts and cannot remove: later runs end as failed although nothing
  of them failed (`dbbackup.rs:837`, `CrashInCopy`).
* `update` on the command line does not ask for the flag of the page's uploads and writes the same draft, so
  one can rename the other's half-written file over the program (`CliBeside`).
* Clients that leave the page's online update free its flag while the program is still being written
  (`self_upgrade.rs:135`), so a second one can start on the same draft; a host without the systemd unit whose
  file was replaced executes the path of the old, deleted one (`service.rs:191`).
* The `.done` marker of a chunked upload is written before the rename, and the next choice of the file believes it
  when the target has the upload's size (`api.rs:2849`, `api.rs:2927`).  A request that ends between the two, with
  a file of the same name and size to replace, leaves the old file there, reported as uploaded: with such an
  `Old`, `ToldIsThere` of `upkeep` does not hold.
* The blocking write of a dropped chunk can come beside those of its retry, so that a piece is there twice
  (`AlwaysWellFilled` of `TempUpload` does not hold), or after the rename, to the file that is already reported
  as complete (`api.rs:2921`); `PartIsPrefix` and `ToldIsThere` leave out the uploads such a write came to.
* `SamePassword` of `ClusterSync` does not hold: a push that fails while the worker stays online is not tried
  again.  `WorkerFollows` of `SelfUpdate` does not: a newer package of the keeper is served under the master's
  version and refused.
* A line of `fstab` is lost when two jobs meet (`storage.rs:1147`); a directory that is mounted keeps its old
  source (`storage.rs:924`); an edit made while a deployment works is lost (`storage.rs:211`).
* A directory that is mounted while its unmounting goes on (`storage.rs:985`, between `umount` and the change of
  `fstab`) stays mounted with no line, and every later deployment finds it mounted and leaves it so
  (`storage.rs:924`): the next boot does not mount it.
* A failed deployment of NP4 leaves a partial directory that cancels every later one (`api.rs:859`).
* A client that leaves the preflight of the storage repair keeps the upgrade flag taken until the program
  restarts (`jar_upgrade.rs:631`).

## 5. Proofs

`tlapm` checks the theorems below for any number of requests, nodes, files, texts and days, any bounds and any
sets of operations and failures: what a run shows of one small instance, they state of all.  A theorem's
property is the very definition its run checks.  The constants are assumed to be what the named `ASSUME`s of
the modules say (TLC evaluates those on every run), and beyond that each theorem names what it needs; where
the code does not give it, section 4 says what happens without it.

| Theorem | Assumption | States |
| --- | --- | --- |
| `ProjectVersions_proofs` | | |
| `TypeCorrect` | none | `TypeOK`, and each request is at a step of its own handler |
| `ProjectLifeHolds` | none | rows exist only with their project, one create makes it |
| `ListedVersionsHaveBackups` | no delete_orphan (`orphan_race`) | `RegisteredBackupsExist` |
| `HandlersHoldTheLock` | no disconnected client (`dropped_writer`) | a request between its lock and its end holds the lock |
| `OneWriterAtATime`, `BackupsAreExact`, `RestoredTreesStay` | no disconnected client | `OneWriter`, `BackupIsExact`, `RestoredTreeStays` |
| `UndoComesFirst` | no disconnected client, no delete_orphan | `UndoRecordedFirst` |
| `OneIsCurrent` | no crash, no failure inside `mark_current` | `OneCurrent` |
| `StackComesBackAlways` | none | `StackComesBack` |
| `HistoryIsKept` | no disconnected client | `HistorySpec`: the handlers implement `VersionHistory` |
| `Sessions_proofs` | | |
| `TypeCorrect`, `ChangesAreNews` | none | `TypeOK`, `ExternalIsNews` of the editor |
| `SavesReplaceWhatWasSeen` | no edit from outside between the second look and the rename | `NothingUnseenReplaced` |
| `OverwrittenTextsAreKept`, `HistoryEndsWithTheFile` | edits from outside only while a save waits, no failure of the inserts, no crash | `ComposeIsKept`, `LatestIsLive` |
| `OldLoginsEnd`, `GuessesAreFew` | none | `OldSessionsEnd`, `GuessBudget` |
| `TypesAreKept` | none | `TypesHold` |
| `Services_proofs` | | |
| `TypeCorrect` | those of the others here | `TypeOK` of the three components |
| `LinesAreCountedOnce` | nobody leaves a scan that has begun, settings wait for its end | `CountedOnce`, `CursorTellsCount` |
| `RunningIsAtWork`, `DataIsKept` | the scheduler's rounds are no requests | `RunningIsReal`, `DataStaysKept` |
| `RunsTellTheTruth` | and no crash between a copy and its rename | `RunsAreHonest` |
| `RowsHaveTheirAddress`, `PushesReachAllButTheLost` | finitely many workers, no two at home at one address | `OneRowPerAddress`, `DiffersOnlyByLoss` |
| `Resources_proofs` | | |
| `InstallationsTellTheTruth` | the master is none of the workers, as `online_workers` has it | `InstallsInOrder` |
| `StoragesTellTheTruth` | sets of hosts asked for are hosts, the owner of the shares is one, no storage is named as the swap | `StoragesLast` |
| `DeploymentsAreWhole` | the templates are of NP4 and Zot | `DeploysWhole` |
| `ManifestTellsTheTruth` | `None` is no request | `ManifestIsLive` |
| `NobodyUpgradesBesideAnother` | none | `UpgradesAreWhole` |
| `ResourcesKeepTheirTypes` | those of the others here; the bounds are numbers, and `Order` lists containers of the nodes | `TypeOK` of the five components |
| `Upkeep_proofs` | | |
| `UpkeepPartIsPrefix` | none | `PartIsPrefix` |
| `UpkeepToldIsThere` | no two uploads of a name have one size, nor the old file that of an upload (section 4) | `ToldIsThere` |
| `UpkeepAlwaysStarts`, `UpkeepInOrder` | both hosts have the unit, clients leave only while they upload, the command line updates alone | `AlwaysStarts`, `UpdatesInOrder` |
| `UpkeepOutcomesHold` | none | `OutcomesHold` |
| `UpkeepTypes` | none | `TypeOK` of uploads, program and images |

`Resources_proofs` has `K3sComesAfterSwap` besides, the half of the first of its theorems that needs no
assumption, and `StorageMounts_proofs` the argument of the second and of the types of the storages.

How a composite inherits a theorem: where a component has a module of proofs (`NginxScan`, `DbBackups`,
`StorageMounts`), `Services` or `Resources` instantiates it, so that its theorem is about their variables;
otherwise the module of the composite's proofs holds the argument.  Either way a lemma (`NginxSteps`,
`BackupSteps`, `ClusterSteps`, `InstallSteps`, `StorageSteps`, `DeploySteps`, `RepositorySteps`,
`UpgradeSteps`, `AccountStep`, `TempSteps`, `UpdateSteps`, `ImageSteps`) says that a step of the composite is
a step of the component or leaves its variables alone, and temporal logic does the rest.

None of the properties is inductive as it stands.  The invariants, and why they are needed:

* `ProjectVersions`.  `BackupLife`: a request past its copy and before its row has a complete backup, and the
  root is removed only for a project that is gone; it needs `ProjectLife` to know that no row comes back and
  `StepsOfOps` to know which handler is at which step.  `LockHeld` says who holds the lock at which steps;
  create takes no lock, and `ProjectLife` says that it runs alone.  For the undo: `Paths` (each handler's own
  steps), `NotListedYet`, `TargetsStay` (the version a rollback restores keeps its files, and is listed as
  long as the project is) and `UndoReady`: a request that has its backup and has yet to write holds the very
  tree it will write over. `Restored` does the same from the end of a restore on.  For the mark: `MarkLife`,
  one request at a time between the two statements of `mark_current` and for a version that is listed, and
  `CurrentLife`.  For the stack: `StoppedLife`, where a request that has stopped it can be.  For the
  refinement: `Numbered`, that the numbers of the rows are 1 to n and that a request that has drawn a number
  has n + 1; `Observed` says what each step is to `VersionHistory`.
* `ComposeEditor`.  `Sane` (types, what a save holds at which step, and that it holds the lock then), `Seen`
  (a save about to rename has the text of the file as its etag), `Aimed` (it writes to the file in use),
  `Kept` (a text written over is in the history or on its way there) and `Current` (the history ends with the
  last save, or its insert is on its way).  That the first name with a file is found is an induction, by a
  least element.
* `Accounts`.  `Guarded`: before the lock every guess is a counted failure; from the lock on only the guesses
  then on their way are still answered, and those are fewer than the requests in progress.
* `NginxScan`.  `Alone` (one scan at work), `Behind` (what is counted of a file is before its cursor), `Ahead`
  (a scan starts and goes on behind what is counted, whatever it saw of the file before), `Read` (what it has
  read is of the file there is, or of one before it of which the new one has nothing counted), `Future`
  (nothing is counted of a file to come), and for files left alone `Kept` and `At`, which make them equal.
* `DbBackups`.  `Exclusive` (one task at work), `Timed`, `Set`, `Stored`, `Written` (types with what the tasks
  need: a dump at work has its directory and no manifest), `Safe` (a restore past its dump has a complete
  safety backup no older than the content it was asked for) and `OnePart` (only the task between copy and
  rename has a `.part`).
* `ClusterSync`.  `Shape`: rows, tasks and the addresses, one worker at each.  `DiffersOnlyByLoss` itself is
  inductive over it: every way to come online and every new password starts a push to the row's address.
* `ClusterInit`.  `InOrder`: a launch about to install K3s on a node has seen its swap end, and so has one
  whose request the worker may still be at.  `Told`: as long as no two launches overlapped, there is one,
  `running` is set while it is at work, and `SoFar` says which steps are over at each of its own.
* `StorageMounts`.  Of a host that is not torn: `Single` (a file is truncated by one job, which fills it with
  all it read), `Left` (a directory whose line is about to go is not mounted), `Mounted` (what is mounted has
  its line or a job that will write it; without it a request that finds the directory mounted would leave it
  with no line), `Wanted` (the last word, with what the jobs at the files will make of it).  A file that is
  empty only until its job fills it counts as holding what the job read.  `Sane` says whose a job is, `Latest`
  that a request's copy of its row is the last edit.
* `TemplateDeploy`.  `OneDeployment` (requests that meet at a template are remembered), `Made` (what stands in
  the directory at each step of a deployment, and which nodes a check is done with), `Left` (a Zot that is
  there is registered or at work) and `Certified` (a Zot that is ready has a certificate).
* `JarUpgrade`.  `Flagged`: the flag belongs to one request.  From it, only the run that has it changes
  containers and only the repair that has it changes mounts.  `Fields` says which fields a request's record
  has at which step.  For the types, one invariant serves the uploads and the upgrades: both halves are steps
  of one instance with all operations (`JarSteps`), of which `JarsInv` is `Stored` (a JAR that is kept, copied
  or mounted is of an upload there was, and the script is of containers there are), `Mounted` and `Asked` (the
  fields of the requests by step).  The script is a recursive function of the containers; that its values are
  sequences of containers (`VisitsAreTargets`) is by a least counterexample.
* `Np4Repo`.  `Locked`, `Filled`, `Truth`: what was copied is what was stamped, what was applied runs, and the
  manifest is written from both, as long as nothing comes between.
* Types that need more than themselves: of the installation, `Counted` (a request is sent no more often than
  there are attempts); of the deployments, `Certificates` with `NextStarted` (a certificate a node was given
  had been made); of the account, `ChangesCounted` (the changes of the password are no more than the requests
  that are past theirs, which bounds the password's number).
* `TempUpload`.  `TempInv`: `PartIsPrefix` with `Held` (a request between its look at the size and its answer
  has the project's lock, alone) and `TabsHold` (what it has still to write is what comes next in its file),
  except for uploads a late write came to; `Landed`: what is in temp is the old file, an upload, or such a
  file.
* `SelfUpdate`.  `InstallInv`: `OneWriter` (the flag keeps uploads apart, and with them the draft),
  `DraftHolds` (a draft about to be renamed is whole and of the version that was looked at) and `Rising` (the
  program on disk is whole and no older than what runs, what is being installed is newer, and what the worker
  has is no newer than what its master runs).
* `ImageImport`.  `ImagesInv`: `AtWork` (a job at work has its entry in the map) and `Accounted`: what a job
  has left to do and what was done make up the nodes it is for, and a worker that calls a job done has done
  it.  That the node whose turn it is is one that is left is by a least index.

What the proofs showed of the models.  Crashes and clients that disconnect are excluded only where the table
says so: `StackComesBack` holds with both at once, which no run checks together, and so do `TypeCorrect` and
`ListedVersionsHaveBackups`.  A condition on the kind of loss in `DiffersOnlyByLoss` and an exception in
`ReplacedIsSaved` turned out to be superfluous and were removed, so both properties now say more, and
overlapping cases of `AfterDump` were made exclusive.  `StoragesLast` turned out to be false beyond the two
requests of its run: a directory that is mounted again while its unmounting goes on keeps no line, and the third
request finds it mounted; `Leaving` now counts that meeting among those that tear a host (section 4).

The proofs about the uploads in chunks changed the model in two places: a late write follows the file it had
opened, also under its new name, and `ToldIsThere` is about the moment a client is told.  Its condition on the
sizes is needed: section 4 says what happens to a file of the same size.

Only model-checked: `EveryRequestEnds`, `CatchesUp`, `TransfersEnd` and `LoopsComeThrough`, which say that
something happens in the end: liveness under fairness needs `ENABLED`, which is out of the prover's reach.
Every other property of a passing run is stated by a theorem.

## 6. Abstractions to keep in mind

* One project, one account, one storage user, one master.  Two projects registered on the same directory have
  two locks and would interfere; the models do not have them.
* The bytes of trees, archives and forms are values; a form says whether it has a JAR, an image, and whether
  the stack is stopped and started.  The formats of a backup are one directory with a completeness.
* A password is its hash; the verification accepts exactly the password hashed.
* SQLite statements are atomic, an error of one has no effect; several of them under one guard are one step
  unless a crash between them matters.
* A request to another node with its reply is one step where the handler on the other side is one critical
  section and nothing on this side happens between them; otherwise it is two.  A call that never returns is
  not modelled (`http.rs:35` has no timeout of its own).
* Job percentages, logs, the wording of answers, sizes and time stamps beyond their order are left out.
* Components that share nothing are checked side by side, not against each other.

## 7. Plan

Done: the inventory, every component above that is not in section 8, and the theorems of section 5.  Next: the
change of a project's directory in `update_project`; the reachability of Git snapshots in the shared `repo.git`
while versions are removed.

## 8. Not modelled

`update_project`'s change of directory; the first user, which `main.rs` creates before the server listens; the
node lists and the removal of a node by hand; install and uninstall of the service; the repository index;
hosts, certificates and `maintain_self_node`, whose rows are edited one at a time and which otherwise call
system tools and parse their output; Kubernetes and applications (`k3s.rs`, `k3s_resources.rs`,
`cangling_apps.rs`), whose state is the cluster's; database administration, stateless calls of `psql`;
terminal, tunnel and port forwarding, which move bytes; parsing of log lines, archives, YAML and command
output; the web console, but for the upload loop that `TempUpload` has as its client.
