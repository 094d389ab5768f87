# A specification of csi-rclone

csi-rclone is a CSI driver: it mounts rclone remotes into Kubernetes pods. This
directory holds TLA+ modules that model its node plugin, its provisioning and the
arguments it starts rclone with, TLC configurations that check them on small instances,
and TLAPS proofs of safety properties that hold for any number of mounts, volumes and
concurrent calls.

Source paths below are relative to `src/`.

## The system

| Component | State | Operations | Talks to |
|---|---|---|---|
| Node calls (`pkg/rclone/nodeserver.go`) | none of its own; one goroutine per gRPC call | `NodeStageVolume`, `NodeUnstageVolume`, `NodePublishVolume`, `NodeUnpublishVolume`; `acquire`, `release`, `unmount` | kubelet (calls), state files, supervisor (locks, Start), the kernel (mounts) |
| Mount state (`rclone.go`) | one `state.json` per rclone mount: mount point, users, targets, `Mounted` | `saveState`, `loadState`, `loadStates`, `lockMountOf`, `addLegacyUser` | the disk; survives restarts |
| rclone processes (`rclone.go`) | one process per mount, in a systemd scope or in the container, with a VFS cache on disk | `mount`, `startRclone`, `waitForUploads` | scopes, FUSE, the rc socket |
| Reconcile (`reconcile.go`) | none; one goroutine | `check`, `reconcile`, `remount`, `detach`, `stopScope` | woken by exits of rclone and every 30 seconds; the same locks as the calls |
| Supervisor, scopes, prober | per-mount locks, daemons | external library `go-csi-fuse-supervisor` | |
| Controller (`controller.go`) | none; volumes live in Kubernetes | `CreateVolume`, `DeleteVolume`, `pathPattern` expansion and validation | csi-provisioner, PVC metadata |
| Arguments and allow-list (`nodeserver.go`, `options.go`, `options_gen.go`) | none; the settings of the plugin and `rclone-secret` are read | `extractFlags`, `ephemeralArgs`, `mountID`, `validateOptions` | the volume context, the Secret, the state file (`Args`, `Env`) |
| Option generator (`hack/gen-options`) | none | writes `options_gen.go` from what rclone supports | |
| Driver, server, Kubernetes client, `main.go`, chart | none | plumbing | |

A mount is named by a hash of its rclone arguments (`mountID`), so volumes with the same
arguments share one rclone. A persistent volume uses it through its staging path, an
ephemeral volume through its publish target; the last user to leave unmounts it. Every
call and every pass works on one mount at a time, under the lock of that mount.

What is hard here: the state file, the mount table, the rclone process and what kubelet
was told change one at a time, and the plugin may be restarted, rclone may die or hang,
and another call may run between any two of those changes. The list `hazards` in
`PROJECT.json` names the places, each with the properties that guard it.

## Modules

| Module | What it is |
|---|---|
| `RcloneNode` | The node plugin: calls, reconcile, state files, mounts, rclone, faults. Any call may come at any time. |
| `SharedMounts` | What sharing an rclone promises, without locks, files or processes: `RcloneNode` implements it. |
| `KubeletNode` | `RcloneNode` with the calls in kubelet's order, fairness, and the properties about what kubelet was told. |
| `Controller` | `CreateVolume`, `DeleteVolume` and the resulting directories on the remote. |
| `Options` | From volume context and Secret to the arguments, the environment and the name of an rclone, with the allow-list. |
| `Volumes` | `Controller` and `Options` together: volumes are provisioned, mounted and shared. |
| `RcloneNodeProofs` | Theorems about `RcloneNode`: types, locks, state files, last users. |
| `RcloneNodeSteps` | Lemmas: what each step of `RcloneNode` changes and what it leaves alone. |
| `SharedMountsProofs` | `RcloneNode` implements `SharedMounts`; every rclone has a state file. |
| `KubeletNodeProofs` | Kubelet's order: what a call is about and has found; unpublished targets. |
| `KubeletTargetsProofs` | One mount per staging path; what is recorded of, and stays mounted under, published targets. |
| `KubeletRclonesProofs` | A node whose plugin does not restart: staged volumes, uploads, and what is replaced. |
| `ControllerProofs` | Theorems about `Controller`: where volumes are on the remote. |
| `VolumesProofs` | Theorems about `Volumes`: sharing, credentials, precedence, the allow-list, where volumes are mounted. |
| `MCRcloneNode`, `MCKubeletNode`, `MCVolumes` | Small instances for TLC. |

### RcloneNode

| Variable | In the code |
|---|---|
| `state[i]` | the state file of mount `i`: `saved` (it exists), `mounted`, `at` (`StagingPath`), `users`, `targets` |
| `dirs` | the directories that exist: mount points, staging paths, targets |
| `fuse[path]` | what is mounted on a path, the top first: a live or dead FUSE mount (or a bind of one), or a bind of a plain directory |
| `rclone[i]` | the rclone of `i`: none, starting, running, stuck |
| `proc[p]` | a handler or the reconcile loop: label, request, locked id, what is left of a loop, whether kubelet still waits |
| `told[path]` | what the last answer told kubelet (read by `KubeletNode` only) |
| `faults` | the kinds of faults that can still happen |
| `uploads` | the mounts whose VFS cache holds writes that are not uploaded; the cache is in the volume directory and outlives rclone |

A step is one externally visible effect, together with the reads before it. The labels
of a call follow the code: `find` and `lockof` are `lockMountOf`; `args` is `extractFlags`
and `MkdirAll` of the staging path; `acquire` to `adduser` are `acquire` and `mount`;
`remount`, `stopold`, `remountwait` are `remount`; `record`, `bindcheck`, `bind` are the
rest of `NodePublishVolume`; `unbind`, `rmdir`, `forget` are `NodeUnpublishVolume`;
`release`, `drain`, `umount`, `stop`, `rmstate` are `release` and `unmount`; `gone`,
`targets`, `rebind` are `reconcile`. The `map` of `PROJECT.json` gives the lines of each.

`Fail` is the error return of a step that has not changed anything (`FailsAt` says which
fault hits which step). A step that fails halfway says so itself: `Bind` may have made the
target, and `mount` removes its state if rclone does not start, and ignores the error if
that fails too (`RemoveState`, fault `remove`). `Crash` ends every process and keeps the rest; `DaemonLifetime` says which
rclones it takes along: none with `systemd`, all with `in-container`, and any set of them
with `auto`, where it depends on whether the plugin instance that started an rclone
reached the systemd of the host. `Timeout` cancels the context of a call that runs on.
`PodWrites` and `RcloneUploads` fill and empty the VFS cache; `Drain` is `waitForUploads`,
which goes on when `vfs/stats` counts nothing, when rclone is gone, or (fault `drain`)
when the hour is over or the rc server answers with an error. The transfers that
`core/stats` reports are an array, which does not decode into the map of
`rcCoreStatsResponse` (`rclone.go:263`), so they never keep a round from going on.

Abstractions, and what they assume of the library and the kernel:

* An id stands for its mount point, and one rclone exists per id: the scope of an old one
  keeps a new one from starting.
* `scopes.Stop` leaves no rclone of the id when it succeeds. It may reach rclone as
  SIGTERM, which unmounts first, or as SIGKILL. `Supervisor.Start` returns once the mount
  point is live, and kills its daemon when it fails.
* `Unmount` takes off the top mount and does nothing on a bare path; the EPERM case of
  `detach` is left out (the plugin runs privileged).
* A probe of a mount whose rclone is stuck answers neither live nor dead nor gone.
* `loadStates` sees all files at one moment; what changes later is caught, or not, by the
  second look under the lock, which is modelled. A pass of the supervisor is modelled id
  by id, each as often as it likes.
* Targets and users whose directory is gone are looked for at the end of a pass.
* Arguments and environment are the subject of `Options`; the read-only flag of a target,
  logs, and the format of files are left out.
* The uploads of a mount are one flag: there are some, or none.
* `IdsOf` gives the mounts the arguments of a volume may hash to: more than one if a
  Secret may change between two calls.

### SharedMounts

The promise of a shared mount has two variables: who uses it, and whether it is down, up
or closing. It comes up, users join and leave, users that no longer exist are dropped, and
it closes only when every user is gone or is leaving, or its mount point has disappeared.
Nobody joins while it closes; it is then down, or up again if the attempt failed or the
plugin restarted. `KeepsSharedMounts` states that `RcloneNode` implements this: users are
the users of the state file, a mount is down without a state file and closing while a
process is between the decision to unmount and `RemoveAll`. The steps in between, with
every lock, file and fault, are stutters of the abstract specification.

### KubeletNode

Kubelet is not part of the repository. It stages a volume before it publishes it,
unpublishes it before it unstages it, has one call per path under way, and repeats or
undoes a call that failed or that it gave up on. It removes a staging path once it has
unstaged it. `Calm` ends the faults, so that liveness can be asked of a node on which
nothing goes wrong any more.

Fairness, and why the code justifies it: a handler or pass that can take a step takes it
(a goroutine that is not blocked is scheduled; `WF`); a goroutine that waits for a lock
gets it if it is free again and again (a Go mutex does not starve a waiter; `SF`); the
reconcile loop gets to every id, since it runs on every exit of an rclone and every 30
seconds (`SF`, as a call may hold the lock); an rclone that can mount or upload does, and
one that is unmounted everywhere exits (`WF`). That an hour passes is not assumed: after
`Calm` a call waits for its uploads, which a running rclone completes. Nothing is assumed of kubelet but that it removes
the staging path of an unstaged volume, and a stuck rclone need never resume.

### Controller

A string is a short sequence of characters in which a placeholder counts as one. The
namespaces `a` and `aa`, and annotations such as `.` and `../aa`, are what it takes to
glue two different pairs to one path or to assemble `..` from parts. `Resolve` is the
directory an rclone remote takes a path for. DeleteVolume leaves the data where they are.
What the code does with a string, character by character or placeholder by placeholder, is a
function of how much of it has been read (`Split`, `Directory`, `Substitute`, `stringParser`).

### Options and Volumes

`Options` follows a volume into the arguments of rclone. Volume context and Secret are
functions from keys to values, merged by `Merged`; `extractFlags` takes remote, path and
configData out of them and gives the arguments, or none if `validateOptions` refuses.
`mountID` is the tuple that the code hashes. `Environment` and `Root` are what `mount`
makes of the arguments. `Volumes` adds the state: the StorageClass, the volumes that
exist, the settings the plugin was started with, and the mounts of the node with their
users. A call reads any of the Secrets, or none: the Secret may change between any two
calls, and the error of `getSecret` is dropped by the code.

`acquire` has two steps there. `Mount` starts an rclone that nobody uses yet, `Join` records
a user. A call that fails or is cut off in between leaves its mount, which `Reconcile` takes
down if no later call joins it. Without `ReuseMounts` a mount is found by the volume ID, so
the later call may have read another Secret than the one the rclone was started with:
`OwnArguments` and `MountedUnderRemotePath` speak of the Secrets that give the arguments of
the mount (`StartedWithSecret`). With `ReuseMounts` they are those of every user.

`Opened`, `OptionsAt` and what they use say what rclone does with its arguments: it opens
the remote it is given, applies the options of its section and of the environment, and
opens what that remote wraps. The properties are about this reading, not about the checks.

Abstractions:

* A text is a name, and constants say what the code reads in it: `FlagName` (the flag that
  a key spells, with or without `--`, with `_` or `-`, in either case), `OptionName`,
  `BackendFlag` (prefix and option), `WrappedRemote`, `HostOf`, `HostsOf`, `RemoteNames`.
  The regular expressions of the code are sets of names. An entry of
  `--allowed-endpoints` is compared as it is written, a host in lower case.
* `mountFlags` holds four of the flags of the code, and the instance has four backends: an
  object store, one whose prefix is not its name, a wrapper, and one that is not
  supported. `backendSchemas` is computed as the generator computes it.
* configData is a sequence of headers, options, comments and lines that cannot be read. The
  `brackets` of a line are the names `n` for which it has the text `[n]`: a header with blanks
  has none, a comment may have some. `Root` looks for them as `mount` does, `parseConfig` for
  the headers. `ReadAlike` says that both take the remote for a section, or both do not.
* rclone starts only if it knows its remote (`RcloneStarts`).
* Secrets spell a flag as the volumes do. Two spellings are two keys of one Go map, and
  which of them counts is its iteration order (`hazards`).
* A mount is there or not; how it is shared and repaired is `RcloneNode`.
* The settings stay what the plugin was started with. A restart with others, which finds the
  mounts made under the old ones, is not modelled.

## Runs

| Run | Instance | Checks |
|---|---|---|
| `AnyOrder` | a persistent and an ephemeral volume on one mount, any call at any time, 1 call and the reconcile loop; every fault but `stop`, `timeout` and `drain` | `TypeOK`, `MutualExclusion`, `StateStays`, `LastUserUnmounts`, `KnownRclones`, `KeepsSharedMounts` |
| `KubeletOrder` | the same volumes, one of which is written to, kubelet's order, 2 calls; kill, term, hang, umount and failing operations | `StagedIsRecorded`, `PublishedIsRecorded`, `UnpublishedIsBare`, `PodsKeepTheirMount`, `OnlyGoneReplaced`, `UploadsAwaited` |
| `ChangedArgs` | a persistent volume with two possible mounts, kubelet's order, 2 calls; crash, kill, failing saves | `OneMountPerStaging`, `PublishedIsRecorded`, `UnpublishedIsBare`, `PodsKeepTheirMount` |
| `Live` | both volumes, one of which is written to, 1 call, fair; kill, timeout, drain and failing operations | `DeadMountsComeBack`, `BindsComeBack`, `CallsReturn`, `NothingLeftBehind` |
| `Restarts` | a mount that 4.0.0 left at a staging path, and those that follow it, 1 call, fair; restarts with daemon lifetime `auto`, kill, term and failing operations | `MountedComesBack`, `CallsReturn`, `NothingLeftBehind` |
| `Volumes` | every pattern of length up to 4 and 14 kinds of PVC metadata; for one pattern also 33 static, 3 ephemeral and the provisioned volumes, up to 2 in use at a time, 2 Secrets or none, 4 settings | `VolumesTypeOK`, `NamespaceIsolation`, `StaysUnderRemotePath`, `OwnArguments`, `ContextWins`, `PodsBringCredentials`, `OnlyAllowed`, `NoWrapCycles`, `MountedUnderRemotePath` |

Why these bounds are enough to be interesting: sharing needs one mount and two users, of
which the persistent and the ephemeral volume are the two kinds; a race on a lock needs
two holders, and the reconcile loop is one in addition to the calls; a changed Secret
needs two mounts. A fault kind may strike any number of times. What is not covered by TLC
is three calls on one mount, and two calls together with every fault; the safety
properties of all passing runs are proved for any number of calls, mounts and volumes, and
for patterns of any length, under every fault or under more faults than the run has (see
Proofs). `AnyOrder` uses a view without `told`,
which no step of `RcloneNode` reads; calls are symmetric in `KubeletOrder` and
`ChangedArgs`, which check no temporal property. In `Volumes` two volumes are what
isolation and sharing are about, and patterns of length 4 can hold a prefix, the
namespace, a separator and a placeholder. What a mount shares depends on arguments, not on
the pattern, so volumes are mounted for one pattern (`StagedPatterns`); the number of
volumes that exist and that are mounted is bounded by `MaxVolumes` and `MaxUsers`. `MCNext`
bounds it further: two mounts at a time under the default settings only (mounts meet where
two volumes find the same one, which does not depend on the allow-list), one of them at
most without users, and no more volumes provisioned than could be used beside the others. The
static volumes include wrappers of themselves, of each other, of local paths and of
`:type:` remotes, denied options, hosts inside and outside of `AllowedEndpoints`, and
configData that cannot be read, and headers and comments that `mount` and `parseConfig` read
differently. A class whose pattern is refused can do nothing, so
deadlock is not checked there.

Six runs show where code and documentation disagree (`findings` in `PROJECT.json`):

| Run | What happens |
|---|---|
| `MountedLost` | The plugin stops after rclone is up and before `Mounted` is saved. The repeated call finds a live mount and never sets it, so when that rclone exits cleanly the mount does not come back. |
| `StuckRclone` | The rc request of `waitForUploads` has no timeout, so a stuck rclone holds the lock of its mount. |
| `RestagedAfterCrash` | The plugin stops in `unmount` between the removal of the mount point and of the state; a repeated `NodeStageVolume` answers OK, and reconcile then removes the volume. |
| `UploadsLost` | rclone dies with uploads pending and the last user leaves before it is remounted: `waitForUploads` takes the failed request for nothing pending, and `RemoveAll` deletes the VFS cache. |
| `MisreadRemote` | The header of a section has blanks inside its brackets. `validateOptions` checks the section, `mount` starts rclone on the backend with the name of the remote, which `AllowedBackends` leaves out. |
| `LatePublish` | A publish that kubelet gave up on binds its target after the unpublish was answered. |

The passing runs of the same properties leave out what breaks them:

* `BindsComeBack` is checked without crash and failing binds. If the plugin stops between
  the detach of a dead target and its bind (`reconcile.go:160-162`), or the bind fails, the
  target stays a plain directory, which no later pass touches. No run is kept for this. It
  is checked without `term`, too: an rclone that exits cleanly between the check and the bind
  of a publish leaves a bind of a plain directory.
* `StagedIsRecorded` and `OnlyGoneReplaced` are checked without crash and without failing
  saves, loads and removals: a `Mounted` that was lost also makes `acquire` replace an rclone
  that still runs.
* `UnpublishedIsBare` is checked without timeouts.
* `DeadMountsComeBack` is checked without restarts and without `remove`: the state of an
  rclone that did not start, left because its removal failed, has `Mounted` false although a
  repeated call may have found the mount live, as after the crash of `MountedLost`.
  `MountedComesBack` says what remains, and `Restarts` checks it with both: a mount that is
  recorded as `Mounted` comes back.
* `Restarts` leaves out `umount`, since a mount point that is unmounted under a running rclone
  is left alone by design, and `load`, since an unstage that cannot read the state of a 4.0.0
  mount answers that nothing is staged. It has no writers, since a pod that never stops writing
  keeps an unmount waiting for an hour.
* `CallsReturn` is checked without `hang`.
* `KnownRclones` needs `scopes.Stop` to work: `unmount` only warns if it does not.
* `OnlyAllowed` is `AlwaysAllowed` for the mounts whose remote `mount` and `validateOptions`
  read alike. `NoWrapCycles` needs no such condition: a remote that was misread has no
  section, and its flags were checked.

No run has an ephemeral volume with two possible mounts: its targets are covered by the
theorems `PublishedStaysRecorded` and `MountStaysUnderPods`.

Every property has a mutant: a variant of a definition, marked `Mutant:` above it, that
changes it as a plausible bug would, and under which the property fails in its run.

## Proofs

Every theorem holds for every value of the constants that satisfies four assumptions, which
TLC evaluates on its instances. `ConstantsAssumption` (`RcloneNode`): the kinds of paths are
disjoint, a target has a staging path, a volume at least one mount it may hash to, and legacy
mounts have distinct staging paths. `OptionsAssumption` (`Options`): the supported backends
are told from all others by type and by prefix, no flag of a mount is one of a supported
backend or says what a backend wraps, and a key is one of Kubernetes, one of the volume, or a flag. `TextAssumption`
(`Controller`): patterns and the metadata of PVCs are text, and a namespace is a DNS label:
not empty, and without slash, dot and placeholder. Names and annotations are any text.
`VolumesAssumption` (`Volumes`): static and pod volumes are told from provisioned ones, and the
remotePath of a Secret is text. The number of mounts,
volumes, calls, Secrets and settings is arbitrary, and need not be finite.

| Theorem | States | Faults left out, and further hypotheses |
|---|---|---|
| `TypeCorrect` | `Spec => []TypeOK` | |
| `Exclusion` | `Spec => []MutualExclusion` | |
| `StatesStay` | `Spec => []StateStays` | |
| `UnmountForLastUser` | `Spec => []LastUserUnmounts` | |
| `ImplementsSharedMounts` | `Spec => KeepsSharedMounts` | |
| `EveryRcloneKnown` | `Spec => []KnownRclones` | `stop`, `timeout` |
| `UnpublishedStaysBare` | `KubeletSpec => []UnpublishedIsBare` | `timeout` |
| `StagedOnce` | `KubeletSpec => []OneMountPerStaging` | `timeout`, `load` |
| `PublishedStaysRecorded` | `KubeletSpec => []PublishedIsRecorded` | `timeout`, `load`; `LegacyOwn` |
| `MountStaysUnderPods` | `KubeletSpec => []PodsKeepTheirMount` | `timeout`, `load`; `LegacyOwn` |
| `StagedStaysRecorded` | `KubeletSpec => []StagedIsRecorded` | `timeout`, `load`, `crash`, `rmall`; `LegacyOwn` |
| `UnmountsUploaded` | `KubeletSpec => []UploadsAwaited` | `timeout`, `load`, `crash`, `drain`; `LegacyOwn` |
| `ReplacesOnlyGone` | `KubeletSpec => []OnlyGoneReplaced` | `timeout`, `load`, `crash`, `save`, `remove`, `rmall`; `LegacyOwn` |
| `VolumesTypeCorrect` | `VolumesSpec => []VolumesTypeOK` | the initial settings are settings |
| `SharersAgree` | `VolumesSpec => []OwnArguments` | |
| `PodsBringTheirs` | `VolumesSpec => []PodsBringCredentials` | |
| `VolumesDecide` | `VolumesSpec => []ContextWins` | Secrets spell a flag as the volumes do |
| `AllowListHolds` | `VolumesSpec => []OnlyAllowed` | |
| `NoCycles` | `VolumesSpec => []NoWrapCycles` | |
| `NamespacesApart` | `Spec => []NamespaceIsolation` | |
| `VolumesStayInside` | `Spec => []StaysUnderRemotePath` | |
| `VolumesProvision` | `VolumesSpec => Spec` (of `Controller`) | |
| `MountsStayInside` | `VolumesSpec => []MountedUnderRemotePath` | no Secret has the key `remotePathSuffix` |

Why those faults are left out:

* `timeout`: kubelet gives a call up and sends the next one for the path, while the first
  runs on (`LatePublish` shows what comes of it); and `stopScope` of a call that was given up
  is cancelled, which `unmount` only warns about.
* `stop`: `unmount` removes the state of an rclone it could not stop.
* `load`: `loadStates` skips a file it cannot read, so a call takes a volume that is staged
  for one that is not.
* `crash` and `rmall`: `unmount` removes the mount point before the state, so a restart or an
  error in between leaves a state file that says it is staged (`RestagedAfterCrash`). With
  `crash`, an rclone may also be left starting that nobody waits for, and come up when it was
  already found to have no uploads.
* `save` and `remove`: a mount that is up but not recorded as `Mounted` is taken for one that is to be
  mounted anew (`MountedLost`).
* `drain`: `waitForUploads` gives up after an hour by design.

`LegacyOwn` says that the mount 4.0.0 left for a volume is reached by the arguments of no
other volume: 4.0.0 named a mount after its volume ID, and a hash of arguments is not one.
`KubeletOrder` satisfies the hypotheses of all theorems about `KubeletSpec`, and `ChangedArgs`,
with two mounts for one volume and restarts, those of `StagedOnce` and of the others whose
properties it checks, so none is vacuous.

`MountsStayInside` excludes Secrets with a `remotePathSuffix`: `CreateVolume` leaves an empty
suffix out of the volume context, and `extractFlags` would then append what the Secret says,
which nobody has checked. Whoever writes `rclone-secret` chooses `remotePath` itself, so this
is no way around the isolation of PVCs. Its part about namespaces is stated for one
`remotePath` (`OneRemotePath`): mounted before and after that changes, `/a` with `/a/b` and
`/a/a` with `/b` are the same path. Such mounts have the same arguments and one rclone. What
volumes share an rclone is said by namespace and not by volume, since two PVCs of a namespace
may well get the same path. The instance of `Volumes` satisfies both conditions.

### Along which argument

`RcloneNodeProofs`. The inductive invariant is `Inv == TypeOK /\ Shape /\ Safe`. `Shape` says
which labels a process can be at and with which request: without it a step might be taken by
the reconcile loop that only calls take, or with a path that is not one of the node's. `Safe`
is `OneHolder /\ StateStays /\ LastUserUnmounts`: a process knows that the state of its id is
saved, or that it is the only user, and keeps knowing it because nobody else writes the state
of an id it has locked. `OthersKeep` is that argument, stated once: a step of `p` that writes
at most the state of the id `p` holds, and takes at most a lock that is free, disturbs nobody.
`RcloneNodeSteps` carries it on: every step of a process `OnlyMoves` that process and
`OnlyTouches` the state and the rclone of the id it holds, so that a later invariant is
checked for one process and one id.

`SharedMountsProofs`. `SharedInv` adds that a process that sets a mount up or takes it down
does so for the request it has (`ForItsRequest`), and what it knows of the users (`Sharing`):
a mount that is being set up has none, and one that is left with its state kept keeps others.
With it every step maps to a step of `SharedMounts` or a stutter, action by action.

For `EveryRcloneKnown`, in the same module, `NotRunning` is the missing strength: where a state is not saved yet, or
about to be removed, there is no rclone. It holds because `stopScope` left none.

`KubeletNodeProofs`. `Orderly` is what kubelet's order gives: one call per path, and no answer
yet for a path with a call under way. `Handling` ties labels to requests, `Sites` says where a
mount can be and what can be its users and targets, `Found` what a call knows of the mount it
has locked. `Bare` then is inductive: a target without a directory has no mount, and one that
was answered as unpublished has no directory. The removal fails on a target that is mounted,
reconcile does not create the directory it binds to, and a publish of the same target would be
a second call for it.

`KubeletTargetsProofs`. `Searched`: a stage or unstage that has looked at all mounts
either has the one its path uses still to visit, or there is none. `Staged`, `InOrder` and
`Legacies` relate the records of a mount to what kubelet was told: a target's user is among the
users, its staging path is staged while it is published, and nobody joins a mount at a staging
path. `Targeted` is the invariant behind both theorems: a target kubelet was told of is held by
a mount that serves (state and mount point exist and nobody takes it down), a mount that a
target shows is the one that holds it (`MountedAt`, `Binding`).

`KubeletRclonesProofs`. `Sited`: without restarts a state has its mount point until it is
removed, from which `Recorded` follows as for targets. `Backed` and `Starting`: a mount that
answers has its rclone, and somebody waits for every rclone that starts. `Drained` then is
inductive: after `waitForUploads` no published target shows the mount, so no pod writes.
`Mounting`, `Tidy` and `Quiet`: a state that is not `Mounted` is being set up by somebody, no
mount point is mounted over, and whoever replaces an rclone holds one that is gone.

`ControllerProofs`. What a recursive function computes for every string needs induction, here
over a set: the numbers or sequences for which a statement holds are a set with 0 (or `<<>>`)
and closed under one more (`NatSetInduction`, `SeqSetInduction`, from the well-foundedness of
`<` on the naturals). Each function of `Controller` is shown once to be a fold, and the lemmas
about folds (`FoldAppend`, `FoldConcat`, `FoldKeeps`) give what it makes of one more character
and of two texts: `Split` on both sides of a slash, `Directory` of segments without dots,
`Substitute` in each part. A pattern that `validatePathPatternIsolation` accepts is fixed text,
the namespace and a rest that starts a segment (`IsolatingPattern`); replacing placeholders, in
whatever order and also inside what was replaced, keeps that form (`ParserIsolates`), so every
directory is one root, the namespace, and what is below it (`IsolatedDirectory`). The invariant
`MadeInv` says that every volume is what `CreateVolume` makes of some PVC under the class.

`VolumesProofs`. `VolumesInv` says of each mount that its id is that of its arguments
that these are what some volume got with some Secret, and that each of its users would have
got them: with `ReuseMounts` with the Secret that its own call has read,
since equal ids are equal arguments, without with that of an earlier call for the same volume.
`OwnArguments` alone does not say by which id `Join` finds a mount, nor what a mount without
users serves. The allow-list theorems rest on lemmas that what `validateOptions` accepts is
checked along every chain of wrapped remotes, and that a remote which is wrapped wraps nothing
itself. `AllowListHolds` starts the chain at a root that was checked, which `ReadAlike` gives.
`NoCycles` needs less: whichever remote is mounted, what it wraps was checked, and a backend
without a section wraps only what a flag says. For this `Reached` is defined as a least closed
set rather than by recursion on a depth, and `Merged` as one function. `ProvisionedInv` ties
mounts to the controller: a user of a provisioned volume has one that `CreateVolume` made,
which may have been deleted since, so `MadeInv` of the volumes that exist is not enough.

### Only model-checked

* Liveness (`DeadMountsComeBack`, `BindsComeBack`, `MountedComesBack`, `CallsReturn`,
  `NothingLeftBehind`): fairness and `ENABLED` are outside the prover's reach.
* The properties of the violation runs, which the code does not have, among them
  `AlwaysAllowed`, of which `AllowListHolds` proves the part with `ReadAlike`.

## Not modelled

The gRPC server, the Kubernetes client and the Helm chart, which keep no state that the
properties are about (the client is a global that concurrent calls set without a lock, each
to an equivalent value); memory and task limits of scopes; the texts of the regular
expressions and of `options_gen.go`, of which the model has representatives; the log file
of rclone; `ValidateVolumeCapabilities` and the calls that only report capabilities.

## Plan

1. Done: `RcloneNode`, `KubeletNode`, `Controller`, uploads, daemon lifetimes, `SharedMounts`,
   `Options` and `Volumes`, with their runs.
2. Done: proofs of every safety property of the passing runs, and of the refinement.
3. Left: which of the theorems about a node without restarts have a version that survives a
   restart (`UploadsAwaited` seems to need only that no rclone is left starting); a theorem for
   `timeout` that says what is kept until a call that was given up returns.
