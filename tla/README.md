# linyaps-box in TLA+

`ll-box` (linyaps-box) is a small OCI runtime. This directory holds TLA+ models
of it, the TLC configurations that check them, and TLAPS proofs about them.
Paths below are relative to the repository; `container.cpp` stands for
`src/linyaps_box/container.cpp`.

## The system

| Component | State | Operations | Interacts with |
| --- | --- | --- | --- |
| **container run, runtime side** (`container::run`, `runtime_ns`) | its place in `run`, the child's PID, one end of a socket pair, the exit code it will return | write the CREATING record, socketpair and clone, write CREATED, answer the namespace request (newgidmap, newuidmap), prestart and createRuntime hooks, wait for the createContainer hooks, wait for the socket's end, poststart hooks, waitpid, write STOPPED, poststop hooks, remove the record | the clone (messages, its death), the status directory, hooks |
| **container run, container side** (`container_ns::clone_fn`) | its place, the other end of the pair | close descriptors, request the namespaces, mounts, request the createRuntime hooks, createContainer hooks, pivot_root, startContainer hooks, exec | the runtime |
| **synchronisation socket** (`utils/file_describer.cpp`, `sync_message`) | messages under way, who holds which end | send, receive with a comparison to the message expected, close | both sides |
| **closing of inherited descriptors** (`close_other_fds`) | the descriptor table | one `close_range` per gap between kept descriptors | decides who holds the socket's ends |
| **status directory** (`impl/status_directory.cpp`, `utils/atomic_write.cpp`) | `<ID>.json` and `<ID>.json.tmp` under the root | write, read (with `kill(pid, 0)`), remove, list | every command |
| **commands** `run`, `list`, `exec` | the list of containers they have read | see the modules | status directory, processes |
| command `kill` | none: a stub that returns 0 | - | - |
| **mounts** (`configure_mounts`, `mounter`, `do_mount`, `do_pivot_root`; `utils/open_file.cpp`, `mkdir.cpp`, `touch.cpp`, `mknod.cpp`) | the place in the list, the mount at work and its descriptors; the mount table and the files, which the kernel keeps | bind and remount, mount, create a destination, default file systems, default devices, pivot_root | inside the clone, after the parser and before exec |
| **credentials** (`execute_process`) | the clone's user, group and groups | chdir, setgid, setgroups, setuid, exec | last step of the clone |
| **configuration** (`config.cpp`), **versions** (`utils/semver.cpp`) | the list of mounts being built, the options of the current one | compare the version, parse sections, options, mounts, or throw | constructor of `container`, before the clone exists |
| options, printers, log, inspect | - | formatting, output | - |

What makes it hard: two processes that follow the same configuration without
any shared state but a byte stream; any of them may fail, throw or be killed at
any system call; the end of a stream as a signal, which depends on nobody else
holding a copy of the descriptor; a directory shared by unrelated commands
without a lock; PIDs that outlive their processes; mounts that cover each other,
reached through descriptors that stand on what was there before; structures
with uninitialised members. The list of hazards, each at
its line, is in `PROJECT.json`.

What makes each part correct:

* run: messages never surprise their reader; nobody waits for ever; hooks and
  id maps come in order; the record names the container's process as long as
  there is one; the command's result is the container's.
* descriptors: what is kept stays, what is not goes.
* directory: a reader finds a whole record or none; a run finds its own; what
  is finished leaves nothing; a listing misses nothing that was there.
* parser: of contradicting options the last decides.
* mounts: each gets the attributes it was asked for, through no step does
  another one change, the defaults hide nothing the configuration mounted, and
  no failed call is passed over.
* credentials: those of the configuration, all of them, or no program.

## The modules

| Module | What it is |
| --- | --- |
| `ContainerLifecycle` | Abstract: what `ll-box run` promises. Life of the container's process, the record, the command's result. No messages, no hooks. |
| `ContainerRun` | The two processes of one `ll-box run`, one action per step of `container::run` and `clone_fn`. `ImplementsLifecycle` instantiates `ContainerLifecycle` with `life <- Life`, `listed <- record.status`, `readable <- record.whole`. |
| `ContainerRunInv` | Its inductive invariant `IInv`. |
| `ContainerRun_proofs`, `ContainerRunInv_proofs` | Types; preservation of each part of `IInv`, the theorems and the refinement. |
| `CloseFds` | `close_other_fds` as a function of the open and the kept descriptors; used by `ContainerRun`. |
| `CloseFdsLoop`, `CloseFds_proofs` | The loop itself, one `close_range` at a time; its proofs. |
| `StatusRegistry` | Abstract: the directory as a map with atomic operations, in which the record of an ID goes through one run's life before the next begins. |
| `StatusDirectory` | The directory's files, several runs writing them in three steps, and `list` and `exec` reading them. `ImplementsRegistry` maps it to `StatusRegistry`. |
| `StatusDirectoryInv` | Its inductive invariants: `DirInv` for the runs, `TakenInv` for PIDs used again, `ListInv`, `ExecInv` and `ReturnInv` for what commands have read and runs have left. |
| `StatusDirectory_proofs` | Types and `list`: what holds whatever IDs callers choose. Then `DirInv`, the refinement of `StatusRegistry`, `exec`: what holds when IDs are exclusive. |
| `MountOptions` | The words of a mount's options and `parse_mount_options` as a fold over them, one `ParseOption` per word. |
| `ConfigParser` | `config::parse` as a state machine: the version, the other sections, the mounts one option at a time. |
| `MountTable` | External: what the kernel does. Lookup of a path through stacked mounts, files, bind, remount, new file systems, pivot_root. |
| `Mounter` | `configure_mounts` and class `mounter`, one action per call that changes something. |
| `ContainerSetup` | The composition: parser, then mounter, then `execute_process`. |
| `ContainerSetupInv` | Its inductive invariants: `StageInv` for the mounter's place, `MountInv` for the job at work and the mount table, `DefaultsInv` for the default file systems and devices. |
| `ContainerSetup_proofs` | The parser's inductive invariant; the parser, the credentials and the mounter's place in the whole setup. |
| `MountTable_proofs` | Lemmas: prefixes, the mount at a path, the names of a path inside a file system, what making files, mount(2), a remount and pivot_root do to the table, and what they leave of the lookups. |
| `Mounter_proofs` | `MountInv`, and what follows from it. |
| `MounterDefaults_proofs` | `DefaultsInv`, and what follows from it. |
| `MC*` | Constants for TLC, with one `.cfg` per run. |

### ContainerRun against the code

`rpc` and `cpc` are the places of the two processes, `rhook` and `chook` the
iterators of their hook loops. `first` and `second` are the processes that hold
the ends of the pair, `toR` and `toC` the unread messages. `Leave` is what the
kernel does when a process is gone: its ends are closed, a queue nobody can read
is dropped, and the peer of an end closed over unread messages is reset. A
write to a closed end kills the runtime (SIGPIPE, which nobody ignores); the
clone, the first process of a PID namespace if it has one, dies of it or gets
the exception. `record` is the status file, written by `CreateContainer`,
`WriteCreated` and `WriteStopped` and read with `ReadStatus`, which asks the
kernel whether the PID exists: a zombie does, and so does whatever process got
the PID after it was reaped (`PidReused`). Every write may lose the record
(`Write`, `record.whole`): `atomic_write` never asks its stream whether there was
room for the text, so it may rename an empty file over the record, and only the
next read throws (`Rewrite`, `IdMapping`, `WaitContainerProcess`). Without a
user namespace nothing reads between CREATED and the end, so the container runs
all the same. `wait` is how the clone ended; `RawStatus` is the int that waitpid
makes of it and `WEXITSTATUS` the macro, which `container.cpp:1412` applies
without asking how the process ended: `ContainerLifecycle` promises the exit
code of a container that exited, and nothing for one that a signal ended.
`RThrows` and `CThrows` are the
exceptions that any system call may end in, `RKilled` and `CKilled` signals.
`cfg` is what matters of the parsed configuration; `firstFd` is the lowest free
descriptor when the socket pair is made. It is 4 or more when syslog has taken
3, and 3 when it has not (no `/dev/log`, or a log level that prints nothing).
`prestart_hooks` and `create_runtime_hooks` both walk the prestart list
(`container.cpp:1293`, `1319`), so those hooks are executed twice; `HookOrder`
says so. `wait_socket_close` takes any byte for the end of the stream
(`container.cpp:1363`), the one that startContainer hooks send as well:
`PoststartAfterStart` says what that costs, poststart hooks that may run before
exec, though not before anything else the clone has to do. `ran` and `mapped` are history: hooks executed, id maps written.

A hook is one step, whatever it does; so is `configure_mounts`, `do_pivot_root`
and the preparation of exec, which `ContainerSetup` has in full. Hooks can fail,
be killed or never end.

### StatusDirectory against the code

`pc` is the place of each run; `open`, `fill` and `rename` are the steps of
`atomic_write` (`ofstream` truncates or creates, the content goes out at
`close`, `rename` replaces), shared by the three writes, which `draft` tells
apart. Files are named after the write that created them, so that two writers
of one temporary name hold the same file. `FillTemp` may write nothing when the
disk is full: the stream's state is never tested. `list` and `exec` walk a
snapshot of the names (`OpenDirectory`, `VisitEntry`), skip what they cannot
read, and read the records again, `list` all of them and `exec` one. The
handshake is abbreviated to `Configure`: `ContainerRun` has it in full. The PID
of a process that is gone (`Gone`: a runtime that has ended, a container that
was waited for) may be given to another process (`PidReused`, `taken`), which is
none of ours: from then on `kill(pid, 0)` finds it, a stale record reads as it
was written, and `exec`, which reads the PID in one step and starts nsenter in
another (`container_ref.cpp:36`), may enter it; then it ends "astray". `Exclusive` says that callers do not give a new
run the ID of a live one; nothing in the code enforces it.

### ContainerSetup against the code

The clone's own work between the messages, from the file it was configured
with. `parser` says where `parse_1_2_0` is, `parsed` how many options of the
current entry `parse_mount_options` has been through, `acc` its local variables,
`list` is `config::mounts`. `stage` is the place in `configure_mounts` and
`mounter::finalize`, `n` the iterator of the list or of the devices, `step` the
place in `do_mount` or `do_bind_mount`, `job` their argument, `src` and `dst`
their descriptors. `process` is the place in `execute_process`, `user` the
credentials. `mounts` and `fss` are the kernel's. `by` and `asked` are history:
who asked for a mount, and with which attributes.

* A descriptor is a path with the mount it was opened on (`Handle`). It stays on
  that mount when another one covers the path, which is why `do_bind_mount`
  opens its destination a second time (`ReopenDestination`).
* `EnsureDestination` opens the destination inside the rootfs (`InRoot`: a
  leading slash is dropped) and creates it where `mkdir` does (`MkdirTarget`:
  the first part of an absolute path is `/`, and `openat` of it is the root of
  the process).
* A `mount_t` has no initialisers for its flags. `Garbage` is what the memory
  may have held: it is the flags of an entry without options, of the default
  proc, and the propagation of all default mounts.
* Every call may fail (`Throws`, `ParserThrows`, `ProcessThrows`), in addition to
  the failures the model decides from the state: no such file, not a
  directory, read-only, a file over a directory. A missing optional value is an
  exception or an assertion, and ends the clone as well. One failure is handled:
  EPERM from sysfs (`SysfsNotPermitted`).
* `mknod` is called with mode 0666, which is a regular file, and
  `configure_deivce` goes on with a descriptor that is still empty, so its
  `lstat` fails unless the garbage it reads happens to work; both outcomes are
  in `ConfigureMissingDevice`.
* A read-only tmpfs moves its descriptor into the delayed remount and then uses
  the empty one (`MountDestination`); so no delayed remount is ever queued and
  the loop over them has no action.

What the hosts and files are assumed to be, as `MountTable` says: no symbolic
links; destinations lie below the root without `..` and do not name the rootfs
once more; the source of a bind has no mounts below it, so that `rbind` is
`bind`; a relative source is not found; no file system is on the RAM disk 1:3,
which `configure_deivce` takes for `/dev/null`.

* The propagation options (`rprivate` and its like) are lost, surely by mistake:
  `parse_mount_options` collects them with `&=` into a value that begins as 0
  (`config.cpp:63`, `76`). The model does the same. No property says so: that
  they are lost is the statement itself, and what they are meant to do the
  repository says nowhere but in the table of their names.

Seen on the way, and not a property: `umask`, `oomScoreAdj`, `noNewPrivileges`
and `root.readonly` are parsed and never applied; the default devices are bound
with NODEV. `process.gid` is not applied either (the group is set to
`process.uid`): `container_setup_group` shows it.

## The runs

| Run | What it checks | Bounds |
| --- | --- | --- |
| `close_fds` | `KeptStayOpen`, `OnlyLoneGapsSurvive`, `LoopIsCloseOtherFds`, `LoopEnds` | every set of inherited and of kept descriptors below `MaxFd` = 6, every failing call. All gap lengths 0 to 5, adjacent marks, marks at both ends. |
| `container_run` | `HandshakeAgrees`, `RuntimeHooksWhileCloneWaits`, `HookOrder`, `IdMapsInPlace`, `RecordNamesContainer`, `PoststartAfterStart`, `AbortsOnlyOnPidReuse`, `ImplementsLifecycle`; liveness: `NoHandshakeDeadlock`, `DeathIsNoticed`, `NoOrphanAboveLowSocket` | every combination of empty and one-hook lists, and of two hooks in one list; no user namespace, uid maps, both maps; the socket pair at 3 and at 4; exit codes 0 and 3; any write may lose the record. Two hooks tell the middle of a loop from its end. |
| `container_orphan` | `NoOrphanInSetup`, violated | no hooks, the socket pair at 3 |
| `container_poststop` | `PoststopHooksRun`, violated | one poststop hook |
| `status_directory` | `RecordsWhole`, `TempFileIsOurs`, `RunFindsOwnRecord`, `ListMissesNone`, `ListFailsOnlyIfOneVanished`, `ExecStaysOnId`, `ReturnedLeavesNothing`, `ImplementsRegistry` | one command, and `r1` beside a second run: either `r2`, with the same ID and never live together with it, or `r3`, with another ID and at the same time, not both (`TwoTakePart`). Any write may find the disk full and any PID may be used again, but not once `r3` takes part (`CompanionRunsWell`) |
| `status_shared_id` | `AssertionsHoldForAnyIDs`, violated | two runs with one ID, at the same time |
| `status_list_race` | `ListNeverFails`, violated | two runs, one `list` |
| `status_exec_early` | `ExecInRunningContainer`, violated | two runs, one `exec` |
| `container_setup` | `TypeOK`, `LastOptionDecides`, `AttributesAsAsked`, `OnlyOwnMountChanged`, `DevMountsStayVisible`, `ProcAndSysMounted`, `DevicePathsAreDevices`, `CredentialsComplete`, `SetupEnds` | 20 kinds of entries alone, pairs that meet on `/mnt`, `/dev`, `/proc` or on a directory not there, triples on `/mnt`; seven versions; four users; five root file systems; four contents of uninitialised memory; two of the six devices; every failing call |
| `container_setup_inside` | `MountsInsideContainer`, violated | the same |
| `container_setup_tmpfs` | `DestinationIsOpen`, violated | the same |
| `container_setup_group` | `GroupAsConfigured`, violated | the same |

A mount can disturb another only where they meet, so lists need not be long:
three entries stack two mounts and remount the top one. The devices are treated
alike and independently; two tell the middle of the loop from its end. The root
file systems differ in what decides a branch: `/dev` empty, full, with a
directory where a device goes and a file where `/dev/pts` goes, or a file
itself; `/proc` missing; the rootfs a mount of its own. `CHECK_DEADLOCK FALSE`,
since a setup ends.

Two runs are enough for the directory: names of different IDs never meet, and
of one ID at most one run is live, so what a run finds is the work of its
predecessor. A lost record or a used PID concerns the runs of one ID and the
command that reads it, so these are left to `r1`, `r2` and the command; `r3` is
there for what two live containers do to each other and to a listing. The
proofs have no such bound. One command is enough since `list` and `exec` change nothing.
`CHECK_DEADLOCK FALSE` in the directory's configurations: every run and every
command ends, and then nothing is left to happen. `ContainerRun` keeps the
check, with `Terminated` for the proper end.

**Fairness.** `FairSpec` is weakly fair to the runtime's own steps, to the
clone's, and to init: the kernel schedules both processes and reaps orphans.
Hooks, the user's program, failures, kills and PID reuse are not fair: nothing
in the code makes a hook end (its `timeout` is parsed and not used), so the
liveness properties treat a hook or a user's program in progress as progress.
`CloseFdsLoop` is fair to the loop. `ContainerSetup` is fair to the program's own
steps, parser, mounter and `execute_process` together, since one thread takes
them; that a call fails or is not permitted is never forced.

### What the violations show

* `container_orphan`: `low >= high` at `container.cpp:926` skips a gap of one
  descriptor. With the pair at 3 and 4, descriptor 3, the runtime's end, stays
  open in the clone; if the runtime fails or is killed then, the clone waits
  for ever on a socket whose other end it holds itself. With the pair at 4 and
  5 the gap is 3..4 and is closed, which is why it seldom shows
  (`NoOrphanAboveLowSocket` in `container_run`).
* `container_poststop`: `poststop_hooks` tests the poststop list and walks the
  poststart list (`container.cpp:1382`, `1386`).
* `status_shared_id`: the assertion on the record at `container.cpp:1457` is
  about a file that another run with the same ID may have replaced.
* `status_list_race`: `list` reads records a second time without the protection
  it gives the first reading (`command/list.cpp:31`).
* `status_exec_early`: `exec` in a container that is being created enters the
  runtime's namespaces, since the record holds the runtime's PID until
  `container.cpp:1458`.
* `container_setup_inside`: a mount whose absolute destination is not in the
  rootfs. `utils/mkdir.cpp:35` opens `/` with `openat`, which leaves the
  directory it was given, so the destination is created in the host's tree, the
  mount goes there, and after pivot_root the container does not have it.
* `container_setup_tmpfs`: a read-only tmpfs. `do_mount` moves the destination's
  descriptor into the delayed remount (`container.cpp:458`) and mounts through
  what is left, which is none; the assertions of the two functions it hands the
  descriptor to say that it is open. The mount fails, and the container with it.
* `container_setup_group`: `execute_process` gives `process.uid` to setgid
  (`container.cpp:757`); `process.gid`, which the parser demands, is never used.

## The proofs

Proved with TLAPS for every value of the constants, under the assumptions that
the modules name: configurations are of `ConfigType`, the socket pair lies above
the standard streams and below `MaxFd`, exit codes are bytes.

* `TypeCorrect`: `Spec => []TypeOK`.
* `InductiveInvariant`: `Spec => []IInv`. The properties are not inductive: that
  the head of a queue is what its reader expects holds because of where the
  *other* process is and what it has already sent. `IInv` therefore says, for
  every stretch of the clone's way, where a live runtime can be and what is in
  both queues (`ExchangeInv`: `AtRequestNs`, `AtAwaitNs`, ..., `AtExec`), what a
  dead clone can have left unread (`LeftoverInv`), what can wait for the clone
  (`InboxInv`), who holds the ends (`SocketInv`), and how the record, the id
  maps, the hooks done and the results follow the two places (`RecordInv`,
  `MapInv`, which also says from where on the record must have been readable,
  `HookInv`, `ResultInv`). Each part is preserved by a lemma of its own
  in `ContainerRunInv_proofs`, with one step per action.
* From it: `HandshakeCorrect`, `HooksWhileCloneWaits`, `HooksInOrder`,
  `IdMapsCorrect`, `RecordCorrect`, `PoststartCorrect`, `AssertionsHold`, for
  hook lists of any length.
* `RunRefinesLifecycle`: `Spec => ImplementsLifecycle`; every step of
  `ContainerRun` is a step of `ContainerLifecycle` or leaves its variables alone
  (`StepRefines`). A lost record is `readable = FALSE` there, and the promise to
  report the exit code is for a container that exited.
* `CloseFds_proofs`: the loop stays on its marks (`LoopTypeCorrect`), keeps what
  it should (`KeptDescriptors`), computes the function (`LoopComputes`) and
  leaves exactly the lone descriptors (`LoneGapsSurvive`), from the invariant that behind the mark everything is
  closed as the function says and ahead of it nothing is; and
  `LowSocketSurvives`: the runtime's end at `f` survives in the clone, which
  keeps 0, 1, 2 and `f + 1`, if and only if `f` = 3.

`StatusDirectory` is proved for any runs, IDs and commands, with and without a
full disk.

* Whatever IDs callers choose: `DirTypeCorrect` (`Spec => []TypeOK`), and
  `ListMissesNoneCorrect` and `ListFailsOnlyIfOneVanishedCorrect`, from
  `ListInv`: while a `list` is at work, every record that has been readable
  since it began is either in what it has found or among the names it has yet
  to visit, and whatever it has found is still readable or was seen to vanish.
* `ASSUME Exclusive PROVE Spec => ...`, for callers that never give a new run the
  ID of a live run. `DirInvCorrect`: `Spec => []DirInv`. That a run finds its own
  record is not inductive: the temporary file it renames may be one that an
  earlier run left, and a file could be reached by two names. `DirInv` adds that
  one run per ID is live (`OneRunPerID`), that no two names lead to one file and
  names of different IDs never do (`NamesApart`), that the file a write would
  create exists nowhere yet (`FilesFresh`), what a run's place says about its
  draft, its temporary file and its record (`DraftInv`, `TempInv`, `DiskInv`),
  and that a record is whole and of some run with that ID (`WholeInv`). Steps
  are of two kinds, those that leave the directory alone (`QuietStep`) and those
  on the names of one ID (`DirStep`); each action then has to show only what it
  does to its own run. From it follow `RecordsWholeCorrect` and
  `TempFileIsOursCorrect`.
* PIDs that are used again need `TakenInv`: a PID is taken only from a process
  that is gone, which stays gone since a run clones once (`NotCloned`), and a run
  aborts only if its container's PID was taken. With it,
  `RunFindsOwnRecordCorrect`, and `ExecStaysOnIdCorrect` from `ExecInv`: what
  exec is about to enter has the PID of a run with its ID, and a process that
  has nothing to do with the ID is entered only once that run's is gone.
* `ReturnedLeavesNothingCorrect` is about the step in which a run returns. From
  `ReturnInv`, a run that is through its writes has taken over the temporary
  file of its ID, whoever left it there; so its last step leaves neither name.
* `DirRefinesRegistry`: `Spec => ImplementsRegistry`. The rename is the moment of
  a write (`RenameRefines`), the removal the end of a run (`RemoveRefines`), and
  every other step a failure or none of the registry (`QuietRefines`).

`ContainerSetup` is proved for any files, hosts, devices and contents of memory
that are of their types (`DocumentsAssumption`, `GarbageAssumption`,
`HostsAssumption`, `DevicesAssumption`).

* `SetupParserInvariant`: `Spec => []ParserInv`; every step of the setup is a step
  of the parser or leaves its variables alone (`SetupParses`), so the invariant
  of `ConfigParser` (`ParserInvariant`) carries over. That a finished mount is
  as its options say is not inductive; `ParserInv` adds the same of the words
  parsed so far (`CurrentOK`). One more word keeps "the last word that speaks of
  a bit decides it" (`OneMoreWord`) since no word both sets and clears
  (`SetsOrClears`). From it: `OptionsDecided`, for option lists of any length.
* `CredentialsAreComplete`: from `UserInv`, which says at each place of
  `execute_process` which of the three have been set. It says of the group only
  that it is not root's; that it is the configuration's is not true.
* `StageInv` says where in the list and in `do_mount` the mounter can be
  together; the invariants below rest on it.

* `MountInvariant`: `Spec => []MountInv`. That every mount has the attributes it
  was asked for depends on which mount a descriptor stands on, so the invariant
  is about the table and the descriptors together. Of the table it says that each
  file system is a tree (`IsFileSystem`: what is above a file is there), that
  something is mounted at the root (`Rooted`), and that what a mount shows is in
  its file system (`RootsThere`). Of the job it says, for each step, where the
  descriptors stand (`Stands`: the mount covers the path, and the path is in
  it); that before the mount the destination's descriptor is on the top mount of
  its path (`DestinationInv`); and that between the two mounts of a bind the
  newest mount is the job's own and the reopened descriptor is on its root or on
  the root of no mount (`NewestInv`). The last is the hard part: `mkdir` may have
  made the destination elsewhere than where `open` looks for it (`IsDestination`,
  `Wanted`, `Made`), and the second opening has to end on the same mount even
  so. The lemmas of `MountTable_proofs` say that a new mount becomes the top of
  the paths at and below its place and of no others (`TopAfterMount`), that
  making a file keeps a file system a tree (`CreateAdds`), and that a remount
  and pivot_root leave what they should (`RemountChanges`, `BelowRootType`); then
  there is one lemma per action.
* From it: `SetupTypeCorrect` (`TypeOK`), `AttributesCorrect`
  (`AttributesAsAsked`) and `OwnMountChanged` (`OnlyOwnMountChanged`), for
  configurations of any length and hosts with any mounts and files.

* `DefaultsInvariant`: `Spec => []DefaultsInv`, with the help of `MountInv`. What
  the container has at the paths of the defaults depends on every step since the
  file was read, so the invariant has three parts. `DoneInv` says what the
  stages before have left: a proc and a sysfs or what stands for them
  (`ProcThere`, `SysThere`), each device bound over what was at its path
  (`DeviceBound`), and no mount of a default before the first of them.
  `OwnerInv` says where the job at work is to mount, and `ProcJob`, `SysJob`,
  `DevJob` and `DeviceJob` say, step by step, what is true of that place until the
  job is done: that the tmpfs for /dev finds the directory still empty, that
  what is made for /dev/pts, /dev/shm or a device is made outside the rootfs, and
  that the uninitialised flags of the proc may turn its mount into a bind or a
  remount, neither of which is passed over. `PointsThere` says of the table that
  every mount is on something that is there.
* The last is what makes "/dev is covered only if it is empty" hide nothing: a
  mount below an empty directory would be on a path that is not there, so it was
  made before the directory was last covered (`MountsBelow`). A new mount or file
  leaves the lookups of all paths beside it alone (`LookupBeside`,
  `CreateBeside`; `FixedBeside` and `DeviceBeside` say that the places of the
  defaults are beside each other), and a stage that mounts on its own path has
  what it needs there (`LookupAtMount`). `pivot_root` renames every path, and the
  lookup of a path after it is the lookup of the path below the rootfs before it
  (`PivotLookup`), so what `DoneInv` says of `rootfs/proc` becomes what
  `ProcAndSysMounted` says of `proc`.
* From it: `NothingHiddenBelowDev` (`DevMountsStayVisible`), `ProcAndSysAreMounted`
  (`ProcAndSysMounted`) and `DevicesAreBound` (`DevicePathsAreDevices`), for any
  hosts, lists of mounts and lists of devices. Of the host they assume
  (`HostsAssumption`) that each of its mounts is on something that is there,
  which mount(2) sees to; of the devices that their names
  are distinct (`DevicesAssumption`).

Model-checked only: the liveness properties (fairness and ENABLED are beyond the
prover) and the violations. `IInv`, `DirInv` and the other invariants were
checked with TLC on the configurations of the passing runs before they were
proved.

## Not modelled

* Configuration: the text of the file. Sections other than the version, the
  mounts and the user are one step that is taken or throws; what a run depends
  on in them is in `ContainerRun`'s `cfg`.
* Versions: splitting the text, and the prerelease part, which
  `is_compatible_with` does not look at.
* The delayed remount (`do_delay_readonly_mount`): never reached, see above.
* The timeout of hooks: nothing enforces it, so a hook that hangs is one that
  never ends in `ContainerRun`, and there is no step to model.
* The pause for SIGUSR1 under `LINYAPS_BOX_CONTAINER_PROCESS_TRACE_ME`: a
  debugging aid.
* `kill`: a stub. Options, printers, logging: no state, output only.
* What hooks, newuidmap, newgidmap, nsenter and the user's program do: external.

## Plan

In this order; all of it is done.

1. `ContainerLifecycle`, `ContainerRun`: the core, its inductive invariant, the
   theorems and the refinement.
2. `CloseFds`, `CloseFdsLoop`: used by 1, with proofs.
3. `StatusRegistry`, `StatusDirectory`: the shared root.
4. Proofs about `StatusDirectory`: types, `list`, the inductive invariant for
   exclusive IDs, the refinement of `StatusRegistry`.
5. `MountOptions`, `ConfigParser`, `MountTable`, `Mounter`, `ContainerSetup`: from
   the file to exec.
6. Proofs about `ContainerSetup`: the parser, the credentials, the mounter's
   place.
7. Further proofs about it: the mount table's lemmas, `MountInv`, `TypeOK`,
   `AttributesAsAsked` and `OnlyOwnMountChanged`.
8. What the default file systems and devices leave: `DevMountsStayVisible`,
   `ProcAndSysMounted` and `DevicePathsAreDevices`, through `DefaultsInv`.
