------------------------------- MODULE Mounter -------------------------------
(***************************************************************************)
(* configure_mounts and class mounter (src/linyaps_box/container.cpp): the *)
(* clone applies the list of mounts in its order, then the default file    *)
(* systems and devices, and later makes the rootfs its root.               *)
(*                                                                         *)
(* A mount in progress (a job) goes through the steps of do_mount or       *)
(* do_bind_mount.  Every system call may fail (Throws), which ends the     *)
(* clone, except for one: a sysfs that may not be mounted is bound.        *)
(***************************************************************************)
EXTENDS ConfigParser, MountTable

CONSTANTS
  Hosts,   \* the hosts considered: the mounts and files at the beginning
  Devices  \* the names of the default devices, below /dev

\* A root file system, what is mounted below it, each mount on something that is
\* there, and the file systems for it.
IsHost(h) ==
  /\ h.mounts \in Seq([at : Seq(Name), fs : Nat, flags : SUBSET Flag])
  /\ \A i \in 1 .. Len(h.mounts) : h.mounts[i].fs \in 1 .. Len(h.fss)
  /\ h.mounts # <<>> /\ h.mounts[1].at = <<>>
  /\ h.fss \in Seq({h.fss[f] : f \in 1 .. Len(h.fss)})
  /\ \A f \in 1 .. Len(h.fss) : IsFileSystem(h.fss[f])
  /\ \A i \in 2 .. Len(h.mounts) : \E k \in 1 .. i - 1 :
       /\ IsOn(h.mounts, i, k)
       /\ SubSeq(h.mounts[i].at, Len(h.mounts[k].at) + 1, Len(h.mounts[i].at))
            \in DOMAIN h.fss[h.mounts[k].fs].files

ASSUME HostsAssumption == \A h \in Hosts : IsHost(h)
ASSUME DevicesAssumption ==
  /\ Devices \in Seq(Name)
  /\ \A d, e \in 1 .. Len(Devices) : Devices[d] = Devices[e] => d = e

VARIABLES
  stage,  \* where configure_mounts is
  n,      \* the position in the list or among the default devices
  step,   \* where do_mount is: "idle" between two jobs
  job,    \* its argument, a mount_t
  by,     \* history: who asked for it
  src,    \* the descriptor of a bind's source
  dst     \* destination_fd

jvars == <<job, by, src, dst>>
mvars == <<stage, n, step, jvars, tvars>>

DefaultStages == {"proc", "sys", "dev", "pts", "shm"}
MounterEnds   == {"done", "failed"}
MounterStages == {"parse", "entries", "devices", "pivot"}
                   \cup DefaultStages \cup MounterEnds
Steps == {"idle", "source", "destination", "mount", "reopen", "remount", "propagate"}

NoJob == [source |-> {}, destination |-> {}, type |-> "", flags |-> {},
          propagation |-> {}, data |-> <<>>]
Nobody == [kind |-> "host", k |-> 0]

MounterTypeOK ==
  /\ stage \in MounterStages
  /\ n \in Nat
  /\ step \in Steps
  /\ job \in MountT
  /\ by \in JobID
  /\ HandleType(src) /\ HandleType(dst)

MounterInit ==
  /\ PInit
  /\ \E h \in Hosts :
       /\ mounts = [i \in 1 .. Len(h.mounts) |->
                      [at |-> h.mounts[i].at, fs |-> h.mounts[i].fs, sub |-> <<>>,
                       flags |-> h.mounts[i].flags, by |-> Nobody,
                       asked |-> h.mounts[i].flags]]
       /\ fss = h.fss
  /\ stage = "parse" /\ n = 1 /\ step = "idle"
  /\ job = NoJob /\ by = Nobody /\ src = NoHandle /\ dst = NoHandle

\* The configuration is parsed in the runtime, before it clones; an empty list
\* of mounts is nothing to do.
Clone ==
  /\ stage = "parse" /\ parser = "parsed"
  /\ stage' = IF list = <<>> THEN "pivot" ELSE "entries"
  /\ UNCHANGED <<pvars, n, step, jvars, tvars>>

-----------------------------------------------------------------------------
(* Paths.                                                                  *)

Absolute(p) == p # <<>> /\ Head(p) = "/"
Names(p) == IF Absolute(p) THEN Tail(p) ELSE p

\* open(root, path): a leading slash is dropped.
InRoot(p) == RootDir \o Names(p)

\* Where mkdir begins: at the descriptor it is given.
MkdirTargetInRoot(p) == InRoot(p)

\* mkdir(root, path) walks over the parts of path with mkdirat and openat; the
\* first part of an absolute path is "/", and openat then leaves the root it
\* was given for the root of the process.
MkdirTarget(p) == IF Absolute(p) THEN Names(p) ELSE InRoot(p)

-----------------------------------------------------------------------------
(* One mount: do_mount and do_bind_mount.                                  *)

IsBind == "BIND" \in job.flags

Goto(s) == step' = s /\ UNCHANGED <<stage, n>>
Fail    == stage' = "failed" /\ UNCHANGED <<n, step>>

\* A missing destination, or source of a bind, ends the clone: an assertion or
\* an exception of std::optional.
Begin(m, who) ==
  /\ job' = m /\ by' = who
  /\ src' = NoHandle /\ dst' = NoHandle
  /\ IF m.destination = {} \/ ("BIND" \in m.flags /\ m.source = {})
       THEN Fail
       ELSE Goto(IF "BIND" \in m.flags THEN "source" ELSE "destination")

AfterDefault ==
  [proc |-> "sys", sys |-> "dev", dev |-> "pts", pts |-> "shm", shm |-> "devices"]

\* What follows in configure_mounts when a job is done.
AfterJob ==
  /\ step' = "idle" /\ job' = NoJob /\ by' = Nobody
  /\ src' = NoHandle /\ dst' = NoHandle
  /\ n' = IF stage \in {"entries", "devices"} THEN n + 1 ELSE n
  /\ stage' = IF stage \in {"entries", "devices"} THEN stage ELSE AfterDefault[stage]

\* open and lstat of the source, looked up from the clone's root; nothing is
\* found relative to its current directory.
OpenSource ==
  /\ step = "source" /\ stage # "failed"
  /\ LET found == {p \in {Names(q) : q \in {q \in job.source : Absolute(q)}} : Found(p)}
     IN  \/ \E p \in found : src' = Handle(p) /\ Goto("destination")
         \/ found = {} /\ Fail /\ UNCHANGED src
  /\ UNCHANGED <<pvars, job, by, dst, tvars>>

\* ensure_mount_destination: open it or, if there is none, make a directory, or
\* a file for a source that is none.
EnsureDestination(next) ==
  LET wanted == IF IsBind /\ src.kind # "dir" THEN "file" ELSE "dir"
  IN  \E p \in {InRoot(d) : d \in job.destination} :
      \E target \in {MkdirTarget(d) : d \in job.destination} :
        IF Found(p)
          THEN dst' = Handle(p) /\ Goto(next) /\ UNCHANGED tvars
          ELSE IF Missing(p) /\ CanCreate(target, wanted)
                 THEN /\ Create(target, wanted) /\ UNCHANGED mounts
                      /\ dst' = Created(target, wanted)
                      /\ Goto(next)
                 ELSE Fail /\ UNCHANGED <<dst, tvars>>

OpenDestination ==
  /\ step = "destination" /\ stage # "failed"
  /\ EnsureDestination("mount")
  /\ UNCHANGED <<pvars, job, by, src>>

\* The first mount of a bind: only MS_BIND and MS_REC.
MountBind ==
  /\ step = "mount" /\ stage # "failed" /\ IsBind
  /\ IF CanCover(src.kind, dst)
       THEN BindMount(src, dst, by, Attributes(job.flags)) /\ Goto("reopen")
       ELSE Fail /\ UNCHANGED tvars
  /\ UNCHANGED <<pvars, jvars>>

\* Faulty: the descriptor from before the mount is used.
KeepDestination ==
  /\ step = "reopen" /\ stage # "failed"
  /\ Goto("remount")
  /\ UNCHANGED <<pvars, jvars, tvars>>

\* The destination is opened again, on the new mount.
ReopenDestination ==
  /\ step = "reopen" /\ stage # "failed"
  /\ EnsureDestination("remount")
  /\ UNCHANGED <<pvars, job, by, src>>

\* Faulty: the new mount keeps the attributes of its source.
SkipRemount ==
  /\ step = "remount" /\ stage # "failed"
  /\ Goto("propagate")
  /\ UNCHANGED <<pvars, jvars, tvars>>

\* The second mount of a bind: all its flags, and MS_REMOUNT.
RemountBind ==
  /\ step = "remount" /\ stage # "failed"
  /\ IF OnMountRoot(dst)
       THEN /\ Remount(dst, Attributes(job.flags), mounts[dst.mount].asked)
              /\ Goto("propagate")
       ELSE Fail /\ UNCHANGED tvars
  /\ UNCHANGED <<pvars, jvars>>

ReadOnlyTmpfs == job.type = "tmpfs" /\ "RDONLY" \in job.flags

\* A read-only tmpfs is to be mounted writable and remounted at the end: its
\* descriptor is moved into the delayed remount, and the mount that follows
\* uses the empty one that is left, so it fails and no remount is ever queued.
MountDestination == IF ReadOnlyTmpfs THEN NoHandle ELSE dst

\* Any other mount, or the remount that an option asks for.
MountOther ==
  /\ step = "mount" /\ stage # "failed" /\ ~IsBind
  /\ LET target == MountDestination
         asked  == Attributes(IF ReadOnlyTmpfs THEN job.flags \ {"RDONLY"} ELSE job.flags)
     IN  \/ /\ "REMOUNT" \in job.flags
            /\ job.source # {} /\ OnMountRoot(target)
            /\ Remount(target, asked, asked)
            /\ Goto("propagate")
         \/ /\ "REMOUNT" \notin job.flags
            /\ job.source # {} /\ job.type \in Mountable /\ CanCover("dir", target)
            /\ NewMount(job.type, target, by, asked)
            /\ Goto("propagate")
         \/ /\ \/ job.source = {}
               \/ "REMOUNT" \in job.flags /\ ~OnMountRoot(target)
               \/ "REMOUNT" \notin job.flags
                    /\ (job.type \notin Mountable \/ ~CanCover("dir", target))
            /\ Fail
            /\ UNCHANGED tvars
  /\ UNCHANGED <<pvars, jvars>>

\* do_propagation_mount: through the same descriptor, which must be of a
\* mount's root.
Propagate ==
  /\ step = "propagate" /\ stage # "failed"
  /\ IF job.propagation = {} \/ OnMountRoot(dst)
       THEN AfterJob
       ELSE Fail /\ UNCHANGED jvars
  /\ UNCHANGED <<pvars, tvars>>

Throws ==
  /\ stage \notin {"parse"} \cup MounterEnds
  /\ Fail
  /\ UNCHANGED <<pvars, jvars, tvars>>

-----------------------------------------------------------------------------
(* configure_mounts: the list, then mounter::finalize.                     *)

Idle(s) == stage = s /\ step = "idle"
Skip(next) == stage' = next /\ UNCHANGED <<n, step, jvars>>

StartEntry ==
  /\ Idle("entries") /\ n <= Len(list)
  /\ Begin(list[n], [kind |-> "entry", k |-> n])
  /\ UNCHANGED <<pvars, tvars>>

EntriesDone ==
  /\ Idle("entries") /\ n > Len(list)
  /\ stage' = "proc" /\ n' = 1
  /\ UNCHANGED <<pvars, step, jvars, tvars>>

\* A mount_t filled in by hand: of its words of flags, those that are not
\* assigned hold garbage.
BeginDefault(source, destination, type, flags) ==
  \E g \in Garbage :
    Begin([source |-> {source}, destination |-> {destination}, type |-> type,
           flags |-> IF flags = {} THEN g.flags ELSE flags,
           propagation |-> g.propagation, data |-> <<>>],
          [kind |-> "default", k |-> 0])

At(p) == RootDir \o p
ProcDir == At(<<"proc">>)
SysDir  == At(<<"sys">>)
DevDir  == At(<<"dev">>)
PtsDir  == At(<<"dev", "pts">>)
ShmDir  == At(<<"dev", "shm">>)

\* Mounted unless there is one already; the directory must be there.
ConfigureProc ==
  /\ Idle("proc")
  /\ \/ Found(ProcDir) /\ TypeAt(ProcDir) = "proc" /\ Skip("sys")
     \/ /\ Found(ProcDir) /\ TypeAt(ProcDir) # "proc"
        /\ BeginDefault(<<"proc">>, <<"/", "proc">>, "proc", {})
     \/ ~Found(ProcDir) /\ Fail /\ UNCHANGED jvars
  /\ UNCHANGED <<pvars, tvars>>

ConfigureSys ==
  /\ Idle("sys")
  /\ \/ Found(SysDir) /\ TypeAt(SysDir) = "sysfs" /\ Skip("dev")
     \/ /\ Found(SysDir) /\ TypeAt(SysDir) # "sysfs"
        /\ BeginDefault(<<"sysfs">>, <<"/", "sys">>, "sysfs", {"NOSUID", "NOEXEC", "NODEV"})
     \/ ~Found(SysDir) /\ Fail /\ UNCHANGED jvars
  /\ UNCHANGED <<pvars, tvars>>

BindHostSys ==
  /\ Begin([job EXCEPT !.source = {<<"/", "sys">>}, !.type = "bind",
                       !.flags = {"BIND", "REC", "NOSUID", "NOEXEC", "NODEV"}], by)
  /\ UNCHANGED <<pvars, tvars>>

\* Faulty: the bind is tried again as well.
RetriedSysfsNotPermitted ==
  /\ stage = "sys" /\ step # "idle"
  /\ BindHostSys

\* Faulty: done without.
SysfsGivenUp ==
  /\ stage = "sys" /\ step # "idle" /\ ~IsBind
  /\ AfterJob
  /\ UNCHANGED <<pvars, tvars>>

\* EPERM from the mount of sysfs: the host's is bound instead, once.
SysfsNotPermitted ==
  /\ stage = "sys" /\ step # "idle" /\ ~IsBind
  /\ BindHostSys

DirectoryIsEmpty(p) ==
  ~ \E q \in DOMAIN FilesAt(p) : IsStrictPrefix(Inner(Top(p), p), q)

BeginDev ==
  BeginDefault(<<"tmpfs">>, <<"/", "dev">>, "tmpfs", {"NOSUID", "STRICTATIME", "NODEV"})

\* Faulty: a directory with something in it is covered.
ConfigureDevCovering ==
  /\ Idle("dev")
  /\ \/ Found(DevDir) /\ TypeAt(DevDir) = "tmpfs" /\ Skip("pts")
     \/ Found(DevDir) /\ TypeAt(DevDir) # "tmpfs" /\ Kind(DevDir) = "dir" /\ BeginDev
     \/ /\ ~Found(DevDir) \/ (TypeAt(DevDir) # "tmpfs" /\ Kind(DevDir) # "dir")
        /\ Fail /\ UNCHANGED jvars
  /\ UNCHANGED <<pvars, tvars>>

\* Left alone if it is a tmpfs or has something in it.
ConfigureDev ==
  /\ Idle("dev")
  /\ \/ /\ Found(DevDir)
        /\ \/ TypeAt(DevDir) = "tmpfs"
           \/ Kind(DevDir) = "dir" /\ ~DirectoryIsEmpty(DevDir)
        /\ Skip("pts")
     \/ /\ Found(DevDir)
        /\ TypeAt(DevDir) # "tmpfs" /\ Kind(DevDir) = "dir" /\ DirectoryIsEmpty(DevDir)
        /\ BeginDev
     \/ /\ ~Found(DevDir) \/ (TypeAt(DevDir) # "tmpfs" /\ Kind(DevDir) # "dir")
        /\ Fail /\ UNCHANGED jvars
  /\ UNCHANGED <<pvars, tvars>>

ConfigureBelowDev(s, path, next, begin) ==
  /\ Idle(s)
  /\ \/ Found(path) /\ Skip(next)
     \/ Missing(path) /\ begin
     \/ Blocked(path) /\ Fail /\ UNCHANGED jvars
  /\ UNCHANGED <<pvars, tvars>>

ConfigurePts ==
  ConfigureBelowDev("pts", PtsDir, "shm",
    BeginDefault(<<"devpts">>, <<"/", "dev", "pts">>, "devpts", {"NOSUID", "NOEXEC"}))

ConfigureShm ==
  ConfigureBelowDev("shm", ShmDir, "devices",
    BeginDefault(<<"shm">>, <<"/", "dev", "shm">>, "tmpfs", {"NOSUID", "NOEXEC", "NODEV"}))

-----------------------------------------------------------------------------
(* The default devices.                                                    *)

BeginDevice ==
  LET path == <<"/", "dev", Devices[n]>>
  IN  \E g \in Garbage :
        Begin([source |-> {path}, destination |-> {path}, type |-> "bind",
               flags |-> {"BIND", "REC", "NOSUID", "NOEXEC", "NODEV"},
               propagation |-> g.propagation, data |-> <<>>],
              [kind |-> "device", k |-> n])

NextDevice == Idle("devices") /\ n <= Len(Devices)
DevicePath == At(<<"dev", Devices[n]>>)

\* Bound over what is there.  The test for a /dev/null that needs no bind looks
\* at st_dev, the device the file system is on: it is 1:3 for none of ours.
ConfigureDevice ==
  /\ NextDevice /\ ~Missing(DevicePath)
  /\ IF Found(DevicePath) THEN BeginDevice ELSE Fail /\ UNCHANGED jvars
  /\ UNCHANGED <<pvars, tvars>>

\* mknod with a mode that says 0666 and nothing of a character device makes a
\* regular file; EPERM is no error.
MakeNode ==
  \/ Writable(Top(DevicePath)) /\ Create(DevicePath, "file") /\ UNCHANGED mounts
  \/ UNCHANGED tvars

\* Faulty: a node that has been made needs no bind.
ConfigureMissingDeviceReturns ==
  /\ NextDevice /\ Missing(DevicePath)
  /\ MakeNode
  /\ n' = n + 1 /\ UNCHANGED <<stage, step, jvars>>
  /\ UNCHANGED pvars

\* The descriptor is still empty when lstat is given it: whatever it holds, the
\* call fails or finds something to bind over.
ConfigureMissingDevice ==
  /\ NextDevice /\ Missing(DevicePath)
  /\ MakeNode
  /\ BeginDevice \/ (Fail /\ UNCHANGED jvars)
  /\ UNCHANGED pvars

DevicesDone ==
  /\ Idle("devices") /\ n > Len(Devices)
  /\ stage' = "pivot"
  /\ UNCHANGED <<pvars, n, step, jvars, tvars>>

\* do_pivot_root: the rootfs is bound to itself and becomes the root, and what
\* was there before is unmounted.
PivotRoot ==
  /\ stage = "pivot"
  /\ stage' = "done"
  /\ mounts' = BelowRoot
  /\ UNCHANGED <<pvars, n, step, jvars, fss>>

-----------------------------------------------------------------------------
DoMount ==
  \/ OpenSource \/ OpenDestination \/ MountBind \/ ReopenDestination \/ RemountBind
  \/ MountOther \/ Propagate

ConfigureMounts ==
  \/ StartEntry \/ EntriesDone
  \/ ConfigureProc \/ ConfigureSys \/ ConfigureDev \/ ConfigurePts \/ ConfigureShm
  \/ ConfigureDevice \/ ConfigureMissingDevice \/ DevicesDone

\* What the program does, whatever the calls return.
MounterSteps ==
  \/ PNext /\ UNCHANGED mvars
  \/ Clone \/ ConfigureMounts \/ DoMount \/ PivotRoot

MounterNext == MounterSteps \/ SysfsNotPermitted \/ Throws

-----------------------------------------------------------------------------
\* A step of a job gives no other mount different attributes, even when several
\* are stacked at one place: only the newest mount changes and only through the
\* job that made it, unless the job is a plain remount.
OnlyOwnMountChanged ==
  [][stage' # "done" =>
       /\ Len(mounts) <= Len(mounts')
       /\ \A i \in 1 .. Len(mounts) :
            mounts'[i] # mounts[i] =>
              \/ i = Len(mounts) /\ mounts[i].by = by
              \/ "REMOUNT" \in job.flags /\ ~IsBind]_mounts

\* Every mount has the attributes it was asked for.  The only one that may lack
\* them yet is that of the bind in progress, between its two mounts.
AttributesAsAsked ==
  \A i \in 1 .. Len(mounts) :
    mounts[i].flags # mounts[i].asked =>
      i = Len(mounts) /\ step \in {"reopen", "remount"}

\* The default file systems hide no mount of the configuration below /dev that
\* could be seen before: /dev is covered only when it is empty, /dev/pts and
\* /dev/shm only when they were made for it.
DevMountsStayVisible ==
  stage # "done" =>
    \A i, j \in 1 .. Len(mounts) :
      /\ i < j
      /\ mounts[i].by.kind = "entry" /\ IsStrictPrefix(DevDir, mounts[i].at)
      /\ mounts[j].by.kind = "default" /\ IsPrefix(mounts[j].at, mounts[i].at)
      => \E k \in i + 1 .. j - 1 : IsPrefix(mounts[k].at, mounts[i].at)

\* A container that has mounts has a sysfs at /sys or what the host has there,
\* and a proc at /proc unless something else had been mounted there before:
\* nothing that failed was passed over.
ProcAndSysMounted ==
  stage = "done" /\ list # <<>> =>
    /\ \/ TypeAt(<<"sys">>) = "sysfs"
       \/ LET m == mounts[Top(<<"sys">>)]
          IN  m.at = <<"sys">> /\ m.by.kind = "default"
    /\ \/ TypeAt(<<"proc">>) = "proc"
       \/ \E i \in 1 .. Len(mounts) :
            mounts[i].at = <<"proc">> /\ mounts[i].by.kind # "default"

\* No default device is left as the regular file that mknod made, or as what
\* was there before: it is what the mounter bound to it or it is not there.
DevicePathsAreDevices ==
  stage = "done" /\ list # <<>> =>
    \A d \in 1 .. Len(Devices) :
      LET p == <<"dev", Devices[d]>>
          m == mounts[Top(p)]
      IN  Exists(p) => m.at = p /\ m.by.kind = "device"

\* What the assertions of do_propagation_mount and do_delay_readonly_mount say of
\* the descriptor that do_mount gives them: it is open, and so it is when do_mount
\* mounts through it.  For a read-only tmpfs it has been moved away before.
DestinationIsOpen ==
  step = "mount" /\ stage # "failed" /\ ~IsBind => MountDestination # NoHandle

\* What the comment at ensure_mount_destination and the message of mkdir say: a
\* destination that is created automatically is below the root.  An absolute
\* destination is created in the host's tree instead and the mount goes there,
\* where the container cannot see it.
MountsInsideContainer ==
  stage # "done" =>
    \A i \in 1 .. Len(mounts) : mounts[i].by # Nobody => IsPrefix(RootDir, mounts[i].at)
=============================================================================
