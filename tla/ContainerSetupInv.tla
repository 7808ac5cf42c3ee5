--------------------------- MODULE ContainerSetupInv ---------------------------
(***************************************************************************)
(* The inductive invariants of ContainerSetup: where the mounter may be,   *)
(* what the job at work is and where its descriptors stand, how the mount  *)
(* table has come about, and what the default file systems and devices     *)
(* have done to it.                                                        *)
(***************************************************************************)
EXTENDS ContainerSetup

-----------------------------------------------------------------------------
(* Where the mounter may be.                                               *)

\* Where the mounter may be with a job, and the job an entry has become.
StageInv ==
  /\ stage \in MounterStages /\ step \in Steps /\ n \in Nat \ {0}
  /\ stage # "parse" => parser = "parsed"
  /\ stage = "parse" => n = 1
  /\ step # "idle" => stage \in {"entries", "devices", "failed"} \cup DefaultStages
  /\ stage # "failed" /\ step \in {"source", "reopen", "remount"} => IsBind
  /\ stage = "entries" /\ step # "idle" => n \in 1 .. Len(list) /\ job = list[n]

-----------------------------------------------------------------------------
(* The job and the table.                                                  *)

\* The path a handle stands for is in its mount and is there.
Stands(h) ==
  /\ h.mount \in Covering(h.path)
  /\ Inner(h.mount, h.path) \in DOMAIN fss[mounts[h.mount].fs].files

\* The destinations of the job, inside the rootfs and where mkdir makes them.
Wanted == {InRoot(d) : d \in job.destination}
Made   == {MkdirTarget(d) : d \in job.destination}

\* `path` is where the job is to mount; or it had to be made, and at the
\* destination wanted there is no mount.
IsDestination(path) ==
  \/ path \in Wanted
  \/ path \in Made /\ \A p \in Wanted : mounts[Top(p)].at # p

\* Between two jobs there are no descriptors.
IdleInv == step = "idle" => src = NoHandle /\ dst = NoHandle

SourceInv == step \in {"destination", "mount"} /\ IsBind => Stands(src)

\* Before the mount the descriptor stands on the latest mount of its path.
DestinationInv ==
  step = "mount" =>
    /\ Stands(dst) /\ dst.mount = Top(dst.path)
    /\ IsDestination(dst.path)

\* Between the two mounts of a bind the newest mount is the job's; reopened, the
\* descriptor stands on its root or on that of no mount.
NewestInv ==
  step \in {"reopen", "remount"} =>
    LET newest == mounts[Len(mounts)]
    IN  /\ newest.by = by /\ newest.asked = Attributes(job.flags)
        /\ step = "reopen" => IsDestination(newest.at)
        /\ step = "remount" => Stands(dst)
                               /\ (OnMountRoot(dst) => dst.mount = Len(mounts))

JobInv == IdleInv /\ SourceInv /\ DestinationInv /\ NewestInv

SetupInv ==
  /\ stage # "done" => Rooted /\ RootsThere
  /\ AttributesAsAsked
  /\ stage # "failed" => JobInv

MountInv == TableTypeOK /\ MounterTypeOK /\ SetupInv

-----------------------------------------------------------------------------
(* The default file systems and devices.                                   *)

\* Whose job it is, and where it is to mount.
OwnerInv ==
  /\ stage \in DefaultStages => n = 1
  /\ step # "idle" =>
       /\ stage = "entries" => by.kind = "entry"
       /\ stage \in DefaultStages => by.kind = "default"
       /\ stage = "proc" => job.destination = {<<"/", "proc">>}
       /\ stage = "sys"  => job.destination = {<<"/", "sys">>}
       /\ stage = "dev"  => job.destination = {<<"/", "dev">>}
       /\ stage = "pts"  => job.destination = {<<"/", "dev", "pts">>}
       /\ stage = "shm"  => job.destination = {<<"/", "dev", "shm">>}
       /\ stage = "devices" =>
            /\ by.kind = "device" /\ n \in 1 .. Len(Devices) /\ IsBind
            /\ job.source = {<<"/", "dev", Devices[n]>>}
            /\ job.destination = {<<"/", "dev", Devices[n]>>}

\* A proc, or what was mounted there by another.
ProcThere ==
  \/ TypeAt(ProcDir) = "proc"
  \/ \E i \in 1 .. Len(mounts) : mounts[i].at = ProcDir /\ mounts[i].by.kind # "default"

\* With garbage for its flags the default proc may become a bind, which finds no
\* source, or a remount of what is there.
ProcJob ==
  stage = "proc" /\ step # "idle" =>
    /\ job.type = "proc" /\ job.source = {<<"proc">>}
    /\ IsBind => step = "source"
    /\ step = "destination" => Exists(ProcDir)
    /\ step = "mount" => dst.path = ProcDir
    /\ step = "propagate" => ProcThere

\* A sysfs, or the host's.
SysThere ==
  \/ TypeAt(SysDir) = "sysfs"
  \/ mounts[Top(SysDir)].at = SysDir /\ mounts[Top(SysDir)].by.kind = "default"

\* When sysfs is not permitted after all, what it has mounted does no harm.
SysJob ==
  stage = "sys" /\ step # "idle" =>
    /\ "REMOUNT" \notin job.flags /\ (~IsBind => job.type = "sysfs")
    /\ step \in {"source", "destination"} => SysThere \/ Exists(SysDir)
    /\ step = "mount" => SysThere \/ dst.path = SysDir
    /\ step \in {"reopen", "remount", "propagate"} => SysThere

\* /dev stays empty until it is covered; what is made for /dev/pts and /dev/shm
\* is made outside the rootfs.
DevJob ==
  stage \in {"dev", "pts", "shm"} /\ step # "idle" =>
    /\ ~IsBind
    /\ stage = "dev" /\ step \in {"destination", "mount"} => DirectoryIsEmpty(DevDir)
    /\ stage = "dev" /\ step = "destination" => Exists(DevDir)
    /\ stage = "pts" /\ step = "destination" => ~Found(PtsDir)
    /\ stage = "pts" /\ step = "mount" => dst.path = <<"dev", "pts">>
    /\ stage = "shm" /\ step = "destination" => ~Found(ShmDir)
    /\ stage = "shm" /\ step = "mount" => dst.path = <<"dev", "shm">>

DeviceAt(d) == At(<<"dev", Devices[d]>>)

\* A device is bound over what was there, or not there.
DeviceBound(d) ==
  Exists(DeviceAt(d)) =>
    mounts[Top(DeviceAt(d))].at = DeviceAt(d) /\ mounts[Top(DeviceAt(d))].by.kind = "device"

\* No file is made for a device but the node: its source is where mkdir would
\* make its destination.
DeviceJob ==
  stage = "devices" /\ step # "idle" =>
    /\ step \in {"destination", "mount", "reopen"} => Exists(<<"dev", Devices[n]>>)
    /\ step = "mount" =>
         \/ dst.path = DeviceAt(n)
         \/ dst.path = <<"dev", Devices[n]>> /\ ~Exists(DeviceAt(n))
    /\ step \in {"reopen", "remount", "propagate"} => DeviceBound(n)

\* The stages after a default file system, if there was any.
After(stages) == stage \in stages \/ (stage = "pivot" /\ list # <<>>)

NoneByDefault == \A i \in 1 .. Len(mounts) : mounts[i].by.kind # "default"

\* What has been done so far.
DoneInv ==
  /\ stage # "done" => PointsThere
  /\ DevMountsStayVisible
  /\ stage \in {"parse", "entries"} \/ (stage = "proc" /\ step # "propagate") => NoneByDefault
  /\ After({"sys", "dev", "pts", "shm", "devices"}) => ProcThere
  /\ After({"dev", "pts", "shm", "devices"}) => SysThere
  /\ stage = "devices" => \A d \in 1 .. Len(Devices) : d < n => DeviceBound(d)
  /\ stage = "pivot" /\ list # <<>> => \A d \in 1 .. Len(Devices) : DeviceBound(d)

DefaultsInv ==
  /\ OwnerInv /\ ProcJob /\ SysJob /\ DevJob /\ DeviceJob /\ DoneInv
  /\ ProcAndSysMounted /\ DevicePathsAreDevices
=============================================================================
