----------------------------- MODULE MountTable -----------------------------
(***************************************************************************)
(* What the mounter and do_pivot_root ask of the kernel: the mounts of the *)
(* clone's mount namespace and the files in them.                          *)
(*                                                                         *)
(* Nothing is unmounted before pivot_root and every mount goes on top of   *)
(* what is visible at its place, so what is visible at a path is in the    *)
(* latest mount at the path or above it.  The rootfs of the bundle is a    *)
(* directory of the host's tree, and no path below is in it by another     *)
(* name; there are no symbolic links.  A recursive bind brings nothing     *)
(* more than a plain one: no source considered has mounts below it.        *)
(***************************************************************************)
EXTENDS MountOptions, SequencesExt

VARIABLES
  mounts,  \* the mounts, oldest first
  fss      \* the file systems: their type and their files

tvars == <<mounts, fss>>

\* The directory of the container's files in the host's tree.
RootDir == <<"rootfs">>

FsType == {"disk", "proc", "sysfs", "devtmpfs", "tmpfs", "devpts"}
Mountable == {"proc", "sysfs", "tmpfs", "devpts"}
FileKind == {"dir", "file", "chr"}

\* The bits of a word of flags that say what a mount is like, and not what
\* mount(2) is to do.
Attributes(flags) == flags \ {"BIND", "REC", "REMOUNT", "SILENT"}

\* Who asked for a mount: an entry of the configuration, a default file
\* system, a default device, or nobody in this program.
JobID == [kind : {"host", "entry", "default", "device"}, k : Nat]

\* A mount shows directory (or file) `sub` of file system `fs` at path `at`.
\* `asked` is history: the attributes its maker wants it to have.
MountRecord == [at : Seq(Name), fs : Nat, sub : Seq(Name), flags : SUBSET Flag,
                by : JobID, asked : SUBSET Flag]

Prefix(p, k) == SubSeq(p, 1, k)

\* A file system is a tree: it has a root, and what is above a file is there.
IsFileSystem(f) ==
  /\ f \in [type : FsType, files : {f.files}]
  /\ f.files \in [DOMAIN f.files -> FileKind]
  /\ DOMAIN f.files \subseteq Seq(Name)
  /\ <<>> \in DOMAIN f.files
  /\ \A p \in DOMAIN f.files : \A k \in 0 .. Len(p) : Prefix(p, k) \in DOMAIN f.files

TableTypeOK ==
  /\ mounts \in Seq(MountRecord)
  /\ \A i \in 1 .. Len(mounts) : mounts[i].fs \in 1 .. Len(fss)
  /\ fss \in Seq({fss[f] : f \in 1 .. Len(fss)})
  /\ \A f \in 1 .. Len(fss) : IsFileSystem(fss[f])

\* Before pivot_root one gets somewhere at every path, and what a mount shows is
\* there.
Rooted     == mounts \in Seq(MountRecord) /\ mounts # <<>> /\ mounts[1].at = <<>>
RootsThere == \A i \in 1 .. Len(mounts) : mounts[i].sub \in DOMAIN fss[mounts[i].fs].files

\* Of the mounts ms, i was mounted on k: nothing at or above its place was later.
IsOn(ms, i, k) ==
  /\ IsPrefix(ms[k].at, ms[i].at)
  /\ \A l \in k + 1 .. i - 1 : ~IsPrefix(ms[l].at, ms[i].at)

-----------------------------------------------------------------------------
(* Looking up a path.                                                      *)

Covering(p) == {i \in 1 .. Len(mounts) : IsPrefix(mounts[i].at, p)}

\* The mount one gets into at path p.
Top(p) == Max(Covering(p))

\* What p is called inside the file system of mount i.
Inner(i, p) == mounts[i].sub \o SubSeq(p, Len(mounts[i].at) + 1, Len(p))

\* Before pivot_root every mount but the first is on something that is there.
PointsThere ==
  \A i \in 2 .. Len(mounts) : \E k \in 1 .. i - 1 :
    IsOn(mounts, i, k) /\ Inner(k, mounts[i].at) \in DOMAIN fss[mounts[k].fs].files

FilesAt(p) == fss[mounts[Top(p)].fs].files
TypeAt(p)  == fss[mounts[Top(p)].fs].type

Is(p, kinds) ==
  \E i \in {Top(p)} : \E q \in {Inner(i, p)} :
    q \in DOMAIN fss[mounts[i].fs].files /\ fss[mounts[i].fs].files[q] \in kinds

Exists(p) == Is(p, FileKind)
Kind(p)   == IF Exists(p) THEN FilesAt(p)[Inner(Top(p), p)] ELSE "none"

Above(p) == {Prefix(p, k) : k \in 0 .. Len(p) - 1}

\* ENOTDIR: something on the way is not a directory.
Blocked(p) == \E q \in Above(p) : Is(q, {"file", "chr"})
Found(p)   == ~Blocked(p) /\ Exists(p)
Missing(p) == ~Blocked(p) /\ ~Exists(p)

\* An open descriptor stands on one mount for good, whatever is mounted over
\* its path later.
Handle(p) == [path |-> p, mount |-> Top(p), kind |-> Kind(p)]
NoHandle  == [path |-> <<>>, mount |-> 0, kind |-> "none"]

HandleType(h) ==
  /\ h.path \in Seq(Name)
  /\ h.mount \in 0 .. Len(mounts)
  /\ h.kind \in FileKind \cup {"none"}

\* path_mounted: the descriptor is of the root of a mount.
OnMountRoot(h) == h.mount # 0 /\ mounts[h.mount].at = h.path

-----------------------------------------------------------------------------
(* Making files.                                                           *)

Writable(i) == "RDONLY" \notin mounts[i].flags
               /\ fss[mounts[i].fs].type \in {"disk", "tmpfs", "devtmpfs"}

\* p can be made, with the directories above it, or is there already.
CanCreate(p, kind) ==
  /\ ~Blocked(p)
  /\ ~Exists(p) => Writable(Top(p))
  /\ kind = "file" => ~Is(p, {"dir"}) /\ (Is(p, {"file"}) => Writable(Top(p)))

\* Faulty: only the last part of the path is made.
CreateLast(p, kind) ==
  fss' = [fss EXCEPT ![mounts[Top(p)].fs].files =
            IF Exists(p) THEN @ ELSE @ @@ (Inner(Top(p), p) :> kind)]

Create(p, kind) ==
  LET new == {Inner(Top(p), q) : q \in Above(p) \cup {p}} \ DOMAIN FilesAt(p)
  IN  fss' = [fss EXCEPT ![mounts[Top(p)].fs].files =
                [q \in DOMAIN @ \cup new |->
                   IF q \notin new THEN @[q]
                   ELSE IF q = Inner(Top(p), p) THEN kind ELSE "dir"]]

\* The descriptor of a file made that way.
Created(p, kind) == [path |-> p, mount |-> Top(p),
                     kind |-> IF Exists(p) THEN Kind(p) ELSE kind]

-----------------------------------------------------------------------------
(* mount(2).                                                               *)

\* A directory goes on a directory, anything else on anything else.
CanCover(kind, target) == target.mount # 0 /\ (kind = "dir" <=> target.kind = "dir")

\* MS_BIND: the mount takes over the attributes of its source.
BindMount(source, target, by, asked) ==
  /\ mounts' = Append(mounts,
       [at |-> target.path, fs |-> mounts[source.mount].fs,
        sub |-> Inner(source.mount, source.path),
        flags |-> mounts[source.mount].flags, by |-> by, asked |-> asked])
  /\ UNCHANGED fss

\* A file system of its own, empty but for its root.
NewMount(type, target, by, asked) ==
  /\ fss' = Append(fss, [type |-> type, files |-> [p \in {<<>>} |-> "dir"]])
  /\ mounts' = Append(mounts,
       [at |-> target.path, fs |-> Len(fss) + 1, sub |-> <<>>, flags |-> asked,
        by |-> by, asked |-> asked])

\* MS_REMOUNT, for a descriptor on a mount's root.
Remount(target, flags, asked) ==
  /\ mounts' = [i \in DOMAIN mounts |->
                  IF i = target.mount
                    THEN [mounts[i] EXCEPT !.flags = flags, !.asked = asked]
                    ELSE mounts[i]]
  /\ UNCHANGED fss

\* Where no path leads.
Unmounted == <<"/">>

\* pivot_root: what is mounted below the rootfs, as seen from there.  The
\* mount of the host's tree that has the rootfs is the new root, and what is
\* not below it is unmounted.
BelowRoot ==
  [i \in 1 .. Len(mounts) |->
     IF IsStrictPrefix(RootDir, mounts[i].at)
       THEN [mounts[i] EXCEPT !.at = SubSeq(@, Len(RootDir) + 1, Len(@))]
     ELSE IF i = Top(RootDir)
       THEN [mounts[i] EXCEPT !.at = <<>>, !.sub = Inner(i, RootDir)]
     ELSE [mounts[i] EXCEPT !.at = Unmounted]]
=============================================================================
