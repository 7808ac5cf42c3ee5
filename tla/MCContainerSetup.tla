--------------------------- MODULE MCContainerSetup ---------------------------
(* Configuration files, hosts and garbage for TLC. *)
EXTENDS ContainerSetup

\* Two of the six, which are treated alike.
SomeDevices == <<"null", "tty">>

Abs(p) == <<"/">> \o p

\* Entries: a directory bound to a directory that is there, with options that
\* contradict each other; another over it; the same to one that is not there;
\* a file; file systems with and without options; what else options can ask.
EntryOf(source, destination, type, options) ==
  [source |-> source, destination |-> destination, type |-> type, options |-> options]

Bind(source, destination, options) ==
  EntryOf({Abs(source)}, {Abs(destination)}, "bind", {options})
FileSystem(type, destination, options) ==
  EntryOf({<<type>>}, {Abs(destination)}, type, options)

BindMnt    == Bind(<<"data">>, <<"mnt">>, <<"rbind", "ro", "nosuid">>)
BindMntRw  == Bind(<<"more">>, <<"mnt">>, <<"ro", "bind", "rw">>)
BindNew    == Bind(<<"data">>, <<"new">>, <<"bind", "nodev">>)
BindNewFile== Bind(<<"data", "file">>, <<"new", "file">>, <<"bind">>)
BindFile   == Bind(<<"data", "file">>, <<"etc", "hosts">>, <<"bind", "rslave", "x-mine">>)
BindSub    == Bind(<<"data">>, <<"dev", "mqueue">>, <<"rbind">>)
BindLost   == Bind(<<"lost">>, <<"mnt">>, <<"bind">>)
BindInto   == Bind(<<"data">>, <<"etc", "hosts", "x">>, <<"bind">>)
BindBare   == EntryOf({Abs(<<"data">>)}, {Abs(<<"mnt">>)}, "bind", {})
Relative   == EntryOf({Abs(<<"data">>)}, {<<"new">>}, "bind", {<<"bind">>})
NoTarget   == EntryOf({<<"tmpfs">>}, {}, "tmpfs", {<<>>})
NoSource   == EntryOf({}, {Abs(<<"mnt">>)}, "tmpfs", {<<>>})
ProcBare   == FileSystem("proc", <<"proc">>, {})
TmpOnProc  == FileSystem("tmpfs", <<"proc">>, {<<>>})
TmpOnDev   == FileSystem("tmpfs", <<"dev">>, {<<"nosuid", "strictatime", "mode=755">>})
Pts        == FileSystem("devpts", <<"dev", "pts">>, {<<"noexec", "nosuid">>})
SysRo      == FileSystem("sysfs", <<"sys">>, {<<"ro", "nosuid", "suid">>})
TmpRo      == FileSystem("tmpfs", <<"mnt">>, {<<"ro">>})
TmpOnMnt   == FileSystem("tmpfs", <<"mnt">>, {<<"noexec", "rprivate">>})
RemountMnt == FileSystem("none", <<"mnt">>, {<<"remount", "ro">>})

Entries ==
  {BindMnt, BindMntRw, BindNew, BindNewFile, BindFile, BindSub, BindLost, BindInto,
   BindBare, Relative, NoTarget, NoSource, ProcBare, TmpOnProc, TmpOnDev, Pts, SysRo,
   TmpRo, TmpOnMnt, RemountMnt}

\* Lists of one entry, of two that meet in one place, of three on /mnt.
OnMnt  == {BindMnt, BindMntRw, TmpOnMnt, RemountMnt}
OnDev  == {TmpOnDev, Pts, BindSub}
OnProc == {ProcBare, TmpOnProc, SysRo}
OnNew  == {BindNew, BindNewFile}

Lists ==
  {<<>>} \cup [1 .. 1 -> Entries]
    \cup UNION {[1 .. 2 -> S] : S \in {OnMnt, OnDev, OnProc, OnNew}}
    \cup [1 .. 3 -> {BindMnt, BindMntRw, RemountMnt}]

V(x, y, z) == [major |-> x, minor |-> y, patch |-> z]
U(id, g, gids) == [uid |-> id, gid |-> g, additionalGids |-> gids]

Versions == {V(1, 2, 0), V(1, 0, 2), V(1, 1, 9), V(1, 2, 1), V(1, 3, 0), V(2, 0, 0), V(0, 9, 0)}
Users == {U(0, 0, {}), U(7, 8, {}), U(7, 8, {{8, 9}}), U(0, 5, {{}})}

Plain == [version |-> V(1, 2, 0), mounts |-> <<>>, process |-> U(7, 8, {{8, 9}})]

SetupDocuments ==
  {[Plain EXCEPT !.mounts = l] : l \in Lists}
    \cup {[Plain EXCEPT !.version = v] : v \in Versions}
    \cup {[Plain EXCEPT !.process = u] : u \in Users}

\* What an uninitialised mount_t may hold.
SetupGarbage ==
  {[flags |-> {}, propagation |-> {}], [flags |-> {}, propagation |-> {"SLAVE"}],
   [flags |-> {"BIND"}, propagation |-> {}], [flags |-> {"REMOUNT"}, propagation |-> {}]}

-----------------------------------------------------------------------------
\* The host: a disk, proc, sysfs and a devtmpfs with the devices.
MountAt(at, fs, flags) == [at |-> at, fs |-> fs, flags |-> flags]
Empty == <<>> :> "dir"
Dirs(S) == [p \in S |-> "dir"]

HostDev ==
  Empty @@ Dirs({<<"pts">>, <<"shm">>})
        @@ [p \in {<<Devices[d]>> : d \in 1 .. Len(Devices)} |-> "chr"]

HostDisk ==
  Empty @@ Dirs({<<"data">>, <<"more">>, <<"proc">>, <<"sys">>, <<"dev">>, RootDir})
        @@ (<<"data", "file">> :> "file")

HostWith(rootfs) ==
  [mounts |-> <<MountAt(<<>>, 1, {}), MountAt(<<"proc">>, 2, {"NOSUID", "NODEV", "NOEXEC"}),
                MountAt(<<"sys">>, 3, {"NOSUID", "NODEV", "NOEXEC"}),
                MountAt(<<"dev">>, 4, {"NOSUID"})>>,
   fss |-> <<[type |-> "disk", files |-> HostDisk @@ rootfs],
             [type |-> "proc", files |-> Empty], [type |-> "sysfs", files |-> Empty],
             [type |-> "devtmpfs", files |-> HostDev]>>]

Below(S) == Dirs({RootDir \o p : p \in S})

\* Root file systems: an empty /dev; one with things in it; without /proc.
Skeleton == Below({<<"proc">>, <<"sys">>, <<"dev">>, <<"mnt">>, <<"etc">>})
              @@ (RootDir \o <<"etc", "hosts">> :> "file")
FullDev  == Skeleton @@ Below({<<"dev", "mqueue">>, <<"dev", "pts">>, <<"dev", "shm">>})
              @@ (RootDir \o <<"dev", "null">> :> "file")
OddDev   == Skeleton @@ Below({<<"dev", "tty">>}) @@ (RootDir \o <<"dev", "pts">> :> "file")
NoProc   == Below({<<"sys">>, <<"dev">>, <<"mnt">>})

\* A rootfs on a tmpfs of its own, with a file where /dev should be.
HostWithTmpfs ==
  LET h == HostWith(<<>> :> "dir")
  IN  [h EXCEPT !.mounts = Append(@, MountAt(RootDir, 5, {"NOSUID"})),
                !.fss = Append(@, [type |-> "tmpfs",
                  files |-> Empty @@ Dirs({<<"proc">>, <<"sys">>, <<"mnt">>})
                              @@ (<<"dev">> :> "file")])]

SetupHosts ==
  {HostWith(Skeleton), HostWith(FullDev), HostWith(OddDev), HostWith(NoProc), HostWithTmpfs}
=============================================================================
