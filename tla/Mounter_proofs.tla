--------------------------- MODULE Mounter_proofs ----------------------------
(***************************************************************************)
(* Proofs about the mounter, in the setup of a container: the mount table  *)
(* keeps its type, the descriptors of the mount at work stand where they   *)
(* should, and every mount gets its attributes.                            *)
(***************************************************************************)
EXTENDS ContainerSetup_proofs, MountTable_proofs

-----------------------------------------------------------------------------
(* The mounter's invariant.                                                *)

\* The paths a job may be mounted at.
LEMMA PathTypes ==
  ASSUME NEW d \in Path
  PROVE  Names(d) \in Seq(Name) /\ InRoot(d) \in Seq(Name) /\ MkdirTarget(d) \in Seq(Name)
<1>1. d \in Seq(Name)
  BY DEF Path
<1>2. Names(d) \in Seq(Name)
  <2>1. CASE Absolute(d)
    <3>1. d # <<>>
      BY <2>1 DEF Absolute
    <3>2. Tail(d) \in Seq(Name)
      BY <1>1, <3>1, HeadTailProperties
    <3> QED
      BY <2>1, <3>2 DEF Names
  <2> QED
    BY <1>1, <2>1 DEF Names
<1>3. RootDir \in Seq(Name)
  BY DEF RootDir, Name
<1>4. InRoot(d) \in Seq(Name)
  BY <1>2, <1>3, ConcatProperties DEF InRoot
<1> QED
  BY <1>2, <1>4 DEF MkdirTarget

\* A job has at most one destination, and its parts are of their types.
LEMMA JobParts ==
  ASSUME MounterTypeOK
  PROVE  /\ \A d \in job.destination : d \in Path
         /\ \A d, e \in job.destination : d = e
         /\ \A d \in job.source : d \in Path
         /\ job.flags \subseteq Flag /\ job.type \in Name
<1>1. job \in MountT
  BY DEF MounterTypeOK
<1> QED
  BY <1>1 DEF MountT, Optional

\* What is at a path can be opened, and the descriptor stands on its mount.
LEMMA OpenStands ==
  ASSUME TableTypeOK, Rooted, NEW p \in Seq(Name), Exists(p)
  PROVE  /\ HandleType(Handle(p)) /\ Stands(Handle(p))
         /\ Handle(p).path = p /\ Handle(p).mount = Top(p) /\ Top(p) \in 1 .. Len(mounts)
<1>1. PICK t \in 1 .. Len(mounts) : t = Top(p) /\ t \in Covering(p)
  BY TopCovers
<1>2. PICK h : h = Handle(p)
  OBVIOUS
<1>3. h.path = p /\ h.mount = t /\ h.kind = Kind(p)
  BY <1>1, <1>2 DEF Handle
<1>4. /\ Inner(t, p) \in DOMAIN fss[mounts[t].fs].files
      /\ fss[mounts[t].fs].files[Inner(t, p)] \in FileKind
  BY <1>1 DEF Exists, Is
<1>5. Kind(p) \in FileKind
  BY <1>1, <1>4 DEF Kind, FilesAt
<1>6. Len(mounts) \in Nat /\ t \in 0 .. Len(mounts)
  BY DEF Rooted
<1>7. HandleType(h)
  BY <1>3, <1>5, <1>6 DEF HandleType
<1>8. Stands(h)
  BY <1>1, <1>3, <1>4 DEF Stands
<1> QED
  BY <1>1, <1>2, <1>3, <1>7, <1>8

\* Steps that leave the table alone, and let a bind come to its end.
LEMMA QuietTable ==
  ASSUME MountInv, UNCHANGED tvars, stage = "done" => stage' = "done",
         step \in {"reopen", "remount"} => step' \in {"reopen", "remount"}
  PROVE  /\ TableTypeOK' /\ AttributesAsAsked'
         /\ stage' # "done" => Rooted' /\ RootsThere'
         /\ \A h : HandleType(h) => HandleType(h)'
<1>1. mounts' = mounts /\ fss' = fss
  BY DEF tvars
<1>2. TableTypeOK'
  BY <1>1 DEF MountInv, TableTypeOK
<1>3. AttributesAsAsked'
  BY <1>1 DEF MountInv, SetupInv, AttributesAsAsked
<1>4. stage' # "done" => Rooted' /\ RootsThere'
  BY <1>1 DEF MountInv, SetupInv, Rooted, RootsThere
<1> QED
  BY <1>1, <1>2, <1>3, <1>4 DEF HandleType

\* A step that leaves the table alone leaves what holds of it.
LEMMA TableKept ==
  ASSUME MountInv, UNCHANGED tvars, stage # "done"
  PROVE  TableTypeOK' /\ RootsThere' /\ UNCHANGED mounts
BY DEF MountInv, SetupInv, TableTypeOK, RootsThere, tvars

\* No mount is made while no bind is in progress.
LEMMA FilesMade ==
  ASSUME MountInv, UNCHANGED mounts, stage # "done",
         step \in {"reopen", "remount"} => step' = step
  PROVE  Rooted' /\ AttributesAsAsked' /\ \A h : HandleType(h) => HandleType(h)'
<1>1. Rooted'
  BY DEF MountInv, SetupInv, Rooted
<1>2. AttributesAsAsked'
  BY DEF MountInv, SetupInv, AttributesAsAsked
<1> QED
  BY <1>1, <1>2 DEF HandleType

\* A job begins.
LEMMA BeginMount ==
  ASSUME MountInv, TableTypeOK', RootsThere', UNCHANGED mounts,
         NEW m \in MountT, NEW who \in JobID, Begin(m, who),
         stage \notin {"done", "failed"}, step \notin {"reopen", "remount"}
  PROVE  MountInv'
<1>1. /\ job' = m /\ by' = who /\ src' = NoHandle /\ dst' = NoHandle /\ n' = n
      /\ \/ stage' = "failed" /\ step' = step
         \/ stage' = stage /\ step' = "source"
         \/ stage' = stage /\ step' = "destination" /\ "BIND" \notin m.flags
  BY DEF Begin, Goto, Fail
<1>2. HandleType(NoHandle)'
  <2>1. Len(mounts) \in Nat
    BY DEF MountInv, TableTypeOK
  <2> QED
    BY <2>1 DEF HandleType, NoHandle
<1>3. MounterTypeOK'
  <2>1. stage \in MounterStages /\ step \in Steps /\ n \in Nat
    BY DEF MountInv, MounterTypeOK
  <2>2. stage' \in MounterStages /\ step' \in Steps /\ n' \in Nat
    BY <1>1, <2>1 DEF MounterStages, MounterEnds, Steps
  <2>3. HandleType(src)' /\ HandleType(dst)'
    BY <1>1, <1>2 DEF HandleType
  <2> QED
    BY <1>1, <2>2, <2>3 DEF MounterTypeOK
<1>4. stage' # "failed" => JobInv'
  BY <1>1 DEF JobInv, IdleInv, SourceInv, DestinationInv, NewestInv, IsBind
<1>5. AttributesAsAsked' /\ Rooted'
  BY FilesMade
<1> QED
  BY <1>3, <1>4, <1>5 DEF MountInv, SetupInv

\* The clone gives up; what it has opened and mounted stays.
LEMMA FailMount ==
  ASSUME MountInv, TableTypeOK', RootsThere', UNCHANGED <<job, by, src, dst, mounts>>,
         Fail, stage # "done"
  PROVE  MountInv'
<1>1. stage' = "failed" /\ n' = n /\ step' = step
  BY DEF Fail
<1>2. AttributesAsAsked' /\ Rooted' /\ \A h : HandleType(h) => HandleType(h)'
  BY <1>1, FilesMade
<1>3. MounterTypeOK'
  BY <1>1, <1>2 DEF MountInv, MounterTypeOK, MounterStages, MounterEnds, HandleType
<1> QED
  BY <1>1, <1>2, <1>3 DEF MountInv, SetupInv

\* Between two jobs the mounter goes on, or the parser is at work.
LEMMA IdleMount ==
  ASSUME MountInv, UNCHANGED <<job, by, src, dst, mounts, fss>>, step' = step, step = "idle",
         stage \notin {"done", "failed"}, stage' \in MounterStages, n' \in Nat
  PROVE  MountInv'
<1>1. /\ TableTypeOK' /\ AttributesAsAsked'
      /\ stage' # "done" => Rooted' /\ RootsThere'
  BY QuietTable DEF tvars
<1>2. MounterTypeOK'
  BY DEF MountInv, MounterTypeOK, HandleType
<1>3. JobInv'
  BY DEF MountInv, SetupInv, JobInv, IdleInv, SourceInv, DestinationInv, NewestInv
<1> QED
  BY <1>1, <1>2, <1>3 DEF MountInv, SetupInv

-----------------------------------------------------------------------------
(* The steps of a job.                                                     *)

\* What a job at work has to go on.
LEMMA AtWork ==
  ASSUME MountInv, StageInv, stage # "failed", step # "idle"
  PROVE  /\ stage \in {"entries", "devices"} \cup DefaultStages /\ stage # "done"
         /\ TableTypeOK /\ Rooted /\ RootsThere /\ JobInv /\ MounterTypeOK
         /\ Len(mounts) \in Nat
<1>1. stage \in {"entries", "devices"} \cup DefaultStages /\ stage # "done"
  BY DEF StageInv, DefaultStages
<1> QED
  BY <1>1 DEF MountInv, SetupInv, Rooted

\* The source is opened.
LEMMA OpenSourceMount ==
  ASSUME MountInv, StageInv, OpenSource
  PROVE  MountInv'
<1>1. /\ step = "source" /\ stage # "failed" /\ UNCHANGED <<job, by, dst, mounts, fss>>
      /\ UNCHANGED tvars
  BY DEF OpenSource, tvars
<1>2. /\ stage # "done" /\ TableTypeOK /\ Rooted /\ RootsThere /\ MounterTypeOK
  BY <1>1, AtWork
<1>3. CASE Fail /\ UNCHANGED src
  BY <1>1, <1>2, <1>3, TableKept, FailMount DEF tvars
<1>4. CASE \E p \in {Names(q) : q \in {q \in job.source : Absolute(q)}} :
             Found(p) /\ src' = Handle(p) /\ Goto("destination")
  <2>1. PICK q \in job.source : Exists(Names(q)) /\ src' = Handle(Names(q))
    BY <1>4 DEF Found
  <2>2. PICK p \in Seq(Name) : p = Names(q)
    BY <1>2, JobParts, PathTypes
  <2>3. HandleType(src') /\ Stands(src')
    BY <1>2, <2>1, <2>2, OpenStands
  <2>4. stage' = stage /\ step' = "destination" /\ n' = n
    BY <1>4 DEF Goto
  <2>5. /\ TableTypeOK' /\ AttributesAsAsked' /\ Rooted' /\ RootsThere'
        /\ HandleType(src)' /\ HandleType(dst)'
    <3>1. HandleType(src') => HandleType(src)'
      BY <1>1 DEF HandleType
    <3>2. HandleType(dst)'
      BY <1>1, <1>2 DEF HandleType, MounterTypeOK
    <3> QED
      BY <1>1, <1>2, <2>3, <2>4, <3>1, <3>2, QuietTable
  <2>6. Stands(src)'
    BY <1>1, <2>3 DEF Stands, Covering, Inner
  <2>7. MounterTypeOK'
    BY <1>1, <1>2, <2>4, <2>5 DEF MounterTypeOK, Steps
  <2>8. JobInv'
    BY <2>4, <2>6 DEF JobInv, IdleInv, SourceInv, DestinationInv, NewestInv
  <2> QED
    BY <2>4, <2>5, <2>7, <2>8 DEF MountInv, SetupInv
<1> QED
  BY <1>3, <1>4 DEF OpenSource

\* Opening the destination: it fails, it is found, or it has to be made.
LEMMA EnsureCases ==
  ASSUME MounterTypeOK, NEW next, EnsureDestination(next)
  PROVE  \E p \in Seq(Name), q \in Seq(Name), kind \in FileKind :
           /\ p \in Wanted /\ q \in Made
           /\ \/ Fail /\ UNCHANGED <<dst, tvars>>
              \/ Found(p) /\ dst' = Handle(p) /\ Goto(next) /\ UNCHANGED tvars
              \/ /\ Missing(p) /\ Create(q, kind) /\ UNCHANGED mounts
                 /\ dst' = Created(q, kind) /\ Goto(next)
<1>1. PICK kind \in FileKind : kind = IF IsBind /\ src.kind # "dir" THEN "file" ELSE "dir"
  BY DEF FileKind
<1>2. PICK p \in Wanted, q \in Made :
        IF Found(p)
          THEN dst' = Handle(p) /\ Goto(next) /\ UNCHANGED tvars
          ELSE IF Missing(p) /\ CanCreate(q, kind)
                 THEN /\ Create(q, kind) /\ UNCHANGED mounts
                      /\ dst' = Created(q, kind)
                      /\ Goto(next)
                 ELSE Fail /\ UNCHANGED <<dst, tvars>>
  BY <1>1 DEF EnsureDestination, Wanted, Made
<1>3. p \in Seq(Name) /\ q \in Seq(Name)
  BY JobParts, PathTypes DEF Wanted, Made
<1> QED
  BY <1>2, <1>3, Zenon

\* The destination is opened, or made: the descriptor stands on the mount at its
\* path, which is that of the destination or, if nothing is mounted there, of
\* what mkdir makes.
LEMMA DestinationOpened ==
  ASSUME MountInv, StageInv, stage # "failed", step # "idle", UNCHANGED <<job, by, src>>,
         NEW next \in Steps, EnsureDestination(next)
  PROVE  \/ Fail /\ UNCHANGED <<dst, mounts, fss>>
         \/ /\ Goto(next) /\ UNCHANGED mounts
            /\ TableTypeOK' /\ Rooted' /\ RootsThere'
            /\ HandleType(dst)' /\ Stands(dst)'
            /\ dst'.mount = Top(dst'.path) /\ dst'.path \in Seq(Name)
            /\ \/ dst'.path \in Wanted
               \/ dst'.path \in Made /\ \A p \in Wanted : mounts[Top(p)].at # p
            /\ \A h : Stands(h) => Stands(h)'
            /\ \A h : HandleType(h) => HandleType(h)'
<1>1. /\ TableTypeOK /\ Rooted /\ RootsThere /\ MounterTypeOK
  BY AtWork
<1>2. PICK p \in Seq(Name), target \in Seq(Name), kind \in FileKind :
        /\ p \in Wanted /\ target \in Made
        /\ \/ Fail /\ UNCHANGED <<dst, tvars>>
           \/ Found(p) /\ dst' = Handle(p) /\ Goto(next) /\ UNCHANGED tvars
           \/ /\ Missing(p) /\ Create(target, kind) /\ UNCHANGED mounts
              /\ dst' = Created(target, kind) /\ Goto(next)
  BY <1>1, EnsureCases
<1>3. p \in Wanted /\ target \in Made /\ \A q \in Wanted : q = p
  BY <1>1, <1>2, JobParts DEF Wanted
<1>4. CASE Fail /\ UNCHANGED <<dst, tvars>>
  BY <1>4 DEF tvars
<1>5. CASE Found(p) /\ dst' = Handle(p) /\ Goto(next) /\ UNCHANGED tvars
  <2>1. Exists(p) /\ mounts' = mounts /\ fss' = fss
    BY <1>5 DEF Found, tvars
  <2>2. HandleType(dst') /\ Stands(dst') /\ dst'.path = p /\ dst'.mount = Top(p)
    BY <1>1, <1>5, <2>1, OpenStands
  <2>3. \A h : (Stands(h) => Stands(h)') /\ (HandleType(h) => HandleType(h)')
    BY <2>1 DEF Stands, Covering, Inner, HandleType
  <2>4. HandleType(dst)' /\ Stands(dst)'
    BY <2>1, <2>2 DEF Stands, Covering, Inner, HandleType
  <2>5. TableTypeOK' /\ Rooted' /\ RootsThere'
    BY <1>1, <2>1 DEF TableTypeOK, Rooted, RootsThere
  <2> QED
    BY <1>3, <1>5, <2>1, <2>2, <2>3, <2>4, <2>5
<1>6. CASE /\ Missing(p) /\ Create(target, kind) /\ UNCHANGED mounts
           /\ dst' = Created(target, kind) /\ Goto(next)
  <2>1. mounts' = mounts
    BY <1>6
  <2>2. PICK t \in 1 .. Len(mounts) : t = Top(target) /\ t \in Covering(target)
    BY <1>1, TopCovers
  <2>3. /\ TableTypeOK' /\ Rooted' /\ RootsThere'
        /\ \A f \in 1 .. Len(fss) : DOMAIN fss[f].files \subseteq DOMAIN fss'[f].files
        /\ Inner(t, target) \in DOMAIN fss'[mounts[t].fs].files
    <3>1. /\ TableTypeOK' /\ Rooted' /\ RootsThere'
          /\ \A f \in 1 .. Len(fss) : f # mounts[t].fs => fss'[f] = fss[f]
          /\ DOMAIN fss'[mounts[t].fs].files = DOMAIN fss[mounts[t].fs].files \cup MadeFiles(target)
      BY <1>1, <1>6, <2>2, CreateAdds
    <3>2. Inner(t, target) \in MadeFiles(target)
      BY <2>2 DEF MadeFiles
    <3> QED
      BY <3>1, <3>2
  <2>4. dst'.path = target /\ dst'.mount = t
        /\ dst'.kind = IF Exists(target) THEN Kind(target) ELSE kind
    BY <1>6, <2>2 DEF Created
  <2>5. HandleType(dst)'
    <3>1. Exists(target) => Kind(target) \in FileKind
      BY <2>2 DEF Exists, Is, Kind, FilesAt
    <3>2. dst'.kind \in FileKind /\ t \in 0 .. Len(mounts)
      BY <2>4, <3>1
    <3> QED
      BY <2>1, <2>4, <3>2 DEF HandleType
  <2>6. Stands(dst)'
    BY <2>1, <2>2, <2>3, <2>4 DEF Stands, Covering, Inner
  <2>7. \A h : Stands(h) => Stands(h)'
    <3> SUFFICES ASSUME NEW h, Stands(h) PROVE Stands(h)'
      OBVIOUS
    <3>1. h.mount \in 1 .. Len(mounts)
      BY DEF Stands, Covering
    <3>2. mounts[h.mount].fs \in 1 .. Len(fss)
      BY <1>1, <3>1 DEF TableTypeOK
    <3> QED
      BY <2>1, <2>3, <3>2 DEF Stands, Covering, Inner
  <2>8. \A h : HandleType(h) => HandleType(h)'
    BY <2>1 DEF HandleType
  <2>9. \A q \in Wanted : mounts[Top(q)].at # q
    BY <1>1, <1>3, <1>6, MountPointExists DEF Missing
  <2> QED
    BY <1>3, <1>6, <2>1, <2>2, <2>3, <2>4, <2>5, <2>6, <2>7, <2>8, <2>9
<1> QED
  BY <1>2, <1>4, <1>5, <1>6

\* The destination is opened for the first time.
LEMMA OpenDestinationMount ==
  ASSUME MountInv, StageInv, OpenDestination
  PROVE  MountInv'
<1>1. /\ step = "destination" /\ stage # "failed" /\ UNCHANGED <<job, by, src>>
      /\ EnsureDestination("mount") /\ "mount" \in Steps
  BY DEF OpenDestination, Steps
<1>2. /\ TableTypeOK /\ Rooted /\ RootsThere /\ MounterTypeOK /\ stage # "done" /\ JobInv
  BY <1>1, AtWork
<1>3. CASE Fail /\ UNCHANGED <<dst, mounts, fss>>
  BY <1>1, <1>2, <1>3, TableKept, FailMount DEF tvars
<1>4. CASE /\ Goto("mount") /\ UNCHANGED mounts
           /\ TableTypeOK' /\ Rooted' /\ RootsThere'
           /\ HandleType(dst)' /\ Stands(dst)'
           /\ dst'.mount = Top(dst'.path)
           /\ \/ dst'.path \in Wanted
              \/ dst'.path \in Made /\ \A p \in Wanted : mounts[Top(p)].at # p
           /\ \A h : Stands(h) => Stands(h)'
           /\ \A h : HandleType(h) => HandleType(h)'
  <2>1. stage' = stage /\ step' = "mount" /\ n' = n /\ mounts' = mounts
    BY <1>4 DEF Goto
  <2>2. MounterTypeOK'
    <3>1. HandleType(src)'
      BY <1>1, <1>2, <1>4, <2>1 DEF MounterTypeOK, HandleType
    <3> QED
      BY <1>1, <1>2, <1>4, <2>1, <3>1 DEF MounterTypeOK
  <2>3. AttributesAsAsked'
    BY <1>1, <2>1 DEF MountInv, SetupInv, AttributesAsAsked
  <2>4. Wanted' = Wanted /\ Made' = Made
    BY <1>1 DEF Wanted, Made
  <2>5. DestinationInv'
    <3>1. dst'.mount = Top(dst.path)'
      BY <1>4, <2>1 DEF Top, Covering
    <3>2. IsDestination(dst.path)'
      BY <1>4, <2>1, <2>4 DEF IsDestination, Top, Covering
    <3> QED
      BY <1>4, <3>1, <3>2 DEF DestinationInv
  <2>6. SourceInv'
    <3>1. IsBind' <=> IsBind
      BY <1>1 DEF IsBind
    <3>2. IsBind => Stands(src)
      BY <1>1, <1>2 DEF JobInv, SourceInv
    <3>3. IsBind => Stands(src)'
      <4>1. PICK h : h = src
        OBVIOUS
      <4>2. Stands(h) => Stands(h)'
        BY <1>4
      <4> QED
        BY <1>1, <3>2, <4>1, <4>2 DEF Stands, Covering, Inner
    <3> QED
      BY <3>1, <3>3 DEF SourceInv
  <2>7. JobInv'
    BY <2>1, <2>5, <2>6 DEF JobInv, IdleInv, NewestInv
  <2> QED
    BY <1>4, <2>2, <2>3, <2>7 DEF MountInv, SetupInv
<1> QED
  BY <1>1, <1>3, <1>4, DestinationOpened

\* The mount that a bind makes.
LEMMA BindMade ==
  ASSUME MountInv, StageInv, stage # "failed", step = "mount", IsBind,
         BindMount(src, dst, by, Attributes(job.flags))
  PROVE  /\ TableTypeOK' /\ RootsThere' /\ UNCHANGED fss
         /\ \E m \in MountRecord :
              /\ mounts' = Append(mounts, m)
              /\ m.at = dst.path /\ m.by = by /\ m.asked = Attributes(job.flags)
<1>1. /\ TableTypeOK /\ Rooted /\ RootsThere /\ MounterTypeOK /\ stage # "done" /\ JobInv
      /\ Len(mounts) \in Nat
  BY AtWork
<1>2. /\ Stands(src) /\ src.path \in Seq(Name) /\ dst.path \in Seq(Name)
      /\ src.mount \in 1 .. Len(mounts) /\ by \in JobID
      /\ Attributes(job.flags) \in SUBSET Flag
  BY <1>1, JobParts DEF JobInv, SourceInv, MounterTypeOK,
                        HandleType, Stands, Covering, Attributes
<1>3. PICK i \in 1 .. Len(mounts), p \in Seq(Name), at \in Seq(Name),
           who \in JobID, asked \in SUBSET Flag :
        /\ i = src.mount /\ p = src.path /\ at = dst.path
        /\ who = by /\ asked = Attributes(job.flags)
  BY <1>2
<1>4. Inner(i, p) \in DOMAIN fss[mounts[i].fs].files
  BY <1>2, <1>3 DEF Stands
<1>5. /\ UNCHANGED fss
      /\ mounts' = Append(mounts,
           [at |-> at, fs |-> mounts[i].fs, sub |-> Inner(i, p),
            flags |-> mounts[i].flags, by |-> who, asked |-> asked])
  BY <1>3 DEF BindMount
<1>6. /\ TableTypeOK' /\ RootsThere'
      /\ \E m \in MountRecord :
           /\ mounts' = Append(mounts, m)
           /\ m.at = at /\ m.by = who /\ m.asked = asked
  BY SMTT(30), <1>1, <1>4, <1>5, BindMountAdds
<1> QED
  BY <1>3, <1>5, <1>6

\* The first mount of a bind: it is the newest one, and the only one that may
\* lack its attributes.
LEMMA MountBindMount ==
  ASSUME MountInv, StageInv, MountBind
  PROVE  MountInv'
<1>1. step = "mount" /\ stage # "failed" /\ IsBind /\ UNCHANGED <<job, by, src, dst>>
  BY DEF MountBind, jvars
<1>2. /\ TableTypeOK /\ Rooted /\ RootsThere /\ MounterTypeOK /\ stage # "done" /\ JobInv
      /\ Len(mounts) \in Nat
  BY <1>1, AtWork
<1>3. CASE Fail /\ UNCHANGED tvars
  BY <1>1, <1>2, <1>3, TableKept, FailMount DEF tvars
<1>4. CASE BindMount(src, dst, by, Attributes(job.flags)) /\ Goto("reopen")
  <2>1. dst.path \in Seq(Name) /\ IsDestination(dst.path)
    BY <1>1, <1>2 DEF JobInv, DestinationInv, MounterTypeOK, HandleType
  <2>2. PICK m \in MountRecord :
          /\ mounts' = Append(mounts, m)
          /\ m.at = dst.path /\ m.by = by /\ m.asked = Attributes(job.flags)
          /\ TableTypeOK' /\ RootsThere'
    BY <1>1, <1>4, BindMade
  <2>3. /\ Rooted' /\ Len(mounts') = Len(mounts) + 1
        /\ mounts'[Len(mounts) + 1] = m
        /\ \A i \in 1 .. Len(mounts) : mounts'[i] = mounts[i]
    <3>1. <<>> \in Seq(Name)
      OBVIOUS
    <3> QED
      BY <1>2, <2>2, <3>1, TopAfterMount
  <2>4. stage' = stage /\ step' = "reopen" /\ n' = n
    BY <1>4 DEF Goto
  <2>5. MounterTypeOK'
    <3>1. \A h : HandleType(h) => HandleType(h)'
      BY <1>2, <2>3 DEF HandleType
    <3>2. HandleType(src)' /\ HandleType(dst)'
      BY <1>1, <1>2, <3>1 DEF MounterTypeOK, HandleType
    <3> QED
      BY <1>1, <1>2, <2>4, <3>2 DEF MounterTypeOK, Steps
  <2>6. AttributesAsAsked'
    <3>1. \A i \in 1 .. Len(mounts) : mounts[i].flags = mounts[i].asked
      BY <1>1 DEF MountInv, SetupInv, AttributesAsAsked
    <3>2. \A i \in 1 .. Len(mounts') : i \in 1 .. Len(mounts) \/ i = Len(mounts')
      BY <1>2, <2>3
    <3> QED
      BY <2>3, <2>4, <3>1, <3>2 DEF AttributesAsAsked
  <2>7. Wanted' = Wanted /\ Made' = Made
    BY <1>1 DEF Wanted, Made
  <2>8. IsDestination(m.at)'
    <3>1. CASE dst.path \in Wanted
      BY <2>2, <2>7, <3>1 DEF IsDestination
    <3>2. CASE dst.path \notin Wanted
      <4>1. dst.path \in Made /\ \A p \in Wanted : mounts[Top(p)].at # p
        BY <2>1, <3>2 DEF IsDestination
      <4>2. ASSUME NEW p \in Wanted
            PROVE  mounts'[Top(p)'].at # p
        <5>1. p \in Seq(Name)
          BY <1>2, JobParts, PathTypes DEF Wanted
        <5>2. Top(p)' = IF IsPrefix(m.at, p) THEN Len(mounts) + 1 ELSE Top(p)
          BY <1>2, <2>2, <5>1, TopAfterMount
        <5>3. Top(p) \in 1 .. Len(mounts)
          BY <1>2, <5>1, TopCovers
        <5> QED
          BY <2>2, <2>3, <3>2, <4>1, <5>2, <5>3
      <4>3. \A p \in Wanted' : mounts'[Top(p)'].at # p
        BY <2>7, <4>2
      <4> QED
        BY <2>2, <2>7, <4>1, <4>3 DEF IsDestination
    <3> QED
      BY <3>1, <3>2
  <2>9. NewestInv'
    BY <1>1, <2>2, <2>3, <2>4, <2>8 DEF NewestInv
  <2>10. JobInv'
    BY <2>4, <2>9 DEF JobInv, IdleInv, SourceInv, DestinationInv
  <2> QED
    BY <2>2, <2>3, <2>5, <2>6, <2>10 DEF MountInv, SetupInv
<1> QED
  BY <1>3, <1>4 DEF MountBind

\* Reopened, the descriptor stands on the root of the new mount or of none.
LEMMA ReopenDestinationMount ==
  ASSUME MountInv, StageInv, ReopenDestination
  PROVE  MountInv'
<1>1. /\ step = "reopen" /\ stage # "failed" /\ UNCHANGED <<job, by, src>>
      /\ EnsureDestination("remount") /\ "remount" \in Steps
  BY DEF ReopenDestination, Steps
<1>2. /\ TableTypeOK /\ Rooted /\ RootsThere /\ MounterTypeOK /\ stage # "done" /\ JobInv
      /\ Len(mounts) \in Nat
  BY <1>1, AtWork
<1>3. CASE Fail /\ UNCHANGED <<dst, mounts, fss>>
  BY <1>1, <1>2, <1>3, TableKept, FailMount DEF tvars
<1>4. CASE /\ Goto("remount") /\ UNCHANGED mounts
           /\ TableTypeOK' /\ Rooted' /\ RootsThere'
           /\ HandleType(dst)' /\ Stands(dst)'
           /\ dst'.mount = Top(dst'.path) /\ dst'.path \in Seq(Name)
           /\ \/ dst'.path \in Wanted
              \/ dst'.path \in Made /\ \A p \in Wanted : mounts[Top(p)].at # p
           /\ \A h : HandleType(h) => HandleType(h)'
  <2>1. stage' = stage /\ step' = "remount" /\ n' = n /\ mounts' = mounts
    BY <1>4 DEF Goto
  <2>2. MounterTypeOK'
    <3>1. HandleType(src)'
      BY <1>1, <1>2, <1>4, <2>1 DEF MounterTypeOK, HandleType
    <3> QED
      BY <1>1, <1>2, <1>4, <2>1, <3>1 DEF MounterTypeOK
  <2>3. AttributesAsAsked'
    BY <1>1, <2>1 DEF MountInv, SetupInv, AttributesAsAsked
  <2>4. PICK last \in 1 .. Len(mounts) : last = Len(mounts)
    BY <1>2 DEF Rooted
  <2>5. /\ mounts[last].by = by /\ mounts[last].asked = Attributes(job.flags)
        /\ IsDestination(mounts[last].at)
    BY <1>1, <1>2, <2>4 DEF JobInv, NewestInv
  <2>6. \A p, q \in Wanted : p = q
    BY <1>2, JobParts DEF Wanted
  <2>7. \A p, q \in Made : p = q
    BY <1>2, JobParts DEF Made
  <2>8. ASSUME NEW p \in Seq(Name), mounts[last].at = p
        PROVE  Top(p) = last
    <3>1. IsPrefix(p, p)
      BY PrefixOrder
    <3>2. last \in Covering(p) /\ \A i \in Covering(p) : i <= last
      BY <1>2, <2>4, <2>8, <3>1 DEF Covering
    <3> QED
      BY <1>2, <3>2, TopIs
  <2>9. mounts[Top(dst'.path)].at = dst'.path => Top(dst'.path) = last
    <3> SUFFICES ASSUME mounts[Top(dst'.path)].at = dst'.path
                 PROVE  Top(dst'.path) = last
      OBVIOUS
    <3>1. PICK p \in Seq(Name) : p = dst'.path
      BY <1>4
    <3>2. mounts[last].at \in Wanted => mounts[last].at = p
      <4>1. ASSUME mounts[last].at \in Wanted, p \notin Wanted
            PROVE  FALSE
        <5>1. PICK q \in Wanted : q = mounts[last].at /\ q \in Seq(Name)
          BY <2>4, <4>1, MountType, <1>2 DEF Rooted
        <5>2. Top(q) = last
          BY <2>8, <5>1
        <5> QED
          BY <1>4, <3>1, <4>1, <5>1, <5>2
      <4> QED
        BY <2>6, <4>1
    <3>3. mounts[last].at \notin Wanted => mounts[last].at = p
      <4>1. ASSUME mounts[last].at \notin Wanted
            PROVE  mounts[last].at \in Made /\ p \notin Wanted
        BY <2>5, <3>1, <4>1 DEF IsDestination
      <4> QED
        BY <1>4, <2>7, <3>1, <4>1
    <3> QED
      BY <2>8, <3>1, <3>2, <3>3
  <2>10. NewestInv'
    <3>1. OnMountRoot(dst)' => dst'.mount = Len(mounts')
      BY <1>4, <2>1, <2>4, <2>9 DEF OnMountRoot
    <3> QED
      BY <1>1, <1>4, <2>1, <2>4, <2>5, <3>1 DEF NewestInv
  <2>11. JobInv'
    BY <2>1, <2>10 DEF JobInv, IdleInv, SourceInv, DestinationInv
  <2> QED
    BY <1>4, <2>2, <2>3, <2>11 DEF MountInv, SetupInv
<1> QED
  BY <1>1, <1>3, <1>4, DestinationOpened

\* What a remount leaves of the invariant.
LEMMA RemountKeeps ==
  ASSUME MountInv, StageInv, stage # "failed", step # "idle", UNCHANGED <<job, by, src, dst>>,
         OnMountRoot(dst), NEW asked \in SUBSET Flag,
         Remount(dst, Attributes(job.flags), asked) \/ Remount(dst, asked, asked)
  PROVE  /\ dst.mount \in 1 .. Len(mounts)
         /\ TableTypeOK' /\ Rooted' /\ RootsThere' /\ Len(mounts') = Len(mounts)
         /\ \A i \in 1 .. Len(mounts) : i # dst.mount => mounts'[i] = mounts[i]
         /\ mounts'[dst.mount].asked = asked
         /\ Remount(dst, asked, asked) => mounts'[dst.mount].flags = asked
         /\ Remount(dst, Attributes(job.flags), asked) =>
              mounts'[dst.mount].flags = Attributes(job.flags)
<1>1. /\ TableTypeOK /\ Rooted /\ RootsThere /\ MounterTypeOK /\ Len(mounts) \in Nat
  BY AtWork
<1>2. PICK h : h = dst
  OBVIOUS
<1>3. h.mount \in 1 .. Len(mounts)
  BY <1>1, <1>2 DEF OnMountRoot, MounterTypeOK, HandleType
<1>4. PICK a \in SUBSET Flag : a = Attributes(job.flags)
  BY <1>1, JobParts DEF Attributes
<1>5. ASSUME NEW flags \in SUBSET Flag, Remount(h, flags, asked)
      PROVE  /\ TableTypeOK' /\ Rooted' /\ RootsThere' /\ Len(mounts') = Len(mounts)
             /\ \A i \in 1 .. Len(mounts) : i # h.mount => mounts'[i] = mounts[i]
             /\ mounts'[h.mount].asked = asked /\ mounts'[h.mount].flags = flags
  BY <1>1, <1>3, <1>5, RemountChanges
<1> QED
  BY <1>2, <1>3, <1>4, <1>5

\* The second mount of a bind gives the new mount its attributes.
LEMMA RemountBindMount ==
  ASSUME MountInv, StageInv, RemountBind
  PROVE  MountInv'
<1>1. step = "remount" /\ stage # "failed" /\ UNCHANGED <<job, by, src, dst>>
  BY DEF RemountBind, jvars
<1>2. /\ TableTypeOK /\ Rooted /\ RootsThere /\ MounterTypeOK /\ stage # "done" /\ JobInv
      /\ Len(mounts) \in Nat
  BY <1>1, AtWork
<1>3. CASE Fail /\ UNCHANGED tvars
  BY <1>1, <1>2, <1>3, TableKept, FailMount DEF tvars
<1>4. CASE /\ OnMountRoot(dst)
           /\ Remount(dst, Attributes(job.flags), mounts[dst.mount].asked)
           /\ Goto("propagate")
  <2>1. PICK last : last = Len(mounts) /\ last = dst.mount
    BY <1>1, <1>2, <1>4 DEF JobInv, NewestInv
  <2>2. mounts[last].asked = Attributes(job.flags) /\ Attributes(job.flags) \in SUBSET Flag
    BY <1>1, <1>2, <2>1, JobParts DEF JobInv, NewestInv, Attributes
  <2>3. PICK asked \in SUBSET Flag : asked = Attributes(job.flags)
    BY <2>2
  <2>4. Remount(dst, Attributes(job.flags), asked)
    BY <1>4, <2>1, <2>2, <2>3
  <2>5. /\ TableTypeOK' /\ Rooted' /\ RootsThere' /\ Len(mounts') = Len(mounts)
        /\ \A i \in 1 .. Len(mounts) : i # last => mounts'[i] = mounts[i]
        /\ mounts'[last].asked = asked /\ mounts'[last].flags = asked
    BY <1>1, <1>4, <2>1, <2>3, <2>4, RemountKeeps
  <2>6. stage' = stage /\ step' = "propagate" /\ n' = n
    BY <1>4 DEF Goto
  <2>7. MounterTypeOK'
    BY <1>1, <1>2, <2>5, <2>6 DEF MounterTypeOK, HandleType, Steps
  <2>8. AttributesAsAsked'
    BY <2>1, <2>5 DEF MountInv, SetupInv, AttributesAsAsked
  <2>9. JobInv'
    BY <2>6 DEF JobInv, IdleInv, SourceInv, DestinationInv, NewestInv
  <2> QED
    BY <2>5, <2>7, <2>8, <2>9 DEF MountInv, SetupInv
<1> QED
  BY <1>3, <1>4 DEF RemountBind

\* Any other mount fails, is a remount or is new.
LEMMA OtherCases ==
  ASSUME MounterTypeOK, MountOther
  PROVE  \/ Fail /\ UNCHANGED tvars
         \/ \E asked \in SUBSET Flag :
              /\ "REMOUNT" \in job.flags /\ OnMountRoot(dst)
              /\ Remount(dst, asked, asked) /\ Goto("propagate")
         \/ \E asked \in SUBSET Flag :
              /\ "REMOUNT" \notin job.flags /\ job.type \in Mountable
              /\ NewMount(job.type, dst, by, asked) /\ Goto("propagate")
<1>1. PICK asked \in SUBSET Flag :
        asked = Attributes(IF ReadOnlyTmpfs THEN job.flags \ {"RDONLY"} ELSE job.flags)
  BY JobParts DEF Attributes
<1>2. MountDestination = dst \/ MountDestination = NoHandle
  BY DEF MountDestination
<1>3. ~OnMountRoot(NoHandle) /\ ~CanCover("dir", NoHandle)
  BY DEF OnMountRoot, CanCover, NoHandle
<1> QED
  BY <1>1, <1>2, <1>3, Zenon DEF MountOther

\* Any other mount has its attributes at once.
LEMMA MountOtherMount ==
  ASSUME MountInv, StageInv, MountOther
  PROVE  MountInv'
<1>1. step = "mount" /\ stage # "failed" /\ UNCHANGED <<job, by, src, dst>>
  BY DEF MountOther, jvars
<1>2. /\ TableTypeOK /\ Rooted /\ RootsThere /\ MounterTypeOK /\ stage # "done" /\ JobInv
      /\ Len(mounts) \in Nat
  BY <1>1, AtWork
<1>3. CASE Fail /\ UNCHANGED tvars
  BY <1>1, <1>2, <1>3, TableKept, FailMount DEF tvars
<1>4. ASSUME TableTypeOK', Rooted', RootsThere', Goto("propagate"),
             Len(mounts') >= Len(mounts), Len(mounts') \in Nat,
             \A i \in 1 .. Len(mounts') : mounts'[i].flags = mounts'[i].asked
      PROVE  MountInv'
  <2>1. stage' = stage /\ step' = "propagate" /\ n' = n
    BY <1>4 DEF Goto
  <2>2. \A h : HandleType(h) => HandleType(h)'
    BY <1>2, <1>4 DEF HandleType
  <2>3. HandleType(src)' /\ HandleType(dst)'
    BY <1>1, <1>2, <2>2 DEF MounterTypeOK, HandleType
  <2>4. MounterTypeOK'
    BY <1>1, <1>2, <2>1, <2>3 DEF MounterTypeOK, Steps
  <2>5. AttributesAsAsked'
    BY <1>4 DEF AttributesAsAsked
  <2>6. JobInv'
    BY <2>1 DEF JobInv, IdleInv, SourceInv, DestinationInv, NewestInv
  <2> QED
    BY <1>4, <2>4, <2>5, <2>6 DEF MountInv, SetupInv
<1>5. \A i \in 1 .. Len(mounts) : mounts[i].flags = mounts[i].asked
  BY <1>1 DEF MountInv, SetupInv, AttributesAsAsked
<1>6. ASSUME NEW asked \in SUBSET Flag, OnMountRoot(dst), Remount(dst, asked, asked),
             Goto("propagate")
      PROVE  MountInv'
  <2>1. /\ dst.mount \in 1 .. Len(mounts)
        /\ TableTypeOK' /\ Rooted' /\ RootsThere' /\ Len(mounts') = Len(mounts)
        /\ \A i \in 1 .. Len(mounts) : i # dst.mount => mounts'[i] = mounts[i]
        /\ mounts'[dst.mount].asked = asked /\ mounts'[dst.mount].flags = asked
    BY <1>1, <1>2, <1>6, RemountKeeps
  <2> QED
    BY <1>2, <1>4, <1>5, <1>6, <2>1
<1>7. ASSUME NEW asked \in SUBSET Flag, job.type \in Mountable,
             NewMount(job.type, dst, by, asked), Goto("propagate")
      PROVE  MountInv'
  <2>1. PICK type \in FsType, who \in JobID : type = job.type /\ who = by
    BY <1>2, <1>7 DEF Mountable, FsType, MounterTypeOK
  <2>2. PICK target : target = dst /\ target.path \in Seq(Name)
    BY <1>2 DEF MounterTypeOK, HandleType
  <2>3. NewMount(type, target, who, asked)
    BY <1>7, <2>1, <2>2
  <2>4. /\ TableTypeOK' /\ RootsThere'
        /\ \E m \in MountRecord :
             /\ mounts' = Append(mounts, m)
             /\ m.at = target.path /\ m.by = who /\ m.asked = asked
             /\ m.flags = asked /\ m.fs = Len(fss) + 1 /\ m.sub = <<>>
    BY <1>2, <2>2, <2>3, NewMountAdds
  <2>5. PICK m \in MountRecord : mounts' = Append(mounts, m) /\ m.asked = asked /\ m.flags = asked
    BY <2>4
  <2>6. /\ Rooted' /\ Len(mounts') = Len(mounts) + 1
        /\ mounts'[Len(mounts) + 1] = m
        /\ \A i \in 1 .. Len(mounts) : mounts'[i] = mounts[i]
    <3>1. <<>> \in Seq(Name)
      OBVIOUS
    <3> QED
      BY <1>2, <2>5, <3>1, TopAfterMount
  <2>7. \A i \in 1 .. Len(mounts') : i \in 1 .. Len(mounts) \/ i = Len(mounts) + 1
    BY <1>2, <2>6
  <2>8. \A i \in 1 .. Len(mounts') : mounts'[i].flags = mounts'[i].asked
    BY <1>5, <2>5, <2>6, <2>7
  <2>9. Len(mounts') >= Len(mounts) /\ Len(mounts') \in Nat
    BY <1>2, <2>6
  <2> QED
    BY <1>4, <1>7, <2>4, <2>6, <2>8, <2>9
<1> QED
  BY <1>2, <1>3, <1>6, <1>7, OtherCases

\* No job, of nobody.
LEMMA NoJobType == NoJob \in MountT /\ Nobody \in JobID
<1>1. \A S : {} \in Optional(S)
  BY DEF Optional
<1>2. "" \in Name /\ <<>> \in Seq(STRING) /\ {} \in SUBSET Flag
      /\ {} \in SUBSET PropagationFlag
  BY DEF Name
<1> QED
  BY <1>1, <1>2 DEF NoJob, MountT, Nobody, JobID

\* The job is done.
LEMMA PropagateMount ==
  ASSUME MountInv, StageInv, Propagate
  PROVE  MountInv'
<1>1. step = "propagate" /\ stage # "failed" /\ UNCHANGED <<mounts, fss>>
  BY DEF Propagate, tvars
<1>2. /\ TableTypeOK /\ MounterTypeOK /\ stage # "done"
      /\ stage \in {"entries", "devices"} \cup DefaultStages
  BY <1>1, AtWork
<1>3. CASE Fail /\ UNCHANGED jvars
  BY <1>1, <1>2, <1>3, TableKept, FailMount DEF jvars, tvars
<1>4. CASE AfterJob
  <2>1. /\ step' = "idle" /\ job' = NoJob /\ by' = Nobody /\ src' = NoHandle
        /\ dst' = NoHandle
        /\ stage' \in {"entries", "devices"} \cup DefaultStages /\ n' \in Nat
    BY <1>2, <1>4 DEF AfterJob, AfterDefault, DefaultStages, MounterTypeOK
  <2>2. /\ TableTypeOK' /\ AttributesAsAsked'
        /\ stage' # "done" => Rooted' /\ RootsThere'
    BY <1>1, <1>2, QuietTable DEF tvars
  <2>3. HandleType(src)' /\ HandleType(dst)'
    BY <1>1, <1>2, <2>1 DEF TableTypeOK, HandleType, NoHandle
  <2>4. NoJob \in MountT /\ Nobody \in JobID
    BY NoJobType
  <2>5. MounterTypeOK'
    BY <2>1, <2>3, <2>4 DEF MounterTypeOK, MounterStages, DefaultStages, Steps
  <2>6. JobInv'
    BY <2>1 DEF JobInv, IdleInv, SourceInv, DestinationInv, NewestInv
  <2> QED
    BY <2>2, <2>5, <2>6 DEF MountInv, SetupInv
<1> QED
  BY <1>3, <1>4 DEF Propagate

\* do_mount and do_bind_mount.
LEMMA DoMountMount == MountInv /\ StageInv /\ DoMount => MountInv'
  BY OpenSourceMount, OpenDestinationMount, MountBindMount, ReopenDestinationMount,
     RemountBindMount, MountOtherMount, PropagateMount DEF DoMount

-----------------------------------------------------------------------------
(* configure_mounts.                                                       *)

\* The jobs that configure_mounts fills in by hand.
LEMMA JobType ==
  ASSUME NEW source \in Path, NEW destination \in Path, NEW type \in Name,
         NEW flags \in SUBSET Flag, NEW g \in Garbage
  PROVE  /\ [source |-> {source}, destination |-> {destination}, type |-> type,
             flags |-> flags, propagation |-> g.propagation, data |-> <<>>] \in MountT
         /\ g.flags \in SUBSET Flag
<1>1. {source} \in Optional(Path) /\ {destination} \in Optional(Path)
  BY DEF Optional
<1>2. g.propagation \in SUBSET PropagationFlag /\ g.flags \in SUBSET Flag
  BY GarbageAssumption DEF Uninitialised
<1>3. <<>> \in Seq(STRING)
  OBVIOUS
<1> QED
  BY <1>1, <1>2, <1>3 DEF MountT

\* A default file system is to be mounted.
LEMMA BeginDefaultMount ==
  ASSUME MountInv, UNCHANGED tvars, NEW source \in Path, NEW destination \in Path,
         NEW type \in Name, NEW flags \in SUBSET Flag,
         BeginDefault(source, destination, type, flags),
         stage \notin {"done", "failed"}, step = "idle"
  PROVE  MountInv'
<1>1. PICK g \in Garbage :
        Begin([source |-> {source}, destination |-> {destination}, type |-> type,
               flags |-> IF flags = {} THEN g.flags ELSE flags,
               propagation |-> g.propagation, data |-> <<>>],
              [kind |-> "default", k |-> 0])
  BY DEF BeginDefault
<1>2. PICK m, who : /\ m = [source |-> {source}, destination |-> {destination}, type |-> type,
                            flags |-> IF flags = {} THEN g.flags ELSE flags,
                            propagation |-> g.propagation, data |-> <<>>]
                    /\ who = [kind |-> "default", k |-> 0]
  OBVIOUS
<1>3. m \in MountT
  <2>1. g.flags \in SUBSET Flag
    BY JobType
  <2>2. PICK f \in SUBSET Flag : f = IF flags = {} THEN g.flags ELSE flags
    BY <2>1
  <2> QED
    BY <1>2, <2>2, JobType
<1>4. who \in JobID
  BY <1>2 DEF JobID
<1> QED
  BY <1>1, <1>2, <1>3, <1>4, TableKept, BeginMount

\* The paths of the default file systems and devices.
LEMMA FixedPaths ==
  /\ {<<"proc">>, <<"/", "proc">>, <<"sysfs">>, <<"/", "sys">>, <<"tmpfs">>,
      <<"/", "dev">>, <<"devpts">>, <<"/", "dev", "pts">>, <<"shm">>,
      <<"/", "dev", "shm">>} \subseteq Path
  /\ {"proc", "sysfs", "tmpfs", "devpts", "bind"} \subseteq Name
  /\ {ProcDir, SysDir, DevDir, PtsDir, ShmDir} \subseteq Seq(Name)
<1>1. /\ "proc" \in Name /\ "/" \in Name /\ "sysfs" \in Name /\ "sys" \in Name
      /\ "tmpfs" \in Name /\ "dev" \in Name /\ "devpts" \in Name /\ "pts" \in Name
      /\ "shm" \in Name /\ "bind" \in Name /\ "rootfs" \in Name
  BY DEF Name
<1>2. \A x, y, z \in Name :
        <<x>> \in Seq(Name) /\ <<x, y>> \in Seq(Name) /\ <<x, y, z>> \in Seq(Name)
  OBVIOUS
<1>3. \A p \in Seq(Name) : At(p) \in Seq(Name)
  BY <1>1, <1>2, ConcatProperties DEF At, RootDir
<1>4. {<<"proc">>, <<"/", "proc">>, <<"sysfs">>, <<"/", "sys">>, <<"tmpfs">>,
       <<"/", "dev">>, <<"devpts">>, <<"/", "dev", "pts">>, <<"shm">>,
       <<"/", "dev", "shm">>} \subseteq Path
  BY <1>1, <1>2 DEF Path
<1>5. /\ ProcDir \in Seq(Name) /\ SysDir \in Seq(Name) /\ DevDir \in Seq(Name)
      /\ PtsDir \in Seq(Name) /\ ShmDir \in Seq(Name)
  <2>1. /\ <<"proc">> \in Seq(Name) /\ <<"sys">> \in Seq(Name) /\ <<"dev">> \in Seq(Name)
        /\ <<"dev", "pts">> \in Seq(Name) /\ <<"dev", "shm">> \in Seq(Name)
    BY <1>1, <1>2
  <2> QED
    BY <1>3, <2>1 DEF ProcDir, SysDir, DevDir, PtsDir, ShmDir
<1> QED
  BY <1>1, <1>4, <1>5

\* The flags of the default file systems.
LEMMA FixedFlags ==
  {{}, {"NOSUID", "NOEXEC", "NODEV"}, {"NOSUID", "STRICTATIME", "NODEV"},
   {"NOSUID", "NOEXEC"}, {"BIND", "REC", "NOSUID", "NOEXEC", "NODEV"}} \subseteq SUBSET Flag
BY DEF Flag

\* The default file systems.
LEMMA ConfigureDefaultMount ==
  ASSUME MountInv, StageInv,
         ConfigureProc \/ ConfigureSys \/ ConfigureDev \/ ConfigurePts \/ ConfigureShm
  PROVE  MountInv'
<1>1. /\ step = "idle" /\ stage \in DefaultStages /\ stage \notin {"done", "failed"}
      /\ UNCHANGED tvars
  BY DEF ConfigureProc, ConfigureSys, ConfigureDev, ConfigurePts, ConfigureShm,
         ConfigureBelowDev, Idle, DefaultStages
<1>2. \/ Fail /\ UNCHANGED jvars
      \/ \E s \in {"devices"} \cup DefaultStages : Skip(s)
      \/ \E source, destination \in Path, type \in Name, flags \in SUBSET Flag :
           BeginDefault(source, destination, type, flags)
  <2>1. CASE ConfigureProc
    BY <2>1, FixedPaths, FixedFlags DEF ConfigureProc, DefaultStages
  <2>2. CASE ConfigureSys
    BY <2>2, FixedPaths, FixedFlags DEF ConfigureSys, DefaultStages
  <2>3. CASE ConfigureDev
    BY <2>3, FixedPaths, FixedFlags DEF ConfigureDev, BeginDev, DefaultStages
  <2>4. CASE ConfigurePts
    BY <2>4, FixedPaths, FixedFlags DEF ConfigurePts, ConfigureBelowDev, DefaultStages
  <2>5. CASE ConfigureShm
    BY <2>5, FixedPaths, FixedFlags DEF ConfigureShm, ConfigureBelowDev, DefaultStages
  <2> QED
    BY <2>1, <2>2, <2>3, <2>4, <2>5
<1>3. CASE Fail /\ UNCHANGED jvars
  BY <1>1, <1>3, TableKept, FailMount DEF jvars
<1>4. CASE \E s \in {"devices"} \cup DefaultStages : Skip(s)
  <2>1. /\ stage' \in MounterStages /\ n' = n /\ step' = step
        /\ UNCHANGED <<job, by, src, dst, mounts, fss>>
    BY <1>1, <1>4 DEF Skip, jvars, tvars, MounterStages
  <2>2. n' \in Nat
    BY <2>1 DEF MountInv, MounterTypeOK
  <2> QED
    BY <1>1, <2>1, <2>2, IdleMount
<1>5. CASE \E source, destination \in Path, type \in Name, flags \in SUBSET Flag :
             BeginDefault(source, destination, type, flags)
  BY <1>1, <1>5, BeginDefaultMount
<1> QED
  BY <1>2, <1>3, <1>4, <1>5

\* The path of a default device.
LEMMA DevicePaths ==
  ASSUME NEW d \in 1 .. Len(Devices)
  PROVE  <<"/", "dev", Devices[d]>> \in Path /\ At(<<"dev", Devices[d]>>) \in Seq(Name)
<1>1. Devices[d] \in Name
  BY DevicesAssumption
<1>2. "/" \in Name /\ "dev" \in Name /\ "rootfs" \in Name
  BY DEF Name
<1>3. \A x, y, z \in Name :
        <<x>> \in Seq(Name) /\ <<x, y>> \in Seq(Name) /\ <<x, y, z>> \in Seq(Name)
  OBVIOUS
<1>4. \A p \in Seq(Name) : At(p) \in Seq(Name)
  BY <1>2, <1>3, ConcatProperties DEF At, RootDir
<1> QED
  BY <1>1, <1>2, <1>3, <1>4 DEF Path

\* The default devices: a node may be made, and a job begins.
LEMMA ConfigureDeviceMount ==
  ASSUME MountInv, StageInv, ConfigureDevice \/ ConfigureMissingDevice
  PROVE  MountInv'
<1>1. /\ step = "idle" /\ stage = "devices" /\ n \in 1 .. Len(Devices) /\ n \in Nat
  <2>1. step = "idle" /\ stage = "devices" /\ n <= Len(Devices)
    BY DEF ConfigureDevice, ConfigureMissingDevice, NextDevice, Idle
  <2>2. n \in Nat \ {0} /\ Len(Devices) \in Nat
    BY DevicesAssumption DEF StageInv
  <2> QED
    BY <2>1, <2>2
<1>2. /\ TableTypeOK' /\ RootsThere' /\ UNCHANGED mounts
  <2>1. CASE UNCHANGED tvars
    BY <1>1, <2>1, TableKept
  <2>2. CASE Create(DevicePath, "file") /\ UNCHANGED mounts
    <3>1. PICK p \in Seq(Name), kind \in FileKind : p = DevicePath /\ kind = "file"
      BY <1>1, DevicePaths DEF DevicePath, FileKind
    <3>2. Create(p, kind) /\ UNCHANGED mounts
      BY <2>2, <3>1
    <3>3. TableTypeOK /\ Rooted /\ RootsThere
      BY <1>1 DEF MountInv, SetupInv
    <3> QED
      BY <3>2, <3>3, CreateAdds
  <2> QED
    BY <2>1, <2>2 DEF ConfigureDevice, ConfigureMissingDevice, MakeNode
<1>3. CASE Fail /\ UNCHANGED jvars
  BY <1>1, <1>2, <1>3, FailMount DEF jvars
<1>4. CASE BeginDevice
  <2>1. PICK g \in Garbage :
          Begin([source |-> {<<"/", "dev", Devices[n]>>},
                 destination |-> {<<"/", "dev", Devices[n]>>}, type |-> "bind",
                 flags |-> {"BIND", "REC", "NOSUID", "NOEXEC", "NODEV"},
                 propagation |-> g.propagation, data |-> <<>>],
                [kind |-> "device", k |-> n])
    BY <1>4 DEF BeginDevice
  <2>2. PICK path \in Path, type \in Name, flags \in SUBSET Flag :
          /\ path = <<"/", "dev", Devices[n]>> /\ type = "bind"
          /\ flags = {"BIND", "REC", "NOSUID", "NOEXEC", "NODEV"}
    BY <1>1, DevicePaths, FixedPaths, FixedFlags
  <2>3. PICK m \in MountT :
          m = [source |-> {path}, destination |-> {path}, type |-> type,
               flags |-> flags, propagation |-> g.propagation, data |-> <<>>]
    BY JobType
  <2>4. PICK who \in JobID : who = [kind |-> "device", k |-> n]
    <3>1. [kind |-> "device", k |-> n] \in JobID
      BY <1>1 DEF JobID
    <3> QED
      BY <3>1
  <2>5. Begin(m, who)
    BY <2>1, <2>2, <2>3, <2>4
  <2> QED
    BY <1>1, <1>2, <2>5, BeginMount
<1> QED
  BY <1>3, <1>4 DEF ConfigureDevice, ConfigureMissingDevice

\* The list of mounts.
LEMMA EntriesMount ==
  ASSUME MountInv, StageInv, ParserInv, StartEntry \/ EntriesDone
  PROVE  MountInv'
<1>1. /\ step = "idle" /\ stage = "entries" /\ UNCHANGED tvars
  BY DEF StartEntry, EntriesDone, Idle
<1>2. CASE StartEntry
  <2>1. n <= Len(list) /\ n \in Nat \ {0} /\ list \in Seq(MountT) /\ Len(list) \in Nat
    BY <1>2 DEF StartEntry, StageInv, ParserInv, ParserTypeOK
  <2>2. PICK m \in MountT, who \in JobID : m = list[n] /\ who = [kind |-> "entry", k |-> n]
    <3>1. list[n] \in MountT
      BY <2>1
    <3>2. [kind |-> "entry", k |-> n] \in JobID
      BY <2>1 DEF JobID
    <3> QED
      BY <3>1, <3>2
  <2>3. Begin(m, who)
    BY <1>2, <2>2 DEF StartEntry
  <2> QED
    BY <1>1, <2>3, TableKept, BeginMount
<1>3. CASE EntriesDone
  <2>1. /\ stage' \in MounterStages /\ n' \in Nat /\ step' = step
        /\ UNCHANGED <<job, by, src, dst, mounts, fss>>
    BY <1>1, <1>3 DEF EntriesDone, jvars, tvars, MounterStages, DefaultStages
  <2> QED
    BY <1>1, <2>1, IdleMount
<1> QED
  BY <1>2, <1>3

\* The host's sysfs is bound instead.
LEMMA SysfsNotPermittedMount ==
  ASSUME MountInv, StageInv, SysfsNotPermitted
  PROVE  MountInv'
<1>1. /\ stage = "sys" /\ step # "idle" /\ ~IsBind /\ UNCHANGED tvars
      /\ step \notin {"reopen", "remount"}
  BY DEF SysfsNotPermitted, BindHostSys, StageInv
<1>2. PICK m : m = [job EXCEPT !.source = {<<"/", "sys">>}, !.type = "bind",
                        !.flags = {"BIND", "REC", "NOSUID", "NOEXEC", "NODEV"}]
  OBVIOUS
<1>3. m \in MountT /\ by \in JobID
  <2>1. job \in MountT /\ by \in JobID
    BY DEF MountInv, MounterTypeOK
  <2>2. {<<"/", "sys">>} \in Optional(Path)
    BY FixedPaths DEF Optional
  <2> QED
    BY <1>2, <2>1, <2>2, FixedPaths, FixedFlags DEF MountT
<1>4. Begin(m, by)
  BY <1>2 DEF SysfsNotPermitted, BindHostSys
<1> QED
  BY <1>1, <1>3, <1>4, TableKept, BeginMount

\* The rootfs becomes the root.
LEMMA PivotRootMount ==
  ASSUME MountInv, StageInv, PivotRoot
  PROVE  MountInv'
<1>1. /\ stage = "pivot" /\ stage' = "done" /\ step = "idle"
      /\ mounts' = BelowRoot /\ UNCHANGED <<n, step, job, by, src, dst, fss>>
  BY DEF PivotRoot, jvars, StageInv, DefaultStages
<1>2. TableTypeOK /\ Rooted /\ MounterTypeOK
  BY <1>1 DEF MountInv, SetupInv
<1>3. /\ TableTypeOK' /\ Len(mounts') = Len(mounts)
      /\ \A i \in 1 .. Len(mounts) :
           mounts'[i].flags = mounts[i].flags /\ mounts'[i].asked = mounts[i].asked
  BY <1>1, <1>2, BelowRootType
<1>4. MounterTypeOK'
  BY <1>1, <1>2, <1>3 DEF MounterTypeOK, HandleType, MounterStages, MounterEnds
<1>5. AttributesAsAsked'
  BY <1>1, <1>3 DEF MountInv, SetupInv, AttributesAsAsked
<1>6. JobInv'
  BY <1>1 DEF MountInv, SetupInv, JobInv, IdleInv, SourceInv, DestinationInv, NewestInv
<1> QED
  BY <1>1, <1>3, <1>4, <1>5, <1>6 DEF MountInv, SetupInv

-----------------------------------------------------------------------------
(* The invariant.                                                          *)

\* A host's mounts and files are a table.
LEMMA MountInitially == Init => MountInv
<1> SUFFICES ASSUME Init PROVE MountInv
  OBVIOUS
<1>1. PICK h \in Hosts :
        /\ mounts = [i \in 1 .. Len(h.mounts) |->
                       [at |-> h.mounts[i].at, fs |-> h.mounts[i].fs, sub |-> <<>>,
                        flags |-> h.mounts[i].flags, by |-> Nobody,
                        asked |-> h.mounts[i].flags]]
        /\ fss = h.fss
  BY DEF Init, MounterInit
<1>2. /\ stage = "parse" /\ n = 1 /\ step = "idle"
      /\ job = NoJob /\ by = Nobody /\ src = NoHandle /\ dst = NoHandle
  BY DEF Init, MounterInit
<1>3. /\ h.mounts \in Seq([at : Seq(Name), fs : Nat, flags : SUBSET Flag])
      /\ \A i \in 1 .. Len(h.mounts) : h.mounts[i].fs \in 1 .. Len(h.fss)
      /\ h.mounts # <<>> /\ h.mounts[1].at = <<>>
      /\ h.fss \in Seq({h.fss[f] : f \in 1 .. Len(h.fss)})
      /\ \A f \in 1 .. Len(h.fss) : IsFileSystem(h.fss[f])
  BY HostsAssumption DEF IsHost
<1>4. PICK m \in Nat : m = Len(h.mounts) /\ m # 0
  BY <1>3
<1>5. ASSUME NEW i \in 1 .. m
      PROVE  /\ mounts[i] \in MountRecord /\ mounts[i].flags = mounts[i].asked
             /\ mounts[i].fs = h.mounts[i].fs /\ mounts[i].at = h.mounts[i].at
             /\ mounts[i].sub = <<>>
  <2>1. mounts[i] = [at |-> h.mounts[i].at, fs |-> h.mounts[i].fs, sub |-> <<>>,
                     flags |-> h.mounts[i].flags, by |-> Nobody,
                     asked |-> h.mounts[i].flags]
    BY <1>1, <1>4
  <2>2. h.mounts[i] \in [at : Seq(Name), fs : Nat, flags : SUBSET Flag]
    <3>1. h.mounts \in Seq([at : Seq(Name), fs : Nat, flags : SUBSET Flag])
      BY <1>3
    <3>2. i \in 1 .. Len(h.mounts)
      BY <1>4
    <3> HIDE <1>3
    <3> QED
      BY <3>1, <3>2, ElementOfSeq
  <2>3. Nobody \in JobID
    BY DEF Nobody, JobID
  <2>4. <<>> \in Seq(Name)
    OBVIOUS
  <2> QED
    BY <2>1, <2>2, <2>3, <2>4 DEF MountRecord
<1>6. mounts \in Seq(MountRecord) /\ Len(mounts) = m
  <2>1. mounts \in [1 .. m -> MountRecord]
    BY <1>1, <1>4, <1>5
  <2> QED
    BY <2>1, SeqDef, LenProperties
<1>7. TableTypeOK
  BY <1>1, <1>3, <1>4, <1>5, <1>6 DEF TableTypeOK
<1>8. Rooted
  <2>1. 1 \in 1 .. m
    BY <1>4
  <2> QED
    BY <1>3, <1>4, <1>5, <1>6, <2>1 DEF Rooted
<1>9. RootsThere
  <2> SUFFICES ASSUME NEW i \in 1 .. Len(mounts)
               PROVE  mounts[i].sub \in DOMAIN fss[mounts[i].fs].files
    BY DEF RootsThere
  <2>1. mounts[i].fs \in 1 .. Len(fss) /\ mounts[i].sub = <<>>
    BY <1>5, <1>6, <1>7 DEF TableTypeOK
  <2> QED
    BY <1>7, <2>1, FileSystemType
<1>10. MounterTypeOK
  <2>1. HandleType(NoHandle)
    BY <1>6 DEF HandleType, NoHandle
  <2> QED
    BY <1>2, <2>1, NoJobType DEF MounterTypeOK, MounterStages, Steps
<1>11. AttributesAsAsked
  BY <1>5, <1>6 DEF AttributesAsAsked
<1>12. JobInv
  BY <1>2 DEF JobInv, IdleInv, SourceInv, DestinationInv, NewestInv
<1> QED
  BY <1>7, <1>8, <1>9, <1>10, <1>11, <1>12 DEF MountInv, SetupInv

\* No step breaks the invariant.
LEMMA MountStep == MountInv /\ StageInv /\ ParserInv /\ [Next]_vars => MountInv'
<1> SUFFICES ASSUME MountInv, StageInv, ParserInv, [Next]_vars PROVE MountInv'
  OBVIOUS
<1>1. CASE UNCHANGED mvars
  <2>1. UNCHANGED <<stage, n, step, job, by, src, dst, mounts, fss>>
    BY <1>1 DEF mvars, jvars, tvars
  <2>2. TableTypeOK' /\ (stage' # "done" => Rooted' /\ RootsThere') /\ AttributesAsAsked'
        /\ HandleType(src)' /\ HandleType(dst)'
    BY <2>1 DEF MountInv, SetupInv, TableTypeOK, MounterTypeOK, Rooted, RootsThere,
                AttributesAsAsked, HandleType
  <2>3. MounterTypeOK'
    BY <2>1, <2>2 DEF MountInv, MounterTypeOK
  <2>4. (stage' # "failed" => JobInv')
    BY <2>1 DEF MountInv, SetupInv, JobInv, IdleInv, SourceInv, DestinationInv, NewestInv,
                IsBind, Stands, IsDestination, Wanted, Made, OnMountRoot, Top, Covering, Inner
  <2> QED
    BY <2>2, <2>3, <2>4 DEF MountInv, SetupInv
<1>2. CASE Clone
  <2>1. /\ stage = "parse" /\ step = "idle" /\ stage' \in MounterStages
        /\ UNCHANGED <<n, step, job, by, src, dst, mounts, fss>>
    BY <1>2 DEF Clone, jvars, tvars, MounterStages, StageInv, DefaultStages
  <2>2. n' \in Nat
    BY <2>1 DEF MountInv, MounterTypeOK
  <2> QED
    BY <2>1, <2>2, IdleMount
<1>3. CASE DevicesDone
  <2>1. /\ stage = "devices" /\ step = "idle" /\ stage' \in MounterStages
        /\ UNCHANGED <<n, step, job, by, src, dst, mounts, fss>>
    BY <1>3 DEF DevicesDone, Idle, jvars, tvars, MounterStages
  <2>2. n' \in Nat
    BY <2>1 DEF MountInv, MounterTypeOK
  <2> QED
    BY <2>1, <2>2, IdleMount
<1>4. CASE Throws
  BY <1>4, TableKept, FailMount DEF Throws, jvars, MounterEnds
<1>5. CASE ExecuteProcess \/ ProcessThrows
  BY <1>1, <1>5 DEF ExecuteProcess, ProcessThrows, ChangeDirectory, SetGid, SetGroups,
                    SetUid, Execvpe, Succeeds
<1> QED
  BY <1>1, <1>2, <1>3, <1>4, <1>5, EntriesMount, ConfigureDefaultMount,
     ConfigureDeviceMount, DoMountMount, PivotRootMount, SysfsNotPermittedMount
     DEF Next, MounterNext, MounterSteps, ConfigureMounts, vars

\* The invariants of the parser, the stages and the mounts hold together.
THEOREM MountInvariant == Spec => [](ParserInv /\ StageInv /\ MountInv)
BY SetupParserInvariant, StageInitially, StageStep, MountInitially, MountStep, PTL DEF Spec

\* Every component of the setup keeps its type.
THEOREM SetupTypeCorrect == Spec => []TypeOK
<1>1. ParserInv /\ MountInv /\ UserInv => TypeOK
  BY DEF ParserInv, MountInv, UserInv, TypeOK
<1>2. ParserInv => ParserTypeOK
  BY DEF ParserInv
<1> QED
  BY <1>1, <1>2, MountInvariant, UserInitially, UserStep, PTL DEF Spec

\* Every mount has the attributes it was asked for, save the one in progress.
THEOREM AttributesCorrect == Spec => []AttributesAsAsked
<1>1. MountInv => AttributesAsAsked
  BY DEF MountInv, SetupInv
<1> QED
  BY <1>1, MountInvariant, PTL

-----------------------------------------------------------------------------
(* Whose mounts a step changes.                                            *)

\* What a step may do to the mounts before pivot_root.
OwnMount ==
  stage' # "done" =>
    /\ Len(mounts) <= Len(mounts')
    /\ \A i \in 1 .. Len(mounts) :
         mounts'[i] # mounts[i] =>
           \/ i = Len(mounts) /\ mounts[i].by = by
           \/ "REMOUNT" \in job.flags /\ ~IsBind

\* Of the steps of a job only the second mount of a bind and a remount change a
\* mount that is there.
LEMMA DoMountOwn == MountInv /\ StageInv /\ DoMount => OwnMount
<1> SUFFICES ASSUME MountInv, StageInv, DoMount PROVE OwnMount
  OBVIOUS
<1>1. stage # "failed" /\ step # "idle"
  BY DEF DoMount, OpenSource, OpenDestination, MountBind, ReopenDestination,
         RemountBind, MountOther, Propagate
<1>2. /\ mounts \in Seq(MountRecord) /\ Len(mounts) \in Nat /\ JobInv /\ MounterTypeOK
      /\ TableTypeOK /\ Rooted /\ RootsThere
  BY <1>1, AtWork DEF Rooted
<1>3. ASSUME UNCHANGED mounts
      PROVE  OwnMount
  BY <1>2, <1>3 DEF OwnMount
<1>4. ASSUME NEW m, mounts' = Append(mounts, m)
      PROVE  OwnMount
  <2>1. Len(mounts') = Len(mounts) + 1
    BY <1>2, <1>4
  <2>2. \A i \in 1 .. Len(mounts) : mounts'[i] = mounts[i]
    BY <1>2, <1>4
  <2> QED
    BY <1>2, <2>1, <2>2 DEF OwnMount
<1>5. CASE OpenSource \/ OpenDestination \/ ReopenDestination \/ Propagate
  BY <1>3, <1>5 DEF OpenSource, OpenDestination, ReopenDestination, Propagate,
                    EnsureDestination, tvars
<1>6. CASE MountBind
  BY <1>3, <1>4, <1>6 DEF MountBind, BindMount, tvars
<1>7. CASE RemountBind
  <2>1. CASE UNCHANGED tvars
    BY <1>3, <2>1 DEF tvars
  <2>2. CASE /\ OnMountRoot(dst)
             /\ Remount(dst, Attributes(job.flags), mounts[dst.mount].asked)
    <3>1. dst.mount = Len(mounts) /\ mounts[Len(mounts)].by = by
      BY <1>2, <1>7, <2>2 DEF RemountBind, JobInv, NewestInv
    <3>2. /\ DOMAIN mounts = 1 .. Len(mounts) /\ DOMAIN mounts' = 1 .. Len(mounts)
          /\ \A i \in 1 .. Len(mounts) : i # dst.mount => mounts'[i] = mounts[i]
      BY <1>2, <2>2, LenProperties DEF Remount
    <3>3. Len(mounts') = Len(mounts)
      BY <1>2, <1>7, <3>2, RemountBindMount, LenProperties DEF MountInv, TableTypeOK
    <3>4. \A i \in 1 .. Len(mounts) :
            mounts'[i] # mounts[i] => i = Len(mounts) /\ mounts[i].by = by
      BY <3>1, <3>2
    <3> QED
      BY <1>2, <3>3, <3>4 DEF OwnMount
  <2> QED
    BY <1>7, <2>1, <2>2 DEF RemountBind
<1>8. CASE MountOther
  <2>1. CASE UNCHANGED tvars
    BY <1>3, <2>1 DEF tvars
  <2>2. CASE \E type, target, who, asked : NewMount(type, target, who, asked)
    BY <1>4, <2>2 DEF NewMount
  <2>3. CASE /\ "REMOUNT" \in job.flags
             /\ \E target, asked : Remount(target, asked, asked)
    <3>1. ~IsBind
      BY <1>8 DEF MountOther
    <3>2. DOMAIN mounts' = 1 .. Len(mounts)
      BY <1>2, <2>3, LenProperties DEF Remount
    <3>3. Len(mounts') = Len(mounts)
      BY <1>2, <1>8, <3>2, MountOtherMount, LenProperties DEF MountInv, TableTypeOK
    <3> QED
      BY <1>2, <2>3, <3>1, <3>3 DEF OwnMount
  <2> QED
    BY <1>8, <2>1, <2>2, <2>3 DEF MountOther
<1> QED
  BY <1>5, <1>6, <1>7, <1>8 DEF DoMount

\* No other step changes a mount before pivot_root.
LEMMA OwnMountStep == MountInv /\ StageInv /\ [Next]_vars => OwnMount
<1> SUFFICES ASSUME MountInv, StageInv, [Next]_vars PROVE OwnMount
  OBVIOUS
<1>1. CASE DoMount
  BY <1>1, DoMountOwn
<1>2. CASE PivotRoot
  BY <1>2 DEF PivotRoot, OwnMount
<1>3. CASE UNCHANGED mounts
  <2>1. Len(mounts) \in Nat
    BY DEF MountInv, TableTypeOK
  <2> QED
    BY <1>3, <2>1 DEF OwnMount
<1> QED
  BY <1>1, <1>2, <1>3
     DEF Next, vars, MounterNext, MounterSteps, Clone, ConfigureMounts, StartEntry,
         EntriesDone, ConfigureProc, ConfigureSys, ConfigureDev, ConfigurePts, ConfigureShm,
         ConfigureBelowDev, ConfigureDevice, ConfigureMissingDevice, DevicesDone, MakeNode,
         SysfsNotPermitted, BindHostSys, Throws, ExecuteProcess, ChangeDirectory,
         SetGid, SetGroups, SetUid, Execvpe, ProcessThrows, Succeeds, mvars, tvars

\* A step of a job changes its own mount, the newest one, or is a plain remount.
THEOREM OwnMountChanged == Spec => OnlyOwnMountChanged
<1>1. MountInv /\ StageInv /\ [Next]_vars =>
        [stage' # "done" =>
           /\ Len(mounts) <= Len(mounts')
           /\ \A i \in 1 .. Len(mounts) :
                mounts'[i] # mounts[i] =>
                  \/ i = Len(mounts) /\ mounts[i].by = by
                  \/ "REMOUNT" \in job.flags /\ ~IsBind]_mounts
  BY OwnMountStep DEF OwnMount
<1> QED
  BY <1>1, MountInvariant, PTL DEF Spec, OnlyOwnMountChanged
==============================================================================
