------------------------ MODULE ContainerSetup_proofs ------------------------
(***************************************************************************)
(* What is proved of the parser and of the setup of a container, for every *)
(* file, any set of files and hosts, any list of devices and whatever      *)
(* uninitialised memory holds: what the parser makes of the options, with  *)
(* which credentials the program runs, and where the mounter may be.       *)
(***************************************************************************)
EXTENDS ContainerSetupInv, TLAPS

-----------------------------------------------------------------------------
(* Options, word by word.                                                  *)

\* The table of words that set flags holds sets of flags.
LEMMA FlagsMapType == \A o \in DOMAIN FlagsMap : FlagsMap[o] \subseteq Flag
  BY DEF FlagsMap, Flag

\* What a word sets is a set of flags.
LEMMA SetsType == \A o : Sets(o) \subseteq Flag
  BY FlagsMapType DEF Sets

\* No word both sets and clears.
LEMMA SetsOrClears == \A o : Sets(o) = {} \/ Clears(o) = {}
  BY DEF Sets, Clears

-----------------------------------------------------------------------------
(* The parser's inductive invariant.                                       *)

\* After k words the last one that speaks of the flag has set it.
SoFar(opts, k, f) ==
  \E i \in 1 .. k :
    /\ f \in Sets(opts[i])
    /\ \A j \in (i + 1) .. k : f \notin Clears(opts[j])

AccType == [flags : SUBSET Flag, propagation : SUBSET PropagationFlag, data : Seq(STRING)]

\* What is made of the options so far is what the first `parsed` words say.
CurrentOK ==
  /\ acc \in AccType
  /\ Len(list) < Len(doc.mounts) =>
       \A opts \in Current.options :
         /\ parsed <= Len(opts)
         /\ \A f \in Flag : f \in acc.flags <=> SoFar(opts, parsed, f)

ParserInv == ParserTypeOK /\ CurrentOK /\ LastOptionDecides

\* The file and the entry the parser has come to are of their types.
LEMMA CurrentType ==
  ASSUME ParserTypeOK
  PROVE  /\ doc \in Document /\ doc.mounts \in Seq(Entry) /\ Len(doc.mounts) \in Nat
         /\ Len(list) \in Nat
         /\ Len(list) < Len(doc.mounts) => Current \in Entry
<1>1. doc \in Document
  BY DocumentsAssumption DEF ParserTypeOK
<1>2. doc.mounts \in Seq(Entry) /\ list \in Seq(MountT)
  BY <1>1 DEF Document, ParserTypeOK
<1>3. Len(list) < Len(doc.mounts) => Current \in Entry
  BY <1>2 DEF Current
<1> QED
  BY <1>1, <1>2, <1>3

\* An entry has at most one list of options.
LEMMA OneOptionList ==
  ASSUME NEW e \in Entry
  PROVE  /\ \A opts \in e.options : opts \in Seq(STRING)
         /\ \A x, y \in e.options : x = y
  BY DEF Entry, Optional

\* One more word: what it sets is set, what it clears is not.
LEMMA OneMoreWord ==
  ASSUME NEW opts \in Seq(STRING), NEW k \in Nat, k < Len(opts), NEW f \in Flag
  PROVE  SoFar(opts, k + 1, f)
           <=> (SoFar(opts, k, f) \/ f \in Sets(opts[k + 1])) /\ f \notin Clears(opts[k + 1])
<1>1. ASSUME SoFar(opts, k + 1, f)
      PROVE  (SoFar(opts, k, f) \/ f \in Sets(opts[k + 1])) /\ f \notin Clears(opts[k + 1])
  <2>1. PICK i \in 1 .. k + 1 :
          /\ f \in Sets(opts[i])
          /\ \A j \in (i + 1) .. k + 1 : f \notin Clears(opts[j])
    BY <1>1 DEF SoFar
  <2>2. CASE i = k + 1
    BY <2>1, <2>2, SetsOrClears
  <2>3. CASE i # k + 1
    <3>1. i \in 1 .. k /\ k + 1 \in (i + 1) .. k + 1 /\ (i + 1) .. k \subseteq (i + 1) .. k + 1
      BY <2>3
    <3>2. SoFar(opts, k, f)
      BY <2>1, <3>1 DEF SoFar
    <3> QED
      BY <2>1, <3>1, <3>2
  <2> QED
    BY <2>2, <2>3
<1>2. ASSUME SoFar(opts, k, f), f \notin Clears(opts[k + 1])
      PROVE  SoFar(opts, k + 1, f)
  <2>1. PICK i \in 1 .. k :
          /\ f \in Sets(opts[i])
          /\ \A j \in (i + 1) .. k : f \notin Clears(opts[j])
    BY <1>2 DEF SoFar
  <2>2. i \in 1 .. k + 1 /\ \A j \in (i + 1) .. k + 1 : j \in (i + 1) .. k \/ j = k + 1
    OBVIOUS
  <2> QED
    BY <1>2, <2>1, <2>2 DEF SoFar
<1>3. ASSUME f \in Sets(opts[k + 1])
      PROVE  SoFar(opts, k + 1, f)
  <2>1. k + 1 \in 1 .. k + 1 /\ (k + 1 + 1) .. k + 1 = {}
    OBVIOUS
  <2> QED
    BY <1>3, <2>1 DEF SoFar
<1> QED
  BY <1>1, <1>2, <1>3

\* The loop's body gives a result of the type of its argument.
LEMMA ParseOptionType ==
  ASSUME NEW a \in AccType, NEW o \in STRING
  PROVE  /\ ParseOption(a, o) \in AccType
         /\ ParseOption(a, o).flags = (a.flags \cup Sets(o)) \ Clears(o)
<1>1. (a.flags \cup Sets(o)) \ Clears(o) \subseteq Flag
  BY SetsType DEF AccType
<1>2. Append(a.data, o) \in Seq(STRING)
  BY DEF AccType
<1>3. \A S : a.propagation \cap S \subseteq PropagationFlag
  BY DEF AccType
<1> QED
  BY <1>1, <1>2, <1>3 DEF ParseOption, AccType

\* A parsed entry is a mount_t.
LEMMA MountOfType ==
  ASSUME NEW e \in Entry, NEW f \in SUBSET Flag, NEW p \in SUBSET PropagationFlag,
         NEW d \in Seq(STRING)
  PROVE  MountOf(e, f, p, d) \in MountT
  BY DEF MountOf, MountT, Entry

-----------------------------------------------------------------------------
(* The steps.                                                              *)

\* At the start nothing is parsed.
LEMMA ParserInitially == PInit => ParserInv
<1> SUFFICES ASSUME PInit PROVE ParserInv
  OBVIOUS
<1>1. doc \in Document /\ doc.mounts \in Seq(Entry)
  BY DocumentsAssumption DEF PInit, Document
<1>2. ParserTypeOK
  BY <1>1 DEF PInit, ParserTypeOK, NoOptions
<1>3. CurrentOK
  <2>1. \A opts \in Seq(STRING) : \A f : ~SoFar(opts, 0, f)
    BY DEF SoFar
  <2>2. acc \in AccType /\ acc.flags = {} /\ parsed = 0
    BY DEF PInit, NoOptions, AccType
  <2>3. Len(list) < Len(doc.mounts) => \A opts \in Current.options : opts \in Seq(STRING)
    BY <1>2, CurrentType, OneOptionList
  <2> QED
    BY <2>1, <2>2, <2>3 DEF CurrentOK
<1>4. LastOptionDecides
  BY DEF PInit, LastOptionDecides
<1> QED
  BY <1>2, <1>3, <1>4 DEF ParserInv

\* A step that leaves the file, the options and the list alone.
LEMMA ParserMoves ==
  ASSUME ParserInv, UNCHANGED <<doc, parsed, acc, list>>,
         parser' \in {"version", "sections", "mounts", "parsed", "failed"}
  PROVE  ParserInv'
<1>1. ParserTypeOK'
  BY DEF ParserInv, ParserTypeOK
<1>2. CurrentOK'
  BY DEF ParserInv, CurrentOK, Current
<1>3. LastOptionDecides'
  BY DEF ParserInv, LastOptionDecides
<1> QED
  BY <1>1, <1>2, <1>3 DEF ParserInv

\* One option.
LEMMA ParseMountOptionStep == ParserInv /\ ParseMountOption => ParserInv'
<1> SUFFICES ASSUME ParserInv, ParseMountOption PROVE ParserInv'
  OBVIOUS
<1> USE DEF ParserInv
<1>1. /\ doc' = doc /\ parser' = parser /\ list' = list /\ parsed' = parsed + 1
      /\ parsed \in Nat /\ Len(list) < Len(doc.mounts)
  BY DEF ParseMountOption, ParserTypeOK, MoreEntries
<1>2. PICK opts \in Current.options :
        parsed < Len(opts) /\ acc' = ParseOption(acc, opts[parsed + 1])
  BY DEF ParseMountOption
<1>3. opts \in Seq(STRING) /\ \A x \in Current.options : x = opts
  BY <1>1, CurrentType, OneOptionList
<1>4. opts[parsed + 1] \in STRING
  BY <1>1, <1>2, <1>3
<1>5. acc \in AccType
      /\ \A f \in Flag : f \in acc.flags <=> SoFar(opts, parsed, f)
  BY <1>1, <1>2 DEF CurrentOK
<1>6. acc' \in AccType
      /\ acc'.flags = (acc.flags \cup Sets(opts[parsed + 1])) \ Clears(opts[parsed + 1])
  BY <1>2, <1>4, <1>5, ParseOptionType
<1>7. \A f \in Flag : f \in acc'.flags <=> SoFar(opts, parsed + 1, f)
  BY <1>1, <1>2, <1>3, <1>5, <1>6, OneMoreWord
<1>8. CurrentOK'
  <2>1. Current' = Current
    BY <1>1 DEF Current
  <2>2. Len(opts) \in Nat
    BY <1>3
  <2>3. parsed + 1 <= Len(opts)
    BY <1>1, <1>2, <2>2
  <2> QED
    BY <1>1, <1>3, <1>6, <1>7, <2>1, <2>3 DEF CurrentOK
<1>9. ParserTypeOK'
  BY <1>1, <1>6 DEF ParserTypeOK, AccType
<1>10. LastOptionDecides'
  BY <1>1 DEF LastOptionDecides
<1> QED
  BY <1>8, <1>9, <1>10

\* A mount is added to the list.
LEMMA PushMountStep == ParserInv /\ PushMount => ParserInv'
<1> SUFFICES ASSUME ParserInv, PushMount PROVE ParserInv'
  OBVIOUS
<1> USE DEF ParserInv
<1>1. /\ doc' = doc /\ parser' = parser /\ parsed' = 0 /\ acc' = NoOptions
      /\ Len(list) < Len(doc.mounts) /\ list \in Seq(MountT) /\ Len(list) \in Nat
      /\ Current \in Entry /\ Len(doc.mounts) \in Nat /\ doc.mounts \in Seq(Entry)
  BY CurrentType DEF PushMount, MoreEntries, ParserTypeOK
<1>2. Current = doc.mounts[Len(list) + 1]
  BY DEF Current
<1>3. PICK m \in MountT :
        /\ list' = Append(list, m)
        /\ \A opts \in Current.options : m.flags = {f \in Flag : LastWord(opts, f)}
  <2>1. CASE /\ \E opts \in Current.options : parsed = Len(opts)
             /\ list' = Append(list, MountOf(Current, acc.flags, acc.propagation, acc.data))
    <3>1. PICK opts \in Current.options : parsed = Len(opts)
      BY <2>1
    <3>2. acc \in AccType /\ acc.flags \subseteq Flag
          /\ \A f \in Flag : f \in acc.flags <=> SoFar(opts, parsed, f)
      BY <1>1, <3>1 DEF CurrentOK, AccType
    <3>3. acc.flags = {f \in Flag : LastWord(opts, f)}
      BY <3>1, <3>2 DEF SoFar, LastWord
    <3>4. \A x \in Current.options : x = opts
      BY <1>1, OneOptionList
    <3>5. MountOf(Current, acc.flags, acc.propagation, acc.data) \in MountT
      BY <1>1, <3>2, MountOfType DEF AccType
    <3>6. MountOf(Current, acc.flags, acc.propagation, acc.data).flags = acc.flags
      BY DEF MountOf
    <3> QED
      BY <2>1, <3>2, <3>3, <3>4, <3>5, <3>6
  <2>2. CASE /\ Current.options = {}
             /\ \E g \in Garbage :
                  list' = Append(list, MountOf(Current, g.flags, g.propagation, <<>>))
    <3>1. PICK g \in Garbage :
            list' = Append(list, MountOf(Current, g.flags, g.propagation, <<>>))
      BY <2>2
    <3>2. g.flags \in SUBSET Flag /\ g.propagation \in SUBSET PropagationFlag
      BY GarbageAssumption DEF Uninitialised
    <3>3. <<>> \in Seq(STRING)
      OBVIOUS
    <3>4. MountOf(Current, g.flags, g.propagation, <<>>) \in MountT
      BY <1>1, <3>2, <3>3, MountOfType
    <3> QED
      BY <2>2, <3>1, <3>4
  <2> QED
    BY <2>1, <2>2 DEF PushMount
<1>4. /\ list' \in Seq(MountT) /\ Len(list') = Len(list) + 1
      /\ \A k \in 1 .. Len(list) : list'[k] = list[k]
      /\ list'[Len(list) + 1] = m
  BY <1>1, <1>3
<1>5. ParserTypeOK'
  BY <1>1, <1>4 DEF ParserTypeOK, NoOptions
<1>6. CurrentOK'
  <2>1. \A opts \in Seq(STRING) : \A f : ~SoFar(opts, 0, f)
    BY DEF SoFar
  <2>2. acc' \in AccType /\ acc'.flags = {}
    BY <1>1 DEF NoOptions, AccType
  <2>3. ASSUME Len(list') < Len(doc'.mounts)
        PROVE  \A opts \in Current'.options : opts \in Seq(STRING)
    <3>1. Current' \in Entry
      BY <1>1, <1>4, <2>3 DEF Current
    <3> QED
      BY <3>1, OneOptionList
  <2> QED
    BY <1>1, <2>1, <2>2, <2>3 DEF CurrentOK
<1>7. \A k \in 1 .. Len(list') : k \in 1 .. Len(list) \/ k = Len(list) + 1
  BY <1>1, <1>4
<1>8. LastOptionDecides'
  BY <1>1, <1>2, <1>3, <1>4, <1>7 DEF LastOptionDecides
<1> QED
  BY <1>5, <1>6, <1>8

\* No step breaks the invariant.
LEMMA ParserStep == ParserInv /\ [PNext]_pvars => ParserInv'
<1> SUFFICES ASSUME ParserInv, [PNext]_pvars PROVE ParserInv'
  OBVIOUS
<1>1. CASE CheckVersion
  BY <1>1, ParserMoves DEF CheckVersion
<1>2. CASE ParseSections
  BY <1>2, ParserMoves DEF ParseSections
<1>3. CASE ParseMountOption
  BY <1>3, ParseMountOptionStep
<1>4. CASE PushMount
  BY <1>4, PushMountStep
<1>5. CASE MountsParsed
  BY <1>5, ParserMoves DEF MountsParsed
<1>6. CASE ParserThrows
  BY <1>6, ParserMoves DEF ParserThrows
<1>7. CASE UNCHANGED pvars
  <2>1. ParserTypeOK' /\ CurrentOK'
    BY <1>7 DEF ParserInv, ParserTypeOK, CurrentOK, Current, pvars
  <2>2. LastOptionDecides'
    BY <1>7 DEF ParserInv, LastOptionDecides, pvars
  <2> QED
    BY <2>1, <2>2 DEF ParserInv
<1> QED
  BY <1>1, <1>2, <1>3, <1>4, <1>5, <1>6, <1>7 DEF PNext

-----------------------------------------------------------------------------
\* The invariant of the parser alone, from which the theorems of the whole
\* setup follow.
THEOREM ParserInvariant == PSpec => []ParserInv
  BY ParserInitially, ParserStep, PTL DEF PSpec

-----------------------------------------------------------------------------
(* The parser's part of the setup.                                         *)

\* To the parser a step of the setup is one of its own or none.
LEMMA SetupParses == [Next]_vars => [PNext]_pvars
  BY DEF Next, vars, MounterNext, MounterSteps, Clone, ConfigureMounts, DoMount,
         StartEntry, EntriesDone, ConfigureProc, ConfigureSys, ConfigureDev,
         ConfigurePts, ConfigureShm, ConfigureBelowDev, ConfigureDevice,
         ConfigureMissingDevice, DevicesDone, OpenSource, OpenDestination, MountBind,
         ReopenDestination, RemountBind, MountOther, Propagate, PivotRoot,
         SysfsNotPermitted, BindHostSys, Throws, ExecuteProcess, ChangeDirectory,
         SetGid, SetGroups, SetUid, Execvpe, ProcessThrows, Succeeds

\* The parser's invariant holds throughout the setup.
THEOREM SetupParserInvariant == Spec => []ParserInv
<1>1. Init => PInit
  BY DEF Init, MounterInit
<1> QED
  BY <1>1, ParserInitially, SetupParses, ParserStep, PTL DEF Spec

\* Of options that contradict each other the last one decides, in every file.
THEOREM OptionsDecided == Spec => []LastOptionDecides
<1>1. ParserInv => LastOptionDecides
  BY DEF ParserInv
<1> QED
  BY <1>1, SetupParserInvariant, PTL

-----------------------------------------------------------------------------
(* The credentials.                                                        *)

UserInv ==
  /\ UserTypeOK
  /\ process \in {"chdir", "setgid"} => user = Root
  /\ process \in {"setgroups", "setuid", "execvpe", "running"} =>
       user.gid = doc.process.uid
  /\ process = "setgroups" => user.groups = Root.groups
  /\ process \in {"setuid", "execvpe", "running"} =>
       user.groups \in IF doc.process.additionalGids = {} THEN {Root.groups}
                       ELSE doc.process.additionalGids
  /\ process \in {"execvpe", "running"} => user.uid = doc.process.uid

\* The clone starts as root.
LEMMA UserInitially == Init => UserInv
  BY DEF Init, UserInv, UserTypeOK, Root, Credentials

\* Each of the calls adds its part.
LEMMA UserStep == ParserTypeOK /\ UserInv /\ [Next]_vars => UserInv'
<1> SUFFICES ASSUME ParserTypeOK, UserInv, [Next]_vars PROVE UserInv'
  OBVIOUS
<1>1. doc \in Document /\ doc' = doc
  BY CurrentType, SetupParses
     DEF PNext, pvars, CheckVersion, ParseSections, ParseMountOption, PushMount,
         MountsParsed, ParserThrows
<1>2. /\ doc.process.uid \in Nat
      /\ \A gids \in doc.process.additionalGids : gids \in SUBSET Nat
  BY <1>1 DEF Document, Process, Optional
<1>3. user \in Credentials
  BY DEF UserInv, UserTypeOK
<1>4. CASE UNCHANGED uvars
  BY <1>1, <1>4 DEF UserInv, UserTypeOK, uvars
<1>5. CASE ChangeDirectory
  BY <1>1, <1>5 DEF ChangeDirectory, Executing, Succeeds, UserInv, UserTypeOK
<1>6. CASE SetGid
  <2>1. user' \in Credentials /\ user'.gid = doc.process.uid /\ user'.groups = Root.groups
    BY <1>2, <1>3, <1>6 DEF SetGid, Executing, UserInv, Credentials
  <2> QED
    BY <1>1, <1>6, <2>1 DEF SetGid, Executing, Succeeds, UserInv, UserTypeOK
<1>7. CASE SetGroups
  <2>1. /\ user' \in Credentials /\ user'.gid = user.gid
        /\ user'.groups \in IF doc.process.additionalGids = {} THEN {Root.groups}
                            ELSE doc.process.additionalGids
    BY <1>2, <1>3, <1>7 DEF SetGroups, Executing, UserInv, Credentials
  <2> QED
    BY <1>1, <1>7, <2>1 DEF SetGroups, Executing, Succeeds, UserInv, UserTypeOK
<1>8. CASE SetUid
  <2>1. /\ user' \in Credentials /\ user'.gid = user.gid /\ user'.groups = user.groups
        /\ user'.uid = doc.process.uid
    BY <1>2, <1>3, <1>8 DEF SetUid, Executing, UserInv, Credentials
  <2> QED
    BY <1>1, <1>8, <2>1 DEF SetUid, Executing, Succeeds, UserInv, UserTypeOK
<1>9. CASE Execvpe
  BY <1>1, <1>9 DEF Execvpe, Executing, Succeeds, UserInv, UserTypeOK
<1>10. CASE ProcessThrows
  BY <1>1, <1>10 DEF ProcessThrows, UserInv, UserTypeOK
<1> QED
  BY <1>4, <1>5, <1>6, <1>7, <1>8, <1>9, <1>10 DEF Next, ExecuteProcess, vars

\* The container's program runs as the user and with the supplementary groups of
\* the configuration or not at all, and in root's group only as root.  That the
\* group has the user's number, and not the one configured, is in UserInv.
THEOREM CredentialsAreComplete == Spec => []CredentialsComplete
<1>1. ParserInv => ParserTypeOK
  BY DEF ParserInv
<1>2. UserInv => CredentialsComplete
  BY DEF UserInv, CredentialsComplete, Root
<1> QED
  BY <1>1, <1>2, SetupParserInvariant, UserInitially, UserStep, PTL DEF Spec

-----------------------------------------------------------------------------
(* Where the mounter may be.                                               *)

\* Nothing is mounted at the start.
LEMMA StageInitially == Init => StageInv
<1> SUFFICES ASSUME Init PROVE StageInv
  OBVIOUS
<1>1. stage = "parse" /\ step = "idle" /\ n = 1
  BY DEF Init, MounterInit
<1>2. stage \in MounterStages /\ step \in Steps /\ n \in Nat \ {0}
  BY <1>1 DEF MounterStages, Steps
<1> QED
  BY <1>1, <1>2 DEF StageInv

\* A job begins for a stage that has jobs.
LEMMA BeginStep ==
  ASSUME StageInv, UNCHANGED pvars, NEW m, NEW who, Begin(m, who),
         stage \in {"entries", "devices"} \cup DefaultStages,
         stage = "entries" => n \in 1 .. Len(list) /\ m = list[n]
  PROVE  StageInv'
<1>1. /\ list' = list /\ parser' = parser /\ job' = m /\ n' = n
      /\ \/ stage' = "failed" /\ step' = step
         \/ stage' = stage /\ step' = "source" /\ "BIND" \in m.flags
         \/ stage' = stage /\ step' = "destination"
  BY DEF Begin, Goto, Fail, pvars
<1>2. CASE stage' = "failed" /\ step' = step
  BY <1>1, <1>2 DEF StageInv, MounterStages, MounterEnds, DefaultStages
<1>3. CASE stage' = stage /\ step' = "source" /\ "BIND" \in m.flags
  BY <1>1, <1>3 DEF StageInv, Steps, IsBind, DefaultStages
<1>4. CASE stage' = stage /\ step' = "destination"
  BY <1>1, <1>4 DEF StageInv, Steps, IsBind, DefaultStages
<1> QED
  BY <1>1, <1>2, <1>3, <1>4

\* The clone gives up.
LEMMA FailStep ==
  ASSUME StageInv, stage # "parse", UNCHANGED <<parser, list>>, Fail
  PROVE  StageInv'
BY DEF Fail, StageInv, MounterStages, MounterEnds

\* A call has been made for a job, and another follows for the same job.
LEMMA GotoStep ==
  ASSUME StageInv, UNCHANGED <<parser, list, job>>, NEW s \in Steps, Goto(s),
         step # "idle", s # "idle",
         s \in {"source", "reopen", "remount"} => IsBind
  PROVE  StageInv'
<1>1. (IsBind' <=> IsBind) /\ stage' = stage /\ n' = n /\ step' = s
  BY DEF IsBind, Goto
<1> QED
  BY <1>1 DEF StageInv

\* The job is done.
LEMMA AfterJobStep ==
  ASSUME StageInv, UNCHANGED <<parser, list>>, AfterJob, step = "propagate",
         stage # "failed"
  PROVE  StageInv'
<1>1. /\ stage \in {"entries", "devices"} \cup DefaultStages
      /\ step' = "idle" /\ list' = list /\ parser' = parser /\ parser = "parsed"
  BY DEF StageInv, AfterJob, DefaultStages
<1>2. CASE stage = "entries"
  <2>1. stage' = "entries" /\ n' = n + 1
    BY <1>2 DEF AfterJob
  <2> QED
    BY <1>1, <2>1 DEF StageInv, MounterStages, Steps
<1>3. CASE stage \in {"devices"} \cup DefaultStages
  <2>1. stage' \in {"devices"} \cup DefaultStages /\ n' \in Nat \ {0}
    BY <1>3 DEF AfterJob, AfterDefault, StageInv, DefaultStages
  <2> QED
    BY <1>1, <2>1 DEF StageInv, MounterStages, Steps, DefaultStages
<1> QED
  BY <1>1, <1>2, <1>3

\* The default file systems and devices begin a job, are passed over, or end
\* the clone.
LEMMA DefaultStep ==
  ASSUME StageInv, UNCHANGED pvars, step = "idle",
         stage \in {"devices"} \cup DefaultStages,
         \/ \E m, who : Begin(m, who)
         \/ \E s \in {"devices"} \cup DefaultStages : Skip(s)
         \/ Fail
  PROVE  StageInv'
<1>1. stage # "entries" /\ UNCHANGED <<parser, list>>
  BY DEF DefaultStages, pvars
<1>2. CASE \E m, who : Begin(m, who)
  BY <1>1, <1>2, BeginStep
<1>3. CASE \E s \in {"devices"} \cup DefaultStages : Skip(s)
  <2>1. PICK s \in {"devices"} \cup DefaultStages : Skip(s)
    BY <1>3
  <2>2. stage' = s /\ step' = "idle" /\ n' = n
    BY <2>1 DEF Skip
  <2> QED
    BY <1>1, <2>2 DEF StageInv, MounterStages, DefaultStages
<1>4. CASE Fail
  BY <1>1, <1>4, FailStep DEF DefaultStages
<1> QED
  BY <1>2, <1>3, <1>4

\* configure_mounts, besides the list.
LEMMA ConfigureDefaultStep ==
  ASSUME StageInv,
         \/ ConfigureProc \/ ConfigureSys \/ ConfigureDev \/ ConfigurePts
         \/ ConfigureShm \/ ConfigureDevice \/ ConfigureMissingDevice
  PROVE  StageInv'
<1> DEFINE Outcome ==
      /\ UNCHANGED pvars /\ step = "idle"
      /\ stage \in {"devices"} \cup DefaultStages
      /\ \/ \E m, who : Begin(m, who)
         \/ \E s \in {"devices"} \cup DefaultStages : Skip(s)
         \/ Fail
<1>1. ASSUME NEW a, NEW b, NEW c, NEW d, BeginDefault(a, b, c, d)
      PROVE  \E m, who : Begin(m, who)
  BY <1>1 DEF BeginDefault
<1>2. BeginDevice => \E m, who : Begin(m, who)
  BY DEF BeginDevice
<1>3. CASE ConfigureProc
  <2>1. Outcome
    BY <1>1, <1>3 DEF ConfigureProc, Idle, DefaultStages
  <2> QED
    BY <2>1, DefaultStep
<1>4. CASE ConfigureSys
  <2>1. Outcome
    BY <1>1, <1>4 DEF ConfigureSys, Idle, DefaultStages
  <2> QED
    BY <2>1, DefaultStep
<1>5. CASE ConfigureDev
  <2>1. Outcome
    BY <1>1, <1>5 DEF ConfigureDev, BeginDev, Idle, DefaultStages
  <2> QED
    BY <2>1, DefaultStep
<1>6. CASE ConfigurePts
  <2>1. Outcome
    BY <1>1, <1>6 DEF ConfigurePts, ConfigureBelowDev, Idle, DefaultStages
  <2> QED
    BY <2>1, DefaultStep
<1>7. CASE ConfigureShm
  <2>1. Outcome
    BY <1>1, <1>7 DEF ConfigureShm, ConfigureBelowDev, Idle, DefaultStages
  <2> QED
    BY <2>1, DefaultStep
<1>8. CASE ConfigureDevice
  <2>1. Outcome
    BY <1>2, <1>8 DEF ConfigureDevice, NextDevice, Idle
  <2> QED
    BY <2>1, DefaultStep
<1>9. CASE ConfigureMissingDevice
  <2>1. Outcome
    BY <1>2, <1>9 DEF ConfigureMissingDevice, NextDevice, Idle
  <2> QED
    BY <2>1, DefaultStep
<1> QED
  BY <1>3, <1>4, <1>5, <1>6, <1>7, <1>8, <1>9

\* The list of mounts.
LEMMA EntriesStep ==
  ASSUME StageInv, ParserInv, StartEntry \/ EntriesDone
  PROVE  StageInv'
<1>1. UNCHANGED pvars /\ UNCHANGED <<parser, list>> /\ stage = "entries" /\ step = "idle"
  BY DEF StartEntry, EntriesDone, Idle, pvars
<1>2. Len(list) \in Nat /\ n \in Nat \ {0}
  BY DEF ParserInv, ParserTypeOK, StageInv
<1>3. CASE StartEntry
  <2>1. n \in 1 .. Len(list)
    BY <1>2, <1>3 DEF StartEntry
  <2>2. Begin(list[n], [kind |-> "entry", k |-> n])
    BY <1>3 DEF StartEntry
  <2> QED
    BY <1>1, <2>1, <2>2, BeginStep
<1>4. CASE EntriesDone
  <2>1. n > Len(list) /\ stage' = "proc" /\ n' = 1 /\ step' = "idle"
    BY <1>4 DEF EntriesDone, Idle
  <2> QED
    BY <1>1, <2>1 DEF StageInv, MounterStages, DefaultStages
<1> QED
  BY <1>3, <1>4

\* do_mount and do_bind_mount.
LEMMA DoMountStep ==
  ASSUME StageInv, DoMount
  PROVE  StageInv'
<1>1. UNCHANGED <<parser, list>> /\ stage # "failed" /\ step # "idle" /\ stage # "parse"
  BY DEF DoMount, OpenSource, OpenDestination, MountBind, ReopenDestination,
         RemountBind, MountOther, Propagate, pvars, StageInv, DefaultStages
<1>2. ASSUME NEW next \in Steps, EnsureDestination(next)
      PROVE  Goto(next) \/ Fail
  BY <1>2 DEF EnsureDestination
<1>3. CASE OpenSource
  <2>1. (Goto("destination") \/ Fail) /\ job' = job
    BY <1>3 DEF OpenSource
  <2> QED
    BY <1>1, <2>1, GotoStep, FailStep DEF Steps
<1>4. CASE OpenDestination
  <2>1. (Goto("mount") \/ Fail) /\ job' = job
    BY <1>2, <1>4 DEF OpenDestination, Steps
  <2> QED
    BY <1>1, <2>1, GotoStep, FailStep DEF Steps
<1>5. CASE MountBind
  <2>1. (Goto("reopen") \/ Fail) /\ job' = job /\ IsBind
    BY <1>5 DEF MountBind, jvars
  <2> QED
    BY <1>1, <2>1, GotoStep, FailStep DEF Steps
<1>6. CASE ReopenDestination
  <2>1. (Goto("remount") \/ Fail) /\ job' = job /\ IsBind
    BY <1>2, <1>6 DEF ReopenDestination, Steps, StageInv
  <2> QED
    BY <1>1, <2>1, GotoStep, FailStep DEF Steps
<1>7. CASE RemountBind
  <2>1. (Goto("propagate") \/ Fail) /\ job' = job
    BY <1>7 DEF RemountBind, jvars
  <2> QED
    BY <1>1, <2>1, GotoStep, FailStep DEF Steps
<1>8. CASE MountOther
  <2>1. job' = job /\ (Goto("propagate") \/ Fail)
    BY <1>8 DEF MountOther, jvars
  <2> QED
    BY <1>1, <2>1, GotoStep, FailStep DEF Steps
<1>9. CASE Propagate
  <2>1. AfterJob \/ Fail
    BY <1>9 DEF Propagate
  <2> QED
    BY <1>1, <1>9, <2>1, AfterJobStep, FailStep DEF Propagate
<1> QED
  BY <1>3, <1>4, <1>5, <1>6, <1>7, <1>8, <1>9 DEF DoMount

\* Every step keeps to the stages.
LEMMA StageStep == StageInv /\ ParserInv /\ [Next]_vars => StageInv'
<1> SUFFICES ASSUME StageInv, ParserInv, [Next]_vars PROVE StageInv'
  OBVIOUS
<1>1. CASE UNCHANGED <<parser, list, stage, n, step, job>>
  BY <1>1 DEF StageInv, IsBind
<1>2. CASE PNext /\ UNCHANGED mvars
  <2>1. stage = "parse" /\ step = "idle"
    BY <1>2 DEF PNext, CheckVersion, ParseSections, ParseMountOption, PushMount,
                MoreEntries, MountsParsed, ParserThrows, StageInv, DefaultStages
  <2>2. UNCHANGED <<stage, n, step, job>>
    BY <1>2 DEF mvars, jvars
  <2> QED
    BY <2>1, <2>2 DEF StageInv, IsBind
<1>3. CASE Clone
  <2>1. /\ stage = "parse" /\ step = "idle" /\ parser = "parsed"
        /\ UNCHANGED <<parser, list, n, step, job>>
        /\ stage' = IF list = <<>> THEN "pivot" ELSE "entries"
    BY <1>3 DEF Clone, jvars, pvars, StageInv, DefaultStages
  <2>2. CASE list = <<>>
    BY <2>1, <2>2 DEF StageInv, MounterStages
  <2>3. CASE list # <<>>
    <3>1. n = 1 /\ Len(list) \in Nat
      BY <2>1 DEF StageInv, ParserInv, ParserTypeOK
    <3> QED
      BY <2>1, <2>3, <3>1 DEF StageInv, MounterStages
  <2> QED
    BY <2>2, <2>3
<1>4. CASE StartEntry \/ EntriesDone
  BY <1>4, EntriesStep
<1>5. CASE \/ ConfigureProc \/ ConfigureSys \/ ConfigureDev \/ ConfigurePts
           \/ ConfigureShm \/ ConfigureDevice \/ ConfigureMissingDevice
  BY <1>5, ConfigureDefaultStep
<1>6. CASE DevicesDone
  BY <1>6 DEF DevicesDone, Idle, pvars, jvars, StageInv, MounterStages, DefaultStages
<1>7. CASE DoMount
  BY <1>7, DoMountStep
<1>8. CASE PivotRoot
  <2>1. /\ stage = "pivot" /\ step = "idle" /\ stage' = "done"
        /\ UNCHANGED <<parser, list, n, step>>
    BY <1>8 DEF PivotRoot, pvars, StageInv, DefaultStages
  <2> QED
    BY <2>1 DEF StageInv, MounterStages, MounterEnds
<1>9. CASE SysfsNotPermitted
  BY <1>9, BeginStep DEF SysfsNotPermitted, BindHostSys, DefaultStages
<1>10. CASE Throws
  BY <1>10, FailStep DEF Throws, pvars
<1>11. CASE ExecuteProcess \/ ProcessThrows
  BY <1>1, <1>11 DEF ExecuteProcess, ProcessThrows, ChangeDirectory, SetGid, SetGroups,
                     SetUid, Execvpe, Succeeds, pvars, mvars, jvars
<1>12. CASE UNCHANGED vars
  BY <1>1, <1>12 DEF vars, pvars, mvars, jvars
<1> QED
  BY <1>2, <1>3, <1>4, <1>5, <1>6, <1>7, <1>8, <1>9, <1>10, <1>11, <1>12
     DEF Next, MounterNext, MounterSteps, ConfigureMounts
=============================================================================
