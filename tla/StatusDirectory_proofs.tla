----------------------- MODULE StatusDirectory_proofs ------------------------
(***************************************************************************)
(* Proofs about StatusDirectory.  First its types and what is true of list *)
(* whatever IDs the callers choose; then, for callers that keep IDs        *)
(* exclusive, that the invariant DirInv is inductive, and what follows.    *)
(***************************************************************************)
EXTENDS StatusDirectoryInv, TLAPS

\* Files and records are what they are made of.
LEMMA FileFacts ==
  /\ NoFile \notin Files
  /\ \A r \in Runs, s \in Statuses : <<r, s>> \in Files /\ <<r, s>>[1] = r
<1>1. "none" \notin Runs
  BY NamesAssumption
<1> QED
  BY <1>1 DEF Files, NoFile

\* A run knows its three records apart, and from any record of another.
LEMMA RecordFacts ==
  ASSUME NEW r \in Runs
  PROVE  /\ Creating(r) # Created(r) /\ Creating(r) # Stopped(r) /\ Created(r) # Stopped(r)
         /\ Creating(r) # Lost(r) /\ Created(r) # Lost(r) /\ Stopped(r) # Lost(r)
         /\ \A x \in Drafts(r) \cup {Lost(r)} : x.run = r /\ x # NoRecord
         /\ \A x \in Drafts(r) : x.status \in Statuses /\ x.status # "empty"
         /\ Lost(r).status \notin Statuses /\ Lost(r).status # "empty"
         /\ Creating(r).status = "creating" /\ Created(r).status = "created"
         /\ Stopped(r).status = "stopped"
         /\ NoRecord.status \notin Statuses /\ NoRecord.run # r
<1>1. "none" # r
  BY NamesAssumption
<1> QED
  BY <1>1 DEF Creating, Created, Stopped, Drafts, Record, Pid, Lost, NoRecord, NoPid, Statuses

\* The types of TypeOK, by name.
DraftRec == [run : Runs, pid : Pids, status : Statuses]
ContentType == DraftRec \cup {NoRecord} \cup {Empty(r) : r \in Runs} \cup {Lost(r) : r \in Runs}
RunsType ==
  /\ pc \in [Runs -> LivePcs \cup EndPcs \cup {"idle"}]
  /\ draft \in [Runs -> DraftRec \cup {NoRecord}]
  /\ \A r \in Runs : pc[r] \in LivePcs => draft[r] # NoRecord
  /\ handle \in [Runs -> Files \cup {NoFile}]
  /\ proc \in [Runs -> Alive \cup {"none", "zombie", "reaped"}]
DirType ==
  /\ json \in [IDs -> Files \cup {NoFile}]
  /\ tmp \in [IDs -> Files \cup {NoFile}]
  /\ content \in [Files -> ContentType]
ClientType ==
  /\ at \in [Clients -> {"idle", "scan", "status", "read", "enter",
                        "done", "astray", "failed"}]
  /\ want \in [Clients -> IDs \cup {"list"}]
  /\ \A c \in Clients : at[c] = "read" => want[c] \in IDs
  /\ names \in [Clients -> SUBSET (IDs \X {"json", "tmp"})]
  /\ found \in [Clients -> SUBSET IDs]
  /\ out \in [Clients -> SUBSET IDs]
  /\ target \in [Clients -> Pids \cup {NoPid}]
  /\ initial \in [Clients -> SUBSET IDs]
WatchType == taken \subseteq Pids /\ vanished \in [Clients -> SUBSET IDs]

\* TypeOK is these, for the runs, the directory, the commands and the history.
LEMMA TypeParts == TypeOK <=> RunsType /\ DirType /\ ClientType /\ WatchType
BY DEF TypeOK, RunsType, DirType, ClientType, WatchType, DraftRec, ContentType

\* What a reader finds on disk.
LEMMA OnDiskType ==
  ASSUME DirType, NEW id \in IDs
  PROVE  /\ Readable(id) => json[id] \in Files /\ OnDisk(id) \in DraftRec
         /\ OnDisk(id) \in ContentType
<1>1. NoRecord.status \notin Statuses
  BY DEF NoRecord, Record, Statuses
<1>2. \A r \in Runs : Lost(r).status \notin Statuses /\ Empty(r).status \notin Statuses
  BY DEF Lost, Empty, Record, Statuses
<1>3. OnDisk(id) \in ContentType
  BY DEF DirType, OnDisk, ContentType
<1>4. OnDisk(id) = NoRecord \/ json[id] \in Files
  BY DEF DirType, OnDisk
<1> QED
  BY <1>1, <1>2, <1>3, <1>4 DEF ContentType, Readable

\* A record put together from a run, one of its PIDs and a status has its type.
LEMMA DraftType ==
  \A r, q \in Runs, s \in Statuses, w \in {"runtime", "container"} :
    Record(q, Pid(r, w), s) \in DraftRec
BY DEF Record, Pid, Pids, DraftRec

\* Where a run goes after a write.
LEMMA AfterWriteType == \A s \in Statuses : AfterWrite[s] \in LivePcs
BY DEF AfterWrite, Statuses, LivePcs

\* A run that ends.
LEMMA REndType ==
  ASSUME RunsType, NEW r \in Runs, NEW how \in EndPcs, REnd(r, how), UNCHANGED proc
  PROVE  RunsType'
<1>1. how \notin LivePcs
  BY DEF LivePcs, EndPcs
<1> QED
  BY <1>1 DEF RunsType, REnd, RGoto

\* A run that only goes on.
LEMMA RGotoType ==
  ASSUME RunsType, NEW r \in Runs, NEW where \in LivePcs, RGoto(r, where),
         UNCHANGED <<draft, handle>>, pc[r] \in LivePcs,
         proc' \in [Runs -> Alive \cup {"none", "zombie", "reaped"}]
  PROVE  RunsType'
BY DEF RunsType, RGoto

\* A new draft.
LEMMA DraftStep ==
  ASSUME RunsType, NEW r \in Runs, NEW where \in LivePcs, RGoto(r, where),
         NEW d \in DraftRec, draft' = [draft EXCEPT ![r] = d], UNCHANGED <<handle, proc>>
  PROVE  RunsType'
<1>1. NoRecord \notin DraftRec
  BY DEF NoRecord, Record, DraftRec, Statuses
<1> QED
  BY <1>1 DEF RunsType, RGoto

\* The history is one of IDs.
LEMMA WatchTypeStep == ASSUME WatchType, Watch, UNCHANGED taken PROVE WatchType'
BY DEF WatchType, Watch

\* Steps that leave the directory alone, or the commands, keep their types.
LEMMA SameTypes ==
  /\ UNCHANGED runvars /\ RunsType => RunsType'
  /\ UNCHANGED dirvars /\ DirType => DirType'
  /\ UNCHANGED clivars /\ ClientType => ClientType'
  /\ UNCHANGED <<taken, vanished>> /\ WatchType => WatchType'
BY DEF runvars, dirvars, clivars, RunsType, DirType, ClientType, WatchType

\* A change of one file's content.
LEMMA ContentStep ==
  ASSUME DirType, NEW f, NEW x \in ContentType
  PROVE  [content EXCEPT ![f] = x] \in [Files -> ContentType]
BY DEF DirType

\* A file that is freed.
LEMMA FreedType ==
  ASSUME DirType, NEW f
  PROVE  Freed(f) \in [Files -> ContentType]
BY ContentStep DEF DirType, Freed, ContentType

\* Reading and writing back.
LEMMA RewriteType ==
  ASSUME RunsType, DirType, NEW r \in Runs, NEW where, NEW expected, NEW status \in Statuses,
         Rewrite(r, where, expected, status)
  PROVE  RunsType'
<1>id. IdOf[r] \in IDs
  BY IdOfAssumption
<1>1. CASE ~Readable(IdOf[r]) \/ ReadStatus(IdOf[r]) # expected
  <2>1. REnd(r, "failed") \/ REnd(r, "aborted")
    BY <1>1 DEF Rewrite
  <2> QED
    BY <2>1, REndType DEF Rewrite, EndPcs
<1>2. CASE Readable(IdOf[r]) /\ ReadStatus(IdOf[r]) = expected
  <2> DEFINE d == Record(OnDisk(IdOf[r]).run, Pid(r, "container"), status)
  <2>1. OnDisk(IdOf[r]).run \in Runs
    BY <1>2, <1>id, OnDiskType DEF DraftRec
  <2>2. d \in DraftRec
    BY <2>1, DraftType
  <2>3. RGoto(r, "open") /\ draft' = [draft EXCEPT ![r] = d] /\ UNCHANGED <<handle, proc>>
    BY <1>2 DEF Rewrite
  <2> HIDE DEF d
  <2> QED
    BY <2>2, <2>3, DraftStep DEF LivePcs
<1> QED
  BY <1>1, <1>2

\* Every step of a run keeps the types.
LEMMA RunTypeStep ==
  ASSUME TypeOK, NEW r \in Runs, RunStep(r), UNCHANGED taken
  PROVE  TypeOK'
<1>a. RunsType /\ DirType /\ ClientType /\ WatchType
  BY TypeParts
<1>id. IdOf[r] \in IDs
  BY IdOfAssumption
<1>live. pc[r] \in LivePcs => draft[r] \in DraftRec /\ draft[r].status \in Statuses
  BY <1>a DEF RunsType, DraftRec
<1> SUFFICES RunsType' /\ DirType' /\ ClientType' /\ WatchType'
  BY PTL, TypeParts
<1>1. CASE CreateContainer(r)
  <2> DEFINE d == Record(r, Pid(r, "runtime"), "creating")
  <2>1. d \in DraftRec
    BY DraftType DEF Statuses
  <2>2. RGoto(r, "open") /\ draft' = [draft EXCEPT ![r] = d] /\ UNCHANGED <<handle, proc>>
    BY <1>1 DEF CreateContainer
  <2>3. UNCHANGED <<dirvars, clivars, vanished>>
    BY <1>1 DEF CreateContainer
  <2> HIDE DEF d
  <2>4. RunsType'
    BY <1>a, <2>1, <2>2, DraftStep DEF LivePcs
  <2> QED
    BY <1>a, <2>3, <2>4, SameTypes
<1>2. CASE OpenTemp(r)
  <2> DEFINE f == IF tmp[IdOf[r]] = NoFile THEN <<r, draft[r].status>> ELSE tmp[IdOf[r]]
  <2>1. f \in Files
    BY <1>2, <1>a, <1>id, <1>live, FileFacts DEF OpenTemp, LivePcs, DirType
  <2>2. /\ tmp' = [tmp EXCEPT ![IdOf[r]] = f]
        /\ content' = [content EXCEPT ![f] = Empty(r)]
        /\ handle' = [handle EXCEPT ![r] = f]
        /\ RGoto(r, "fill") /\ Watch /\ UNCHANGED <<draft, proc, json, clivars>>
        /\ pc[r] = "open"
    BY <1>2 DEF OpenTemp, TempName
  <2> HIDE DEF f
  <2>3. Empty(r) \in ContentType
    BY DEF ContentType
  <2>4. DirType'
    BY <1>a, <1>id, <2>1, <2>2, <2>3, ContentStep DEF DirType
  <2>5. RunsType'
    BY <1>a, <2>1, <2>2 DEF RunsType, RGoto, LivePcs
  <2> QED
    BY <1>a, <2>2, <2>4, <2>5, SameTypes, WatchTypeStep
<1>3. CASE FillTemp(r)
  <2>1. PICK x \in {draft[r]} \cup (IF DiskMayFill THEN {Lost(r)} ELSE {}) :
          content' = [content EXCEPT ![handle[r]] = x]
    BY <1>3 DEF FillTemp
  <2>2. /\ handle' = [handle EXCEPT ![r] = NoFile]
        /\ RGoto(r, "rename") /\ Watch /\ UNCHANGED <<draft, proc, json, tmp, clivars>>
        /\ pc[r] = "fill"
    BY <1>3 DEF FillTemp
  <2>3. x \in ContentType
    BY <2>1, <2>2, <1>live DEF ContentType, LivePcs
  <2>4. DirType'
    BY <1>a, <2>1, <2>2, <2>3, ContentStep DEF DirType
  <2>5. RunsType'
    BY <1>a, <2>2 DEF RunsType, RGoto, LivePcs
  <2> QED
    BY <1>a, <2>2, <2>4, <2>5, SameTypes, WatchTypeStep
<1>4. CASE RenameTemp(r)
  <2>1. Watch /\ UNCHANGED <<proc, clivars>> /\ pc[r] = "rename"
    BY <1>4 DEF RenameTemp
  <2>2. CASE tmp[TempName(r)] = NoFile
    <3>1. REnd(r, "failed") /\ UNCHANGED dirvars
      BY <1>4, <2>2 DEF RenameTemp
    <3>2. RunsType'
      BY <1>a, <2>1, <3>1, REndType DEF EndPcs
    <3> QED
      BY <1>a, <2>1, <3>1, <3>2, SameTypes, WatchTypeStep
  <2>3. CASE tmp[TempName(r)] # NoFile
    <3>1. /\ json' = [json EXCEPT ![IdOf[r]] = tmp[IdOf[r]]]
          /\ tmp' = [tmp EXCEPT ![IdOf[r]] = NoFile]
          /\ content' = Freed(json[IdOf[r]])
          /\ RGoto(r, AfterWrite[draft[r].status])
          /\ UNCHANGED <<draft, handle>>
      BY <1>4, <2>3 DEF RenameTemp, TempName
    <3>2. DirType'
      BY <1>a, <1>id, <3>1, FreedType DEF DirType
    <3>3. AfterWrite[draft[r].status] \in LivePcs /\ pc[r] \in LivePcs
      BY <2>1, <1>live, AfterWriteType DEF LivePcs
    <3>4. RunsType'
      BY <1>a, <2>1, <3>1, <3>3 DEF RunsType, RGoto
    <3> QED
      BY <1>a, <2>1, <3>2, <3>4, SameTypes, WatchTypeStep
  <2> QED
    BY <2>2, <2>3
<1>5. CASE Clone(r)
  BY <1>5, <1>a, SameTypes DEF Clone, RunsType, RGoto, LivePcs, Alive
<1>6. CASE Publish(r)
  <2>1. UNCHANGED <<dirvars, clivars, vanished>>
    BY <1>6 DEF Publish, Rewrite
  <2>2. RunsType'
    BY <1>6, <1>a, RewriteType DEF Publish, Statuses
  <2> QED
    BY <1>a, <2>1, <2>2, SameTypes
<1>7. CASE Configure(r)
  BY <1>7, <1>a, SameTypes DEF Configure, RunsType, RGoto, LivePcs, Alive
<1>8. CASE ReadPid(r)
  <2>1. UNCHANGED <<proc, dirvars, clivars, vanished>>
    BY <1>8 DEF ReadPid
  <2>2. CASE ~Readable(IdOf[r])
    <3>1. REnd(r, "failed")
      BY <1>8, <2>2 DEF ReadPid
    <3>2. RunsType'
      BY <1>a, <2>1, <3>1, REndType DEF EndPcs
    <3> QED
      BY <1>a, <2>1, <3>2, SameTypes
  <2>3. CASE Readable(IdOf[r])
    <3>1. /\ draft' = [draft EXCEPT ![r] = OnDisk(IdOf[r])]
          /\ RGoto(r, "wait") /\ UNCHANGED handle
      BY <1>8, <2>3 DEF ReadPid
    <3>2. OnDisk(IdOf[r]) \in DraftRec
      BY <1>a, <1>id, <2>3, OnDiskType
    <3>3. RunsType'
      BY <1>a, <2>1, <3>1, <3>2, DraftStep DEF LivePcs
    <3> QED
      BY <1>a, <2>1, <3>3, SameTypes
  <2> QED
    BY <2>2, <2>3
<1>9. CASE WaitContainerProcess(r)
  <2>1. UNCHANGED <<dirvars, clivars, vanished>> /\ pc[r] = "wait"
    BY <1>9 DEF WaitContainerProcess
  <2>2. CASE draft[r].pid # Pid(r, "container")
    <3>1. REnd(r, "failed") /\ UNCHANGED proc
      BY <1>9, <2>2 DEF WaitContainerProcess
    <3>2. RunsType'
      BY <1>a, <3>1, REndType DEF EndPcs
    <3> QED
      BY <1>a, <2>1, <3>2, SameTypes
  <2>3. CASE draft[r].pid = Pid(r, "container")
    <3>1. RunsType'
      BY <1>9, <1>a, <2>3 DEF WaitContainerProcess, RunsType, RGoto, LivePcs
    <3> QED
      BY <1>a, <2>1, <3>1, SameTypes
  <2> QED
    BY <2>2, <2>3
<1>10. CASE Close(r)
  <2>1. UNCHANGED <<dirvars, clivars, vanished>>
    BY <1>10 DEF Close, Rewrite
  <2>2. RunsType'
    BY <1>10, <1>a, RewriteType DEF Close, Statuses
  <2> QED
    BY <1>a, <2>1, <2>2, SameTypes
<1>11. CASE Remove(r)
  <2>1. /\ json' = [json EXCEPT ![IdOf[r]] = NoFile]
        /\ content' = Freed(json[IdOf[r]])
        /\ REnd(r, "returned") /\ Watch /\ UNCHANGED <<proc, tmp, clivars>>
    BY <1>11 DEF Remove
  <2>2. DirType'
    BY <1>a, <1>id, <2>1, FreedType DEF DirType
  <2>3. RunsType'
    BY <1>a, <2>1, REndType DEF EndPcs
  <2> QED
    BY <1>a, <2>1, <2>2, <2>3, SameTypes, WatchTypeStep
<1>12. CASE RunEnds(r)
  <2>1. REnd(r, "failed") /\ UNCHANGED <<proc, dirvars, clivars, vanished>>
    BY <1>12 DEF RunEnds
  <2>2. RunsType'
    BY <1>a, <2>1, REndType DEF EndPcs
  <2> QED
    BY <1>a, <2>1, <2>2, SameTypes
<1>13. CASE ProcessStarts(r)
  BY <1>13, <1>a, SameTypes DEF ProcessStarts, RunsType, Alive
<1>14. CASE ProcessDies(r)
  BY <1>14, <1>a, SameTypes DEF ProcessDies, RunsType, Alive
<1>15. CASE InitReaps(r)
  BY <1>15, <1>a, SameTypes DEF InitReaps, RunsType, Alive
<1> QED
  BY <1>1, <1>2, <1>3, <1>4, <1>5, <1>6, <1>7, <1>8, <1>9, <1>10, <1>11, <1>12,
     <1>13, <1>14, <1>15 DEF RunStep

\* ... and so does every step of a command.
LEMMA ClientTypeStep ==
  ASSUME TypeOK, NEW c \in Clients, ClientStep(c), UNCHANGED taken
  PROVE  TypeOK'
<1>1. CASE OpenDirectory(c)
  BY <1>1 DEF TypeOK, OpenDirectory, CGoto, runvars, dirvars
<1>2. CASE VisitEntry(c)
  BY <1>2 DEF TypeOK, VisitEntry, runvars, dirvars
<1>3. CASE ContainersFound(c)
  <2>1. at' = [at EXCEPT ![c] = at'[c]] /\ at'[c] \in {"status", "read", "failed"}
    BY <1>3 DEF TypeOK, ContainersFound, CGoto
  <2>2. at'[c] = "read" => want[c] \in IDs
    BY <1>3, NamesAssumption DEF TypeOK, ContainersFound, CGoto
  <2> QED
    BY <1>3, <2>1, <2>2 DEF TypeOK, ContainersFound, runvars, dirvars
<1>4. CASE ListStatus(c)
  BY SMTT(30), <1>4 DEF TypeOK, ListStatus, CGoto, runvars, dirvars
<1>5. CASE PrintStatuses(c)
  BY <1>5 DEF TypeOK, PrintStatuses, CGoto, runvars, dirvars
<1>6. CASE ExecReadsPid(c)
  <2>1. CASE ~Readable(want[c])
    BY <1>6, <2>1 DEF TypeOK, ExecReadsPid, CGoto, runvars, dirvars
  <2>2. CASE Readable(want[c])
    <3>1. want[c] \in IDs /\ DirType
      BY <1>6, TypeParts DEF TypeOK, ExecReadsPid
    <3>2. OnDisk(want[c]).pid \in Pids \cup {NoPid}
      BY <2>2, <3>1, OnDiskType DEF DraftRec
    <3> QED
      BY <1>6, <2>2, <3>2 DEF TypeOK, ExecReadsPid, CGoto, runvars, dirvars
  <2> QED
    BY <2>1, <2>2
<1>7. CASE NsEnter(c)
  BY <1>7 DEF TypeOK, NsEnter, CGoto, runvars, dirvars
<1> QED
  BY <1>1, <1>2, <1>3, <1>4, <1>5, <1>6, <1>7 DEF ClientStep

\* The initial state has the types.
LEMMA TypeInit == Init => TypeOK
<1>1. NoRecord \in ContentType
  BY DEF ContentType
<1> QED
  BY <1>1 DEF Init, TypeOK, DraftRec, ContentType, LivePcs

\* Every step keeps the types.
LEMMA TypeStep == ASSUME TypeOK, [Next]_vars PROVE TypeOK'
<1>1. ASSUME NEW r \in Runs, RunStep(r), UNCHANGED taken PROVE TypeOK'
  BY <1>1, RunTypeStep
<1>2. ASSUME NEW c \in Clients, ClientStep(c), UNCHANGED taken PROVE TypeOK'
  BY <1>2, ClientTypeStep
<1>3. CASE PidReused
  BY <1>3 DEF PidReused, TypeOK, runvars, dirvars, clivars
<1>4. CASE UNCHANGED vars
  BY <1>4 DEF TypeOK, vars, runvars, dirvars, clivars
<1> QED
  BY <1>1, <1>2, <1>3, <1>4 DEF Next

\* Every state of the directory, of the runs and of the commands is one that
\* the code can be in: whatever a process finds on disk after others were
\* killed anywhere, a draft is a whole record of some run with a PID of a run,
\* and exec is left with such a PID.  For any runs, IDs and commands, whether
\* or not callers keep IDs apart.
THEOREM DirTypeCorrect == Spec => []TypeOK
<1>1. TypeOK /\ [Next]_vars => TypeOK'
  BY TypeStep
<1> QED
  BY <1>1, TypeInit, PTL DEF Spec

-----------------------------------------------------------------------------
(* list.                                                                   *)

\* Whatever a run does, a record is readable after the step or a command at
\* work has seen it vanish.
LEMMA RunWatched ==
  ASSUME TypeOK, NEW r \in Runs, RunStep(r), NEW c \in Clients
  PROVE  /\ UNCHANGED clivars
         /\ vanished[c] \subseteq vanished'[c]
         /\ at[c] \notin {"scan", "status"} => vanished'[c] = vanished[c]
         /\ at[c] \in {"scan", "status"} =>
              \A id \in IDs : Readable(id) => Readable(id)' \/ id \in vanished'[c]
<1>1. UNCHANGED clivars /\ (Watch \/ (UNCHANGED dirvars /\ UNCHANGED vanished))
  BY DEF RunStep, CreateContainer, OpenTemp, FillTemp, RenameTemp, Clone, Publish, Close,
     Rewrite, Configure, ReadPid, WaitContainerProcess, Remove, RunEnds, ProcessStarts,
     ProcessDies, InitReaps
<1>2. CASE Watch
  <2>1. vanished'[c] = IF at[c] \in {"scan", "status"}
                         THEN vanished[c] \cup {id \in IDs : Readable(id) /\ ~Readable(id)'}
                         ELSE vanished[c]
    BY <1>2 DEF Watch
  <2> QED
    BY <1>1, <2>1
<1>3. CASE UNCHANGED dirvars /\ UNCHANGED vanished
  BY <1>1, <1>3 DEF Readable, OnDisk, dirvars
<1> QED
  BY <1>1, <1>2, <1>3

\* What list knows survives the steps of the runs ...
LEMMA ListRunStep ==
  ASSUME TypeOK, NEW c \in Clients, ListInv(c), NEW r \in Runs, RunStep(r)
  PROVE  ListInv(c)'
<1>1. UNCHANGED clivars
  BY RunWatched
<1>2. /\ vanished[c] \subseteq vanished'[c]
      /\ at[c] \notin {"scan", "status"} => vanished'[c] = vanished[c]
      /\ at[c] \in {"scan", "status"} =>
           \A id \in IDs : Readable(id) => Readable(id)' \/ id \in vanished'[c]
  BY RunWatched
<1>3. Sure(c)' \subseteq Sure(c)
  BY <1>1, <1>2 DEF Sure, clivars
<1>4. Sure(c) \subseteq IDs /\ found[c] \subseteq IDs
  BY DEF TypeOK, Sure
<1>5. CASE at[c] \in {"scan", "status"}
  <2>1. \A id \in Sure(c)' : Readable(id)'
    BY <1>2, <1>3, <1>4, <1>5 DEF ListInv, Sure
  <2>2. \A id \in found[c] : Readable(id)' \/ id \in vanished'[c]
    BY <1>2, <1>4, <1>5 DEF ListInv
  <2> QED
    BY <1>1, <1>3, <1>5, <2>1, <2>2 DEF ListInv, clivars
<1>6. CASE at[c] \notin {"scan", "status"}
  <2>1. vanished'[c] = vanished[c] /\ Sure(c)' = Sure(c)
    BY <1>1, <1>2, <1>6 DEF Sure, clivars
  <2> QED
    BY <1>1, <1>6, <2>1 DEF ListInv, clivars
<1> QED
  BY <1>5, <1>6

\* ... those of other commands ...
LEMMA ListOtherStep ==
  ASSUME NEW c \in Clients, ListInv(c), UNCHANGED dirvars,
         at'[c] = at[c], want'[c] = want[c], names'[c] = names[c], found'[c] = found[c],
         out'[c] = out[c], initial'[c] = initial[c], vanished'[c] = vanished[c]
  PROVE  ListInv(c)'
<1>1. \A id : Readable(id)' = Readable(id)
  BY DEF Readable, OnDisk, dirvars
<1>2. Sure(c)' = Sure(c)
  BY DEF Sure
<1> QED
  BY <1>1, <1>2 DEF ListInv

\* ... and its own.
LEMMA ListOwnStep ==
  ASSUME TypeOK, NEW c \in Clients, ListInv(c), ClientStep(c)
  PROVE  ListInv(c)'
<1>1. UNCHANGED dirvars
  BY DEF ClientStep, OpenDirectory, VisitEntry, ContainersFound, ListStatus,
         PrintStatuses, ExecReadsPid, NsEnter
<1>2. \A id : Readable(id)' = Readable(id)
  BY <1>1 DEF Readable, OnDisk, dirvars
<1>3. CASE OpenDirectory(c)
  <2>1. /\ at'[c] = "scan" /\ found'[c] = {} /\ vanished'[c] = {}
        /\ initial'[c] = {id \in IDs : Readable(id)}
    BY <1>3 DEF OpenDirectory, CGoto, TypeOK, ListInv
  <2>2. \A id \in IDs : json[id] # NoFile => <<id, "json">> \in names'[c]
    BY <1>3 DEF OpenDirectory, TypeOK
  <2>3. \A id \in IDs : Readable(id) => json[id] # NoFile
    BY DEF Readable, OnDisk, NoRecord, Record, Statuses
  <2> QED
    BY <1>2, <2>1, <2>2, <2>3 DEF ListInv, Sure
<1>4. CASE VisitEntry(c)
  <2>1. PICK name \in names[c] :
          /\ names' = [names EXCEPT ![c] = @ \ {name}]
          /\ found' = [found EXCEPT ![c] = IF Listed(name) THEN @ \cup {name[1]} ELSE @]
    BY <1>4 DEF VisitEntry
  <2>2. /\ at[c] = "scan" /\ UNCHANGED <<at, want, out, initial, vanished>>
        /\ names'[c] = names[c] \ {name}
        /\ found'[c] = IF Listed(name) THEN found[c] \cup {name[1]} ELSE found[c]
    BY <1>4, <2>1 DEF VisitEntry, TypeOK
  <2>3. Sure(c)' = Sure(c)
    BY <2>2 DEF Sure
  <2>4. \A id \in Sure(c) : id \in found'[c] \/ <<id, "json">> \in names'[c]
    <3> TAKE id \in Sure(c)
    <3>1. Readable(id) /\ (id \in found[c] \/ <<id, "json">> \in names[c])
      BY <2>2 DEF ListInv
    <3>2. CASE name = <<id, "json">>
      BY <2>2, <3>1, <3>2 DEF Listed
    <3>3. CASE name # <<id, "json">>
      BY <2>2, <3>1, <3>3
    <3> QED
      BY <3>2, <3>3
  <2>5. \A id \in found'[c] : Readable(id) \/ id \in vanished[c]
    BY <2>2 DEF ListInv, Listed
  <2> QED
    BY <1>2, <2>2, <2>3, <2>4, <2>5 DEF ListInv
<1>5. CASE ContainersFound(c)
  <2>1. /\ at[c] = "scan" /\ names[c] = {}
        /\ at'[c] = IF want[c] = "list" THEN "status"
                    ELSE IF want[c] \in found[c] THEN "read" ELSE "failed"
        /\ UNCHANGED <<want, names, found, out, initial, vanished>>
    BY <1>5 DEF ContainersFound, CGoto, TypeOK
  <2>2. Sure(c)' = Sure(c) /\ Sure(c) \subseteq found[c]
    BY <2>1 DEF Sure, ListInv
  <2> QED
    BY <1>2, <2>1, <2>2 DEF ListInv
<1>6. CASE ListStatus(c)
  <2>1. /\ at[c] = "status" /\ UNCHANGED <<want, names, found, initial, vanished>>
        /\ \/ at'[c] = "status"
           \/ at'[c] = "failed" /\ \E id \in found[c] : ~Readable(id)
    BY <1>6 DEF ListStatus, CGoto, TypeOK
  <2>2. Sure(c)' = Sure(c)
    BY <2>1 DEF Sure
  <2>3. CASE at'[c] = "status"
    BY <1>2, <2>1, <2>2, <2>3 DEF ListInv
  <2>4. CASE at'[c] = "failed" /\ \E id \in found[c] : ~Readable(id)
    BY <2>1, <2>2, <2>4 DEF ListInv
  <2> QED
    BY <2>1, <2>3, <2>4
<1>7. CASE PrintStatuses(c)
  <2>1. /\ at[c] = "status" /\ at'[c] = "done" /\ out[c] = found[c]
        /\ UNCHANGED <<want, names, found, out, initial, vanished>>
    BY <1>7 DEF PrintStatuses, CGoto, TypeOK
  <2> QED
    BY <2>1 DEF ListInv, Sure
<1>8. CASE ExecReadsPid(c) \/ NsEnter(c)
  <2>1. /\ at[c] \in {"read", "enter"} /\ at'[c] \in {"enter", "done", "astray", "failed"}
        /\ want' = want
    BY <1>8 DEF ExecReadsPid, NsEnter, CGoto, TypeOK
  <2> QED
    BY <2>1 DEF ListInv
<1> QED
  BY <1>3, <1>4, <1>5, <1>6, <1>7, <1>8 DEF ClientStep

\* A step of one command is none of another's.
LEMMA ClientAlone ==
  ASSUME TypeOK, NEW d \in Clients, ClientStep(d)
  PROVE  /\ UNCHANGED runvars /\ UNCHANGED dirvars
         /\ \A c \in Clients : c # d =>
              /\ at'[c] = at[c] /\ want'[c] = want[c] /\ names'[c] = names[c]
              /\ found'[c] = found[c] /\ out'[c] = out[c] /\ target'[c] = target[c]
              /\ initial'[c] = initial[c] /\ vanished'[c] = vanished[c]
BY DEF ClientStep, OpenDirectory, VisitEntry, ContainersFound, ListStatus,
       PrintStatuses, ExecReadsPid, NsEnter, CGoto, TypeOK

\* What list knows is inductive, whatever IDs the callers choose.
LEMMA ListStep ==
  ASSUME TypeOK, \A c \in Clients : ListInv(c), [Next]_vars
  PROVE  \A c \in Clients : ListInv(c)'
<1> SUFFICES ASSUME NEW c \in Clients PROVE ListInv(c)'
  OBVIOUS
<1>1. ASSUME NEW r \in Runs, RunStep(r) PROVE ListInv(c)'
  BY <1>1, ListRunStep
<1>2. ASSUME NEW d \in Clients, ClientStep(d) PROVE ListInv(c)'
  <2>1. CASE d = c
    BY <1>2, <2>1, ListOwnStep
  <2>2. CASE d # c
    BY <1>2, <2>2, ClientAlone, ListOtherStep
  <2> QED
    BY <2>1, <2>2
<1>3. CASE PidReused \/ UNCHANGED vars
  BY <1>3, ListOtherStep DEF PidReused, vars, clivars
<1> QED
  BY <1>1, <1>2, <1>3 DEF Next

\* ... and an invariant.
LEMMA ListInvariant == Spec => [](\A c \in Clients : ListInv(c))
<1>1. Init => TypeOK /\ \A c \in Clients : ListInv(c)
  BY TypeInit DEF Init, ListInv, Sure
<1>2. TypeOK /\ (\A c \in Clients : ListInv(c)) /\ [Next]_vars
        => TypeOK' /\ (\A c \in Clients : ListInv(c))'
  BY TypeStep, ListStep
<1> QED
  BY <1>1, <1>2, PTL DEF Spec

\* list prints every container whose record could be read all the time it ran:
\* rewriting a record, or anything that runs and commands do beside it, hides
\* none; even when two runs share an ID.
THEOREM ListMissesNoneCorrect == Spec => []ListMissesNone
<1>1. (\A c \in Clients : ListInv(c)) => ListMissesNone
  BY DEF ListInv, ListMissesNone, Sure
<1> QED
  BY <1>1, ListInvariant, PTL

\* list fails only when a container that it had found was removed, or its
\* record ruined by a full disk or a run with the same ID, before the second
\* look.
THEOREM ListFailsOnlyIfOneVanishedCorrect == Spec => []ListFailsOnlyIfOneVanished
<1>1. (\A c \in Clients : ListInv(c)) => ListFailsOnlyIfOneVanished
  BY DEF ListInv, ListFailsOnlyIfOneVanished
<1> QED
  BY <1>1, ListInvariant, PTL

-----------------------------------------------------------------------------
(* Exclusive IDs: DirInv is inductive.                                     *)

\* A step of run r that leaves the files of other IDs alone breaks nothing of
\* what is known about another run.
LEMMA OthersKeep ==
  ASSUME OneRunPerID, NEW r \in Runs, NEW q \in Runs, q # r, Live(r), RunInv(q),
         pc'[q] = pc[q], draft'[q] = draft[q], handle'[q] = handle[q], proc'[q] = proc[q],
         \A id \in IDs : id # IdOf[r] =>
           /\ OnDisk(id)' = OnDisk(id) /\ tmp'[id] = tmp[id]
           /\ tmp[id] # NoFile => content'[tmp[id]] = content[tmp[id]]
  PROVE  DraftInv(q)' /\ TempInv(q)' /\ DiskInv(q)'
<1>id. IdOf[q] \in IDs
  BY IdOfAssumption
<1>1. CASE Live(q)
  <2>1. IdOf[q] # IdOf[r]
    BY <1>1 DEF OneRunPerID
  <2>2. /\ OnDisk(IdOf[q])' = OnDisk(IdOf[q]) /\ tmp'[IdOf[q]] = tmp[IdOf[q]]
        /\ tmp[IdOf[q]] # NoFile => content'[tmp[IdOf[q]]] = content[tmp[IdOf[q]]]
    BY <1>id, <2>1
  <2>3. DraftInv(q)'
    BY DEF RunInv, DraftInv, Live, Drafts, Creating, Created, Stopped
  <2>4. TempInv(q)'
    BY <2>2 DEF RunInv, TempInv
  <2>5. DiskInv(q)'
    BY <2>2 DEF RunInv, DiskInv, Creating, Created
  <2> QED
    BY <2>3, <2>4, <2>5
<1>2. CASE ~Live(q)
  BY <1>2 DEF RunInv, DraftInv, TempInv, DiskInv, Live, LivePcs, Settled, Writing
<1> QED
  BY <1>1, <1>2

\* Nor does a step that leaves the directory alone.
LEMMA OthersKeepQuiet ==
  ASSUME NEW q \in Runs, RunInv(q), UNCHANGED dirvars,
         pc'[q] = pc[q], draft'[q] = draft[q], handle'[q] = handle[q], proc'[q] = proc[q]
  PROVE  RunInv(q)'
<1>1. OnDisk(IdOf[q])' = OnDisk(IdOf[q])
  BY DEF OnDisk, dirvars
<1>2. FilesFresh(q)'
  BY DEF RunInv, FilesFresh, Upcoming, Live, dirvars
<1>3. DraftInv(q)'
  BY DEF RunInv, DraftInv, Live, Drafts, Creating, Created, Stopped
<1>4. TempInv(q)'
  BY DEF RunInv, TempInv, dirvars
<1>5. DiskInv(q)'
  BY <1>1 DEF RunInv, DiskInv, Creating, Created
<1> QED
  BY <1>2, <1>3, <1>4, <1>5 DEF RunInv

\* A run that is over claims nothing.
LEMMA Over ==
  ASSUME TypeOK, NEW r \in Runs, NEW how \in EndPcs, REnd(r, how)
  PROVE  RunInv(r)'
<1>1. pc'[r] = how /\ handle'[r] = NoFile
  BY DEF TypeOK, REnd, RGoto
<1>2. ~Live(r)' /\ how \notin Writing \cup Settled \cup {"idle"}
  BY <1>1 DEF Live, LivePcs, EndPcs, Writing, Settled
<1>3. FilesFresh(r)'
  BY <1>1, <1>2 DEF FilesFresh, Upcoming, Live, EndPcs
<1>4. DraftInv(r)' /\ TempInv(r)' /\ DiskInv(r)'
  BY <1>1, <1>2 DEF DraftInv, TempInv, DiskInv, EndPcs
<1> QED
  BY <1>3, <1>4 DEF RunInv

\* A step of run r that leaves the directory alone keeps the invariant if it
\* keeps the part about r.
LEMMA QuietStep ==
  ASSUME DirInv, TypeOK', NEW r \in Runs, RunInv(r)', UNCHANGED dirvars,
         NEW w, w # "idle", pc' = [pc EXCEPT ![r] = w],
         Live(r) \/ w \notin LivePcs
           \/ \A other \in Runs : IdOf[other] = IdOf[r] => ~Live(other),
         \A q \in Runs : q # r =>
           draft'[q] = draft[q] /\ handle'[q] = handle[q] /\ proc'[q] = proc[q]
  PROVE  DirInv'
<1>1. \A q \in Runs : q # r => pc'[q] = pc[q]
  BY DEF DirInv, TypeOK
<1>2. pc'[r] = w
  BY DEF DirInv, TypeOK
<1>3. OneRunPerID'
  BY <1>1, <1>2 DEF DirInv, OneRunPerID, Live
<1>4. NamesApart'
  BY DEF DirInv, NamesApart, dirvars
<1>5. \A id \in IDs : OnDisk(id)' = OnDisk(id) /\ json'[id] = json[id]
  BY DEF OnDisk, dirvars
<1>6. WholeInv'
  BY <1>1, <1>2, <1>5 DEF DirInv, WholeInv, Drafts, Creating, Created, Stopped, Lost
<1>7. \A q \in Runs : RunInv(q)'
  BY <1>1, OthersKeepQuiet DEF DirInv
<1> QED
  BY <1>3, <1>4, <1>6, <1>7 DEF DirInv

\* A step of run r on the files of its own ID.
LEMMA DirStep ==
  ASSUME DirInv, TypeOK', NEW r \in Runs, Live(r), RunInv(r)',
         NEW w, w # "idle", pc' = [pc EXCEPT ![r] = w],
         \A q \in Runs : q # r =>
           draft'[q] = draft[q] /\ handle'[q] = handle[q] /\ proc'[q] = proc[q],
         NEW j \in {json[IdOf[r]], tmp[IdOf[r]], NoFile},
         NEW t \in {tmp[IdOf[r]], <<r, draft[r].status>>, NoFile},
         json' = [json EXCEPT ![IdOf[r]] = j], tmp' = [tmp EXCEPT ![IdOf[r]] = t],
         j # NoFile => j # t,
         \/ content' = content
         \/ \E f \in Files : \E x : IdOf[f[1]] = IdOf[r] /\ content' = [content EXCEPT ![f] = x],
         j # NoFile =>
           \E q \in Runs : /\ IdOf[q] = IdOf[r] /\ pc'[q] # "idle"
                           /\ OnDisk(IdOf[r])' \in Drafts(q) \cup {Lost(q)}
  PROVE  DirInv' /\ \A id \in IDs : id # IdOf[r] => OnDisk(id)' = OnDisk(id)
<1>id. IdOf[r] \in IDs
  BY IdOfAssumption
<1>t. /\ json \in [IDs -> Files \cup {NoFile}]
      /\ tmp \in [IDs -> Files \cup {NoFile}]
      /\ content \in [Files -> ContentType]
  BY TypeParts DEF DirInv, DirType
<1>1. \A q \in Runs : q # r => pc'[q] = pc[q]
  BY DEF DirInv, TypeOK
<1>2. pc'[r] = w
  BY DEF DirInv, TypeOK
<1>3. json'[IdOf[r]] = j /\ tmp'[IdOf[r]] = t
  BY <1>id, <1>t
<1>4. \A id \in IDs : id # IdOf[r] => json'[id] = json[id] /\ tmp'[id] = tmp[id]
  BY <1>id, <1>t
<1>5. \A g \in Files : IdOf[g[1]] # IdOf[r] => content'[g] = content[g]
  BY <1>t
<1>6. ASSUME NEW id \in IDs, id # IdOf[r]
      PROVE  /\ OnDisk(id)' = OnDisk(id) /\ tmp'[id] = tmp[id]
             /\ tmp[id] # NoFile => content'[tmp[id]] = content[tmp[id]]
  <2>1. json[id] # NoFile => json[id] \in Files /\ IdOf[json[id][1]] = id
    BY <1>t DEF DirInv, NamesApart
  <2>2. tmp[id] # NoFile => tmp[id] \in Files /\ IdOf[tmp[id][1]] = id
    BY <1>t DEF DirInv, NamesApart
  <2> QED
    BY <1>4, <1>5, <1>6, <2>1, <2>2 DEF OnDisk
<1>7. OneRunPerID'
  BY <1>1, <1>2 DEF DirInv, OneRunPerID, Live
<1>8. NamesApart'
  <2>1. NoFile # <<r, draft[r].status>> /\ <<r, draft[r].status>>[1] = r
    BY NamesAssumption DEF NoFile
  <2>2. j # NoFile => IdOf[j[1]] = IdOf[r]
    BY <1>id DEF DirInv, NamesApart
  <2>3. t # NoFile => IdOf[t[1]] = IdOf[r]
    BY <1>id, <2>1 DEF DirInv, NamesApart
  <2> SUFFICES ASSUME NEW id \in IDs
               PROVE  /\ json'[id] # NoFile => IdOf[json'[id][1]] = id
                      /\ tmp'[id] # NoFile => IdOf[tmp'[id][1]] = id
                      /\ json'[id] # NoFile => json'[id] # tmp'[id]
    BY DEF NamesApart
  <2>4. CASE id = IdOf[r]
    BY <1>3, <2>2, <2>3, <2>4
  <2>5. CASE id # IdOf[r]
    BY <1>4, <2>5 DEF DirInv, NamesApart
  <2> QED
    BY <2>4, <2>5
<1>9. WholeInv'
  <2> SUFFICES ASSUME NEW id \in IDs, json'[id] # NoFile
               PROVE  \E q \in Runs : /\ IdOf[q] = id /\ pc'[q] # "idle"
                                      /\ OnDisk(id)' \in Drafts(q) \cup {Lost(q)}
    BY DEF WholeInv, Drafts, Creating, Created, Stopped, Lost
  <2>1. CASE id = IdOf[r]
    BY <1>3, <2>1
  <2>2. CASE id # IdOf[r]
    <3>1. json[id] # NoFile /\ OnDisk(id)' = OnDisk(id)
      BY <1>4, <1>6, <2>2
    <3>2. PICK q \in Runs : /\ IdOf[q] = id /\ pc[q] # "idle"
                            /\ OnDisk(id) \in Drafts(q) \cup {Lost(q)}
      BY <3>1 DEF DirInv, WholeInv
    <3> QED
      BY <1>1, <2>2, <3>1, <3>2
  <2> QED
    BY <2>1, <2>2
<1>10. ASSUME NEW q \in Runs, q # r
       PROVE  RunInv(q)'
  <2>1. DraftInv(q)' /\ TempInv(q)' /\ DiskInv(q)'
    BY <1>1, <1>6, <1>10, OthersKeep DEF DirInv
  <2>2. Upcoming(q)' = Upcoming(q)
    BY <1>1, <1>10 DEF Upcoming, Live
  <2>3. \A s \in Upcoming(q) : \A id \in IDs : json[id] # <<q, s>> /\ tmp[id] # <<q, s>>
    BY DEF DirInv, RunInv, FilesFresh
  <2>4. \A s \in Upcoming(q) : j # <<q, s>> /\ t # <<q, s>>
    <3> TAKE s \in Upcoming(q)
    <3>1. NoFile # <<q, s>> /\ <<r, draft[r].status>> # <<q, s>>
      BY <1>10, NamesAssumption DEF NoFile
    <3> QED
      BY <1>id, <2>3, <3>1
  <2>5. FilesFresh(q)'
    <3> SUFFICES ASSUME NEW s \in Upcoming(q), NEW id \in IDs
                 PROVE  json'[id] # <<q, s>> /\ tmp'[id] # <<q, s>>
      BY <2>2 DEF FilesFresh
    <3>1. CASE id = IdOf[r]
      BY <1>3, <2>4, <3>1
    <3>2. CASE id # IdOf[r]
      BY <1>4, <2>3, <3>2
    <3> QED
      BY <3>1, <3>2
  <2> QED
    BY <2>1, <2>5 DEF RunInv
<1> QED
  BY <1>6, <1>7, <1>8, <1>9, <1>10 DEF DirInv

\* The parts of RunInv that do not look at the directory's names.
LEMMA FreshSame ==
  ASSUME NEW r \in Runs, FilesFresh(r), UNCHANGED <<json, tmp>>, Upcoming(r)' \subseteq Upcoming(r)
  PROVE  FilesFresh(r)'
BY DEF FilesFresh

\* A run begins: no file is its own yet, and no record on disk.
LEMMA CreateInv ==
  ASSUME DirInv, TypeOK', Exclusive, NEW r \in Runs, CreateContainer(r)
  PROVE  DirInv'
<1>id. IdOf[r] \in IDs
  BY IdOfAssumption
<1>1. /\ pc[r] = "idle" /\ pc' = [pc EXCEPT ![r] = "open"]
      /\ draft' = [draft EXCEPT ![r] = Creating(r)]
      /\ UNCHANGED <<handle, proc>> /\ UNCHANGED dirvars
      /\ \A other \in Runs : IdOf[other] = IdOf[r] => ~Live(other)
  BY DEF CreateContainer, RGoto, Creating
<1>2. pc'[r] = "open" /\ draft'[r] = Creating(r)
  BY <1>1 DEF DirInv, TypeOK
<1>3. FilesFresh(r)'
  <2>1. Upcoming(r)' \subseteq Statuses /\ Upcoming(r) = Statuses
    BY <1>1 DEF Upcoming
  <2> QED
    BY <1>1, <2>1, FreshSame DEF DirInv, RunInv, dirvars
<1>4. DraftInv(r)'
  BY <1>2 DEF DraftInv, Drafts, Creating
<1>5. TempInv(r)'
  BY <1>1, <1>2 DEF DirInv, RunInv, TempInv
<1>6. OnDisk(IdOf[r])'.run # r
  <2>1. OnDisk(IdOf[r])' = OnDisk(IdOf[r])
    BY <1>1 DEF OnDisk, dirvars
  <2>2. CASE json[IdOf[r]] = NoFile
    BY <2>1, <2>2, RecordFacts DEF OnDisk
  <2>3. CASE json[IdOf[r]] # NoFile
    <3>1. PICK q \in Runs : pc[q] # "idle" /\ OnDisk(IdOf[r]) \in Drafts(q) \cup {Lost(q)}
      BY <1>id, <2>3 DEF DirInv, WholeInv
    <3>2. OnDisk(IdOf[r]).run = q /\ q # r
      BY <1>1, <3>1, RecordFacts
    <3> QED
      BY <2>1, <3>2
  <2> QED
    BY <2>2, <2>3
<1>7. DiskInv(r)'
  <2>1. Creating(r) # Created(r) /\ Creating(r) # Stopped(r)
    BY RecordFacts
  <2> QED
    BY <1>2, <1>6, <2>1 DEF DiskInv, Settled, Writing, Creating, Created, Stopped
<1>8. RunInv(r)'
  BY <1>3, <1>4, <1>5, <1>7 DEF RunInv
<1>9. \A q \in Runs : q # r =>
        draft'[q] = draft[q] /\ handle'[q] = handle[q] /\ proc'[q] = proc[q]
  BY <1>1 DEF DirInv, TypeOK
<1> QED
  BY <1>1, <1>8, <1>9, QuietStep

\* What a live run knows of its own record when it looks: it is the one it
\* wrote last, or the disk was full.
LEMMA OwnRecord ==
  ASSUME DirInv, NEW r \in Runs, pc[r] \in Settled
  PROVE  /\ OnDisk(IdOf[r]) \in {draft[r], Lost(r)}
         /\ Readable(IdOf[r]) => OnDisk(IdOf[r]) = draft[r]
BY RecordFacts DEF DirInv, RunInv, DiskInv, Readable

\* The status it asserts is the one it finds, or the PID in its record belongs
\* to another process by now.
LEMMA AssertionHolds ==
  ASSUME DirInv, NEW r \in Runs, Readable(IdOf[r])
  PROVE  /\ pc[r] = "publish" => ReadStatus(IdOf[r]) = "creating"
         /\ pc[r] = "close" /\ Pid(r, "container") \notin taken => ReadStatus(IdOf[r]) = "stopped"
<1>1. ASSUME pc[r] = "publish" PROVE ReadStatus(IdOf[r]) = "creating"
  <2>1. OnDisk(IdOf[r]) = Creating(r) /\ Live(r)
    BY <1>1, OwnRecord DEF DirInv, RunInv, DraftInv, Live, LivePcs, Settled, Writing
  <2>2. PidExists(OnDisk(IdOf[r]).pid)
    BY <2>1 DEF PidExists, Creating, Record, Pid
  <2> QED
    BY <2>1, <2>2, RecordFacts DEF ReadStatus
<1>2. ASSUME pc[r] = "close", Pid(r, "container") \notin taken
      PROVE  ReadStatus(IdOf[r]) = "stopped"
  <2>1. OnDisk(IdOf[r]) = Created(r) /\ proc[r] = "reaped"
    BY <1>2, OwnRecord DEF DirInv, RunInv, DraftInv, LivePcs, Settled, Writing
  <2>2. ~PidExists(OnDisk(IdOf[r]).pid)
    BY <1>2, <2>1 DEF PidExists, Created, Record, Pid, Alive
  <2> QED
    BY <2>2 DEF ReadStatus
<1> QED
  BY <1>1, <1>2

\* The second and third record of a run follow the one before.
LEMMA RewriteInv ==
  ASSUME DirInv, TypeOK', NEW r \in Runs, Publish(r) \/ Close(r)
  PROVE  DirInv'
<1>id. IdOf[r] \in IDs
  BY IdOfAssumption
<1>u. UNCHANGED proc /\ UNCHANGED dirvars /\ pc[r] \in {"publish", "close"}
  BY DEF Publish, Close, Rewrite
<1>live. Live(r) /\ pc[r] \in Settled
  BY <1>u DEF Live, LivePcs, Settled, Writing
<1>1. CASE REnd(r, "failed") \/ REnd(r, "aborted")
  <2>1. PICK how \in EndPcs : REnd(r, how)
    BY <1>1 DEF EndPcs
  <2>2. RunInv(r)'
    BY <2>1, Over DEF DirInv
  <2>3. how \notin LivePcs \cup {"idle"}
    BY DEF EndPcs, LivePcs
  <2> QED
    BY <1>u, <1>live, <2>1, <2>2, <2>3, QuietStep DEF REnd, RGoto, DirInv, TypeOK
<1>2. CASE ~REnd(r, "failed") /\ ~REnd(r, "aborted")
  <2> DEFINE d == IF pc[r] = "publish" THEN Created(r) ELSE Stopped(r)
  <2>1. OnDisk(IdOf[r]) = draft[r]
    <3>1. Readable(IdOf[r])
      BY <1>2 DEF Publish, Close, Rewrite
    <3> QED
      BY <1>live, <3>1, OwnRecord
  <2>2. draft[r] = IF pc[r] = "publish" THEN Creating(r) ELSE Created(r)
    BY <1>u DEF DirInv, RunInv, DraftInv
  <2>3. OnDisk(IdOf[r]).run = r
    BY <2>1, <2>2, RecordFacts DEF Drafts
  <2>4. /\ pc' = [pc EXCEPT ![r] = "open"]
        /\ draft' = [draft EXCEPT ![r] = d] /\ UNCHANGED handle
    <3>1. CASE Publish(r)
      BY <1>2, <2>3, <3>1 DEF Publish, Rewrite, RGoto, Created
    <3>2. CASE Close(r)
      BY <1>2, <2>3, <3>2 DEF Close, Rewrite, RGoto, Stopped
    <3> QED
      BY <3>1, <3>2
  <2>5. pc'[r] = "open" /\ draft'[r] = d
    BY <2>4 DEF DirInv, TypeOK
  <2>6. d \in {Created(r), Stopped(r)}
    OBVIOUS
  <2>7. FilesFresh(r)'
    <3>1. Upcoming(r)' \subseteq Upcoming(r)
      <4>1. draft[r].status = (IF pc[r] = "publish" THEN "creating" ELSE "created")
        BY <1>u, <2>2, RecordFacts
      <4>2. d.status = (IF pc[r] = "publish" THEN "created" ELSE "stopped")
        BY <1>u, RecordFacts
      <4> HIDE DEF d
      <4> QED
        BY <1>u, <1>live, <2>5, <4>1, <4>2 DEF Upcoming, Order, Statuses
    <3> QED
      BY <1>u, <3>1, FreshSame DEF DirInv, RunInv, dirvars
  <2>8. DraftInv(r)'
    BY <2>5, <2>6 DEF DraftInv, Drafts, Created, Stopped
  <2>9. TempInv(r)'
    BY <1>u, <2>4, <2>5 DEF DirInv, RunInv, TempInv
  <2>10. DiskInv(r)'
    <3>1. OnDisk(IdOf[r])' = OnDisk(IdOf[r])
      BY <1>u DEF OnDisk, dirvars
    <3>2. OnDisk(IdOf[r])' = IF pc[r] = "publish" THEN Creating(r) ELSE Created(r)
      BY <2>1, <2>2, <3>1
    <3>3. Creating(r) # Created(r) /\ Creating(r) # Stopped(r) /\ Created(r) # Stopped(r)
      BY RecordFacts
    <3> QED
      BY <2>5, <3>2, <3>3 DEF DiskInv, Settled, Writing, Creating, Created, Stopped
  <2>11. RunInv(r)'
    BY <2>7, <2>8, <2>9, <2>10 DEF RunInv
  <2> HIDE DEF d
  <2> QED
    BY <1>u, <1>live, <2>4, <2>11, QuietStep DEF DirInv, TypeOK
<1> QED
  BY <1>1, <1>2

\* The temporary file of a write.
LEMMA OpenInv ==
  ASSUME DirInv, TypeOK', NEW r \in Runs, OpenTemp(r)
  PROVE  DirInv' /\ \A id \in IDs : OnDisk(id)' = OnDisk(id)
<1>id. IdOf[r] \in IDs
  BY IdOfAssumption
<1>t. /\ json \in [IDs -> Files \cup {NoFile}]
      /\ tmp \in [IDs -> Files \cup {NoFile}]
      /\ content \in [Files -> ContentType]
  BY TypeParts DEF DirInv, DirType
<1> DEFINE f == IF tmp[IdOf[r]] = NoFile THEN <<r, draft[r].status>> ELSE tmp[IdOf[r]]
<1>1. /\ pc[r] = "open" /\ pc' = [pc EXCEPT ![r] = "fill"]
      /\ tmp' = [tmp EXCEPT ![IdOf[r]] = f] /\ content' = [content EXCEPT ![f] = Empty(r)]
      /\ handle' = [handle EXCEPT ![r] = f] /\ UNCHANGED <<draft, proc, json>>
  BY DEF OpenTemp, TempName, RGoto
<1>2. Live(r) /\ draft[r] \in Drafts(r) /\ draft[r].status \in Statuses
  BY <1>1, RecordFacts DEF DirInv, RunInv, DraftInv, Live, LivePcs
<1>3. draft[r].status \in Upcoming(r)
  BY <1>1, <1>2 DEF Upcoming
<1>4. f \in Files /\ IdOf[f[1]] = IdOf[r]
  BY <1>id, <1>t, <1>2, FileFacts DEF DirInv, NamesApart
<1>5. json[IdOf[r]] # NoFile => json[IdOf[r]] # f
  BY <1>id, <1>3 DEF DirInv, NamesApart, RunInv, FilesFresh
<1>f. f \in {tmp[IdOf[r]], <<r, draft[r].status>>, NoFile} /\ f # NoFile
  BY <1>4, FileFacts
<1> HIDE DEF f
<1>6. pc'[r] = "fill" /\ handle'[r] = f /\ tmp'[IdOf[r]] = f
  BY <1>id, <1>t, <1>1 DEF DirInv, TypeOK
<1>7. OnDisk(IdOf[r])' = OnDisk(IdOf[r])
  BY <1>id, <1>t, <1>1, <1>5 DEF OnDisk
<1>8. FilesFresh(r)'
  <2>1. \A s \in Upcoming(r)' : s \in Upcoming(r) /\ s # draft[r].status
    BY <1>1, <1>2, <1>6 DEF Upcoming, Live, Order, Statuses, LivePcs
  <2> SUFFICES ASSUME NEW s \in Upcoming(r)', NEW id \in IDs
               PROVE  json'[id] # <<r, s>> /\ tmp'[id] # <<r, s>>
    BY DEF FilesFresh
  <2>2. json[id] # <<r, s>> /\ tmp[id] # <<r, s>> /\ tmp[IdOf[r]] # <<r, s>>
    BY <1>id, <2>1 DEF DirInv, RunInv, FilesFresh
  <2>3. f # <<r, s>>
    BY <1>f, <2>1, <2>2
  <2>4. tmp'[id] = f \/ tmp'[id] = tmp[id]
    BY <1>t, <1>1
  <2> QED
    BY <1>1, <2>2, <2>3, <2>4
<1>9. DraftInv(r)'
  BY <1>1, <1>2, <1>6 DEF DraftInv, Drafts, Creating, Created, Stopped
<1>10. TempInv(r)'
  BY <1>6, <1>f DEF TempInv
<1>11. DiskInv(r)'
  BY <1>1, <1>6, <1>7 DEF DirInv, RunInv, DiskInv, Settled, Writing, LivePcs, Creating, Created, Stopped
<1>12. RunInv(r)'
  BY <1>8, <1>9, <1>10, <1>11 DEF RunInv
<1>13. json' = [json EXCEPT ![IdOf[r]] = json[IdOf[r]]]
  BY <1>id, <1>t, <1>1
<1>14. json[IdOf[r]] # NoFile =>
         \E q \in Runs : /\ IdOf[q] = IdOf[r] /\ pc'[q] # "idle"
                         /\ OnDisk(IdOf[r])' \in Drafts(q) \cup {Lost(q)}
  BY <1>id, <1>1, <1>7 DEF DirInv, WholeInv, TypeOK
<1>15. \A q \in Runs : q # r =>
         draft'[q] = draft[q] /\ handle'[q] = handle[q] /\ proc'[q] = proc[q]
  BY <1>1 DEF DirInv, TypeOK
<1>16. \E g \in Files : \E x : IdOf[g[1]] = IdOf[r] /\ content' = [content EXCEPT ![g] = x]
  BY <1>1, <1>4
<1> QED
  BY <1>1, <1>2, <1>5, <1>f, <1>7, <1>12, <1>13, <1>14, <1>15, <1>16, DirStep

\* Its content.
LEMMA FillInv ==
  ASSUME DirInv, TypeOK', NEW r \in Runs, FillTemp(r)
  PROVE  DirInv' /\ \A id \in IDs : OnDisk(id)' = OnDisk(id)
<1>id. IdOf[r] \in IDs
  BY IdOfAssumption
<1>t. /\ json \in [IDs -> Files \cup {NoFile}]
      /\ tmp \in [IDs -> Files \cup {NoFile}]
      /\ content \in [Files -> ContentType]
  BY TypeParts DEF DirInv, DirType
<1> DEFINE f == tmp[IdOf[r]]
<1>0. PICK x \in {draft[r], Lost(r)} : content' = [content EXCEPT ![handle[r]] = x]
  BY DEF FillTemp
<1>1. /\ pc[r] = "fill" /\ pc' = [pc EXCEPT ![r] = "rename"]
      /\ handle' = [handle EXCEPT ![r] = NoFile] /\ UNCHANGED <<draft, proc, json, tmp>>
  BY DEF FillTemp, RGoto
<1>2. handle[r] = f /\ f \in Files /\ f # NoFile /\ IdOf[f[1]] = IdOf[r]
  BY <1>id, <1>t, <1>1 DEF DirInv, RunInv, TempInv, NamesApart
<1>3. json[IdOf[r]] # NoFile => json[IdOf[r]] # f
  BY <1>id DEF DirInv, NamesApart
<1>4. Live(r)
  BY <1>1 DEF Live, LivePcs
<1>5. pc'[r] = "rename" /\ handle'[r] = NoFile /\ tmp'[IdOf[r]] = f /\ content'[f] = x
  BY <1>0, <1>t, <1>1, <1>2 DEF DirInv, TypeOK
<1>6. OnDisk(IdOf[r])' = OnDisk(IdOf[r])
  BY <1>id, <1>t, <1>0, <1>1, <1>2, <1>3 DEF OnDisk
<1>7. FilesFresh(r)'
  <2>1. Upcoming(r)' \subseteq Upcoming(r)
    BY <1>1, <1>4, <1>5 DEF Upcoming, Live
  <2> QED
    BY <1>1, <2>1, FreshSame DEF DirInv, RunInv
<1>8. DraftInv(r)'
  BY <1>1, <1>4, <1>5 DEF DirInv, RunInv, DraftInv, Drafts, Creating, Created, Stopped
<1>9. TempInv(r)'
  BY <1>0, <1>1, <1>2, <1>5 DEF TempInv, Lost
<1>10. DiskInv(r)'
  BY <1>1, <1>5, <1>6 DEF DirInv, RunInv, DiskInv, Settled, Writing, LivePcs, Creating, Created, Stopped
<1>11. RunInv(r)'
  BY <1>7, <1>8, <1>9, <1>10 DEF RunInv
<1>12. json' = [json EXCEPT ![IdOf[r]] = json[IdOf[r]]] /\ tmp' = [tmp EXCEPT ![IdOf[r]] = f]
  BY <1>id, <1>t, <1>1
<1>13. json[IdOf[r]] # NoFile =>
         \E q \in Runs : /\ IdOf[q] = IdOf[r] /\ pc'[q] # "idle"
                         /\ OnDisk(IdOf[r])' \in Drafts(q) \cup {Lost(q)}
  BY <1>id, <1>1, <1>6 DEF DirInv, WholeInv, TypeOK
<1>14. \A q \in Runs : q # r =>
         draft'[q] = draft[q] /\ handle'[q] = handle[q] /\ proc'[q] = proc[q]
  BY <1>1 DEF DirInv, TypeOK
<1>15. \E g \in Files : \E y : IdOf[g[1]] = IdOf[r] /\ content' = [content EXCEPT ![g] = y]
  BY <1>0, <1>2
<1> QED
  BY <1>1, <1>3, <1>4, <1>6, <1>11, <1>12, <1>13, <1>14, <1>15, DirStep

\* A file that is freed was under no other name.
LEMMA FreedFacts ==
  ASSUME DirInv, NEW r \in Runs
  PROVE  /\ \/ Freed(json[IdOf[r]]) = content
            \/ \E g \in Files : \E x : /\ IdOf[g[1]] = IdOf[r]
                                      /\ Freed(json[IdOf[r]]) = [content EXCEPT ![g] = x]
         /\ tmp[IdOf[r]] # NoFile => Freed(json[IdOf[r]])[tmp[IdOf[r]]] = content[tmp[IdOf[r]]]
<1>id. IdOf[r] \in IDs
  BY IdOfAssumption
<1>t. /\ json \in [IDs -> Files \cup {NoFile}]
      /\ tmp \in [IDs -> Files \cup {NoFile}]
      /\ content \in [Files -> ContentType]
  BY TypeParts DEF DirInv, DirType
<1>1. CASE Freed(json[IdOf[r]]) = content
  BY <1>1
<1>2. CASE Freed(json[IdOf[r]]) # content
  <2>1. /\ json[IdOf[r]] # NoFile
        /\ Freed(json[IdOf[r]]) = [content EXCEPT ![json[IdOf[r]]] = NoRecord]
    BY <1>2 DEF Freed
  <2>2. json[IdOf[r]] \in Files /\ IdOf[json[IdOf[r]][1]] = IdOf[r]
    BY <1>id, <1>t, <2>1 DEF DirInv, NamesApart
  <2>3. tmp[IdOf[r]] # json[IdOf[r]]
    BY <1>id, <2>1 DEF DirInv, NamesApart
  <2>4. tmp[IdOf[r]] # NoFile => Freed(json[IdOf[r]])[tmp[IdOf[r]]] = content[tmp[IdOf[r]]]
    BY <1>id, <1>t, <2>1, <2>3
  <2> QED
    BY <2>1, <2>2, <2>4
<1> QED
  BY <1>1, <1>2

\* The file gets the name of the record, and the one that had it is freed.
LEMMA RenameInv ==
  ASSUME DirInv, TypeOK', NEW r \in Runs, RenameTemp(r)
  PROVE  /\ DirInv'
         /\ \A id \in IDs : id # IdOf[r] => OnDisk(id)' = OnDisk(id)
         /\ OnDisk(IdOf[r])' \in {draft[r], Lost(r)}
         /\ pc'[r] \in {"clone", "setup", "remove"}
<1>id. IdOf[r] \in IDs
  BY IdOfAssumption
<1>t. /\ json \in [IDs -> Files \cup {NoFile}]
      /\ tmp \in [IDs -> Files \cup {NoFile}]
      /\ content \in [Files -> ContentType]
  BY TypeParts DEF DirInv, DirType
<1> DEFINE f == tmp[IdOf[r]]
<1> DEFINE w == AfterWrite[draft[r].status]
<1>1. pc[r] = "rename" /\ Live(r)
  BY DEF RenameTemp, Live, LivePcs
<1>2. f # NoFile /\ content[f] \in {draft[r], Lost(r)} /\ handle[r] = NoFile
  BY <1>1 DEF DirInv, RunInv, TempInv
<1>3. /\ json' = [json EXCEPT ![IdOf[r]] = f] /\ tmp' = [tmp EXCEPT ![IdOf[r]] = NoFile]
      /\ content' = Freed(json[IdOf[r]]) /\ pc' = [pc EXCEPT ![r] = w]
      /\ UNCHANGED <<draft, handle, proc>>
  BY <1>2 DEF RenameTemp, TempName, RGoto
<1>4. draft[r] \in Drafts(r)
  BY <1>1 DEF DirInv, RunInv, DraftInv
<1>5. /\ draft[r] = Creating(r) => w = "clone"
      /\ draft[r] = Created(r) => w = "setup"
      /\ draft[r] = Stopped(r) => w = "remove"
  BY RecordFacts DEF AfterWrite
<1>6. w \in {"clone", "setup", "remove"}
  BY <1>4, <1>5 DEF Drafts
<1>7. pc'[r] = w /\ json'[IdOf[r]] = f /\ content'[f] = content[f]
  <2>1. content'[f] = content[f]
    BY <1>2, <1>3, FreedFacts
  <2>2. json'[IdOf[r]] = f
    BY <1>id, <1>t, <1>3
  <2>3. pc'[r] = w
    BY <1>3 DEF DirInv, TypeOK
  <2> QED
    BY <2>1, <2>2, <2>3
<1>8. OnDisk(IdOf[r])' \in {draft[r], Lost(r)}
  BY <1>2, <1>7 DEF OnDisk
<1> HIDE DEF w
<1>9. FilesFresh(r)'
  <2>1. Upcoming(r)' \subseteq Upcoming(r)
    BY <1>1, <1>3, <1>6, <1>7 DEF Upcoming, Live
  <2> SUFFICES ASSUME NEW s \in Upcoming(r), NEW id \in IDs
               PROVE  json'[id] # <<r, s>> /\ tmp'[id] # <<r, s>>
    BY <2>1 DEF FilesFresh
  <2>2. json[id] # <<r, s>> /\ tmp[id] # <<r, s>> /\ f # <<r, s>>
    BY <1>id DEF DirInv, RunInv, FilesFresh
  <2>3. NoFile # <<r, s>>
    BY NamesAssumption DEF NoFile
  <2>4. (json'[id] = f \/ json'[id] = json[id]) /\ (tmp'[id] = NoFile \/ tmp'[id] = tmp[id])
    BY <1>t, <1>3
  <2> QED
    BY <2>2, <2>3, <2>4
<1>10. DraftInv(r)'
  BY <1>3, <1>4, <1>5, <1>6, <1>7 DEF DraftInv, Drafts, Creating, Created, Stopped
<1>11. TempInv(r)'
  BY <1>2, <1>3, <1>6, <1>7 DEF TempInv
<1>12. DiskInv(r)'
  <2>1. w \notin Writing
    BY <1>6 DEF Writing
  <2> QED
    BY <1>3, <1>7, <1>8, <2>1 DEF DiskInv, Lost
<1>13. RunInv(r)'
  BY <1>9, <1>10, <1>11, <1>12 DEF RunInv
<1>14. \E q \in Runs : /\ IdOf[q] = IdOf[r] /\ pc'[q] # "idle"
                       /\ OnDisk(IdOf[r])' \in Drafts(q) \cup {Lost(q)}
  BY <1>4, <1>6, <1>7, <1>8
<1>15. w # "idle"
  BY <1>6
<1>16. \/ content' = content
      \/ \E g \in Files : \E x : IdOf[g[1]] = IdOf[r] /\ content' = [content EXCEPT ![g] = x]
  BY <1>3, FreedFacts
<1> QED
  BY <1>1, <1>2, <1>3, <1>6, <1>7, <1>8, <1>13, <1>14, <1>15, <1>16, DirStep

\* The name of the record is removed, and the run is over.
LEMMA RemoveInv ==
  ASSUME DirInv, TypeOK', NEW r \in Runs, Remove(r)
  PROVE  DirInv' /\ \A id \in IDs : id # IdOf[r] => OnDisk(id)' = OnDisk(id)
<1>id. IdOf[r] \in IDs
  BY IdOfAssumption
<1>t. tmp \in [IDs -> Files \cup {NoFile}]
  BY TypeParts DEF DirInv, DirType
<1>1. /\ pc[r] = "remove" /\ REnd(r, "returned") /\ UNCHANGED <<proc, tmp>>
      /\ json' = [json EXCEPT ![IdOf[r]] = NoFile] /\ content' = Freed(json[IdOf[r]])
  BY DEF Remove
<1>2. Live(r)
  BY <1>1 DEF Live, LivePcs
<1>3. RunInv(r)'
  BY <1>1, Over DEF DirInv, EndPcs
<1>4. tmp' = [tmp EXCEPT ![IdOf[r]] = tmp[IdOf[r]]]
  BY <1>id, <1>t, <1>1
<1>5. pc' = [pc EXCEPT ![r] = "returned"]
  BY <1>1 DEF REnd, RGoto
<1>6. \A q \in Runs : q # r =>
        draft'[q] = draft[q] /\ handle'[q] = handle[q] /\ proc'[q] = proc[q]
  BY <1>1 DEF DirInv, TypeOK, REnd
<1>7. \/ content' = content
      \/ \E g \in Files : \E x : IdOf[g[1]] = IdOf[r] /\ content' = [content EXCEPT ![g] = x]
  BY <1>1, FreedFacts
<1> QED
  BY <1>1, <1>2, <1>3, <1>4, <1>5, <1>6, <1>7, DirStep

\* The steps of a run that leave the directory alone and its draft and its
\* place within the same clause of the invariant.
LEMMA OwnQuiet ==
  ASSUME DirInv, NEW r \in Runs, UNCHANGED dirvars, Live(r), pc[r] # "fill",
         UNCHANGED <<draft, handle>>, NEW w \in Settled, pc' = [pc EXCEPT ![r] = w],
         pc[r] \in Settled, w \in {"clone", "publish"} => draft[r] = Creating(r),
         w \in {"setup", "started", "wait", "close"} => draft[r] = Created(r),
         w = "remove" => draft[r] = Stopped(r),
         w = "close" => proc'[r] = "reaped"
  PROVE  RunInv(r)'
<1>1. pc'[r] = w /\ w \in LivePcs /\ w \notin Writing
  BY DEF DirInv, TypeOK, Settled
<1>2. OnDisk(IdOf[r])' = OnDisk(IdOf[r])
  BY DEF OnDisk, dirvars
<1>3. FilesFresh(r)'
  <2>1. Upcoming(r)' \subseteq Upcoming(r)
    BY <1>1 DEF Upcoming, Live, Writing, LivePcs
  <2> QED
    BY <2>1, FreshSame DEF DirInv, RunInv, dirvars
<1>4. DraftInv(r)'
  BY <1>1 DEF DirInv, RunInv, DraftInv, Live, LivePcs, Drafts, Creating, Created, Stopped
<1>5. TempInv(r)'
  BY <1>1 DEF DirInv, RunInv, TempInv, Writing
<1>6. DiskInv(r)'
  BY <1>1, <1>2 DEF DirInv, RunInv, DiskInv, Lost
<1> QED
  BY <1>3, <1>4, <1>5, <1>6 DEF RunInv

\* The steps between the writes, and failures.
LEMMA ForwardInv ==
  ASSUME DirInv, TypeOK', NEW r \in Runs,
         Clone(r) \/ Configure(r) \/ ReadPid(r) \/ WaitContainerProcess(r) \/ RunEnds(r)
  PROVE  DirInv'
<1>q. /\ UNCHANGED dirvars /\ Live(r)
      /\ \A q \in Runs : q # r =>
           draft'[q] = draft[q] /\ handle'[q] = handle[q] /\ proc'[q] = proc[q]
  BY DEF Clone, Configure, ReadPid, WaitContainerProcess, RunEnds, REnd, DirInv, TypeOK,
         Live, LivePcs
<1>1. CASE REnd(r, "failed")
  BY <1>q, <1>1, Over, QuietStep DEF DirInv, REnd, RGoto, EndPcs, LivePcs
<1>2. CASE Clone(r) \/ Configure(r)
  <2>1. PICK w \in {"publish", "started"} :
          /\ pc' = [pc EXCEPT ![r] = w] /\ UNCHANGED <<draft, handle>>
          /\ w = "publish" => pc[r] = "clone"
          /\ w = "started" => pc[r] = "setup"
    BY <1>2 DEF Clone, Configure, RGoto
  <2>2. w \in Settled /\ pc[r] \in Settled /\ pc[r] # "fill"
    BY <2>1 DEF Settled, LivePcs, Writing
  <2>3. /\ w \in {"clone", "publish"} => draft[r] = Creating(r)
        /\ w \in {"setup", "started", "wait", "close"} => draft[r] = Created(r)
    BY <2>1 DEF DirInv, RunInv, DraftInv
  <2>4. RunInv(r)'
    BY <1>q, <2>1, <2>2, <2>3, OwnQuiet
  <2> QED
    BY <1>q, <2>1, <2>4, QuietStep
<1>3. CASE ReadPid(r) /\ Readable(IdOf[r])
  <2>1. pc[r] = "started" /\ pc[r] \in Settled
    BY <1>3 DEF ReadPid, Settled, LivePcs, Writing
  <2>2. OnDisk(IdOf[r]) = draft[r] /\ draft[r] = Created(r)
    BY <1>3, <2>1, OwnRecord DEF DirInv, RunInv, DraftInv
  <2>3. pc' = [pc EXCEPT ![r] = "wait"] /\ UNCHANGED <<draft, handle>>
    BY <1>3, <2>2 DEF ReadPid, RGoto, DirInv, TypeOK
  <2>4. RunInv(r)'
    BY <1>q, <2>1, <2>2, <2>3, OwnQuiet DEF Settled, LivePcs, Writing
  <2> QED
    BY <1>q, <2>3, <2>4, QuietStep
<1>4. CASE WaitContainerProcess(r) /\ draft[r].pid = Pid(r, "container")
  <2>1. pc[r] = "wait" /\ pc[r] \in Settled /\ draft[r] = Created(r)
    BY <1>4 DEF WaitContainerProcess, Settled, LivePcs, Writing, DirInv, RunInv, DraftInv
  <2>2. /\ pc' = [pc EXCEPT ![r] = "close"] /\ UNCHANGED <<draft, handle>>
        /\ proc'[r] = "reaped"
    BY <1>4 DEF WaitContainerProcess, RGoto, DirInv, TypeOK
  <2>3. RunInv(r)'
    BY <1>q, <2>1, <2>2, OwnQuiet DEF Settled, LivePcs, Writing
  <2> QED
    BY <1>q, <2>2, <2>3, QuietStep
<1> QED
  BY <1>1, <1>2, <1>3, <1>4 DEF ReadPid, WaitContainerProcess, RunEnds

\* The life of a container's process: once reaped it stays so.
LEMMA ProcessInv ==
  ASSUME DirInv, TypeOK', NEW r \in Runs, ProcessStarts(r) \/ ProcessDies(r) \/ InitReaps(r)
  PROVE  DirInv'
<1>1. UNCHANGED dirvars /\ UNCHANGED <<pc, draft, handle>>
  BY DEF ProcessStarts, ProcessDies, InitReaps
<1>2. \A q \in Runs : proc[q] = "reaped" => proc'[q] = "reaped"
  BY DEF ProcessStarts, ProcessDies, InitReaps, Alive, DirInv, TypeOK
<1>3. \A id \in IDs : OnDisk(id)' = OnDisk(id) /\ json'[id] = json[id]
  BY <1>1 DEF OnDisk, dirvars
<1>4. OneRunPerID' /\ NamesApart' /\ WholeInv'
  BY <1>1, <1>3 DEF DirInv, OneRunPerID, NamesApart, WholeInv, Live, dirvars,
                    Drafts, Creating, Created, Stopped, Lost
<1>5. ASSUME NEW q \in Runs PROVE RunInv(q)'
  <2>1. FilesFresh(q)'
    BY <1>1 DEF DirInv, RunInv, FilesFresh, Upcoming, Live, dirvars
  <2>2. DraftInv(q)'
    BY <1>1, <1>2 DEF DirInv, RunInv, DraftInv, Live, Drafts, Creating, Created, Stopped
  <2>3. TempInv(q)'
    BY <1>1 DEF DirInv, RunInv, TempInv, dirvars
  <2>4. OnDisk(IdOf[q])' = OnDisk(IdOf[q])
    BY <1>1 DEF OnDisk, dirvars
  <2>5. DiskInv(q)'
    BY <1>1, <2>4 DEF DirInv, RunInv, DiskInv, Creating, Created
  <2> QED
    BY <2>1, <2>2, <2>3, <2>5 DEF RunInv
<1> QED
  BY <1>4, <1>5 DEF DirInv

\* Steps that change nothing but the state of a command.
LEMMA IdleInv ==
  ASSUME DirInv, TypeOK', UNCHANGED runvars, UNCHANGED dirvars
  PROVE  DirInv'
<1>1. \A id \in IDs : OnDisk(id)' = OnDisk(id) /\ json'[id] = json[id]
  BY DEF OnDisk, dirvars
<1>2. OneRunPerID' /\ NamesApart' /\ WholeInv'
  BY <1>1 DEF DirInv, OneRunPerID, NamesApart, WholeInv, Live, runvars, dirvars,
              Drafts, Creating, Created, Stopped, Lost
<1>3. \A q \in Runs : RunInv(q)'
  BY OthersKeepQuiet DEF DirInv, runvars
<1> QED
  BY <1>2, <1>3 DEF DirInv

\* The invariant holds at the start ...
LEMMA DirInvInit == Init => DirInv
<1> SUFFICES ASSUME Init PROVE DirInv
  OBVIOUS
<1>1. TypeOK
  BY TypeInit
<1>2. OneRunPerID /\ NamesApart /\ WholeInv
  BY DEF Init, OneRunPerID, NamesApart, WholeInv, Live, LivePcs
<1>3. ASSUME NEW r \in Runs PROVE RunInv(r)
  <2>1. FilesFresh(r)
    BY NamesAssumption DEF Init, FilesFresh, NoFile
  <2>2. DraftInv(r) /\ TempInv(r) /\ DiskInv(r)
    BY <1>3 DEF Init, DraftInv, TempInv, DiskInv, Live, LivePcs, Settled, Writing
  <2> QED
    BY <2>1, <2>2 DEF RunInv
<1> QED
  BY <1>1, <1>2, <1>3 DEF DirInv

\* ... and every step keeps it.
LEMMA DirInvStep == ASSUME Exclusive, DirInv, [Next]_vars PROVE DirInv'
<1>1. TypeOK'
  BY TypeStep DEF DirInv
<1>2. ASSUME NEW r \in Runs, RunStep(r) PROVE DirInv'
  BY <1>1, <1>2, CreateInv, OpenInv, FillInv, RenameInv, RewriteInv, RemoveInv,
     ForwardInv, ProcessInv DEF RunStep
<1>3. ASSUME NEW c \in Clients, ClientStep(c) PROVE DirInv'
  <2>1. UNCHANGED runvars /\ UNCHANGED dirvars
    BY <1>3 DEF ClientStep, OpenDirectory, VisitEntry, ContainersFound, ListStatus,
                PrintStatuses, ExecReadsPid, NsEnter
  <2> QED
    BY <1>1, <2>1, IdleInv
<1>4. CASE PidReused \/ UNCHANGED vars
  BY <1>1, <1>4, IdleInv DEF PidReused, vars
<1> QED
  BY <1>2, <1>3, <1>4 DEF Next

\* The invariant holds for any number of runs, IDs and commands, if callers
\* give a new run the ID of a live run never.
THEOREM DirInvCorrect == ASSUME Exclusive PROVE Spec => []DirInv
<1>1. DirInv /\ [Next]_vars => DirInv'
  BY DirInvStep
<1> QED
  BY <1>1, DirInvInit, PTL DEF Spec

\* A file under a record's name is never half written: a run is killed at any
\* step of atomic_write, and the next one with its ID takes its leftovers over,
\* but a name is given to a file only once its content is all there.
THEOREM RecordsWholeCorrect == ASSUME Exclusive PROVE Spec => []RecordsWhole
<1>1. DirInv => RecordsWhole
  <2> SUFFICES ASSUME DirInv, NEW id \in IDs, json[id] # NoFile
               PROVE  OnDisk(id).status # "empty"
    BY DEF RecordsWhole
  <2>1. PICK r \in Runs : OnDisk(id) \in Drafts(r) \cup {Lost(r)}
    BY DEF DirInv, WholeInv
  <2> QED
    BY <2>1, RecordFacts
<1> QED
  BY <1>1, DirInvCorrect, PTL

\* The temporary name of a write in progress leads to the file that this run
\* has open, and at the rename to what this run has written.
THEOREM TempFileIsOursCorrect == ASSUME Exclusive PROVE Spec => []TempFileIsOurs
<1>1. DirInv => TempFileIsOurs
  BY DEF DirInv, RunInv, TempInv, TempFileIsOurs
<1> QED
  BY <1>1, DirInvCorrect, PTL

\* A run that is over stays over, and a process that was reaped is not cloned
\* again.
LEMMA GoneStays ==
  ASSUME DirInv, TakenInv, NEW r \in Runs, RunStep(r), NEW pid \in Pids, Gone(pid)
  PROVE  Gone(pid)'
<1>1. PICK q \in Runs : pid.run = q
  BY DEF Pids, Pid
<1>2. pc[q] \in EndPcs => pc'[q] \in EndPcs
  <2>1. CASE q # r
    <3>1. pc'[q] = pc[q]
      BY <2>1 DEF DirInv, TypeOK, RunStep, CreateContainer, OpenTemp, FillTemp, RenameTemp, Clone,
         Publish, Configure, ReadPid, WaitContainerProcess, Close, Rewrite, Remove, RunEnds,
         ProcessStarts, ProcessDies, InitReaps, REnd, RGoto
    <3> QED
      BY <3>1
  <2>2. CASE q = r /\ pc[q] \in EndPcs
    <3>1. UNCHANGED pc
      BY <2>2 DEF RunStep, CreateContainer, OpenTemp, FillTemp, RenameTemp, Clone, Publish,
         Configure, ReadPid, WaitContainerProcess, Close, Rewrite, Remove, RunEnds,
         ProcessStarts, ProcessDies, InitReaps, Live, LivePcs, EndPcs
    <3> QED
      BY <3>1
  <2> QED
    BY <2>1, <2>2
<1>3. proc[q] = "reaped" => proc'[q] = "reaped"
  <2>1. CASE Clone(r)
    <3>1. pc[r] = "clone" /\ proc' = [proc EXCEPT ![r] = "setup"]
      BY <2>1 DEF Clone
    <3>2. proc[r] = "none"
      BY <3>1 DEF TakenInv, NotCloned, DirInv, RunInv, DraftInv
    <3> QED
      BY <3>1, <3>2 DEF DirInv, TypeOK
  <2>2. CASE ~Clone(r)
    BY <2>2 DEF DirInv, TypeOK, RunStep, CreateContainer, OpenTemp, FillTemp, RenameTemp,
       Publish, Configure, ReadPid, WaitContainerProcess, Close, Rewrite, Remove, RunEnds,
       ProcessStarts, ProcessDies, InitReaps, Alive
  <2> QED
    BY <2>1, <2>2
<1> QED
  BY <1>1, <1>2, <1>3 DEF Gone

\* A run has no process before it clones.
LEMMA CloneStep ==
  ASSUME DirInv, TypeOK', TakenInv, NEW r \in Runs, RunStep(r), NEW q \in Runs
  PROVE  NotCloned(q)' => proc'[q] = "none"
<1>a. NotCloned(q) => proc[q] = "none"
  BY DEF TakenInv
<1>t. /\ pc \in [Runs -> LivePcs \cup EndPcs \cup {"idle"}]
      /\ proc \in [Runs -> Alive \cup {"none", "zombie", "reaped"}]
      /\ draft \in [Runs -> DraftRec \cup {NoRecord}]
  BY TypeParts DEF DirInv, RunsType
<1>1. CASE q # r
  <2>1. pc'[q] = pc[q] /\ draft'[q] = draft[q] /\ proc'[q] = proc[q]
    BY <1>1, <1>t DEF RunStep, CreateContainer, OpenTemp, FillTemp, RenameTemp, Clone,
       Publish, Configure, ReadPid, WaitContainerProcess, Close, Rewrite, Remove, RunEnds,
       ProcessStarts, ProcessDies, InitReaps, REnd, RGoto
  <2> QED
    BY <1>a, <2>1 DEF NotCloned, Creating
<1>2. CASE q = r /\ (CreateContainer(r) \/ OpenTemp(r) \/ FillTemp(r))
  <2>1. proc' = proc /\ pc[r] \in {"idle", "open", "fill"}
    BY <1>2 DEF CreateContainer, OpenTemp, FillTemp
  <2>2. pc[r] # "idle" => draft' = draft
    BY <1>2 DEF CreateContainer, OpenTemp, FillTemp
  <2>3. pc'[r] # "idle"
    BY <1>2, <1>t DEF CreateContainer, OpenTemp, FillTemp, RGoto
  <2>4. NotCloned(r)' => NotCloned(r)
    BY <2>1, <2>2, <2>3 DEF NotCloned, Writing, Creating
  <2> QED
    BY <1>a, <1>2, <2>1, <2>4
<1>3. CASE q = r /\ RenameTemp(r)
  <2>1. pc[r] = "rename" /\ proc' = proc
    BY <1>3 DEF RenameTemp
  <2>2. draft' = draft \/ pc'[r] \in EndPcs
    BY <1>3, <1>t DEF RenameTemp, REnd, RGoto, EndPcs
  <2>3. pc'[r] \notin EndPcs
    BY <1>3, RenameInv DEF EndPcs
  <2>4. draft' = draft /\ pc'[r] # "idle"
    BY <1>3, <2>2, <2>3, RenameInv
  <2>5. NotCloned(r)' => NotCloned(r)
    BY <2>1, <2>4 DEF NotCloned, Writing, Creating
  <2> QED
    BY <1>a, <1>3, <2>1, <2>5
<1>4. CASE q = r /\ (Publish(r) \/ Close(r))
  <2>1. PICK w \in {"failed", "aborted", "open"} : pc'[r] = w
    BY <1>4, <1>t DEF Publish, Close, Rewrite, REnd, RGoto
  <2>2. w = "open" => draft'[r].status \in {"created", "stopped"}
    <3>1. pc[r] \in {"publish", "close"}
      BY <1>4 DEF Publish, Close, Rewrite
    <3> QED
      BY <1>4, <1>t, <2>1, <3>1 DEF Publish, Close, Rewrite, REnd, RGoto, Record
  <2> QED
    BY <1>4, <2>1, <2>2, RecordFacts DEF NotCloned, Writing, Creating, Record
<1>5. CASE q = r /\ (Clone(r) \/ Configure(r) \/ ReadPid(r) \/ WaitContainerProcess(r)
                       \/ Remove(r) \/ RunEnds(r))
  <2>1. pc'[r] \notin Writing \cup {"idle", "clone"}
    BY <1>5, <1>t DEF Clone, Configure, ReadPid, WaitContainerProcess, Remove, RunEnds,
       REnd, RGoto, Writing
  <2> QED
    BY <1>5, <2>1 DEF NotCloned
<1>6. CASE q = r /\ (ProcessStarts(r) \/ ProcessDies(r) \/ InitReaps(r))
  <2>1. UNCHANGED <<pc, draft>> /\ proc[r] # "none"
    BY <1>6 DEF ProcessStarts, ProcessDies, InitReaps, Alive
  <2> QED
    BY <1>a, <1>6, <2>1 DEF NotCloned, Creating
<1> QED
  BY <1>1, <1>2, <1>3, <1>4, <1>5, <1>6 DEF RunStep

\* Only the second assertion of container::run can fail, and only if the PID of
\* the container is in use again.
LEMMA AbortStep ==
  ASSUME DirInv, TakenInv, NEW r \in Runs, RunStep(r), NEW q \in Runs, pc'[q] = "aborted"
  PROVE  Pid(q, "container") \in taken
<1>1. CASE pc[q] = "aborted"
  BY <1>1 DEF TakenInv
<1>2. CASE pc[q] # "aborted"
  <2>1. q = r /\ ~RenameTemp(r) /\ (Publish(r) \/ Close(r))
    <3>1. \A s \in Statuses : AfterWrite[s] # "aborted"
      BY DEF AfterWrite, Statuses
    <3>2. pc[r] = "rename" => draft[r].status \in Statuses
      BY RecordFacts DEF DirInv, RunInv, DraftInv, Live, LivePcs
    <3> QED
      BY <1>2, <3>1, <3>2 DEF DirInv, TypeOK, RunStep, CreateContainer, OpenTemp, FillTemp,
         RenameTemp, Clone, Publish, Configure, ReadPid, WaitContainerProcess, Close,
         Rewrite, Remove, RunEnds, ProcessStarts, ProcessDies, InitReaps, REnd, RGoto
  <2>2. /\ pc[r] \in {"publish", "close"} /\ Readable(IdOf[r])
        /\ pc[r] = "publish" => ReadStatus(IdOf[r]) # "creating"
        /\ pc[r] = "close" => ReadStatus(IdOf[r]) # "stopped"
    BY <2>1 DEF Publish, Close, Rewrite, REnd, RGoto, DirInv, TypeOK
  <2> QED
    BY <2>1, <2>2, AssertionHolds
<1> QED
  BY <1>1, <1>2

\* Every step keeps what is known about PIDs that are used again.
LEMMA TakenStep ==
  ASSUME Exclusive, DirInv, TakenInv, [Next]_vars
  PROVE  TakenInv'
<1>1. TypeOK' /\ taken \subseteq Pids
  BY TypeStep DEF DirInv, TypeOK
<1>2. ASSUME NEW r \in Runs, RunStep(r), UNCHANGED taken PROVE TakenInv'
  <2>1. \A q \in Runs : NotCloned(q)' => proc'[q] = "none"
    BY <1>1, <1>2, CloneStep
  <2>2. \A pid \in taken' : Gone(pid)'
    BY <1>1, <1>2, GoneStays DEF TakenInv
  <2>3. \A q \in Runs : pc'[q] = "aborted" => Pid(q, "container") \in taken'
    BY <1>2, AbortStep
  <2> QED
    BY <2>1, <2>2, <2>3 DEF TakenInv, Pid
<1>3. ASSUME UNCHANGED runvars, taken \subseteq taken', \A pid \in taken' : Gone(pid)
      PROVE  TakenInv'
  <2>1. \A pid : Gone(pid)' <=> Gone(pid)
    BY <1>3 DEF Gone, runvars
  <2>2. \A q \in Runs : NotCloned(q)' <=> NotCloned(q)
    BY <1>3 DEF NotCloned, Creating, runvars
  <2> QED
    BY <1>3, <2>1, <2>2 DEF TakenInv, Pid, runvars
<1>4. ASSUME NEW c \in Clients, ClientStep(c), UNCHANGED taken PROVE TakenInv'
  BY <1>3, <1>4, ClientAlone DEF TakenInv, DirInv
<1>5. CASE PidReused
  BY <1>3, <1>5 DEF PidReused, TakenInv
<1>6. CASE UNCHANGED vars
  BY <1>3, <1>6 DEF vars, TakenInv
<1> QED
  BY <1>2, <1>4, <1>5, <1>6 DEF Next

\* ... so it is an invariant.
LEMMA TakenInvariant == ASSUME Exclusive PROVE Spec => []TakenInv
<1>1. Init => TakenInv
  BY DEF Init, TakenInv
<1>2. DirInv /\ TakenInv /\ [Next]_vars => TakenInv'
  BY TakenStep
<1> QED
  BY <1>1, <1>2, DirInvCorrect, PTL DEF Spec

\* Each read of its own record finds what a run wrote last, or a file that no
\* space was left for, whatever dead runs with its ID have left and whatever
\* others do; what it waits for is its own child; and an assertion of
\* container::run fails only if the PID of its container, once waited for, was
\* given to another process before the record is read again.
THEOREM RunFindsOwnRecordCorrect == ASSUME Exclusive PROVE Spec => []RunFindsOwnRecord
<1>1. DirInv /\ TakenInv => RunFindsOwnRecord
  <2> SUFFICES ASSUME DirInv, TakenInv, NEW r \in Runs
               PROVE  /\ pc[r] = "aborted" => Pid(r, "container") \in taken
                      /\ pc[r] \in {"clone", "publish", "setup", "started", "wait",
                                    "close", "remove"} =>
                           OnDisk(IdOf[r]) \in {draft[r], Lost(r)}
                      /\ pc[r] = "wait" => draft[r].pid = Pid(r, "container")
    BY DEF RunFindsOwnRecord
  <2>1. pc[r] = "aborted" => Pid(r, "container") \in taken
    BY DEF TakenInv
  <2>2. ASSUME pc[r] \in {"clone", "publish", "setup", "started", "wait", "close", "remove"}
        PROVE  OnDisk(IdOf[r]) \in {draft[r], Lost(r)}
    <3>1. pc[r] \in Settled
      BY <2>2 DEF Settled, LivePcs, Writing
    <3> QED
      BY <3>1, OwnRecord
  <2>3. ASSUME pc[r] = "wait" PROVE draft[r].pid = Pid(r, "container")
    <3>1. draft[r] = Created(r)
      BY <2>3 DEF DirInv, RunInv, DraftInv
    <3> QED
      BY <3>1 DEF Created, Record
  <2> QED
    BY <2>1, <2>2, <2>3
<1> QED
  BY <1>1, DirInvCorrect, TakenInvariant, PTL

-----------------------------------------------------------------------------
(* The registry.                                                           *)

\* A record is unreadable only when a write has found no space.
LEMMA LostStep == ASSUME TypeOK, LostInv, [Next]_vars PROVE LostInv'
<1>t. content \in [Files -> ContentType]
  BY TypeParts DEF DirType
<1>1. CASE UNCHANGED content
  BY <1>1 DEF LostInv
<1>2. ASSUME ~DiskMayFill, NEW f, NEW x, x.status # "unreadable",
             content' = [content EXCEPT ![f] = x]
      PROVE  LostInv'
  BY <1>t, <1>2 DEF LostInv
<1>3. ASSUME NEW r \in Runs, OpenTemp(r) \/ FillTemp(r) \/ RenameTemp(r) \/ Remove(r)
      PROVE  LostInv'
  <2> SUFFICES ASSUME ~DiskMayFill PROVE LostInv'
    BY DEF LostInv
  <2>1. Empty(r).status # "unreadable" /\ NoRecord.status # "unreadable"
    BY DEF Empty, NoRecord, Record
  <2>2. CASE OpenTemp(r)
    BY <1>2, <2>1, <2>2 DEF OpenTemp
  <2>3. CASE FillTemp(r)
    <3>1. pc[r] \in LivePcs
      BY <2>3 DEF FillTemp, LivePcs
    <3>2. draft[r].status # "unreadable"
      BY <3>1 DEF TypeOK, Statuses
    <3> QED
      BY <1>2, <2>3, <3>2 DEF FillTemp
  <2>4. CASE RenameTemp(r) \/ Remove(r)
    BY <1>1, <1>2, <2>1, <2>4 DEF RenameTemp, Remove, Freed, dirvars
  <2> QED
    BY <1>3, <2>2, <2>3, <2>4
<1>4. ASSUME NEW r \in Runs, RunStep(r) PROVE LostInv'
  BY <1>1, <1>3, <1>4 DEF RunStep, CreateContainer, Clone, Publish, Close, Rewrite, Configure,
     ReadPid, WaitContainerProcess, RunEnds, ProcessStarts, ProcessDies, InitReaps, dirvars
<1>5. ASSUME NEW c \in Clients, ClientStep(c) PROVE LostInv'
  BY <1>1, <1>5 DEF ClientStep, OpenDirectory, VisitEntry, ContainersFound, ListStatus,
     PrintStatuses, ExecReadsPid, NsEnter, dirvars
<1>6. CASE PidReused \/ UNCHANGED vars
  BY <1>1, <1>6 DEF PidReused, vars, dirvars
<1> QED
  BY <1>4, <1>5, <1>6 DEF Next

\* The registry of the refinement mapping.
Reg   == [id \in IDs |-> [run |-> OnDisk(id).run, status |-> OnDisk(id).status]]
Ended == {r \in Runs : pc[r] \in EndPcs}

\* A step that changes no record and ends no run is none of the registry.
LEMMA RegistryStays ==
  ASSUME \A id \in IDs : OnDisk(id)' = OnDisk(id),
         \A r \in Runs : pc'[r] \in EndPcs <=> pc[r] \in EndPcs
  PROVE  UNCHANGED R!rvars
BY DEF R!rvars

\* A step that ends run r and changes no record is R!End.
LEMMA RegistryEnds ==
  ASSUME TypeOK, NEW r \in Runs, Live(r), NEW how \in EndPcs, REnd(r, how),
         \A id \in IDs : OnDisk(id)' = OnDisk(id)
  PROVE  R!End(r)
<1>1. \A q \in Runs : pc'[q] = IF q = r THEN how ELSE pc[q]
  BY DEF TypeOK, REnd, RGoto
<1>2. pc[r] \notin EndPcs
  BY DEF Live, LivePcs, EndPcs
<1>3. Ended' = Ended \cup {r} /\ r \notin Ended
  BY <1>1, <1>2 DEF Ended
<1>4. Reg' = Reg
  BY DEF Reg
<1> QED
  BY <1>3, <1>4 DEF R!End, Ended, Reg

\* The rename is the moment of a write: the record of this ID goes to the next
\* status of this run, at once and from the right one, and no other changes.
LEMMA RenameRefines ==
  ASSUME DirInv, TypeOK', LostInv', NEW r \in Runs, RenameTemp(r)
  PROVE  R!Create(r) \/ R!Publish(r) \/ R!Close(r)
<1>id. IdOf[r] \in IDs
  BY IdOfAssumption
<1>1. pc[r] = "rename" /\ Live(r) /\ draft[r] \in Drafts(r)
  BY DEF RenameTemp, Live, LivePcs, DirInv, RunInv, DraftInv
<1>2. /\ \A id \in IDs : id # IdOf[r] => OnDisk(id)' = OnDisk(id)
      /\ OnDisk(IdOf[r])' \in {draft[r], Lost(r)} /\ pc'[r] \in {"clone", "setup", "remove"}
  BY RenameInv
<1>3. \A q \in Runs : pc'[q] \in EndPcs <=> pc[q] \in EndPcs
  <2>1. \A q \in Runs : q # r => pc'[q] = pc[q]
    BY DEF RenameTemp, REnd, RGoto, DirInv, TypeOK
  <2>2. pc[r] \notin EndPcs /\ pc'[r] \notin EndPcs
    BY <1>1, <1>2 DEF EndPcs
  <2> QED
    BY <2>1, <2>2
<1>4. r \notin Ended /\ UNCHANGED Ended
  BY <1>1, <1>3 DEF Ended, EndPcs
<1>5. ASSUME OnDisk(IdOf[r])' = Lost(r) PROVE DiskMayFill
  <2>1. json'[IdOf[r]] \in Files \/ json'[IdOf[r]] = NoFile
    BY <1>id DEF TypeOK
  <2>2. OnDisk(IdOf[r])'.status = "unreadable" /\ NoRecord.status # "unreadable"
    BY <1>5 DEF Lost, NoRecord, Record
  <2> QED
    BY <2>1, <2>2 DEF LostInv, OnDisk
<1>6. \/ Reg' = [Reg EXCEPT ![IdOf[r]] = R!Of(r, draft[r].status)]
      \/ DiskMayFill /\ Reg' = [Reg EXCEPT ![IdOf[r]] = R!Of(r, "unreadable")]
  <2>1. draft[r].run = r /\ Lost(r) = Record(r, NoPid, "unreadable")
    BY <1>1, RecordFacts DEF Lost
  <2>2. CASE OnDisk(IdOf[r])' = draft[r]
    BY <1>id, <1>2, <2>1, <2>2 DEF Reg, R!Of
  <2>3. CASE OnDisk(IdOf[r])' = Lost(r)
    <3>1. OnDisk(IdOf[r])'.run = r /\ OnDisk(IdOf[r])'.status = "unreadable"
      BY <2>3 DEF Lost, Record
    <3> QED
      BY <1>id, <1>2, <1>5, <2>3, <3>1 DEF Reg, R!Of
  <2> QED
    BY <1>2, <2>2, <2>3
<1>7. R!Put(r, draft[r].status)
  BY <1>4, <1>6 DEF R!Put, Reg, Ended
<1>8. /\ draft[r] = Creating(r) => OnDisk(IdOf[r]).run # r
      /\ draft[r] = Created(r) => OnDisk(IdOf[r]) = Creating(r)
      /\ draft[r] = Stopped(r) => OnDisk(IdOf[r]) = Created(r)
  BY <1>1 DEF DirInv, RunInv, DiskInv, Writing
<1>9. CASE draft[r] = Creating(r)
  <2>1. draft[r].status = "creating"
    BY <1>9, RecordFacts
  <2>2. Reg[IdOf[r]] = R!NoRecord \/ Reg[IdOf[r]].run \in Ended
    <3>1. CASE json[IdOf[r]] = NoFile
      BY <1>id, <3>1 DEF Reg, OnDisk, NoRecord, Record, R!NoRecord
    <3>2. CASE json[IdOf[r]] # NoFile
      <4>1. PICK q \in Runs : /\ IdOf[q] = IdOf[r] /\ pc[q] # "idle"
                             /\ OnDisk(IdOf[r]) \in Drafts(q) \cup {Lost(q)}
        BY <1>id, <3>2 DEF DirInv, WholeInv
      <4>2. OnDisk(IdOf[r]).run = q /\ q # r
        BY <1>8, <1>9, <4>1, RecordFacts
      <4>3. ~Live(q)
        BY <1>1, <4>1, <4>2 DEF DirInv, OneRunPerID
      <4>4. q \in Ended
        BY <4>1, <4>3 DEF DirInv, TypeOK, Ended, Live
      <4> QED
        BY <1>id, <4>2, <4>4 DEF Reg
    <3> QED
      BY <3>1, <3>2
  <2> QED
    BY <1>4, <1>7, <2>1, <2>2 DEF R!Create, Reg, Ended
<1>10. CASE draft[r] = Created(r)
  <2>1. draft[r].status = "created" /\ Reg[IdOf[r]] = R!Of(r, "creating")
    BY <1>id, <1>8, <1>10, RecordFacts DEF Reg, R!Of, Drafts
  <2> QED
    BY <1>4, <1>7, <2>1 DEF R!Publish, Reg, Ended
<1>11. CASE draft[r] = Stopped(r)
  <2>1. draft[r].status = "stopped" /\ Reg[IdOf[r]] = R!Of(r, "created")
    BY <1>id, <1>8, <1>11, RecordFacts DEF Reg, R!Of, Drafts
  <2> QED
    BY <1>4, <1>7, <2>1 DEF R!Close, Reg, Ended
<1> QED
  BY <1>1, <1>9, <1>10, <1>11 DEF Drafts

\* The removal is the end of a run whose record was its last, or was lost.
LEMMA RemoveRefines ==
  ASSUME DirInv, TypeOK', NEW r \in Runs, Remove(r)
  PROVE  R!Remove(r)
<1>id. IdOf[r] \in IDs
  BY IdOfAssumption
<1>1. pc[r] = "remove" /\ REnd(r, "returned") /\ json' = [json EXCEPT ![IdOf[r]] = NoFile]
  BY DEF Remove
<1>2. \A q \in Runs : pc'[q] = IF q = r THEN "returned" ELSE pc[q]
  BY <1>1 DEF DirInv, TypeOK, REnd, RGoto
<1>3. r \notin Ended /\ Ended' = Ended \cup {r}
  BY <1>1, <1>2 DEF Ended, EndPcs
<1>4. OnDisk(IdOf[r])' = NoRecord
  BY <1>id, <1>1 DEF OnDisk, DirInv, TypeOK
<1>5. \A id \in IDs : id # IdOf[r] => OnDisk(id)' = OnDisk(id)
  BY RemoveInv
<1>6. Reg' = [Reg EXCEPT ![IdOf[r]] = R!NoRecord]
  <2>1. NoRecord.run = "none" /\ NoRecord.status = "absent"
    BY DEF NoRecord, Record
  <2> QED
    BY <1>id, <1>4, <1>5, <2>1 DEF Reg, R!NoRecord
<1>7. Reg[IdOf[r]] \in {R!Of(r, "stopped"), R!Of(r, "unreadable")}
  <2>1. OnDisk(IdOf[r]) \in {Stopped(r), Lost(r)}
    BY <1>1 DEF DirInv, RunInv, DraftInv, DiskInv, Settled, LivePcs, Writing
  <2>2. /\ Stopped(r).run = r /\ Stopped(r).status = "stopped"
        /\ Lost(r).run = r /\ Lost(r).status = "unreadable"
    BY DEF Stopped, Lost, Record
  <2> QED
    BY <1>id, <2>1, <2>2 DEF Reg, R!Of
<1> QED
  BY <1>3, <1>6, <1>7 DEF R!Remove, Reg, Ended

\* Steps on the temporary file, on the process, and of commands are none of
\* the registry; a failure is the end of its run.
LEMMA QuietRefines ==
  ASSUME DirInv, TypeOK', NEW r \in Runs, RunStep(r), ~RenameTemp(r), ~Remove(r)
  PROVE  R!End(r) \/ UNCHANGED R!rvars
<1>1. \A id \in IDs : OnDisk(id)' = OnDisk(id)
  <2>1. CASE OpenTemp(r) \/ FillTemp(r)
    BY <2>1, OpenInv, FillInv
  <2>2. CASE ~OpenTemp(r) /\ ~FillTemp(r)
    BY <2>2 DEF RunStep, CreateContainer, Clone, Publish, Close, Rewrite, Configure,
       ReadPid, WaitContainerProcess, RunEnds, ProcessStarts, ProcessDies, InitReaps,
       dirvars, OnDisk
  <2> QED
    BY <2>1, <2>2
<1>2. ASSUME NEW how \in EndPcs, REnd(r, how), Live(r)
      PROVE  R!End(r)
  BY <1>1, <1>2, RegistryEnds DEF DirInv
<1>3. ASSUME NEW w \in LivePcs, RGoto(r, w), pc[r] \notin EndPcs
      PROVE  UNCHANGED R!rvars
  <2>1. \A q \in Runs : pc'[q] \in EndPcs <=> pc[q] \in EndPcs
    BY <1>3 DEF DirInv, TypeOK, RGoto, LivePcs, EndPcs
  <2> QED
    BY <1>1, <2>1, RegistryStays
<1>4. CASE CreateContainer(r) \/ OpenTemp(r) \/ FillTemp(r) \/ Clone(r) \/ Configure(r)
  BY <1>3, <1>4 DEF CreateContainer, OpenTemp, FillTemp, Clone, Configure, LivePcs, EndPcs
<1>5. CASE Publish(r) \/ Close(r)
  <2>1. pc[r] \in {"publish", "close"}
    BY <1>5 DEF Publish, Close, Rewrite
  <2>2. REnd(r, "failed") \/ REnd(r, "aborted") \/ RGoto(r, "open")
    BY <1>5 DEF Publish, Close, Rewrite
  <2> QED
    BY <1>2, <1>3, <2>1, <2>2 DEF Live, LivePcs, EndPcs
<1>6. CASE ReadPid(r) \/ WaitContainerProcess(r)
  <2>1. pc[r] \in {"started", "wait"}
    BY <1>6 DEF ReadPid, WaitContainerProcess
  <2>2. REnd(r, "failed") \/ RGoto(r, "wait") \/ RGoto(r, "close")
    BY <1>6 DEF ReadPid, WaitContainerProcess
  <2> QED
    BY <1>2, <1>3, <2>1, <2>2 DEF Live, LivePcs, EndPcs
<1>7. CASE RunEnds(r)
  BY <1>2, <1>7 DEF RunEnds, EndPcs
<1>8. CASE ProcessStarts(r) \/ ProcessDies(r) \/ InitReaps(r)
  <2>1. UNCHANGED pc
    BY <1>8 DEF ProcessStarts, ProcessDies, InitReaps
  <2> QED
    BY <1>1, <2>1, RegistryStays
<1> QED
  BY <1>4, <1>5, <1>6, <1>7, <1>8 DEF RunStep

\* An empty directory is an empty registry.
LEMMA RegistryInit == Init => R!RInit
<1> SUFFICES ASSUME Init PROVE R!RInit
  OBVIOUS
<1>1. \A id \in IDs : OnDisk(id) = NoRecord
  BY DEF Init, OnDisk
<1>2. NoRecord.run = "none" /\ NoRecord.status = "absent"
  BY DEF NoRecord, Record
<1>3. Ended = {}
  BY DEF Init, Ended, EndPcs
<1> QED
  BY <1>1, <1>2, <1>3 DEF R!RInit, R!NoRecord, Ended

\* Every step is one of the registry or leaves it alone.
LEMMA RegistryStep ==
  ASSUME Exclusive, DirInv, LostInv, [Next]_vars
  PROVE  [R!RNext]_(R!rvars)
<1>1. TypeOK' /\ LostInv'
  BY TypeStep, LostStep DEF DirInv
<1>2. ASSUME NEW r \in Runs, RunStep(r) PROVE [R!RNext]_(R!rvars)
  BY <1>1, <1>2, RenameRefines, RemoveRefines, QuietRefines DEF R!RNext
<1>3. CASE UNCHANGED runvars /\ UNCHANGED dirvars
  BY <1>3, RegistryStays DEF runvars, dirvars, OnDisk
<1>4. ASSUME NEW c \in Clients, ClientStep(c) PROVE [R!RNext]_(R!rvars)
  BY <1>3, <1>4 DEF ClientStep, OpenDirectory, VisitEntry, ContainersFound, ListStatus,
     PrintStatuses, ExecReadsPid, NsEnter
<1> QED
  BY <1>2, <1>3, <1>4 DEF Next, PidReused, vars

\* The directory implements StatusRegistry for any runs and IDs: although a
\* write takes three steps, a process may die between them and there is no
\* lock, whoever reads the records sees each run go through its statuses in
\* order and one run per ID after another.
THEOREM DirRefinesRegistry == ASSUME Exclusive PROVE Spec => ImplementsRegistry
<1>1. Init => DirInv /\ LostInv /\ R!RInit
  <2>1. NoRecord.status # "unreadable"
    BY DEF NoRecord, Record
  <2>2. Init => LostInv
    BY <2>1 DEF Init, LostInv
  <2> QED
    BY <2>2, DirInvInit, RegistryInit
<1>2. DirInv /\ LostInv /\ [Next]_vars => (DirInv /\ LostInv)' /\ [R!RNext]_(R!rvars)
  BY DirInvStep, LostStep, RegistryStep DEF DirInv
<1> QED
  BY <1>1, <1>2, PTL DEF Spec, ImplementsRegistry, R!RSpec

-----------------------------------------------------------------------------
(* exec, and what a run leaves.                                            *)

\* exec takes the PID from a record that is whole and of a run with its ID.
LEMMA ExecStep ==
  ASSUME DirInv, \A c \in Clients : ListInv(c), \A c \in Clients : ExecInv(c), [Next]_vars
  PROVE  \A c \in Clients : ExecInv(c)'
<1> SUFFICES ASSUME NEW c \in Clients PROVE ExecInv(c)'
  OBVIOUS
<1>1. ASSUME at'[c] = at[c], want'[c] = want[c], target'[c] = target[c], taken \subseteq taken'
      PROVE  ExecInv(c)'
  BY <1>1 DEF ExecInv
<1>2. ASSUME NEW r \in Runs, RunStep(r), UNCHANGED taken PROVE ExecInv(c)'
  BY <1>1, <1>2, RunWatched DEF clivars, DirInv
<1>3. CASE ClientStep(c) /\ UNCHANGED taken
  <2>1. CASE ExecReadsPid(c)
    <3>1. CASE Readable(want[c])
      <4>1. want[c] \in IDs /\ want' = want /\ target'[c] = OnDisk(want[c]).pid
        BY <2>1, <3>1 DEF ExecReadsPid, DirInv, TypeOK
      <4>2. json[want[c]] # NoFile
        BY <3>1 DEF Readable, OnDisk, NoRecord, Record, Statuses
      <4>3. PICK q \in Runs : /\ IdOf[q] = want[c]
                             /\ OnDisk(want[c]) \in Drafts(q) \cup {Lost(q)}
        BY <4>1, <4>2 DEF DirInv, WholeInv
      <4>4. OnDisk(want[c]) \in Drafts(q)
        BY <3>1, <4>3, RecordFacts DEF Readable
      <4>5. OnDisk(want[c]).pid.run = q
        BY <4>4 DEF Drafts, Creating, Created, Stopped, Record, Pid
      <4>6. at'[c] = "enter"
        BY <2>1, <3>1 DEF ExecReadsPid, CGoto, DirInv, TypeOK
      <4> QED
        BY <4>1, <4>3, <4>5, <4>6 DEF ExecInv
    <3>2. CASE ~Readable(want[c])
      BY <2>1, <3>2 DEF ExecReadsPid, CGoto, DirInv, TypeOK, ExecInv
    <3> QED
      BY <3>1, <3>2
  <2>2. CASE NsEnter(c)
    <3>1. /\ at[c] = "enter" /\ want' = want /\ target' = target
          /\ at'[c] \in {"done", "failed"} \/ target[c] \in taken
      BY <2>2 DEF NsEnter, CGoto, DirInv, TypeOK
    <3>2. at'[c] = "astray" => target[c] \in taken
      BY <3>1
    <3> QED
      BY <1>3, <3>1, <3>2 DEF ExecInv
  <2>3. CASE PrintStatuses(c)
    <3>1. want'[c] = "list" /\ at'[c] = "done"
      BY <2>3 DEF PrintStatuses, CGoto, ListInv, DirInv, TypeOK
    <3> QED
      BY <3>1 DEF ExecInv
  <2>4. CASE OpenDirectory(c) \/ VisitEntry(c) \/ ContainersFound(c) \/ ListStatus(c)
    <3>1. at'[c] \notin {"enter", "done", "astray"}
      BY <2>4 DEF OpenDirectory, VisitEntry, ContainersFound, ListStatus, CGoto, DirInv, TypeOK
    <3> QED
      BY <3>1 DEF ExecInv
  <2> QED
    BY <1>3, <2>1, <2>2, <2>3, <2>4 DEF ClientStep
<1>4. ASSUME NEW d \in Clients, d # c, ClientStep(d), UNCHANGED taken PROVE ExecInv(c)'
  BY <1>1, <1>4, ClientAlone DEF DirInv
<1>5. CASE PidReused \/ UNCHANGED vars
  BY <1>1, <1>5 DEF PidReused, vars, clivars
<1> QED
  BY <1>2, <1>3, <1>4, <1>5 DEF Next

\* The PID that exec uses is one of a run with the ID it was given, even when
\* that run ends and another with the ID begins between its reads; and exec
\* enters a process that is none of this ID's only if the one it was after is
\* dead and waited for, and its PID in use again.
THEOREM ExecStaysOnIdCorrect == ASSUME Exclusive PROVE Spec => []ExecStaysOnId
<1>1. Init => \A c \in Clients : ExecInv(c)
  BY DEF Init, ExecInv
<1>2. DirInv /\ (\A c \in Clients : ListInv(c)) /\ (\A c \in Clients : ExecInv(c))
        /\ [Next]_vars
        => (\A c \in Clients : ExecInv(c))'
  BY ExecStep
<1>3. TakenInv /\ (\A c \in Clients : ExecInv(c)) => ExecStaysOnId
  BY DEF TakenInv, ExecInv, ExecStaysOnId
<1> QED
  BY <1>1, <1>2, <1>3, DirInvCorrect, ListInvariant, TakenInvariant, PTL DEF Spec

\* Every step of run r but the removal leaves it somewhere else.
LEMMA OnlyRemoveReturns ==
  ASSUME DirInv, TypeOK', NEW r \in Runs, RunStep(r), pc[r] # "returned", pc'[r] = "returned"
  PROVE  Remove(r)
<1>t. pc \in [Runs -> LivePcs \cup EndPcs \cup {"idle"}]
  BY DEF DirInv, TypeOK
<1>1. ~RenameTemp(r)
  BY RenameInv
<1> QED
  BY <1>t, <1>1 DEF RunStep, CreateContainer, OpenTemp, FillTemp, Clone, Publish, Configure,
     ReadPid, WaitContainerProcess, Close, Rewrite, RunEnds, ProcessStarts, ProcessDies,
     InitReaps, REnd, RGoto

\* A run that has written has taken over the temporary file of its ID, and as
\* long as it lives no other run touches that name.
LEMMA ReturnStep ==
  ASSUME Exclusive, DirInv, \A r \in Runs : ReturnInv(r), [Next]_vars
  PROVE  \A r \in Runs : ReturnInv(r)'
<1> SUFFICES ASSUME NEW r \in Runs, pc'[r] \in Settled PROVE tmp'[IdOf[r]] = NoFile
  BY DEF ReturnInv
<1>id. IdOf[r] \in IDs
  BY IdOfAssumption
<1>t. /\ json \in [IDs -> Files \cup {NoFile}] /\ tmp \in [IDs -> Files \cup {NoFile}]
      /\ pc \in [Runs -> LivePcs \cup EndPcs \cup {"idle"}]
  BY DEF DirInv, TypeOK
<1>1. ASSUME pc[r] \in Settled, tmp'[IdOf[r]] = tmp[IdOf[r]] PROVE tmp'[IdOf[r]] = NoFile
  BY <1>1 DEF ReturnInv
<1>2. ASSUME RunStep(r) PROVE tmp'[IdOf[r]] = NoFile
  <2>1. CASE RenameTemp(r)
    <3>1. pc[r] = "rename" /\ tmp[IdOf[r]] # NoFile
      BY <2>1 DEF RenameTemp, DirInv, RunInv, TempInv
    <3> QED
      BY <1>id, <1>t, <2>1, <3>1 DEF RenameTemp, TempName
  <2>2. CASE ~RenameTemp(r)
    <3>1. pc[r] \in Settled /\ UNCHANGED tmp
      BY <1>2, <1>t, <2>2 DEF RunStep, CreateContainer, OpenTemp, FillTemp, Clone, Publish,
         Configure, ReadPid, WaitContainerProcess, Close, Rewrite, Remove, RunEnds,
         ProcessStarts, ProcessDies, InitReaps, REnd, RGoto, Settled, Writing, LivePcs, dirvars
    <3> QED
      BY <1>1, <3>1
  <2> QED
    BY <2>1, <2>2
<1>3. ASSUME NEW q \in Runs, q # r, RunStep(q) PROVE tmp'[IdOf[r]] = NoFile
  <2>1. pc'[r] = pc[r]
    BY <1>3, <1>t DEF RunStep, CreateContainer, OpenTemp, FillTemp, RenameTemp, Clone,
       Publish, Configure, ReadPid, WaitContainerProcess, Close, Rewrite, Remove, RunEnds,
       ProcessStarts, ProcessDies, InitReaps, REnd, RGoto
  <2>2. CASE IdOf[q] = IdOf[r]
    <3>1. ~Live(q)
      BY <1>3, <2>1, <2>2 DEF DirInv, OneRunPerID, Settled, Live
    <3>2. UNCHANGED tmp
      BY <1>3, <3>1 DEF RunStep, CreateContainer, OpenTemp, FillTemp, RenameTemp, Clone, Publish,
         Configure, ReadPid, WaitContainerProcess, Close, Rewrite, Remove, RunEnds,
         ProcessStarts, ProcessDies, InitReaps, Live, LivePcs, dirvars
    <3> QED
      BY <1>1, <2>1, <3>2
  <2>3. CASE IdOf[q] # IdOf[r]
    <3>1. tmp'[IdOf[r]] = tmp[IdOf[r]]
      BY <1>3, <1>id, <1>t, <2>3 DEF RunStep, CreateContainer, OpenTemp, FillTemp, RenameTemp,
         TempName, Clone, Publish, Configure, ReadPid, WaitContainerProcess, Close, Rewrite,
         Remove, RunEnds, ProcessStarts, ProcessDies, InitReaps, dirvars
    <3> QED
      BY <1>1, <2>1, <3>1
  <2> QED
    BY <2>2, <2>3
<1>4. ASSUME NEW d \in Clients, ClientStep(d) PROVE tmp'[IdOf[r]] = NoFile
  BY <1>1, <1>4, ClientAlone DEF DirInv, runvars, dirvars
<1>5. CASE PidReused \/ UNCHANGED vars
  BY <1>1, <1>5 DEF PidReused, vars, runvars, dirvars
<1> QED
  BY <1>2, <1>3, <1>4, <1>5 DEF Next

\* The step that returns removes the record when the temporary file is gone.
LEMMA ReturnAction ==
  ASSUME Exclusive, DirInv, \A r \in Runs : ReturnInv(r), [Next]_vars,
         NEW r \in Runs, pc[r] # "returned", pc'[r] = "returned"
  PROVE  json'[IdOf[r]] = NoFile /\ tmp'[IdOf[r]] = NoFile
<1>t. /\ json \in [IDs -> Files \cup {NoFile}]
      /\ pc \in [Runs -> LivePcs \cup EndPcs \cup {"idle"}]
  BY DEF DirInv, TypeOK
<1>1. ASSUME NEW q \in Runs, q # r, RunStep(q) PROVE FALSE
  BY <1>1, <1>t DEF RunStep, CreateContainer, OpenTemp, FillTemp, RenameTemp, Clone,
     Publish, Configure, ReadPid, WaitContainerProcess, Close, Rewrite, Remove, RunEnds,
     ProcessStarts, ProcessDies, InitReaps, REnd, RGoto
<1>2. ASSUME NEW d \in Clients, ClientStep(d) PROVE FALSE
  BY <1>2, ClientAlone DEF DirInv, runvars
<1>3. RunStep(r)
  BY <1>1, <1>2 DEF Next, PidReused, vars, runvars
<1>4. Remove(r)
  BY <1>3, TypeStep, OnlyRemoveReturns DEF DirInv
<1>5. tmp[IdOf[r]] = NoFile
  BY <1>4 DEF Remove, ReturnInv, Settled, LivePcs, Writing
<1> QED
  BY <1>t, <1>4, <1>5, IdOfAssumption DEF Remove

\* At the moment a run returns neither a record nor a temporary file of its ID
\* is in the directory, although runs with that ID may have been killed at any
\* step of a write before it and have left both.
THEOREM ReturnedLeavesNothingCorrect ==
  ASSUME Exclusive PROVE Spec => ReturnedLeavesNothing
<1>1. Init => \A r \in Runs : ReturnInv(r)
  BY ZenonT(30) DEF Init, ReturnInv, Settled, LivePcs
<1>2. DirInv /\ (\A r \in Runs : ReturnInv(r)) /\ [Next]_vars
        => (\A r \in Runs : ReturnInv(r))'
  BY ReturnStep
<1>3. DirInv /\ (\A r \in Runs : ReturnInv(r)) /\ [Next]_vars
        => [\A r \in Runs :
              pc[r] # "returned" /\ pc'[r] = "returned" =>
                json'[IdOf[r]] = NoFile /\ tmp'[IdOf[r]] = NoFile]_vars
  BY ReturnAction
<1> QED
  BY <1>1, <1>2, <1>3, DirInvCorrect, PTL DEF Spec, ReturnedLeavesNothing
==============================================================================
