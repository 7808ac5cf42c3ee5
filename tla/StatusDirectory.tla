--------------------------- MODULE StatusDirectory ---------------------------
(***************************************************************************)
(* The root directory that every `ll-box` command of a user shares:        *)
(* impl::status_directory and utils::atomic_write, used by several `run`   *)
(* commands (container.cpp), and by `list` and `exec`, at the same time    *)
(* and without any lock.                                                   *)
(*                                                                         *)
(* A record is written in three steps: the temporary file of the ID is     *)
(* created or truncated, filled, and renamed over the record.  A process   *)
(* may be killed between any two of them.  Reading a record is one step:   *)
(* the file under a record's name is replaced, never changed.  The names   *)
(* of a directory are read in one go (one getdents for a few hundred).     *)
(* The PID of a process that is gone may be given to another one, which is *)
(* none of ours, at any time.                                              *)
(***************************************************************************)
EXTENDS Naturals

CONSTANTS
  Runs,         \* the `run` commands issued, each once
  IDs,          \* container IDs
  IdOf,         \* the ID each run is given
  Clients,      \* the `list` and `exec` commands issued, each once
  Exclusive,    \* callers give a new run the ID of a live run never
  DiskMayFill   \* a write to the root may find no space left

ASSUME IdOfAssumption == IdOf \in [Runs -> IDs]
ASSUME FlagsAssumption == Exclusive \in BOOLEAN /\ DiskMayFill \in BOOLEAN
ASSUME NamesAssumption == "none" \notin Runs /\ "list" \notin IDs

VARIABLES
  pc,       \* where each run is
  draft,    \* its local container_status_t
  handle,   \* the temporary file it has open
  proc,     \* its container's process
  json,     \* the file under <ID>.json
  tmp,      \* the file under <ID>.json.tmp
  content,  \* what is in a file
  at,       \* where each client is
  want,     \* what it was asked for: "list", or the ID to exec in
  names,    \* the directory entries it has yet to visit
  found,    \* the containers it knows
  out,      \* list: the containers whose status it has read
  target,   \* exec: the process it enters
  taken,    \* the PIDs that other processes have got since
  initial,  \* history: the IDs with a readable record when it began
  vanished  \* history: the IDs that have lost it since

runvars == <<pc, draft, handle, proc>>
dirvars == <<json, tmp, content>>
clivars == <<at, want, names, found, out, target, initial>>
vars    == <<runvars, dirvars, clivars, taken, vanished>>

-----------------------------------------------------------------------------
Pid(r, which) == [run |-> r, which |-> which]
NoPid == Pid("none", "none")
Pids  == {Pid(r, which) : r \in Runs, which \in {"runtime", "container"}}

\* No run ever writes RUNNING: a container is "created" as long as it runs.
Statuses == {"creating", "created", "stopped"}
Record(r, pid, status) == [run |-> r, pid |-> pid, status |-> status]
NoRecord  == Record("none", NoPid, "absent")
Empty(r)  == Record(r, NoPid, "empty")        \* truncated, not filled yet
Lost(r)   == Record(r, NoPid, "unreadable")   \* the write found no space

\* A file is named after the write that created it; it may be reused by others.
Files  == Runs \X Statuses
NoFile == <<"none", "none">>

\* open, fill and rename are the steps of atomic_write; the draft's status
\* tells which of the three records of a run is being written.
LivePcs == {"open", "fill", "rename", "clone", "publish", "setup",
            "started", "wait", "close", "remove"}
EndPcs  == {"returned", "failed", "aborted"}
Alive   == {"setup", "configured", "running"}

TypeOK ==
  /\ pc \in [Runs -> LivePcs \cup EndPcs \cup {"idle"}]
  /\ draft \in [Runs -> [run : Runs, pid : Pids, status : Statuses] \cup {NoRecord}]
  /\ \A r \in Runs : pc[r] \in LivePcs => draft[r] # NoRecord
  /\ handle \in [Runs -> Files \cup {NoFile}]
  /\ proc \in [Runs -> Alive \cup {"none", "zombie", "reaped"}]
  /\ json \in [IDs -> Files \cup {NoFile}]
  /\ tmp \in [IDs -> Files \cup {NoFile}]
  /\ content \in [Files ->
                    [run : Runs, pid : Pids, status : Statuses]
                      \cup {NoRecord}
                      \cup {Empty(r) : r \in Runs} \cup {Lost(r) : r \in Runs}]
  /\ at \in [Clients -> {"idle", "scan", "status", "read", "enter",
                        "done", "astray", "failed"}]
  /\ want \in [Clients -> IDs \cup {"list"}]
  /\ \A c \in Clients : at[c] = "read" => want[c] \in IDs
  /\ names \in [Clients -> SUBSET (IDs \X {"json", "tmp"})]
  /\ found \in [Clients -> SUBSET IDs]
  /\ out \in [Clients -> SUBSET IDs]
  /\ target \in [Clients -> Pids \cup {NoPid}]
  /\ initial \in [Clients -> SUBSET IDs]
  /\ taken \subseteq Pids
  /\ vanished \in [Clients -> SUBSET IDs]

Init ==
  /\ pc = [r \in Runs |-> "idle"]
  /\ draft = [r \in Runs |-> NoRecord]
  /\ handle = [r \in Runs |-> NoFile]
  /\ proc = [r \in Runs |-> "none"]
  /\ json = [id \in IDs |-> NoFile]
  /\ tmp = [id \in IDs |-> NoFile]
  /\ content = [f \in Files |-> NoRecord]
  /\ at = [c \in Clients |-> "idle"]
  /\ want = [c \in Clients |-> "list"]
  /\ names = [c \in Clients |-> {}]
  /\ found = [c \in Clients |-> {}]
  /\ out = [c \in Clients |-> {}]
  /\ target = [c \in Clients |-> NoPid]
  /\ initial = [c \in Clients |-> {}]
  /\ taken = {}
  /\ vanished = [c \in Clients |-> {}]

-----------------------------------------------------------------------------
(* Reading.                                                                *)

Live(r) == pc[r] \in LivePcs

\* The record on disk; a file that is absent or not valid JSON is an exception.
OnDisk(id)   == IF json[id] = NoFile THEN NoRecord ELSE content[json[id]]
Readable(id) == OnDisk(id).status \in Statuses

\* kill(pid, 0) finds the process, be it a zombie, or whoever has its PID now.
PidExists(pid) ==
  \/ pid \in taken
  \/ IF pid.which = "runtime" THEN Live(pid.run)
                              ELSE proc[pid.run] \in Alive \cup {"zombie"}

\* The process is over, and was waited for.
Gone(pid) ==
  IF pid.which = "runtime" THEN pc[pid.run] \in EndPcs ELSE proc[pid.run] = "reaped"

\* read_status
ReadStatus(id) == IF PidExists(OnDisk(id).pid) THEN OnDisk(id).status ELSE "stopped"

\* A command at work loses sight of a record that this step removes or ruins.
Watch ==
  vanished' = [c \in Clients |->
                 IF at[c] \in {"scan", "status"}
                   THEN vanished[c] \cup {id \in IDs : Readable(id) /\ ~Readable(id)'}
                   ELSE vanished[c]]

-----------------------------------------------------------------------------
(* A run.                                                                  *)

RGoto(r, where) == pc' = [pc EXCEPT ![r] = where]

\* Its variables and open files go with a process.
REnd(r, how) ==
  /\ RGoto(r, how)
  /\ handle' = [handle EXCEPT ![r] = NoFile]
  /\ draft' = [draft EXCEPT ![r] = NoRecord]

\* The constructor of container.  Nothing in the code looks whether the ID is
\* taken: that it is not is up to the caller.
CreateContainer(r) ==
  /\ pc[r] = "idle"
  /\ Exclusive => \A other \in Runs : IdOf[other] = IdOf[r] => ~Live(other)
  /\ draft' = [draft EXCEPT ![r] = Record(r, Pid(r, "runtime"), "creating")]
  /\ RGoto(r, "open")
  /\ UNCHANGED <<handle, proc, dirvars, clivars, vanished>>

\* Faulty: one temporary file for all.
TempNameShared(r) == CHOOSE id \in IDs : TRUE

\* The name of the temporary file: the record's and ".tmp".
TempName(r) == IdOf[r]

\* Faulty: the file is renamed before the stream is closed.
OpenTempUnflushed(r) ==
  /\ pc[r] = "open"
  /\ LET id == TempName(r)
         f  == IF tmp[id] = NoFile THEN <<r, draft[r].status>> ELSE tmp[id]
     IN  /\ tmp' = [tmp EXCEPT ![id] = f]
         /\ content' = [content EXCEPT ![f] = Empty(r)]
         /\ handle' = [handle EXCEPT ![r] = f]
  /\ RGoto(r, "rename")
  /\ UNCHANGED <<draft, proc, json, clivars>>
  /\ Watch

\* Faulty: the old record is removed first.
OpenTempUnlinks(r) ==
  /\ pc[r] = "open"
  /\ LET id == TempName(r)
         f  == IF tmp[id] = NoFile THEN <<r, draft[r].status>> ELSE tmp[id]
     IN  /\ tmp' = [tmp EXCEPT ![id] = f]
         /\ content' = [content EXCEPT ![f] = Empty(r)]
         /\ handle' = [handle EXCEPT ![r] = f]
  /\ json' = [json EXCEPT ![IdOf[r]] = NoFile]
  /\ RGoto(r, "fill")
  /\ UNCHANGED <<draft, proc, clivars>>
  /\ Watch

\* atomic_write: std::ofstream creates the temporary file or truncates it.
OpenTemp(r) ==
  /\ pc[r] = "open"
  /\ LET id == TempName(r)
         f  == IF tmp[id] = NoFile THEN <<r, draft[r].status>> ELSE tmp[id]
     IN  /\ tmp' = [tmp EXCEPT ![id] = f]
         /\ content' = [content EXCEPT ![f] = Empty(r)]
         /\ handle' = [handle EXCEPT ![r] = f]
  /\ RGoto(r, "fill")
  /\ UNCHANGED <<draft, proc, json, clivars>>
  /\ Watch

\* The content is written when the stream is closed, and nobody looks whether
\* it could be.
FillTemp(r) ==
  /\ pc[r] = "fill"
  /\ \E written \in {draft[r]} \cup (IF DiskMayFill THEN {Lost(r)} ELSE {}) :
       content' = [content EXCEPT ![handle[r]] = written]
  /\ handle' = [handle EXCEPT ![r] = NoFile]
  /\ RGoto(r, "rename")
  /\ UNCHANGED <<draft, proc, json, tmp, clivars>>
  /\ Watch

\* What container::run does after each of its writes.
AfterWrite == [creating |-> "clone", created |-> "setup", stopped |-> "remove"]

\* A file nobody can reach any more.
Freed(f) ==
  IF f = NoFile \/ \E r \in Runs : handle[r] = f
    THEN content
    ELSE [content EXCEPT ![f] = NoRecord]

\* Faulty: a write that found no space is given up, and its file left there.
RenameIfWritten(r) ==
  /\ pc[r] = "rename"
  /\ tmp[TempName(r)] # NoFile
  /\ IF content[tmp[TempName(r)]] = Lost(r)
       THEN UNCHANGED dirvars
       ELSE /\ json' = [json EXCEPT ![IdOf[r]] = tmp[TempName(r)]]
            /\ tmp' = [tmp EXCEPT ![TempName(r)] = NoFile]
            /\ content' = Freed(json[IdOf[r]])
  /\ RGoto(r, AfterWrite[draft[r].status])
  /\ UNCHANGED <<draft, handle, proc, clivars>>
  /\ Watch

RenameTemp(r) ==
  /\ pc[r] = "rename"
  /\ IF tmp[TempName(r)] = NoFile
       THEN REnd(r, "failed") /\ UNCHANGED dirvars
       ELSE /\ json' = [json EXCEPT ![IdOf[r]] = tmp[TempName(r)]]
            /\ tmp' = [tmp EXCEPT ![TempName(r)] = NoFile]
            /\ content' = Freed(json[IdOf[r]])
            /\ RGoto(r, AfterWrite[draft[r].status])
            /\ UNCHANGED <<draft, handle>>
  /\ UNCHANGED <<proc, clivars>>
  /\ Watch

Clone(r) ==
  /\ pc[r] = "clone"
  /\ proc' = [proc EXCEPT ![r] = "setup"]
  /\ RGoto(r, "publish")
  /\ UNCHANGED <<draft, handle, dirvars, clivars, vanished>>

\* Faulty: the PID of the container is not set.
RewriteWithoutPid(r, where, expected, status) ==
  /\ pc[r] = where
  /\ Readable(IdOf[r]) /\ ReadStatus(IdOf[r]) = expected
  /\ draft' = [draft EXCEPT ![r] = Record(OnDisk(IdOf[r]).run, NoPid, status)]
  /\ RGoto(r, "open")
  /\ UNCHANGED <<handle, proc, dirvars, clivars, vanished>>

\* Read the record, assert its status, and write it back with the container's
\* PID: at CREATING once the process exists, at STOPPED once it is reaped.
Rewrite(r, where, expected, status) ==
  /\ pc[r] = where
  /\ IF ~Readable(IdOf[r])
       THEN REnd(r, "failed")
       ELSE IF ReadStatus(IdOf[r]) # expected
              THEN REnd(r, "aborted")
              ELSE /\ draft' = [draft EXCEPT ![r] =
                                  Record(OnDisk(IdOf[r]).run, Pid(r, "container"), status)]
                   /\ RGoto(r, "open")
                   /\ UNCHANGED handle
  /\ UNCHANGED <<proc, dirvars, clivars, vanished>>

Publish(r) == Rewrite(r, "publish", "creating", "created")

\* The exchange of messages (ContainerRun): the container's process goes on.
Configure(r) ==
  /\ pc[r] = "setup"
  /\ proc[r] = "setup"
  /\ proc' = [proc EXCEPT ![r] = "configured"]
  /\ RGoto(r, "started")
  /\ UNCHANGED <<draft, handle, dirvars, clivars, vanished>>

\* status().PID, the argument of wait_container_process.
ReadPid(r) ==
  /\ pc[r] = "started"
  /\ IF ~Readable(IdOf[r])
       THEN REnd(r, "failed")
       ELSE /\ draft' = [draft EXCEPT ![r] = OnDisk(IdOf[r])]
            /\ RGoto(r, "wait")
            /\ UNCHANGED handle
  /\ UNCHANGED <<proc, dirvars, clivars, vanished>>

\* Faulty: the process is waited for and left a zombie.
WaitLeavesZombie(r) ==
  /\ pc[r] = "wait"
  /\ proc[r] = "zombie"
  /\ RGoto(r, "close")
  /\ UNCHANGED <<draft, handle, proc, dirvars, clivars, vanished>>

\* waitpid fails for a process that is not the runtime's child.
WaitContainerProcess(r) ==
  /\ pc[r] = "wait"
  /\ IF draft[r].pid = Pid(r, "container")
       THEN /\ proc[r] = "zombie"
            /\ proc' = [proc EXCEPT ![r] = "reaped"]
            /\ RGoto(r, "close")
            /\ UNCHANGED <<draft, handle>>
       ELSE REnd(r, "failed") /\ UNCHANGED proc
  /\ UNCHANGED <<dirvars, clivars, vanished>>

Close(r) == Rewrite(r, "close", "stopped", "stopped")

Remove(r) ==
  /\ pc[r] = "remove"
  /\ json' = [json EXCEPT ![IdOf[r]] = NoFile]
  /\ content' = Freed(json[IdOf[r]])
  /\ REnd(r, "returned")
  /\ UNCHANGED <<proc, tmp, clivars>>
  /\ Watch

\* An exception, or a signal, at any point.
RunEnds(r) ==
  /\ Live(r)
  /\ REnd(r, "failed")
  /\ UNCHANGED <<proc, dirvars, clivars, vanished>>

\* The container's process reaches the user's program, and dies at some time.
ProcessStarts(r) ==
  /\ proc[r] = "configured"
  /\ proc' = [proc EXCEPT ![r] = "running"]
  /\ UNCHANGED <<pc, draft, handle, dirvars, clivars, vanished>>

ProcessDies(r) ==
  /\ proc[r] \in Alive
  /\ proc' = [proc EXCEPT ![r] = "zombie"]
  /\ UNCHANGED <<pc, draft, handle, dirvars, clivars, vanished>>

\* An init process waits for the orphan of a run that is over.
InitReaps(r) ==
  /\ pc[r] \in EndPcs
  /\ proc[r] = "zombie"
  /\ proc' = [proc EXCEPT ![r] = "reaped"]
  /\ UNCHANGED <<pc, draft, handle, dirvars, clivars, vanished>>

-----------------------------------------------------------------------------
(* list and exec: both begin with runtime_t::containers.                   *)

CGoto(c, where) == at' = [at EXCEPT ![c] = where]

\* std::filesystem::directory_iterator
OpenDirectory(c) ==
  /\ at[c] = "idle"
  /\ \E w \in IDs \cup {"list"} : want' = [want EXCEPT ![c] = w]
  /\ names' = [names EXCEPT ![c] =
                 {<<id, "json">> : id \in {i \in IDs : json[i] # NoFile}}
                   \cup {<<id, "tmp">> : id \in {i \in IDs : tmp[i] # NoFile}}]
  /\ initial' = [initial EXCEPT ![c] = {id \in IDs : Readable(id)}]
  /\ vanished' = [vanished EXCEPT ![c] = {}]
  /\ CGoto(c, "scan")
  /\ UNCHANGED <<runvars, dirvars, found, out, target>>

\* Faulty: the extension is not looked at.
ListedAnyName(name) ==
  LET f == IF name[2] = "json" THEN json[name[1]] ELSE tmp[name[1]]
  IN  f # NoFile /\ content[f].status \in Statuses

\* What an entry must be to be taken for a container: a file with the
\* extension .json that can be read.
Listed(name) == name[2] = "json" /\ Readable(name[1])

\* Faulty: the exception of an entry ends the loop.
VisitEntryOrStop(c) ==
  /\ at[c] = "scan"
  /\ \E name \in names[c] :
       /\ names' = [names EXCEPT ![c] = IF Listed(name) THEN @ \ {name} ELSE {}]
       /\ found' = [found EXCEPT ![c] = IF Listed(name) THEN @ \cup {name[1]} ELSE @]
  /\ UNCHANGED <<runvars, dirvars, at, want, out, target, initial, vanished>>

\* One turn of the loop: whatever else is in the directory is skipped.
VisitEntry(c) ==
  /\ at[c] = "scan"
  /\ \E name \in names[c] :
       /\ names' = [names EXCEPT ![c] = @ \ {name}]
       /\ found' = [found EXCEPT ![c] = IF Listed(name) THEN @ \cup {name[1]} ELSE @]
  /\ UNCHANGED <<runvars, dirvars, at, want, out, target, initial, vanished>>

\* list goes on with every container, exec with the one it was asked for.
ContainersFound(c) ==
  /\ at[c] = "scan" /\ names[c] = {}
  /\ CGoto(c, IF want[c] = "list" THEN "status"
              ELSE IF want[c] \in found[c] THEN "read" ELSE "failed")
  /\ UNCHANGED <<runvars, dirvars, want, names, found, out, target, initial, vanished>>

\* list reads each record a second time; an exception ends the command.
ListStatus(c) ==
  /\ at[c] = "status"
  /\ \E id \in found[c] \ out[c] :
       IF Readable(id)
         THEN out' = [out EXCEPT ![c] = @ \cup {id}] /\ UNCHANGED at
         ELSE CGoto(c, "failed") /\ UNCHANGED out
  /\ UNCHANGED <<runvars, dirvars, want, names, found, target, initial, vanished>>

PrintStatuses(c) ==
  /\ at[c] = "status" /\ out[c] = found[c]
  /\ CGoto(c, "done")
  /\ UNCHANGED <<runvars, dirvars, want, names, found, out, target, initial, vanished>>

\* Faulty: exec takes some container it has found.
ExecReadsAnyPid(c) ==
  /\ at[c] = "read"
  /\ \E id \in found[c] :
       IF Readable(id)
         THEN target' = [target EXCEPT ![c] = OnDisk(id).pid] /\ CGoto(c, "enter")
         ELSE CGoto(c, "failed") /\ UNCHANGED target
  /\ UNCHANGED <<runvars, dirvars, want, names, found, out, initial, vanished>>

\* container_ref::exec reads the PID, and nsenter uses it later.
ExecReadsPid(c) ==
  /\ at[c] = "read"
  /\ IF Readable(want[c])
       THEN target' = [target EXCEPT ![c] = OnDisk(want[c]).pid] /\ CGoto(c, "enter")
       ELSE CGoto(c, "failed") /\ UNCHANGED target
  /\ UNCHANGED <<runvars, dirvars, want, names, found, out, initial, vanished>>

\* It enters whatever process has that PID by then, unless that is a zombie.
NsEnter(c) ==
  /\ at[c] = "enter"
  /\ LET pid == target[c]
         alive == IF pid.which = "runtime" THEN Live(pid.run) ELSE proc[pid.run] \in Alive
     IN  CGoto(c, IF alive THEN "done" ELSE IF pid \in taken THEN "astray" ELSE "failed")
  /\ UNCHANGED <<runvars, dirvars, want, names, found, out, target, initial, vanished>>

-----------------------------------------------------------------------------
RunStep(r) ==
  \/ CreateContainer(r) \/ OpenTemp(r) \/ FillTemp(r) \/ RenameTemp(r)
  \/ Clone(r) \/ Publish(r) \/ Configure(r) \/ ReadPid(r)
  \/ WaitContainerProcess(r) \/ Close(r) \/ Remove(r) \/ RunEnds(r)
  \/ ProcessStarts(r) \/ ProcessDies(r) \/ InitReaps(r)

ClientStep(c) ==
  \/ OpenDirectory(c) \/ VisitEntry(c) \/ ContainersFound(c)
  \/ ListStatus(c) \/ PrintStatuses(c) \/ ExecReadsPid(c) \/ NsEnter(c)

PidReused ==
  /\ \E pid \in Pids \ taken : Gone(pid) /\ taken' = taken \cup {pid}
  /\ UNCHANGED <<runvars, dirvars, clivars, vanished>>

Next ==
  \/ (\E r \in Runs : RunStep(r)) /\ UNCHANGED taken
  \/ (\E c \in Clients : ClientStep(c)) /\ UNCHANGED taken
  \/ PidReused

Spec == Init /\ [][Next]_vars

-----------------------------------------------------------------------------
(* Properties.  The first six hold when callers keep IDs exclusive.        *)

\* A file under a record's name is never half written, whoever was killed
\* where: what a reader finds there is a record, unless the disk was full.
RecordsWhole == \A id \in IDs : json[id] # NoFile => OnDisk(id).status # "empty"

\* No other process renames or truncates the temporary file of a write in
\* progress: what a run renames is what it has written.
TempFileIsOurs ==
  \A r \in Runs :
    /\ pc[r] = "fill" => tmp[IdOf[r]] = handle[r]
    /\ pc[r] = "rename" =>
         tmp[IdOf[r]] # NoFile /\ content[tmp[IdOf[r]]] \in {draft[r], Lost(r)}

\* A live run that has written a record finds this record, with its status
\* and a PID of its own, until it removes it, in spite of what earlier runs
\* with its ID have left and while others come and go; so its assertions hold,
\* unless the PID of its container was taken by another process after waitpid.
RunFindsOwnRecord ==
  \A r \in Runs :
    /\ pc[r] = "aborted" => Pid(r, "container") \in taken
    /\ pc[r] \in {"clone", "publish", "setup", "started", "wait", "close", "remove"} =>
         OnDisk(IdOf[r]) \in {draft[r], Lost(r)}
    /\ pc[r] = "wait" => draft[r].pid = Pid(r, "container")

\* When a run returns, neither a record nor a temporary file of its ID is left
\* in the directory, whatever runs that were killed had left there before it.
ReturnedLeavesNothing ==
  [][\A r \in Runs :
       pc[r] # "returned" /\ pc'[r] = "returned" =>
         json'[IdOf[r]] = NoFile /\ tmp'[IdOf[r]] = NoFile]_vars

\* list prints every container that had a readable record all the time it
\* ran, although records are rewritten under its eyes.
ListMissesNone ==
  \A c \in Clients :
    at[c] = "done" /\ want[c] = "list" => initial[c] \ vanished[c] \subseteq out[c]

\* list fails only if a container that it had found vanished meanwhile.
ListFailsOnlyIfOneVanished ==
  \A c \in Clients :
    at[c] = "failed" /\ want[c] = "list" => found[c] \cap vanished[c] # {}

\* The PID that exec uses is of a run with the ID it was given, even when one
\* run with that ID ends and another begins between its reads.  Only if that
\* process is gone may exec enter one that has nothing to do with the ID.
ExecStaysOnId ==
  \A c \in Clients : want[c] # "list" =>
    /\ at[c] \in {"done", "astray"} => IdOf[target[c].run] = want[c]
    /\ at[c] = "astray" => Gone(target[c])

\* The directory is a registry whose writes are atomic.
R == INSTANCE StatusRegistry
       WITH reg <- [id \in IDs |-> [run |-> OnDisk(id).run, status |-> OnDisk(id).status]],
            ended <- {r \in Runs : pc[r] \in EndPcs},
            MayLose <- DiskMayFill

ImplementsRegistry == R!RSpec

-----------------------------------------------------------------------------
(* What the code says and does not do.                                     *)

\* The assertions of container::run hold, whatever IDs the callers choose, as
\* long as the PID of the container is not reused.
AssertionsHoldForAnyIDs ==
  \A r \in Runs : pc[r] = "aborted" => Pid(r, "container") \in taken

\* list skips a container it cannot read and prints the others.
ListNeverFails == \A c \in Clients : at[c] = "failed" => want[c] # "list"

\* exec runs its command in a running container, and in no other process.
ExecInRunningContainer ==
  \A c \in Clients : want[c] # "list" =>
    /\ at[c] = "done" => target[c].which = "container"
    /\ at[c] # "astray"
=============================================================================
