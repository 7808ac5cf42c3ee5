---------------------------- MODULE ContainerRun ----------------------------
(***************************************************************************)
(* linyaps_box::container (src/linyaps_box/container.cpp): one `ll-box     *)
(* run`, from the constructor that writes the first status record to the   *)
(* removal of that record.  Two processes work on it: the runtime          *)
(* (container::run and namespace runtime_ns) and its clone                 *)
(* (container_ns::clone_fn), which becomes the container's process.  They  *)
(* synchronise with one-byte messages over a SOCK_SEQPACKET socket pair:   *)
(* the runtime holds the first end, the clone the second.                  *)
(*                                                                         *)
(* Any system call may fail (RThrows, CThrows), either process may be      *)
(* killed (RKilled, CKilled), a hook may run for as long as it likes, and  *)
(* the PID of a process that was reaped may be given to another one.  A    *)
(* record may be lost as it is written: atomic_write does not look whether *)
(* there was room for it, so only the next read fails.                     *)
(***************************************************************************)
EXTENDS Naturals, Sequences, CloseFds

CONSTANTS
  Configs,    \* the containers considered
  ExitCodes   \* what the user's program may exit with

HookKind == {"prestart", "createRuntime", "createContainer",
             "startContainer", "poststart", "poststop"}

\* A configuration: how many hooks of each kind it lists, whether it has a
\* user namespace, whether it has gid and uid mappings; and the lowest free
\* descriptor of the runtime, which the socket pair takes with the next one.
ConfigType == [hooks : [HookKind -> Nat], userns : BOOLEAN,
               gid : BOOLEAN, uid : BOOLEAN, firstFd : Nat]

ASSUME ConfigsAssumption == Configs \subseteq ConfigType
ASSUME FdsAssumption == \A c \in Configs : 3 <= c.firstFd /\ c.firstFd + 1 < MaxFd
ASSUME ExitCodesAssumption == ExitCodes \subseteq 0 .. 255

VARIABLES
  cfg,      \* the configuration parsed by the constructor
  rpc,      \* where the runtime is in container::run
  rhook,    \* the hooks done of the list the runtime is walking
  cpc,      \* where the clone is in clone_fn
  chook,    \* the hooks done of the list the clone is walking
  first,    \* the processes holding the first end of the socket pair
  second,   \* the processes holding the second end
  toR,      \* messages waiting at the first end
  toC,      \* messages waiting at the second end
  rreset,   \* the runtime's next read fails with ECONNRESET
  record,   \* the status record under the root
  pidTaken, \* another process has got the PID of the reaped clone
  wait,     \* how the clone ended
  result,   \* what the command returns
  ran,      \* history: hooks executed, by kind
  mapped    \* history: id maps written, with the process they were for

sock  == <<first, second, toR, toC, rreset>>
rvars == <<rpc, rhook, result>>
cvars == <<cpc, chook, wait>>
hist  == <<ran, mapped>>
vars  == <<cfg, rvars, cvars, sock, record, pidTaken, hist>>

\* The life of the container's process as the command's user sees it.
Life ==
  CASE cpc = "none" -> "none"
    [] cpc = "user" -> "running"
    [] cpc = "zombie" -> "dead"
    [] cpc = "reaped" -> "reaped"
    [] OTHER -> "setup"

L == INSTANCE ContainerLifecycle
       WITH life <- Life, listed <- record.status, readable <- record.whole

-----------------------------------------------------------------------------
\* enum class sync_message
SyncMessage == {"REQUEST_CONFIGURE_NAMESPACE", "NAMESPACE_CONFIGURED",
                "REQUEST_CREATERUNTIME_HOOKS", "CREATE_RUNTIME_HOOKS_EXECUTED",
                "CREATE_CONTAINER_HOOKS_EXECUTED",
                "START_CONTAINER_HOOKS_EXECUTED"}

RuntimeSteps == {"create_container", "start_container_process",
                 "write_created", "await_ns_request", "gid_mapping",
                 "uid_mapping", "ns_configured", "prestart_hooks",
                 "await_crt_request", "crt_prestart", "crt_hooks",
                 "wait_create_container", "wait_socket_close",
                 "poststart_hooks", "wait_container_process",
                 "write_stopped", "poststop_hooks", "remove"}
RuntimeEnds  == {"returned", "failed", "killed", "aborted"}

SetupSteps == {"close_fds", "request_ns", "await_ns", "mounts",
               "request_crt", "await_crt", "create_container_hooks",
               "pivot_root", "start_container_hooks", "exec"}
CloneLive  == SetupSteps \cup {"user"}

Proc   == {"runtime", "clone"}

\* The file under the ID: what was to be written there, and whether it was.
Record(status, pid, whole) == [status |-> status, pid |-> pid, whole |-> whole]
Absent == Record("absent", "nobody", TRUE)
Recorded(status, pid) == record.status = status /\ record.pid = pid

RuntimeType ==
  /\ rpc \in RuntimeSteps \cup RuntimeEnds
  /\ rhook \in Nat
  /\ result \in {L!Pending, L!Error} \cup {L!Code(c) : c \in 0 .. 255}

CloneType ==
  /\ cpc \in CloneLive \cup {"none", "zombie", "reaped"}
  /\ chook \in Nat
  /\ wait \in L!WaitStatus

SocketType ==
  /\ first \in SUBSET Proc
  /\ second \in SUBSET {"clone"}
  /\ toR \in Seq(SyncMessage)
  /\ toC \in Seq(SyncMessage)
  /\ rreset \in BOOLEAN

RecordType ==
  /\ record \in [status : {"absent", "creating", "created", "stopped"},
                 pid : Proc \cup {"nobody"}, whole : BOOLEAN]
  /\ pidTaken \in BOOLEAN

HistoryType ==
  /\ ran \in [HookKind -> Nat]
  /\ mapped \in SUBSET ({"gid", "uid"} \X (Proc \cup {"nobody"}))

TypeOK ==
  cfg \in Configs /\ RuntimeType /\ CloneType /\ SocketType /\ RecordType /\ HistoryType

Init ==
  /\ cfg \in Configs
  /\ rpc = "create_container" /\ rhook = 0 /\ result = L!Pending
  /\ cpc = "none" /\ chook = 0 /\ wait = L!Alive
  /\ first = {} /\ second = {}
  /\ toR = <<>> /\ toC = <<>> /\ rreset = FALSE
  /\ record = Absent /\ pidTaken = FALSE
  /\ ran = [k \in HookKind |-> 0] /\ mapped = {}

Hooks(kind) == cfg.hooks[kind]

\* The test both sides make before the createRuntime exchange.
NoRuntimeHooks == Hooks("prestart") = 0 /\ Hooks("createRuntime") = 0

-----------------------------------------------------------------------------
(* The status record and the processes it names.                           *)

\* status_directory::write: the file is there afterwards, empty if the disk is
\* full.
Write(status, pid) == \E whole \in BOOLEAN : record' = Record(status, pid, whole)

\* kill(pid, 0) finds a process: a zombie counts, and so does whatever got
\* the PID later (unless it may not be signalled: then it is not found).
PidExists(pid) ==
  \/ pid = "runtime" /\ rpc \notin RuntimeEnds
  \/ pid = "clone" /\ (cpc \in CloneLive \cup {"zombie"} \/ pidTaken)

\* read_status: a record whose process is not found reads as stopped.  A file
\* that is not whole is an exception instead.
ReadStatus(r) == IF PidExists(r.pid) THEN r.status ELSE "stopped"

-----------------------------------------------------------------------------
(* The socket pair.                                                        *)

\* Process p closes every end it holds.  An end nobody holds any more loses
\* its messages; closing the second end over unread messages resets the first.
Leave(p) ==
  /\ first' = first \ {p}
  /\ second' = second \ {p}
  /\ toR' = IF first' = {} THEN <<>> ELSE toR
  /\ toC' = IF second' = {} THEN <<>> ELSE toC
  /\ rreset' = (rreset \/ (second # {} /\ second' = {} /\ toC # <<>>))

REnd(how) == rpc' = how /\ rhook' = 0 /\ result' = L!Error /\ Leave("runtime")

\* An exception leaves container::run: main prints it and returns -1.
RFail == REnd("failed")

RGoto(pc) == rpc' = pc /\ rhook' = 0 /\ UNCHANGED result

\* The clone's last moments: _exit, return from clone_fn, or a signal.
CEnd(status) ==
  /\ cpc' = "zombie" /\ chook' = 0 /\ wait' = status /\ Leave("clone")

CGoto(pc) == cpc' = pc /\ chook' = 0 /\ UNCHANGED wait

\* socket << m at the runtime: writing to a closed socket raises SIGPIPE.
RSend(m, pc) ==
  IF second = {}
    THEN REnd("killed")
    ELSE /\ toC' = Append(toC, m)
         /\ RGoto(pc)
         /\ UNCHANGED <<first, second, toR, rreset>>

\* socket >> byte at the runtime, and the comparison with what it expects.
RReadable == rreset \/ toR # <<>> \/ second = {}
RReceive(m, pc) ==
  /\ RReadable
  /\ IF ~rreset /\ toR # <<>> /\ Head(toR) = m
       THEN /\ toR' = Tail(toR)
            /\ RGoto(pc)
            /\ UNCHANGED <<first, second, toC, rreset>>
       ELSE RFail

\* The same at the clone.  The first process of a PID namespace survives
\* SIGPIPE and gets EPIPE, an exception; any other dies of the signal.
CSend(m, pc) ==
  IF first = {}
    THEN \E status \in {L!Signaled, L!Exited(255)} : CEnd(status)
    ELSE /\ toR' = Append(toR, m)
         /\ CGoto(pc)
         /\ UNCHANGED <<first, second, toC, rreset>>

CReadable == toC # <<>> \/ first = {}
CReceive(m, pc) ==
  /\ CReadable
  /\ IF toC # <<>> /\ Head(toC) = m
       THEN /\ toC' = Tail(toC)
            /\ CGoto(pc)
            /\ UNCHANGED <<first, second, toR, rreset>>
       ELSE CEnd(L!Exited(255))

-----------------------------------------------------------------------------
(* The runtime.                                                            *)

\* The constructor: the record is written with the runtime's own PID.
CreateContainer ==
  /\ rpc = "create_container"
  /\ Write("creating", "runtime")
  /\ RGoto("start_container_process")
  /\ UNCHANGED <<cfg, cvars, sock, pidTaken, hist>>

\* Faulty: the runtime keeps its copy of the clone's end.
StartKeepsSecondEnd ==
  /\ rpc = "start_container_process"
  /\ RGoto("write_created")
  /\ cpc' = "close_fds"
  /\ first' = {"runtime", "clone"}
  /\ second' = {"runtime", "clone"}
  /\ UNCHANGED <<cfg, chook, wait, toR, toC, rreset, record, pidTaken, hist>>

\* socketpair and clone.  The clone inherits both ends; the runtime's copy of
\* the second end dies with the arguments of the clone.
StartContainerProcess ==
  /\ rpc = "start_container_process"
  /\ RGoto("write_created")
  /\ cpc' = "close_fds"
  /\ first' = {"runtime", "clone"}
  /\ second' = {"clone"}
  /\ UNCHANGED <<cfg, chook, wait, toR, toC, rreset, record, pidTaken, hist>>

\* Faulty: the record keeps the runtime's PID.
WriteCreatedOldPid ==
  /\ rpc = "write_created"
  /\ Write("created", "runtime")
  /\ RGoto("await_ns_request")
  /\ UNCHANGED <<cfg, cvars, sock, pidTaken, hist>>

\* Read the record, assert its status, and write it back with the clone's PID:
\* a record that cannot be read is an exception, another status an abort.
Rewrite(pc, expected, status, next) ==
  /\ rpc = pc
  /\ \/ /\ record.whole /\ ReadStatus(record) = expected
        /\ Write(status, "clone")
        /\ RGoto(next)
        /\ UNCHANGED sock
     \/ /\ record.whole /\ ReadStatus(record) # expected
        /\ REnd("aborted") /\ UNCHANGED record
     \/ /\ ~record.whole
        /\ RFail /\ UNCHANGED record
  /\ UNCHANGED <<cfg, cvars, pidTaken, hist>>

WriteCreated == Rewrite("write_created", "creating", "created", "await_ns_request")

\* configure_container_namespaces: the request, the id maps, the answer.
AwaitNsRequest ==
  /\ rpc = "await_ns_request"
  /\ RReceive("REQUEST_CONFIGURE_NAMESPACE",
              IF cfg.userns THEN "gid_mapping" ELSE "ns_configured")
  /\ UNCHANGED <<cfg, cvars, record, pidTaken, hist>>

\* newgidmap or newuidmap on the PID in the record, which must be readable; an
\* empty list of mappings is nothing to do, a process that is gone makes the
\* helper fail.
IdMapping(pc, kind, wanted, next) ==
  /\ rpc = pc
  /\ IF ~record.whole \/ (wanted /\ cpc \notin CloneLive)
       THEN RFail /\ UNCHANGED mapped
       ELSE /\ mapped' = IF wanted THEN mapped \cup {<<kind, record.pid>>} ELSE mapped
            /\ RGoto(next)
            /\ UNCHANGED sock
  /\ UNCHANGED <<cfg, cvars, record, pidTaken, ran>>

ConfigureGidMapping == IdMapping("gid_mapping", "gid", cfg.gid, "uid_mapping")
\* Faulty: whether there are uid mappings is asked of the gid list.
ConfigureUidByGid == IdMapping("uid_mapping", "uid", cfg.gid, "ns_configured")

ConfigureUidMapping == IdMapping("uid_mapping", "uid", cfg.uid, "ns_configured")

NsConfigured ==
  /\ rpc = "ns_configured"
  /\ RSend("NAMESPACE_CONFIGURED", "prestart_hooks")
  /\ UNCHANGED <<cfg, cvars, record, pidTaken, hist>>

\* One execute_hook of a loop over a list: any exit code is success, a hook
\* that is killed is an exception (RThrows).
RHook(pc, kind) ==
  /\ rpc = pc
  /\ rhook < Hooks(kind)
  /\ rhook' = rhook + 1
  /\ ran' = [ran EXCEPT ![kind] = @ + 1]
  /\ UNCHANGED <<cfg, rpc, result, cvars, sock, record, pidTaken, mapped>>

RHooksDone(pc, kind) == rpc = pc /\ rhook = Hooks(kind)

PrestartHook == RHook("prestart_hooks", "prestart")

\* Faulty: create_runtime_hooks forgets the prestart list in its test.
PrestartDoneSkipsExchange ==
  /\ RHooksDone("prestart_hooks", "prestart")
  /\ RGoto(IF Hooks("createRuntime") = 0 THEN "wait_create_container"
                                         ELSE "await_crt_request")
  /\ UNCHANGED <<cfg, cvars, sock, record, pidTaken, hist>>

\* prestart_hooks returns, and create_runtime_hooks returns at once when both
\* of its lists are empty.
PrestartHooksDone ==
  /\ RHooksDone("prestart_hooks", "prestart")
  /\ RGoto(IF NoRuntimeHooks THEN "wait_create_container" ELSE "await_crt_request")
  /\ UNCHANGED <<cfg, cvars, sock, record, pidTaken, hist>>

AwaitCrtRequest ==
  /\ rpc = "await_crt_request"
  /\ RReceive("REQUEST_CREATERUNTIME_HOOKS", "crt_prestart")
  /\ UNCHANGED <<cfg, cvars, record, pidTaken, hist>>

\* create_runtime_hooks walks the prestart list too.
CrtPrestartHook == RHook("crt_prestart", "prestart")
CrtPrestartHooksDone ==
  /\ RHooksDone("crt_prestart", "prestart")
  /\ RGoto("crt_hooks")
  /\ UNCHANGED <<cfg, cvars, sock, record, pidTaken, hist>>

CreateRuntimeHook == RHook("crt_hooks", "createRuntime")
CreateRuntimeHooksDone ==
  /\ RHooksDone("crt_hooks", "createRuntime")
  /\ RSend("CREATE_RUNTIME_HOOKS_EXECUTED", "wait_create_container")
  /\ UNCHANGED <<cfg, cvars, record, pidTaken, hist>>

\* Faulty: without createContainer hooks the socket's end is not waited for.
WaitResultOnly ==
  /\ rpc = "wait_create_container"
  /\ IF Hooks("createContainer") = 0
       THEN RGoto("poststart_hooks") /\ UNCHANGED sock
       ELSE RReceive("CREATE_CONTAINER_HOOKS_EXECUTED", "wait_socket_close")
  /\ UNCHANGED <<cfg, cvars, record, pidTaken, hist>>

WaitCreateContainerResult ==
  /\ rpc = "wait_create_container"
  /\ IF Hooks("createContainer") = 0
       THEN RGoto("wait_socket_close") /\ UNCHANGED sock
       ELSE RReceive("CREATE_CONTAINER_HOOKS_EXECUTED", "wait_socket_close")
  /\ UNCHANGED <<cfg, cvars, record, pidTaken, hist>>

\* The end of the stream is what it waits for, but one byte of any message
\* ends the wait too.
WaitSocketClose ==
  /\ rpc = "wait_socket_close"
  /\ RReadable
  /\ IF rreset
       THEN RFail
       ELSE /\ toR' = IF toR = <<>> THEN toR ELSE Tail(toR)
            /\ RGoto("poststart_hooks")
            /\ UNCHANGED <<first, second, toC, rreset>>
  /\ UNCHANGED <<cfg, cvars, record, pidTaken, hist>>

PoststartHook == RHook("poststart_hooks", "poststart")
PoststartHooksDone ==
  /\ RHooksDone("poststart_hooks", "poststart")
  /\ RGoto("wait_container_process")
  /\ UNCHANGED <<cfg, cvars, sock, record, pidTaken, hist>>

\* Faulty: the process is waited for and left a zombie.
WaitLeavesZombie ==
  /\ rpc = "wait_container_process"
  /\ cpc = "zombie"
  /\ RGoto("write_stopped")
  /\ UNCHANGED <<cfg, cvars, sock, record, pidTaken, hist>>

\* waitpid on the PID in the record, which must be the runtime's child.  The
\* exit code it computes is a local variable: returned by Remove.
WaitContainerProcess ==
  /\ rpc = "wait_container_process"
  /\ IF record.whole /\ record.pid = "clone"
       THEN /\ cpc = "zombie"
            /\ cpc' = "reaped"
            /\ RGoto("write_stopped")
            /\ UNCHANGED <<chook, wait, sock>>
       ELSE RFail /\ UNCHANGED cvars
  /\ UNCHANGED <<cfg, record, pidTaken, hist>>

\* The process is gone, so its record must read as stopped.
WriteStopped == Rewrite("write_stopped", "stopped", "stopped", "poststop_hooks")

\* poststop_hooks tests the poststop list and walks the poststart list.  It
\* is noexcept and catches what a hook throws.
PoststopHook ==
  /\ Hooks("poststop") > 0
  /\ RHook("poststop_hooks", "poststart")

PoststopHooksDone ==
  /\ rpc = "poststop_hooks"
  /\ Hooks("poststop") = 0 \/ rhook = Hooks("poststart")
  /\ RGoto("remove")
  /\ UNCHANGED <<cfg, cvars, sock, record, pidTaken, hist>>

\* The int that waitpid fills in: the exit code in the second byte, or a signal
\* (SIGKILL, say; all of them, and the core flag, are below 256) in the first.
RawStatus == IF wait.how = "exited" THEN 256 * wait.code ELSE 9

\* The macro, which does not ask how the process ended.
WEXITSTATUS(status) == (status \div 256) % 256

\* Faulty: the raw wait status is returned.
RemoveReturnsRaw ==
  /\ rpc = "remove"
  /\ record' = Absent
  /\ rpc' = "returned" /\ rhook' = 0
  /\ result' = L!Code(RawStatus)
  /\ Leave("runtime")
  /\ UNCHANGED <<cfg, cvars, pidTaken, hist>>

Remove ==
  /\ rpc = "remove"
  /\ record' = Absent
  /\ rpc' = "returned" /\ rhook' = 0
  /\ result' = L!Code(WEXITSTATUS(RawStatus))
  /\ Leave("runtime")
  /\ UNCHANGED <<cfg, cvars, pidTaken, hist>>

\* A call of the runtime fails, or one of its hooks is killed by a signal.
RThrows ==
  /\ rpc \in RuntimeSteps \ {"poststop_hooks"}
  /\ RFail
  /\ UNCHANGED <<cfg, cvars, record, pidTaken, hist>>

RKilled ==
  /\ rpc \in RuntimeSteps
  /\ REnd("killed")
  /\ UNCHANGED <<cfg, cvars, record, pidTaken, hist>>

-----------------------------------------------------------------------------
(* The clone.                                                              *)

\* Faulty: nothing is closed.
CloseNothing ==
  /\ cpc = "close_fds"
  /\ CGoto("request_ns")
  /\ UNCHANGED <<cfg, rvars, sock, record, pidTaken, hist>>

\* close_other_fds.  Every descriptor below the socket pair is in use: the
\* kernel gave the pair the lowest free ones.
CloseInheritedFds ==
  /\ cpc = "close_fds"
  /\ LET left == CloseOtherFds(0 .. cfg.firstFd + 1, {0, 1, 2, cfg.firstFd + 1})
     IN  first' = IF cfg.firstFd \in left THEN first ELSE first \ {"clone"}
  /\ toR' = IF first' = {} THEN <<>> ELSE toR
  /\ CGoto("request_ns")
  /\ UNCHANGED <<cfg, rvars, second, toC, rreset, record, pidTaken, hist>>

\* configure_container_namespaces, the clone's side.
RequestNs ==
  /\ cpc = "request_ns"
  /\ CSend("REQUEST_CONFIGURE_NAMESPACE", "await_ns")
  /\ UNCHANGED <<cfg, rvars, record, pidTaken, hist>>

AwaitNs ==
  /\ cpc = "await_ns"
  /\ CReceive("NAMESPACE_CONFIGURED", "mounts")
  /\ UNCHANGED <<cfg, rvars, record, pidTaken, hist>>

\* configure_mounts; a mount that fails is CThrows.
ConfigureMounts ==
  /\ cpc = "mounts"
  /\ CGoto("request_crt")
  /\ UNCHANGED <<cfg, rvars, sock, record, pidTaken, hist>>

\* Faulty: the clone goes on after its request, or waits without one.
RequestCrtGoesOn ==
  /\ cpc = "request_crt"
  /\ IF NoRuntimeHooks
       THEN CGoto("create_container_hooks") /\ UNCHANGED sock
       ELSE CSend("REQUEST_CREATERUNTIME_HOOKS", "create_container_hooks")
  /\ UNCHANGED <<cfg, rvars, record, pidTaken, hist>>

RequestCrtUnsent ==
  /\ cpc = "request_crt"
  /\ CGoto(IF NoRuntimeHooks THEN "create_container_hooks" ELSE "await_crt")
  /\ UNCHANGED <<cfg, rvars, sock, record, pidTaken, hist>>

\* wait_create_runtime_result: the request, unless there is nothing to run.
RequestCrt ==
  /\ cpc = "request_crt"
  /\ IF NoRuntimeHooks
       THEN CGoto("create_container_hooks") /\ UNCHANGED sock
       ELSE CSend("REQUEST_CREATERUNTIME_HOOKS", "await_crt")
  /\ UNCHANGED <<cfg, rvars, record, pidTaken, hist>>

\* Faulty: the answer is not waited for.
AwaitCrtAtOnce ==
  /\ cpc = "await_crt"
  /\ CGoto("create_container_hooks")
  /\ UNCHANGED <<cfg, rvars, sock, record, pidTaken, hist>>

AwaitCrt ==
  /\ cpc = "await_crt"
  /\ CReceive("CREATE_RUNTIME_HOOKS_EXECUTED", "create_container_hooks")
  /\ UNCHANGED <<cfg, rvars, record, pidTaken, hist>>

CHook(pc, kind) ==
  /\ cpc = pc
  /\ chook < Hooks(kind)
  /\ chook' = chook + 1
  /\ ran' = [ran EXCEPT ![kind] = @ + 1]
  /\ UNCHANGED <<cfg, rvars, cpc, wait, sock, record, pidTaken, mapped>>

\* The list is done: its message, unless the list was empty.
CHooksDone(pc, kind, m, next) ==
  /\ cpc = pc
  /\ chook = Hooks(kind)
  /\ IF Hooks(kind) = 0
       THEN CGoto(next) /\ UNCHANGED sock
       ELSE CSend(m, next)
  /\ UNCHANGED <<cfg, rvars, record, pidTaken, hist>>

CreateContainerHook == CHook("create_container_hooks", "createContainer")
CreateContainerHooksDone ==
  CHooksDone("create_container_hooks", "createContainer",
             "CREATE_CONTAINER_HOOKS_EXECUTED", "pivot_root")

PivotRoot ==
  /\ cpc = "pivot_root"
  /\ CGoto("start_container_hooks")
  /\ UNCHANGED <<cfg, rvars, sock, record, pidTaken, hist>>

StartContainerHook == CHook("start_container_hooks", "startContainer")
StartContainerHooksDone ==
  CHooksDone("start_container_hooks", "startContainer",
             "START_CONTAINER_HOOKS_EXECUTED", "exec")

\* execute_process: both ends of the pair are close-on-exec.
ExecuteProcess ==
  /\ cpc = "exec"
  /\ CGoto("user")
  /\ Leave("clone")
  /\ UNCHANGED <<cfg, rvars, record, pidTaken, hist>>

\* An exception in clone_fn: it returns -1.
CThrows ==
  /\ cpc \in SetupSteps
  /\ CEnd(L!Exited(255))
  /\ UNCHANGED <<cfg, rvars, record, pidTaken, hist>>

CKilled ==
  /\ cpc \in CloneLive
  /\ CEnd(L!Signaled)
  /\ UNCHANGED <<cfg, rvars, record, pidTaken, hist>>

\* The user's program exits.
UserExits ==
  /\ cpc = "user"
  /\ \E code \in ExitCodes : CEnd(L!Exited(code))
  /\ UNCHANGED <<cfg, rvars, record, pidTaken, hist>>

-----------------------------------------------------------------------------
(* The system.                                                             *)

\* The runtime is gone: its orphan is waited for by an init process.
InitReaps ==
  /\ rpc \in RuntimeEnds
  /\ cpc = "zombie"
  /\ cpc' = "reaped"
  /\ UNCHANGED <<cfg, rvars, chook, wait, sock, record, pidTaken, hist>>

PidReused ==
  /\ cpc = "reaped" /\ ~pidTaken
  /\ pidTaken' = TRUE
  /\ UNCHANGED <<cfg, rvars, cvars, sock, record, hist>>

Terminated ==
  /\ rpc \in RuntimeEnds
  /\ cpc \in {"none", "reaped"}
  /\ UNCHANGED vars

\* What the runtime's own code does, hooks apart.
RuntimeCode ==
  \/ CreateContainer \/ StartContainerProcess \/ WriteCreated
  \/ AwaitNsRequest \/ ConfigureGidMapping \/ ConfigureUidMapping \/ NsConfigured
  \/ PrestartHooksDone \/ AwaitCrtRequest \/ CrtPrestartHooksDone
  \/ CreateRuntimeHooksDone \/ WaitCreateContainerResult \/ WaitSocketClose
  \/ PoststartHooksDone \/ WaitContainerProcess \/ WriteStopped
  \/ PoststopHooksDone \/ Remove

RuntimeHook ==
  \/ PrestartHook \/ CrtPrestartHook \/ CreateRuntimeHook
  \/ PoststartHook \/ PoststopHook

CloneCode ==
  \/ CloseInheritedFds \/ RequestNs \/ AwaitNs \/ ConfigureMounts
  \/ RequestCrt \/ AwaitCrt \/ CreateContainerHooksDone
  \/ PivotRoot \/ StartContainerHooksDone \/ ExecuteProcess

CloneHook == CreateContainerHook \/ StartContainerHook

Next ==
  \/ RuntimeCode \/ RuntimeHook \/ RThrows \/ RKilled
  \/ CloneCode \/ CloneHook \/ CThrows \/ CKilled \/ UserExits
  \/ InitReaps \/ PidReused \/ Terminated

Spec == Init /\ [][Next]_vars

\* The scheduler runs both processes and init; how long a hook or the user's
\* program takes is up to them.
Fairness == WF_vars(RuntimeCode) /\ WF_vars(CloneCode) /\ WF_vars(InitReaps)

FairSpec == Spec /\ Fairness

-----------------------------------------------------------------------------
(* Safety.                                                                 *)

CloneGone == cpc \in {"zombie", "reaped"}

\* What the runtime reads next, and what the clone does.
RExpects ==
  CASE rpc = "await_ns_request" -> {"REQUEST_CONFIGURE_NAMESPACE"}
    [] rpc = "await_crt_request" -> {"REQUEST_CREATERUNTIME_HOOKS"}
    [] rpc = "wait_create_container" /\ Hooks("createContainer") > 0
         -> {"CREATE_CONTAINER_HOOKS_EXECUTED"}
    [] rpc = "wait_socket_close" -> {"START_CONTAINER_HOOKS_EXECUTED"}
    [] OTHER -> SyncMessage
CExpects ==
  CASE cpc = "await_ns" -> {"NAMESPACE_CONFIGURED"}
    [] cpc = "await_crt" -> {"CREATE_RUNTIME_HOOKS_EXECUTED"}
    [] OTHER -> SyncMessage

\* unexpected_sync_message is never thrown: the two sides decide for
\* themselves, from the hook lists, which exchanges to skip, and whatever
\* waits at one end is what the process there is about to read.
HandshakeAgrees ==
  /\ toR # <<>> => Head(toR) \in RExpects
  /\ toC # <<>> => Head(toC) \in CExpects

\* While prestart and createRuntime hooks run in answer to the request, the
\* container stands still between its mounts and its pivot_root, or is dead.
RuntimeHooksWhileCloneWaits ==
  rpc \in {"crt_prestart", "crt_hooks"} => cpc = "await_crt" \/ CloneGone

\* The hooks of the two processes happen in the order of the life cycle:
\* createRuntime before createContainer before startContainer before the
\* user's program, each list complete before the next begins.  Prestart hooks
\* come first and are executed twice: by prestart_hooks, and once more by
\* create_runtime_hooks.
HookOrder ==
  LET done(kind) == ran[kind] = Hooks(kind)
      complete   == ran["prestart"] = 2 * Hooks("prestart") /\ done("createRuntime")
  IN  /\ ran["createRuntime"] > 0 => ran["prestart"] = 2 * Hooks("prestart")
      /\ ran["createContainer"] > 0 => complete
      /\ ran["startContainer"] > 0 => complete /\ done("createContainer")
      /\ cpc = "user" =>
           complete /\ done("createContainer") /\ done("startContainer")

\* Nothing of the container's setup that needs the id maps (mounts, hooks,
\* the user's program) runs before the runtime has written them, for the
\* container's process and no other.
IdMapsInPlace ==
  LET wanted == {k \in {"gid", "uid"} :
                   cfg.userns /\ IF k = "gid" THEN cfg.gid ELSE cfg.uid}
  IN  /\ \A m \in mapped : m[2] = "clone"
      /\ cpc \in CloneLive \ {"close_fds", "request_ns", "await_ns"} =>
           {m[1] : m \in mapped} = wanted

\* For a container in setup past the namespace exchange, or running, the last
\* record written is one with its own PID, whatever became of the runtime.  A
\* user namespace makes sure that this record can be read: without one the
\* container runs even if the disk had no room for it.  The record is removed
\* only after the process was waited for.
RecordNamesContainer ==
  /\ cpc \in CloneLive \ {"close_fds", "request_ns", "await_ns"} =>
       Recorded("created", "clone") /\ (cfg.userns => record.whole)
  /\ record = Absent /\ cpc # "none" => cpc = "reaped"

\* Poststart hooks find the user's program running or over.  Only the message
\* of startContainer hooks, taken for the end of the stream, lets them begin
\* earlier, and then the clone has nothing left to do but its exec.
PoststartAfterStart ==
  rpc = "poststart_hooks" =>
    \/ cpc = "user" \/ CloneGone
    \/ cpc = "exec" /\ Hooks("startContainer") > 0

\* The assertions of container::run hold unless the PID of the container was
\* taken by another process between waitpid and the read of the status.
AbortsOnlyOnPidReuse == rpc = "aborted" => pidTaken

\* A container that went its way has had its poststop hooks run.
PoststopHooksRun == rpc = "returned" => ran["poststop"] = Hooks("poststop")

\* container::run implements the life cycle the command promises.
ImplementsLifecycle == L!LSpec

-----------------------------------------------------------------------------
(* Liveness.                                                               *)

RuntimeInHook ==
  \/ rpc \in {"prestart_hooks", "crt_prestart"} /\ rhook < Hooks("prestart")
  \/ rpc = "crt_hooks" /\ rhook < Hooks("createRuntime")
  \/ rpc \in {"poststart_hooks", "poststop_hooks"} /\ rhook < Hooks("poststart")

CloneInHook ==
  \/ cpc = "create_container_hooks" /\ chook < Hooks("createContainer")
  \/ cpc = "start_container_hooks" /\ chook < Hooks("startContainer")

\* The two processes never wait for each other forever: the system always
\* comes back to where only a hook or the user's program holds it up, or the
\* command has ended.
NoHandshakeDeadlock ==
  []<>(rpc \in RuntimeEnds \/ RuntimeInHook \/ CloneInHook \/ cpc = "user")

\* A container that is dead, at whatever point of its setup, ends the command.
DeathIsNoticed == CloneGone ~> (rpc \in RuntimeEnds \/ RuntimeInHook)

\* A runtime that is gone leaves no half-made container behind: the clone
\* starts the user's program or dies.
NoOrphanInSetup ==
  (rpc \in RuntimeEnds) ~>
    (cpc \in {"none", "reaped", "user"} \/ CloneInHook)

\* This is so unless the socket pair took the descriptors 3 and 4.
NoOrphanAboveLowSocket == cfg.firstFd > 3 => NoOrphanInSetup
=============================================================================
