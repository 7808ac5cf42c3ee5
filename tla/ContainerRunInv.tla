--------------------------- MODULE ContainerRunInv ---------------------------
(***************************************************************************)
(* The inductive invariant of ContainerRun: what the two processes know of *)
(* each other at every pair of places they can be in.                      *)
(***************************************************************************)
EXTENDS ContainerRun

\* The rest of the run splits at the namespace exchange: only the clone's
\* places before it can see the runtime without a configured clone.
PastNs == CloneLive \ {"close_fds", "request_ns", "await_ns"}
\* ... and at the createRuntime exchange.
PastCrt == PastNs \ {"mounts", "request_crt", "await_crt"}

EndSteps == {"write_stopped", "poststop_hooks", "remove"}
EarlySteps == {"create_container", "start_container_process"}

\* The runtime's places after it has sent NAMESPACE_CONFIGURED, while it has
\* received nothing more.
AfterConfigured ==
  {"prestart_hooks"}
    \cup (IF NoRuntimeHooks
            THEN {"wait_create_container"}
                   \cup (IF Hooks("createContainer") = 0 THEN {"wait_socket_close"} ELSE {})
            ELSE {"await_crt_request"})

\* ... and after the createRuntime exchange, if there is one.
AfterCreateRuntime ==
  (IF NoRuntimeHooks THEN {"prestart_hooks"} ELSE {})
    \cup {"wait_create_container"}
    \cup (IF Hooks("createContainer") = 0 THEN {"wait_socket_close"} ELSE {})

\* ... where it has not read the result of the createContainer hooks yet.
BeforeResult ==
  (IF NoRuntimeHooks THEN {"prestart_hooks"} ELSE {}) \cup {"wait_create_container"}

ContainerResult ==
  IF Hooks("createContainer") = 0 THEN <<>> ELSE <<"CREATE_CONTAINER_HOOKS_EXECUTED">>
StartResult ==
  IF Hooks("startContainer") = 0 THEN <<>> ELSE <<"START_CONTAINER_HOOKS_EXECUTED">>
BothResults ==
  IF Hooks("createContainer") = 0 THEN StartResult
  ELSE IF Hooks("startContainer") = 0 THEN ContainerResult
  ELSE <<"CREATE_CONTAINER_HOOKS_EXECUTED", "START_CONTAINER_HOOKS_EXECUTED">>

\* Who holds which end.
SocketInv ==
  /\ "runtime" \in first <=> rpc \in RuntimeSteps \ EarlySteps
  /\ cpc \notin SetupSteps => "clone" \notin first
  /\ second = IF cpc \in SetupSteps THEN {"clone"} ELSE {}
  /\ cpc = "close_fds" => "clone" \in first
  /\ rpc \in EarlySteps => cpc = "none"
  /\ cpc = "none" => rpc \in EarlySteps \cup {"failed", "killed"}
  /\ first = {} => toR = <<>>

\* Both processes alive: their places and the messages on the way, one
\* formula for each stretch of the clone's way.
AtRequestNs ==
  rpc \in RuntimeSteps /\ cpc \in {"close_fds", "request_ns"} =>
    rpc \in {"write_created", "await_ns_request"} /\ toR = <<>>

AtAwaitNs ==
  rpc \in RuntimeSteps /\ cpc = "await_ns" =>
    \/ /\ rpc \in {"write_created", "await_ns_request"}
       /\ toR = <<"REQUEST_CONFIGURE_NAMESPACE">> /\ toC = <<>>
    \/ /\ rpc \in {"gid_mapping", "uid_mapping", "ns_configured"}
       /\ toR = <<>> /\ toC = <<>>
    \/ /\ rpc \in AfterConfigured
       /\ toR = <<>> /\ toC = <<"NAMESPACE_CONFIGURED">>

AtMounts ==
  rpc \in RuntimeSteps /\ cpc \in {"mounts", "request_crt"} =>
    rpc \in AfterConfigured /\ toR = <<>>

AtAwaitCrt ==
  rpc \in RuntimeSteps /\ cpc = "await_crt" =>
    \/ /\ rpc \in AfterConfigured
       /\ toR = <<"REQUEST_CREATERUNTIME_HOOKS">> /\ toC = <<>>
    \/ /\ rpc \in {"crt_prestart", "crt_hooks"}
       /\ toR = <<>> /\ toC = <<>>
    \/ /\ rpc \in AfterCreateRuntime
       /\ toR = <<>> /\ toC = <<"CREATE_RUNTIME_HOOKS_EXECUTED">>

AtContainerHooks ==
  rpc \in RuntimeSteps /\ cpc = "create_container_hooks" =>
    rpc \in AfterCreateRuntime /\ toR = <<>>

AtStartHooks ==
  rpc \in RuntimeSteps /\ cpc \in {"pivot_root", "start_container_hooks"} =>
    \/ rpc \in BeforeResult /\ toR = ContainerResult
    \/ rpc = "wait_socket_close" /\ toR = <<>>

AtExec ==
  rpc \in RuntimeSteps /\ cpc \in {"exec", "user"} =>
    \/ rpc \in BeforeResult /\ toR = BothResults
    \/ rpc = "wait_socket_close" /\ toR = StartResult
    \/ /\ rpc \in {"poststart_hooks", "wait_container_process"}
       /\ cpc = "user" \/ Hooks("startContainer") > 0
       /\ toR = <<>>

\* Neither side takes part in an exchange the configuration has no hooks for.
ExchangeTaken ==
  cpc = "await_crt" \/ rpc \in {"await_crt_request", "crt_prestart", "crt_hooks"} =>
    ~NoRuntimeHooks

ExchangeInv ==
  /\ ExchangeTaken
  /\ AtRequestNs /\ AtAwaitNs /\ AtMounts /\ AtAwaitCrt
  /\ AtContainerHooks /\ AtStartHooks /\ AtExec

\* The clone is dead: what it can have left for the runtime to read.
LeftAtNs ==
  rpc \in {"write_created", "await_ns_request"} /\ CloneGone =>
    toR \in {<<>>, <<"REQUEST_CONFIGURE_NAMESPACE">>}
LeftAtCrt ==
  rpc \in {"prestart_hooks", "await_crt_request"} /\ ~NoRuntimeHooks /\ CloneGone =>
    toR \in {<<>>, <<"REQUEST_CREATERUNTIME_HOOKS">>}
LeftAtResult ==
  rpc \in BeforeResult /\ CloneGone => toR \in {<<>>, ContainerResult, BothResults}
LeftAtClose ==
  rpc = "wait_socket_close" /\ CloneGone => toR \in {<<>>, StartResult}
NothingLeft ==
  rpc \in {"gid_mapping", "uid_mapping", "ns_configured", "crt_prestart", "crt_hooks",
           "poststart_hooks", "wait_container_process"} /\ CloneGone => toR = <<>>

LeftoverInv == LeftAtNs /\ LeftAtCrt /\ LeftAtResult /\ LeftAtClose /\ NothingLeft

\* What waits for a live clone, and for none other.
InboxInv ==
  toC # <<>> =>
    \/ cpc = "await_ns" /\ toC = <<"NAMESPACE_CONFIGURED">>
    \/ cpc = "await_crt" /\ toC = <<"CREATE_RUNTIME_HOOKS_EXECUTED">>

\* The record follows the runtime, whether or not it is readable; only its last
\* two states need the container to be gone.
RecordInv ==
  /\ rpc = "create_container" => record = Absent
  /\ rpc \in {"start_container_process", "write_created"} =>
       Recorded("creating", "runtime")
  /\ rpc \in RuntimeSteps \ (EarlySteps \cup EndSteps \cup {"write_created"}) =>
       Recorded("created", "clone")
  /\ rpc = "write_stopped" => Recorded("created", "clone")
  /\ rpc \in {"poststop_hooks", "remove"} => Recorded("stopped", "clone")
  /\ rpc \in EndSteps \cup {"returned"} => cpc = "reaped"
  /\ cpc = "reaped" => rpc \in EndSteps \cup RuntimeEnds
  /\ record.status = "absent" => cpc \in {"none", "reaped"}
  /\ record.status = "stopped" => cpc = "reaped"
  /\ pidTaken => cpc = "reaped"
  /\ rpc = "aborted" => pidTaken

\* The id maps follow the runtime, and are there before the clone is told; to
\* write them the record was read.
WantedMaps ==
  {m \in {"gid", "uid"} \X {"clone"} :
     cfg.userns /\ IF m[1] = "gid" THEN cfg.gid ELSE cfg.uid}
RecordRead == cfg.userns => record.whole
Configured == mapped = WantedMaps /\ Recorded("created", "clone") /\ RecordRead

MapInv ==
  /\ rpc \in EarlySteps \cup {"write_created", "await_ns_request", "gid_mapping"} =>
       mapped = {}
  /\ rpc \in {"gid_mapping", "uid_mapping"} => cfg.userns
  /\ rpc = "uid_mapping" => mapped = {m \in WantedMaps : m[1] = "gid"}
  /\ rpc \in {"uid_mapping", "ns_configured"} => RecordRead
  /\ rpc \in RuntimeSteps \ (EarlySteps \cup {"write_created", "await_ns_request",
                                              "gid_mapping", "uid_mapping"}) =>
       mapped = WantedMaps
  /\ cpc \in PastNs \/ toC # <<>> => Configured
  /\ mapped \subseteq WantedMaps

\* The hooks done follow both processes.
HooksComplete ==
  /\ ran["prestart"] = 2 * Hooks("prestart")
  /\ ran["createRuntime"] = Hooks("createRuntime")

HookInv ==
  /\ ran["prestart"] <= 2 * Hooks("prestart")
  /\ ran["createRuntime"] <= Hooks("createRuntime")
  /\ rpc \in EarlySteps \cup {"write_created", "await_ns_request", "gid_mapping",
                              "uid_mapping", "ns_configured"} =>
       ran["prestart"] = 0 /\ rhook = 0
  /\ rpc = "prestart_hooks" =>
       ran["prestart"] = rhook /\ rhook <= Hooks("prestart")
  /\ rpc = "await_crt_request" => ran["prestart"] = Hooks("prestart") /\ rhook = 0
  /\ rpc = "crt_prestart" =>
       ran["prestart"] = Hooks("prestart") + rhook /\ rhook <= Hooks("prestart")
  /\ rpc = "crt_hooks" =>
       /\ ran["prestart"] = 2 * Hooks("prestart")
       /\ ran["createRuntime"] = rhook /\ rhook <= Hooks("createRuntime")
  /\ rpc \in EarlySteps \cup {"write_created", "await_ns_request", "gid_mapping",
                              "uid_mapping", "ns_configured", "prestart_hooks",
                              "await_crt_request", "crt_prestart"} =>
       ran["createRuntime"] = 0
  /\ rpc \in {"wait_create_container", "wait_socket_close", "poststart_hooks",
              "wait_container_process"} => HooksComplete
  /\ rpc \in {"wait_create_container", "wait_socket_close"} => rhook = 0
  /\ cpc \in PastCrt \/ (cpc = "await_crt" /\ toC # <<>>) => HooksComplete
  /\ ran["createRuntime"] > 0 => ran["prestart"] = 2 * Hooks("prestart")
  /\ ran["createContainer"] > 0 \/ ran["startContainer"] > 0 => HooksComplete
  /\ cpc \in (CloneLive \cup {"none"}) \ PastCrt =>
       ran["createContainer"] = 0 /\ ran["startContainer"] = 0 /\ chook = 0
  /\ cpc = "create_container_hooks" =>
       /\ ran["createContainer"] = chook /\ chook <= Hooks("createContainer")
       /\ ran["startContainer"] = 0
  /\ cpc \in {"pivot_root", "start_container_hooks", "exec", "user"} =>
       ran["createContainer"] = Hooks("createContainer")
  /\ cpc = "pivot_root" => ran["startContainer"] = 0 /\ chook = 0
  /\ cpc = "start_container_hooks" =>
       ran["startContainer"] = chook /\ chook <= Hooks("startContainer")
  /\ cpc \in {"exec", "user"} => ran["startContainer"] = Hooks("startContainer")
  /\ ran["startContainer"] > 0 => ran["createContainer"] = Hooks("createContainer")

\* The wait status and the result say which process has ended.
ResultInv ==
  /\ cpc \in {"zombie", "reaped"} <=> wait # L!Alive
  /\ rpc \in RuntimeSteps => result = L!Pending
  /\ rpc \in RuntimeEnds \ {"returned"} => result = L!Error

IInv ==
  /\ TypeOK /\ SocketInv /\ ExchangeInv /\ LeftoverInv /\ InboxInv
  /\ RecordInv /\ MapInv /\ HookInv /\ ResultInv
==============================================================================
