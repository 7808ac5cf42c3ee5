----------------------- MODULE ContainerRunInv_proofs ------------------------
(***************************************************************************)
(* Every step of ContainerRun keeps every part of IInv: one lemma for each *)
(* part, one step of the proof for each action, after lemmas about the     *)
(* steps where messages are sent and read.  Then what is proved of         *)
(* ContainerRun for every set of configurations: the safety properties     *)
(* follow from IInv, and every step is a step of ContainerLifecycle or     *)
(* leaves it alone.                                                        *)
(***************************************************************************)
EXTENDS ContainerRun_proofs

\* An exception takes the runtime out of container::run.
LEMMA FailedIsEnd == ASSUME RFail PROVE rpc' \notin RuntimeSteps
  BY DEF RFail, REnd, RuntimeSteps

\* Before clone there is no clone and nothing in the socket pair.
LEMMA NobodyYet ==
  ASSUME TypeOK, SocketInv, rpc \in EarlySteps
  PROVE  toR = <<>> /\ cpc = "none"
<1>1. cpc = "none" /\ "runtime" \notin first
  BY DEF SocketInv
<1>2. "clone" \notin first
  BY <1>1 DEF SocketInv, SetupSteps
<1>3. first = {}
  BY <1>1, <1>2 DEF TypeOK, SocketType, Proc
<1> QED
  BY <1>1, <1>3 DEF SocketInv

\* A new clone finds an empty queue and a runtime that will read.
LEMMA StartedAtRequestNs == ASSUME TypeOK, SocketInv, StartContainerProcess PROVE AtRequestNs'
  BY NobodyYet DEF StartContainerProcess, RGoto, AtRequestNs, EarlySteps

\* The namespace request is read: the clone waits for the answer.
LEMMA NsRequestRead == ASSUME TypeOK, AtAwaitNs, AwaitNsRequest PROVE AtAwaitNs'
<1> SUFFICES ASSUME rpc' \in RuntimeSteps, cpc = "await_ns"
             PROVE  rpc' \in {"gid_mapping", "ns_configured"} /\ toR' = <<>> /\ toC' = <<>>
  BY DEF AwaitNsRequest, cvars, AtAwaitNs
<1>1. toR = <<"REQUEST_CONFIGURE_NAMESPACE">> /\ toC = <<>>
  BY DEF AtAwaitNs, AwaitNsRequest, AfterConfigured, RuntimeSteps
<1> QED
  BY <1>1, FailedIsEnd, SeqFacts DEF AwaitNsRequest, RReceive, RGoto

\* The createContainer result is read while startContainer hooks run.
LEMMA ResultReadAtStartHooks == ASSUME TypeOK, AtStartHooks, WaitCreateContainerResult PROVE AtStartHooks'
<1> SUFFICES ASSUME rpc' \in RuntimeSteps, cpc \in {"pivot_root", "start_container_hooks"}
             PROVE  rpc' = "wait_socket_close" /\ toR' = <<>>
  BY DEF WaitCreateContainerResult, cvars, AtStartHooks
<1>1. toR = ContainerResult
  BY DEF AtStartHooks, WaitCreateContainerResult, RuntimeSteps
<1>2. CASE Hooks("createContainer") = 0
  BY <1>1, <1>2 DEF WaitCreateContainerResult, ContainerResult, RGoto, sock
<1>3. CASE Hooks("createContainer") # 0
  BY <1>1, <1>3, FailedIsEnd, SeqFacts DEF WaitCreateContainerResult, ContainerResult, RReceive, RGoto
<1> QED
  BY <1>2, <1>3

\* The createContainer result is read after the startContainer hooks.
LEMMA ResultReadAtExec == ASSUME TypeOK, AtExec, WaitCreateContainerResult PROVE AtExec'
<1> SUFFICES ASSUME rpc' \in RuntimeSteps, cpc \in {"exec", "user"}
             PROVE  rpc' = "wait_socket_close" /\ toR' = StartResult'
  BY DEF WaitCreateContainerResult, cvars, AtExec
<1>1. toR = BothResults /\ StartResult' = StartResult
  BY DEF AtExec, WaitCreateContainerResult, RuntimeSteps, StartResult, Hooks
<1>2. CASE Hooks("createContainer") = 0
  BY <1>1, <1>2 DEF WaitCreateContainerResult, BothResults, RGoto, sock
<1>3. CASE Hooks("createContainer") # 0
  BY <1>1, <1>3, FailedIsEnd, SeqFacts
     DEF WaitCreateContainerResult, BothResults, ContainerResult, StartResult, RReceive, RGoto
<1> QED
  BY <1>2, <1>3

\* wait_socket_close reads the message the startContainer hooks left, or the end.
LEMMA CloseReadAtExec == ASSUME TypeOK, SocketInv, AtExec, WaitSocketClose PROVE AtExec'
<1> SUFFICES ASSUME rpc' \in RuntimeSteps, cpc \in {"exec", "user"}
             PROVE  /\ rpc' = "poststart_hooks" /\ toR' = <<>>
                    /\ cpc = "user" \/ Hooks("startContainer") > 0
  BY DEF WaitSocketClose, cvars, AtExec, Hooks
<1>1. toR = StartResult
  BY DEF AtExec, WaitSocketClose, RuntimeSteps, BeforeResult
<1>2. toR' = <<>> /\ rpc' = "poststart_hooks"
  BY <1>1, FailedIsEnd, SeqFacts DEF WaitSocketClose, RGoto, StartResult
<1>3. cpc = "exec" => second # {}
  BY DEF SocketInv, SetupSteps
<1>4. cpc = "exec" => toR # <<>>
  BY <1>3, FailedIsEnd DEF WaitSocketClose, RReadable
<1> QED
  BY <1>1, <1>2, <1>4, ConfigFacts DEF StartResult, TypeOK, HookKind

\* The request for the createRuntime hooks is sent.
LEMMA CrtRequested == ASSUME TypeOK, AtMounts, InboxInv, SocketInv, RequestCrt PROVE AtAwaitCrt'
<1> SUFFICES ASSUME rpc \in RuntimeSteps, cpc' = "await_crt"
             PROVE  /\ rpc \in AfterConfigured /\ AfterConfigured' = AfterConfigured
                    /\ toR' = <<"REQUEST_CREATERUNTIME_HOOKS">> /\ toC' = <<>>
  BY DEF RequestCrt, rvars, AtAwaitCrt
<1>1. toR = <<>> /\ toC = <<>> /\ rpc \in AfterConfigured
  BY DEF AtMounts, InboxInv, RequestCrt
<1>2. AfterConfigured' = AfterConfigured
  BY DEF RequestCrt, AfterConfigured, NoRuntimeHooks, Hooks
<1>3. first # {}
  BY DEF SocketInv, RequestCrt, EarlySteps
<1>4. toR' = Append(toR, "REQUEST_CREATERUNTIME_HOOKS") /\ toC' = toC
  BY <1>3 DEF RequestCrt, CSend, CGoto
<1> QED
  BY <1>1, <1>2, <1>4, SeqFacts

\* The createContainer result is sent, if there is one.
LEMMA ContainerResultSent == ASSUME TypeOK, AtContainerHooks, InboxInv, SocketInv, CreateContainerHooksDone
            PROVE  AtStartHooks'
<1> SUFFICES ASSUME rpc \in RuntimeSteps, cpc' = "pivot_root"
             PROVE  \/ rpc \in BeforeResult' /\ toR' = ContainerResult'
                    \/ rpc = "wait_socket_close" /\ toR' = <<>>
  BY DEF CreateContainerHooksDone, CHooksDone, CSend, CEnd, CGoto, rvars, AtStartHooks
<1>1. toR = <<>> /\ rpc \in AfterCreateRuntime
  BY DEF AtContainerHooks, CreateContainerHooksDone, CHooksDone
<1>2. BeforeResult' = BeforeResult /\ ContainerResult' = ContainerResult
  BY DEF CreateContainerHooksDone, CHooksDone, BeforeResult, ContainerResult, NoRuntimeHooks, Hooks
<1>3. CASE Hooks("createContainer") = 0
  BY <1>1, <1>2, <1>3 DEF CreateContainerHooksDone, CHooksDone, ContainerResult, BeforeResult,
     AfterCreateRuntime, sock
<1>4. CASE Hooks("createContainer") # 0
  <2>1. first # {}
    BY <1>1 DEF SocketInv, AfterCreateRuntime, EarlySteps
  <2>2. toR' = Append(toR, "CREATE_CONTAINER_HOOKS_EXECUTED")
    BY <1>4, <2>1 DEF CreateContainerHooksDone, CHooksDone, CSend
  <2> QED
    BY <1>1, <1>2, <1>4, <2>2, SeqFacts DEF ContainerResult, BeforeResult, AfterCreateRuntime
<1> QED
  BY <1>3, <1>4

\* The startContainer result is sent behind the createContainer one.
LEMMA StartResultSent == ASSUME TypeOK, AtStartHooks, SocketInv, StartContainerHooksDone
            PROVE  AtExec'
<1> SUFFICES ASSUME rpc \in RuntimeSteps, cpc' = "exec"
             PROVE  \/ rpc \in BeforeResult' /\ toR' = BothResults'
                    \/ rpc = "wait_socket_close" /\ toR' = StartResult'
  BY DEF StartContainerHooksDone, CHooksDone, CSend, CEnd, CGoto, rvars, AtExec
<1>1. \/ rpc \in BeforeResult /\ toR = ContainerResult
      \/ rpc = "wait_socket_close" /\ toR = <<>>
  BY DEF AtStartHooks, StartContainerHooksDone, CHooksDone
<1>2. BeforeResult' = BeforeResult /\ StartResult' = StartResult /\ BothResults' = BothResults
  BY DEF StartContainerHooksDone, CHooksDone, BeforeResult, ContainerResult, StartResult,
     BothResults, NoRuntimeHooks, Hooks
<1>3. CASE Hooks("startContainer") = 0
  BY <1>1, <1>2, <1>3 DEF StartContainerHooksDone, CHooksDone, ContainerResult, StartResult,
     BothResults, sock
<1>4. CASE Hooks("startContainer") # 0
  <2>1. first # {}
    BY <1>1 DEF SocketInv, BeforeResult, EarlySteps
  <2>2. toR' = Append(toR, "START_CONTAINER_HOOKS_EXECUTED")
    BY <1>4, <2>1 DEF StartContainerHooksDone, CHooksDone, CSend
  <2>3. CASE toR = <<>>
    BY <1>1, <1>2, <1>4, <2>2, <2>3, SeqFacts DEF ContainerResult, StartResult, BothResults
  <2>4. CASE toR # <<>>
    <3>1. toR = <<"CREATE_CONTAINER_HOOKS_EXECUTED">> /\ rpc \in BeforeResult
      BY <1>1, <2>4 DEF ContainerResult
    <3>2. toR' = <<"CREATE_CONTAINER_HOOKS_EXECUTED", "START_CONTAINER_HOOKS_EXECUTED">>
      BY <2>2, <3>1, AppendOne
    <3>3. Hooks("createContainer") # 0
      BY <1>1, <2>4 DEF ContainerResult
    <3> QED
      BY <1>2, <1>4, <3>1, <3>2, <3>3 DEF BothResults
  <2> QED
    BY <2>3, <2>4
<1> QED
  BY <1>3, <1>4

\* A dead clone leaves its namespace request and nothing else.
LEMMA NsRequestLeft == ASSUME TypeOK, LeftAtNs, AwaitNsRequest PROVE NothingLeft'
<1> SUFFICES ASSUME rpc' \in RuntimeSteps, CloneGone PROVE toR' = <<>>
  BY DEF AwaitNsRequest, cvars, NothingLeft, CloneGone, RuntimeSteps
<1>1. toR \in {<<>>, <<"REQUEST_CONFIGURE_NAMESPACE">>}
  BY DEF LeftAtNs, AwaitNsRequest
<1> QED
  BY ZenonT(30), <1>1, FailedIsEnd, SeqFacts DEF AwaitNsRequest, RReceive

\* A dead clone leaves its createRuntime request and nothing else.
LEMMA CrtRequestLeft == ASSUME TypeOK, LeftAtCrt, AwaitCrtRequest, ~NoRuntimeHooks PROVE NothingLeft'
<1> SUFFICES ASSUME rpc' \in RuntimeSteps, CloneGone PROVE toR' = <<>>
  BY DEF AwaitCrtRequest, cvars, NothingLeft, CloneGone, RuntimeSteps
<1>1. toR \in {<<>>, <<"REQUEST_CREATERUNTIME_HOOKS">>}
  BY DEF LeftAtCrt, AwaitCrtRequest
<1> QED
  BY SMTT(30), <1>1, FailedIsEnd, SeqFacts DEF AwaitCrtRequest, RReceive

\* A dead clone leaves at most the startContainer result behind the other.
LEMMA ResultLeft == ASSUME TypeOK, LeftAtResult, WaitCreateContainerResult PROVE LeftAtClose'
<1> SUFFICES ASSUME rpc' = "wait_socket_close", CloneGone PROVE toR' \in {<<>>, StartResult}
  BY DEF WaitCreateContainerResult, cvars, LeftAtClose, CloneGone, StartResult, Hooks
<1>1. toR \in {<<>>, ContainerResult, BothResults}
  BY DEF LeftAtResult, WaitCreateContainerResult, BeforeResult
<1>2. CASE Hooks("createContainer") = 0
  BY <1>1, <1>2 DEF WaitCreateContainerResult, ContainerResult, BothResults, sock
<1>3. CASE Hooks("createContainer") # 0
  <2>1. toR # <<>> /\ toR' = Tail(toR)
    BY <1>3, FailedIsEnd DEF WaitCreateContainerResult, RReceive, RuntimeSteps
  <2>2. CASE toR = <<"CREATE_CONTAINER_HOOKS_EXECUTED">>
    BY <2>1, <2>2, SeqFacts
  <2>3. CASE toR = <<"CREATE_CONTAINER_HOOKS_EXECUTED", "START_CONTAINER_HOOKS_EXECUTED">>
             /\ Hooks("startContainer") # 0
    BY <2>1, <2>3, SeqFacts DEF StartResult
  <2> QED
    BY <1>1, <1>3, <2>1, <2>2, <2>3 DEF ContainerResult, BothResults
<1> QED
  BY <1>2, <1>3

\* Nothing is left when wait_socket_close returns.
LEMMA CloseLeft == ASSUME TypeOK, LeftAtClose, WaitSocketClose PROVE NothingLeft'
<1> SUFFICES ASSUME rpc' \in RuntimeSteps, CloneGone PROVE toR' = <<>>
  BY DEF WaitSocketClose, cvars, NothingLeft, CloneGone, RuntimeSteps
<1>1. toR \in {<<>>, StartResult}
  BY DEF LeftAtClose, WaitSocketClose
<1> QED
  BY <1>1, FailedIsEnd, SeqFacts DEF WaitSocketClose, StartResult


\* The second walk of the prestart list, counted.
LEMMA CrtPrestartCounted == ASSUME TypeOK, HookInv, CrtPrestartHook PROVE HookInv'
<1>1. /\ rpc = "crt_prestart" /\ rpc' = rpc /\ rhook < Hooks("prestart")
      /\ rhook' = rhook + 1
      /\ UNCHANGED <<cfg, cpc, chook, toC>>
  BY DEF CrtPrestartHook, RHook, cvars, sock
<1>2. ran \in [HookKind -> Nat] /\ rhook \in Nat /\ Hooks("prestart") \in Nat
  BY ConfigFacts DEF TypeOK, HistoryType, RuntimeType, HookKind
<1>3. /\ ran'["prestart"] = ran["prestart"] + 1
      /\ ran'["createRuntime"] = ran["createRuntime"]
      /\ ran'["createContainer"] = ran["createContainer"]
      /\ ran'["startContainer"] = ran["startContainer"]
  BY <1>2 DEF HookKind, CrtPrestartHook, RHook
<1>4. ran["createRuntime"] = 0 /\ ran["prestart"] = Hooks("prestart") + rhook
  BY <1>1 DEF HookInv, EarlySteps
<1>5. ~HooksComplete
  BY <1>1, <1>2, <1>4 DEF HooksComplete
<1>6. \A k \in HookKind : Hooks(k)' = Hooks(k) /\ Hooks(k) \in Nat
  BY <1>1, ConfigFacts DEF Hooks, TypeOK
<1>7. ran["createContainer"] \in Nat /\ ran["startContainer"] \in Nat /\ chook \in Nat
  BY <1>2 DEF HookKind, TypeOK, CloneType
<1>8. ran["createContainer"] = 0 /\ ran["startContainer"] = 0
  BY <1>5, <1>7 DEF HookInv
<1>9. cpc \notin PastCrt /\ ~(cpc = "await_crt" /\ toC # <<>>)
  BY <1>5 DEF HookInv
<1> QED
  BY SMTT(30), <1>1, <1>2, <1>3, <1>4, <1>6, <1>7, <1>8, <1>9, Hooks("startContainer") \in Nat
     DEF HookInv, EarlySteps, EndSteps, PastCrt, PastNs, CloneLive, SetupSteps, HookKind

\* The clone reads NAMESPACE_CONFIGURED: its queue is empty again.
LEMMA NsAnswerRead == ASSUME TypeOK, InboxInv, SocketInv, AwaitNs PROVE InboxInv'
<1>1. toC # <<>> => toC = <<"NAMESPACE_CONFIGURED">>
  BY DEF InboxInv, AwaitNs
<1>2. Tail(<<"NAMESPACE_CONFIGURED">>) = <<>>
  BY SeqFacts
<1>3. CASE CEnd(L!Exited(255))
  BY <1>3 DEF SocketInv, CEnd, Leave, SetupSteps, InboxInv, AwaitNs
<1>4. CASE toC # <<>> /\ toC' = Tail(toC)
  BY <1>4, <1>1, <1>2 DEF InboxInv
<1> QED
  BY <1>3, <1>4 DEF AwaitNs, CReceive

\* The clone reads CREATE_RUNTIME_HOOKS_EXECUTED: its queue is empty again.
LEMMA CrtAnswerRead == ASSUME TypeOK, InboxInv, SocketInv, AwaitCrt PROVE InboxInv'
<1>1. toC # <<>> => toC = <<"CREATE_RUNTIME_HOOKS_EXECUTED">>
  BY DEF InboxInv, AwaitCrt
<1>2. Tail(<<"CREATE_RUNTIME_HOOKS_EXECUTED">>) = <<>>
  BY SeqFacts
<1>3. CASE CEnd(L!Exited(255))
  BY <1>3 DEF SocketInv, CEnd, Leave, SetupSteps, InboxInv, AwaitCrt
<1>4. CASE toC # <<>> /\ toC' = Tail(toC)
  BY <1>4, <1>1, <1>2 DEF InboxInv
<1> QED
  BY <1>3, <1>4 DEF AwaitCrt, CReceive

\* NAMESPACE_CONFIGURED goes to a clone that waits for it.
LEMMA NsAnswerSent ==
  ASSUME TypeOK, InboxInv, SocketInv, ExchangeInv, NsConfigured
  PROVE  InboxInv'
<1>1. CASE second = {}
  BY <1>1 DEF NsConfigured, RSend, REnd, Leave, InboxInv
<1>2. CASE second # {}
  <2>1. cpc \in SetupSteps
    BY <1>2 DEF SocketInv
  <2>2. cpc = "await_ns" /\ toC = <<>>
    BY <2>1 DEF NsConfigured, ExchangeInv, AtRequestNs, AtAwaitNs, AtMounts, AtAwaitCrt,
       AtContainerHooks, AtStartHooks, AtExec, SetupSteps, RuntimeSteps, AfterConfigured,
       AfterCreateRuntime, BeforeResult
  <2>3. toC' = <<"NAMESPACE_CONFIGURED">> /\ cpc' = cpc
    BY <1>2, <2>2, SeqFacts DEF NsConfigured, RSend, cvars
  <2> QED
    BY <2>2, <2>3 DEF InboxInv
<1> QED
  BY <1>1, <1>2

\* CREATE_RUNTIME_HOOKS_EXECUTED goes to a clone that waits for it.
LEMMA CrtAnswerSent ==
  ASSUME TypeOK, InboxInv, SocketInv, ExchangeInv, CreateRuntimeHooksDone
  PROVE  InboxInv'
<1>1. CASE second = {}
  BY <1>1 DEF CreateRuntimeHooksDone, RSend, REnd, Leave, InboxInv
<1>2. CASE second # {}
  <2>1. cpc \in SetupSteps
    BY <1>2 DEF SocketInv
  <2>2. cpc = "await_crt" /\ toC = <<>>
    BY <2>1 DEF CreateRuntimeHooksDone, RHooksDone, ExchangeInv, AtRequestNs, AtAwaitNs,
       AtMounts, AtAwaitCrt, AtContainerHooks, AtStartHooks, AtExec, SetupSteps,
       RuntimeSteps, AfterConfigured, AfterCreateRuntime, BeforeResult
  <2>3. toC' = <<"CREATE_RUNTIME_HOOKS_EXECUTED">> /\ cpc' = cpc
    BY <1>2, <2>2, SeqFacts DEF CreateRuntimeHooksDone, RSend, cvars
  <2> QED
    BY <2>2, <2>3 DEF InboxInv
<1> QED
  BY <1>1, <1>2

\* The createRuntime request is read: the clone waits for the answer.
LEMMA CrtRequestRead ==
  ASSUME TypeOK, ExchangeTaken, AtAwaitCrt, AwaitCrtRequest
  PROVE  AtAwaitCrt'
<1> SUFFICES ASSUME rpc' \in RuntimeSteps, cpc = "await_crt"
             PROVE  rpc' = "crt_prestart" /\ toR' = <<>> /\ toC' = <<>>
  BY DEF AwaitCrtRequest, cvars, AtAwaitCrt
<1>1. toR = <<"REQUEST_CREATERUNTIME_HOOKS">> /\ toC = <<>>
  BY DEF AtAwaitCrt, AwaitCrtRequest, AfterCreateRuntime, RuntimeSteps
<1> QED
  BY <1>1, FailedIsEnd, SeqFacts DEF AwaitCrtRequest, RReceive, RGoto

\* Who holds which end of the socket pair, step by step.
LEMMA SocketStep ==
  ASSUME TypeOK, SocketInv, [Next]_vars
  PROVE  SocketInv'
<1> USE ConfigFacts DEF TypeOK, RuntimeType, CloneType, CloneGone, Hooks, NoRuntimeHooks,
   Record, Absent, RuntimeSteps, RuntimeEnds, SetupSteps, CloneLive, SocketInv, EarlySteps
<1>1. CASE CreateContainer
  BY <1>1 DEF CreateContainer, Write, Recorded, hist, sock, cvars, RGoto
<1>2. CASE StartContainerProcess
  BY <1>2 DEF StartContainerProcess, hist, RGoto
<1>3. CASE WriteCreated
  BY <1>3 DEF WriteCreated, Rewrite, Write, Recorded, hist, sock, cvars, ReadStatus,
     PidExists, RGoto, RFail, REnd, Leave
<1>4. CASE AwaitNsRequest
  BY <1>4 DEF AwaitNsRequest, hist, cvars, RReceive, RReadable, RGoto, RFail, REnd, Leave
<1>5. CASE ConfigureGidMapping
  BY <1>5 DEF ConfigureGidMapping, IdMapping, sock, cvars, RGoto, RFail, REnd, Leave
<1>6. CASE ConfigureUidMapping
  BY <1>6 DEF ConfigureUidMapping, IdMapping, sock, cvars, RGoto, RFail, REnd, Leave
<1>7. CASE NsConfigured
  BY <1>7 DEF NsConfigured, hist, cvars, RSend, RGoto, REnd, Leave
<1>8. CASE PrestartHook
  BY <1>8 DEF PrestartHook, RHook, sock, cvars
<1>9. CASE PrestartHooksDone
  BY <1>9 DEF PrestartHooksDone, hist, sock, cvars, RHooksDone, RGoto
<1>10. CASE AwaitCrtRequest
  BY <1>10 DEF AwaitCrtRequest, hist, cvars, RReceive, RReadable, RGoto, RFail, REnd, Leave
<1>11. CASE CrtPrestartHook
  BY <1>11 DEF CrtPrestartHook, RHook, sock, cvars
<1>12. CASE CrtPrestartHooksDone
  BY <1>12 DEF CrtPrestartHooksDone, hist, sock, cvars, RHooksDone, RGoto
<1>13. CASE CreateRuntimeHook
  BY <1>13 DEF CreateRuntimeHook, RHook, sock, cvars
<1>14. CASE CreateRuntimeHooksDone
  BY <1>14 DEF CreateRuntimeHooksDone, hist, cvars, RHooksDone, RSend, RGoto, REnd, Leave
<1>15. CASE WaitCreateContainerResult
  BY <1>15 DEF WaitCreateContainerResult, hist, sock, cvars, RReceive, RReadable, RGoto,
     RFail, REnd, Leave
<1>16. CASE WaitSocketClose
  BY <1>16 DEF WaitSocketClose, hist, cvars, RReadable, RGoto, RFail, REnd, Leave
<1>17. CASE PoststartHook
  BY <1>17 DEF PoststartHook, RHook, sock, cvars
<1>18. CASE PoststartHooksDone
  BY <1>18 DEF PoststartHooksDone, hist, sock, cvars, RHooksDone, RGoto
<1>19. CASE WaitContainerProcess
  BY <1>19 DEF WaitContainerProcess, hist, sock, cvars, RGoto, RFail, REnd, Leave
<1>20. CASE WriteStopped
  BY <1>20 DEF WriteStopped, Rewrite, Write, Recorded, hist, sock, cvars, ReadStatus,
     PidExists, RGoto, RFail, REnd, Leave
<1>21. CASE PoststopHook
  BY <1>21 DEF PoststopHook, RHook, sock, cvars
<1>22. CASE PoststopHooksDone
  BY <1>22 DEF PoststopHooksDone, hist, sock, cvars, RGoto
<1>23. CASE Remove
  BY <1>23 DEF Remove, hist, cvars, Leave
<1>24. CASE RThrows
  BY <1>24 DEF RThrows, hist, cvars, RFail, REnd, Leave
<1>25. CASE RKilled
  BY <1>25 DEF RKilled, hist, cvars, REnd, Leave
<1>26. CASE CloseInheritedFds
  BY ZenonT(30), <1>26 DEF CloseInheritedFds, hist, rvars, CGoto
<1>27. CASE RequestNs
  BY <1>27 DEF RequestNs, hist, rvars, CSend, CGoto, CEnd, Leave
<1>28. CASE AwaitNs
  BY <1>28 DEF AwaitNs, hist, rvars, CReceive, CReadable, CGoto, CEnd, Leave
<1>29. CASE ConfigureMounts
  BY <1>29 DEF ConfigureMounts, hist, sock, rvars, CGoto
<1>30. CASE RequestCrt
  BY <1>30 DEF RequestCrt, hist, sock, rvars, CSend, CGoto, CEnd, Leave
<1>31. CASE AwaitCrt
  BY <1>31 DEF AwaitCrt, hist, rvars, CReceive, CReadable, CGoto, CEnd, Leave
<1>32. CASE CreateContainerHook
  BY <1>32 DEF CreateContainerHook, CHook, sock, rvars
<1>33. CASE CreateContainerHooksDone
  BY <1>33 DEF CreateContainerHooksDone, CHooksDone, hist, sock, rvars, CSend, CGoto, CEnd,
     Leave
<1>34. CASE PivotRoot
  BY <1>34 DEF PivotRoot, hist, sock, rvars, CGoto
<1>35. CASE StartContainerHook
  BY <1>35 DEF StartContainerHook, CHook, sock, rvars
<1>36. CASE StartContainerHooksDone
  BY <1>36 DEF StartContainerHooksDone, CHooksDone, hist, sock, rvars, CSend, CGoto, CEnd,
     Leave
<1>37. CASE ExecuteProcess
  BY <1>37 DEF ExecuteProcess, hist, rvars, CGoto, Leave
<1>38. CASE CThrows
  BY <1>38 DEF CThrows, hist, rvars, CEnd, Leave
<1>39. CASE CKilled
  BY <1>39 DEF CKilled, hist, rvars, CEnd, Leave
<1>40. CASE UserExits
  BY <1>40 DEF UserExits, hist, rvars, CEnd, Leave
<1>41. CASE InitReaps
  BY <1>41 DEF InitReaps, hist, sock, rvars
<1>42. CASE PidReused
  BY <1>42 DEF PidReused, hist, sock, rvars, cvars
<1>43. CASE UNCHANGED vars
  BY <1>43 DEF vars, rvars, cvars, sock, hist
<1> QED
  BY <1>1, <1>2, <1>3, <1>4, <1>5, <1>6, <1>7, <1>8, <1>9, <1>10, <1>11, <1>12, <1>13,
     <1>14, <1>15, <1>16, <1>17, <1>18, <1>19, <1>20, <1>21, <1>22, <1>23, <1>24, <1>25,
     <1>26, <1>27, <1>28, <1>29, <1>30, <1>31, <1>32, <1>33, <1>34, <1>35, <1>36, <1>37,
     <1>38, <1>39, <1>40, <1>41, <1>42, <1>43 DEF Next, RuntimeCode, RuntimeHook, CloneCode,
     CloneHook, Terminated

\* What waits for the clone, step by step.
LEMMA InboxStep ==
  ASSUME TypeOK, InboxInv, SocketInv, ExchangeInv, [Next]_vars
  PROVE  InboxInv'
<1> USE ConfigFacts, SeqFacts DEF TypeOK, RuntimeType, CloneType, CloneGone, Hooks,
   NoRuntimeHooks, Record, Absent, RuntimeSteps, RuntimeEnds, SetupSteps, CloneLive,
   InboxInv, SocketInv, ExchangeInv, AtAwaitNs, AtAwaitCrt, EarlySteps, AfterConfigured,
   AfterCreateRuntime
<1>1. CASE CreateContainer
  BY <1>1 DEF CreateContainer, Write, Recorded, hist, sock, cvars, RGoto
<1>2. CASE StartContainerProcess
  BY <1>2 DEF StartContainerProcess, hist, RGoto
<1>3. CASE WriteCreated
  BY <1>3 DEF WriteCreated, Rewrite, Write, Recorded, hist, sock, cvars, ReadStatus,
     PidExists, RGoto, RFail, REnd, Leave
<1>4. CASE AwaitNsRequest
  BY <1>4 DEF AwaitNsRequest, hist, cvars, RReceive, RReadable, RGoto, RFail, REnd, Leave
<1>5. CASE ConfigureGidMapping
  BY <1>5 DEF ConfigureGidMapping, IdMapping, sock, cvars, RGoto, RFail, REnd, Leave
<1>6. CASE ConfigureUidMapping
  BY <1>6 DEF ConfigureUidMapping, IdMapping, sock, cvars, RGoto, RFail, REnd, Leave
<1>7. CASE NsConfigured
  BY <1>7, NsAnswerSent
<1>8. CASE PrestartHook
  BY <1>8 DEF PrestartHook, RHook, sock, cvars
<1>9. CASE PrestartHooksDone
  BY <1>9 DEF PrestartHooksDone, hist, sock, cvars, RHooksDone, RGoto
<1>10. CASE AwaitCrtRequest
  BY <1>10 DEF AwaitCrtRequest, hist, cvars, RReceive, RReadable, RGoto, RFail, REnd, Leave
<1>11. CASE CrtPrestartHook
  BY <1>11 DEF CrtPrestartHook, RHook, sock, cvars
<1>12. CASE CrtPrestartHooksDone
  BY <1>12 DEF CrtPrestartHooksDone, hist, sock, cvars, RHooksDone, RGoto
<1>13. CASE CreateRuntimeHook
  BY <1>13 DEF CreateRuntimeHook, RHook, sock, cvars
<1>14. CASE CreateRuntimeHooksDone
  BY <1>14, CrtAnswerSent
<1>15. CASE WaitCreateContainerResult
  BY <1>15 DEF WaitCreateContainerResult, hist, sock, cvars, RReceive, RReadable, RGoto,
     RFail, REnd, Leave
<1>16. CASE WaitSocketClose
  BY <1>16 DEF WaitSocketClose, hist, cvars, RReadable, RGoto, RFail, REnd, Leave
<1>17. CASE PoststartHook
  BY <1>17 DEF PoststartHook, RHook, sock, cvars
<1>18. CASE PoststartHooksDone
  BY <1>18 DEF PoststartHooksDone, hist, sock, cvars, RHooksDone, RGoto
<1>19. CASE WaitContainerProcess
  BY <1>19 DEF WaitContainerProcess, hist, sock, cvars, RGoto, RFail, REnd, Leave
<1>20. CASE WriteStopped
  BY <1>20 DEF WriteStopped, Rewrite, Write, Recorded, hist, sock, cvars, ReadStatus,
     PidExists, RGoto, RFail, REnd, Leave
<1>21. CASE PoststopHook
  BY <1>21 DEF PoststopHook, RHook, sock, cvars
<1>22. CASE PoststopHooksDone
  BY <1>22 DEF PoststopHooksDone, hist, sock, cvars, RGoto
<1>23. CASE Remove
  BY <1>23 DEF Remove, hist, cvars, Leave
<1>24. CASE RThrows
  BY <1>24 DEF RThrows, hist, cvars, RFail, REnd, Leave
<1>25. CASE RKilled
  BY <1>25 DEF RKilled, hist, cvars, REnd, Leave
<1>26. CASE CloseInheritedFds
  BY <1>26 DEF CloseInheritedFds, hist, rvars, CGoto
<1>27. CASE RequestNs
  BY <1>27 DEF RequestNs, hist, rvars, CSend, CGoto, CEnd, Leave
<1>28. CASE AwaitNs
  BY <1>28, NsAnswerRead
<1>29. CASE ConfigureMounts
  BY <1>29 DEF ConfigureMounts, hist, sock, rvars, CGoto
<1>30. CASE RequestCrt
  BY <1>30 DEF RequestCrt, hist, sock, rvars, CSend, CGoto, CEnd, Leave
<1>31. CASE AwaitCrt
  BY <1>31, CrtAnswerRead
<1>32. CASE CreateContainerHook
  BY <1>32 DEF CreateContainerHook, CHook, sock, rvars
<1>33. CASE CreateContainerHooksDone
  BY <1>33 DEF CreateContainerHooksDone, CHooksDone, hist, sock, rvars, CSend, CGoto, CEnd,
     Leave
<1>34. CASE PivotRoot
  BY <1>34 DEF PivotRoot, hist, sock, rvars, CGoto
<1>35. CASE StartContainerHook
  BY <1>35 DEF StartContainerHook, CHook, sock, rvars
<1>36. CASE StartContainerHooksDone
  BY <1>36 DEF StartContainerHooksDone, CHooksDone, hist, sock, rvars, CSend, CGoto, CEnd,
     Leave
<1>37. CASE ExecuteProcess
  BY <1>37 DEF ExecuteProcess, hist, rvars, CGoto, Leave
<1>38. CASE CThrows
  BY <1>38 DEF CThrows, hist, rvars, CEnd, Leave
<1>39. CASE CKilled
  BY <1>39 DEF CKilled, hist, rvars, CEnd, Leave
<1>40. CASE UserExits
  BY <1>40 DEF UserExits, hist, rvars, CEnd, Leave
<1>41. CASE InitReaps
  BY <1>41 DEF InitReaps, hist, sock, rvars
<1>42. CASE PidReused
  BY <1>42 DEF PidReused, hist, sock, rvars, cvars
<1>43. CASE UNCHANGED vars
  BY <1>43 DEF vars, rvars, cvars, sock, hist
<1> QED
  BY <1>1, <1>2, <1>3, <1>4, <1>5, <1>6, <1>7, <1>8, <1>9, <1>10, <1>11, <1>12, <1>13,
     <1>14, <1>15, <1>16, <1>17, <1>18, <1>19, <1>20, <1>21, <1>22, <1>23, <1>24, <1>25,
     <1>26, <1>27, <1>28, <1>29, <1>30, <1>31, <1>32, <1>33, <1>34, <1>35, <1>36, <1>37,
     <1>38, <1>39, <1>40, <1>41, <1>42, <1>43 DEF Next, RuntimeCode, RuntimeHook, CloneCode,
     CloneHook, Terminated

\* The record follows the runtime, step by step.
LEMMA RecordStep ==
  ASSUME TypeOK, RecordInv, SocketInv, MapInv, [Next]_vars
  PROVE  RecordInv'
<1> USE ConfigFacts DEF TypeOK, RuntimeType, CloneType, CloneGone, Hooks, NoRuntimeHooks,
   Record, Absent, RuntimeSteps, RuntimeEnds, SetupSteps, CloneLive, RecordInv, SocketInv,
   MapInv, RecordType, EarlySteps, EndSteps, PastNs, Configured, Recorded, RecordRead
<1>1. CASE CreateContainer
  BY <1>1 DEF CreateContainer, Write, Recorded, hist, sock, cvars, RGoto
<1>2. CASE StartContainerProcess
  BY <1>2 DEF StartContainerProcess, hist, RGoto
<1>3. CASE WriteCreated
  BY <1>3 DEF WriteCreated, Rewrite, Write, Recorded, hist, sock, cvars, ReadStatus,
     PidExists, RGoto, RFail, REnd, Leave
<1>4. CASE AwaitNsRequest
  BY <1>4 DEF AwaitNsRequest, hist, cvars, RReceive, RReadable, RGoto, RFail, REnd, Leave
<1>5. CASE ConfigureGidMapping
  BY <1>5 DEF ConfigureGidMapping, IdMapping, sock, cvars, RGoto, RFail, REnd, Leave
<1>6. CASE ConfigureUidMapping
  BY <1>6 DEF ConfigureUidMapping, IdMapping, sock, cvars, RGoto, RFail, REnd, Leave
<1>7. CASE NsConfigured
  BY <1>7 DEF NsConfigured, hist, cvars, RSend, RGoto, REnd, Leave
<1>8. CASE PrestartHook
  BY <1>8 DEF PrestartHook, RHook, sock, cvars
<1>9. CASE PrestartHooksDone
  BY <1>9 DEF PrestartHooksDone, hist, sock, cvars, RHooksDone, RGoto
<1>10. CASE AwaitCrtRequest
  BY <1>10 DEF AwaitCrtRequest, hist, cvars, RReceive, RReadable, RGoto, RFail, REnd, Leave
<1>11. CASE CrtPrestartHook
  BY <1>11 DEF CrtPrestartHook, RHook, sock, cvars
<1>12. CASE CrtPrestartHooksDone
  BY <1>12 DEF CrtPrestartHooksDone, hist, sock, cvars, RHooksDone, RGoto
<1>13. CASE CreateRuntimeHook
  BY <1>13 DEF CreateRuntimeHook, RHook, sock, cvars
<1>14. CASE CreateRuntimeHooksDone
  BY <1>14 DEF CreateRuntimeHooksDone, hist, cvars, RHooksDone, RSend, RGoto, REnd, Leave
<1>15. CASE WaitCreateContainerResult
  BY <1>15 DEF WaitCreateContainerResult, hist, sock, cvars, RReceive, RReadable, RGoto,
     RFail, REnd, Leave
<1>16. CASE WaitSocketClose
  BY <1>16 DEF WaitSocketClose, hist, cvars, RReadable, RGoto, RFail, REnd, Leave
<1>17. CASE PoststartHook
  BY <1>17 DEF PoststartHook, RHook, sock, cvars
<1>18. CASE PoststartHooksDone
  BY <1>18 DEF PoststartHooksDone, hist, sock, cvars, RHooksDone, RGoto
<1>19. CASE WaitContainerProcess
  BY <1>19 DEF WaitContainerProcess, hist, sock, cvars, RGoto, RFail, REnd, Leave
<1>20. CASE WriteStopped
  BY <1>20 DEF WriteStopped, Rewrite, Write, Recorded, hist, sock, cvars, ReadStatus,
     PidExists, RGoto, RFail, REnd, Leave
<1>21. CASE PoststopHook
  BY <1>21 DEF PoststopHook, RHook, sock, cvars
<1>22. CASE PoststopHooksDone
  BY <1>22 DEF PoststopHooksDone, hist, sock, cvars, RGoto
<1>23. CASE Remove
  BY <1>23 DEF Remove, hist, cvars, Leave
<1>24. CASE RThrows
  BY <1>24 DEF RThrows, hist, cvars, RFail, REnd, Leave
<1>25. CASE RKilled
  BY <1>25 DEF RKilled, hist, cvars, REnd, Leave
<1>26. CASE CloseInheritedFds
  BY <1>26 DEF CloseInheritedFds, hist, rvars, CGoto
<1>27. CASE RequestNs
  BY <1>27 DEF RequestNs, hist, rvars, CSend, CGoto, CEnd, Leave
<1>28. CASE AwaitNs
  BY <1>28 DEF AwaitNs, hist, rvars, CReceive, CReadable, CGoto, CEnd, Leave
<1>29. CASE ConfigureMounts
  BY <1>29 DEF ConfigureMounts, hist, sock, rvars, CGoto
<1>30. CASE RequestCrt
  BY <1>30 DEF RequestCrt, hist, sock, rvars, CSend, CGoto, CEnd, Leave
<1>31. CASE AwaitCrt
  BY <1>31 DEF AwaitCrt, hist, rvars, CReceive, CReadable, CGoto, CEnd, Leave
<1>32. CASE CreateContainerHook
  BY <1>32 DEF CreateContainerHook, CHook, sock, rvars
<1>33. CASE CreateContainerHooksDone
  BY <1>33 DEF CreateContainerHooksDone, CHooksDone, hist, sock, rvars, CSend, CGoto, CEnd,
     Leave
<1>34. CASE PivotRoot
  BY <1>34 DEF PivotRoot, hist, sock, rvars, CGoto
<1>35. CASE StartContainerHook
  BY <1>35 DEF StartContainerHook, CHook, sock, rvars
<1>36. CASE StartContainerHooksDone
  BY <1>36 DEF StartContainerHooksDone, CHooksDone, hist, sock, rvars, CSend, CGoto, CEnd,
     Leave
<1>37. CASE ExecuteProcess
  BY <1>37 DEF ExecuteProcess, hist, rvars, CGoto, Leave
<1>38. CASE CThrows
  BY <1>38 DEF CThrows, hist, rvars, CEnd, Leave
<1>39. CASE CKilled
  BY <1>39 DEF CKilled, hist, rvars, CEnd, Leave
<1>40. CASE UserExits
  BY <1>40 DEF UserExits, hist, rvars, CEnd, Leave
<1>41. CASE InitReaps
  BY <1>41 DEF InitReaps, hist, sock, rvars
<1>42. CASE PidReused
  BY <1>42 DEF PidReused, hist, sock, rvars, cvars
<1>43. CASE UNCHANGED vars
  BY <1>43 DEF vars, rvars, cvars, sock, hist
<1> QED
  BY <1>1, <1>2, <1>3, <1>4, <1>5, <1>6, <1>7, <1>8, <1>9, <1>10, <1>11, <1>12, <1>13,
     <1>14, <1>15, <1>16, <1>17, <1>18, <1>19, <1>20, <1>21, <1>22, <1>23, <1>24, <1>25,
     <1>26, <1>27, <1>28, <1>29, <1>30, <1>31, <1>32, <1>33, <1>34, <1>35, <1>36, <1>37,
     <1>38, <1>39, <1>40, <1>41, <1>42, <1>43 DEF Next, RuntimeCode, RuntimeHook, CloneCode,
     CloneHook, Terminated

\* The id maps are there before the clone is told, step by step.
LEMMA MapStep ==
  ASSUME TypeOK, MapInv, SocketInv, ExchangeInv, InboxInv, RecordInv, [Next]_vars
  PROVE  MapInv'
<1> USE ConfigFacts DEF TypeOK, RuntimeType, CloneType, CloneGone, Hooks, NoRuntimeHooks,
   Record, Absent, RuntimeSteps, RuntimeEnds, SetupSteps, CloneLive, MapInv, SocketInv,
   ExchangeInv, InboxInv, RecordInv, EarlySteps, EndSteps, PastNs, Configured, Recorded,
   RecordRead, WantedMaps,
   AfterConfigured, AfterCreateRuntime, BeforeResult, AtRequestNs, AtAwaitNs, AtMounts,
   AtAwaitCrt, AtContainerHooks, AtStartHooks, AtExec
<1>1. CASE CreateContainer
  BY <1>1 DEF CreateContainer, Write, Recorded, hist, sock, cvars, RGoto
<1>2. CASE StartContainerProcess
  BY <1>2 DEF StartContainerProcess, hist, RGoto
<1>3. CASE WriteCreated
  BY <1>3 DEF WriteCreated, Rewrite, Write, Recorded, hist, sock, cvars, ReadStatus,
     PidExists, RGoto, RFail, REnd, Leave
<1>4. CASE AwaitNsRequest
  BY <1>4 DEF AwaitNsRequest, hist, cvars, RReceive, RReadable, RGoto, RFail, REnd, Leave
<1>5. CASE ConfigureGidMapping
  BY <1>5 DEF ConfigureGidMapping, IdMapping, sock, cvars, RGoto, RFail, REnd, Leave
<1>6. CASE ConfigureUidMapping
  BY <1>6 DEF ConfigureUidMapping, IdMapping, sock, cvars, RGoto, RFail, REnd, Leave
<1>7. CASE NsConfigured
  BY <1>7 DEF NsConfigured, hist, cvars, RSend, RGoto, REnd, Leave
<1>8. CASE PrestartHook
  BY <1>8 DEF PrestartHook, RHook, sock, cvars
<1>9. CASE PrestartHooksDone
  BY <1>9 DEF PrestartHooksDone, hist, sock, cvars, RHooksDone, RGoto
<1>10. CASE AwaitCrtRequest
  BY <1>10 DEF AwaitCrtRequest, hist, cvars, RReceive, RReadable, RGoto, RFail, REnd, Leave
<1>11. CASE CrtPrestartHook
  BY <1>11 DEF CrtPrestartHook, RHook, sock, cvars
<1>12. CASE CrtPrestartHooksDone
  BY <1>12 DEF CrtPrestartHooksDone, hist, sock, cvars, RHooksDone, RGoto
<1>13. CASE CreateRuntimeHook
  BY <1>13 DEF CreateRuntimeHook, RHook, sock, cvars
<1>14. CASE CreateRuntimeHooksDone
  BY <1>14 DEF CreateRuntimeHooksDone, hist, cvars, RHooksDone, RSend, RGoto, REnd, Leave
<1>15. CASE WaitCreateContainerResult
  BY <1>15 DEF WaitCreateContainerResult, hist, sock, cvars, RReceive, RReadable, RGoto,
     RFail, REnd, Leave
<1>16. CASE WaitSocketClose
  BY <1>16 DEF WaitSocketClose, hist, cvars, RReadable, RGoto, RFail, REnd, Leave
<1>17. CASE PoststartHook
  BY <1>17 DEF PoststartHook, RHook, sock, cvars
<1>18. CASE PoststartHooksDone
  BY <1>18 DEF PoststartHooksDone, hist, sock, cvars, RHooksDone, RGoto
<1>19. CASE WaitContainerProcess
  BY <1>19 DEF WaitContainerProcess, hist, sock, cvars, RGoto, RFail, REnd, Leave
<1>20. CASE WriteStopped
  BY <1>20 DEF WriteStopped, Rewrite, Write, Recorded, hist, sock, cvars, ReadStatus,
     PidExists, RGoto, RFail, REnd, Leave
<1>21. CASE PoststopHook
  BY <1>21 DEF PoststopHook, RHook, sock, cvars
<1>22. CASE PoststopHooksDone
  BY <1>22 DEF PoststopHooksDone, hist, sock, cvars, RGoto
<1>23. CASE Remove
  BY <1>23 DEF Remove, hist, cvars, Leave
<1>24. CASE RThrows
  BY <1>24 DEF RThrows, hist, cvars, RFail, REnd, Leave
<1>25. CASE RKilled
  BY <1>25 DEF RKilled, hist, cvars, REnd, Leave
<1>26. CASE CloseInheritedFds
  BY <1>26 DEF CloseInheritedFds, hist, rvars, CGoto
<1>27. CASE RequestNs
  BY <1>27 DEF RequestNs, hist, rvars, CSend, CGoto, CEnd, Leave
<1>28. CASE AwaitNs
  BY <1>28 DEF AwaitNs, hist, rvars, CReceive, CReadable, CGoto, CEnd, Leave
<1>29. CASE ConfigureMounts
  BY <1>29 DEF ConfigureMounts, hist, sock, rvars, CGoto
<1>30. CASE RequestCrt
  BY <1>30 DEF RequestCrt, hist, sock, rvars, CSend, CGoto, CEnd, Leave
<1>31. CASE AwaitCrt
  BY <1>31 DEF AwaitCrt, hist, rvars, CReceive, CReadable, CGoto, CEnd, Leave
<1>32. CASE CreateContainerHook
  BY <1>32 DEF CreateContainerHook, CHook, sock, rvars
<1>33. CASE CreateContainerHooksDone
  BY <1>33 DEF CreateContainerHooksDone, CHooksDone, hist, sock, rvars, CSend, CGoto, CEnd,
     Leave
<1>34. CASE PivotRoot
  BY <1>34 DEF PivotRoot, hist, sock, rvars, CGoto
<1>35. CASE StartContainerHook
  BY <1>35 DEF StartContainerHook, CHook, sock, rvars
<1>36. CASE StartContainerHooksDone
  BY <1>36 DEF StartContainerHooksDone, CHooksDone, hist, sock, rvars, CSend, CGoto, CEnd,
     Leave
<1>37. CASE ExecuteProcess
  BY <1>37 DEF ExecuteProcess, hist, rvars, CGoto, Leave
<1>38. CASE CThrows
  BY <1>38 DEF CThrows, hist, rvars, CEnd, Leave
<1>39. CASE CKilled
  BY <1>39 DEF CKilled, hist, rvars, CEnd, Leave
<1>40. CASE UserExits
  BY <1>40 DEF UserExits, hist, rvars, CEnd, Leave
<1>41. CASE InitReaps
  BY <1>41 DEF InitReaps, hist, sock, rvars
<1>42. CASE PidReused
  BY <1>42 DEF PidReused, hist, sock, rvars, cvars
<1>43. CASE UNCHANGED vars
  BY <1>43 DEF vars, rvars, cvars, sock, hist
<1> QED
  BY <1>1, <1>2, <1>3, <1>4, <1>5, <1>6, <1>7, <1>8, <1>9, <1>10, <1>11, <1>12, <1>13,
     <1>14, <1>15, <1>16, <1>17, <1>18, <1>19, <1>20, <1>21, <1>22, <1>23, <1>24, <1>25,
     <1>26, <1>27, <1>28, <1>29, <1>30, <1>31, <1>32, <1>33, <1>34, <1>35, <1>36, <1>37,
     <1>38, <1>39, <1>40, <1>41, <1>42, <1>43 DEF Next, RuntimeCode, RuntimeHook, CloneCode,
     CloneHook, Terminated

\* The counts of hooks follow both processes, step by step.
LEMMA HookStep ==
  ASSUME TypeOK, HookInv, SocketInv, ExchangeInv, InboxInv, [Next]_vars
  PROVE  HookInv'
<1> USE ConfigFacts DEF TypeOK, RuntimeType, CloneType, CloneGone, Hooks, NoRuntimeHooks,
   Record, Absent, RuntimeSteps, RuntimeEnds, SetupSteps, CloneLive, HookInv, SocketInv,
   ExchangeInv, InboxInv, EarlySteps, EndSteps, PastNs, PastCrt, HooksComplete,
   AfterConfigured, AfterCreateRuntime, BeforeResult, HookKind, HistoryType, AtRequestNs,
   AtAwaitNs, AtMounts, AtAwaitCrt, AtContainerHooks, AtStartHooks, AtExec
<1>1. CASE CreateContainer
  BY <1>1 DEF CreateContainer, Write, Recorded, hist, sock, cvars, RGoto
<1>2. CASE StartContainerProcess
  BY <1>2 DEF StartContainerProcess, hist, RGoto
<1>3. CASE WriteCreated
  BY <1>3 DEF WriteCreated, Rewrite, Write, Recorded, hist, sock, cvars, ReadStatus,
     PidExists, RGoto, RFail, REnd, Leave
<1>4. CASE AwaitNsRequest
  BY SMTT(30), <1>4 DEF AwaitNsRequest, hist, cvars, RReceive, RReadable, RGoto, RFail, REnd, Leave
<1>5. CASE ConfigureGidMapping
  BY <1>5 DEF ConfigureGidMapping, IdMapping, sock, cvars, RGoto, RFail, REnd, Leave
<1>6. CASE ConfigureUidMapping
  BY <1>6 DEF ConfigureUidMapping, IdMapping, sock, cvars, RGoto, RFail, REnd, Leave
<1>7. CASE NsConfigured
  BY <1>7 DEF NsConfigured, hist, cvars, RSend, RGoto, REnd, Leave
<1>8. CASE PrestartHook
  BY SMTT(30), <1>8 DEF PrestartHook, RHook, sock, cvars
<1>9. CASE PrestartHooksDone
  BY <1>9 DEF PrestartHooksDone, hist, sock, cvars, RHooksDone, RGoto
<1>10. CASE AwaitCrtRequest
  BY SMTT(30), <1>10 DEF AwaitCrtRequest, hist, cvars, RReceive, RReadable, RGoto, RFail, REnd, Leave
<1>11. CASE CrtPrestartHook
  BY <1>11, CrtPrestartCounted
<1>12. CASE CrtPrestartHooksDone
  BY <1>12 DEF CrtPrestartHooksDone, hist, sock, cvars, RHooksDone, RGoto
<1>13. CASE CreateRuntimeHook
  BY SMTT(30), <1>13 DEF CreateRuntimeHook, RHook, sock, cvars
<1>14. CASE CreateRuntimeHooksDone
  BY SMTT(30), <1>14 DEF CreateRuntimeHooksDone, hist, cvars, RHooksDone, RSend, RGoto, REnd, Leave
<1>15. CASE WaitCreateContainerResult
  BY SMTT(30), <1>15 DEF WaitCreateContainerResult, hist, sock, cvars, RReceive, RReadable, RGoto,
     RFail, REnd, Leave
<1>16. CASE WaitSocketClose
  BY SMTT(30), <1>16 DEF WaitSocketClose, hist, cvars, RReadable, RGoto, RFail, REnd, Leave
<1>17. CASE PoststartHook
  BY <1>17 DEF PoststartHook, RHook, sock, cvars
<1>18. CASE PoststartHooksDone
  BY <1>18 DEF PoststartHooksDone, hist, sock, cvars, RHooksDone, RGoto
<1>19. CASE WaitContainerProcess
  BY <1>19 DEF WaitContainerProcess, hist, sock, cvars, RGoto, RFail, REnd, Leave
<1>20. CASE WriteStopped
  BY <1>20 DEF WriteStopped, Rewrite, Write, Recorded, hist, sock, cvars, ReadStatus,
     PidExists, RGoto, RFail, REnd, Leave
<1>21. CASE PoststopHook
  BY <1>21 DEF PoststopHook, RHook, sock, cvars
<1>22. CASE PoststopHooksDone
  BY <1>22 DEF PoststopHooksDone, hist, sock, cvars, RGoto
<1>23. CASE Remove
  BY <1>23 DEF Remove, hist, cvars, Leave
<1>24. CASE RThrows
  BY <1>24 DEF RThrows, hist, cvars, RFail, REnd, Leave
<1>25. CASE RKilled
  BY <1>25 DEF RKilled, hist, cvars, REnd, Leave
<1>26. CASE CloseInheritedFds
  BY <1>26 DEF CloseInheritedFds, hist, rvars, CGoto
<1>27. CASE RequestNs
  BY SMTT(30), <1>27 DEF RequestNs, hist, rvars, CSend, CGoto, CEnd, Leave
<1>28. CASE AwaitNs
  BY SMTT(30), <1>28 DEF AwaitNs, hist, rvars, CReceive, CReadable, CGoto, CEnd, Leave
<1>29. CASE ConfigureMounts
  BY <1>29 DEF ConfigureMounts, hist, sock, rvars, CGoto
<1>30. CASE RequestCrt
  BY SMTT(30), <1>30 DEF RequestCrt, hist, sock, rvars, CSend, CGoto, CEnd, Leave
<1>31. CASE AwaitCrt
  BY SMTT(30), <1>31 DEF AwaitCrt, hist, rvars, CReceive, CReadable, CGoto, CEnd, Leave
<1>32. CASE CreateContainerHook
  BY <1>32 DEF CreateContainerHook, CHook, sock, rvars
<1>33. CASE CreateContainerHooksDone
  BY <1>33 DEF CreateContainerHooksDone, CHooksDone, hist, sock, rvars, CSend, CGoto, CEnd,
     Leave
<1>34. CASE PivotRoot
  BY <1>34 DEF PivotRoot, hist, sock, rvars, CGoto
<1>35. CASE StartContainerHook
  BY <1>35 DEF StartContainerHook, CHook, sock, rvars
<1>36. CASE StartContainerHooksDone
  BY <1>36 DEF StartContainerHooksDone, CHooksDone, hist, sock, rvars, CSend, CGoto, CEnd,
     Leave
<1>37. CASE ExecuteProcess
  BY <1>37 DEF ExecuteProcess, hist, rvars, CGoto, Leave
<1>38. CASE CThrows
  BY <1>38 DEF CThrows, hist, rvars, CEnd, Leave
<1>39. CASE CKilled
  BY <1>39 DEF CKilled, hist, rvars, CEnd, Leave
<1>40. CASE UserExits
  BY <1>40 DEF UserExits, hist, rvars, CEnd, Leave
<1>41. CASE InitReaps
  BY <1>41 DEF InitReaps, hist, sock, rvars
<1>42. CASE PidReused
  BY <1>42 DEF PidReused, hist, sock, rvars, cvars
<1>43. CASE UNCHANGED vars
  BY <1>43 DEF vars, rvars, cvars, sock, hist
<1> QED
  BY <1>1, <1>2, <1>3, <1>4, <1>5, <1>6, <1>7, <1>8, <1>9, <1>10, <1>11, <1>12, <1>13,
     <1>14, <1>15, <1>16, <1>17, <1>18, <1>19, <1>20, <1>21, <1>22, <1>23, <1>24, <1>25,
     <1>26, <1>27, <1>28, <1>29, <1>30, <1>31, <1>32, <1>33, <1>34, <1>35, <1>36, <1>37,
     <1>38, <1>39, <1>40, <1>41, <1>42, <1>43 DEF Next, RuntimeCode, RuntimeHook, CloneCode,
     CloneHook, Terminated

\* The wait status and the result say who has ended, step by step.
LEMMA ResultStep ==
  ASSUME TypeOK, ResultInv, SocketInv, [Next]_vars
  PROVE  ResultInv'
<1> USE ConfigFacts DEF TypeOK, RuntimeType, CloneType, CloneGone, Hooks, NoRuntimeHooks,
   Record, Absent, RuntimeSteps, RuntimeEnds, SetupSteps, CloneLive, ResultInv, SocketInv,
   EarlySteps, L!Alive, L!Signaled, L!Exited, L!Pending, L!Error, L!Code
<1>1. CASE CreateContainer
  BY <1>1 DEF CreateContainer, Write, Recorded, hist, sock, cvars, RGoto
<1>2. CASE StartContainerProcess
  BY <1>2 DEF StartContainerProcess, hist, RGoto
<1>3. CASE WriteCreated
  BY <1>3 DEF WriteCreated, Rewrite, Write, Recorded, hist, sock, cvars, ReadStatus,
     PidExists, RGoto, RFail, REnd, Leave
<1>4. CASE AwaitNsRequest
  BY <1>4 DEF AwaitNsRequest, hist, cvars, RReceive, RReadable, RGoto, RFail, REnd, Leave
<1>5. CASE ConfigureGidMapping
  BY <1>5 DEF ConfigureGidMapping, IdMapping, sock, cvars, RGoto, RFail, REnd, Leave
<1>6. CASE ConfigureUidMapping
  BY <1>6 DEF ConfigureUidMapping, IdMapping, sock, cvars, RGoto, RFail, REnd, Leave
<1>7. CASE NsConfigured
  BY <1>7 DEF NsConfigured, hist, cvars, RSend, RGoto, REnd, Leave
<1>8. CASE PrestartHook
  BY <1>8 DEF PrestartHook, RHook, sock, cvars
<1>9. CASE PrestartHooksDone
  BY <1>9 DEF PrestartHooksDone, hist, sock, cvars, RHooksDone, RGoto
<1>10. CASE AwaitCrtRequest
  BY <1>10 DEF AwaitCrtRequest, hist, cvars, RReceive, RReadable, RGoto, RFail, REnd, Leave
<1>11. CASE CrtPrestartHook
  BY <1>11 DEF CrtPrestartHook, RHook, sock, cvars
<1>12. CASE CrtPrestartHooksDone
  BY <1>12 DEF CrtPrestartHooksDone, hist, sock, cvars, RHooksDone, RGoto
<1>13. CASE CreateRuntimeHook
  BY <1>13 DEF CreateRuntimeHook, RHook, sock, cvars
<1>14. CASE CreateRuntimeHooksDone
  BY <1>14 DEF CreateRuntimeHooksDone, hist, cvars, RHooksDone, RSend, RGoto, REnd, Leave
<1>15. CASE WaitCreateContainerResult
  BY <1>15 DEF WaitCreateContainerResult, hist, sock, cvars, RReceive, RReadable, RGoto,
     RFail, REnd, Leave
<1>16. CASE WaitSocketClose
  BY <1>16 DEF WaitSocketClose, hist, cvars, RReadable, RGoto, RFail, REnd, Leave
<1>17. CASE PoststartHook
  BY <1>17 DEF PoststartHook, RHook, sock, cvars
<1>18. CASE PoststartHooksDone
  BY <1>18 DEF PoststartHooksDone, hist, sock, cvars, RHooksDone, RGoto
<1>19. CASE WaitContainerProcess
  BY <1>19 DEF WaitContainerProcess, hist, sock, cvars, RGoto, RFail, REnd, Leave
<1>20. CASE WriteStopped
  BY <1>20 DEF WriteStopped, Rewrite, Write, Recorded, hist, sock, cvars, ReadStatus,
     PidExists, RGoto, RFail, REnd, Leave
<1>21. CASE PoststopHook
  BY <1>21 DEF PoststopHook, RHook, sock, cvars
<1>22. CASE PoststopHooksDone
  BY <1>22 DEF PoststopHooksDone, hist, sock, cvars, RGoto
<1>23. CASE Remove
  BY <1>23 DEF Remove, hist, cvars, Leave
<1>24. CASE RThrows
  BY <1>24 DEF RThrows, hist, cvars, RFail, REnd, Leave
<1>25. CASE RKilled
  BY <1>25 DEF RKilled, hist, cvars, REnd, Leave
<1>26. CASE CloseInheritedFds
  BY <1>26 DEF CloseInheritedFds, hist, rvars, CGoto
<1>27. CASE RequestNs
  BY <1>27 DEF RequestNs, hist, rvars, CSend, CGoto, CEnd, Leave
<1>28. CASE AwaitNs
  BY <1>28 DEF AwaitNs, hist, rvars, CReceive, CReadable, CGoto, CEnd, Leave
<1>29. CASE ConfigureMounts
  BY <1>29 DEF ConfigureMounts, hist, sock, rvars, CGoto
<1>30. CASE RequestCrt
  BY <1>30 DEF RequestCrt, hist, sock, rvars, CSend, CGoto, CEnd, Leave
<1>31. CASE AwaitCrt
  BY <1>31 DEF AwaitCrt, hist, rvars, CReceive, CReadable, CGoto, CEnd, Leave
<1>32. CASE CreateContainerHook
  BY <1>32 DEF CreateContainerHook, CHook, sock, rvars
<1>33. CASE CreateContainerHooksDone
  BY <1>33 DEF CreateContainerHooksDone, CHooksDone, hist, sock, rvars, CSend, CGoto, CEnd,
     Leave
<1>34. CASE PivotRoot
  BY <1>34 DEF PivotRoot, hist, sock, rvars, CGoto
<1>35. CASE StartContainerHook
  BY <1>35 DEF StartContainerHook, CHook, sock, rvars
<1>36. CASE StartContainerHooksDone
  BY <1>36 DEF StartContainerHooksDone, CHooksDone, hist, sock, rvars, CSend, CGoto, CEnd,
     Leave
<1>37. CASE ExecuteProcess
  BY <1>37 DEF ExecuteProcess, hist, rvars, CGoto, Leave
<1>38. CASE CThrows
  BY <1>38 DEF CThrows, hist, rvars, CEnd, Leave
<1>39. CASE CKilled
  BY <1>39 DEF CKilled, hist, rvars, CEnd, Leave
<1>40. CASE UserExits
  BY <1>40 DEF UserExits, hist, rvars, CEnd, Leave
<1>41. CASE InitReaps
  BY <1>41 DEF InitReaps, hist, sock, rvars
<1>42. CASE PidReused
  BY <1>42 DEF PidReused, hist, sock, rvars, cvars
<1>43. CASE UNCHANGED vars
  BY <1>43 DEF vars, rvars, cvars, sock, hist
<1> QED
  BY <1>1, <1>2, <1>3, <1>4, <1>5, <1>6, <1>7, <1>8, <1>9, <1>10, <1>11, <1>12, <1>13,
     <1>14, <1>15, <1>16, <1>17, <1>18, <1>19, <1>20, <1>21, <1>22, <1>23, <1>24, <1>25,
     <1>26, <1>27, <1>28, <1>29, <1>30, <1>31, <1>32, <1>33, <1>34, <1>35, <1>36, <1>37,
     <1>38, <1>39, <1>40, <1>41, <1>42, <1>43 DEF Next, RuntimeCode, RuntimeHook, CloneCode,
     CloneHook, Terminated

\* Where the two processes can be at the same time, step by step.
LEMMA ExchangeStep ==
  ASSUME TypeOK, ExchangeInv, SocketInv, InboxInv, [Next]_vars
  PROVE  ExchangeInv'
<1> USE ConfigFacts, SeqFacts DEF TypeOK, RuntimeType, CloneType, CloneGone, Hooks,
   NoRuntimeHooks, Record, Absent, RuntimeSteps, RuntimeEnds, SetupSteps, CloneLive,
   ExchangeInv, ExchangeTaken, AtRequestNs, AtAwaitNs, AtMounts, AtAwaitCrt,
   AtContainerHooks, AtStartHooks, AtExec, SocketInv, InboxInv, EarlySteps, EndSteps,
   AfterConfigured, AfterCreateRuntime, BeforeResult, BothResults, StartResult,
   ContainerResult
<1>1. CASE CreateContainer
  BY <1>1 DEF CreateContainer, Write, Recorded, hist, sock, cvars, RGoto
<1>2. CASE StartContainerProcess
  <2>1. ExchangeTaken'
    BY <1>2 DEF StartContainerProcess, hist, RGoto
  <2>2. AtRequestNs'
    BY <1>2, StartedAtRequestNs
  <2>3. AtAwaitNs'
    BY <1>2 DEF StartContainerProcess, hist, RGoto
  <2>4. AtMounts'
    BY <1>2 DEF StartContainerProcess, hist, RGoto
  <2>5. AtAwaitCrt'
    BY <1>2 DEF StartContainerProcess, hist, RGoto
  <2>6. AtContainerHooks'
    BY <1>2 DEF StartContainerProcess, hist, RGoto
  <2>7. AtStartHooks'
    BY <1>2 DEF StartContainerProcess, hist, RGoto
  <2>8. AtExec'
    BY <1>2 DEF StartContainerProcess, hist, RGoto
  <2> QED
    BY <2>1, <2>2, <2>3, <2>4, <2>5, <2>6, <2>7, <2>8
<1>3. CASE WriteCreated
  BY <1>3 DEF WriteCreated, Rewrite, Write, Recorded, hist, sock, cvars, ReadStatus,
     PidExists, RGoto, RFail, REnd, Leave
<1>4. CASE AwaitNsRequest
  <2>1. ExchangeTaken'
    BY <1>4 DEF AwaitNsRequest, hist, cvars, RReceive, RReadable, RGoto, RFail, REnd, Leave
  <2>2. AtRequestNs'
    BY <1>4 DEF AwaitNsRequest, hist, cvars, RReceive, RReadable, RGoto, RFail, REnd, Leave
  <2>3. AtAwaitNs'
    BY <1>4, NsRequestRead
  <2>4. AtMounts'
    BY <1>4 DEF AwaitNsRequest, hist, cvars, RReceive, RReadable, RGoto, RFail, REnd, Leave
  <2>5. AtAwaitCrt'
    BY <1>4 DEF AwaitNsRequest, hist, cvars, RReceive, RReadable, RGoto, RFail, REnd, Leave
  <2>6. AtContainerHooks'
    BY <1>4 DEF AwaitNsRequest, hist, cvars, RReceive, RReadable, RGoto, RFail, REnd, Leave
  <2>7. AtStartHooks'
    BY <1>4 DEF AwaitNsRequest, hist, cvars, RReceive, RReadable, RGoto, RFail, REnd, Leave
  <2>8. AtExec'
    BY <1>4 DEF AwaitNsRequest, hist, cvars, RReceive, RReadable, RGoto, RFail, REnd, Leave
  <2> QED
    BY <2>1, <2>2, <2>3, <2>4, <2>5, <2>6, <2>7, <2>8
<1>5. CASE ConfigureGidMapping
  BY <1>5 DEF ConfigureGidMapping, IdMapping, sock, cvars, RGoto, RFail, REnd, Leave
<1>6. CASE ConfigureUidMapping
  BY <1>6 DEF ConfigureUidMapping, IdMapping, sock, cvars, RGoto, RFail, REnd, Leave
<1>7. CASE NsConfigured
  <2>1. ExchangeTaken'
    BY <1>7 DEF NsConfigured, hist, cvars, RSend, RGoto, REnd, Leave
  <2>2. AtRequestNs'
    BY <1>7 DEF NsConfigured, hist, cvars, RSend, RGoto, REnd, Leave
  <2>3. AtAwaitNs'
    BY <1>7 DEF NsConfigured, hist, cvars, RSend, RGoto, REnd, Leave
  <2>4. AtMounts'
    BY <1>7 DEF NsConfigured, hist, cvars, RSend, RGoto, REnd, Leave
  <2>5. AtAwaitCrt'
    BY <1>7 DEF NsConfigured, hist, cvars, RSend, RGoto, REnd, Leave
  <2>6. AtContainerHooks'
    BY <1>7 DEF NsConfigured, hist, cvars, RSend, RGoto, REnd, Leave
  <2>7. AtStartHooks'
    BY <1>7 DEF NsConfigured, hist, cvars, RSend, RGoto, REnd, Leave
  <2>8. AtExec'
    BY <1>7 DEF NsConfigured, hist, cvars, RSend, RGoto, REnd, Leave
  <2> QED
    BY <2>1, <2>2, <2>3, <2>4, <2>5, <2>6, <2>7, <2>8
<1>8. CASE PrestartHook
  <2>1. ExchangeTaken'
    BY <1>8 DEF PrestartHook, RHook, sock, cvars
  <2>2. AtRequestNs'
    BY <1>8 DEF PrestartHook, RHook, sock, cvars
  <2>3. AtAwaitNs'
    BY <1>8 DEF PrestartHook, RHook, sock, cvars
  <2>4. AtMounts'
    BY <1>8 DEF PrestartHook, RHook, sock, cvars
  <2>5. AtAwaitCrt'
    BY <1>8 DEF PrestartHook, RHook, sock, cvars
  <2>6. AtContainerHooks'
    BY <1>8 DEF PrestartHook, RHook, sock, cvars
  <2>7. AtStartHooks'
    BY <1>8 DEF PrestartHook, RHook, sock, cvars
  <2>8. AtExec'
    BY <1>8 DEF PrestartHook, RHook, sock, cvars
  <2> QED
    BY <2>1, <2>2, <2>3, <2>4, <2>5, <2>6, <2>7, <2>8
<1>9. CASE PrestartHooksDone
  BY <1>9 DEF PrestartHooksDone, hist, sock, cvars, RHooksDone, RGoto
<1>10. CASE AwaitCrtRequest
  <2>1. ExchangeTaken'
    BY <1>10 DEF AwaitCrtRequest, hist, cvars, RReceive, RReadable, RGoto, RFail, REnd,
       Leave
  <2>2. AtRequestNs'
    BY <1>10 DEF AwaitCrtRequest, hist, cvars, RReceive, RReadable, RGoto, RFail, REnd,
       Leave
  <2>3. AtAwaitNs'
    BY <1>10 DEF AwaitCrtRequest, hist, cvars, RReceive, RReadable, RGoto, RFail, REnd,
       Leave
  <2>4. AtMounts'
    BY <1>10 DEF AwaitCrtRequest, hist, cvars, RReceive, RReadable, RGoto, RFail, REnd,
       Leave
  <2>5. AtAwaitCrt'
    BY <1>10, CrtRequestRead
  <2>6. AtContainerHooks'
    BY <1>10 DEF AwaitCrtRequest, hist, cvars, RReceive, RReadable, RGoto, RFail, REnd,
       Leave
  <2>7. AtStartHooks'
    BY <1>10 DEF AwaitCrtRequest, hist, cvars, RReceive, RReadable, RGoto, RFail, REnd,
       Leave
  <2>8. AtExec'
    BY <1>10 DEF AwaitCrtRequest, hist, cvars, RReceive, RReadable, RGoto, RFail, REnd,
       Leave
  <2> QED
    BY <2>1, <2>2, <2>3, <2>4, <2>5, <2>6, <2>7, <2>8
<1>11. CASE CrtPrestartHook
  <2>1. ExchangeTaken'
    BY <1>11 DEF CrtPrestartHook, RHook, sock, cvars
  <2>2. AtRequestNs'
    BY <1>11 DEF CrtPrestartHook, RHook, sock, cvars
  <2>3. AtAwaitNs'
    BY <1>11 DEF CrtPrestartHook, RHook, sock, cvars
  <2>4. AtMounts'
    BY <1>11 DEF CrtPrestartHook, RHook, sock, cvars
  <2>5. AtAwaitCrt'
    BY <1>11 DEF CrtPrestartHook, RHook, sock, cvars
  <2>6. AtContainerHooks'
    BY <1>11 DEF CrtPrestartHook, RHook, sock, cvars
  <2>7. AtStartHooks'
    BY <1>11 DEF CrtPrestartHook, RHook, sock, cvars
  <2>8. AtExec'
    BY <1>11 DEF CrtPrestartHook, RHook, sock, cvars
  <2> QED
    BY <2>1, <2>2, <2>3, <2>4, <2>5, <2>6, <2>7, <2>8
<1>12. CASE CrtPrestartHooksDone
  <2>1. ExchangeTaken'
    BY <1>12 DEF CrtPrestartHooksDone, hist, sock, cvars, RHooksDone, RGoto
  <2>2. AtRequestNs'
    BY <1>12 DEF CrtPrestartHooksDone, hist, sock, cvars, RHooksDone, RGoto
  <2>3. AtAwaitNs'
    BY <1>12 DEF CrtPrestartHooksDone, hist, sock, cvars, RHooksDone, RGoto
  <2>4. AtMounts'
    BY <1>12 DEF CrtPrestartHooksDone, hist, sock, cvars, RHooksDone, RGoto
  <2>5. AtAwaitCrt'
    BY <1>12 DEF CrtPrestartHooksDone, hist, sock, cvars, RHooksDone, RGoto
  <2>6. AtContainerHooks'
    BY <1>12 DEF CrtPrestartHooksDone, hist, sock, cvars, RHooksDone, RGoto
  <2>7. AtStartHooks'
    BY <1>12 DEF CrtPrestartHooksDone, hist, sock, cvars, RHooksDone, RGoto
  <2>8. AtExec'
    BY <1>12 DEF CrtPrestartHooksDone, hist, sock, cvars, RHooksDone, RGoto
  <2> QED
    BY <2>1, <2>2, <2>3, <2>4, <2>5, <2>6, <2>7, <2>8
<1>13. CASE CreateRuntimeHook
  <2>1. ExchangeTaken'
    BY <1>13 DEF CreateRuntimeHook, RHook, sock, cvars
  <2>2. AtRequestNs'
    BY <1>13 DEF CreateRuntimeHook, RHook, sock, cvars
  <2>3. AtAwaitNs'
    BY <1>13 DEF CreateRuntimeHook, RHook, sock, cvars
  <2>4. AtMounts'
    BY <1>13 DEF CreateRuntimeHook, RHook, sock, cvars
  <2>5. AtAwaitCrt'
    BY <1>13 DEF CreateRuntimeHook, RHook, sock, cvars
  <2>6. AtContainerHooks'
    BY <1>13 DEF CreateRuntimeHook, RHook, sock, cvars
  <2>7. AtStartHooks'
    BY <1>13 DEF CreateRuntimeHook, RHook, sock, cvars
  <2>8. AtExec'
    BY <1>13 DEF CreateRuntimeHook, RHook, sock, cvars
  <2> QED
    BY <2>1, <2>2, <2>3, <2>4, <2>5, <2>6, <2>7, <2>8
<1>14. CASE CreateRuntimeHooksDone
  <2>1. ExchangeTaken'
    BY <1>14 DEF CreateRuntimeHooksDone, hist, cvars, RHooksDone, RSend, RGoto, REnd, Leave
  <2>2. AtRequestNs'
    BY <1>14 DEF CreateRuntimeHooksDone, hist, cvars, RHooksDone, RSend, RGoto, REnd, Leave
  <2>3. AtAwaitNs'
    BY <1>14 DEF CreateRuntimeHooksDone, hist, cvars, RHooksDone, RSend, RGoto, REnd, Leave
  <2>4. AtMounts'
    BY <1>14 DEF CreateRuntimeHooksDone, hist, cvars, RHooksDone, RSend, RGoto, REnd, Leave
  <2>5. AtAwaitCrt'
    BY <1>14 DEF CreateRuntimeHooksDone, hist, cvars, RHooksDone, RSend, RGoto, REnd, Leave
  <2>6. AtContainerHooks'
    BY <1>14 DEF CreateRuntimeHooksDone, hist, cvars, RHooksDone, RSend, RGoto, REnd, Leave
  <2>7. AtStartHooks'
    BY <1>14 DEF CreateRuntimeHooksDone, hist, cvars, RHooksDone, RSend, RGoto, REnd, Leave
  <2>8. AtExec'
    BY <1>14 DEF CreateRuntimeHooksDone, hist, cvars, RHooksDone, RSend, RGoto, REnd, Leave
  <2> QED
    BY <2>1, <2>2, <2>3, <2>4, <2>5, <2>6, <2>7, <2>8
<1>15. CASE WaitCreateContainerResult
  <2>1. ExchangeTaken'
    BY <1>15 DEF WaitCreateContainerResult, hist, sock, cvars, RReceive, RReadable, RGoto,
       RFail, REnd, Leave
  <2>2. AtRequestNs'
    BY <1>15 DEF WaitCreateContainerResult, hist, sock, cvars, RReceive, RReadable, RGoto,
       RFail, REnd, Leave
  <2>3. AtAwaitNs'
    BY <1>15 DEF WaitCreateContainerResult, hist, sock, cvars, RReceive, RReadable, RGoto,
       RFail, REnd, Leave
  <2>4. AtMounts'
    BY <1>15 DEF WaitCreateContainerResult, hist, sock, cvars, RReceive, RReadable, RGoto,
       RFail, REnd, Leave
  <2>5. AtAwaitCrt'
    BY <1>15 DEF WaitCreateContainerResult, hist, sock, cvars, RReceive, RReadable, RGoto,
       RFail, REnd, Leave
  <2>6. AtContainerHooks'
    BY <1>15 DEF WaitCreateContainerResult, hist, sock, cvars, RReceive, RReadable, RGoto,
       RFail, REnd, Leave
  <2>7. AtStartHooks'
    BY <1>15, ResultReadAtStartHooks
  <2>8. AtExec'
    BY <1>15, ResultReadAtExec
  <2> QED
    BY <2>1, <2>2, <2>3, <2>4, <2>5, <2>6, <2>7, <2>8
<1>16. CASE WaitSocketClose
  <2>1. ExchangeTaken'
    BY <1>16 DEF WaitSocketClose, hist, cvars, RReadable, RGoto, RFail, REnd, Leave
  <2>2. AtRequestNs'
    BY <1>16 DEF WaitSocketClose, hist, cvars, RReadable, RGoto, RFail, REnd, Leave
  <2>3. AtAwaitNs'
    BY <1>16 DEF WaitSocketClose, hist, cvars, RReadable, RGoto, RFail, REnd, Leave
  <2>4. AtMounts'
    BY <1>16 DEF WaitSocketClose, hist, cvars, RReadable, RGoto, RFail, REnd, Leave
  <2>5. AtAwaitCrt'
    BY <1>16 DEF WaitSocketClose, hist, cvars, RReadable, RGoto, RFail, REnd, Leave
  <2>6. AtContainerHooks'
    BY <1>16 DEF WaitSocketClose, hist, cvars, RReadable, RGoto, RFail, REnd, Leave
  <2>7. AtStartHooks'
    BY <1>16 DEF WaitSocketClose, hist, cvars, RReadable, RGoto, RFail, REnd, Leave
  <2>8. AtExec'
    BY <1>16, CloseReadAtExec
  <2> QED
    BY <2>1, <2>2, <2>3, <2>4, <2>5, <2>6, <2>7, <2>8
<1>17. CASE PoststartHook
  BY <1>17 DEF PoststartHook, RHook, sock, cvars
<1>18. CASE PoststartHooksDone
  BY <1>18 DEF PoststartHooksDone, hist, sock, cvars, RHooksDone, RGoto
<1>19. CASE WaitContainerProcess
  BY <1>19 DEF WaitContainerProcess, hist, sock, cvars, RGoto, RFail, REnd, Leave
<1>20. CASE WriteStopped
  BY <1>20 DEF WriteStopped, Rewrite, Write, Recorded, hist, sock, cvars, ReadStatus,
     PidExists, RGoto, RFail, REnd, Leave
<1>21. CASE PoststopHook
  BY <1>21 DEF PoststopHook, RHook, sock, cvars
<1>22. CASE PoststopHooksDone
  BY <1>22 DEF PoststopHooksDone, hist, sock, cvars, RGoto
<1>23. CASE Remove
  BY <1>23 DEF Remove, hist, cvars, Leave
<1>24. CASE RThrows
  BY <1>24 DEF RThrows, hist, cvars, RFail, REnd, Leave
<1>25. CASE RKilled
  BY <1>25 DEF RKilled, hist, cvars, REnd, Leave
<1>26. CASE CloseInheritedFds
  BY <1>26 DEF CloseInheritedFds, hist, rvars, CGoto
<1>27. CASE RequestNs
  <2>1. ExchangeTaken'
    BY <1>27 DEF RequestNs, hist, rvars, CSend, CGoto, CEnd, Leave
  <2>2. AtRequestNs'
    BY <1>27 DEF RequestNs, hist, rvars, CSend, CGoto, CEnd, Leave
  <2>3. AtAwaitNs'
    BY <1>27 DEF RequestNs, hist, rvars, CSend, CGoto, CEnd, Leave
  <2>4. AtMounts'
    BY <1>27 DEF RequestNs, hist, rvars, CSend, CGoto, CEnd, Leave
  <2>5. AtAwaitCrt'
    BY <1>27 DEF RequestNs, hist, rvars, CSend, CGoto, CEnd, Leave
  <2>6. AtContainerHooks'
    BY <1>27 DEF RequestNs, hist, rvars, CSend, CGoto, CEnd, Leave
  <2>7. AtStartHooks'
    BY <1>27 DEF RequestNs, hist, rvars, CSend, CGoto, CEnd, Leave
  <2>8. AtExec'
    BY <1>27 DEF RequestNs, hist, rvars, CSend, CGoto, CEnd, Leave
  <2> QED
    BY <2>1, <2>2, <2>3, <2>4, <2>5, <2>6, <2>7, <2>8
<1>28. CASE AwaitNs
  <2>1. ExchangeTaken'
    BY <1>28 DEF AwaitNs, hist, rvars, CReceive, CReadable, CGoto, CEnd, Leave
  <2>2. AtRequestNs'
    BY <1>28 DEF AwaitNs, hist, rvars, CReceive, CReadable, CGoto, CEnd, Leave
  <2>3. AtAwaitNs'
    BY <1>28 DEF AwaitNs, hist, rvars, CReceive, CReadable, CGoto, CEnd, Leave
  <2>4. AtMounts'
    BY <1>28 DEF AwaitNs, hist, rvars, CReceive, CReadable, CGoto, CEnd, Leave
  <2>5. AtAwaitCrt'
    BY <1>28 DEF AwaitNs, hist, rvars, CReceive, CReadable, CGoto, CEnd, Leave
  <2>6. AtContainerHooks'
    BY <1>28 DEF AwaitNs, hist, rvars, CReceive, CReadable, CGoto, CEnd, Leave
  <2>7. AtStartHooks'
    BY <1>28 DEF AwaitNs, hist, rvars, CReceive, CReadable, CGoto, CEnd, Leave
  <2>8. AtExec'
    BY <1>28 DEF AwaitNs, hist, rvars, CReceive, CReadable, CGoto, CEnd, Leave
  <2> QED
    BY <2>1, <2>2, <2>3, <2>4, <2>5, <2>6, <2>7, <2>8
<1>29. CASE ConfigureMounts
  <2>1. ExchangeTaken'
    BY <1>29 DEF ConfigureMounts, hist, sock, rvars, CGoto
  <2>2. AtRequestNs'
    BY <1>29 DEF ConfigureMounts, hist, sock, rvars, CGoto
  <2>3. AtAwaitNs'
    BY <1>29 DEF ConfigureMounts, hist, sock, rvars, CGoto
  <2>4. AtMounts'
    BY <1>29 DEF ConfigureMounts, hist, sock, rvars, CGoto
  <2>5. AtAwaitCrt'
    BY <1>29 DEF ConfigureMounts, hist, sock, rvars, CGoto
  <2>6. AtContainerHooks'
    BY <1>29 DEF ConfigureMounts, hist, sock, rvars, CGoto
  <2>7. AtStartHooks'
    BY <1>29 DEF ConfigureMounts, hist, sock, rvars, CGoto
  <2>8. AtExec'
    BY <1>29 DEF ConfigureMounts, hist, sock, rvars, CGoto
  <2> QED
    BY <2>1, <2>2, <2>3, <2>4, <2>5, <2>6, <2>7, <2>8
<1>30. CASE RequestCrt
  <2>1. ExchangeTaken'
    BY <1>30 DEF RequestCrt, hist, sock, rvars, CSend, CGoto, CEnd, Leave
  <2>2. AtRequestNs'
    BY <1>30 DEF RequestCrt, hist, sock, rvars, CSend, CGoto, CEnd, Leave
  <2>3. AtAwaitNs'
    BY <1>30 DEF RequestCrt, hist, sock, rvars, CSend, CGoto, CEnd, Leave
  <2>4. AtMounts'
    BY <1>30 DEF RequestCrt, hist, sock, rvars, CSend, CGoto, CEnd, Leave
  <2>5. AtAwaitCrt'
    BY <1>30, CrtRequested
  <2>6. AtContainerHooks'
    BY <1>30 DEF RequestCrt, hist, sock, rvars, CSend, CGoto, CEnd, Leave
  <2>7. AtStartHooks'
    BY <1>30 DEF RequestCrt, hist, sock, rvars, CSend, CGoto, CEnd, Leave
  <2>8. AtExec'
    BY <1>30 DEF RequestCrt, hist, sock, rvars, CSend, CGoto, CEnd, Leave
  <2> QED
    BY <2>1, <2>2, <2>3, <2>4, <2>5, <2>6, <2>7, <2>8
<1>31. CASE AwaitCrt
  BY <1>31 DEF AwaitCrt, hist, rvars, CReceive, CReadable, CGoto, CEnd, Leave
<1>32. CASE CreateContainerHook
  <2>1. ExchangeTaken'
    BY <1>32 DEF CreateContainerHook, CHook, sock, rvars
  <2>2. AtRequestNs'
    BY <1>32 DEF CreateContainerHook, CHook, sock, rvars
  <2>3. AtAwaitNs'
    BY <1>32 DEF CreateContainerHook, CHook, sock, rvars
  <2>4. AtMounts'
    BY <1>32 DEF CreateContainerHook, CHook, sock, rvars
  <2>5. AtAwaitCrt'
    BY <1>32 DEF CreateContainerHook, CHook, sock, rvars
  <2>6. AtContainerHooks'
    BY <1>32 DEF CreateContainerHook, CHook, sock, rvars
  <2>7. AtStartHooks'
    BY <1>32 DEF CreateContainerHook, CHook, sock, rvars
  <2>8. AtExec'
    BY <1>32 DEF CreateContainerHook, CHook, sock, rvars
  <2> QED
    BY <2>1, <2>2, <2>3, <2>4, <2>5, <2>6, <2>7, <2>8
<1>33. CASE CreateContainerHooksDone
  <2>1. ExchangeTaken'
    BY <1>33 DEF CreateContainerHooksDone, CHooksDone, hist, sock, rvars, CSend, CGoto,
       CEnd, Leave
  <2>2. AtRequestNs'
    BY <1>33 DEF CreateContainerHooksDone, CHooksDone, hist, sock, rvars, CSend, CGoto,
       CEnd, Leave
  <2>3. AtAwaitNs'
    BY <1>33 DEF CreateContainerHooksDone, CHooksDone, hist, sock, rvars, CSend, CGoto,
       CEnd, Leave
  <2>4. AtMounts'
    BY <1>33 DEF CreateContainerHooksDone, CHooksDone, hist, sock, rvars, CSend, CGoto,
       CEnd, Leave
  <2>5. AtAwaitCrt'
    BY <1>33 DEF CreateContainerHooksDone, CHooksDone, hist, sock, rvars, CSend, CGoto,
       CEnd, Leave
  <2>6. AtContainerHooks'
    BY <1>33 DEF CreateContainerHooksDone, CHooksDone, hist, sock, rvars, CSend, CGoto,
       CEnd, Leave
  <2>7. AtStartHooks'
    BY <1>33, ContainerResultSent
  <2>8. AtExec'
    BY <1>33 DEF CreateContainerHooksDone, CHooksDone, hist, sock, rvars, CSend, CGoto,
       CEnd, Leave
  <2> QED
    BY <2>1, <2>2, <2>3, <2>4, <2>5, <2>6, <2>7, <2>8
<1>34. CASE PivotRoot
  <2>1. ExchangeTaken'
    BY <1>34 DEF PivotRoot, hist, sock, rvars, CGoto
  <2>2. AtRequestNs'
    BY <1>34 DEF PivotRoot, hist, sock, rvars, CGoto
  <2>3. AtAwaitNs'
    BY <1>34 DEF PivotRoot, hist, sock, rvars, CGoto
  <2>4. AtMounts'
    BY <1>34 DEF PivotRoot, hist, sock, rvars, CGoto
  <2>5. AtAwaitCrt'
    BY <1>34 DEF PivotRoot, hist, sock, rvars, CGoto
  <2>6. AtContainerHooks'
    BY <1>34 DEF PivotRoot, hist, sock, rvars, CGoto
  <2>7. AtStartHooks'
    BY <1>34 DEF PivotRoot, hist, sock, rvars, CGoto
  <2>8. AtExec'
    BY <1>34 DEF PivotRoot, hist, sock, rvars, CGoto
  <2> QED
    BY <2>1, <2>2, <2>3, <2>4, <2>5, <2>6, <2>7, <2>8
<1>35. CASE StartContainerHook
  <2>1. ExchangeTaken'
    BY <1>35 DEF StartContainerHook, CHook, sock, rvars
  <2>2. AtRequestNs'
    BY <1>35 DEF StartContainerHook, CHook, sock, rvars
  <2>3. AtAwaitNs'
    BY <1>35 DEF StartContainerHook, CHook, sock, rvars
  <2>4. AtMounts'
    BY <1>35 DEF StartContainerHook, CHook, sock, rvars
  <2>5. AtAwaitCrt'
    BY <1>35 DEF StartContainerHook, CHook, sock, rvars
  <2>6. AtContainerHooks'
    BY <1>35 DEF StartContainerHook, CHook, sock, rvars
  <2>7. AtStartHooks'
    BY <1>35 DEF StartContainerHook, CHook, sock, rvars
  <2>8. AtExec'
    BY <1>35 DEF StartContainerHook, CHook, sock, rvars
  <2> QED
    BY <2>1, <2>2, <2>3, <2>4, <2>5, <2>6, <2>7, <2>8
<1>36. CASE StartContainerHooksDone
  <2>1. ExchangeTaken'
    BY <1>36 DEF StartContainerHooksDone, CHooksDone, hist, sock, rvars, CSend, CGoto, CEnd,
       Leave
  <2>2. AtRequestNs'
    BY <1>36 DEF StartContainerHooksDone, CHooksDone, hist, sock, rvars, CSend, CGoto, CEnd,
       Leave
  <2>3. AtAwaitNs'
    BY <1>36 DEF StartContainerHooksDone, CHooksDone, hist, sock, rvars, CSend, CGoto, CEnd,
       Leave
  <2>4. AtMounts'
    BY <1>36 DEF StartContainerHooksDone, CHooksDone, hist, sock, rvars, CSend, CGoto, CEnd,
       Leave
  <2>5. AtAwaitCrt'
    BY <1>36 DEF StartContainerHooksDone, CHooksDone, hist, sock, rvars, CSend, CGoto, CEnd,
       Leave
  <2>6. AtContainerHooks'
    BY <1>36 DEF StartContainerHooksDone, CHooksDone, hist, sock, rvars, CSend, CGoto, CEnd,
       Leave
  <2>7. AtStartHooks'
    BY <1>36 DEF StartContainerHooksDone, CHooksDone, hist, sock, rvars, CSend, CGoto, CEnd,
       Leave
  <2>8. AtExec'
    BY <1>36, StartResultSent
  <2> QED
    BY <2>1, <2>2, <2>3, <2>4, <2>5, <2>6, <2>7, <2>8
<1>37. CASE ExecuteProcess
  <2>1. ExchangeTaken'
    BY <1>37 DEF ExecuteProcess, hist, rvars, CGoto, Leave
  <2>2. AtRequestNs'
    BY <1>37 DEF ExecuteProcess, hist, rvars, CGoto, Leave
  <2>3. AtAwaitNs'
    BY <1>37 DEF ExecuteProcess, hist, rvars, CGoto, Leave
  <2>4. AtMounts'
    BY <1>37 DEF ExecuteProcess, hist, rvars, CGoto, Leave
  <2>5. AtAwaitCrt'
    BY <1>37 DEF ExecuteProcess, hist, rvars, CGoto, Leave
  <2>6. AtContainerHooks'
    BY <1>37 DEF ExecuteProcess, hist, rvars, CGoto, Leave
  <2>7. AtStartHooks'
    BY <1>37 DEF ExecuteProcess, hist, rvars, CGoto, Leave
  <2>8. AtExec'
    BY <1>37 DEF ExecuteProcess, hist, rvars, CGoto, Leave
  <2> QED
    BY <2>1, <2>2, <2>3, <2>4, <2>5, <2>6, <2>7, <2>8
<1>38. CASE CThrows
  BY <1>38 DEF CThrows, hist, rvars, CEnd, Leave
<1>39. CASE CKilled
  BY <1>39 DEF CKilled, hist, rvars, CEnd, Leave
<1>40. CASE UserExits
  BY <1>40 DEF UserExits, hist, rvars, CEnd, Leave
<1>41. CASE InitReaps
  BY <1>41 DEF InitReaps, hist, sock, rvars
<1>42. CASE PidReused
  BY <1>42 DEF PidReused, hist, sock, rvars, cvars
<1>43. CASE UNCHANGED vars
  BY <1>43 DEF vars, rvars, cvars, sock, hist
<1> QED
  BY <1>1, <1>2, <1>3, <1>4, <1>5, <1>6, <1>7, <1>8, <1>9, <1>10, <1>11, <1>12, <1>13,
     <1>14, <1>15, <1>16, <1>17, <1>18, <1>19, <1>20, <1>21, <1>22, <1>23, <1>24, <1>25,
     <1>26, <1>27, <1>28, <1>29, <1>30, <1>31, <1>32, <1>33, <1>34, <1>35, <1>36, <1>37,
     <1>38, <1>39, <1>40, <1>41, <1>42, <1>43 DEF Next, RuntimeCode, RuntimeHook, CloneCode,
     CloneHook, Terminated

\* What a dead clone has left for the runtime, step by step.
LEMMA LeftoverStep ==
  ASSUME TypeOK, LeftoverInv, ExchangeInv, SocketInv, RecordInv, [Next]_vars
  PROVE  LeftoverInv'
<1> USE ConfigFacts, SeqFacts DEF TypeOK, RuntimeType, CloneType, CloneGone, Hooks,
   NoRuntimeHooks, Record, Absent, RuntimeSteps, RuntimeEnds, SetupSteps, CloneLive,
   LeftoverInv, LeftAtNs, LeftAtCrt, LeftAtResult, LeftAtClose, NothingLeft, ExchangeInv,
   ExchangeTaken, AtRequestNs, AtAwaitNs, AtMounts, AtAwaitCrt, AtContainerHooks,
   AtStartHooks, AtExec, SocketInv, EarlySteps, EndSteps, AfterConfigured,
   AfterCreateRuntime, BeforeResult, BothResults, StartResult, ContainerResult
<1>1. CASE CreateContainer
  BY <1>1 DEF CreateContainer, Write, Recorded, hist, sock, cvars, RGoto
<1>2. CASE StartContainerProcess
  BY <1>2 DEF StartContainerProcess, hist, RGoto
<1>3. CASE WriteCreated
  BY <1>3 DEF WriteCreated, Rewrite, Write, Recorded, hist, sock, cvars, ReadStatus,
     PidExists, RGoto, RFail, REnd, Leave
<1>4. CASE AwaitNsRequest
  <2>1. LeftAtNs'
    BY <1>4 DEF AwaitNsRequest, hist, cvars, RReceive, RReadable, RGoto, RFail, REnd, Leave
  <2>2. LeftAtCrt'
    BY <1>4 DEF AwaitNsRequest, hist, cvars, RReceive, RReadable, RGoto, RFail, REnd, Leave
  <2>3. LeftAtResult'
    BY <1>4 DEF AwaitNsRequest, hist, cvars, RReceive, RReadable, RGoto, RFail, REnd, Leave
  <2>4. LeftAtClose'
    BY <1>4 DEF AwaitNsRequest, hist, cvars, RReceive, RReadable, RGoto, RFail, REnd, Leave
  <2>5. NothingLeft'
    BY <1>4, NsRequestLeft
  <2> QED
    BY <2>1, <2>2, <2>3, <2>4, <2>5
<1>5. CASE ConfigureGidMapping
  BY <1>5 DEF ConfigureGidMapping, IdMapping, sock, cvars, RGoto, RFail, REnd, Leave
<1>6. CASE ConfigureUidMapping
  BY <1>6 DEF ConfigureUidMapping, IdMapping, sock, cvars, RGoto, RFail, REnd, Leave
<1>7. CASE NsConfigured
  BY <1>7 DEF NsConfigured, hist, cvars, RSend, RGoto, REnd, Leave
<1>8. CASE PrestartHook
  <2>1. LeftAtNs'
    BY <1>8 DEF PrestartHook, RHook, sock, cvars
  <2>2. LeftAtCrt'
    BY <1>8 DEF PrestartHook, RHook, sock, cvars
  <2>3. LeftAtResult'
    BY <1>8 DEF PrestartHook, RHook, sock, cvars
  <2>4. LeftAtClose'
    BY <1>8 DEF PrestartHook, RHook, sock, cvars
  <2>5. NothingLeft'
    BY <1>8 DEF PrestartHook, RHook, sock, cvars
  <2> QED
    BY <2>1, <2>2, <2>3, <2>4, <2>5
<1>9. CASE PrestartHooksDone
  BY <1>9 DEF PrestartHooksDone, hist, sock, cvars, RHooksDone, RGoto
<1>10. CASE AwaitCrtRequest
  <2>1. LeftAtNs'
    BY <1>10 DEF AwaitCrtRequest, hist, cvars, RReceive, RReadable, RGoto, RFail, REnd,
       Leave
  <2>2. LeftAtCrt'
    BY <1>10 DEF AwaitCrtRequest, hist, cvars, RReceive, RReadable, RGoto, RFail, REnd,
       Leave
  <2>3. LeftAtResult'
    BY <1>10 DEF AwaitCrtRequest, hist, cvars, RReceive, RReadable, RGoto, RFail, REnd,
       Leave
  <2>4. LeftAtClose'
    BY <1>10 DEF AwaitCrtRequest, hist, cvars, RReceive, RReadable, RGoto, RFail, REnd,
       Leave
  <2>5. NothingLeft'
    BY <1>10, CrtRequestLeft DEF AwaitCrtRequest
  <2> QED
    BY <2>1, <2>2, <2>3, <2>4, <2>5
<1>11. CASE CrtPrestartHook
  BY <1>11 DEF CrtPrestartHook, RHook, sock, cvars
<1>12. CASE CrtPrestartHooksDone
  BY <1>12 DEF CrtPrestartHooksDone, hist, sock, cvars, RHooksDone, RGoto
<1>13. CASE CreateRuntimeHook
  BY <1>13 DEF CreateRuntimeHook, RHook, sock, cvars
<1>14. CASE CreateRuntimeHooksDone
  BY <1>14 DEF CreateRuntimeHooksDone, hist, cvars, RHooksDone, RSend, RGoto, REnd, Leave
<1>15. CASE WaitCreateContainerResult
  <2>1. LeftAtNs'
    BY <1>15 DEF WaitCreateContainerResult, hist, sock, cvars, RReceive, RReadable, RGoto,
       RFail, REnd, Leave
  <2>2. LeftAtCrt'
    BY <1>15 DEF WaitCreateContainerResult, hist, sock, cvars, RReceive, RReadable, RGoto,
       RFail, REnd, Leave
  <2>3. LeftAtResult'
    BY <1>15 DEF WaitCreateContainerResult, hist, sock, cvars, RReceive, RReadable, RGoto,
       RFail, REnd, Leave
  <2>4. LeftAtClose'
    BY <1>15, ResultLeft
  <2>5. NothingLeft'
    BY <1>15 DEF WaitCreateContainerResult, hist, sock, cvars, RReceive, RReadable, RGoto,
       RFail, REnd, Leave
  <2> QED
    BY <2>1, <2>2, <2>3, <2>4, <2>5
<1>16. CASE WaitSocketClose
  <2>1. LeftAtNs'
    BY <1>16 DEF WaitSocketClose, hist, cvars, RReadable, RGoto, RFail, REnd, Leave
  <2>2. LeftAtCrt'
    BY <1>16 DEF WaitSocketClose, hist, cvars, RReadable, RGoto, RFail, REnd, Leave
  <2>3. LeftAtResult'
    BY <1>16 DEF WaitSocketClose, hist, cvars, RReadable, RGoto, RFail, REnd, Leave
  <2>4. LeftAtClose'
    BY <1>16 DEF WaitSocketClose, hist, cvars, RReadable, RGoto, RFail, REnd, Leave
  <2>5. NothingLeft'
    BY <1>16, CloseLeft
  <2> QED
    BY <2>1, <2>2, <2>3, <2>4, <2>5
<1>17. CASE PoststartHook
  BY <1>17 DEF PoststartHook, RHook, sock, cvars
<1>18. CASE PoststartHooksDone
  BY <1>18 DEF PoststartHooksDone, hist, sock, cvars, RHooksDone, RGoto
<1>19. CASE WaitContainerProcess
  BY <1>19 DEF WaitContainerProcess, hist, sock, cvars, RGoto, RFail, REnd, Leave
<1>20. CASE WriteStopped
  BY <1>20 DEF WriteStopped, Rewrite, Write, Recorded, hist, sock, cvars, ReadStatus,
     PidExists, RGoto, RFail, REnd, Leave
<1>21. CASE PoststopHook
  BY <1>21 DEF PoststopHook, RHook, sock, cvars
<1>22. CASE PoststopHooksDone
  BY <1>22 DEF PoststopHooksDone, hist, sock, cvars, RGoto
<1>23. CASE Remove
  BY <1>23 DEF Remove, hist, cvars, Leave
<1>24. CASE RThrows
  BY <1>24 DEF RThrows, hist, cvars, RFail, REnd, Leave
<1>25. CASE RKilled
  BY <1>25 DEF RKilled, hist, cvars, REnd, Leave
<1>26. CASE CloseInheritedFds
  BY <1>26 DEF CloseInheritedFds, hist, rvars, CGoto
<1>27. CASE RequestNs
  BY <1>27 DEF RequestNs, hist, rvars, CSend, CGoto, CEnd, Leave
<1>28. CASE AwaitNs
  BY <1>28 DEF AwaitNs, hist, rvars, CReceive, CReadable, CGoto, CEnd, Leave
<1>29. CASE ConfigureMounts
  BY <1>29 DEF ConfigureMounts, hist, sock, rvars, CGoto
<1>30. CASE RequestCrt
  BY <1>30 DEF RequestCrt, hist, sock, rvars, CSend, CGoto, CEnd, Leave
<1>31. CASE AwaitCrt
  BY <1>31 DEF AwaitCrt, hist, rvars, CReceive, CReadable, CGoto, CEnd, Leave
<1>32. CASE CreateContainerHook
  BY <1>32 DEF CreateContainerHook, CHook, sock, rvars
<1>33. CASE CreateContainerHooksDone
  BY <1>33 DEF CreateContainerHooksDone, CHooksDone, hist, sock, rvars, CSend, CGoto, CEnd,
     Leave
<1>34. CASE PivotRoot
  BY <1>34 DEF PivotRoot, hist, sock, rvars, CGoto
<1>35. CASE StartContainerHook
  BY <1>35 DEF StartContainerHook, CHook, sock, rvars
<1>36. CASE StartContainerHooksDone
  BY <1>36 DEF StartContainerHooksDone, CHooksDone, hist, sock, rvars, CSend, CGoto, CEnd,
     Leave
<1>37. CASE ExecuteProcess
  BY <1>37 DEF ExecuteProcess, hist, rvars, CGoto, Leave
<1>38. CASE CThrows
  <2>1. LeftAtNs'
    BY <1>38 DEF CThrows, hist, rvars, CEnd, Leave
  <2>2. LeftAtCrt'
    BY <1>38 DEF CThrows, hist, rvars, CEnd, Leave
  <2>3. LeftAtResult'
    BY <1>38 DEF CThrows, hist, rvars, CEnd, Leave
  <2>4. LeftAtClose'
    BY <1>38 DEF CThrows, hist, rvars, CEnd, Leave
  <2>5. NothingLeft'
    BY <1>38 DEF CThrows, hist, rvars, CEnd, Leave
  <2> QED
    BY <2>1, <2>2, <2>3, <2>4, <2>5
<1>39. CASE CKilled
  <2>1. LeftAtNs'
    BY <1>39 DEF CKilled, hist, rvars, CEnd, Leave
  <2>2. LeftAtCrt'
    BY <1>39 DEF CKilled, hist, rvars, CEnd, Leave
  <2>3. LeftAtResult'
    BY <1>39 DEF CKilled, hist, rvars, CEnd, Leave
  <2>4. LeftAtClose'
    BY <1>39 DEF CKilled, hist, rvars, CEnd, Leave
  <2>5. NothingLeft'
    BY <1>39 DEF CKilled, hist, rvars, CEnd, Leave
  <2> QED
    BY <2>1, <2>2, <2>3, <2>4, <2>5
<1>40. CASE UserExits
  <2>1. LeftAtNs'
    BY <1>40 DEF UserExits, hist, rvars, CEnd, Leave
  <2>2. LeftAtCrt'
    BY <1>40 DEF UserExits, hist, rvars, CEnd, Leave
  <2>3. LeftAtResult'
    BY <1>40 DEF UserExits, hist, rvars, CEnd, Leave
  <2>4. LeftAtClose'
    BY <1>40 DEF UserExits, hist, rvars, CEnd, Leave
  <2>5. NothingLeft'
    BY <1>40 DEF UserExits, hist, rvars, CEnd, Leave
  <2> QED
    BY <2>1, <2>2, <2>3, <2>4, <2>5
<1>41. CASE InitReaps
  BY <1>41 DEF InitReaps, hist, sock, rvars
<1>42. CASE PidReused
  BY <1>42 DEF PidReused, hist, sock, rvars, cvars
<1>43. CASE UNCHANGED vars
  BY <1>43 DEF vars, rvars, cvars, sock, hist
<1> QED
  BY <1>1, <1>2, <1>3, <1>4, <1>5, <1>6, <1>7, <1>8, <1>9, <1>10, <1>11, <1>12, <1>13,
     <1>14, <1>15, <1>16, <1>17, <1>18, <1>19, <1>20, <1>21, <1>22, <1>23, <1>24, <1>25,
     <1>26, <1>27, <1>28, <1>29, <1>30, <1>31, <1>32, <1>33, <1>34, <1>35, <1>36, <1>37,
     <1>38, <1>39, <1>40, <1>41, <1>42, <1>43 DEF Next, RuntimeCode, RuntimeHook, CloneCode,
     CloneHook, Terminated

-----------------------------------------------------------------------------
(* What follows from IInv.                                                 *)

\* IInv holds at the start and every step keeps it: the facts about sockets,
\* messages, record, id maps, hooks and results are inductive together.
THEOREM InductiveInit == Init => IInv
<1> SUFFICES ASSUME Init PROVE IInv
  OBVIOUS
<1>1. TypeOK
  BY TypeInit
<1>2. SocketInv /\ InboxInv
  BY DEF Init, SocketInv, InboxInv, EarlySteps, RuntimeSteps, RuntimeEnds, SetupSteps
<1>3. ExchangeInv
  BY DEF Init, ExchangeInv, ExchangeTaken, AtRequestNs, AtAwaitNs, AtMounts, AtAwaitCrt,
     AtContainerHooks, AtStartHooks, AtExec
<1>4. LeftoverInv
  BY DEF Init, LeftoverInv, LeftAtNs, LeftAtCrt, LeftAtResult, LeftAtClose, NothingLeft,
     CloneGone
<1>5. RecordInv
  BY DEF Init, RecordInv, Record, Absent, EarlySteps, EndSteps, RuntimeEnds
<1>6. MapInv
  BY DEF Init, MapInv, EarlySteps, PastNs, CloneLive, SetupSteps
<1>7. HookInv
  BY <1>1, ConfigFacts DEF Init, HookInv, TypeOK, HookKind, EarlySteps, EndSteps, PastCrt,
     PastNs, CloneLive, SetupSteps
<1>8. ResultInv
  BY DEF Init, ResultInv, RuntimeEnds, RuntimeSteps
<1> QED
  BY <1>1, <1>2, <1>3, <1>4, <1>5, <1>6, <1>7, <1>8 DEF IInv

\* Every step keeps IInv: the lemmas of ContainerRunInv_proofs together.
THEOREM InductiveStep == IInv /\ [Next]_vars => IInv'
  BY TypeStep, SocketStep, InboxStep, RecordStep, MapStep, HookStep, ResultStep,
     ExchangeStep, LeftoverStep DEF IInv

\* IInv holds in every reachable state, for every set of configurations.
THEOREM InductiveInvariant == Spec => []IInv
  BY InductiveInit, InductiveStep, PTL DEF Spec

-----------------------------------------------------------------------------
\* What can be waiting for the runtime wherever it reads.
LEMMA QueueAtRead ==
  ASSUME IInv
  PROVE  /\ rpc = "await_ns_request" => toR \in {<<>>, <<"REQUEST_CONFIGURE_NAMESPACE">>}
         /\ rpc = "await_crt_request" => toR \in {<<>>, <<"REQUEST_CREATERUNTIME_HOOKS">>}
         /\ rpc = "wait_create_container" => toR \in {<<>>, ContainerResult, BothResults}
         /\ rpc = "wait_socket_close" => toR \in {<<>>, StartResult}
<1> USE DEF IInv, RuntimeSteps, EarlySteps
<1>1. cpc \in SetupSteps \cup {"user", "none"} \/ CloneGone
  BY DEF TypeOK, CloneType, CloneLive, CloneGone
<1>2. CASE CloneGone
  BY <1>2 DEF LeftoverInv, LeftAtNs, LeftAtCrt, LeftAtResult, LeftAtClose, BeforeResult,
     ExchangeInv, ExchangeTaken
<1>3. CASE cpc = "none"
  BY <1>3 DEF SocketInv, RuntimeEnds
<1>4. CASE cpc \in {"close_fds", "request_ns", "await_ns", "mounts", "request_crt"}
  BY <1>4 DEF ExchangeInv, AtRequestNs, AtAwaitNs, AtMounts, AfterConfigured
<1>5. CASE cpc \in {"await_crt", "create_container_hooks"}
  BY <1>5 DEF ExchangeInv, AtAwaitCrt, AtContainerHooks, AfterConfigured, AfterCreateRuntime,
     ExchangeTaken
<1>6. CASE cpc \in {"pivot_root", "start_container_hooks", "exec", "user"}
  BY <1>6 DEF ExchangeInv, AtStartHooks, AtExec, BeforeResult
<1> QED
  BY <1>1, <1>2, <1>3, <1>4, <1>5, <1>6 DEF SetupSteps

\* unexpected_sync_message is never thrown, whatever the hook lists are and
\* whoever dies when.
THEOREM HandshakeCorrect == Spec => []HandshakeAgrees
<1>1. IInv => HandshakeAgrees
  <2> SUFFICES ASSUME IInv PROVE HandshakeAgrees
    OBVIOUS
  <2> USE SeqFacts DEF IInv
  <2>1. ASSUME toC # <<>> PROVE Head(toC) \in CExpects
    BY <2>1 DEF InboxInv, CExpects
  <2>2. ASSUME toR # <<>> PROVE Head(toR) \in RExpects
    <3>1. Head(toR) \in SyncMessage
      BY <2>2, HeadTailProperties DEF TypeOK, SocketType
    <3>2. CASE rpc = "await_ns_request"
      BY <2>2, <3>2, QueueAtRead DEF RExpects
    <3>3. CASE rpc = "await_crt_request"
      BY <2>2, <3>3, QueueAtRead DEF RExpects
    <3>4. CASE rpc = "wait_create_container" /\ Hooks("createContainer") > 0
      BY <2>2, <3>4, QueueAtRead DEF RExpects, ContainerResult, BothResults
    <3>5. CASE rpc = "wait_socket_close"
      BY <2>2, <3>5, QueueAtRead DEF RExpects, StartResult
    <3>6. CASE /\ rpc \notin {"await_ns_request", "await_crt_request", "wait_socket_close"}
               /\ ~(rpc = "wait_create_container" /\ Hooks("createContainer") > 0)
      BY <3>1, <3>6 DEF RExpects
    <3> QED
      BY <3>2, <3>3, <3>4, <3>5, <3>6
  <2> QED
    BY <2>1, <2>2 DEF HandshakeAgrees
<1> QED
  BY <1>1, InductiveInvariant, PTL

\* Hooks that answer the clone's request never run beside its pivot_root.
THEOREM HooksWhileCloneWaits == Spec => []RuntimeHooksWhileCloneWaits
<1>1. IInv => RuntimeHooksWhileCloneWaits
  BY DEF IInv, RuntimeHooksWhileCloneWaits, TypeOK, CloneType, CloneLive, SetupSteps,
     CloneGone, ExchangeInv, AtRequestNs, AtAwaitNs, AtMounts, AtAwaitCrt, AtContainerHooks,
     AtStartHooks, AtExec, AfterConfigured, AfterCreateRuntime, BeforeResult, SocketInv,
     EarlySteps, RuntimeSteps
<1> QED
  BY <1>1, InductiveInvariant, PTL

\* The order of the life cycle's hooks, for lists of any length.
THEOREM HooksInOrder == Spec => []HookOrder
<1>1. IInv => HookOrder
  BY DEF IInv, HookOrder, HookInv, HooksComplete, PastCrt, PastNs, CloneLive, SetupSteps
<1> QED
  BY <1>1, InductiveInvariant, PTL

\* The id maps are written for the container, before it needs them.
THEOREM IdMapsCorrect == Spec => []IdMapsInPlace
<1>1. IInv => IdMapsInPlace
  <2> SUFFICES ASSUME IInv PROVE IdMapsInPlace
    OBVIOUS
  <2>1. \A m \in mapped : m[2] = "clone"
    BY DEF IInv, MapInv, WantedMaps
  <2>2. CASE cpc \in PastNs
    <3>1. mapped = WantedMaps
      BY <2>2 DEF IInv, MapInv, Configured
    <3>2. {m[1] : m \in WantedMaps}
            = {k \in {"gid", "uid"} : cfg.userns /\ IF k = "gid" THEN cfg.gid ELSE cfg.uid}
      <4>1. \A k \in {"gid", "uid"} : <<k, "clone">> \in {"gid", "uid"} \X {"clone"}
        OBVIOUS
      <4> QED
        BY <4>1 DEF WantedMaps
    <3> QED
      BY <2>1, <3>1, <3>2 DEF IdMapsInPlace
  <2>3. CASE cpc \notin PastNs
    BY <2>1, <2>3 DEF IdMapsInPlace, PastNs
  <2> QED
    BY <2>2, <2>3
<1> QED
  BY <1>1, InductiveInvariant, PTL

\* For a live container past the namespace exchange, the last record written is
\* one with its own PID, and one that can be read if it has a user namespace; a
\* record that is gone belongs to a process that was waited for.
THEOREM RecordCorrect == Spec => []RecordNamesContainer
<1>1. IInv => RecordNamesContainer
  BY DEF IInv, RecordNamesContainer, RecordInv, MapInv, Configured, RecordRead, Absent, Record,
     PastNs
<1> QED
  BY <1>1, InductiveInvariant, PTL

\* Poststart hooks never see a container in setup, except for one with
\* startContainer hooks, which has only its exec left.
THEOREM PoststartCorrect == Spec => []PoststartAfterStart
<1>1. IInv => PoststartAfterStart
  BY DEF IInv, PoststartAfterStart, TypeOK, CloneType, CloneLive, SetupSteps,
     CloneGone, ExchangeInv, AtRequestNs, AtAwaitNs, AtMounts, AtAwaitCrt, AtContainerHooks,
     AtStartHooks, AtExec, AfterConfigured, AfterCreateRuntime, BeforeResult, SocketInv,
     EarlySteps, RuntimeSteps
<1> QED
  BY <1>1, InductiveInvariant, PTL

\* The assertions of container::run fail only when a PID was reused.
THEOREM AssertionsHold == Spec => []AbortsOnlyOnPidReuse
<1>1. IInv => AbortsOnlyOnPidReuse
  BY DEF IInv, AbortsOnlyOnPidReuse, RecordInv
<1> QED
  BY <1>1, InductiveInvariant, PTL

-----------------------------------------------------------------------------
\* The ways a step of the detailed specification maps to the abstract one.
LEMMA StaysAlike ==
  ASSUME Life' = Life, UNCHANGED <<wait, record, result>>
  PROVE  UNCHANGED L!lvars
  BY DEF L!lvars

\* Going from one step of the setup to another does not show.
LEMMA SetupStays ==
  ASSUME \/ cpc \in SetupSteps /\ cpc' \in SetupSteps
         \/ cpc' = cpc
  PROVE  Life' = Life
  BY DEF Life, SetupSteps

\* A runtime that ends early is the abstract GiveUp.
LEMMA EndGivesUp ==
  ASSUME IInv, rpc \in RuntimeSteps, NEW how, REnd(how), UNCHANGED <<cpc, wait, record>>
  PROVE  L!GiveUp
  BY SetupStays DEF IInv, ResultInv, REnd, L!GiveUp

\* A clone that ends is the abstract Die.
LEMMA EndDies ==
  ASSUME IInv, cpc \in CloneLive, NEW status \in L!WaitStatus \ {L!Alive}, CEnd(status),
         UNCHANGED <<record, result>>
  PROVE  L!Die
<1>1. Life \in {"setup", "running"} /\ Life' = "dead"
  BY DEF CEnd, Life, CloneLive, SetupSteps
<1> QED
  BY <1>1 DEF CEnd, L!Die

\* The wait statuses the clone ends with are not that of a live process.
LEMMA DeadFacts ==
  /\ L!Signaled \in L!WaitStatus \ {L!Alive}
  /\ \A c \in 0 .. 255 : L!Exited(c) \in L!WaitStatus \ {L!Alive}
  BY DEF L!WaitStatus, L!Signaled, L!Exited, L!Alive

\* Reading a message does not show, or fails the command.
LEMMA ReceiveMaps ==
  ASSUME IInv, rpc \in RuntimeSteps, NEW m, NEW pc, RReceive(m, pc),
         UNCHANGED <<cpc, wait, record>>
  PROVE  L!GiveUp \/ UNCHANGED L!lvars
<1>1. CASE RFail
  BY <1>1, EndGivesUp DEF RFail
<1>2. CASE RGoto(pc)
  BY <1>2, SetupStays, StaysAlike DEF RGoto
<1> QED
  BY <1>1, <1>2 DEF RReceive

\* Sending a message does not show, or fails the command.
LEMMA SendMaps ==
  ASSUME IInv, rpc \in RuntimeSteps, NEW m, NEW pc, RSend(m, pc),
         UNCHANGED <<cpc, wait, record>>
  PROVE  L!GiveUp \/ UNCHANGED L!lvars
<1>1. CASE REnd("killed")
  BY <1>1, EndGivesUp
<1>2. CASE RGoto(pc)
  BY <1>2, SetupStays, StaysAlike DEF RGoto
<1> QED
  BY <1>1, <1>2 DEF RSend

\* Going on in container::run does not show.
LEMMA GotoMaps ==
  ASSUME NEW pc, RGoto(pc), UNCHANGED <<cpc, wait, record>>
  PROVE  UNCHANGED L!lvars
  BY SetupStays, StaysAlike DEF RGoto

\* Going on in the setup does not show.
LEMMA CloneGotoMaps ==
  ASSUME cpc \in SetupSteps, NEW pc \in SetupSteps, CGoto(pc), UNCHANGED <<record, result>>
  PROVE  UNCHANGED L!lvars
  BY SetupStays, StaysAlike DEF CGoto

\* The clone reads a message, or dies.
LEMMA CloneReceiveMaps ==
  ASSUME IInv, cpc \in SetupSteps, NEW m, NEW pc \in SetupSteps, CReceive(m, pc),
         UNCHANGED <<record, result>>
  PROVE  L!Die \/ UNCHANGED L!lvars
<1>1. CASE CEnd(L!Exited(255))
  BY <1>1, EndDies, DeadFacts DEF CloneLive
<1>2. CASE CGoto(pc)
  BY <1>2, CloneGotoMaps
<1> QED
  BY <1>1, <1>2 DEF CReceive

\* The clone sends a message, or dies.
LEMMA CloneSendMaps ==
  ASSUME IInv, cpc \in SetupSteps, NEW m, NEW pc \in SetupSteps, CSend(m, pc),
         UNCHANGED <<record, result>>
  PROVE  L!Die \/ UNCHANGED L!lvars
<1>1. CASE CEnd(L!Exited(255)) \/ CEnd(L!Signaled)
  BY <1>1, EndDies, DeadFacts DEF CloneLive
<1>2. CASE CGoto(pc)
  BY <1>2, CloneGotoMaps
<1> QED
  BY <1>1, <1>2 DEF CSend

\* A hook of the runtime does not show.
LEMMA HookMaps ==
  ASSUME NEW pc, NEW kind, RHook(pc, kind)
  PROVE  UNCHANGED L!lvars
  BY SetupStays, StaysAlike DEF RHook, cvars

\* A hook of the clone does not show.
LEMMA CloneHookMaps ==
  ASSUME NEW pc, NEW kind, CHook(pc, kind)
  PROVE  UNCHANGED L!lvars
  BY SetupStays, StaysAlike DEF CHook, rvars

\* The end of a hook list of the clone does not show, or the clone dies.
LEMMA CloneHooksDoneMaps ==
  ASSUME IInv, NEW pc \in SetupSteps, NEW kind, NEW m, NEW next \in SetupSteps,
         CHooksDone(pc, kind, m, next)
  PROVE  L!Die \/ UNCHANGED L!lvars
<1>1. cpc \in SetupSteps /\ UNCHANGED <<record, result>>
  BY DEF CHooksDone, rvars
<1>2. CASE CGoto(next)
  BY <1>1, <1>2, CloneGotoMaps
<1>3. CASE CSend(m, next)
  BY <1>1, <1>3, CloneSendMaps
<1> QED
  BY <1>2, <1>3 DEF CHooksDone

\* Writing an id map does not show, or fails the command.
LEMMA IdMappingMaps ==
  ASSUME IInv, NEW pc \in RuntimeSteps, NEW kind, NEW wanted, NEW next,
         IdMapping(pc, kind, wanted, next)
  PROVE  L!GiveUp \/ UNCHANGED L!lvars
<1>1. CASE RFail
  BY <1>1, EndGivesUp DEF RFail, IdMapping, cvars
<1>2. CASE RGoto(next)
  BY <1>2, GotoMaps DEF IdMapping, cvars
<1> QED
  BY <1>1, <1>2 DEF IdMapping

\* Every step is one of the life cycle, or leaves it alone.
LEMMA StepRefines == IInv /\ [Next]_vars => [L!LNext]_(L!lvars)
<1> SUFFICES ASSUME IInv, [Next]_vars PROVE L!LNext \/ UNCHANGED L!lvars
  OBVIOUS
<1> USE DEF L!LNext
<1>1. CASE CreateContainer
  BY <1>1, SetupStays
     DEF IInv, RecordInv, ResultInv, SocketInv, EarlySteps, RuntimeSteps, CreateContainer, RGoto,
         Write, Record, Absent, cvars, Life, L!Register, L!Write
<1>2. CASE StartContainerProcess
  BY <1>2 DEF IInv, RecordInv, ResultInv, SocketInv, EarlySteps, RuntimeSteps,
     StartContainerProcess, RGoto, Recorded, Life, L!Clone
<1>3. CASE WriteCreated
  <2>1. CASE RFail \/ REnd("aborted")
    BY <1>3, <2>1, EndGivesUp DEF WriteCreated, Rewrite, RFail, REnd, RGoto, RuntimeSteps, cvars
  <2>2. CASE record.whole /\ Write("created", "clone") /\ RGoto("await_ns_request")
    <3>1. cpc # "none" /\ Life # "none" /\ Life' = Life
      BY <1>3, SetupStays DEF WriteCreated, Rewrite, cvars, Life, IInv, SocketInv, EarlySteps,
         RuntimeSteps, RuntimeEnds
    <3> QED
      BY <1>3, <2>2, <3>1 DEF IInv, RecordInv, ResultInv, RuntimeSteps, WriteCreated, Rewrite,
         RGoto, Write, Record, Recorded, cvars, L!Publish, L!Write
  <2> QED
    BY <1>3, <2>1, <2>2 DEF WriteCreated, Rewrite
<1>4. CASE AwaitNsRequest
  BY <1>4, ReceiveMaps DEF AwaitNsRequest, RuntimeSteps, cvars
<1>5. CASE ConfigureGidMapping
  BY <1>5, IdMappingMaps DEF ConfigureGidMapping, RuntimeSteps
<1>6. CASE ConfigureUidMapping
  BY <1>6, IdMappingMaps DEF ConfigureUidMapping, RuntimeSteps
<1>7. CASE NsConfigured
  BY <1>7, SendMaps DEF NsConfigured, RuntimeSteps, cvars
<1>8. CASE RuntimeHook
  BY <1>8, HookMaps DEF RuntimeHook, PrestartHook, CrtPrestartHook, CreateRuntimeHook,
     PoststartHook, PoststopHook
<1>9. CASE PrestartHooksDone \/ CrtPrestartHooksDone \/ PoststartHooksDone \/ PoststopHooksDone
  BY <1>9, GotoMaps DEF PrestartHooksDone, CrtPrestartHooksDone, PoststartHooksDone,
     PoststopHooksDone, cvars
<1>10. CASE AwaitCrtRequest
  BY <1>10, ReceiveMaps DEF AwaitCrtRequest, RuntimeSteps, cvars
<1>11. CASE CreateRuntimeHooksDone
  BY <1>11, SendMaps DEF CreateRuntimeHooksDone, RHooksDone, RuntimeSteps, cvars
<1>12. CASE WaitCreateContainerResult
  BY <1>12, ReceiveMaps, GotoMaps DEF WaitCreateContainerResult, RuntimeSteps, cvars
<1>13. CASE WaitSocketClose
  <2>1. CASE RFail
    BY <1>13, <2>1, EndGivesUp DEF WaitSocketClose, RFail, RuntimeSteps, cvars
  <2>2. CASE RGoto("poststart_hooks")
    BY <1>13, <2>2, GotoMaps DEF WaitSocketClose, cvars
  <2> QED
    BY <1>13, <2>1, <2>2 DEF WaitSocketClose
<1>14. CASE WaitContainerProcess
  <2>1. rpc = "wait_container_process" /\ Recorded("created", "clone")
    BY <1>14 DEF WaitContainerProcess, IInv, RecordInv, RuntimeSteps, EarlySteps, EndSteps
  <2>2. CASE RFail
    BY <1>14, <2>1, <2>2, EndGivesUp DEF WaitContainerProcess, RFail, REnd, RGoto, RuntimeSteps,
       cvars, Recorded
  <2>3. CASE /\ record.whole /\ cpc = "zombie" /\ cpc' = "reaped"
             /\ UNCHANGED <<wait, record, result>>
    BY <2>1, <2>3 DEF Life, L!Reap, Recorded
  <2> QED
    BY <1>14, <2>2, <2>3 DEF WaitContainerProcess, RGoto
<1>15. CASE WriteStopped
  <2>1. CASE RFail \/ REnd("aborted")
    BY <1>15, <2>1, EndGivesUp DEF WriteStopped, Rewrite, RFail, REnd, RGoto, RuntimeSteps, cvars
  <2>2. CASE record.whole /\ Write("stopped", "clone") /\ RGoto("poststop_hooks")
    <3>1. Life = "reaped" /\ Life' = "reaped"
      BY <1>15 DEF WriteStopped, Rewrite, cvars, Life, IInv, RecordInv, EndSteps
    <3> QED
      BY <1>15, <2>2, <3>1 DEF IInv, RecordInv, ResultInv, RuntimeSteps, WriteStopped, Rewrite,
         RGoto, Write, Record, Recorded, cvars, L!Close, L!Write
  <2> QED
    BY <1>15, <2>1, <2>2 DEF WriteStopped, Rewrite
<1>16. CASE Remove
  <2>1. record.status = "stopped" /\ result = L!Pending
    BY <1>16 DEF Remove, IInv, RecordInv, ResultInv, RuntimeSteps, Recorded
  <2>2. /\ WEXITSTATUS(RawStatus) \in 0 .. 255
        /\ wait.how = "exited" => WEXITSTATUS(RawStatus) = wait.code
    BY WaitCode DEF IInv, TypeOK
  <2>3. record'.status = "absent" /\ record'.whole = TRUE
    BY <1>16 DEF Remove, Record, Absent
  <2>4. Life' = Life /\ UNCHANGED wait
    BY <1>16, SetupStays DEF Remove, cvars
  <2> QED
    BY <1>16, <2>1, <2>2, <2>3, <2>4 DEF Remove, L!Finish
<1>17. CASE RThrows
  BY <1>17, EndGivesUp DEF RThrows, RFail, RuntimeSteps, cvars
<1>18. CASE RKilled
  BY <1>18, EndGivesUp DEF RKilled, RuntimeSteps, cvars
<1>19. CASE CloseInheritedFds
  BY <1>19, CloneGotoMaps DEF CloseInheritedFds, SetupSteps, rvars
<1>20. CASE RequestNs
  BY <1>20, CloneSendMaps DEF RequestNs, SetupSteps, rvars
<1>21. CASE AwaitNs
  BY <1>21, CloneReceiveMaps DEF AwaitNs, SetupSteps, rvars
<1>22. CASE ConfigureMounts \/ PivotRoot
  BY <1>22, CloneGotoMaps DEF ConfigureMounts, PivotRoot, SetupSteps, rvars
<1>23. CASE RequestCrt
  BY <1>23, CloneSendMaps, CloneGotoMaps DEF RequestCrt, SetupSteps, rvars
<1>24. CASE AwaitCrt
  BY <1>24, CloneReceiveMaps DEF AwaitCrt, SetupSteps, rvars
<1>25. CASE CloneHook
  BY <1>25, CloneHookMaps DEF CloneHook, CreateContainerHook, StartContainerHook
<1>26. CASE CreateContainerHooksDone
  BY <1>26, CloneHooksDoneMaps DEF CreateContainerHooksDone, SetupSteps
<1>27. CASE StartContainerHooksDone
  BY <1>27, CloneHooksDoneMaps DEF StartContainerHooksDone, SetupSteps
<1>28. CASE ExecuteProcess
  <2>1. Recorded("created", "clone")
    BY <1>28 DEF ExecuteProcess, IInv, MapInv, Configured, PastNs, CloneLive, SetupSteps
  <2>2. Life = "setup" /\ Life' = "running"
    BY <1>28 DEF ExecuteProcess, CGoto, Life
  <2> QED
    BY <1>28, <2>1, <2>2 DEF ExecuteProcess, CGoto, rvars, Recorded, L!Start
<1>29. CASE CThrows \/ CKilled \/ UserExits
  BY <1>29, EndDies, DeadFacts, ExitCodesAssumption DEF CThrows, CKilled, UserExits, CloneLive, rvars
<1>30. CASE InitReaps
  <2>1. result = L!Error
    BY <1>30 DEF InitReaps, IInv, RecordInv, ResultInv
  <2> QED
    BY <1>30, <2>1 DEF InitReaps, Life, rvars, L!Reap
<1>31. CASE PidReused
  BY <1>31, SetupStays, StaysAlike DEF PidReused, rvars, cvars
<1>32. CASE UNCHANGED vars
  BY <1>32, SetupStays, StaysAlike DEF vars, rvars, cvars
<1> QED
  BY <1>1, <1>2, <1>3, <1>4, <1>5, <1>6, <1>7, <1>8, <1>9, <1>10, <1>11, <1>12, <1>13,
     <1>14, <1>15, <1>16, <1>17, <1>18, <1>19, <1>20, <1>21, <1>22, <1>23, <1>24, <1>25,
     <1>26, <1>27, <1>28, <1>29, <1>30, <1>31, <1>32 DEF Next, RuntimeCode, CloneCode,
     Terminated

\* The initial states are those of the life cycle.
LEMMA InitRefines == Init => L!LInit
  BY DEF Init, L!LInit, Life, Absent, Record

\* container::run implements the life cycle: the record, the process and the
\* result of the command move only as ContainerLifecycle allows.
THEOREM RunRefinesLifecycle == Spec => ImplementsLifecycle
  BY InitRefines, StepRefines, InductiveInvariant, PTL DEF Spec, ImplementsLifecycle, L!LSpec
==============================================================================
