------------------------- MODULE ContainerRun_proofs -------------------------
(***************************************************************************)
(* Type correctness of ContainerRun, and facts about the operators its     *)
(* actions are built from.                                                 *)
(***************************************************************************)
EXTENDS ContainerRunInv, SequenceTheorems, TLAPS

\* The fields of a configuration, from the assumption on Configs.
LEMMA ConfigFacts ==
  ASSUME cfg \in Configs
  PROVE  /\ cfg.userns \in BOOLEAN /\ cfg.gid \in BOOLEAN /\ cfg.uid \in BOOLEAN
         /\ \A k \in HookKind : Hooks(k) \in Nat
         /\ cfg.firstFd \in Nat
<1>1. cfg \in ConfigType
  BY ConfigsAssumption
<1> QED
  BY <1>1 DEF ConfigType, Hooks

\* Closing descriptors keeps the socket pair well typed.
LEMMA LeaveType ==
  ASSUME SocketType, NEW p, Leave(p)
  PROVE  SocketType'
<1>1. first' \in SUBSET Proc /\ second' \in SUBSET {"clone"}
  BY DEF SocketType, Leave
<1>2. <<>> \in Seq(SyncMessage)
  OBVIOUS
<1>3. toR' \in Seq(SyncMessage)
  BY <1>2, toR' = IF first' = {} THEN <<>> ELSE toR DEF SocketType, Leave
<1>4. toC' \in Seq(SyncMessage)
  BY <1>2, toC' = IF second' = {} THEN <<>> ELSE toC DEF SocketType, Leave
<1>5. rreset' \in BOOLEAN
  BY DEF SocketType, Leave
<1> QED
  BY <1>1, <1>3, <1>4, <1>5 DEF SocketType

\* The runtime ends: types of its own variables and of the socket pair.
LEMMA REndType ==
  ASSUME RuntimeType, SocketType, NEW how \in RuntimeEnds, REnd(how)
  PROVE  RuntimeType' /\ SocketType'
  BY LeaveType DEF RuntimeType, REnd

\* The runtime goes to another of its steps.
LEMMA RGotoType ==
  ASSUME RuntimeType, NEW pc \in RuntimeSteps, RGoto(pc)
  PROVE  RuntimeType'
  BY DEF RuntimeType, RGoto

\* socket >> byte at the runtime keeps the types.
LEMMA RReceiveType ==
  ASSUME RuntimeType, SocketType, NEW m, NEW pc \in RuntimeSteps, RReceive(m, pc)
  PROVE  RuntimeType' /\ SocketType'
<1>1. CASE RFail
  BY <1>1, REndType DEF RFail, RuntimeEnds
<1>2. CASE toR # <<>> /\ toR' = Tail(toR) /\ RGoto(pc) /\ UNCHANGED <<first, second, toC, rreset>>
  BY <1>2, RGotoType DEF SocketType
<1> QED
  BY <1>1, <1>2 DEF RReceive

\* socket << message at the runtime keeps the types.
LEMMA RSendType ==
  ASSUME RuntimeType, SocketType, NEW m \in SyncMessage, NEW pc \in RuntimeSteps, RSend(m, pc)
  PROVE  RuntimeType' /\ SocketType'
<1>1. CASE REnd("killed")
  BY <1>1, REndType DEF RuntimeEnds
<1>2. CASE toC' = Append(toC, m) /\ RGoto(pc) /\ UNCHANGED <<first, second, toR, rreset>>
  BY <1>2, RGotoType DEF SocketType
<1> QED
  BY <1>1, <1>2 DEF RSend

\* The clone ends: types of its own variables and of the socket pair.
LEMMA CEndType ==
  ASSUME CloneType, SocketType, NEW status \in L!WaitStatus, CEnd(status)
  PROVE  CloneType' /\ SocketType'
  BY LeaveType DEF CloneType, CEnd

\* The wait statuses the clone can end with.
LEMMA WaitFacts == L!Signaled \in L!WaitStatus /\ \A c \in 0 .. 255 : L!Exited(c) \in L!WaitStatus
  BY DEF L!WaitStatus

\* The clone goes to another of its steps.
LEMMA CGotoType ==
  ASSUME CloneType, NEW pc \in CloneLive, CGoto(pc)
  PROVE  CloneType'
  BY DEF CloneType, CGoto

\* socket >> byte at the clone keeps the types.
LEMMA CReceiveType ==
  ASSUME CloneType, SocketType, NEW m, NEW pc \in CloneLive, CReceive(m, pc)
  PROVE  CloneType' /\ SocketType'
<1>1. CASE CEnd(L!Exited(255))
  BY <1>1, CEndType, WaitFacts
<1>2. CASE toC # <<>> /\ toC' = Tail(toC) /\ CGoto(pc) /\ UNCHANGED <<first, second, toR, rreset>>
  BY <1>2, CGotoType DEF SocketType
<1> QED
  BY <1>1, <1>2 DEF CReceive

\* socket << message at the clone keeps the types.
LEMMA CSendType ==
  ASSUME CloneType, SocketType, NEW m \in SyncMessage, NEW pc \in CloneLive, CSend(m, pc)
  PROVE  CloneType' /\ SocketType'
<1>1. CASE CEnd(L!Exited(255)) \/ CEnd(L!Signaled)
  BY <1>1, CEndType, WaitFacts
<1>2. CASE toR' = Append(toR, m) /\ CGoto(pc) /\ UNCHANGED <<first, second, toC, rreset>>
  BY <1>2, CGotoType DEF SocketType
<1> QED
  BY <1>1, <1>2 DEF CSend

\* A hook of the runtime keeps the types.
LEMMA RHookType ==
  ASSUME TypeOK, NEW pc, NEW kind \in HookKind, RHook(pc, kind)
  PROVE  TypeOK'
<1>1. ran[kind] \in Nat
  BY DEF TypeOK, HistoryType
<1>2. HistoryType'
  BY <1>1 DEF TypeOK, HistoryType, RHook
<1>3. RuntimeType'
  BY DEF TypeOK, RuntimeType, RHook
<1> QED
  BY <1>2, <1>3 DEF TypeOK, RHook, CloneType, SocketType, RecordType, cvars, sock

\* A hook of the clone keeps the types.
LEMMA CHookType ==
  ASSUME TypeOK, NEW pc, NEW kind \in HookKind, CHook(pc, kind)
  PROVE  TypeOK'
<1>1. ran[kind] \in Nat
  BY DEF TypeOK, HistoryType
<1>2. HistoryType'
  BY <1>1 DEF TypeOK, HistoryType, CHook
<1>3. CloneType'
  BY DEF TypeOK, CloneType, CHook
<1> QED
  BY <1>2, <1>3 DEF TypeOK, CHook, RuntimeType, SocketType, RecordType, rvars, sock

\* The end of a hook list of the clone keeps the types.
LEMMA CHooksDoneType ==
  ASSUME CloneType, SocketType, NEW pc, NEW kind, NEW m \in SyncMessage,
         NEW next \in CloneLive, CHooksDone(pc, kind, m, next)
  PROVE  CloneType' /\ SocketType'
<1>1. CASE CSend(m, next)
  BY <1>1, CSendType
<1>2. CASE CGoto(next) /\ UNCHANGED sock
  BY <1>2, CGotoType DEF SocketType, sock
<1> QED
  BY <1>1, <1>2 DEF CHooksDone

\* newgidmap and newuidmap keep the types.
LEMMA IdMappingType ==
  ASSUME TypeOK, NEW pc, NEW kind \in {"gid", "uid"}, NEW wanted,
         NEW next \in RuntimeSteps, IdMapping(pc, kind, wanted, next)
  PROVE  TypeOK'
<1>1. RuntimeType' /\ SocketType'
  <2>1. CASE RFail
    BY <2>1, REndType DEF TypeOK, RFail, RuntimeEnds
  <2>2. CASE RGoto(next) /\ UNCHANGED sock
    BY <2>2, RGotoType DEF TypeOK, SocketType, sock
  <2> QED
    BY <2>1, <2>2 DEF IdMapping
<1>2. HistoryType'
  <2>1. record.pid \in Proc \cup {"nobody"}
    BY DEF TypeOK, RecordType
  <2>2. mapped' = mapped \/ mapped' = mapped \cup {<<kind, record.pid>>}
    BY DEF IdMapping
  <2>3. <<kind, record.pid>> \in {"gid", "uid"} \X (Proc \cup {"nobody"})
    BY <2>1
  <2> QED
    BY <2>2, <2>3 DEF TypeOK, HistoryType, IdMapping
<1> QED
  BY <1>1, <1>2 DEF TypeOK, IdMapping, CloneType, RecordType, cvars

\* Every message that is sent is a sync_message.
LEMMA MessageFacts ==
  /\ "REQUEST_CONFIGURE_NAMESPACE" \in SyncMessage
  /\ "NAMESPACE_CONFIGURED" \in SyncMessage
  /\ "REQUEST_CREATERUNTIME_HOOKS" \in SyncMessage
  /\ "CREATE_RUNTIME_HOOKS_EXECUTED" \in SyncMessage
  /\ "CREATE_CONTAINER_HOOKS_EXECUTED" \in SyncMessage
  /\ "START_CONTAINER_HOOKS_EXECUTED" \in SyncMessage
  BY DEF SyncMessage

\* A step of the runtime alone, and of the clone alone.
LEMMA RuntimeOnly ==
  ASSUME TypeOK, RuntimeType', SocketType', UNCHANGED <<cfg, cvars, record, pidTaken, hist>>
  PROVE  TypeOK'
  BY DEF TypeOK, CloneType, RecordType, HistoryType, cvars, hist

\* A step that changes nothing but the clone and the socket pair.
LEMMA CloneOnly ==
  ASSUME TypeOK, CloneType', SocketType', UNCHANGED <<cfg, rvars, record, pidTaken, hist>>
  PROVE  TypeOK'
  BY DEF TypeOK, RuntimeType, RecordType, HistoryType, rvars, hist

\* What container::run writes is a status record, whole or not.
LEMMA RecordFacts ==
  ASSUME NEW s \in {"absent", "creating", "created", "stopped"}, NEW p \in Proc \cup {"nobody"},
         NEW w \in BOOLEAN
  PROVE  Record(s, p, w) \in [status : {"absent", "creating", "created", "stopped"},
                              pid : Proc \cup {"nobody"}, whole : BOOLEAN]
  BY DEF Record

LEMMA WriteType ==
  ASSUME RecordType, NEW s \in {"creating", "created", "stopped"}, NEW p \in Proc,
         Write(s, p), UNCHANGED pidTaken
  PROVE  RecordType'
<1>1. PICK w \in BOOLEAN : record' = Record(s, p, w)
  BY DEF Write
<1> QED
  BY <1>1, RecordFacts DEF RecordType

\* Rewriting the record keeps the types, whichever way it ends.
LEMMA RewriteType ==
  ASSUME TypeOK, NEW pc, NEW expected, NEW status \in {"creating", "created", "stopped"},
         NEW next \in RuntimeSteps, Rewrite(pc, expected, status, next)
  PROVE  TypeOK'
<1>1. RuntimeType' /\ SocketType' /\ RecordType'
  <2>1. CASE Write(status, "clone") /\ RGoto(next) /\ UNCHANGED sock
    BY <2>1, RGotoType, WriteType DEF Rewrite, TypeOK, SocketType, sock, Proc
  <2>2. CASE REnd("aborted") /\ UNCHANGED record
    BY <2>2, REndType DEF Rewrite, TypeOK, RuntimeEnds, RecordType
  <2>3. CASE RFail /\ UNCHANGED record
    BY <2>3, REndType DEF Rewrite, TypeOK, RFail, RuntimeEnds, RecordType
  <2> QED
    BY <2>1, <2>2, <2>3 DEF Rewrite
<1> QED
  BY <1>1 DEF Rewrite, TypeOK, CloneType, HistoryType, cvars, hist

\* The exit code is a byte, whatever the wait status.
LEMMA WaitCode ==
  ASSUME CloneType
  PROVE  /\ WEXITSTATUS(RawStatus) \in 0 .. 255
         /\ wait.how = "exited" => WEXITSTATUS(RawStatus) = wait.code
<1>1. CASE wait.how = "exited"
  <2>1. wait.code \in 0 .. 255
    BY <1>1 DEF CloneType, L!WaitStatus, L!Alive, L!Signaled, L!Exited
  <2>2. \A c \in 0 .. 255 : ((256 * c) \div 256) % 256 = c
    OBVIOUS
  <2> QED
    BY <1>1, <2>1, <2>2 DEF WEXITSTATUS, RawStatus
<1>2. CASE wait.how # "exited"
  <2>1. (9 \div 256) % 256 \in 0 .. 255
    OBVIOUS
  <2> QED
    BY <1>2, <2>1 DEF WEXITSTATUS, RawStatus
<1> QED
  BY <1>1, <1>2

\* Every step keeps the types.
THEOREM TypeStep == TypeOK /\ [Next]_vars => TypeOK'
<1> SUFFICES ASSUME TypeOK, [Next]_vars PROVE TypeOK'
  OBVIOUS
<1>1. CASE CreateContainer
  <2>1. RuntimeType'
    BY <1>1, RGotoType DEF CreateContainer, TypeOK, RuntimeSteps
  <2>2. RecordType'
    BY <1>1, WriteType DEF CreateContainer, TypeOK, Proc
  <2> QED
    BY <1>1, <2>1, <2>2 DEF CreateContainer, TypeOK, CloneType, SocketType, HistoryType,
       cvars, sock, hist
<1>2. CASE StartContainerProcess
  <2>1. RuntimeType'
    BY <1>2, RGotoType DEF StartContainerProcess, TypeOK, RuntimeSteps
  <2>2. CloneType' /\ SocketType'
    BY <1>2 DEF StartContainerProcess, TypeOK, CloneType, SocketType, Proc, CloneLive, SetupSteps
  <2> QED
    BY <1>2, <2>1, <2>2 DEF StartContainerProcess, TypeOK, RecordType, HistoryType, hist
<1>3. CASE WriteCreated
  BY <1>3, RewriteType DEF WriteCreated, RuntimeSteps
<1>4. CASE AwaitNsRequest
  <2>1. RuntimeType' /\ SocketType'
    BY <1>4, RReceiveType DEF AwaitNsRequest, TypeOK, RuntimeSteps
  <2> QED
    BY <1>4, <2>1, RuntimeOnly DEF AwaitNsRequest
<1>5. CASE ConfigureGidMapping
  BY <1>5, IdMappingType DEF ConfigureGidMapping, RuntimeSteps
<1>6. CASE ConfigureUidMapping
  BY <1>6, IdMappingType DEF ConfigureUidMapping, RuntimeSteps
<1>7. CASE NsConfigured
  <2>1. RuntimeType' /\ SocketType'
    BY <1>7, RSendType, MessageFacts DEF NsConfigured, TypeOK, RuntimeSteps
  <2> QED
    BY <1>7, <2>1, RuntimeOnly DEF NsConfigured
<1>8. CASE PrestartHook
  BY <1>8, RHookType DEF PrestartHook, HookKind
<1>9. CASE PrestartHooksDone
  <2>1. RuntimeType'
    BY <1>9, RGotoType DEF PrestartHooksDone, TypeOK, RuntimeSteps
  <2> QED
    BY <1>9, <2>1, RuntimeOnly DEF PrestartHooksDone, TypeOK, SocketType, sock
<1>10. CASE AwaitCrtRequest
  <2>1. RuntimeType' /\ SocketType'
    BY <1>10, RReceiveType DEF AwaitCrtRequest, TypeOK, RuntimeSteps
  <2> QED
    BY <1>10, <2>1, RuntimeOnly DEF AwaitCrtRequest
<1>11. CASE CrtPrestartHook
  BY <1>11, RHookType DEF CrtPrestartHook, HookKind
<1>12. CASE CrtPrestartHooksDone
  <2>1. RuntimeType'
    BY <1>12, RGotoType DEF CrtPrestartHooksDone, TypeOK, RuntimeSteps
  <2> QED
    BY <1>12, <2>1, RuntimeOnly DEF CrtPrestartHooksDone, TypeOK, SocketType, sock
<1>13. CASE CreateRuntimeHook
  BY <1>13, RHookType DEF CreateRuntimeHook, HookKind
<1>14. CASE CreateRuntimeHooksDone
  <2>1. RuntimeType' /\ SocketType'
    BY <1>14, RSendType, MessageFacts DEF CreateRuntimeHooksDone, TypeOK, RuntimeSteps
  <2> QED
    BY <1>14, <2>1, RuntimeOnly DEF CreateRuntimeHooksDone
<1>15. CASE WaitCreateContainerResult
  <2>1. RuntimeType' /\ SocketType'
    <3>1. CASE RGoto("wait_socket_close") /\ UNCHANGED sock
      BY <3>1, RGotoType DEF TypeOK, RuntimeSteps, SocketType, sock
    <3>2. CASE RReceive("CREATE_CONTAINER_HOOKS_EXECUTED", "wait_socket_close")
      BY <3>2, RReceiveType DEF TypeOK, RuntimeSteps
    <3> QED
      BY <1>15, <3>1, <3>2 DEF WaitCreateContainerResult
  <2> QED
    BY <1>15, <2>1, RuntimeOnly DEF WaitCreateContainerResult
<1>16. CASE WaitSocketClose
  <2>1. RuntimeType' /\ SocketType'
    <3>1. CASE RFail
      BY <3>1, REndType DEF TypeOK, RFail, RuntimeEnds
    <3>2. CASE /\ toR' = IF toR = <<>> THEN toR ELSE Tail(toR)
               /\ RGoto("poststart_hooks")
               /\ UNCHANGED <<first, second, toC, rreset>>
      BY <3>2, RGotoType DEF TypeOK, RuntimeSteps, SocketType
    <3> QED
      BY <1>16, <3>1, <3>2 DEF WaitSocketClose
  <2> QED
    BY <1>16, <2>1, RuntimeOnly DEF WaitSocketClose
<1>17. CASE PoststartHook
  BY <1>17, RHookType DEF PoststartHook, HookKind
<1>18. CASE PoststartHooksDone
  <2>1. RuntimeType'
    BY <1>18, RGotoType DEF PoststartHooksDone, TypeOK, RuntimeSteps
  <2> QED
    BY <1>18, <2>1, RuntimeOnly DEF PoststartHooksDone, TypeOK, SocketType, sock
<1>19. CASE WaitContainerProcess
  <2>1. RuntimeType' /\ SocketType'
    <3>1. CASE RFail
      BY <3>1, REndType DEF TypeOK, RFail, RuntimeEnds
    <3>2. CASE RGoto("write_stopped") /\ UNCHANGED sock
      BY <3>2, RGotoType DEF TypeOK, RuntimeSteps, SocketType, sock
    <3> QED
      BY <1>19, <3>1, <3>2 DEF WaitContainerProcess
  <2>2. CloneType'
    BY <1>19 DEF WaitContainerProcess, TypeOK, CloneType, cvars
  <2> QED
    BY <1>19, <2>1, <2>2 DEF WaitContainerProcess, TypeOK, RecordType, HistoryType, hist
<1>20. CASE WriteStopped
  BY <1>20, RewriteType DEF WriteStopped, RuntimeSteps
<1>21. CASE PoststopHook
  BY <1>21, RHookType DEF PoststopHook, HookKind
<1>22. CASE PoststopHooksDone
  <2>1. RuntimeType'
    BY <1>22, RGotoType DEF PoststopHooksDone, TypeOK, RuntimeSteps
  <2> QED
    BY <1>22, <2>1, RuntimeOnly DEF PoststopHooksDone, TypeOK, SocketType, sock
<1>23. CASE Remove
  <2>1. SocketType'
    BY <1>23, LeaveType DEF Remove, TypeOK
  <2>2. result' \in {L!Code(c) : c \in 0 .. 255}
    BY <1>23, WaitCode DEF Remove, TypeOK
  <2>3. RuntimeType'
    BY <1>23, <2>2 DEF Remove, RuntimeType, RuntimeEnds
  <2>4. RecordType'
    BY <1>23, RecordFacts DEF Remove, TypeOK, RecordType, Absent
  <2> QED
    BY <1>23, <2>1, <2>3, <2>4 DEF Remove, TypeOK, CloneType, HistoryType, cvars, hist
<1>24. CASE RThrows
  <2>1. RuntimeType' /\ SocketType'
    BY <1>24, REndType DEF RThrows, RFail, TypeOK, RuntimeEnds
  <2> QED
    BY <1>24, <2>1, RuntimeOnly DEF RThrows
<1>25. CASE RKilled
  <2>1. RuntimeType' /\ SocketType'
    BY <1>25, REndType DEF RKilled, TypeOK, RuntimeEnds
  <2> QED
    BY <1>25, <2>1, RuntimeOnly DEF RKilled
<1>26. CASE CloseInheritedFds
  <2>1. CloneType'
    BY <1>26, CGotoType DEF CloseInheritedFds, TypeOK, CloneLive, SetupSteps
  <2>2. first' = first \/ first' = first \ {"clone"}
    BY <1>26 DEF CloseInheritedFds
  <2>3. toR' = toR \/ toR' = <<>>
    BY <1>26 DEF CloseInheritedFds
  <2>4. SocketType'
    BY <1>26, <2>2, <2>3 DEF CloseInheritedFds, TypeOK, SocketType
  <2> QED
    BY <1>26, <2>1, <2>4, CloneOnly DEF CloseInheritedFds
<1>27. CASE RequestNs
  <2>1. CloneType' /\ SocketType'
    BY <1>27, CSendType, MessageFacts DEF RequestNs, TypeOK, CloneLive, SetupSteps
  <2> QED
    BY <1>27, <2>1, CloneOnly DEF RequestNs
<1>28. CASE AwaitNs
  <2>1. CloneType' /\ SocketType'
    BY <1>28, CReceiveType DEF AwaitNs, TypeOK, CloneLive, SetupSteps
  <2> QED
    BY <1>28, <2>1, CloneOnly DEF AwaitNs
<1>29. CASE ConfigureMounts
  <2>1. CloneType'
    BY <1>29, CGotoType DEF ConfigureMounts, TypeOK, CloneLive, SetupSteps
  <2> QED
    BY <1>29, <2>1, CloneOnly DEF ConfigureMounts, TypeOK, SocketType, sock
<1>30. CASE RequestCrt
  <2>1. CloneType' /\ SocketType'
    <3>1. CASE CGoto("create_container_hooks") /\ UNCHANGED sock
      BY <3>1, CGotoType DEF TypeOK, CloneLive, SetupSteps, SocketType, sock
    <3>2. CASE CSend("REQUEST_CREATERUNTIME_HOOKS", "await_crt")
      BY <3>2, CSendType, MessageFacts DEF TypeOK, CloneLive, SetupSteps
    <3> QED
      BY <1>30, <3>1, <3>2 DEF RequestCrt
  <2> QED
    BY <1>30, <2>1, CloneOnly DEF RequestCrt
<1>31. CASE AwaitCrt
  <2>1. CloneType' /\ SocketType'
    BY <1>31, CReceiveType DEF AwaitCrt, TypeOK, CloneLive, SetupSteps
  <2> QED
    BY <1>31, <2>1, CloneOnly DEF AwaitCrt
<1>32. CASE CreateContainerHook
  BY <1>32, CHookType DEF CreateContainerHook, HookKind
<1>33. CASE CreateContainerHooksDone
  <2>1. CloneType' /\ SocketType'
    BY <1>33, CHooksDoneType, MessageFacts DEF CreateContainerHooksDone, TypeOK, CloneLive, SetupSteps
  <2> QED
    BY <1>33, <2>1, CloneOnly DEF CreateContainerHooksDone, CHooksDone
<1>34. CASE PivotRoot
  <2>1. CloneType'
    BY <1>34, CGotoType DEF PivotRoot, TypeOK, CloneLive, SetupSteps
  <2> QED
    BY <1>34, <2>1, CloneOnly DEF PivotRoot, TypeOK, SocketType, sock
<1>35. CASE StartContainerHook
  BY <1>35, CHookType DEF StartContainerHook, HookKind
<1>36. CASE StartContainerHooksDone
  <2>1. CloneType' /\ SocketType'
    BY <1>36, CHooksDoneType, MessageFacts DEF StartContainerHooksDone, TypeOK, CloneLive, SetupSteps
  <2> QED
    BY <1>36, <2>1, CloneOnly DEF StartContainerHooksDone, CHooksDone
<1>37. CASE ExecuteProcess
  <2>1. CloneType' /\ SocketType'
    BY <1>37, CGotoType, LeaveType DEF ExecuteProcess, TypeOK, CloneLive
  <2> QED
    BY <1>37, <2>1, CloneOnly DEF ExecuteProcess
<1>38. CASE CThrows
  <2>1. CloneType' /\ SocketType'
    BY <1>38, CEndType, WaitFacts, ExitCodesAssumption DEF CThrows, TypeOK
  <2> QED
    BY <1>38, <2>1, CloneOnly DEF CThrows
<1>39. CASE CKilled
  <2>1. CloneType' /\ SocketType'
    BY <1>39, CEndType, WaitFacts, ExitCodesAssumption DEF CKilled, TypeOK
  <2> QED
    BY <1>39, <2>1, CloneOnly DEF CKilled
<1>40. CASE UserExits
  <2>1. CloneType' /\ SocketType'
    BY <1>40, CEndType, WaitFacts, ExitCodesAssumption DEF UserExits, TypeOK
  <2> QED
    BY <1>40, <2>1, CloneOnly DEF UserExits
<1>41. CASE InitReaps
  <2>1. CloneType'
    BY <1>41 DEF InitReaps, TypeOK, CloneType
  <2> QED
    BY <1>41, <2>1, CloneOnly DEF InitReaps, TypeOK, SocketType, sock
<1>42. CASE PidReused
  BY <1>42 DEF PidReused, TypeOK, RuntimeType, CloneType, SocketType, RecordType, HistoryType,
     rvars, cvars, sock, hist
<1>43. CASE UNCHANGED vars
  BY <1>43 DEF vars, TypeOK, RuntimeType, CloneType, SocketType, RecordType, HistoryType,
     rvars, cvars, sock, hist
<1> QED
  BY <1>1, <1>2, <1>3, <1>4, <1>5, <1>6, <1>7, <1>8, <1>9, <1>10, <1>11, <1>12,
     <1>13, <1>14, <1>15, <1>16, <1>17, <1>18, <1>19, <1>20, <1>21, <1>22, <1>23,
     <1>24, <1>25, <1>26, <1>27, <1>28, <1>29, <1>30, <1>31, <1>32, <1>33, <1>34,
     <1>35, <1>36, <1>37, <1>38, <1>39, <1>40, <1>41, <1>42, <1>43 DEF Next,
     RuntimeCode, RuntimeHook, CloneCode, CloneHook, Terminated

\* The initial states are well typed.
LEMMA TypeInit == Init => TypeOK
<1> SUFFICES ASSUME Init PROVE TypeOK
  OBVIOUS
<1>1. RuntimeType
  BY DEF Init, RuntimeType, RuntimeSteps
<1>2. CloneType
  BY DEF Init, CloneType, L!WaitStatus
<1>3. SocketType
  <2>1. <<>> \in Seq(SyncMessage)
    OBVIOUS
  <2> QED
    BY <2>1 DEF Init, SocketType
<1>4. RecordType
  BY RecordFacts DEF Init, RecordType, Absent, Record
<1>5. HistoryType
  BY DEF Init, HistoryType
<1> QED
  BY <1>1, <1>2, <1>3, <1>4, <1>5 DEF Init, TypeOK

\* Every variable keeps its type in every run of every set of configurations.
THEOREM TypeCorrect == Spec => []TypeOK
  BY TypeInit, TypeStep, PTL DEF Spec

-----------------------------------------------------------------------------
\* The queues of the socket pair are short: what the operators on sequences
\* do to one or two messages.
LEMMA AppendOne ==
  ASSUME NEW m, NEW n
  PROVE  Append(<<m>>, n) = <<m, n>>
<1> DEFINE S == {m, n}
           a == Append(<<m>>, n)
<1>1. <<m>> \in Seq(S) /\ n \in S /\ <<m, n>> \in Seq(S)
  OBVIOUS
<1>2. a \in Seq(S) /\ Len(a) = 2 /\ a[1] = m /\ a[2] = n
  BY <1>1, AppendProperties, Len(<<m>>) = 1
<1>3. Len(<<m, n>>) = 2 /\ <<m, n>>[1] = m /\ <<m, n>>[2] = n
  OBVIOUS
<1> HIDE DEF a
<1>4. \A i \in 1 .. Len(a) : a[i] = <<m, n>>[i]
  BY <1>2, <1>3
<1> QED
  BY <1>1, <1>2, <1>3, <1>4, SeqEqual DEF a

\* A sequence of one or two messages is known by its head and its tail.
LEMMA SeqFacts ==
  /\ \A m : /\ <<m>> # <<>> /\ Head(<<m>>) = m /\ Tail(<<m>>) = <<>>
            /\ Append(<<>>, m) = <<m>>
  /\ \A m, n : /\ <<m, n>> # <<>> /\ Head(<<m, n>>) = m /\ Tail(<<m, n>>) = <<n>>
               /\ Append(<<m>>, n) = <<m, n>>
               /\ <<m>> = <<n>> => m = n
<1>1. ASSUME NEW m
      PROVE  /\ <<m>> # <<>> /\ Head(<<m>>) = m /\ Tail(<<m>>) = <<>>
             /\ Append(<<>>, m) = <<m>>
  OBVIOUS
<1>2. ASSUME NEW m, NEW n
      PROVE  /\ <<m, n>> # <<>> /\ Head(<<m, n>>) = m /\ Tail(<<m, n>>) = <<n>>
             /\ <<m>> = <<n>> => m = n
  OBVIOUS
<1> QED
  BY <1>1, <1>2, AppendOne
==============================================================================
