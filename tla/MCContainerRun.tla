--------------------------- MODULE MCContainerRun ---------------------------
(* Small sets of configurations for TLC. *)
EXTENDS ContainerRunInv

IdMaps == {[userns |-> FALSE, gid |-> FALSE, uid |-> FALSE],
           [userns |-> TRUE, gid |-> FALSE, uid |-> TRUE],
           [userns |-> TRUE, gid |-> TRUE, uid |-> TRUE]}

Cfg(hooks, ids, fd) ==
  [hooks |-> hooks, userns |-> ids.userns, gid |-> ids.gid, uid |-> ids.uid,
   firstFd |-> fd]

NoHooks == [k \in HookKind |-> 0]

\* Each list empty or with one hook, each way to map ids, the socket pair
\* right above standard error and one above it.
EveryList ==
  {Cfg(hooks, ids, fd) :
     hooks \in [HookKind -> 0 .. 1], ids \in IdMaps, fd \in {3, 4}}

\* Lists of two hooks, one kind at a time beside lists of one.
LongLists ==
  {Cfg([[k \in HookKind |-> 1] EXCEPT ![two] = 2], ids, 4) :
     two \in HookKind, ids \in IdMaps}

AllConfigs == EveryList \cup LongLists
LowSocketConfigs == {Cfg(NoHooks, ids, 3) : ids \in IdMaps}
PoststopConfigs == {Cfg([NoHooks EXCEPT !["poststop"] = 1], ids, 4) : ids \in IdMaps}
=============================================================================
