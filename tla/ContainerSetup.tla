---------------------------- MODULE ContainerSetup ----------------------------
(***************************************************************************)
(* From the configuration file to the container's program: what is parsed  *)
(* (ConfigParser) is mounted (Mounter), and with the rootfs as its root    *)
(* the clone takes on the user of the configuration and executes the       *)
(* program (execute_process in src/linyaps_box/container.cpp).             *)
(***************************************************************************)
EXTENDS Mounter

VARIABLES
  user,    \* the clone's credentials
  process  \* where execute_process is

uvars == <<user, process>>
vars  == <<pvars, mvars, uvars>>

Credentials == [uid : Nat, gid : Nat, groups : SUBSET Nat]

UserTypeOK ==
  /\ user \in Credentials
  /\ process \in {"chdir", "setgid", "setgroups", "setuid", "execvpe", "running", "failed"}

TypeOK == ParserTypeOK /\ TableTypeOK /\ MounterTypeOK /\ UserTypeOK

\* The clone is root, in its user namespace or outside.
Root == [uid |-> 0, gid |-> 0, groups |-> {0}]

Init == MounterInit /\ user = Root /\ process = "chdir"

-----------------------------------------------------------------------------
(* execute_process, of doc.process.                                        *)

Privileged == user.uid = 0

Executing(call) == stage = "done" /\ process = call

Succeeds(next) == process' = next /\ UNCHANGED <<pvars, mvars>>

ChangeDirectory == Executing("chdir") /\ Succeeds("setgid") /\ UNCHANGED user

\* The group is set to the number of the user; process.gid is not used.
SetGid ==
  /\ Executing("setgid") /\ Privileged
  /\ user' = [user EXCEPT !.gid = doc.process.uid]
  /\ Succeeds("setgroups")

\* Faulty: its result is not looked at.
SetGroupsUnchecked ==
  /\ Executing("setgroups")
  /\ \/ UNCHANGED user
     \/ \E gids \in doc.process.additionalGids : user' = [user EXCEPT !.groups = gids]
  /\ Succeeds("setuid")

SetGroups ==
  /\ Executing("setgroups")
  /\ \/ doc.process.additionalGids = {} /\ UNCHANGED user
     \/ /\ Privileged
        /\ \E gids \in doc.process.additionalGids : user' = [user EXCEPT !.groups = gids]
  /\ Succeeds("setuid")

SetUid ==
  /\ Executing("setuid") /\ Privileged
  /\ user' = [user EXCEPT !.uid = doc.process.uid]
  /\ Succeeds("execvpe")

Execvpe == Executing("execvpe") /\ Succeeds("running") /\ UNCHANGED user

\* Any of the calls may fail; one that lacks the privilege it needs does.
ProcessThrows ==
  /\ stage = "done" /\ process \notin {"running", "failed"}
  /\ process' = "failed"
  /\ UNCHANGED <<pvars, mvars, user>>

ExecuteProcess ==
  ChangeDirectory \/ SetGid \/ SetGroups \/ SetUid \/ Execvpe

-----------------------------------------------------------------------------
Next ==
  \/ MounterNext /\ UNCHANGED uvars
  \/ ExecuteProcess
  \/ ProcessThrows

Spec == Init /\ [][Next]_vars

\* The program's own steps are taken until it ends; calls need not fail.
Fairness == WF_vars((MounterSteps /\ UNCHANGED uvars) \/ ExecuteProcess)
FairSpec == Spec /\ Fairness

-----------------------------------------------------------------------------
\* The container's program never runs with root's credentials in part: its user
\* is the one asked for; its supplementary groups are those asked for, and root's
\* only if none are listed; and under another user than root it is not in root's
\* group either.  (Which group that is, GroupAsConfigured says.)
CredentialsComplete ==
  process = "running" =>
    /\ user.uid = doc.process.uid
    /\ user.groups \in IF doc.process.additionalGids = {} THEN {Root.groups}
                       ELSE doc.process.additionalGids
    /\ doc.process.uid # 0 => user.gid # Root.gid

\* What the configuration's process.user.gid, which the parser demands, means:
\* the program runs in that group.  It runs in the one with the user's number.
GroupAsConfigured == process = "running" => user.gid = doc.process.gid

\* Whatever is asked and whatever fails, the clone comes to an end: its program
\* runs, or it has given up.
SetupEnds ==
  <>(parser = "failed" \/ stage = "failed" \/ process \in {"running", "failed"})
=============================================================================
