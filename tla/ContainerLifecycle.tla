------------------------- MODULE ContainerLifecycle -------------------------
(***************************************************************************)
(* What linyaps_box::container promises to whoever runs `ll-box run`: the  *)
(* life of the container's process, the record `ll-box list` shows for it, *)
(* and the result of the command.  Nothing here speaks of sockets, hooks   *)
(* or synchronisation messages; ContainerRun is shown to implement it.     *)
(*                                                                         *)
(* A record that is written may turn out unreadable (a full disk): the     *)
(* container may go on, but no other record of it follows.                 *)
(***************************************************************************)
EXTENDS Naturals

VARIABLES
  life,     \* the container's process: none, setup, running, dead, reaped
  wait,     \* how it ended, once it is dead
  listed,   \* the record under the root: absent, creating, created, stopped
  readable, \* whether that record can be read
  result    \* the command: pending, an exit code, or an error

lvars == <<life, wait, listed, readable, result>>

Alive      == [how |-> "alive", code |-> 0]
Signaled   == [how |-> "signaled", code |-> 0]
Exited(c)  == [how |-> "exited", code |-> c]
WaitStatus == {Alive, Signaled} \cup {Exited(c) : c \in 0 .. 255}

Pending    == [how |-> "pending", code |-> 0]
Error      == [how |-> "error", code |-> 0]
Code(c)    == [how |-> "code", code |-> c]

LInit ==
  /\ life = "none"
  /\ wait = Alive
  /\ listed = "absent" /\ readable = TRUE
  /\ result = Pending

\* The next record, if there is room for it.
Write(status) == listed' = status /\ readable' \in BOOLEAN

\* The container is recorded before its process exists.
Register ==
  /\ life = "none" /\ listed = "absent" /\ result = Pending
  /\ Write("creating")
  /\ UNCHANGED <<life, wait, result>>

Clone ==
  /\ life = "none" /\ listed = "creating" /\ result = Pending
  /\ life' = "setup"
  /\ UNCHANGED <<wait, listed, readable, result>>

\* The record names the process from now on.
Publish ==
  /\ life # "none" /\ listed = "creating" /\ readable /\ result = Pending
  /\ Write("created")
  /\ UNCHANGED <<life, wait, result>>

\* The user's program runs only in a container that was recorded as created.
Start ==
  /\ life = "setup" /\ listed = "created"
  /\ life' = "running"
  /\ UNCHANGED <<wait, listed, readable, result>>

Die ==
  /\ life \in {"setup", "running"}
  /\ life' = "dead"
  /\ wait' \in WaitStatus \ {Alive}
  /\ UNCHANGED <<listed, readable, result>>

\* The runtime waits for the process that the record names; an init process
\* does when the runtime has given up.
Reap ==
  /\ life = "dead"
  /\ (listed = "created" /\ readable) \/ result = Error
  /\ life' = "reaped"
  /\ UNCHANGED <<wait, listed, readable, result>>

Close ==
  /\ life = "reaped" /\ listed = "created" /\ readable /\ result = Pending
  /\ Write("stopped")
  /\ UNCHANGED <<life, wait, result>>

\* A container leaves the list once its process is gone, and the command
\* returns what that process exited with.  Nothing says what it returns for a
\* process that was killed.
Finish ==
  /\ listed = "stopped" /\ result = Pending
  /\ listed' = "absent" /\ readable' = TRUE
  /\ \E code \in 0 .. 255 :
       /\ wait.how = "exited" => code = wait.code
       /\ result' = Code(code)
  /\ UNCHANGED <<life, wait>>

\* The command fails, and what it recorded stays.
GiveUp ==
  /\ result = Pending
  /\ result' = Error
  /\ UNCHANGED <<life, wait, listed, readable>>

LNext ==
  \/ Register \/ Clone \/ Publish \/ Start \/ Die
  \/ Reap \/ Close \/ Finish \/ GiveUp

LSpec == LInit /\ [][LNext]_lvars
=============================================================================
