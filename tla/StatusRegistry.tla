--------------------------- MODULE StatusRegistry ---------------------------
(***************************************************************************)
(* What linyaps_box::status_directory promises (src/linyaps_box/           *)
(* status_directory.h): a map from container IDs to status records, each   *)
(* operation atomic, in which the record of an ID goes through the life of *)
(* one run before the next run with that ID begins.  StatusDirectory, with *)
(* its files and temporary files, is shown to implement it.                *)
(***************************************************************************)
CONSTANTS Runs, IDs, IdOf, MayLose

VARIABLES
  reg,    \* the record of each ID: its status and the run it is of
  ended   \* the runs that are over

rvars == <<reg, ended>>

NoRecord == [run |-> "none", status |-> "absent"]
Of(r, status) == [run |-> r, status |-> status]

RInit ==
  /\ reg = [id \in IDs |-> NoRecord]
  /\ ended = {}

\* The record of run r goes from one status to the next, or is lost when the
\* file system has no room for it.
Put(r, status) ==
  /\ \/ reg' = [reg EXCEPT ![IdOf[r]] = Of(r, status)]
     \/ MayLose /\ reg' = [reg EXCEPT ![IdOf[r]] = Of(r, "unreadable")]
  /\ UNCHANGED ended

\* A run takes over the name of one that has ended, whatever that one left.
Create(r) ==
  /\ r \notin ended
  /\ reg[IdOf[r]] = NoRecord \/ reg[IdOf[r]].run \in ended
  /\ Put(r, "creating")

Publish(r) == r \notin ended /\ reg[IdOf[r]] = Of(r, "creating") /\ Put(r, "created")

Close(r) == r \notin ended /\ reg[IdOf[r]] = Of(r, "created") /\ Put(r, "stopped")

\* The last thing a run does is to remove its record.
Remove(r) ==
  /\ r \notin ended
  /\ reg[IdOf[r]] \in {Of(r, "stopped"), Of(r, "unreadable")}
  /\ reg' = [reg EXCEPT ![IdOf[r]] = NoRecord]
  /\ ended' = ended \cup {r}

\* A run that fails or is killed leaves its record behind.
End(r) ==
  /\ r \notin ended
  /\ ended' = ended \cup {r}
  /\ UNCHANGED reg

RNext == \E r \in Runs : Create(r) \/ Publish(r) \/ Close(r) \/ Remove(r) \/ End(r)

RSpec == RInit /\ [][RNext]_rvars
=============================================================================
