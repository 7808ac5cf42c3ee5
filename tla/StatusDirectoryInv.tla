------------------------- MODULE StatusDirectoryInv -------------------------
(***************************************************************************)
(* The inductive invariant of StatusDirectory, for callers that keep IDs   *)
(* exclusive: what the place of a run says about the files its names lead  *)
(* to, whatever earlier runs have left there.                              *)
(***************************************************************************)
EXTENDS StatusDirectory

Writing  == {"open", "fill", "rename"}
Settled  == LivePcs \ Writing

\* The three records of a run, in the order it writes them.
Creating(r) == Record(r, Pid(r, "runtime"), "creating")
Created(r)  == Record(r, Pid(r, "container"), "created")
Stopped(r)  == Record(r, Pid(r, "container"), "stopped")
Drafts(r)   == {Creating(r), Created(r), Stopped(r)}
Order       == [creating |-> 1, created |-> 2, stopped |-> 3]

OneRunPerID ==
  \A r, other \in Runs : IdOf[r] = IdOf[other] /\ Live(r) /\ Live(other) => r = other

\* Names lead to files of their own ID, and no two to the same file.
NamesApart ==
  \A id \in IDs :
    /\ json[id] # NoFile => IdOf[json[id][1]] = id
    /\ tmp[id] # NoFile => IdOf[tmp[id][1]] = id
    /\ json[id] # NoFile => json[id] # tmp[id]

\* Whoever's record it is, it is whole, and of a run with that ID.
WholeInv ==
  \A id \in IDs : json[id] # NoFile =>
    \E r \in Runs : /\ IdOf[r] = id /\ pc[r] # "idle"
                    /\ OnDisk(id) \in Drafts(r) \cup {Lost(r)}

\* The writes that run r has yet to begin, whose files cannot exist.
Upcoming(r) ==
  {s \in Statuses :
     \/ pc[r] = "idle"
     \/ Live(r) /\ Order[s] > Order[draft[r].status]
     \/ pc[r] = "open" /\ s = draft[r].status}

FilesFresh(r) ==
  \A s \in Upcoming(r) : \A id \in IDs : json[id] # <<r, s>> /\ tmp[id] # <<r, s>>

\* What a run is writing, or has written last.
DraftInv(r) ==
  /\ Live(r) => draft[r] \in Drafts(r)
  /\ pc[r] \in {"clone", "publish"} => draft[r] = Creating(r)
  /\ pc[r] \in {"setup", "started", "wait", "close"} => draft[r] = Created(r)
  /\ pc[r] = "remove" => draft[r] = Stopped(r)
  /\ pc[r] = "close" => proc[r] = "reaped"

\* Its temporary file, from the opening to the rename.
TempInv(r) ==
  /\ pc[r] # "fill" => handle[r] = NoFile
  /\ pc[r] = "fill" => handle[r] = tmp[IdOf[r]] /\ tmp[IdOf[r]] # NoFile
  /\ pc[r] = "rename" =>
       tmp[IdOf[r]] # NoFile /\ content[tmp[IdOf[r]]] \in {draft[r], Lost(r)}

\* Its record: the draft once it is written, the one before while it is not.
DiskInv(r) ==
  /\ pc[r] \in Settled => OnDisk(IdOf[r]) \in {draft[r], Lost(r)}
  /\ pc[r] \in Writing /\ draft[r] = Creating(r) => OnDisk(IdOf[r]).run # r
  /\ pc[r] \in Writing /\ draft[r] = Created(r) => OnDisk(IdOf[r]) = Creating(r)
  /\ pc[r] \in Writing /\ draft[r] = Stopped(r) => OnDisk(IdOf[r]) = Created(r)

RunInv(r) == FilesFresh(r) /\ DraftInv(r) /\ TempInv(r) /\ DiskInv(r)

\* A process whose PID was given away stays gone, for a run clones once; and
\* only such a PID can make an assertion of container::run fail.
NotCloned(r) ==
  pc[r] = "idle" \/ (pc[r] \in Writing \cup {"clone"} /\ draft[r] = Creating(r))

TakenInv ==
  /\ \A r \in Runs : NotCloned(r) => proc[r] = "none"
  /\ \A pid \in taken : Gone(pid)
  /\ \A r \in Runs : pc[r] = "aborted" => Pid(r, "container") \in taken

DirInv ==
  /\ TypeOK /\ OneRunPerID /\ NamesApart /\ WholeInv
  /\ \A r \in Runs : RunInv(r)

\* Nothing is lost while there is space.
LostInv == ~DiskMayFill => \A f \in Files : content[f].status # "unreadable"

-----------------------------------------------------------------------------
(* The commands that read the directory.                                   *)

\* The containers whose record could be read since the command began.
Sure(c) == initial[c] \ vanished[c]

\* list looks at no entry before it is readable or after it is forgotten;
\* this part holds whether or not callers keep IDs exclusive.
ListInv(c) ==
  /\ at[c] = "idle" => found[c] = {}
  /\ at[c] \in {"scan", "status"} => \A id \in Sure(c) : Readable(id)
  /\ at[c] \in {"scan", "status"} => \A id \in found[c] : Readable(id) \/ id \in vanished[c]
  /\ at[c] = "scan" => \A id \in Sure(c) : id \in found[c] \/ <<id, "json">> \in names[c]
  /\ at[c] = "status" => Sure(c) \subseteq found[c] /\ want[c] = "list"
  /\ at[c] \in {"read", "enter", "astray"} => want[c] # "list"
  /\ at[c] = "done" /\ want[c] = "list" => Sure(c) \subseteq out[c]
  /\ at[c] = "failed" /\ want[c] = "list" => found[c] \cap vanished[c] # {}

\* exec has the PID of a process of the ID it was asked for.
ExecInv(c) ==
  /\ at[c] \in {"enter", "done", "astray"} /\ want[c] # "list" =>
       IdOf[target[c].run] = want[c]
  /\ at[c] = "astray" => target[c] \in taken

\* A run that has written has taken over the temporary file of its ID.
ReturnInv(r) == pc[r] \in Settled => tmp[IdOf[r]] = NoFile

CommandInv ==
  /\ \A c \in Clients : ListInv(c)
  /\ Exclusive => /\ TakenInv
                  /\ \A c \in Clients : ExecInv(c)
                  /\ \A r \in Runs : ReturnInv(r)
=============================================================================
