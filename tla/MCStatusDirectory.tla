-------------------------- MODULE MCStatusDirectory --------------------------
(* Runs with one ID or with two, and one command that lists the containers *)
(* or executes something in one of them.                                   *)
EXTENDS StatusDirectoryInv

OneID  == [r1 |-> "a", r2 |-> "a"]
TwoIDs == [r1 |-> "a", r2 |-> "b"]

\* The large run: beside r1, one run with the same ID or one with another.
Shared == [r1 |-> "a", r2 |-> "a", r3 |-> "b"]

\* Its bounds: not both of them take part, and as long as the one with another
\* ID does, the disk has space and no PID is used again.
TwoTakePart == pc["r2"] = "idle" \/ pc["r3"] = "idle"
CompanionRunsWell ==
  pc["r3"] # "idle" =>
    taken = {} /\ \A f \in Files : content[f].status # "unreadable"
=============================================================================
