------------------------------ MODULE CloseFds ------------------------------
(***************************************************************************)
(* container_ns::close_other_fds (src/linyaps_box/container.cpp): the      *)
(* clone of the runtime closes what it inherited, except a few kept        *)
(* descriptors, with one close_range call per gap between the kept ones.   *)
(*                                                                         *)
(* MaxFd stands for ~0U, the end marker the code inserts above every       *)
(* descriptor a process can have.                                          *)
(***************************************************************************)
EXTENDS Naturals

CONSTANT MaxFd

ASSUME MaxFdAssumption == MaxFd \in Nat \ {0}

Fd == 0 .. (MaxFd - 1)

\* The sorted set the loop walks: the kept descriptors and two end markers.
Marks(except) == except \cup {0, MaxFd}

\* b follows a in that set: std::next(a) = b.
Adjacent(except, a, b) ==
  /\ a \in Marks(except)
  /\ b \in Marks(except)
  /\ a < b
  /\ \A m \in Marks(except) : ~(a < m /\ m < b)

\* Faulty: the range begins at the kept descriptor, not after it.
InGapFromKept(a, b, fd) == ~(a + 1 >= b - 1) /\ a <= fd /\ fd <= b - 1

\* Faulty: the guard skips a gap of two descriptors as well.
InGapOfThree(a, b, fd) ==
  /\ ~(a + 1 >= b - 2)
  /\ a + 1 <= fd
  /\ fd <= b - 1

\* fd lies in [low, high] for the gap between a and b; the code skips the
\* call when low >= high.
InGap(a, b, fd) ==
  /\ ~(a + 1 >= b - 1)
  /\ a + 1 <= fd
  /\ fd <= b - 1

\* What is left of the descriptors open when the whole loop has run.
CloseOtherFds(open, except) ==
  {fd \in open : \A a, b \in Marks(except) :
                    Adjacent(except, a, b) => ~InGap(a, b, fd)}
=============================================================================
