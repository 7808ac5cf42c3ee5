---------------------------- MODULE CloseFdsLoop ----------------------------
(***************************************************************************)
(* The loop of close_other_fds one close_range call at a time, from any    *)
(* set of open descriptors and any set of kept ones.  close_range may fail *)
(* at every call, and the exception leaves the loop half done.             *)
(***************************************************************************)
EXTENDS CloseFds

VARIABLES
  inherited,  \* the descriptors open when close_other_fds is entered
  except,     \* its argument, the descriptors to keep
  open,       \* the descriptors open now
  mark,       \* the iterator fd of the loop: an element of Marks(except)
  failed      \* close_range failed and std::system_error was thrown

vars == <<inherited, except, open, mark, failed>>

TypeOK ==
  /\ inherited \in SUBSET Fd
  /\ except \in SUBSET Fd
  /\ open \in SUBSET inherited
  /\ mark \in Marks(except)
  /\ failed \in BOOLEAN

Init ==
  /\ inherited \in SUBSET Fd
  /\ except \in SUBSET Fd
  /\ open = inherited
  /\ mark = 0
  /\ failed = FALSE

\* std::next(fd) == tmp.end(): the iterator stands on the last mark.
AtEnd == \A m \in Marks(except) : m <= mark

\* Faulty: there is no end marker, the range above the last kept one stays.
CloseGapNoEndMark ==
  /\ ~failed
  /\ \E next \in Marks(except) :
       /\ Adjacent(except, mark, next)
       /\ open' = IF next = MaxFd THEN open ELSE {fd \in open : ~InGap(mark, next, fd)}
       /\ mark' = next
  /\ UNCHANGED <<inherited, except, failed>>

\* Faulty: the iterator is not advanced to the next mark, or beyond it.
CloseGapStays ==
  /\ ~failed
  /\ \E next \in Marks(except) :
       /\ Adjacent(except, mark, next)
       /\ open' = {fd \in open : ~InGap(mark, next, fd)}
  /\ UNCHANGED <<inherited, except, mark, failed>>

CloseGapOvershoots ==
  /\ ~failed
  /\ \E next \in Marks(except) :
       /\ Adjacent(except, mark, next)
       /\ open' = {fd \in open : ~InGap(mark, next, fd)}
       /\ mark' = next + 1
  /\ UNCHANGED <<inherited, except, failed>>

\* One iteration: close the gap after the current mark unless the guard
\* low >= high skips it, and advance.
CloseGap ==
  /\ ~failed
  /\ \E next \in Marks(except) :
       /\ Adjacent(except, mark, next)
       /\ open' = {fd \in open : ~InGap(mark, next, fd)}
       /\ mark' = next
  /\ UNCHANGED <<inherited, except, failed>>

\* close_range reports an error: the call happens only for a non-empty range.
CloseRangeFails ==
  /\ ~failed
  /\ \E next \in Marks(except) :
       Adjacent(except, mark, next) /\ ~(mark + 1 >= next - 1)
  /\ failed' = TRUE
  /\ UNCHANGED <<inherited, except, open, mark>>

Returned == AtEnd /\ ~failed

Finished == (Returned \/ failed) /\ UNCHANGED vars

Next == CloseGap \/ CloseRangeFails \/ Finished

Spec == Init /\ [][Next]_vars /\ WF_vars(CloseGap)

-----------------------------------------------------------------------------
\* What the caller asked to keep, and standard input, is never closed, at no
\* point of the loop and whether or not a call fails.
KeptStayOpen == \A fd \in inherited : fd \in except \cup {0} => fd \in open

\* A descriptor that should have gone survives a completed loop exactly when
\* it is alone between two marks: the guard low >= high takes a gap of one
\* descriptor (low = high) for an empty one.
OnlyLoneGapsSurvive ==
  Returned =>
    \A fd \in inherited \ (except \cup {0}) :
      fd \in open <=> /\ fd - 1 \in Marks(except)
                      /\ fd + 1 \in Marks(except)

\* The loop computes the function the other modules use for it.
LoopIsCloseOtherFds == Returned => open = CloseOtherFds(inherited, except)

\* The loop ends: it returns or throws.
LoopEnds == <>(Returned \/ failed)
=============================================================================
