-------------------------- MODULE CloseFds_proofs --------------------------
(***************************************************************************)
(* What is proved of close_other_fds: for any bound on descriptors, any    *)
(* set inherited and any set kept.                                         *)
(***************************************************************************)
EXTENDS CloseFdsLoop, TLAPS

\* The marks are descriptors or the two ends.
LEMMA MarksFacts ==
  ASSUME NEW E \in SUBSET Fd
  PROVE  /\ Marks(E) \subseteq 0 .. MaxFd /\ 0 \in Marks(E) /\ MaxFd \in Marks(E)
         /\ \A m \in Marks(E) : m \in Nat
  BY MaxFdAssumption DEF Marks, Fd

\* The pair of descriptors of a runtime that has no other one open: of the two
\* ends of the socket, the one that is not kept is closed in the clone unless
\* it is descriptor 3, alone between standard error and the kept end.
THEOREM LowSocketSurvives ==
  ASSUME NEW f \in Nat, 3 <= f, f + 1 < MaxFd
  PROVE  f \in CloseOtherFds(0 .. f + 1, {0, 1, 2, f + 1}) <=> f = 3
<1> DEFINE E == {0, 1, 2, f + 1}
<1>1. Marks(E) = {0, 1, 2, f + 1, MaxFd} /\ MaxFd \in Nat
  BY MaxFdAssumption DEF Marks
<1>2. Adjacent(E, 2, f + 1)
  BY <1>1 DEF Adjacent
<1>3. \A a, b \in Marks(E) : Adjacent(E, a, b) /\ a < f /\ f < b => a = 2 /\ b = f + 1
  BY <1>1 DEF Adjacent
<1>4. f \in 0 .. f + 1
  OBVIOUS
<1>5. CASE f = 3
  BY <1>1, <1>3, <1>4, <1>5 DEF CloseOtherFds, InGap
<1>6. CASE f # 3
  BY <1>1, <1>2, <1>6 DEF CloseOtherFds, InGap
<1> QED
  BY <1>5, <1>6

-----------------------------------------------------------------------------
\* The loop so far: exactly the gaps below the current mark are closed, and
\* every descriptor below it is a mark or lies in one of those gaps.
Closed ==
  open = {fd \in inherited : \A a, b \in Marks(except) :
                               Adjacent(except, a, b) /\ b <= mark => ~InGap(a, b, fd)}
Covered ==
  \A fd \in 0 .. mark :
    \/ fd \in Marks(except)
    \/ \E a, b \in Marks(except) : Adjacent(except, a, b) /\ a < fd /\ fd < b
LoopInv == TypeOK /\ Closed /\ Covered

\* LoopInv holds before the first call.
LEMMA LoopInit == Init => LoopInv
<1> SUFFICES ASSUME Init PROVE LoopInv
  OBVIOUS
<1> USE DEF Init
<1>1. TypeOK
  BY MarksFacts DEF TypeOK
<1>2. \A a, b \in Marks(except) : ~(Adjacent(except, a, b) /\ b <= mark)
  BY MarksFacts DEF Adjacent
<1>3. Closed
  BY <1>2 DEF Closed
<1>4. Covered
  BY MarksFacts DEF Covered
<1> QED
  BY <1>1, <1>3, <1>4 DEF LoopInv

\* One iteration, or a call that fails, keeps LoopInv.
LEMMA LoopStep == LoopInv /\ [Next]_vars => LoopInv'
<1> SUFFICES ASSUME LoopInv, [Next]_vars PROVE LoopInv'
  OBVIOUS
<1>1. CASE CloseGap
  <2>1. PICK next \in Marks(except) :
          /\ Adjacent(except, mark, next)
          /\ open' = {fd \in open : ~InGap(mark, next, fd)}
          /\ mark' = next
    BY <1>1 DEF CloseGap
  <2>2. UNCHANGED <<inherited, except, failed>>
    BY <1>1 DEF CloseGap
  <2>3. \A m \in Marks(except) : m \in Nat
    BY MarksFacts DEF LoopInv, TypeOK
  <2>4. mark \in Nat /\ next \in Nat /\ mark < next /\ mark \in Marks(except)
    BY <2>1, <2>3 DEF Adjacent, LoopInv, TypeOK
  <2>5. Marks(except') = Marks(except)
    BY <2>2
  <2>6. TypeOK'
    BY <2>1, <2>2, <2>5 DEF LoopInv, TypeOK
  <2>7. \A a, b \in Marks(except) :
          Adjacent(except, a, b) /\ b <= next <=>
            (Adjacent(except, a, b) /\ b <= mark) \/ (a = mark /\ b = next)
    BY <2>1, <2>3, <2>4 DEF Adjacent
  <2>8. Closed'
    BY <2>1, <2>2, <2>4, <2>5, <2>7 DEF LoopInv, Closed
  <2>9. Covered'
    <3> SUFFICES ASSUME NEW fd \in 0 .. next, fd \notin Marks(except)
                 PROVE  \E a, b \in Marks(except) :
                          Adjacent(except, a, b) /\ a < fd /\ fd < b
      BY <2>1, <2>2 DEF Covered
    <3>1. CASE fd <= mark
      BY <2>4, <3>1 DEF LoopInv, Covered
    <3>2. CASE ~(fd <= mark)
      <4>1. mark < fd /\ fd < next
        BY <2>4, <3>2
      <4> QED
        BY <2>1, <2>4, <4>1
    <3> QED
      BY <3>1, <3>2
  <2> QED
    BY <2>6, <2>8, <2>9 DEF LoopInv
<1>2. CASE CloseRangeFails
  BY <1>2 DEF CloseRangeFails, LoopInv, TypeOK, Closed, Covered
<1>3. CASE UNCHANGED vars
  BY <1>3 DEF vars, LoopInv, TypeOK, Closed, Covered
<1> QED
  BY <1>1, <1>2, <1>3 DEF Next, Finished

\* LoopInv holds at every point of the loop.
THEOREM LoopInvariant == Spec => []LoopInv
  BY LoopInit, LoopStep, PTL DEF Spec

\* The iterator stays on the marks, and nothing is opened by the loop.
THEOREM LoopTypeCorrect == Spec => []TypeOK
<1>1. LoopInv => TypeOK
  BY DEF LoopInv
<1> QED
  BY <1>1, LoopInvariant, PTL

\* The loop returns on the end marker.
LEMMA AtEndIsMaxFd ==
  ASSUME TypeOK, Returned
  PROVE  mark = MaxFd
  BY MarksFacts, MaxFdAssumption DEF TypeOK, Returned, AtEnd

\* The descriptors the caller asked to keep survive every call of the loop.
THEOREM KeptDescriptors == Spec => []KeptStayOpen
<1>1. LoopInv => KeptStayOpen
  <2> SUFFICES ASSUME LoopInv, NEW fd \in inherited, fd \in except \cup {0}
               PROVE  fd \in open
    BY DEF KeptStayOpen
  <2>1. fd \in Marks(except) /\ fd \in Nat /\ \A m \in Marks(except) : m \in Nat
    BY MarksFacts DEF LoopInv, TypeOK, Marks
  <2>2. \A a, b \in Marks(except) : Adjacent(except, a, b) => ~InGap(a, b, fd)
    BY <2>1 DEF Adjacent, InGap
  <2> QED
    BY <2>2 DEF LoopInv, Closed
<1> QED
  BY <1>1, LoopInvariant, PTL

\* The loop computes CloseOtherFds, which ContainerRun uses for it.
THEOREM LoopComputes == Spec => []LoopIsCloseOtherFds
<1>1. LoopInv => LoopIsCloseOtherFds
  <2> SUFFICES ASSUME LoopInv, Returned PROVE open = CloseOtherFds(inherited, except)
    BY DEF LoopIsCloseOtherFds
  <2>1. mark = MaxFd
    BY AtEndIsMaxFd DEF LoopInv
  <2>2. \A b \in Marks(except) : b <= mark
    BY <2>1, MarksFacts DEF LoopInv, TypeOK
  <2> QED
    BY <2>2 DEF LoopInv, Closed, CloseOtherFds
<1> QED
  BY <1>1, LoopInvariant, PTL

\* What a completed loop leaves open beside the kept descriptors is alone
\* between two of them, and all of those are left.
THEOREM LoneGapsSurvive == Spec => []OnlyLoneGapsSurvive
<1>1. LoopInv => OnlyLoneGapsSurvive
  <2> SUFFICES ASSUME LoopInv, Returned, NEW fd \in inherited \ (except \cup {0})
               PROVE  fd \in open <=> fd - 1 \in Marks(except) /\ fd + 1 \in Marks(except)
    BY DEF OnlyLoneGapsSurvive
  <2>1. mark = MaxFd /\ MaxFd \in Nat
    BY AtEndIsMaxFd, MaxFdAssumption DEF LoopInv
  <2>2. fd \in Nat /\ 0 < fd /\ fd < MaxFd /\ fd \notin Marks(except)
    BY MaxFdAssumption DEF LoopInv, TypeOK, Fd, Marks
  <2>3. \A m \in Marks(except) : m \in Nat /\ m <= mark
    BY <2>1, MarksFacts DEF LoopInv, TypeOK
  <2>4. PICK a \in Marks(except), b \in Marks(except) :
          Adjacent(except, a, b) /\ a < fd /\ fd < b
    BY <2>1, <2>2 DEF LoopInv, Covered
  <2>5. fd \in open <=> ~InGap(a, b, fd)
    <3>1. \A c, d \in Marks(except) :
            Adjacent(except, c, d) /\ InGap(c, d, fd) => c = a /\ d = b
      BY <2>2, <2>3, <2>4 DEF Adjacent, InGap
    <3> QED
      BY <2>3, <2>4, <3>1 DEF LoopInv, Closed
  <2>6. InGap(a, b, fd) <=> ~(a = fd - 1 /\ b = fd + 1)
    BY <2>2, <2>3, <2>4 DEF InGap
  <2>7. fd - 1 \in Marks(except) => a = fd - 1
    BY <2>2, <2>3, <2>4 DEF Adjacent
  <2>8. fd + 1 \in Marks(except) => b = fd + 1
    BY <2>2, <2>3, <2>4 DEF Adjacent
  <2> QED
    BY <2>4, <2>5, <2>6, <2>7, <2>8
<1> QED
  BY <1>1, LoopInvariant, PTL
=============================================================================
