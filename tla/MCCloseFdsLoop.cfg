SPECIFICATION Spec
CONSTANT MaxFd = 6
INVARIANT TypeOK
INVARIANT KeptStayOpen
INVARIANT OnlyLoneGapsSurvive
INVARIANT LoopIsCloseOtherFds
PROPERTY LoopEnds
