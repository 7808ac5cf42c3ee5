--------------------------- MODULE MCCloseFdsLoop ---------------------------
(* Every set of inherited and every set of kept descriptors below MaxFd. *)
EXTENDS CloseFdsLoop
=============================================================================
