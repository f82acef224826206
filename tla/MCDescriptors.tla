---------------------------- MODULE MCDescriptors ----------------------------
(***************************************************************************)
(* Instances of Descriptors for TLC.                                       *)
(***************************************************************************)
EXTENDS Descriptors, TLC

CONSTANTS c1, c2
MCConns == {c1, c2}
MCRequests == [c \in MCConns |-> 1]
MCClosers == {c1}
MCLimits == {8, 12}
MCProcs == 1..3
MCMain == 1
=============================================================================
