---------------------------- MODULE MCPlacement ----------------------------
(***************************************************************************)
(* Small instances of Placement.  Applications a1, b1 are of student s1    *)
(* and b2 is of s2; a cfg that puts b2 into Legacy makes it an application  *)
(* older than the contract step.                                           *)
(***************************************************************************)
EXTENDS PlacementLiveness, TLC

CONSTANTS s1, s2, s3, a1, b1, b2, r1, p1, p2, m1, m2

OwnerOf == [a \in Apps |-> IF a \in {a1, b1} THEN s1 ELSE s2]
OneSeat == [r \in Rooms |-> 1]
\* No room is restricted.
AllSuit == Students \X Rooms

ProtocolsAlike == Permutations(Protocols) \cup Permutations(Members)
=============================================================================
