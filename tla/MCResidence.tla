---------------------------- MODULE MCResidence ----------------------------
(***************************************************************************)
(* A small instance of Residence: two students who are alike, one room     *)
(* that the staff create, change and delete and one that stays as it is;   *)
(* a first and a last course, and a restriction to the first one.          *)
(***************************************************************************)
EXTENDS Residence, TLC

CONSTANTS s1, s2, r1, r2, t1, e1, first, last

OpenOrFirst == {Profiles, {first}}
AllFirst == [s \in Students |-> first]
GrowOlder == [p \in Profiles |-> last]
Alike == Permutations(Students)
=============================================================================
