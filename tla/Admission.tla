----------------------------- MODULE Admission -----------------------------
(***************************************************************************)
(* What the placement of a student promises, without tables or requests:   *)
(* an application is cleared by a manager, then granted by the committee,  *)
(* and only then settled.  It never goes back and skips nothing; at any    *)
(* time its owner may withdraw it, and that is the end of it.              *)
(***************************************************************************)
CONSTANT Apps

VARIABLE phase

Phase == {"filed", "cleared", "granted", "settled", "withdrawn"}

TypeOK == phase \in [Apps -> Phase]

Init == phase = [a \in Apps |-> "filed"]

Clear(a) ==
  /\ phase[a] = "filed"
  /\ phase' = [phase EXCEPT ![a] = "cleared"]

\* One decision of the committee grants every application before it.
Grant(as) ==
  /\ \A a \in as : phase[a] = "cleared"
  /\ phase' = [a \in Apps |-> IF a \in as THEN "granted" ELSE phase[a]]

Settle(a) ==
  /\ phase[a] = "granted"
  /\ phase' = [phase EXCEPT ![a] = "settled"]

Withdraw(a) == phase' = [phase EXCEPT ![a] = "withdrawn"]

Next ==
  \/ \E a \in Apps : Clear(a) \/ Settle(a) \/ Withdraw(a)
  \/ \E as \in SUBSET Apps : Grant(as)

Spec == Init /\ [][Next]_phase
=============================================================================
