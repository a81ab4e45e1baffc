---------------------------- MODULE MC_Quorate ----------------------------
(***************************************************************************)
(* isRemovalQuorate over every input drawn from small ranges, with int and *)
(* uint shrunk to Width bits so that int(minQuorum) can reach the sign     *)
(* bit.  The inputs are fixed in the initial state; Next stutters.         *)
(***************************************************************************)
EXTENDS Integers, AutopilotTypes

\* Bits of the model's int and uint.
Width == 3

VARIABLES voters, minQuorum

vars == <<voters, minQuorum>>

\* voters is a potential-voter count; minQuorum any Config.MinQuorum.
Init ==
    /\ voters \in 0..2 ^ (Width - 1) - 1
    /\ minQuorum \in 0..2 ^ Width - 1

Next == UNCHANGED vars

Spec == Init /\ [][Next]_vars

\* Spec sections 4.6 and 8: removalQuorate(voters, minQuorum) is
\* voters - 1 >= minQuorum for every uint minQuorum; in particular a
\* MinQuorum larger than the cluster never lets a potential voter go.
QuorateMatchesSpec ==
    isRemovalQuorateAt(voters, minQuorum, Width) = (voters - 1 >= minQuorum)

=============================================================================
