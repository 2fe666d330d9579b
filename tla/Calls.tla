------------------------------- MODULE Calls --------------------------------
(***************************************************************************)
(* A call of a pure function as a step: the first and only step chooses    *)
(* the function and its input, and the properties relate the outcome to    *)
(* the input.  The inputs are constants, so that what TLC checks on a pool *)
(* can be proved for every pool that satisfies the assumptions.  A         *)
(* property that speaks of one outcome several times binds it with         *)
(* \A outcome \in {Call}, so that TLC computes it once per input.          *)
(***************************************************************************)
EXTENDS Integers

VARIABLE input      \* [call, ...]: the call made and its arguments

Idle == [call |-> "none"]
Init == input = Idle

\* A count that may be missing.
Optional(x) == x \subseteq Nat /\ \A n, m \in x : n = m
=============================================================================
