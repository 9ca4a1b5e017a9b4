----------------------------- MODULE MCPresence -----------------------------
(***************************************************************************)
(* Model checking of Presence: b changes between two statuses that a can   *)
(* be shown, the only one of a does not fit the game of b.                 *)
(***************************************************************************)
EXTENDS Presence

CONSTANTS a, b, s1, s2

MCSettable == [p \in Profiles |-> IF p = a THEN {s1} ELSE {s1, s2}]

MCUnfit == {<<s1, b>>}
=============================================================================
