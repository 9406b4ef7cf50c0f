---------------------------- MODULE MCDurations ------------------------------
(* Small instances of Durations for TLC. *)
EXTENDS Durations

CONSTANTS a1, a2, a3

Symmetry == Permutations({a1, a2, a3})

T(ms) == [name |-> "t", ms |-> ms]
U(ms) == [name |-> "u", ms |-> ms]

\* With a ratio of 3 and a delta of 10: 5 and 15 meet both thresholds exactly, 4 and 14
\* the delta alone, 5 and 14 neither, 1 and 5 the ratio alone.
Bases == {<<T(4), T(5)>>, <<T(5), T(4)>>, <<U(1), T(0)>>}
Currents == {<<T(14)>>, <<U(5), T(15)>>}

NoneOrTwoPacks == {<<>>, <<"smoke", "ui">>}
=============================================================================
