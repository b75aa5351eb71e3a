---------------------------- MODULE MCAlgorithms ----------------------------
(***************************************************************************)
(* Small instances of the algorithms.  One of the platforms has a name     *)
(* that looks like a number; of the four criteria two are the same in      *)
(* whole units, and one is written with an exponent.                       *)
(***************************************************************************)
EXTENDS Algorithms

\* Values of threshold: a configuration file cannot write them down.
OneOrTwoNumbers == {<<1>>, <<2>>, <<1, 1>>, <<1, 2>>}

=============================================================================
