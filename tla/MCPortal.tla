------------------------------ MODULE MCPortal ------------------------------
(***************************************************************************)
(* A small instance of what the portal stores.                             *)
(***************************************************************************)
EXTENDS Portal, TLC

CONSTANTS p1, p2, r1, r2, r3, r4

\* Four requests: a record, its update, its deletion, and its replacement.
PlatformNames == {p1, p2}
PlatformKinds == {"rfs", "nectar", "mytardis"}
FourRequests == {r1, r2, r3, r4}
Symmetry == Permutations({p1, p2}) \cup Permutations(FourRequests)

\* The stages of a directive.
ThreeStages == 1 .. 3

\* Two schemas and an unknown one; a parameter of the second is a text.  Two
\* stages give the same name a value.
DeclaredPairs == {<<"s", "k">>, <<"s", "m">>, <<"t", "k">>}
NumericPairs == {<<"s", "k">>, <<"s", "m">>}
UnknownPairs == {<<"t", "x">>, <<"u", "x">>}
Value(by, form) == [by |-> by, form |-> form]
OwnOfStages ==
  << "s" :> ("k" :> Value(1, "int")),
     "s" :> ("m" :> Value(2, "digits")),
     "t" :> ("k" :> Value(3, "digits")) @@ "s" :> ("m" :> Value(3, "int")) >>
SubmittedSettings ==
  {[schema \in {p[1] : p \in pairs} |->
      [name \in {p[2] : p \in {q \in pairs : q[1] = schema}} |->
         Value(0, form)]] :
     pairs \in SUBSET (DeclaredPairs \cup UnknownPairs),
     form \in {"int", "word"}}

=============================================================================
