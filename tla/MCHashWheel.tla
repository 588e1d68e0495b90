---------------------------- MODULE MCHashWheel ----------------------------
(* Instances of HashWheel for TLC. *)
EXTENDS HashWheel, TLC

\* A leaf of interval 2 below a wheel of interval 5: like the seconds below
\* the minutes, the leaf's slots cover less than one interval above it.
TwoWheels == <<5, 2>>
=============================================================================
