----------------------------- MODULE MCXingoRpc -----------------------------
(* Instances of XingoRpc for TLC. *)
EXTENDS XingoRpc

CONSTANTS c1, c2, d1

TwoCalls   == {c1, c2}
OneCast    == {d1}
NoCasts    == {}
AllReqs    == Reqs

\* One call's target is unknown to the callee.
KnownButC2 == Reqs \ {c2}
=============================================================================
