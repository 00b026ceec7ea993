-------------------------- MODULE MCApplyDelivery --------------------------
(***************************************************************************)
(* Two plans for the same people.  Both create the first person, each under *)
(* an id of its own; the first one also updates the record of the second    *)
(* person, whose desired state carries the id.                             *)
(***************************************************************************)
EXTENDS ApplyDelivery, TLC

CONSTANTS a, b, i1, i2, i3, p1, p2

It(key, id, secret, kept, named) ==
  [key |-> key, id |-> id, secret |-> secret, kept |-> kept, named |-> named]

TwoPlans ==
  p1 :> <<It(a, i1, TRUE, FALSE, FALSE), It(b, i2, FALSE, FALSE, TRUE)>> @@
  p2 :> <<It(a, i3, TRUE, TRUE, FALSE)>>

============================================================================
