------------------------- MODULE MCPaymentLifecycle -------------------------
EXTENDS PaymentLifecycle

CONSTANTS c1, c2, k1, k2, p1, w1, none

(* Two carts that compete for the last units of a product.                 *)
TwoCarts == [c \in Charges |-> IF c = c1 THEN k1 ELSE k2]

(* Two attempts to pay for one cart, each with a reference of its own.     *)
OneCart == [c \in Charges |-> k1]

(* The first cart wants all there is, the second half of it.               *)
TwoAndOne == [k \in Carts |-> [p \in Products |-> IF k = k1 THEN 2 ELSE 1]]
OneOfEach == [k \in Carts |-> [p \in Products |-> 1]]

(* Pieces; and one and a half of a product sold by weight, which does for  *)
(* one cart and not for two.                                               *)
TwoPieces == [p \in Products |-> 2]
OneAndAHalf == [p \in Products |-> 1500]

Shrinkage == -1 .. 0
MinusOne == {-1}
Nothing == 0 .. 0
=============================================================================
