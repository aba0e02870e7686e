--------------------------- MODULE MCPaymentFlow ---------------------------
EXTENDS PaymentFlow
CONSTANTS r1, r2, p1, p2
OneEach == [p \in Payments |-> IF p = p1 THEN r1 ELSE r2]
AllFirst == [p \in Payments |-> r1]
=============================================================================
