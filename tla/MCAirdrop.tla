------------------------------ MODULE MCAirdrop ------------------------------
(* Two tokens, one of them with two spellings.                              *)
EXTENDS Airdrop

CONSTANTS t1, t2, r1, r2

Spellings == [address \in {"t1", "T1", "t2"} |-> IF address = "t2" THEN t2 ELSE t1]

To(receiver, address, amount) == [address |-> address, receiver |-> receiver, amount |-> amount]

(* One token; both; one of them spelt in two ways; too many; nothing.       *)
SomeFiles ==
    {<<To(r1, "t1", 1), To(r2, "t1", 2), To(r1, "t2", 0)>>,
     <<To(r1, "t1", 2), To(r2, "t2", 2)>>,
     <<To(r1, "t1", 2), To(r2, "T1", 2)>>,
     <<To(r1, "t2", 1), To(r1, "t2", 1), To(r2, "t2", 1), To(r2, "t1", 1)>>,
     <<To(r1, "t1", 0)>>}

ThreeOfEach == [t \in Tokens |-> 3]
=============================================================================
