----------------------------- MODULE ProposalQueue -----------------------------
(***************************************************************************)
(* What the Safe server and the master Safe are to a user who runs one     *)
(* script after the other and neither gives nonces nor executes on chain:  *)
(* a queue.  Every transaction is executed once, in the order in which the *)
(* scripts proposed them.  LiquidityFunds relies on this.                  *)
(***************************************************************************)
EXTENDS Sequences

CONSTANT Tx   \* the transactions

VARIABLES queue,    \* proposed and not yet executed
          executed  \* executed, in this order

vars == <<queue, executed>>

Init == queue = <<>> /\ executed = <<>>

IsNew(tx) == \A s \in {queue, executed} : \A i \in DOMAIN s : s[i] # tx

Propose(tx) ==
    /\ IsNew(tx)
    /\ queue' = Append(queue, tx)
    /\ UNCHANGED executed

Execute ==
    /\ queue # <<>>
    /\ executed' = Append(executed, Head(queue))
    /\ queue' = Tail(queue)

Next == Execute \/ \E tx \in Tx : Propose(tx)

Spec == Init /\ [][Next]_vars /\ WF_vars(Execute)
=============================================================================
