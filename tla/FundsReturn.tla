------------------------------ MODULE FundsReturn ------------------------------
(***************************************************************************)
(* An operator who closes the strategy the way scripts/README.md,          *)
(* "Withdrawing", describes: request, wait until the request is valid,     *)
(* claim, and transfer what the claim left with the brackets; the owners   *)
(* execute each proposal before the operator goes on, and the operator     *)
(* starts over, in a later batch, as long as anything is left.  The        *)
(* scripts, the bundles and the exchange are those of LiquidityFunds.      *)
(***************************************************************************)
EXTENDS LiquidityFunds

VARIABLE phase  \* the script the operator runs next

fundsVars == <<vars, phase>>

(* Nothing worth a dollar is on the exchange or in the bracket's wallet.   *)
IsEmpty(b, t) ==
    LET acc == ledger.exch[b][t]
    IN  ledger.wallet[b][t] = 0 /\ acc.bal + acc.dep < Dust

NothingLeft == \A b \in Brackets, t \in Tokens : IsEmpty(b, t)

RunScript(now, next, kinds) ==
    /\ phase = now /\ phase' = next
    /\ queue = <<>> /\ ~NothingLeft
    /\ \E kind \in kinds : StartReading(kind, Entry)

RequestFunds == RunScript("request", "claim", {"request", "requestAll"} \cap Kinds)

TransferFunds == RunScript("transfer", "rest", {"transfer"})

(* The request must have become valid, a batch after it was executed.      *)
ClaimFunds ==
    /\ \A e \in Entry : halted[e].told # "asked"
    /\ RunScript("claim", "transfer", {"claim", "claimTransfer"} \cap Kinds)

RunsOn ==
    /\ UNCHANGED phase
    /\ \/ \E e \in Entry : ReadAmount(e) \/ LimitAmount(e)
       \/ FinishReading
       \/ StartEstimate
       \/ StartExecute
       \/ RunCall
       \/ FinishEstimate
       \/ FinishExecute

(* The operator does not start over before the batch has ended: a claim    *)
(* that purchases block stays blocked until then.                          *)
BatchEnds ==
    /\ NextBatch
    /\ phase' = IF phase = "rest" THEN "request" ELSE phase

Elsewhere ==
    \/ BatchEnds
    \/ /\ \E b \in Brackets, t \in Tokens, n \in TradeSizes : Trade(b, t, n)
       /\ UNCHANGED phase

ReturnInit == Init /\ phase = "request"

ReturnNext ==
    \/ RequestFunds \/ ClaimFunds \/ TransferFunds
    \/ RunsOn
    \/ Elsewhere

(* Batches end by the clock, a script that runs goes on, and the owners and*)
(* the operator follow the procedure.  Nobody has to trade.                *)
ReturnSpec ==
    /\ ReturnInit /\ [][ReturnNext]_fundsVars
    /\ WF_fundsVars(RequestFunds) /\ WF_fundsVars(ClaimFunds) /\ WF_fundsVars(TransferFunds)
    /\ WF_fundsVars(RunsOn)
    /\ WF_fundsVars(BatchEnds)

(* The documented procedure ends with every token of every bracket back    *)
(* with the master Safe, but for less than a dollar that no request asked  *)
(* for, whatever is traded meanwhile: a pair that was skipped because it   *)
(* held little goes on trading, its purchases arrive after the amounts were*)
(* read, and make a claim fail in a bundle that goes on to forward what the*)
(* claim did not pay; a round must not leave behind what the next one      *)
(* cannot collect (wrapper/withdraw.js and the bundles it builds).         *)
FundsReturn == <>[]NothingLeft
=============================================================================
