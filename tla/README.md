# Verification of the liquidity provision scripts

The scripts of this repository let a market maker provide liquidity to the
Gnosis Protocol exchange: a *master Safe* (a multisignature wallet) owns a fleet
of *bracket Safes*; each bracket keeps two standing orders and the funds that
back one of them. The scripts read the chain, build one *bundle* of calls
(Safe `MultiSend`) and propose it to the Safe transaction server; the owners
execute it minutes or days later. Everything below is about that distance in
time between reading, proposing and executing.

Contents: [inventory](#1-inventory), [modules](#2-modules-and-how-they-correspond-to-the-code),
[runs](#3-what-the-runs-check), [findings](#4-disagreements-between-code-and-documentation),
[fairness](#5-fairness), [proofs](#6-what-is-proved),
[limits](#7-what-is-not-modelled), [plan](#8-plan).
Source paths are relative to the repository.

## 1. Inventory

### Components, their state and operations

| component | source | state it keeps or changes | operations |
|---|---|---|---|
| Withdrawal scripts | `scripts/wrapper/withdraw.js`, `request_withdraw.js`, `claim_withdraw.js`, `transfer_funds_to_master.js` | none of their own; a list of pairs (bracket, token) with amounts read at different moments | request, claim, claim and forward, transfer to the master Safe; each from a file or from the chain |
| Bundle builders | `scripts/utils/trading_strategy_helpers.js`, `internals.js` | the ordered calls of a bundle | orders, approve and deposit, transfer-approve-deposit, request, claim, forward |
| Deposit and funding | `scripts/deposit.js`, `transfer_approve_deposit.js` | a deposit file | one bundle per run |
| Order placement | `scripts/bracket_orders.js` | standing orders | one bundle per run |
| Liquidity provision | `scripts/complete_liquidity_provision.js`, `single_transaction_liquidity_provision.js`, `utils/liquidity_provision_sanity_checks.js` | the nonce read at the start, the deposits | deploy a fleet, orders and funding, in two transactions or in one |
| Safe server and execution | `scripts/utils/gnosis_safe_server_interactions.js`, `internals.js` | proposals per nonce, the Safe's nonce | `firstAvailableNonce`, `signAndSend`, `signAndExecute`, `processTransaction` |
| Exchange (external) | `contracts/Dependencies.sol` | per user and token: balance, pending deposit, withdraw request, credit batch | deposit, request, withdraw, trade, batch end |
| Fleet deployment | `contracts/FleetFactory*.sol`, `calculate_fleet_addresses.js`, `deploy_safes.js`, `get_deployed_brackets.js` | addresses derived from a salt | deploy, compute addresses |
| Price checks | `scripts/utils/price_utils.js` | cached prices | compare deposits and prices with expectations |
| Setup verification | `scripts/verify_correctness.js`, `utils/verify_scripts.js` | none (reads and asserts) | owners, orders, no profitable order, no allowance |
| Token information cache | `fetchTokenInfo...` in `trading_strategy_helpers.js` | a map of promises | lookup |
| Airdrop, ether wrapping | `scripts/airdrop.js`, `utils/parse_csv.js`, `scripts/wrap_eth.js` | cumulative amounts | one bundle per run |
| Synthetix bot | `scripts/synthetix/facilitate_trade.js` | current batch | places two orders for one batch |
| Promise helpers | `scripts/utils/js_helpers.js` | pending promises | first that does not fail |
| Simulator, viewer, printing, prompts, migrations | see `PROJECT.json` | none that matters to funds | reporting and set-up |

### How they interact

* Scripts and chain: reads by RPC, one `await` each, many at once; no lock, no
  snapshot. Trades and batch ends happen in between.
* Script and Safe: a script simulates its bundle (`estimateGas`), signs it with
  a nonce and sends it to the server. The owners execute proposals in nonce
  order; the bundle then runs as one chain transaction.
* Master Safe and brackets: a call of a bracket is a nested
  `execTransaction`, built with `safeTxGas` and `gasPrice` 0
  (`utils/internals.js:106-127`). The Safe the repository pins
  (`utils/verify_scripts.js:35`) then answers a failing call with the event
  `ExecutionFailure` and returns, so the bundle goes on with its next call. Only a
  failing call of the master Safe itself, the transfer to a bracket, fails the bundle.
* Scripts and scripts: only through the server's list of transactions and the
  chain, and through what a user copies from one run to the next.

### What is hard, and what makes each part correct

* *Withdrawals*: amounts are stale when they are used, and the exchange may refuse a
  bracket's call without anyone noticing. Correct if what was read arrives, if
  forwarding after a claim reaches other funds of the bracket only when the claim is
  refused, if a bundle whose gas was estimated does not fail, and if a request that
  was made stops sales.
* *Bundles*: partial failure of nested calls, order of calls. Correct if no
  allowance is left to the exchange and funding arrives in full.
* *Proposals*: two reads and a write on a shared list with no lock; one script
  sends two transactions that depend on each other. Correct if pending
  transactions are not overwritten, funds follow orders, a new fleet gets another salt
  than those proposed before, and no nonce is left with a gap that blocks all later ones.
* *Strategy*: rounding and division at the bounds. Correct if no funded order
  is near the price, all brackets get exactly one deposit, and the bundle never
  runs short of funds.
* *Verification of proposals*: a bundle is built twice, at different moments, and
  has to hash to the same value. Correct if an unchanged chain makes it so, in
  whatever order the reads are answered.
* *Lookups*: a cache of promises filled by concurrent callbacks, in which failures stay.
  Correct if each token is looked up once and all callers agree.
* *Prices and setup checks*: comparisons with values that are not numbers, a server that
  refuses, many reads of a chain that changes. Correct if passing and refusing each mean
  something that was true of some moment of the check.
* *Airdrop*: sums by concurrent callbacks, compared with a balance that other proposals
  spend. Correct if what was compared can be paid, and receivers get all or nothing.

`PROJECT.json` lists every hazard at its line with the properties that cover it.

## 2. Modules and how they correspond to the code

```
BatchExchange        operators: one exchange account (external contract)
   ^ EXTENDS
LiquidityFunds       scripts x bundles x ledger x exchange        <- MCLiquidityFunds
   ^ EXTENDS
FundsReturn          the withdrawal procedure                     <- MCFundsReturn

ProposalQueue        abstract: a fair FIFO queue of transactions
   ^ INSTANCE (refinement mapping)
SafeProposals        nonces, server, chain, owners                <- MCSafeProposals
   ^ EXTENDS
ProposalVerification contents of transactions, --verify           <- MCProposalVerification

FleetProvision       deploying, checking and funding fleets       <- MCFleetProvision

BracketStrategy      index, deposits and limits                   <- MCBracketStrategy

TokenInfoCache       lookups of tokens, shared promises
   ^ EXTENDS
DeployedBrackets     the list of deployed brackets                <- MCDeployedBrackets

PriceOracle          the price server and stored prices
   ^ EXTENDS
SetupChecks          checks before and after a deployment         <- MCSetupChecks

Airdrop              sums, balances, bundles of transfers         <- MCAirdrop
```

The proofs about a module are in a module of their own that extends it: `LiquidityFundsProofs`,
`SafeProposalsProofs`, `FleetProvisionProofs`, `BracketStrategyProofs`, `DeployedBracketsProofs`,
`SetupChecksProofs` and `AirdropProofs`. `LiquidityFundsProofs` covers `FundsReturn`, too, and
`SafeProposalsProofs` covers `ProposalVerification`. `SumTheorems` has what several of them need: sums over
finite sets, and smallest counterexamples.

`LiquidityFunds` runs one script at a time and its proposals form a queue. That
is what `SafeProposals` implements for a user who neither gives nonces, executes
on chain nor runs scripts at the same time: property `ImplementsQueue`, the
abstract specification being `ProposalQueue`.

### LiquidityFunds and BatchExchange

* `ledger` is the chain: token wallets and allowances, exchange accounts
  (`BatchExchange`), the balances of all other traders together, and which
  orders were placed. `script` is the script that runs, `queue` the proposals.
* `StartReading`, `ReadAmount`, `FinishReading`, `LimitAmount` are the steps of
  `wrapper/withdraw.js` and of the builders it calls. Each read is a step of
  its own, in any order, so that trades, batches and executions fall between
  two reads. `StartListed` is a run with a deposit or withdrawal file.
* `StartEstimate`, `RunCall`, `FinishEstimate` are `signAndSend`: the calls run
  on a copy of the ledger, and the proposal is only made if they succeed.
  `StartExecute`, `RunCall`, `FinishExecute` are the execution. The chain runs
  a transaction at once, so nothing else is enabled while `mode # "idle"`; the
  steps exist because each call can fail on what the earlier ones left.
* `Calls`, `EntryOf`, `OpOf` give the order of calls: a claim that forwards makes
  all withdrawals, then all transfers; a funding bundle alternates transfer and
  deposit.
* `RunCall` has the two ways to fail. A call of a bracket has no effect then and the bundle
  goes on; approving and depositing are one such call, a nested `MultiSend` of the bracket.
  A call of the master Safe itself fails the bundle, and its nonce is used up:
  `test/scripts/test_airdrop.js:170-198` shows `ExecutionFailure` with nothing moved.
* `halted` is a history variable: what the user was told about trading (`told`), and what
  became of the request (`request`): skipped by the script, refused by the exchange, or made.
* Abstractions: amounts of the two tokens are in units of equal value, so a
  trade moves `n` of each; `Dust` is the least amount worth one dollar; amounts
  are unbounded naturals, `MaxAmount` stands for `MAXUINT256`. A batch number is
  only ever compared with the current one, so an account keeps the result of the
  comparison. A transfer limited to 0 is a call without effect and is left out.

### SafeProposals and ProposalQueue

* `Start` to `Propose`/`ExecuteOnchain` follow one run of a script by what it
  does about nonces (`Kinds`). Deployments, prompts and checks before the send
  step may fail: `GiveUp`. `Sanitize` is the read of the nonce in
  `sanitizeArguments`, `PickNonce` the one in `signAndSend`/`signAndExecute`.
* `listed` is what the server returns; it never forgets a proposal, and several
  may have the same nonce, of which one is executed (`OwnersExecute`).
* Whether the calls of a transaction succeed is arbitrary, except that a fleet
  cannot be deployed twice with one salt.
* `seen` and `log` are history variables.

### FleetProvision

* Runs of every script that deploys or funds brackets (`Kinds`), of several master
  Safes, at the same time. `chain.owner` says which addresses hold a Safe; a call of
  an address without one succeeds and does nothing (`CallSucceeds`, `CallEffect`),
  which is how the EVM treats it.
* `DeployedAt` is what `FleetFactoryDeterministic` does, `CalcSafeAddress` what the
  script computes; both take the hash to be injective. In the model they are the same function
  of owner, nonce and index, so that the two encodings agree byte by byte is outside of it. `Fresh` are addresses of the
  other factory, which depend on how many Safes it created.
* `Check` stands for the checks of named brackets; that the user may decline when
  orders exist is `GiveUp`. `RunCall`, `Finish` and `Fail` run a transaction's calls, for
  an estimate or an execution. `GiveUp` assumes that an error handed to the callback ends
  the process (`complete_liquidity_provision.js:138` has no `return` after it).
* Here pending transactions execute in any order and maybe never, which includes
  every order `SafeProposals` allows. Every deposit is of one unit.

### BracketStrategy

* Limits form a geometric sequence; the module takes logarithms, so the lowest
  limit is 0 and the step is a whole number of units. `NearestLimit` is
  `Math.round` of the logarithm, with its rule for halves. The two loops that
  build the deposits, the clamping of the index and the integer division are those
  of the bundle builders. Floating point error is outside the model.
* `MakeDeposit` makes the deposits from what the master Safe holds.

### FundsReturn

* Adds to `LiquidityFunds` an operator who follows "Withdrawing" of `scripts/README.md`:
  `phase` is the script that comes next (request, claim, transfer), each run with all
  pairs read from the chain. `RunScript` starts it when nothing is pending;
  `ClaimFunds` waits until every request is valid; after a transfer the operator
  rests until the batch ends and, if anything is left, starts over.
* `FundsReturn` composes what single runs cannot show: pairs skipped by a request that
  trade on, claims and requests that are refused unnoticed because of purchases, requests that pay
  out earlier requests into the bracket's wallet, transfers that fail because a claim was refused.

### ProposalVerification

* Adds to `SafeProposals` what a transaction contains: the calls (with a list of pairs
  and amounts, or a salt) and the gas. `world` stands for the part of the chain that
  reads and estimates depend on; `Begin` reads it, `Submit` estimates with it,
  `ChainChanges` changes it. Amounts arrive in any order and are sorted (`Sorted`: the
  arrangement of what arrived in which every pair comes after the smaller ones).
* `StartVerify`, `TakeLastNonce`, `Estimate`, `Lookup` are a run with `--verify`:
  `processTransaction` and `transactionExistsOnSafeServer`, and for
  `complete_liquidity_provision` the two lookups one after the other. The transaction hash is
  taken to be injective. One change of `world` may alter amounts and gas together.
* Kind `send` is left out of its run: verified without a nonce it behaves like `process`.

### TokenInfoCache and DeployedBrackets

* `fromAddress` and `fromId` are the two global maps of promises. `FetchAtAddresses` and
  `FetchFromExchange` are the synchronous parts of the lookups; the other actions are
  their continuations, one per awaited call: contract found, `symbol` and `decimals`
  answered, an id mapped to an address. A rejected promise stays (`AddressFails`).
* `DeployedBrackets` is `get_deployed_brackets.js`: the events of both factories are read
  one after the other, then one callback per bracket (`row`) reads its orders and
  waits for its two tokens. The node may refuse the events (`EventsRefused`), the orders of
  a bracket (`OrdersRefused`) and everything a lookup asks for. Fleets are deployed and first orders
  placed meanwhile.
* `lookups` is a history variable.

### PriceOracle and SetupChecks

* Prices are logarithms, so that inverting one is changing its sign. `query` is a call of
  `getOneinchPrice`: `Ask` looks into `globalPriceStorage`, the server quotes the market,
  answers no quote (the price is `NaN`), refuses (`undefined` after three tries), the connection fails (after
  three tries the handler itself throws), or the request is never answered (`ServerHangs`):
  `price_utils.js:148` sets no timeout. `Store` uses the key the code computes,
  `baseToken + "-" + quoteToken` of two objects, which no lookup has.
* `SetupChecks`, kind `provision`: `isPriceReasonable` and `areBoundsReasonable` with what
  the user answers. Kind `verify`: `verifyCorrectSetup` in the order of the code: orders,
  upfront prices, the six phases of `verifyBracketsWellFormed`, the lists of orders, each
  order's profit, the allowances account by account. Reads of one phase happen in any order.
* A read that is refused ends the check at once; the code waits for the other reads of the
  same phase, which changes nothing they could tell. What the big-number library makes of the dollar
  value of a price that is not a number is left open (`ValuePrice`).
* `seen` collects the moments of the check: properties say "at some moment".

### Airdrop

* One invocation after the other: parsing (`ValidTransfers`), the warning for too many
  transfers, the lookups, the concurrent sums (`Accumulate`), the comparison with the
  balances, the prompt, and `signAndSend` with its estimate. Proposals wait in `queue`,
  the owners execute them in order, and other transfers move funds of the Safe.
* Addresses are spelled as in the file; several spellings are one token.
* A script that ends by `callback` without `return` (`airdrop.js:72`) may go on (`Many`).

## 3. What the runs check

All bounds are constants in the `.cfg` files. Runs that pass:

| run | asks | instance and states |
|---|---|---|
| `funds_withdraw` | `WhatIsReadArrives`: what a claim or a transfer read from the chain arrives at the master Safe, except of accounts that bought tokens in the very batch of the claim. `ClaimSparesWallets`: forwarding never uses other funds of a bracket, with the same exception. `TradingHalts`: after a request that was made nothing is sold from the next batch on. | 1 bracket, 2 tokens, 3 scripts, 2 units on the exchange, 2 trades; 781 000 |
| `funds_provide` | `NoAllowanceLeft`; `FundingReachesExchange`: a funding bundle moves exactly what it lists; `EstimateIsReliable`: a bundle estimated and executed with none between does not fail | 2 brackets, 2 scripts, 1 trade, listed amounts 0 and 2 of 3 held; 153 000 |
| `proposals_queue` | `ImplementsQueue` for scripts one after the other | 3 runs; 72 000 |
| `proposals_overlap` | `PendingIsNotOverwritten`, `FundsFollowOrders`, `SaltIsUnique` with overlapping scripts, given nonces and execution on chain. A salt is compared with those of fleets proposed before, when neither script was given a nonce. | 3 runs of all 4 kinds, symmetric; 4.1 million |
| `verification` | `UnchangedProposalMatches`: as long as the chain did not change, `--verify` finds the proposal. `EveryTurnComes`: no proposal waits forever | 2 runs of 3 kinds, on chain or not, 2 pairs, 1 change; 1.3 million |
| `fleet` | `FundsStayWithMaster`: every unit is with the master Safe or on the exchange in an account of a Safe it owns. `ProvisionIsWhole`: a single transaction leaves a complete fleet. `FailsByOwnDoingOnly`: it fails only for want of funds or a fleet with the same nonce. | 2 master Safes, 3 runs of 5 scripts, 2 brackets, 2 nonces, 3 units; 960 000, symmetric |
| `strategy` | `HalfStepMargin`, `NeverRunsShort`, `DepositsAreCorrect`, `OnlyDustIsLeft` | up to 4 brackets, steps 1 to 3, prices -4 to 16, amounts 0, 5, 8; 16 000 |
| `funds_return` | `FundsReturn`: the documented procedure brings everything home but dust | 2 brackets, 2 tokens, 2 units each, 2 trades of 1 or 2 units, dust below 2; 23 000 |
| `deployed` | `OneLookupPerToken`, `CallersAgree`, `FileIsComplete`, `EveryScriptEnds` | 3 brackets of 2 factories, one of another owner; 2 tokens; any read may be refused; 62 000 |
| `setup` | `PassIsSound`: what passes was right at some moment; an order is exempt from being unattractive only if a price asked for this very order was not known. `NoFalseAlarm`: a correct setup nobody touches is not refused. `LimitsAreNearMarket`: no deployment without a question unless limits and market are close. `EveryCheckEnds`, unless a request for a price is never answered | 1 bracket, 6 lists of orders, 17 chains at the start, 2 stored price maps, 12 settings, 1 change; 416 000 |
| `airdrop` | `CheckedAirdropIsPaid`: what the comparison let pass fails only if funds were spent since. `RefusalIsJustified`. `PaidInFull`: receivers get all or nothing | 2 tokens, one with 2 spellings, 3 invocations, 2 other movements; 804 000 |

Why these bounds are enough:

* Three scripts are the shortest sequence in which a proposal that is read and
  estimated first is executed after two others, e.g. request, claim, claim again. Two trades make one account buy and then sell. One
  bracket has two entries, so every interleaving of two reads occurs; different
  brackets share no account, and share the master Safe's wallet only in funding, which
  has two brackets in `funds_provide`: 3 units of each token against listings that name up to 4, so
  bundles run out of funds half way. A wider exploration of
  `funds_withdraw` with four scripts and `BracketFunds = 1` (15.3 million states) passes as well and is not kept as a run.
* Nonces compete pairwise; a third run is the one that takes the nonce of an
  overtaken transaction. The symmetry of runs is sound: `proposals_overlap` checks
  invariants only, and run names occur in no constant but `Runs`.
* Fleets collide in pairs; the third run is the one that funds or reuses what the
  others deployed. The named lists have an address of the other master Safe,
  one that may never be deployed, and a fleet of the factory. 3 units pay for one fleet but
  not for two. Runs of scripts are symmetric and only invariants are checked.
* The strategy distinguishes prices below, between, at, half way between and above the
  limits; an even step has an exact half, an odd one has none, and step 1 has
  only limits. `Amounts` has values not divisible by 2, 3 or 4.
* In `funds_return` the bound on scripts (12) is never what ends a behaviour: the number of states
  is the same for 9, 12 and 15. Each trade can spoil one round, so two trades and the first and last
  round make at most four; three and four trades (155 000 and 680 000 states) pass as well.
* `--verify` compares two moments, so one change between them is all it can notice; two
  runs give the verifier a proposal that is the last and one that is not.
* Callers of the cache share tokens in pairs; the two ids are traded in both directions,
  and one token is hard-coded. The bracket of another owner must not appear.
* A check of the setup that passes wrongly needs one flaw it does not see; a flaw it sees too
  late needs one change. Brackets are checked independently, so one bracket
  suffices; two brackets (`TwoBrackets`) with `MaxChanges = 0` pass as well (35 000 states).
* Airdrops compete for funds in pairs; the third invocation is the one that is compared while
  the first two wait.

A type invariant is checked once per module. The configurations of all modules but
`LiquidityFunds` and `FundsReturn` turn the deadlock check off because the system really stops when all runs, deposits,
rows, checks or invocations are done. In `LiquidityFunds` a batch always follows.

`PROJECT.json` names for every property a mutant of the model, a plausible mistake
in the code it stands for, under which the run finds the property violated.

## 4. Disagreements between code and documentation

One has a run of its own:

1. `finding_request_halts`. A request with `--brackets` skips a pair that is
   worth less than a dollar when it is read; it can buy before the request is
   executed and goes on trading (`CommandHaltsTrading`), while `scripts/README.md:134` promises that all
   trading is halted.

The next five are stated as properties beside those that hold. TLC ends with a counterexample when a run checks the one
named here in place of its own; the rest of its configuration stays as it is unless a change is named:

2. `SentRequestsHalt`, with `funds_withdraw`. A second request pays out a first one that has become valid,
   and the exchange refuses that in a batch in which the account bought the token. The bundle
   succeeds all the same, the old request stays as it was, and the bracket trades on with what it
   holds beyond it, against the same sentence of `scripts/README.md:134`. (`TradingHalts`: a request that was
   made does halt sales.)
3. `ClaimIsAllOrNothing`, with `funds_withdraw`. The exchange refuses one withdrawal of a claim and pays another;
   `utils/trading_strategy_helpers.js:838` says that no funds are withdrawn if any bundled
   transaction fails.
4. `EachFleetHasItsSalt`, with `proposals_overlap` and `Nonces = {}`. `utils/trading_strategy_helpers.js:296-298` says that the nonce
   makes a number "unique for each deployment". A fleet deployed on chain while a proposal is pending uses up an
   earlier nonce than its salt, and the next script takes the same salt. (`SaltIsUnique` says when salts do differ.)
5. `OnlyFirstAtLimit`, with `strategy`. `utils/trading_strategy_helpers.js:722-724` says that at the limit of two
   brackets only the first is funded; the code funds both, one with each token. `DepositsAreCorrect`
   states what the code does.
6. `UnavailableIsNoticed`, with `setup`. `utils/price_utils.js:110` says that an unavailable price is `undefined`. An
   answer without amounts makes it `NaN`, which `isPriceReasonable` lets pass without a question.

Others were noted while modelling. They show in the text of an action, and no run is
spent on them:

* A claim forwards the amount read when the script ran, not what the exchange pays when
  it is executed (`wrapper/withdraw.js:273` says "the whole amount"). `AmountRead`, `FinishReading`.
* `processTransaction` does not pass on `--nonce`
  (`utils/gnosis_safe_server_interactions.js:183`). `PickNonce`.
* The funding transaction of `complete_liquidity_provision.js:183` can execute although its
  orders never do, if another transaction takes their nonce; `FundsFollowOrders` says what does hold.
* A transaction proposed after a script read the list, by another script, can get the same nonce;
  `PendingIsNotOverwritten` speaks of those that were listed when the script started.
* A proposal of `single_transaction_liquidity_provision` whose salt is not the nonce it got
  can never be verified: `SaltIsNonce` is a premise of `UnchangedProposalMatches`.
* `--verify` estimates the gas anew, so any change of the chain can make it miss a
  proposal that is there.
* Prices are stored under a key no lookup uses (`price_utils.js:166`), so every
  price is fetched anew. `Store`.
* An order whose price is not known skips the check for profitable offers
  (`utils/verify_scripts.js`): the exemption `unpriced` of `PassIsSound`, order by order.
* The request for a price has no timeout (`price_utils.js:148`), so a server that takes it and
  stays silent stops the check. `ServerHangs`.
* Allowances of tokens that no order trades are not looked at. `ReadEvents`.
* The airdrop adds up per spelling of an address (`trading_strategy_helpers.js:612`), so two spellings can pass
  the comparison and fail the estimate: `SpeltTwice`.
* `airdrop.js:72` and `complete_liquidity_provision.js:138` call `callback` without `return`.

## 5. Fairness

The code schedules nothing: a script may fail at any step, and nobody is obliged to execute
a proposal. `Spec` of every module is without fairness and all
safety properties hold under it. Liveness needs assumptions, named in each specification:

* `DiligentOwners` (`SafeProposals`, and through it `ProposalVerification`): the
  owners keep executing what the Safe's interface offers next. No fairness is assumed of any
  script; `EveryTurnComes` holds although scripts may stop anywhere, because the code sends the
  orders before the funds. `ProposalQueue`'s `WF_vars(Execute)` is implied by the
  same assumption, which `proposals_queue` checks as part of `ImplementsQueue`.
* `ReturnSpec` (`FundsReturn`): the operator runs the next script of the procedure, a script
  that runs goes on, the owners execute what is pending, and batches end by the clock. Nobody has to
  trade, and which of several suitable scripts the operator picks is open.
* `FairSpec` (`DeployedBrackets`): Node.js runs the continuations it can, and the node answers or refuses every call.
  Nothing says which.
* `FairSpec` (`SetupChecks`): the node answers or refuses and the user who is asked answers. The price server
  quotes, refuses, breaks the connection or never answers. The code waits for ever in the last case, and
  `EveryCheckEnds` says that it is the only one in which a check does not end.

## 6. What is proved

By TLAPS, for all values of the constants that satisfy the named assumptions. Most theorems
state a property that a run checks, too. The six that do not are marked with a star: three relate a specification
to another one, two say what a liveness property needs besides fairness, and one carries a property of single
scripts over to the procedure.

| theorem | states | assumes |
|---|---|---|
| **`LiquidityFunds`** | | |
| `TypeCorrect` | `[]TypeOK`: no wallet, allowance, balance or pending deposit becomes negative and calls name only listed pairs | `FundsAssumption` |
| `NoAllowanceLeftOver` | `[]NoAllowanceLeft`: for any fleet, listing, amounts, and any number of scripts, trades and batches | the same |
| `FundingIsPassedOn` | `FundingReachesExchange`: also when the listing names a pair several times | the same |
| `RequestsHaltTrading` | `TradingHalts`: although a refused request goes unnoticed | also `OneEntryPerPair`, `AllFundsFit` |
| `ClaimsSpareWallets` | `ClaimSparesWallets`: although a refused claim goes unnoticed | also `OneEntryPerPair` |
| `EstimatesAreReliable` | `EstimateIsReliable`: with any number of trades and batches between the estimate and the execution, for any listing | `FundsAssumption` |
| **`FundsReturn`** | | |
| `ProcedureUsesTheScripts` * | `ReturnSpec => Spec`: the procedure is a use of the scripts of `LiquidityFunds`, whose theorems hold for it | also `"transfer" \in Kinds` |
| `ProcedureSparesWallets` * | every forwarding claim of the procedure, not only those that nothing overtook, spares the wallets of the brackets | also `"transfer" \in Kinds`, `OneEntryPerPair` |
| **`SafeProposals`** | | |
| `TypesAreRight` | `[]TypeOK` | `ProposalsAssumption` |
| `NoPendingIsOverwritten` | `[]PendingIsNotOverwritten`: for any number of overlapping runs and any nonces that users give | the same |
| `FundsComeAfterOrders` | `[]FundsFollowOrders` | the same |
| `NothingBlocksTheOwners` * | `[]SomeTurnIsNext`: while a transaction is pending, a proposal has the Safe's next nonce, with runs that overlap, fail and execute on chain | also that users give no nonces (`Nonces = {}`) |
| `SaltsDiffer` | `[]SaltIsUnique`: for any number of overlapping runs, and whatever others execute on chain or propose with given nonces | `ProposalsAssumption` |
| `ProposalsAreAQueue` * | every step is one of `ProposalQueue` or a stutter: the safety part of `ImplementsQueue` | also `OneAtATime`: scripts run one after the other, no nonce is given, nothing is executed on chain |
| **`ProposalVerification`** | | |
| `VerificationTypesAreRight` | `[]VerificationTypeOK` | `ProposalsAssumption`, `VerificationAssumption` |
| `UnchangedProposalsMatch` | `[]UnchangedProposalMatches`: for any list of pairs, any order of the answers and any other runs | the same |
| `VerificationLeavesProposals` * | `VSpec => Spec`: what holds of `SafeProposals` holds with `--verify` | the same |
| **`FleetProvision`** | | |
| `TypesAreRight` | `[]TypeOK`: no call spends what is not there, no Safe has an address outside the model | `ProvisionAssumption` |
| `FundsStay` | `[]FundsStayWithMaster`: for any masters, fleets, provisions that compete, and estimates | the same |
| `ProvisionsAreWhole` | `[]ProvisionIsWhole` | the same |
| `FailuresAreOwnDoing` | `[]FailsByOwnDoingOnly` | the same |
| **`BracketStrategy`** | | |
| `NoFundedOrderNearThePrice` | `[]HalfStepMargin`: for any number of brackets, steps, prices | `StrategyAssumption` |
| `TypesAreRight` | `[]TypeOK`: in particular no amount is negative | the same |
| `BundleNeverRunsShort` | `[]NeverRunsShort`: the master Safe has each deposit when its turn comes | the same |
| `LessThanAUnitEachIsLeft` | `[]OnlyDustIsLeft` | the same |
| `DepositsPassTheirCheck` | `[]DepositsAreCorrect`: the repository's own check accepts the result | the same |
| **`DeployedBrackets`** | | |
| `TypesAreRight` | `[]TypeOK` | `TokensAssumption`, `BracketsAssumption` |
| `EachTokenIsLookedUpOnce` | `[]OneLookupPerToken`: for any number of brackets that share tokens | the same |
| `CallersOfATokenAgree` | `[]CallersAgree`: lookups may fail at any point | the same |
| `FileListsAllBrackets` | `[]FileIsComplete`: brackets and orders may appear at any time | the same |
| `NoCallbackWaitsInVain` * | `[]NobodyWaitsInVain`: the token a callback waits for is settled, or the node still owes an answer about it | the same |
| **`SetupChecks`** | | |
| `ChecksAreTyped` | `[]TypeOK`: a check has always something it waits for | `SetupAssumption`, `ChainAssumption`, `PresetAssumption`, `OracleAssumption` |
| `AcceptedSetupsAreSound` | `[]PassIsSound`: while chain and market change during the check | the same |
| `CorrectSetupsAreAccepted` | `[]NoFalseAlarm`: in whatever order reads are answered | the same |
| `UnaskedLimitsAreNear` | `[]LimitsAreNearMarket` | the same |
| **`Airdrop`** | | |
| `TypesAreRight` | `[]TypeOK` | `AirdropAssumption` |
| `CheckedAirdropsArePaid` | `[]CheckedAirdropIsPaid`: for files of any length and any movements in between | the same |
| `AllOrNothingIsPaid` | `[]PaidInFull` | the same |
| `RefusalsAreJustified` | `RefusalIsJustified` | the same |

### The assumptions

`FundsAssumption` says that tokens and addresses differ, that the listing names
brackets and tokens, and that amounts are naturals. Two properties of `LiquidityFunds` need more,
namely `OneEntryPerPair`, that no bundle names a pair twice: `checkBracketsForDuplicate` (`utils/default_yargs.js:24`)
sees to it for `--brackets`, the user for a withdrawal file; and one of them `AllFundsFit`, that the supply of a
token is at most `MAXUINT256`.
The procedure ends with transfers (`"transfer" \in Kinds`), as `scripts/README.md` describes it.
`VerificationAssumption` says that the list of pairs, which is where the sorting takes its order from, names no pair
twice, and that there is a `world`; amounts and bounds are naturals.

`ProposalsAssumption` and `StrategyAssumption` only give the constants their types (steps are positive);
`AirdropAssumption`, too, and that a spelling stands for one token.
`ProvisionAssumption` says in addition that fleets have a bracket, and that a list of brackets a
user names is neither empty nor names one twice.
`TokensAssumption` and `BracketsAssumption` say that addresses are not ids, that every id stands for a token,
that each bracket comes from one factory and that orders are between listed tokens.
`SetupAssumption`, `PresetAssumption` and `OracleAssumption` give types and say that the
master Safe is not one of the brackets; `ChainAssumption` says that
an allowance in force was approved once, which is what makes reading the approval events enough.

### The arguments

`LiquidityFunds`. `TypeOK` is not inductive: a call subtracts on the working
copy, so its precondition (`CallSucceeds`) must be enough to keep every account
natural. And `NoAllowanceLeft` speaks of the ledger, which becomes the
copy when a bundle ends. The invariant is

    IInv == TypeOK /\ Clean(ledger) /\ Clean(work) /\ Loaded

`Clean` says that a ledger is well typed and without allowances, also on the copy *between* two
calls; `Loaded` says that the calls still to run belong to the loaded bundle.
`CallClean` proves that any call that succeeds keeps a clean ledger clean, one
case per kind of call; the case of approve and deposit needs that both are for
the same amount, and that the call fails as a whole. The lemmas `...IInv` take the actions one by one,
`StepIInv` combines them.

Each further property has an invariant on top of it. `Solvent`, of the ledger and of the copy, is a lemma for those that
follow: the exchange's wallet is what the market has plus the sum of all accounts, since a step changes at most one
summand and the wallet by the same amount; so the exchange can pay what it does not refuse. `Conserved`: the supply
of a token stays `Total`, so a purchase can never take a balance beyond a request for `MaxAmount`. `HInv`, for
`TradingHalts`: a request that was read asks for `MaxAmount` or for nothing (`ScriptAsks`, `QueueAsks`); a bundle under
way has made every request that is done and not refused (`RequestsKept`; the exchange can pay); and for a pair
whose request was made the account still has it (`AllHalted`). What halts an account is
a request that has become valid for more than there is (`Upheld`). `FInv`, for `FundingReachesExchange`: in the middle of a bundle, the master's wallet lacks the
sum of the entries whose transfer ran, and a bracket's wallet has more only between its transfer and its deposit.
`CInv`, for `ClaimSparesWallets`: until another bundle is executed an account can
still pay what was read from it (`ClaimsHold`), and in the middle of a claim a wallet has at least the
withdrawals that are not forwarded yet, unless the account was credited in this batch (`WalletsSpared`).

`EstimateIsReliable` compares two executions of one bundle on different ledgers: the estimate, on a copy that
is thrown away, and the execution that comes later. No relation of a state to itself can say that, since what the estimate did
is forgotten; and how a bundle ends is a recursion over its calls. The invariant `EInv` therefore keeps a forward simulation. A *moment*
is a set of calls still to do and a ledger; `GoesOn` says that the next call of a moment
does not fail the bundle and leads to another moment of the same set. While it is estimated, the bundle has a set of moments from its
first call to where it is, all of which go on (`Rehearsed`); when the estimate succeeds, the last one has no call left
and the set is closed (`Promised`). Only the transfers out of the master Safe can fail a bundle, so it is enough to compare
the wallet of the master Safe: trades and batches leave it alone, and while the execution follows the moments it
has at least what they have (`Follows`, `PromiseKept`).

`FundsReturn`. Every step of the procedure is one of `LiquidityFunds` or leaves its variables (`ProcedureSteps`). `InTurn` adds that
a script only starts when nothing is pending, so there are never two bundles in the queue and none is overtaken, which is
the condition of `ClaimSparesWallets`.

`SafeProposals`. Two runs that overlap share nothing but the server's list. The invariant

    IInv == TypeOK /\ RunsOK /\ AllListedOK /\ LogOK

relates each run's nonce to what it saw (`RunsOK`), each proposal to the run that sent it (`AllListedOK`), and the log to the list
(`LogOK`); `NextNonce` says what the largest nonce of the list gives. For `SaltIsUnique`, `SaltsOK` adds that the salt of a
script that was given no nonce is above every nonce it saw, and not above the nonce that the same run reads later,
because the list only grows (`NoncesGrow`): so a fleet proposed before has a nonce below the salt of the next, and its own
salt is at most that nonce. A fleet executed on chain has a nonce that may be below its salt, which is why the property
exempts it and `EachFleetHasItsSalt` fails. For scripts that follow each other,
`QInv` adds that a nonce chosen is still the first available one
(`AllUpToDate`), that at most one script runs (`Alone`), and that the nonces listed are used from 0 on, each once (`Dense`).
Then the pending proposals in the order of their nonces are the abstract queue: proposing
appends (`QueueStep`), executing takes the head.

With scripts that overlap, `GInv` adds `NoGaps` to `IInv`: below the first available nonce every nonce is listed, and
a script about to propose has one that is not above it. Unless users give nonces, this is why the owners are never blocked.

`ProposalVerification`. The invariant is

    VInv == IInv /\ BuildsOK /\ ContentsOK /\ VerifierOK(verifier)

with `IInv` of `SafeProposals`, which the steps of verification leave alone. `ContentsOK` says that what a
proposal contains is what the run that made it built, with the gas of some `world`, and of the present one if nothing changed
since it was built; `VerifierOK` says of each stage of the verification what it has rebuilt, which nonce it looks for and what it
found. Whatever order the amounts arrive in, sorting gives the list of pairs in its own order: an ascending map of
`1..n` to itself is the identity.

`FleetProvision`. The invariant is

    IInv == TypeOK /\ ProvsOK /\ ChainOK /\ VMOK /\ ProvisionIsWhole /\ FailsByOwnDoingOnly

`ChainOK` has that what a master lacks is in the wallets and accounts of its brackets (a sum over
all addresses), that nothing lies at an address without a Safe, that between transactions no wallet of a
bracket holds anything, and which addresses of either factory are taken. `VMOK` describes the copy of the chain in the middle of
a transaction: which Safes it created, what it spent, and the one transfer that is not yet deposited. `ProvsOK`
says what a script knows of its fleet: whoever sends funds to named or new brackets owns them. What was provided stays
because owners never change, orders are only added, accounts only grow (`Larger`).

`BracketStrategy`. `HalfStepMargin` says nothing about deposits to come;
`DepositsByIndex` says that deposit `j` is for bracket `j - 1`, in quote tokens exactly below the
index. `NearestLimitBounds` bounds the rounded price, `IndexMargin` turns this into the margin for
every bracket on either side of the index, also when the index was clamped, and
`DepositsByIndexMargin` combines the two.

The other theorems of `BracketStrategy` speak of money. That the next deposit can be paid does not
follow from the types: it needs to be known what was spent. The invariant is

    SInv == DepositsByIndex /\ DepositsMade

where `DepositsMade` gives the master Safe's and every bracket's balance in closed form: after `funded`
deposits the Safe has paid `QuoteMade` shares of one token and `BaseMade` of the other. `ShareBounds`
says that `k` shares of `x` are at most `x` and more than `x - k`; with `TimesMonotone` the first
part gives `NeverRunsShort` (lemma `NextDeposit`), the second `OnlyDustIsLeft`. `BuildDepositsMade`,
`MakeDepositMade` and `StepSInv` take the actions one by one. `DepositsAreCorrect` combines the balances at the
end (`WhenDone`) with `IndexMargin`, which says that limits on the wrong side of the price belong to the other side of the index.

`DeployedBrackets`. None of the properties is inductive: two callbacks agree because both
saw the same promise, perhaps at different times, and the file is complete because of what was found before. The invariant is

    IInv == TypeOK /\ Counts /\ Rows /\ Found

`Counts` says that a promise that nobody asked for was not looked up; with it, asking only for what is
missing keeps every count at most one (`AskingMissing`, `Counting`). `Rows` ties where a callback is to the cache:
a callback that is done has two known tokens, one that failed has a failed one. That this outlives
what other callbacks do is the fact `Stable`, that a settled promise never changes, which `FetchIds` and the
lemmas on answers prove of every step of the cache; `RowStays` and `TokenAwaited` carry it to the rows. `Found` compares
what the script found with the brackets there were when it started. `CallersAgree` follows since a set of
tokens cannot be all known and have one failed (`IInvAgreement`).
`WInv` adds what callbacks wait for: a callback that waits has asked (`WaitersAsked`), nobody withdraws a question
(`StaysAsked`), and a lookup that is not settled has an open call, or an address whose lookup was started
(`LookupsGoOn`). The chain of waits, from callback to id to address to method, therefore always ends at the node.

`SetupChecks`. A verdict speaks of what was true when each thing was read, which is not
what is true when the verdict is given. The invariant

    IInv == SeenOK /\ Sound(check, query, seen, storage)

says of every stage of a check that what it has already found out was so in some moment of `seen`, and if it fails, that
something was wrong in one. `Sound` can only gain from more moments, so a change of
the chain or the market is one lemma for all stages; storing a price changes no lookup
(`SameLookups`), because no lookup uses the key it is stored under. The lists of orders are put together by
`FlattenSeq`, whose members are those of its parts. For `NoFalseAlarm` there is only one moment, and
each reason to refuse contradicts that it is correct.

`Airdrop`. The invariant says, of the script, its queue, the executed proposals and the balances: the sums are those of the
callbacks that ran (`Added`); what was compared or estimated is there, or the Safe spent of this
token since (`Compared`, `Covers`); and receivers have the sum of what succeeded. The central lemma is
`BundleOutcome`: the transfers of a file, one after the other, succeed exactly if the Safe has the
sum of each token, and then move these sums. Unless a token is spelt in two ways, the
sums per spelling and per token are the same (`SpellingsAndTokens`), and in any case a token needs at least
what one spelling needs, which is why no refusal is unjustified.

Sums, folds and lists of any length are met by smallest counterexamples in place of induction: `SmallestNumber` and
`SmallestSet` of `SumTheorems` say that a set of numbers, or of subsets of a finite set, that violate a statement has a
smallest member. From this follow the laws of sums over finite sets (one summand changes, one is removed, all are
zero or compared), of `FlattenSeq`, and of the folds of `Airdrop`. Three definitions are
written in a form the provers can read: `ValidTransfers` as a fold, `Transfer` with two
separate updates, and `Sorted` by what it gives instead of a library's sorting.

### What is only model-checked

What is about liveness and therefore outside the provers' reach: `EveryTurnComes`, `FundsReturn`,
`EveryScriptEnds`, `EveryCheckEnds`, and the fairness part of `ImplementsQueue`. Of three of them the part that is about safety is
proved: `NothingBlocksTheOwners`, `NoCallbackWaitsInVain` and `ProposalsAreAQueue`;
`ChecksAreTyped` has, of a setup check, that it always has something to wait for.

`WhatIsReadArrives` is not proved either: it compares sums over all accounts, some of which are refused, at two
moments of an execution. All other properties that passing runs check are stated by a theorem.

## 7. What is not modelled

* Encoding of calls, signatures, gas amounts, formatting of prices and
  amounts, prompts: data the properties do not tell apart, or pure output.
* The exchange's solver, prices and fees: a trade is any exchange of equal value
  with other traders. Real trades may be better for the bracket, which the
  properties do not depend on.
* The Synthetix bot (`synthetix/facilitate_trade.js`): it keeps no state between two runs, its two orders
  are valid in one batch only, and no other component reads them. If its transaction is mined late its
  orders expire; the next run places new ones.
* `returnFirstNotErroring` of `js_helpers.js`: no script uses it at this commit.
* Wrapping ether beyond its proposal: the bundle is a single call of a contract outside this repository.
* Simulator, viewer, printing, migrations and test set-up: no state the
  protocol depends on.
* Memory limits and 256 bit overflow: the amounts of a token are far below 2^256.

## 8. Plan

Done, in this order, the most important behaviour first: `BatchExchange`, `LiquidityFunds`,
`SafeProposals` with `ProposalQueue`, `BracketStrategy`, `FleetProvision`, then
`ProposalVerification`, `TokenInfoCache` with `DeployedBrackets`, `PriceOracle` with `SetupChecks`, `Airdrop`, `FundsReturn`,
and the proof modules.

Left, to extend the model: a lifecycle that joins `FleetProvision` and `FundsReturn`; two Safes
that airdrop at once.

Left, to prove: `WhatIsReadArrives`; liveness is beyond the provers.

## Running

    tlc -workers 2 -config funds_withdraw.cfg MCLiquidityFunds.tla
    tlapm LiquidityFundsProofs.tla

A run's module and expected result are in `PROJECT.json`.
