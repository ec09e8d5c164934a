# TLA+ verification of Mirror

Mirror lets followers copy lead traders with FXRP that sits in per-lead
sub-accounts of a vault on Flare. Trades are assembled by a TEE extension,
executed on a venue, and committed to the vault only after a Flare Data Connector
(FDC) proof of the transaction. A second extension, the AI agent, scores leads,
watches positions and raises alerts. This directory models that system in TLA+,
checks it with TLC, and proves with TLAPS, for any values of the constants, all but one
of the invariants that the runs check and every action property.

Paths below are relative to `src/`.

## Inventory

| component | source | state | operations | what makes it correct |
|---|---|---|---|---|
| MirrorVault | `contracts/src/MirrorVault.sol` | per (follower, lead): balance, requested withdrawal, lock; nonces of proof-free batches; FXRP held | deposit, depositFor, requestWithdrawal; by the sender: transferForExecution, receiveExecutionProceeds, settleFromProof, settleBatch, finalizeWithdrawal; owner setters | a lock is covered, nothing leaves uncharged, every requested withdrawal can be paid |
| InstructionSender | `contracts/src/InstructionSender.sol` | open fills, used proof hashes, batch nonces, router, verifier, pooled tokens | executeMatch, applyFdcSettlement, settleBatch / accrueFees / finalizeWithdrawal under a nonce, setters; TEE instruction sends | fills and transactions pair one to one, each fill is committed once as executed |
| MirrorFee | `contracts/src/MirrorFee.sol` | accruals per lead, used proofs, FXRP held | accrueFee, releaseFee | one net fee per settled fill |
| MirrorRegistry | `contracts/src/MirrorRegistry.sol` | leads with terms, followers, follow relation, two lists of it | registerLead, registerFollower(As), followLead(As), unfollowLead, setLeadVerified | a follower meets the terms it agreed to; the lists agree |
| MirrorFsaOnboarder | `contracts/src/MirrorFsaOnboarder.sol` | none | onboard: what is still missing of register, follow, deposit | all or nothing, no FXRP lost on the way |
| XRPL monitor with FDC payment attestation | `scripts/relayer/xrpl-monitor.ts`, `fdc.ts`, `fdc-payment.ts` | status per address on disk and in memory, runs in flight, the attestation gate, account nonces | processPayment from the XRPL stream and from POST /process, attest, wait for the proof, executeInstruction | active means executed; no transaction loses its nonce; every run ends |
| Matching engine, TypeScript | `fce-matching-engine/typescript/src` | promise chain, greeting counters, outcome log | action handlers (MATCH_V1, TOPUP_V1, greetings), state reads, shutdown | one handler at a time, answers in order, nobody waits forever; instructions pay what the signal was worth |
| Price anchoring | `contracts/src/AnchorDivergenceGuard.sol`, `FtsoPriceReader.sol`, `mocks/MockSparkDexRouter.sol` | feeds, the anchor and its age | exactInputSingle, exactOutputSingle, setAnchorSnapshot | large swaps stay near the anchor, no swap takes value out |
| BlazeSwap pair and its script | `scripts/venues/seed-blazeswap-pool.ts` | the pair's reserves, the deployer's funds, the venue's configuration | eight transactions of one process, which may die between any two | the pair opens at the feed price, and is configured only when it can trade |
| Venue mocks | `contracts/src/mocks/MockKineticPool.sol`, `MockEnosysCDP.sol`, `MockFirelightStrategy.sol` | positions, totals, thresholds, prices, shares, yield | supply, borrow, repay, liquidate; open, adjust, mint, repay, close; deposit, withdraw, set yield | totals are sums of positions, users cannot make a position unsafe, a share keeps its worth |
| AI agent | `fce-ai-agent/typescript/src/app` | requests behind a mutex, the outcomes it fetches | SCORE_V1: score, classify, drift | the answer depends on what the lead did, not on the order it is told in |
| Agent scripts | `scripts/ai-agent` | the alert files and store, the canary's progress | health monitor and canary, drift monitor and canary, score publishing and canary, alert recorder | canaries end and harm nobody; what is reported as published was on the board; alerts in order |
| MirrorLeaderboard, MirrorHealthAuth | `contracts/src` | scores, ranked leads, signer; opt-ins and caps | updateScore, setAiAgentSigner; authorize, revoke | a lead is listed once; a top-up was opted into |
| Go and Python extensions, registration tools, other relayers, deploy scripts, frontend | see `PROJECT.json` | | | not modelled |

**Interactions.** Followers call the vault and the registry. The onboarder calls
both on a follower's behalf. The executor (or the owner) calls the sender, which
calls the vault, the router and the fee contract inside one transaction. FDC
attests every transaction, the sender's and everybody else's; proofs come back
through `applyFdcSettlement` in any order and as often as somebody submits them.
The XRPL monitor is one Node process that shares a Flare account with itself and
possibly with other processes. The extension server takes requests from the
tee-node and, on a match, calls back into it and into price feeds; its answer is
a list of instructions that others execute later on one of four venues. The
agent's scripts share the Kinetic pool, the leaderboard, one publishing account
and one alert file.

**Hard behaviour.** Between `executeMatch` and its proof the FXRP is gone or back
but no account is charged or credited; other calls run in between, including
reconfiguration and proof-free batches. Proofs carry no fill id. Two requests
of the monitor can read the same nonce. The monitor crashes between a persisted
status and the step it announces. A match awaits while other requests arrive,
and a handler may throw. Prices move between the two reads of a match, and again
before its instruction executes. A canary dies with the pool's price lowered.
Scripts die between transactions and are run again on what is left. Several
processes write one alert file. `PROJECT.json` lists these as hazards with their
lines.

## Modules

| module | models |
|---|---|
| `MirrorAddresses` | addresses, amounts, accounts |
| `MirrorVault` | the vault; `VaultSpec` is the vault under a sender that may pass any argument |
| `MirrorFee` | the fee contract's share of a settlement and of `accrueFees` |
| `InstructionSender` | the sender composed with vault and fee contract; `Spec` is the whole settlement path |
| `FollowerLedger` | abstract: what a follower is promised, whichever contracts keep the books |
| `MirrorRegistry` | the registry |
| `Onboarding` | onboarder, registry, vault and the followers' wallets |
| `RelayerNonces` | a Flare account as the scripts see it (external), of the monitor and of the score publishers |
| `XrplMonitor` | the monitor's runs, the gate and crashes, over `RelayerNonces` |
| `ExtensionServer` | the matching engine's server, handlers, outcome log and process |
| `VenueParties` | the users and the price unit that the venue mocks share |
| `PriceFeeds` | FTSO feeds and the block clock |
| `SparkDexRouter` | the mock router with its divergence guard |
| `BlazeSwapPool` | a Uniswap V2 pair (external), its seeding script and other traders |
| `KineticPool`, `EnosysCDP`, `FirelightStrategy` | the mock venues, each with a specification of its own for the proofs |
| `MatchSizing` | validation, notional, fan-out and minimum output of MATCH_V1, as operators |
| `VenueExecution` | a match on each venue: signal, two feed reads, instructions, execution, everybody else |
| `AlertFeed` | `sendAlert` of each process, the file, the recorder and what it posts to itself, the frontend's store |
| `HealthTopUp` | opt-ins, health monitor, health canary and TOPUP_V1 over the pool |
| `StrategyScoring` | score, drawdown, classification, drift and the synthetic fixtures, as operators |
| `AgentScoring` | SCORE_V1 behind the agent's mutex, with the outcome log it fetches |
| `MirrorLeaderboard` | the leaderboard |
| `ScorePublishing` | the publishing script and the score canary on one account of `RelayerNonces`, over the leaderboard |
| `DriftWatch` | drift monitor and drift canary |
| `AgentDuties` | composition of the agent's duties |
| `SumProofs` | lemmas on quotients, products and sums over finite sets, for the other proofs |
| `MirrorVaultProofs`, `InstructionSenderProofs` | theorems: the vault alone; the settlement path and its ledger |
| `OnboardingProofs`, `MonitorProofs`, `ServerProofs` | theorems: onboarding; the XRPL monitor; the engine's server |
| `VenueProofs` | theorems: router, CDP, strategy, pair, and matches executed on them |
| `AgentProofs` | theorems: pool, leaderboard, canary, scores and classification, alerts, publishing, drift watch, and their composition |
| `MC*` | constants and scenarios for TLC |

**Contracts.** One action is one external call that commits. A call that reverts
changes nothing, so a `require` is a guard, and so is any revert of a callee: a
call into another contract is a conjunct of the caller's action. What interleaves
is transactions. `pendingFills` is the sequence of fills by id, `chain` the
sequence of swap transactions by hash, so that a proof of transaction `t` is valid
exactly if `t` is in `chain`. Histories (`legacyCredited`, `legacyDebited`,
`legacyApplied`, `leadPaid`, `settlements`) record what was done, for properties
only; no guard reads them.

**Monitor.** One action is what a run does between two awaits; runs of different
payments interleave, any await but the one on the gate may reject, and a crash
with restart empties the memory at any point. `attestationGate` is the sequence
`gate`, in which a run waits until it is the head. An RPC node that is sent a
nonce accepts it, takes it as a replacement of a pending transaction, or refuses
it; which of two fees is higher is left open.

**Server.** `queue` is the promise chain: requests in order of arrival, the head
runs. A handler that awaits nothing is one step, a match is two. When a handler
rejects, nothing catches what `serve` rejects with, the microtasks that are ready
still run, and then Node ends the process (`Die`). SIGTERM lets the chain drain
(`Shutdown`, `Exit`), a kill does not (`Kill`).

**Venues.** `ReceiveSignal`, `ReadFxrpFeed` and the step that reads the second feed
and answers are the handler; a block may set either feed between them. `Execute`
takes any answered instruction in any order (`instructions` is keyed by the position in
the answer), after any number of other steps;
users, owners, traders and the seeding script go on meanwhile. What a swap paid
is what the event or the reserves say.

**Agent.** Each transaction, read and post of a script is a step. A canary is a new
process, with a list of alerts of its own. It sends its follower's transactions one
after the other without waiting for them, and the price from the owner's account;
what is sent is mined in order at any later time, and may revert or lose its nonce. The
canary may throw at any of its own steps, between two sends or with the price down,
and the next one starts from there, with transactions of the first still pending.
Publishers share one account, as the monitor's runs do: `publishScore` reads the nonce
and sends later, so of two that read one nonce the second is refused or replaces the
first, and each then waits for the receipt of whichever was mined. A transaction may
also revert because the signer was replaced. The recorder is one more process that
alerts: with the webhook's URL in its environment (sink `echo`) it posts each alert
it gets to itself. A behaviour has one duty (`duty`): duties
share the alert feed and otherwise no state, so their steps commute.

### Abstractions

- Amounts are small naturals; a `uint256` overflow reverts in Solidity 0.8 and is
  left out. Plain FXRP donations to the vault are left out, as no book records them.
- In the settlement model the router pays any amount out, so nothing there depends
  on prices or slippage. The router's own model has prices and no token liquidity:
  a swap it cannot pay reverts.
- Executor and owner may both make the executor's calls and are not distinguished;
  `setAuthorizedExecutor` is left out with that. Allowances are part of a revert.
- Batches have at most two items and may be empty.
- `applyFdcSettlement` accrues and releases the fee in one transaction, so the two
  are one conjunct and cancel in `accruedFees`. The verifiers of the sender and of
  the fee contract are wired separately, as in the code.
- A lead's rate appears in `MirrorFee`, its full terms in `MirrorRegistry`; the two
  models are not composed, since settlement reads nothing else of the registry.
- Strategy types, risk profiles, keys, metadata and messages are opaque.
- The monitor's per-transaction status key is left out; the address key is modelled.
- Prices are naturals with `PriceOne` as unit, of few digits; decimals of tokens are
  scaled away. Rounding is kept: every division is the integer division of the code.
- Scores are computed in hundredths where the code uses floating point, and a ratio
  with a square root is compared by squares. Events are records of the right types:
  the handler validates none of their fields, and what a malformed one does to a
  score is outside the model.
- Wallets and allowances of the pool's users are not modelled. For the canary's follower,
  which is funded only when it has too little FXRP, that means that any supply may fail.
- Of a process's list of alerts only the last `KeptAlerts` are kept, since nothing
  reads the others. `getAlerts` only reads.
- The health monitor runs once.

## Model checking

Every run is in `PROJECT.json` with its config. Deadlock checking is off, since the
bounded systems stop by design once their bounds are used up.

| run | checks | instance |
|---|---|---|
| `settlement` | locks equal the open sales; funds cover what is owed; one-to-one settlements; no open fill without a transaction that can settle it; one net fee per fill; the follower's ledger is implemented; withdrawals paid under their nonce | scenario *settling*: two followers, one lead, two fills, one foreign swap; scenario *earning*: one follower, three tokens, profits with a fee of zero, of one and larger, FXRP for two fees |
| `reconfiguration` | locks and funds again, the cover of locks, replay protection, outflows charged | one follower, one lead and the zero lead, two routers, proof-free batches, two owner calls; a seed or a foreign sale instead of owner calls and batches |
| `onboarding` | entitlement, the two lists, every follower's FXRP, fixed terms | two followers, three kinds of terms, up to three list entries |
| `monitor` | the bound on attempts, attestations not replaced, no intermediate status without a run, active means executed or replaced, every run ends | scenario *gate*: two payments, one crash; scenario *retry*: one payment twice, two crashes that lose the status files, a busy key |
| `server` | one handler at a time, answers in order, the log at its limit, every request settles | six requests, two that may reject, one signal |
| `venues` | the venues' books; users keep CDPs safe; a share keeps its worth; large swaps close together; the router keeps its value; the pair opens at the feed price; slippage | four venues, two users, two prices per feed, two ticks, two runs of the script |
| `agent` | books of pool and leaderboard; canaries end and leave users safe; loans stay healthy; alerts in order; answers consistent; published scores were recorded; drift alerted each cycle | four duties, two users, two canaries, two publishers, lists of up to five outcomes |

**Scenarios.** A run with scenarios explores the steps of one specification under two
sets of bounds, chosen once in the initial state (`scenario`). *Settling* leaves out
profits and a third token, *earning* leaves out withdrawals and the second follower;
each is a restriction of `Next`, never an extension. *Gate* and *retry* are instances
of `XrplMonitor` with other constants. `reconfiguration` has a state constraint
(`OwnerOrOthers`): owner calls and batches are not combined with seeds and foreign
swaps. Its two routers are symmetric: no constant and no formula it checks tells
one from the other, and it checks no liveness.

**Bounds.** Two fills are the smallest number at which proofs can be exchanged,
arrive out of order or be replayed; a foreign swap with equal amounts is the
smallest confusion between transactions. Amounts are 0 and 1, so that every
comparison has a case on either side, and `MaxFunds` = 2 lets an account hold a
lock and free funds at once. Two owner calls suffice to change a setting and to
change it back. Two payments are needed for a race; two crashes let a run
restart and crash again. `MaxAttempts` is 2 (5 in the code) and `MAX_ENTRIES` 1
(10000 in the code): retries, the last attempt and a full log all occur. `MaxTxs`
is 4 nonces per account; past it a submission only fails as a rejected await.

A clock tick is as long as `ANCHOR_INTERVAL` and longer than a deadline, so
`AnchorInterval` is 1 and `Window` 0: an anchor that is just in time, one that is too
old, and an expired order all occur within `MaxTime` = 2. The FXRP prices lie 15% apart
and those of USDT0 4%, on either side of the 5% tolerance of `03-deploy-venue.ts:51`.
Trades of 30 and 120 lie on either side of the notional threshold. The script runs
twice, so that a run meets what a dead one left. The canary's amounts are those of the code with a tenth
of a token as unit (supply 100, borrow 60, opt-in up to 200), fine enough for a top-up that
covers only part of what is missing; it drops the price to 70% as the code does, and runs
twice, since only a second canary meets the price of a failed one. The health monitor runs next
to one canary, not to two (`FirstCounts`). The other user supplies up to 60 in steps of 30. The
command line publishes one score and the score canary two, so that each may outbid the other. Feeds keep two alerts (50 in
the code). Posts are explored under the duty drift, with each place the URL may point to
(`SinkOf`); under health nothing is posted, as in the `.env.example` of the repository. Fixtures have five days (30 in the code); scores use a window of three days
and a target of four outcomes, so that outcomes fall out of the window within two days.
Each config names all its bounds.

**Fairness.** None for the contracts: no one must ever call, so they have safety
properties only. For the monitor, weak fairness of each run's next step: every
polling loop in `fdc.ts` has a bounded number of rounds, and viem times out on a
receipt, so each await settles, if only by rejecting. Nothing is assumed of
payments, blocks or crashes. For the server, weak fairness of handlers, because
the event loop runs what is ready and the decrypt and feed calls time out, and of
the end of a process that has an unhandled rejection. A restart is not assumed.
For the agent, under the duty health only, weak fairness of `Due`: as long as a step of
a started canary, the mining of a transaction or the end of a fetch is possible, one of
them happens. Reads and receipts settle or time out, a node mines what it accepted, and a
fetch ends by its own timeout at the latest. Each of them happens a bounded number of
times, so none is put off forever by the others. Nobody has to start a canary, and nothing is assumed of `SCORE_V1`,
whose fetch has no timeout.

### Where the code and its documentation disagree

Five runs end in a counterexample; `PROJECT.json` quotes the lines.

- `fee_rate`: `accrueFee` divides by 2000, so a rate of 1000, documented as 10% of
  the profit, is charged as half of it.
- `monitor_race`: an execution is sent outside the gate. When its nonce goes to
  another transaction of the same account, the receipt of that transaction is taken
  for its own, and the address is shown as active without an execution.
- `monitor_restart`: a crash after `minting_fxrp` is persisted leaves it on disk,
  and `POST /process` then returns it as it is.
- `server_reject`: one rejecting handler ends the process, and with it the requests
  behind it; the test on serialization calls `handleRequest` and never meets `serve`.
- `topup`: TOPUP_V1 answers with calldata for a follower who never opted in.

Noticed on the way and not checked: `MirrorFee.sol:16` speaks of accrual by lead and
epoch, while the code keys it by lead only; `docs/mirror-prd.md:217` routes the
protocol fee to FIRE, while no code moves it anywhere. The guard looks at the price of
`tokenIn` alone, and a small swap, or one of the other token, renews the anchor
unchecked. `docs/phaseImplementation.md:195` takes the minimum output from the anchor
feed, the handler takes it from block-latency prices. The seeding script caps the FXRP
it provides by its balance and not the USDT0, so with too little FXRP the pair opens
dearer than the feeds. A Firelight deposit too small for a share gets shares equal to
its assets. The suggestion of `health.ts:46` leaves the collateral's price out. A
canary that fails leaves the price lowered until somebody sets it. `latest.json`
alternates between the lists of its writers. A recorder started with the same `.env` as
the others, as `alert-webhook.ts:11` loads it, posts each alert to itself again and
again, and `latest.json` fills with repetitions of it. When the command line and the
canary publish under one nonce, the one that was outbid reports a score that never was
on the board, and what `score-canary.ts` reads afterwards, the number of ranked leads
and whether two ids differ, need not show it. The health canary sends its borrow without
looking at the deposit before it: when that one fails and an older one still allows it, the borrow
takes effect on the older one, and the drop of the price may then leave the follower within
reach of a liquidation.

## Proofs

All theorems hold for every value of the constants that meets the assumptions named
in the modules (`VaultAssumption`, `MonitorAssumption`, ...): any followers, leads,
tokens, routers, payments, keys and amounts, and any bounds. The assumptions give
constants their types. Those that say more are listed at the end of this section.

**Sums** (`SumProofs`). Books are sums over accounts, fills or users, written with
`SumFunctionOnSet` of the community modules. Adding an element, changing one value,
comparing two functions point by point: each lemma takes a minimal counterexample among
the subsets of the finite set, which exists because strict inclusion of finite sets is
well founded, so that no induction theorem with an operator argument is needed. A fact
about every number up to `n` is the set of the numbers it holds of, and the same argument
gives the least one it would fail at (`LeastNumber`, `UpTo`). In this form a recursive
function has the values its definition gives it (`RecursionExists`, on `Unrolls`), and a
sum over consecutive numbers is known once its partial sums are (`ComesTo`,
`SumFromOne`). Lemmas on quotients and products serve prices and ratios.

**Vault** (`MirrorVaultProofs`). The invariant is `VaultInv`, types together with
`LockedCovered`. Neither is inductive alone: balances stay natural numbers only
because settlements are covered, and the cover is arithmetic only over typed
balances. `legacyDebited` makes the cover hold next to proof-free batches, which
look at no lock. One lemma per call, then `VaultLocksCovered`, and from it
`VaultOutflowCharged` and `VaultLossExplained`; `VaultNoReplay` counts nonces with
the library's theorems on cardinality. All of it is under `VaultSpec`, a caller
that may ask for anything. What holds of each step is proved for `VaultCall`, the same
calls without the bounds of `VaultNext`.

**Settlement** (`InstructionSenderProofs`). `SenderInv` adds the types of the fee
contract and of the sender; the vault's lemmas are cited, not repeated.
`TypesHold` says in effect that no checked subtraction leaves the naturals.
`LocksCovered` carries the vault's promise into the composition; `NoReplay`,
`OutflowsCharged` and `LossesExplained` carry the others, since each step of the sender
is a `VaultCall` or leaves the vault alone (`SenderCallsVault`). `SettledOnce` is
inductive with the types: a settlement takes a fill out of `OpenFills` and a
transaction out of the unused ones at once. `ReleaseProofsFresh`,
`AccrualsOnlyGrow`, `FillsStayFrozen` and `WithdrawalsUnderNonce` follow from the
few actions that touch what they speak of (`FillSteps`, `FeeSteps`).

The four books hold on top of `SenderInv` and `FillsTrade` (a recorded fill trades
an amount of one token for another).

- `LocksExact`: a sale adds its amount to one lock and to the open sales of that account,
  a settlement takes it from both.
- `VaultFundsCovered`: what the vault holds equals what accounts can draw plus the
  proceeds of unsettled purchases, up to batches (`Solvency`, an equation, is inductive;
  that withdrawals can be paid is a consequence).
- `FillsFindProofs`: `NoFillStarved` is not inductive, since a proof of an equal
  transaction may be taken for a fill. `FillsMatched` is: for each content of a swap, as
  many open fills have it as unused transactions of this contract.
- `LeadsPaidPerFill`: `FeesBooked` adds that the lead of a settled fill with a profit is
  registered, so that its rate, and with it the fee counted for the fill, does not change later.

`LedgerImplemented` is the refinement: under the
mapping in `InstructionSender` (equity is balance plus requested withdrawal,
reserved is the lock, a match is a fill) each call is a step of `FollowerLedger` or
leaves it alone. `FinalizePaysOut` needs the cover of locks: what is paid was once
unreserved, and it must still be. `MatchExecutes` needs `Available`,
`SettlementCommits` that `Delta` reads the fill as it was recorded.

**Onboarding** (`OnboardingProofs`). Registry types, `FollowersStayEntitled` (by
either way in, a follower is registered, its lead is, and the allocation meets the
minimum), `TermsStayFixed`, and `ListsAgree`: both lists are extended by the same
call, so the number of times each names the other grows together; the lemma is that
appending adds one to a count. `FundsKept` takes the vault's invariant
into the composition (`FundsInv`) and follows one follower's wallet and the sum of
its accounts through each call. `VaultImplemented`: every step is a call of the bare vault
or leaves it alone, so its promises hold here.

**Monitor** (`MonitorProofs`). The invariant `Inv` has four parts that need each
other. `GateInv`: the gate lists exactly the runs that wait for it or hold it, each
once, and the holder is its head (`OneRequestAtATime`). `IdleInv`: without a crash, a
payment without a run has a terminal status (`NoStatusLeftBehind`). `DoneInv`: a run
that finishes has its execution mined without a revert, or its nonce went to another
transaction (`ActiveOnlyWhenDone`). Types bound nonces by what was sent. The steps
of the monitor are grouped into those that move one run and leave the nonces alone and those
that send or mine. `AttestationsKept` adds `KeptInv`: while a run is between reading
its nonce and sending, what is pending on the attestation key is not an attestation,
so what it may replace is not one. It assumes `Separate`: executions use another
key, and nobody else attests; without this, `monitor_race` shows what happens.

**Server** (`ServerProofs`). `ServerInv`: the chain is the end of `arrived`, all before it
has settled, and only its head may run (`ChainInv`, from which `OneHandlerAtATime`); a
counter is the number of settled requests of its kind that were not refused, among those that
arrived at this process (`AnswerInv`, from which `AnswersCountArrivals`); matches are
logged in the order of the chain, and the log is the end of all matches, as long as the limit
allows (`LogInv`, from which `LogHoldsLatest`). The lemmas say what each way off the
chain does: an answer, a rejection, the end of the process.

**Venues** (`VenueProofs`), first each under its own specification with any natural amounts.
`RouterInv` is types together with `NearAnchor`: the
price of the last large sale lies within a tolerance of the anchor now in force.
`AnchorStaysFresh`: after a swap the anchor is less than an interval older than the
feeds. `LargeSwapsClose`: two consecutive large sales of a token are at prices within
two tolerances, however often the feeds move and the anchor is renewed meanwhile.
`SwapsKeepValue` is arithmetic on the floor of a quotient. `DebtIsRepayable` and
`PoolExplained` are equalities that each call keeps; `UsersKeepCdpSafe` needs that a ratio
is monotone in the collateral and antitone in the debt (`RatioMono`); `SharesKeepValue`
compares products instead of quotients.

Then the composition. `VenuesImplemented`: whatever the engine answered and whoever executes it, router,
CDP and strategy only make steps of their own specifications, so what is proved of
them alone holds here (`VenuePropertiesHold`). `VenueInv` adds three things. The sums over
users give `VenuesKeepBooks`. `SeedInv` says what each step of the script has left
behind; in particular the amounts it sized are balanced (`SeedBalanced`) until they are
added, wherever an earlier run died, which gives `PairSeededBalanced` for
feeds that are not zero. `EngineInv` says that an instruction that waits was priced
(`Priced`): its minimum output is the one of the signal at the two prices read,
and its amount is not changed by waiting; with the router's and the pair's own guard on the
minimum this is `SlippageIsBounded`.

**Agent** (`AgentProofs`). `CallsKeepLoansHealthy`, `PoolBooksBalance` (totals are the sums of
positions) and `LeadsRankedOnce` (the flag `isRanked` is true exactly for the leads in the list)
are about the pool and the leaderboard alone; `AgentUsesPool` and `AgentUsesLeaderboard`
show that the agent's duties implement them. The invariant of the
composition, `AgentIInv`, is a conjunction with one part per duty, since no duty writes
what another reads but the alert feed:

- `PledgeInv`: for some number `n` of canaries, the follower's debt, with the borrow that is mined
  next, is at most what `n` of them borrow, and its deposit exceeds that debt by what `n` of them
  keep; a borrow is mined right after the supply sent before it. So `CanaryPledged`:
  at the dropped price the position stays above the threshold the pool was deployed with,
  at whichever step a canary dies and whatever of its transactions fails. The code has no way to
  stop a borrow whose supply failed, so the claim is made only until one takes effect
  (`unbacked`, a history no guard reads).
- `AlertFeedInv`: what is in flight of a process is later than what the feeds have of it, and
  each feed has it in order (`FeedsKeepOrder`), cut off at its limit. The recorder has it once,
  as long as it does not post to itself.
- `PublishingInv` joins `CallsInv` and `CanaryProgress` to the leaderboard's invariant. The first
  says of every publisher that its transaction holds its nonce or was outbid there, and that what is
  mined and did not revert is on the board; so a receipt that reports success is of a score that
  was put on the board, one's own unless it was outbid (`SuccessWasRecorded`). The second carries
  this from the canary's first score through its second to its end.
- `DriftInv`: what the monitor has raised is a function of its cycle and lead
  (`DriftAlertsComplete`).
- `ScoringInv`: every answer is what score and classification make of the events it was
  given, on a day that has come, so that `AnswersConsistent` is a statement about functions
  (`AnswersStayConsistent`).

Those functions are proved about in lemmas of their own, for lists of any length.
`ByTimestamp` is a stable sort: `Place` ranks an event among all, ranks are a bijection
with the positions, and the list is in the order of time (`SortedByTime`). Two orders of
the same events are sorted alike (`RearrangedSortAlike`) if events of one time
come in one order; otherwise the answer may differ, as the direction series and the equity
follow the sorted list, and the code breaks no tie. `ScoresOfSortedAlike` adds that every
part of a score lies between 0 and 100, and that only the data completeness depends on the
day, and falls. `DrawdownIsMax`: the one pass of
`maxDrawdown` finds the worst of all falls. The condition `Solvent`, that no return is
below minus one, is needed: a negative equity has fallen furthest from the smallest equity
before it, and the pass compares it with the largest. `FixturesToldApart` computes the autocorrelation of
the fixtures for any number of days.

**Assumptions that say more than a type.** `AddressAssumption` and `PartiesAssumption`:
followers, leads and users are finitely many, as callers at any time are.
`CanaryAssumption`: the canary's deposit carries its loan at the price it
sets, with the loss of one rounding; the code's 10 and 6 FXRP, 0.7 and 11000 meet it.
`FixtureAssumption`: a fixture has three days or more, and the threshold is one that a
fixture of that length can reach, at most 96 hundredths for the 30 days of the code; that
the classifier then tells the two fixtures apart, as
`fce-ai-agent/typescript/src/__tests__/drift.test.ts` expects, is `FixturesToldApart`.
`Separate` is a hypothesis of `AttestationsKept` only.

### Proved only

`LossExplained`, `FillsFrozen`, `FeeProofsSettled`, `AccrualsNeverReleased`,
`GateHeldByHead`, `SwapsRenewAnchor` and the refinements `VaultImplemented`,
`VenuesImplemented`, `AgentUsesPool` and `AgentUsesLeaderboard` are stated by theorems and by
no run of their own; they hold on the instances of the runs as well. So are the theorems
about operators, `DrawdownIsMax`, `SortedByTime`, `RearrangedSortAlike`,
`ScoresOfSortedAlike` and `FixturesToldApart`, of lists of any length.

### Model-checked only

- Liveness (`RunsEnd`, `RequestsSettle`, `CanaryEnds`): fairness and `ENABLED` are out of the
  prover's reach.
- The five runs that end in a counterexample.

Every other property of a run is stated by a theorem. The library's induction theorems take an
operator as an argument, which the provers do not instantiate; where the data call for
induction (a sort, a recursive pass, a sum over a list), the proofs take a least
counterexample instead.

## Not modelled

The sender's TEE calls and the registration tools, which drive registries whose
contracts are not in the repository; the Go and Python extensions, which have
greetings only; the scaffold sender; the other relayers and the deploy, provisioning
and smoke scripts, which are straight-line; frontend and decode server, which keep no
state. `scripts/venues/swap-loop.ts` is not modelled: its swaps are among those of the
other traders. `PROJECT.json` gives the reason for each.

## Plan

Done: settlement with its ledger, onboarding, the monitor, the server, venues and
price anchoring, the agent with its scripts, and the proofs above. What would come next:

1. Proofs: that a follower's ledger is kept under an abstract vault without batches.
2. One abstract server that the TypeScript, Go and Python extensions implement.
3. The composition of `VenueExecution` with the settlement path, where the sender is
   the one that executes a swap.
