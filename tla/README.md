# Ayni Protocol: TLA+ models, checks and proofs

AyniProtocol lends stablecoins against collateral. A borrower's debt is a *claim*; a claim is
funded at once by a liquidity pool, or waits as an intent until a solver (or later the pool)
fills it. This directory holds TLA+ modules translated from the contracts, the TLC
configurations that check them on small instances, and proofs for every instance.

Paths below are relative to the repository root.

## 1. Inventory

| Part | Keeps | Operations | Talks to |
|---|---|---|---|
| Vault `src/AyniVaultCore.sol` | positions, solver orders, active order per user, totals, risk parameters with pending changes, paused | deposit, withdraw, open / cancel / mark filled / increase / repay / liquidate (solver and pool claims), set/apply of six parameters, pause, recover | asks the oracle for a price, the router for `claim_debt_state` |
| Pool `src/AyniLiquidityPool.sol` | shares, allowances, cooldowns, interest index and rate, loans, reserve, rate model | ERC-4626-like deposit/mint/withdraw/redeem, cooldown, fund / increase / settle, rate model behind a timelock | called by the router; holds debt tokens |
| Router `src/AyniProtocol.sol` | claims, holders, the pool of each pool claim, nonces, the market's pool, settler, admins | deposit, withdraw, borrow, open, cancel, confirm_fill, fill_with_pool, transfer, repay, liquidate, administration | calls vault and pool; called by the settler; answers the vault |
| Settler `src/AyniDestinationSettler.sol` | nothing | fill | pays the recipient, calls `confirm_fill` |
| Oracle `src/AyniOracle.sol`, `src/ManualPriceFeed.sol` | feed, staleness, fallback, pending changes | get_price, set/apply of four settings | read by vaults |
| Registry, factory `src/AyniVaultRegistry.sol`, `src/AyniVaultFactory.sol` | vault per market, activation; blueprint, manager | register, activate, create | router looks markets up |
| Wrapped token `src/WrappedZkLTC.sol` | balances, allowances, the coin behind them | deposit, withdraw, ERC-20 | pulled and paid out by vaults |
| Intents router `intents-router/` | intents by order id, block cursor, quotes | poll chain, decode events, quote over a websocket | events of the router contract |
| Solver bot `intents-bot-solver/` | orders seen, block cursor | poll, fill | events; the settler |
| Oracle helper `oracle/` | nothing | fetch and scale a price, print the commands that send it | the feed and the oracle, through whoever runs the commands |

**What is hard.** A transaction is atomic, so there are no races inside a call; the difficulty
is in the *order of calls by different people* (cancel, solver fill and pool fill of one claim;
withdrawing before a fill; replacing a pool or a rate model under live claims), in *three
contracts that each keep part of a claim* and update it in calls of their own, in *copies that
go stale* (the vault's copy of a pool debt, the stored borrow rate), in *increments instead of
recomputation* for every total, in *rounding*, and in time (interest, timelocks, deadlines,
cooldowns), and in *what is replaced under live claims*: pool, settler, feed, vault, router. Off chain: restarts, cursors, events seen late or twice. `PROJECT.json` lists each
hazard at its line with the property that would notice it, or the reason there is none yet.

**What makes each part correct.**
* Vault: totals are sums; collateral is backed; an order and its borrower's lock agree; debt only
  under a filled order; collateral never leaves an account uncovered or waiting for a filler.
* Pool: shares and loans add up; the reserve is in cash; accrual charges each period once, at the
  rate of that period; no operation of one provider takes from another; lending neither creates nor
  destroys worth.
* Router: its records mirror the vault's and the pool's; exactly the filled claims have a payee; a
  claim lives one life; no call makes a healthy account unhealthy; lenders are paid in full.
* Oracle: the price in use is one the market had recently, or an announced fallback that it had once.
* Registry, factory, token: at most one active vault per pair, every token backed, and whoever leaves
  gets all collateral out.
* Intents router: what it knows of a claim is the last event it received; an event it saw is handled
  unless the run dies first, and none is saved as done before it was sent on. Bot: it pays once per claim
  and looks at every order.

## 2. Modules

| Module | Models |
|---|---|
| `AyniMath` | `Math.mulDiv`, `mulDivUp`, `min`; `Total`, the sum of a function |
| `AyniVault` | all of `AyniVaultCore.sol` |
| `AyniLiquidityPool` | all of `AyniLiquidityPool.sol` |
| `AyniProtocol` | the router and the settler over one market; instantiates the two above |
| `AyniClaimLedger` | the abstract specification of claims that `AyniProtocol` implements |
| `AyniEvents` | the ledger's claims with the events the contracts emit for them: the chain as the services see it |
| `AyniIntentsRouter` | the intents router over `AyniEvents`: poller, router, WebSocket, cursor file |
| `AyniSolverBot` | the solver bot over `AyniEvents`: loop, wallet, mempool, settler, cursor file |
| `AyniOracle` | `AyniOracle.sol`, `ManualPriceFeed.sol`, the helper `oracle/`, the vault's copy of the decimals |
| `AyniMarkets` | many vaults: registry, factory, clones, the router's lookups and `create_market`, custody of collateral |
| `AyniWrappedZkLTC` | the collateral token, instantiated by `AyniMarkets` |
| `AyniMathProofs`, `AyniVaultProofs`, `AyniPoolProofs`, `AyniProtocolProofs`, `AyniOracleProofs`, `AyniMarketsProofs`, `AyniSolverBotProofs`, `AyniIntentsRouterProofs` | theorems about these modules, and their proofs |
| `...MC` and `*.cfg` | the instances TLC checks |

*Actions and code.* One external function is one action with the function's name. Its `require`
statements are conjuncts of the guard, its assignments and every call it makes are part of the same
step, and a revert is a step that is not enabled. Functions that differ only in who names the
user (`deposit` / `deposit_for`) are one action. The reentrancy guard is why calls do not nest.

*Vault.* `positions`, `active_solver_order`, `solver_orders`, `total_*` and the parameters have
the names of the code. The setters and `apply_` functions of the six parameters are `set_param` and
`apply_param`, indexed by the parameter. `_accrue` is `AccruedDebt` (the new debt) and
`AccrualDelta` (what it adds to `total_debt`), two expressions on purpose: that they agree is a
property. The router's answer is the argument `sync`; price 0 stands for a reverting oracle. A
health factor is compared with 1 by cross-multiplication (`Healthy`), which is exact because
nested rounding-down divisions reach 1e18 exactly when the weighted value reaches the debt.

*Pool.* `AccrueWith` is `_updateIndexAndRate`; operations see the index it leaves. The tokens the
router moves into the pool just before it settles are part of the settle action, as they arrive
before `_updateIndexAndRate` reads the balance. The payer's balance is not modelled.

*Router.* An action conjoins the router's own changes with operators of `Vault` and `Pool`, which
share the variable `now`. An order id is `<<borrower, nonce>>`: the code hashes both and more, so
that ids are unique. `_borrow_from_pool` opens and fills an order in one transaction; its two
vault calls are written as one effect, with the guard of the first (the second one's hold by it).
`LiquidatePoolClaim` and `LiquidateSolverClaim` answer "not managed" to the vault, because the
router has already deleted `_claim_pools` when the vault asks. A replaced pool is `AnotherPool`, a
deployment without funds.

The administrators' calls take no caller here; `set_admin` and `onlyAdmin` are in `AyniMarkets`, where
the administrators matter (`create_market`).

*Oracle.* The market's price is a function of time, so that "a price the market had" can be said.
`print_price` fetches and scales it; the commands it prints (`SuggestedPrices`) may be sent
up to `SendWindow` later, and the manual feed dates the round when they execute. A foreign feed publishes rounds of
the day's price, or unfinished, unstarted, empty and future ones. The set functions share `Schedule`,
the apply functions `Apply`. The variable `announced` observes only.

*Markets.* A vault is an address: a clone of the factory's nonce or of blueprint and salt. It obeys the
router that was manager when it was made, for good (`vault_router`). The registry's answer decides
which vault a market's calls reach; a claim keeps its own. Debts and prices are left to the modules above:
a filled claim blocks the withdrawal of the last unit of collateral, and may be liquidated at
any time. The status of a claim stands for both records of it, which `StatusMirror` and
`OrdersAgree` allow. A user who `Leave`s makes no more deposits, orders and approvals.

*Off-chain services.* `AyniEvents` takes the steps of `AyniClaimLedger`, which the contracts are
checked to implement, and appends an event to `blocks` in each; a transaction is a block of its own,
since the services fetch ranges of blocks and several events of one block are just blocks fetched
together. `AyniIntentsRouter` has the three tasks: the poller between its awaits (`get_block_number`,
`get_logs`, `send`, `write_last_block`), the router with one event or one quote request in
hand, the WebSocket manager. `AyniSolverBot` has a step for each remote call of `process_order`.
A failing RPC call that is retried with nothing changed is no step; one inside the bot's `process_order`
ends the attempt (`Done`). `Crash` empties all variables
but the cursor file and what is outside the process (the bus, the mempool, the wallet).
`startedAt`, `sent`, `origin`, `handled`, `considered` and `paid` observe and are read by no action's guard:
the block a run began with, the blocks whose event was ever put into the channel, where the run began that first
saved a cursor, the blocks whose event this run has taken from the channel, and the bot's counterparts.
An event carries the number of its block, by which these tell it from another of the same kind.

*Mistakes on purpose.* Definitions named `x_bug...` are `x` with a plausible mistake. No action uses
them; substituting one for `x` must make TLC report the property it is paired with in
`PROJECT.json`, which shows that the property depends on that line of code.

## 3. Runs

| Run | Instance | Shows |
|---|---|---|
| `vault_claims` | 2 users, 2 orders, prices 1 and 2, 2 periods, router answers "unmanaged" or 5, both ratios changed | the vault's books and locks under any router answer; LTV stays below the threshold |
| `pool_lending` | 1 provider, 2 loans, 3 periods, a second rate model | loans add up, accrual, reserve, worth |
| `pool_shares` | 2 providers, 1 loan, approvals incl. unlimited | shares add up, nobody is diluted |
| `protocol_claims` | 1 borrower, 2 orders, 2 solvers, prices 0 (oracle fails), 1, 2, a pool replaced, the settler appointed | mirrors, holders, health, claims stay with their pool, refinement |
| `protocol_market` | 2 borrowers, 1 pool, 3 periods, rate model and vault interest rescheduled | competition for cash; the copies of a debt agree; lenders keep their worth |
| `oracle` | a manual feed with 1 decimal, a foreign one with 0, 4 days, the staleness lowered from 2 to 1 | what a vault is told is a recent market price; changes are announced; a fallback in use was once the market's price |
| `markets` | 1 market, 2 vaults, 1 borrower with 2 claims, 4 administrative calls | one vault per market, tokens backed, leavers leave |
| `router` | 2 claims, 3 blocks, batches of 2, channels of 1, WebSocket on, 1 crash | the service knows the last event received of each claim; the saved cursor hides no event that was not sent; a run that lives handles what it set out to; the WebSocket comes back |
| `bot` | 2 claims, money for 1 (or 2 later), a pool, a rival, 1 crash | one payment per claim, no claim hidden by the cursor, each taken up |
| `pool_repayable`, `protocol_liquidation`, `router_status` | smallest that shows it | three findings, below |

**Bounds.** `MaxTime`, `MaxNonce` / `OrderIds`, `MaxPrincipal`, `MaxShares` and the finite sets of
amounts bound the runs; each is a named constant that appears in a guard of the enumeration, never
inside an operation. Two users and two orders are enough for one to disturb another's lock or total and for an id to
be used after a closed one; three periods let interest compound on interest; `RAY` is 10 or 100
instead of 1e27, which makes rounding *coarser* and so easier to observe. Percentages in basis points
are the code's own. Arithmetic is on natural numbers: the code's 256-bit operations revert instead
of wrapping, and the amounts are far below that limit.

A period is one value of the clock: with three, time moves twice. Deadlock checking is off because bounded time and exhausted nonces stop every instance.
Symmetry is used for users, orders, providers and solvers, which no definition
orders or names (in the router, where an id contains its borrower, users are permuted
together with their ids), and never where liveness is checked. Except for `LeaversLeave`, all temporal properties about the contracts are
of the form `[][A]_vars` or safety refinements, and no fairness is assumed.

No contract run lasts until an order's expiry: passing it only removes fills, which any order may lack anyway,
and cancelling reads no clock. The one settler of the `protocol_...` runs may be appointed late, not replaced. In
`oracle` the price rises by 2.1 dollars a day, so that no old price passes for a recent one, and the two feeds'
decimals differ; a day is the timelock, the shorter staleness and the `SendWindow` alike. With that staleness a price
may be two days old, so that on the fourth day there are prices that must be refused: a round accepted one day too
late is reported. With the longer one nothing grows too old within the run. Changes of the two fallback settings may be
pending at once, since applying one reads the other; any other setting is alone (`Together`).
What no property depends on is the refusal of rounds dated in the future: they are no older than others, and
without that `require` the subtraction behind it would revert in its place. In
`markets` one token suffices: amounts play no part in which vault is reached. Four administrative calls
connect factory and router, create a vault, deactivate it and replace it, or leave one out and
pause, or exchange the router instead; two nonces let a user open a claim in the replacement.

For the services, three or four blocks are a claim's life (open, fill, payment) or two claims that
interleave, and with batches of two they give full, partial and
repeated batches; a channel of one event makes the poller wait in the middle of a batch. Claims that the
pool funds at once, which no `Open` announces, are in the `bot` run; `router` leaves them out
to stay small. The code's
500 blocks, 256 events and look-back of 100 differ only in size. One crash is enough to lose
everything once, at any step. `router` has no configured first block: a run that dies before its first save begins
again behind the head (`StartCursors`), and may leave blocks out for good that `SavedWasSent` and
`EventuallyHandled` do not promise.

**Fairness.** The services are assumed to be restarted (`restart: unless-stopped` in
`docker-compose.yml`; an operator for the bot) and their tasks to go on: loops retry a failing RPC
call until it succeeds, a quote request ends by its timeout of 4 s, `tokio::select!` picks a ready
branch at random and so cannot starve the events, and a pending transaction is mined or dropped.
All is weak fairness of one task. Of `AyniMarkets`, a user who has decided to leave eventually cancels an open
claim, repays a filled one (and so is assumed to find the debt tokens) and withdraws from each vault,
if that stays possible; `AyniMarkets` lets a filled claim be repaid at any time, while finding 1 shows a pool claim whose
repayment reverts until more interest has accrued, a delay that module leaves out; administrators, fillers and liquidators owe nothing. Nothing is assumed of the borrowers, other solvers, the bus's
traffic, deadlines or how long a connection lasts; crashes are finitely many (`MaxCrashes`). `EventuallyHandled` ends its promise with the
run: it says that batches, channel and bus hold no event up for ever, not that a crash loses none.

**Findings.**
1. `pool_repayable`: when the index has left `RAY`, a new loan owes a little less than its
   principal because scaling rounds down, and `settleRepayment` subtracts the principal from the debt with
   overflow checks: until interest makes up for the rounding, the claim cannot be repaid.
2. `protocol_liquidation`: `liquidate_claim` deletes the claim's pool before the vault
   judges health; the vault then adds its own interest to its old copy of the debt. A claim that
   `health_factor` shows healthy can be liquidated, and where the pool is dearer than the vault, an
   unhealthy one cannot.
3. `router_status`: the contract emits `ClaimRepaid` for partial payments too, and the intents router takes the first for
   the end of the claim, which is still FILLED: its state does not always "reflect on-chain reality", even once
   it has handled everything. `MirrorsLog` is what does hold: the state is the last event's.

**Observations** met while modelling. The models behave so (but for the decoder, which they leave out), and no run is kept for them:
* `open_solver_borrow_for` reverts with "exceeds max LTV" by a test of `liq_threshold` (`OpenGuard`);
  `max_ltv` and the view `max_borrow` limit no operation, so an order can be opened at the very
  edge of liquidation.
* The intents router's decoder reads the debt's token, amount and chain from `minReceived` and the collateral from `maxSpent`, as
  `tests/decoder.rs` encodes them; the contract leaves `minReceived` empty and puts the debt into `maxSpent`
  (`_emitBorrowIntentOpen`). Every quote request so offers the debt token for the zero address, amount 0. What a record
  or a request says of tokens and amounts is not part of the model.
* It keeps intents in memory and the cursor on disk: a restart forgets every claim opened
  before it, and what waited in the channel, which the saved cursor may already cover (`Crash`, `StartCursors`).
* It begins one block after `START_BLOCK`, which becomes the cursor (`StartCursors`, `get_logs`); without it, and
  before a first save, every start is 100 blocks behind the head of that time, and blocks before are never read.
* The bot takes an order up once; one it could not fill then, or for which a remote call failed, is never
  tried again, not even after a restart (`Done`, `persist_cursor`).
* `max_staleness` bounds the age of a manual feed's *round*, which is dated when the command executes; the
  price in it is older by the time the command waited (`Age`, `setPrice`). A fallback price is at least
  `CONFIG_DELAY` old whenever it comes into use (`FallbackWasTheMarket`). The helper prints each `apply_`
  command right behind its `set_` command, where it reverts, and running all of them again restarts the wait.
* A vault copies the oracle's decimals once (`initialize`); `apply_price_feed` may change them afterwards.
  `PriceTracksMarket` holds as long as they agree, and nothing in the code makes them agree.
* `health_factor` and `user_debt` leave out the interest a solver's claim has earned since the account was
  last touched (`LiveDebt`), while every operation charges it first (`DebtDue`).
* A vault keeps the router it was created under. After `set_manager` a market's deposits through the new
  router revert, while claims, and a user's own calls to the vault, still work (`MarketVault`, `LeaversLeave`).

**Refinement.** `ImplementsLedger` maps `claims[o].status` and `claim_holder` to the ledger's
`status` and `holder` and checks that every step of the three contracts is a ledger step or changes
neither: one live claim per borrower, one life per claim, one holder, who alone transfers.

## 4. Proofs

Every invariant, action property and refinement that a passing run checks on its instance is proved
for all values of the constants; liveness is not (end of this section). Each component's theorems are in a module of their own:

| Module | Theorems (property) |
|---|---|
| `AyniMathProofs` | lemmas only: rounding of `MulDiv` and `MulDivUp`, sums |
| `AyniVaultProofs` | `TypeCorrect` (`TypeOK`), `BooksAreSums` (`TotalsAreSums`), `CollateralIsBacked` (`CollateralBacked`), `DebtFollowsOrders` (`OrdersAgree`), `RatiosStayOrdered` (`RatiosOrdered`), `CollateralIsSafe` (`CollateralLeavesSafely`), `FillsAreCovered` (`FillIsCovered`) |
| `AyniPoolProofs` | `PoolInvariant`, `TypeSafety` (`TypeOK`), `SharesAlwaysAddUp` (`SharesAddUp`), `LoansAlwaysAddUp` (`LoansAddUp`), `ReserveAlwaysInCash` (`ReserveInCash`), `AccrualAlwaysTransparent` (`AccrualIsTransparent`), `SharePriceAlwaysHolds` (`SharePriceHolds`), `LendingAlwaysKeepsWorth` (`LendingKeepsWorth`) |
| `AyniProtocolProofs` | `ProtocolInvariant`, `TypeSafety` (`TypeOK`), `RecordsAlwaysMirror` (`StatusMirror`), `HoldersAreOfFilledClaims` (`HolderIffFilled`), `LoansAreAlwaysClaims` (`LoansAreClaims`), `LedgerIsImplemented` (`ImplementsLedger`), `LendersAlwaysKeepWorth` (`LendersKeepWorth`), `DebtsAlwaysAgree` (`DebtsAgree`), `HealthIsKept` (`HealthKept`) |
| `AyniOracleProofs` | `OracleInvariant`, `TypeSafety` (`TypeOK`), `AlwaysAnnounced` (`AnnouncedBeforeUse`), `FallbackAlwaysWasTheMarket` (`FallbackWasTheMarket`), `PriceAlwaysTracksMarket` (`PriceTracksMarket`) |
| `AyniMarketsProofs` | `MarketsInvariant`, `TypeSafety` (`TypeOK`), `MarketsHaveOneVault` (`OneVaultPerMarket`), `TokensAlwaysBacked` (`TokensBacked`) |
| `AyniSolverBotProofs` | `BotInvariant`, `TypeSafety` (`TypeOK`), `NeverPaysTwice` (`PaysOncePerClaim`), `OrdersAreNeverMissed` (`NoOrderMissed`) |
| `AyniIntentsRouterProofs` | `RouterInvariant`, `TypeSafety` (`TypeOK`), `MirrorsAlways` (`MirrorsLog`), `SavedBlocksWereSent` (`SavedWasSent`) |

All proofs have the same shape: an inductive invariant, one lemma per action that preserves it, and
the theorems as consequences of it (invariants) or of it in the state before a step (action properties).

**Assumptions.** They are the named `ASSUME`s of the components, and TLC evaluates them in every run. Most
say what a type says in the code: amounts and prices are natural numbers, units, delays and batch
sizes are positive, what stands for "none" is no user and no order. Those worth a second look:
* Fees are at most `BPS` (the code's `require`), `RateModels` that enter by the constructor are valid ones.
* `AyniMarkets.AddressAssumption`: a vault's address belongs to no user or administrator. Addresses are hashes in the code.
* `AyniOracle.UnitAssumption`: a power of ten is a positive number, which the provers are not told.
* `OrdersAreNeverMissed` has the hypothesis `StartBlock > 0`. Without it the theorem is false: a bot that dies before its
  first save starts again 100 blocks behind a newer head (a hazard in `PROJECT.json` without a property).

**Sums and rounding.** `Total(f)` is the cardinality of the set of points under the graph of `f`, so
that changing one value changes the sum by the difference (`TotalUpdate`), without recursion. `MulDiv` is bounded by its
multiplication: the largest `q` with `q * d <= x * y`. From that follow the fee that
never exceeds its amount (`MulDivShare`) and the slack of scaling a debt down and up again.

**Vault.** `IInv` is `TypeOK`, the two sums, the backing of the collateral and the two parts of `OrdersAgree`. None is inductive
alone: that a total does not underflow (`TypeOK`) needs that it is the sum (a position is at most
the sum), the sums need types, and that a repayment or liquidation leaves no debt outside a filled
order needs `ActiveOrders`, which says that the order being closed is the borrower's active one.
`RatiosOrdered` needs only types. The two action properties follow from `IInv` in the state before the step:
a repayment or liquidation, whose guards do not look for an open order, concerns by `ActiveOrders` the borrower's one
live order, which is filled and so not awaiting a filler, and takes collateral only together with the last of the debt.

**Pool.** `PoolInv` adds to its four checked invariants that both rate models, the one in force and the pending one, are
valid (`ModelsSound`: the slopes divide by what validation keeps positive, and a share of interest below
100% keeps the reserve in cash) and that the index never falls below `RAY` (`IndexSound`). The three action
properties are arithmetic about rounding, done once per direction: an index that is updated now or later gives
an untouched loan the same debt; shares are worth no less after rounding in the pool's favour; a loan
and the cash that left for it differ by at most the rounding of one scaled amount.

**The contracts together.** `ProtocolInv` is the vault's `IInv`, the pool's `PoolInv`, both taken from their proof modules
by `INSTANCE`, and the router's part. A call of the router is shown to be an operation those
modules know about (`VaultCalls`, `PoolCalls`), with some amount, fee and answer they allow; so neither
contract is re-proved. The router's part needs that ids are handed out in order (a new id is unused), that a
claim's borrower is the one in its id (`OwnClaims`), that no claim is routed to the unfunded deployment
(`RoutedHere`), and the fee limit of the vault (`FeesSound`). One lemma per call proves `Sound`: the invariant
holds afterwards, the step is a step of `AyniClaimLedger` or a stutter (`LedgerStep`), and the pool took
a step it knows (`PoolStep`). `LedgerIsImplemented` and the pool's action properties at this level follow.
`DebtsAgree` and `HealthKept` are proved on top of it: in a transaction time stands (`AtOnce`), every borrower but one keeps
both records of the debt, and the account that was touched has its copy refreshed from the pool
(`AccountStep`, one lemma per call); when time passes the pool's figure only grows (`TickAgrees`).

**Oracle.** `OracleInv` follows a price to everywhere it may wait: the printed command (for at most `SendWindow`), a
feed's round, the announced and the pending fallback. In each place it is one the market had, and
the date beside it says since when.

**Markets.** `MarketsInv` has a part per contract. Beyond the checked invariants it says that registered ids are exactly
`1 .. vault_count`, that nothing is registered, paused or deposited where no vault was made, and that a
claim lies in an existing vault: the creation of a vault at a fresh address then disturbs no balance.

**Solver bot.** Paying at most once needs only that a paid claim is past its one fill (`PaidSound`), for the chain never
reopens a claim. `SeenInv` adds the loop: all blocks before `from_block` were looked at, and of the current batch
each is either looked at or still in `logs`.

**Intents router.** `RouterInv` has five parts besides types. `ChainSound`: an `Open` is the first event of its claim, so that handling it
late cannot undo a later event, and an event carries its block's number. `CursorsSound`: a batch ends behind the head the poller saw. `RequestsSound`: a
quote request is under way only for an open intent. `FlowSound`: what the run has scanned is what was handled,
then what waits in the channel, then what the poller still holds, and the handled part is mirrored. `SentSound`: from
where the run began, or the run that first saved a cursor, every event fetched was sent or waits in the poller (`NoneSkipped`);
the file holds no more than a finished batch, so that behind it only "sent" is left (`SavedWasSent`), also for the next run.
Fetching in batches must give what fetching at once would (`WatchedConcat`). `Watched` is therefore defined by
ranks (the `k`-th kept place) and not by `SelectSeq`, whose recursive definition cannot be unfolded in a
proof; the two are the same sequence.

Two definitions were written for the provers without changing what they say: `Watched`, and
`AyniWrappedZkLTC.Move`, whose two updates of one function are two nested `EXCEPT`s.

**Only model-checked.** The liveness properties `LeaversLeave`, `EveryOrderConsidered`, `EventuallyHandled` and
`StaysSubscribed`, since liveness under fairness and `ENABLED` are out of the prover's reach; and the three findings, which
are counterexamples. So is induction over data: nothing here rests on what a recursive
definition computes for every input.

## 5. Not modelled, and why

* The debt token's internals and payers' balances: a transfer succeeds or reverts the whole call.
* Events of the contracts beyond those the services read, error texts, views nothing uses.
* Access control of the vault's and the pool's owner: the callers are fixed at deployment. A vault made while
  the factory has no manager obeys the owner's own account; what the owner would do with it is not modelled.
* `openFor` and `resolveFor`, which always revert; seeding a replaced pool.
* Debts and prices of several markets at once: they share nothing but the registry and nonces.
* A native transfer that the receiver refuses (`WrappedZkLTC.withdraw`); tokens with other code behind
  them than `WrappedZkLTC` as collateral.
* A price endpoint that answers with an old or a wrong price (`last_updated_at` is printed and not tested),
  an `ORACLE_DECIMALS` that differs from the manual feed's, the helper's command `owner`, and commands
  that are edited before they are sent.
* Chain reorganisations (the services trust the head), undecodable logs, an `eth_getLogs` answer with
  neither result nor error, what a quote request names and its answer says, the reading of environment variables.
* A WebSocket connection that is dead without being closed: `listening` is what the manager believes.
* Scripts, mocks and tests, but for the state `_deployCore` leaves.

## 6. Plan

1. The bot and the intents router beside each other on one chain, with deadlines: what each believes of a
   claim while the other acts.
2. The events of the contracts as part of `AyniProtocol`, and `AyniEvents` as its abstraction: a refinement that
   keeps the log and not only statuses and holders.
3. Lemmas the proofs repeat: an account is touched by one call at a time (`OneAccount`), and an update of one
   entry of a record-valued function, in a form that vault, pool and router share.
