------------------------------ MODULE AyniOracle ------------------------------
(***************************************************************************)
(* The price a vault works with, from end to end: the market's price, the  *)
(* helper (oracle/src/main.rs) that fetches and scales it, the feeds it is *)
(* sent to (ManualPriceFeed.sol, or one the protocol does not run), the    *)
(* oracle with its four timelocked settings (AyniOracle.sol) and the       *)
(* decimals a vault remembers of it (AyniVaultCore.sol).                   *)
(*                                                                         *)
(* Prices are counted in PriceUnit-ths of a dollar.  A feed's answer is an *)
(* integer with the feed's own number of decimals.  As in AyniVault,       *)
(* x_bug... is x with a plausible mistake.                                 *)
(***************************************************************************)
EXTENDS Integers

CONSTANTS
  Feeds,            \* the aggregators the owner may appoint
  ManualFeed,       \* the ManualPriceFeed among them
  FirstFeed,        \* the one the oracle is deployed with
  FeedDecimals,     \* [Feeds -> Nat]
  Signer,           \* the account of the helper's PRIVATE_KEY
  Accounts,         \* accounts that may own the manual feed
  MarketPrice,      \* time -> the market's price then
  PriceUnit,
  InitialStaleness, \* max_staleness at deployment
  Staleness,        \* values the owner schedules for it
  ConfigDelay,      \* CONFIG_DELAY
  SendWindow,       \* how long after it was printed a command is still sent
  Unset,            \* nothing printed, announced or initialized yet
  Together,         \* bound: the sets of settings with changes pending at once
  MaxTime           \* bound on block.timestamp

ASSUME FeedAssumption ==
  /\ ManualFeed \in Feeds /\ FirstFeed \in Feeds
  /\ FeedDecimals \in [Feeds -> Nat] /\ FeedDecimals[FirstFeed] <= 18
  /\ Signer \in Accounts /\ Unset \notin Nat \cup Feeds
ASSUME PriceAssumption ==
  /\ MarketPrice \in [1 .. MaxTime -> Nat \ {0}] /\ PriceUnit \in Nat \ {0}
\* A power of ten is a positive number, which the provers are not told.
ASSUME UnitAssumption == \A f \in Feeds : 10 ^ FeedDecimals[f] \in Nat \ {0}
ASSUME TimeAssumption ==
  /\ InitialStaleness \in Nat \ {0} /\ Staleness \subseteq Nat \ {0}
  /\ ConfigDelay \in Nat \ {0} /\ SendWindow \in Nat /\ MaxTime \in Nat \ {0}

\* The helper's setting; print_deploy_command deploys the manual feed with it.
ORACLE_DECIMALS == FeedDecimals[ManualFeed]

VARIABLES
  printed,         \* the helper's last output while it may still be sent: the
                   \* scaled price, and when it was fetched
  rounds,          \* feed -> what its latestRoundData() returns
  feed_owner,      \* _owner of the manual feed
  settings,        \* price_feed, fallback_price, use_fallback, max_staleness
  price_feed_decimals,
  pending,         \* setting -> scheduled value and execute_after
  oracle_decimals, \* the vault's copy of price_decimals()
  now

\* For the properties alone: the value last announced for a setting and not yet
\* in force, and when it was announced.
VARIABLE announced

feedVars == <<rounds, feed_owner>>
oracleVars == <<settings, price_feed_decimals, pending, announced>>
vars == <<printed, feedVars, oracleVars, oracle_decimals, now>>

SettingNames == {"price_feed", "fallback_price", "use_fallback", "max_staleness"}

\* What consuming a change leaves behind: address(0), 0 or false, at time 0.
NoChange == [value |-> Unset, execute_after |-> 0]
Nothing == [value |-> Unset, at |-> 0]

\* scale_price: (price * 10^decimals).round().
ScalePrice(p, decimals) == (2 * p * 10 ^ decimals + PriceUnit) \div (2 * PriceUnit)

\* A round; `complete' stands for answered_in_round >= round_id.
Round(answer, started_at, updated_at, complete) ==
  [answer |-> answer, started_at |-> started_at, updated_at |-> updated_at,
   complete |-> complete]

\* _setPrice: the manual feed dates a round when the transaction executes.
SetRound(f, answer) == rounds' = [rounds EXCEPT ![f] = Round(answer, now, now, TRUE)]

Init ==
  /\ now = 1
  /\ printed = Unset
  /\ rounds = [f \in Feeds |-> Round(ScalePrice(MarketPrice[1], FeedDecimals[f]), 1, 1, TRUE)]
  /\ feed_owner = Signer
  /\ settings = [s \in SettingNames |->
                   CASE s = "price_feed" -> FirstFeed
                     [] s = "fallback_price" -> 0
                     [] s = "use_fallback" -> FALSE
                     [] s = "max_staleness" -> InitialStaleness]
  /\ price_feed_decimals = FeedDecimals[FirstFeed]
  /\ pending = [s \in SettingNames |-> NoChange]
  /\ announced = [s \in SettingNames |-> Nothing]
  /\ oracle_decimals = Unset
-----------------------------------------------------------------------------
(* Reading the price *)

RoundAccepted_bugStaleByOne(r) ==
  /\ r.started_at # 0 /\ r.started_at <= r.updated_at
  /\ r.updated_at <= now /\ now - r.updated_at <= settings["max_staleness"] + 1
  /\ r.complete /\ r.answer > 0

\* The require statements of get_price on a feed's round, in their order.
RoundAccepted(r) ==
  /\ r.started_at # 0 /\ r.started_at <= r.updated_at
  /\ r.updated_at <= now
  /\ now - r.updated_at <= settings["max_staleness"]
  /\ r.complete
  /\ r.answer > 0

\* get_price does not revert, and what it returns then.
PriceAvailable ==
  IF settings["use_fallback"] THEN settings["fallback_price"] > 0
                              ELSE RoundAccepted(rounds[settings["price_feed"]])
get_price ==
  IF settings["use_fallback"] THEN settings["fallback_price"]
                              ELSE rounds[settings["price_feed"]].answer
-----------------------------------------------------------------------------
(* The helper, and the owner who runs the commands it prints *)

\* The endpoint answers with today's price, or the helper fails and prints nothing.
fetch_scaled_price == ScalePrice(MarketPrice[now], ORACLE_DECIMALS)

print_price ==
  /\ printed' = [scaled |-> fetch_scaled_price, at |-> now]
  /\ UNCHANGED <<feedVars, oracleVars, oracle_decimals, now>>

\* print_cast_commands: what they carry is the price as it was fetched.
SuggestedPrices == {p.scaled : p \in {printed} \ {Unset}}

\* "Suggested feed update command": FEED_ADDRESS is the manual feed.
setPrice(answer) ==
  /\ feed_owner = Signer
  /\ answer > 0
  /\ SetRound(ManualFeed, answer)
  /\ UNCHANGED <<printed, feed_owner, oracleVars, oracle_decimals, now>>

transferOwnership(new_owner) ==
  /\ feed_owner' = new_owner
  /\ UNCHANGED <<printed, rounds, oracleVars, oracle_decimals, now>>
-----------------------------------------------------------------------------
(* The oracle's settings: each is scheduled, waits, and is applied *)

\* A change may be scheduled for s within the bound on pending ones.
MayPend(s) == \E T \in Together : {s} \cup {t \in SettingNames : pending[t] # NoChange} \subseteq T

Schedule_bugOldDeadline(s, value) ==
  /\ MayPend(s)
  /\ pending' = [pending EXCEPT ![s] =
       [value |-> value,
        execute_after |-> IF @.execute_after # 0 THEN @.execute_after ELSE now + ConfigDelay]]
  /\ announced' = [announced EXCEPT ![s] = [value |-> value, at |-> now]]
  /\ UNCHANGED <<printed, feedVars, settings, price_feed_decimals, oracle_decimals, now>>

\* _scheduleAddressConfig, _scheduleUintConfig, _scheduleBoolConfig: a change
\* scheduled over another one waits from the start.
Schedule(s, value) ==
  /\ MayPend(s)
  /\ pending' = [pending EXCEPT ![s] = [value |-> value, execute_after |-> now + ConfigDelay]]
  /\ announced' = [announced EXCEPT ![s] = [value |-> value, at |-> now]]
  /\ UNCHANGED <<printed, feedVars, settings, price_feed_decimals, oracle_decimals, now>>

\* The price comes from the helper's "Suggested cast commands".
set_fallback_price(price) ==
  /\ price > 0
  /\ Schedule("fallback_price", price)
set_use_fallback(v) == Schedule("use_fallback", v)
set_price_feed(feed) == Schedule("price_feed", feed)
set_max_staleness(v) == v > 0 /\ Schedule("max_staleness", v)

\* _consume...Config and the assignment of the four apply_ functions.
Apply(s) ==
  /\ pending[s].execute_after # 0
  /\ now >= pending[s].execute_after
  /\ settings' = [settings EXCEPT ![s] = pending[s].value]
  /\ pending' = [pending EXCEPT ![s] = NoChange]
  /\ announced' = [announced EXCEPT ![s] = Nothing]
  /\ UNCHANGED <<printed, feedVars, oracle_decimals, now>>

apply_fallback_price == Apply("fallback_price") /\ UNCHANGED price_feed_decimals

apply_use_fallback_bugUnset == Apply("use_fallback") /\ UNCHANGED price_feed_decimals
\* Refused while no fallback price is set: the change stays pending.
apply_use_fallback ==
  /\ pending["use_fallback"].value = TRUE => settings["fallback_price"] > 0
  /\ Apply("use_fallback")
  /\ UNCHANGED price_feed_decimals

apply_price_feed_bugKeepsDecimals == Apply("price_feed") /\ UNCHANGED price_feed_decimals
\* The new feed's decimals are read when it takes over.
apply_price_feed ==
  /\ Apply("price_feed")
  /\ FeedDecimals[pending["price_feed"].value] <= 18
  /\ price_feed_decimals' = FeedDecimals[pending["price_feed"].value]

apply_max_staleness == Apply("max_staleness") /\ UNCHANGED price_feed_decimals
-----------------------------------------------------------------------------
(* The vault, and the rest of the world *)

\* initialize: the vault copies the oracle's decimals once.
initialize ==
  /\ oracle_decimals = Unset
  /\ oracle_decimals' = price_feed_decimals
  /\ UNCHANGED <<printed, feedVars, oracleVars, now>>

\* How far ahead of the chain a foreign feed's clock may run.
AheadBy == 1

\* A feed the protocol does not run publishes a round: of today's price, perhaps
\* dated ahead, or a defective one: not begun, still open, or of no price at all.
publish(f) ==
  /\ f # ManualFeed
  /\ LET scaled == ScalePrice(MarketPrice[now], FeedDecimals[f])
     IN  \E r \in {Round(scaled, now, now, TRUE), Round(0, now, now, TRUE),
                   Round(scaled + 1, 0, now, TRUE), Round(scaled + 1, now, now, FALSE),
                   Round(scaled, now, now + AheadBy, TRUE)} :
           rounds' = [rounds EXCEPT ![f] = r]
  /\ UNCHANGED <<printed, feed_owner, oracleVars, oracle_decimals, now>>

Tick ==
  /\ now < MaxTime
  /\ now' = now + 1
  /\ printed' = IF printed # Unset /\ now + 1 > printed.at + SendWindow THEN Unset ELSE printed
  /\ UNCHANGED <<feedVars, oracleVars, oracle_decimals>>

Next ==
  \/ print_price
  \/ \E price \in SuggestedPrices : setPrice(price) \/ set_fallback_price(price)
  \/ \E account \in Accounts : transferOwnership(account)
  \/ \E v \in BOOLEAN : set_use_fallback(v)
  \/ \E feed \in Feeds : set_price_feed(feed)
  \/ \E v \in Staleness : set_max_staleness(v)
  \/ apply_fallback_price \/ apply_use_fallback \/ apply_price_feed \/ apply_max_staleness
  \/ initialize
  \/ \E f \in Feeds : publish(f)
  \/ Tick

Spec == Init /\ [][Next]_vars
-----------------------------------------------------------------------------
(* Properties *)

Values(s) ==
  CASE s = "price_feed" -> Feeds
    [] s = "use_fallback" -> BOOLEAN
    [] OTHER -> Nat

Rounds == [answer : Nat, started_at : Nat, updated_at : Nat, complete : BOOLEAN]

\* Every variable keeps its type, what is pending is what was announced last, and
\* the decimals the oracle reports are those of the feed it reads.
TypeOK ==
  /\ now \in 1 .. MaxTime
  /\ printed = Unset \/ printed \in [scaled : Nat, at : 1 .. now]
  /\ rounds \in [Feeds -> Rounds] /\ feed_owner \in Accounts
  /\ \A s \in SettingNames :
       /\ settings[s] \in Values(s)
       /\ pending[s] = NoChange \/ pending[s] \in [value : Values(s), execute_after : Nat \ {0}]
       /\ pending[s].value = announced[s].value
  /\ settings["max_staleness"] > 0
  /\ price_feed_decimals = FeedDecimals[settings["price_feed"]]
  /\ oracle_decimals = Unset \/ oracle_decimals \in 0 .. 18

\* Nobody is priced by a surprise: a setting takes only the value last announced
\* for it, a full CONFIG_DELAY after it was announced, whatever else was
\* scheduled, rescheduled and applied in between.
AnnouncedBeforeUse ==
  [][\A s \in SettingNames :
       settings'[s] # settings[s] =>
         /\ announced[s].at # 0 /\ settings'[s] = announced[s].value
         /\ now >= announced[s].at + ConfigDelay]_vars

\* How old a price may be: max_staleness bounds the age of the feed's round, but
\* the manual feed dates its round when the command is executed, not when the
\* helper fetched the price.
Age ==
  settings["max_staleness"]
    + IF settings["price_feed"] = ManualFeed THEN SendWindow ELSE AheadBy

\* A vault never works with a price older than Age, whatever feed, limit and
\* command follow each other: rounds that are overdue, still open or not begun are
\* refused.  This needs the vault's copy of the decimals to be the scale of the
\* feed in use, which nothing in the code sees to.
PriceTracksMarket ==
  ~settings["use_fallback"] /\ PriceAvailable /\ oracle_decimals = price_feed_decimals =>
    \E t \in 1 .. now :
      t >= now - Age /\ get_price = ScalePrice(MarketPrice[t], FeedDecimals[settings["price_feed"]])

\* The fallback is switched on only once it is set, in whatever order the two
\* changes are scheduled and applied, and it is a price the market had - but one
\* at least CONFIG_DELAY old, however fresh the command that set it.
FallbackWasTheMarket ==
  settings["use_fallback"] =>
    \E t \in 1 .. now - ConfigDelay :
      settings["fallback_price"] = ScalePrice(MarketPrice[t], ORACLE_DECIMALS)
=============================================================================
