--------------------------- MODULE AyniOracleProofs ---------------------------
(* Theorems about the oracle, its feeds and the helper that prices them. *)
EXTENDS AyniOracle, TLAPS

\* A price the market had at time t, in the scale of feed f.
Had(f, price, t) == price = ScalePrice(MarketPrice[t], FeedDecimals[f])

\* How far a feed's date may be from the moment of its price.
Lag(f) == IF f = ManualFeed THEN SendWindow ELSE AheadBy

\* A command still sent carries the price of the moment it was printed.
PrintedSound ==
  printed # Unset =>
    /\ printed \in [scaled : Nat, at : 1 .. now]
    /\ now <= printed.at + SendWindow
    /\ Had(ManualFeed, printed.scaled, printed.at)

\* A round that is begun, complete and of a price is of a price the market had.
RoundSound(f) ==
  LET r == rounds[f]
  IN  r.started_at # 0 /\ r.complete /\ r.answer > 0 =>
        \E t \in 1 .. now : Had(f, r.answer, t) /\ t >= r.updated_at - Lag(f)

FeedsSound ==
  /\ rounds \in [Feeds -> Rounds] /\ feed_owner \in Accounts
  /\ \A f \in Feeds : RoundSound(f)

\* The settings are functions on their names, which TypeOK leaves unsaid.
SettingTypes ==
  /\ settings = [s \in SettingNames |-> settings[s]]
  /\ pending = [s \in SettingNames |-> pending[s]]
  /\ announced = [s \in SettingNames |-> announced[s]]
  /\ \A s \in SettingNames :
       /\ settings[s] \in Values(s)
       /\ pending[s] = NoChange \/ pending[s] \in [value : Values(s), execute_after : Nat \ {0}]
       /\ pending[s].value = announced[s].value
  /\ settings["max_staleness"] > 0
  /\ pending["max_staleness"].execute_after # 0 => pending["max_staleness"].value > 0
  /\ price_feed_decimals = FeedDecimals[settings["price_feed"]] /\ price_feed_decimals <= 18

\* The waiting time of a change counts from its last announcement.
PendingSound ==
  \A s \in SettingNames :
    pending[s].execute_after # 0 =>
      /\ announced[s].at \in 1 .. now
      /\ pending[s].execute_after = announced[s].at + ConfigDelay

\* The fallback on its way, and the one in force, are prices the market had; the
\* one in force has been announced a full CONFIG_DELAY ago.
FallbackSound ==
  /\ pending["fallback_price"].execute_after # 0 =>
       /\ pending["fallback_price"].value > 0
       /\ \E t \in 1 .. announced["fallback_price"].at :
            Had(ManualFeed, pending["fallback_price"].value, t)
  /\ settings["fallback_price"] # 0 =>
       \E t \in 1 .. now - ConfigDelay : Had(ManualFeed, settings["fallback_price"], t)
  /\ settings["use_fallback"] = TRUE => settings["fallback_price"] # 0

OracleInv ==
  /\ now \in 1 .. MaxTime
  /\ PrintedSound /\ FeedsSound
  /\ SettingTypes /\ PendingSound /\ FallbackSound
  /\ oracle_decimals = Unset \/ oracle_decimals \in 0 .. 18

USE TimeAssumption
-----------------------------------------------------------------------------
(* Prices, commands and rounds *)

LEMMA ScaleType ==
  ASSUME NEW f \in Feeds, NEW t \in 1 .. MaxTime
  PROVE  ScalePrice(MarketPrice[t], FeedDecimals[f]) \in Nat
<1> DEFINE unit == 10 ^ FeedDecimals[f]
           p == MarketPrice[t]
<1>1. unit \in Nat /\ p \in Nat /\ PriceUnit \in Nat \ {0}
  BY UnitAssumption, PriceAssumption
<1>2. ScalePrice(p, FeedDecimals[f]) = (2 * p * unit + PriceUnit) \div (2 * PriceUnit)
  BY DEF ScalePrice
<1> HIDE DEF unit, p
<1>3. 2 * p * unit + PriceUnit \in Nat /\ 2 * PriceUnit \in Nat \ {0}
  <2>1. p * unit \in Nat
    BY <1>1
  <2>2. 2 * p * unit = 2 * (p * unit)
    BY <1>1
  <2>3. QED  BY <1>1, <2>1, <2>2
<1>4. \A n \in Nat, d \in Nat \ {0} : n \div d \in Nat
  OBVIOUS
<1>5. QED  BY <1>2, <1>3, <1>4 DEF p

\* A round published at the moment of its price, or of a printed price.
LEMMA RoundStep ==
  ASSUME now \in 1 .. MaxTime, FeedsSound, now' = now, NEW f \in Feeds, NEW r \in Rounds,
         rounds' = [rounds EXCEPT ![f] = r], feed_owner' \in Accounts,
         r.started_at # 0 /\ r.complete /\ r.answer > 0 =>
           \E t \in 1 .. now : Had(f, r.answer, t) /\ t >= r.updated_at - Lag(f)
  PROVE  FeedsSound'
<1>1. rounds' \in [Feeds -> Rounds] /\ rounds'[f] = r
      /\ \A g \in Feeds \ {f} : rounds'[g] = rounds[g]
  BY DEF FeedsSound
<1>2. RoundSound(f)'
  BY <1>1 DEF RoundSound, Had, Lag
<1>3. ASSUME NEW g \in Feeds \ {f} PROVE RoundSound(g)'
  BY <1>1, <1>3 DEF FeedsSound, RoundSound, Had, Lag
<1>4. QED  BY <1>1, <1>2, <1>3 DEF FeedsSound

LEMMA FeedsStand ==
  ASSUME now \in 1 .. MaxTime, FeedsSound, now' \in {now, now + 1}, UNCHANGED feedVars
  PROVE  FeedsSound'
<1>1. UNCHANGED <<rounds, feed_owner>> /\ \A t \in 1 .. now : t \in 1 .. now'
  BY DEF feedVars
<1>2. ASSUME NEW f \in Feeds PROVE RoundSound(f)'
  BY <1>1 DEF FeedsSound, RoundSound, Had, Lag
<1>3. QED  BY <1>1, <1>2 DEF FeedsSound

LEMMA PrintedStands ==
  ASSUME PrintedSound, UNCHANGED <<printed, now>>
  PROVE  PrintedSound'
BY DEF PrintedSound, Had
-----------------------------------------------------------------------------
(* Settings *)

SettingsSound == SettingTypes /\ PendingSound /\ FallbackSound

LEMMA Later ==
  ASSUME NEW n \in Nat, NEW m \in {n, n + 1}
  PROVE  /\ \A t \in 1 .. n : t \in 1 .. m
         /\ \A t \in 1 .. n - ConfigDelay : t \in 1 .. m - ConfigDelay
<1>1. PICK d \in Nat : d = ConfigDelay
  OBVIOUS
<1>2. ASSUME NEW t \in Int, 1 <= t, t <= n - d PROVE t <= m - d
  BY <1>2
<1>3. n - d \in Int /\ m - d \in Int
  OBVIOUS
<1>4. QED  BY <1>1, <1>2, <1>3

LEMMA SettingsStand ==
  ASSUME now \in 1 .. MaxTime, SettingsSound, now' \in {now, now + 1}, UNCHANGED oracleVars
  PROVE  SettingsSound'
<1>0. UNCHANGED <<settings, price_feed_decimals, pending, announced>>
  BY DEF oracleVars
<1>1. /\ \A t \in 1 .. now : t \in 1 .. now'
      /\ \A t \in 1 .. now - ConfigDelay : t \in 1 .. now' - ConfigDelay
  <2>1. PICK m : m = now'
    OBVIOUS
  <2>2. now \in Nat /\ m \in {now, now + 1}
    BY <2>1
  <2>3. /\ \A t \in 1 .. now : t \in 1 .. m
        /\ \A t \in 1 .. now - ConfigDelay : t \in 1 .. m - ConfigDelay
    BY <2>2, Later
  <2>4. QED  BY <2>1, <2>3
<1>2. SettingTypes'
  BY <1>0 DEF SettingsSound, SettingTypes
<1>3. PendingSound'
  BY <1>0, <1>1 DEF SettingsSound, PendingSound
<1>4. FallbackSound'
  BY <1>0, <1>1 DEF SettingsSound, FallbackSound, Had
<1>5. QED  BY <1>2, <1>3, <1>4 DEF SettingsSound

LEMMA ScheduleStep ==
  ASSUME now \in 1 .. MaxTime, SettingsSound, NEW s \in SettingNames, NEW value \in Values(s),
         Schedule(s, value), s = "max_staleness" => value > 0,
         s = "fallback_price" => value > 0 /\ \E t \in 1 .. now : Had(ManualFeed, value, t)
  PROVE  SettingsSound'
<1> DEFINE change == [value |-> value, execute_after |-> now + ConfigDelay]
           notice == [value |-> value, at |-> now]
<1>1. /\ pending' = [pending EXCEPT ![s] = change]
      /\ announced' = [announced EXCEPT ![s] = notice]
      /\ UNCHANGED <<settings, price_feed_decimals, now>>
  BY DEF Schedule
<1>2. /\ pending' = [t \in SettingNames |-> IF t = s THEN change ELSE pending[t]]
      /\ announced' = [t \in SettingNames |-> IF t = s THEN notice ELSE announced[t]]
  BY <1>1 DEF SettingsSound, SettingTypes
<1>3. /\ change \in [value : Values(s), execute_after : Nat \ {0}]
      /\ change.value = value /\ change.execute_after = now + ConfigDelay
      /\ notice.value = value /\ notice.at = now /\ now \in Nat
  OBVIOUS
<1> HIDE DEF change, notice
<1>4. SettingTypes'
  <2>1. ASSUME NEW t \in SettingNames
        PROVE  /\ settings'[t] \in Values(t)
               /\ pending'[t] = NoChange
                    \/ pending'[t] \in [value : Values(t), execute_after : Nat \ {0}]
               /\ pending'[t].value = announced'[t].value
    BY <1>1, <1>2, <1>3 DEF SettingsSound, SettingTypes
  <2>2. pending'["max_staleness"].execute_after # 0 => pending'["max_staleness"].value > 0
    BY <1>2, <1>3 DEF SettingsSound, SettingTypes, SettingNames
  <2>3. /\ pending' = [t \in SettingNames |-> pending'[t]]
        /\ announced' = [t \in SettingNames |-> announced'[t]]
    BY <1>2
  <2>4. /\ settings' = settings /\ price_feed_decimals' = price_feed_decimals
        /\ settings = [t \in SettingNames |-> settings[t]]
        /\ settings["max_staleness"] > 0
        /\ price_feed_decimals = FeedDecimals[settings["price_feed"]] /\ price_feed_decimals <= 18
    BY <1>1 DEF SettingsSound, SettingTypes
  <2>5. settings' = [t \in SettingNames |-> settings'[t]]
    BY <2>4
  <2> HIDE DEF SettingNames
  <2>6. QED  BY <2>1, <2>2, <2>3, <2>4, <2>5 DEF SettingTypes
<1>5. PendingSound'
  BY <1>1, <1>2, <1>3 DEF SettingsSound, PendingSound
<1>6. FallbackSound'
  BY <1>1, <1>2, <1>3 DEF SettingsSound, FallbackSound, Had, SettingNames
<1>7. QED  BY <1>4, <1>5, <1>6 DEF SettingsSound

LEMMA ApplyStep ==
  ASSUME now \in 1 .. MaxTime, SettingsSound, NEW s \in SettingNames, Apply(s),
         price_feed_decimals' = FeedDecimals[settings'["price_feed"]],
         price_feed_decimals' <= 18,
         s = "use_fallback" /\ pending[s].value = TRUE => settings["fallback_price"] > 0
  PROVE  SettingsSound'
<1> DEFINE value == pending[s].value
<1>1. /\ settings' = [t \in SettingNames |-> IF t = s THEN value ELSE settings[t]]
      /\ pending' = [t \in SettingNames |-> IF t = s THEN NoChange ELSE pending[t]]
      /\ announced' = [t \in SettingNames |-> IF t = s THEN Nothing ELSE announced[t]]
      /\ pending[s].execute_after # 0 /\ now >= pending[s].execute_after /\ now' = now
  BY DEF Apply, SettingsSound, SettingTypes
<1>2. value \in Values(s)
  BY <1>1 DEF SettingsSound, SettingTypes, NoChange
<1>3. /\ NoChange.value = Unset /\ NoChange.execute_after = 0 /\ Nothing.value = Unset
  BY DEF NoChange, Nothing
<1>4. SettingTypes'
  BY <1>1, <1>2, <1>3 DEF SettingsSound, SettingTypes, SettingNames
<1>5. PendingSound'
  BY <1>1, <1>3 DEF SettingsSound, PendingSound
<1>6. FallbackSound'
  <2>1. CASE s = "fallback_price"
    <3>1. PICK t \in 1 .. announced[s].at : value > 0 /\ Had(ManualFeed, value, t)
      BY <1>1, <2>1 DEF SettingsSound, FallbackSound
    <3>2. announced[s].at \in 1 .. now /\ pending[s].execute_after = announced[s].at + ConfigDelay
      BY <1>1 DEF SettingsSound, PendingSound
    <3>3. t \in 1 .. now - ConfigDelay
      BY <1>1, <3>1, <3>2
    <3>4. /\ settings'["fallback_price"] = value
          /\ settings'["use_fallback"] = settings["use_fallback"]
          /\ pending'["fallback_price"] = NoChange
      BY <1>1, <2>1 DEF SettingNames
    <3>5. value # 0
      BY <1>2, <2>1, <3>1 DEF Values
    <3> HIDE DEF value
    <3>6. QED  BY <1>1, <1>3, <3>1, <3>3, <3>4, <3>5 DEF FallbackSound, Had
  <2>2. CASE s = "use_fallback"
    <3>1. /\ settings'["fallback_price"] = settings["fallback_price"]
          /\ settings'["use_fallback"] = value
          /\ pending'["fallback_price"] = pending["fallback_price"]
          /\ announced'["fallback_price"] = announced["fallback_price"]
      BY <1>1, <2>2 DEF SettingNames
    <3>2. value = TRUE => settings["fallback_price"] # 0
      BY <2>2
    <3> HIDE DEF value
    <3>3. QED  BY <1>1, <3>1, <3>2 DEF SettingsSound, FallbackSound, Had
  <2>3. CASE s \notin {"fallback_price", "use_fallback"}
    <3>1. /\ settings'["fallback_price"] = settings["fallback_price"]
          /\ settings'["use_fallback"] = settings["use_fallback"]
          /\ pending'["fallback_price"] = pending["fallback_price"]
          /\ announced'["fallback_price"] = announced["fallback_price"]
      BY <1>1, <2>3 DEF SettingNames
    <3>2. QED  BY <1>1, <3>1 DEF SettingsSound, FallbackSound, Had
  <2>4. QED  BY <2>1, <2>2, <2>3
<1>7. QED  BY <1>4, <1>5, <1>6 DEF SettingsSound
-----------------------------------------------------------------------------
(* The system *)

\* Every handler moves one of the parts and leaves the others.
LEMMA OracleParts ==
  /\ OracleInv <=> /\ now \in 1 .. MaxTime
                   /\ PrintedSound /\ FeedsSound /\ SettingsSound
                   /\ oracle_decimals = Unset \/ oracle_decimals \in 0 .. 18
  /\ OracleInv' <=> /\ now' \in 1 .. MaxTime
                    /\ PrintedSound' /\ FeedsSound' /\ SettingsSound'
                    /\ oracle_decimals' = Unset \/ oracle_decimals' \in 0 .. 18
BY DEF OracleInv, SettingsSound

LEMMA PrintStep ==
  ASSUME OracleInv, print_price
  PROVE  OracleInv'
<1>1. /\ printed' = [scaled |-> fetch_scaled_price, at |-> now]
      /\ UNCHANGED <<feedVars, oracleVars, oracle_decimals, now>>
  BY DEF print_price
<1>2. now \in 1 .. MaxTime /\ now' = now
  BY <1>1, OracleParts
<1>3. fetch_scaled_price \in Nat /\ Had(ManualFeed, fetch_scaled_price, now)
  BY <1>2, FeedAssumption, ScaleType DEF fetch_scaled_price, ORACLE_DECIMALS, Had
<1>4. PrintedSound'
  BY <1>1, <1>2, <1>3 DEF PrintedSound, Had
<1>5. QED  BY <1>1, <1>2, <1>4, OracleParts, FeedsStand, SettingsStand

\* A command that is still sent is of a price fetched at most SendWindow ago.
LEMMA Suggested ==
  ASSUME OracleInv, NEW price \in SuggestedPrices
  PROVE  /\ price \in Nat
         /\ \E t \in 1 .. now : now <= t + SendWindow /\ Had(ManualFeed, price, t)
BY OracleParts DEF SuggestedPrices, PrintedSound

LEMMA SetPriceStep ==
  ASSUME OracleInv, NEW price \in SuggestedPrices, setPrice(price)
  PROVE  OracleInv'
<1> DEFINE r == Round(price, now, now, TRUE)
<1>1. /\ rounds' = [rounds EXCEPT ![ManualFeed] = r]
      /\ UNCHANGED <<printed, feed_owner, oracleVars, oracle_decimals, now>>
  BY DEF setPrice, SetRound
<1>2. now \in 1 .. MaxTime /\ FeedsSound /\ feed_owner' \in Accounts
  BY <1>1, OracleParts DEF FeedsSound
<1>3. PICK t \in 1 .. now : now <= t + SendWindow /\ Had(ManualFeed, price, t)
  BY Suggested
<1>4. r \in Rounds /\ r.answer = price /\ r.updated_at = now
  BY <1>2, Suggested DEF Round, Rounds
<1>5. t >= now - Lag(ManualFeed)
  BY <1>2, <1>3 DEF Lag
<1> HIDE DEF r
<1>6. FeedsSound'
  BY <1>1, <1>2, <1>3, <1>4, <1>5, FeedAssumption, RoundStep
<1>7. QED  BY <1>1, <1>2, <1>6, OracleParts, PrintedStands, SettingsStand

LEMMA PublishStep ==
  ASSUME OracleInv, NEW f \in Feeds, publish(f)
  PROVE  OracleInv'
<1> DEFINE scaled == ScalePrice(MarketPrice[now], FeedDecimals[f])
<1>1. PICK r : /\ rounds' = [rounds EXCEPT ![f] = r]
               /\ r \in {Round(scaled, now, now, TRUE), Round(0, now, now, TRUE),
                         Round(scaled + 1, 0, now, TRUE), Round(scaled + 1, now, now, FALSE),
                         Round(scaled, now, now + AheadBy, TRUE)}
  BY DEF publish
<1>2. f # ManualFeed /\ UNCHANGED <<printed, feed_owner, oracleVars, oracle_decimals, now>>
  BY DEF publish
<1>3. now \in 1 .. MaxTime /\ FeedsSound /\ feed_owner' \in Accounts /\ now' = now
  BY <1>2, OracleParts DEF FeedsSound
<1>4. scaled \in Nat /\ Had(f, scaled, now)
  BY <1>3, ScaleType DEF Had
<1> HIDE DEF scaled
<1>5. /\ r \in Rounds
      /\ r.started_at # 0 /\ r.complete /\ r.answer > 0 =>
           r.answer = scaled /\ now >= r.updated_at - Lag(f)
  <2>1. Lag(f) = 1 /\ now \in Nat /\ now >= now - 1 /\ now >= now + 1 - 1
    BY <1>2, <1>3 DEF Lag, AheadBy
  <2>2. scaled + 1 \in Nat /\ now + 1 \in Nat /\ now + AheadBy = now + 1
    BY <1>4, <2>1 DEF AheadBy
  <2>3. CASE r = Round(scaled, now, now, TRUE)
    <3>1. r \in Rounds /\ r.answer = scaled /\ r.updated_at = now
      BY <1>4, <2>1, <2>3 DEF Round, Rounds
    <3>2. QED  BY <2>1, <3>1
  <2>4. CASE r = Round(0, now, now, TRUE)
    BY <2>1, <2>4 DEF Round, Rounds
  <2>5. CASE r = Round(scaled + 1, 0, now, TRUE)
    BY <2>1, <2>2, <2>5 DEF Round, Rounds
  <2>6. CASE r = Round(scaled + 1, now, now, FALSE)
    BY <2>1, <2>2, <2>6 DEF Round, Rounds
  <2>7. CASE r = Round(scaled, now, now + AheadBy, TRUE)
    <3>1. r \in Rounds /\ r.answer = scaled /\ r.updated_at = now + 1
      BY <1>4, <2>1, <2>2, <2>7 DEF Round, Rounds
    <3>2. QED  BY <2>1, <3>1
  <2>8. QED  BY <1>1, <2>3, <2>4, <2>5, <2>6, <2>7
<1>6. FeedsSound'
  <2>1. r.started_at # 0 /\ r.complete /\ r.answer > 0 =>
          \E t \in 1 .. now : Had(f, r.answer, t) /\ t >= r.updated_at - Lag(f)
    BY <1>3, <1>4, <1>5
  <2>2. QED  BY <1>1, <1>3, <1>5, <2>1, RoundStep
<1>7. QED  BY <1>2, <1>3, <1>6, OracleParts, PrintedStands, SettingsStand

LEMMA OwnershipStep ==
  ASSUME OracleInv, NEW account \in Accounts, transferOwnership(account)
  PROVE  OracleInv'
<1>1. feed_owner' = account /\ UNCHANGED <<printed, rounds, oracleVars, oracle_decimals, now>>
  BY DEF transferOwnership
<1>2. FeedsSound'
  BY <1>1, OracleParts DEF FeedsSound, RoundSound, Had, Lag
<1>3. QED  BY <1>1, <1>2, OracleParts, PrintedStands, SettingsStand

LEMMA ScheduleCall ==
  ASSUME OracleInv, NEW s \in SettingNames, NEW value \in Values(s), Schedule(s, value),
         s = "max_staleness" => value > 0,
         s = "fallback_price" => value > 0 /\ \E t \in 1 .. now : Had(ManualFeed, value, t)
  PROVE  OracleInv'
<1>1. UNCHANGED <<printed, feedVars, oracle_decimals, now>>
  BY DEF Schedule
<1>2. SettingsSound'
  BY OracleParts, ScheduleStep
<1>3. QED  BY <1>1, <1>2, OracleParts, PrintedStands, FeedsStand

LEMMA ApplyCall ==
  ASSUME OracleInv, NEW s \in SettingNames, Apply(s),
         price_feed_decimals' = FeedDecimals[settings'["price_feed"]],
         price_feed_decimals' <= 18,
         s = "use_fallback" /\ pending[s].value = TRUE => settings["fallback_price"] > 0
  PROVE  OracleInv'
<1>1. UNCHANGED <<printed, feedVars, oracle_decimals, now>>
  BY DEF Apply
<1>2. SettingsSound'
  BY OracleParts, ApplyStep
<1>3. QED  BY <1>1, <1>2, OracleParts, PrintedStands, FeedsStand

\* The decimals stand unless the feed is replaced.
LEMMA ApplyOther ==
  ASSUME OracleInv, NEW s \in SettingNames \ {"price_feed"}, Apply(s), UNCHANGED price_feed_decimals
  PROVE  /\ price_feed_decimals' = FeedDecimals[settings'["price_feed"]]
         /\ price_feed_decimals' <= 18
<1>1. settings'["price_feed"] = settings["price_feed"]
  BY OracleParts DEF Apply, SettingsSound, SettingTypes, SettingNames
<1>2. QED  BY <1>1, OracleParts DEF SettingsSound, SettingTypes

LEMMA ApplyFeed ==
  ASSUME OracleInv, apply_price_feed
  PROVE  OracleInv'
<1>1. settings'["price_feed"] = pending["price_feed"].value
  BY OracleParts DEF apply_price_feed, Apply, SettingsSound, SettingTypes, SettingNames
<1>2. "price_feed" \in SettingNames
  BY DEF SettingNames
<1>3. QED  BY <1>1, <1>2, ApplyCall DEF apply_price_feed

LEMMA TickStep ==
  ASSUME OracleInv, Tick
  PROVE  OracleInv'
<1>1. /\ now < MaxTime /\ now' = now + 1 /\ UNCHANGED <<feedVars, oracleVars, oracle_decimals>>
      /\ printed' = IF printed # Unset /\ now + 1 > printed.at + SendWindow THEN Unset ELSE printed
  BY DEF Tick
<1>2. now \in 1 .. MaxTime
  BY OracleParts
<1>3. PrintedSound'
  BY <1>1, <1>2, OracleParts DEF PrintedSound, Had
<1>4. QED  BY <1>1, <1>2, <1>3, OracleParts, FeedsStand, SettingsStand

LEMMA OracleStep == OracleInv /\ [Next]_vars => OracleInv'
<1> USE DEF SettingNames
<1>1. ASSUME OracleInv, NEW price \in SuggestedPrices, set_fallback_price(price) PROVE OracleInv'
  BY <1>1, Suggested, ScheduleCall DEF set_fallback_price, Values
<1>2. ASSUME OracleInv, NEW v \in BOOLEAN, set_use_fallback(v) PROVE OracleInv'
  BY <1>2, ScheduleCall DEF set_use_fallback, Values
<1>3. ASSUME OracleInv, NEW feed \in Feeds, set_price_feed(feed) PROVE OracleInv'
  BY <1>3, ScheduleCall DEF set_price_feed, Values
<1>4. ASSUME OracleInv, NEW v \in Staleness, set_max_staleness(v) PROVE OracleInv'
  BY <1>4, ScheduleCall DEF set_max_staleness, Values
<1>5. OracleInv /\ apply_fallback_price => OracleInv'
  BY ApplyOther, ApplyCall DEF apply_fallback_price
<1>6. OracleInv /\ apply_use_fallback => OracleInv'
  BY ApplyOther, ApplyCall DEF apply_use_fallback
<1>7. OracleInv /\ apply_max_staleness => OracleInv'
  BY ApplyOther, ApplyCall DEF apply_max_staleness
<1>8. OracleInv /\ initialize => OracleInv'
  <2>1. SUFFICES ASSUME OracleInv, initialize PROVE OracleInv'
    OBVIOUS
  <2>2. UNCHANGED <<printed, feedVars, oracleVars, now>> /\ oracle_decimals' = price_feed_decimals
    BY <2>1 DEF initialize
  <2>3. price_feed_decimals \in 0 .. 18
    <3>1. /\ price_feed_decimals = FeedDecimals[settings["price_feed"]]
          /\ price_feed_decimals <= 18 /\ settings["price_feed"] \in Values("price_feed")
      BY <2>1, OracleParts DEF SettingsSound, SettingTypes
    <3>2. price_feed_decimals \in Nat
      BY <3>1, FeedAssumption DEF Values
    <3>3. QED  BY <3>1, <3>2
  <2>4. QED  BY <2>1, <2>2, <2>3, OracleParts, PrintedStands, FeedsStand, SettingsStand
<1>9. OracleInv /\ UNCHANGED vars => OracleInv'
  BY OracleParts, PrintedStands, FeedsStand, SettingsStand DEF vars
<1>10. QED
  BY <1>1, <1>2, <1>3, <1>4, <1>5, <1>6, <1>7, <1>8, <1>9, PrintStep, SetPriceStep, PublishStep,
     OwnershipStep, ApplyFeed, TickStep DEF Next

LEMMA OracleStart == Init => OracleInv
<1> SUFFICES ASSUME Init PROVE OracleInv
  OBVIOUS
<1>1. now = 1 /\ 1 \in 1 .. MaxTime
  BY DEF Init
<1>2. PrintedSound
  BY DEF Init, PrintedSound
<1>3. FeedsSound
  <2>1. ASSUME NEW f \in Feeds
        PROVE  rounds[f] \in Rounds /\ RoundSound(f)
    <3> DEFINE scaled == ScalePrice(MarketPrice[1], FeedDecimals[f])
    <3>1. scaled \in Nat /\ Had(f, scaled, 1)
      BY <1>1, ScaleType DEF Had
    <3>2. rounds[f] = Round(scaled, 1, 1, TRUE)
      BY DEF Init
    <3> HIDE DEF scaled
    <3>3. rounds[f] \in Rounds /\ rounds[f].answer = scaled /\ rounds[f].updated_at = 1
      BY <3>1, <3>2 DEF Round, Rounds
    <3>4. 1 >= 1 - Lag(f)
      BY DEF Lag, AheadBy
    <3>5. QED  BY <1>1, <3>1, <3>3, <3>4 DEF RoundSound
  <2>2. rounds = [f \in Feeds |-> rounds[f]] /\ feed_owner \in Accounts
    BY FeedAssumption DEF Init
  <2>3. QED  BY <2>1, <2>2 DEF FeedsSound
<1>4. SettingsSound
  <2>1. /\ settings["price_feed"] = FirstFeed /\ settings["fallback_price"] = 0
        /\ settings["use_fallback"] = FALSE /\ settings["max_staleness"] = InitialStaleness
        /\ \A s \in SettingNames : pending[s] = NoChange /\ announced[s] = Nothing
        /\ settings = [s \in SettingNames |-> settings[s]]
        /\ pending = [s \in SettingNames |-> pending[s]]
        /\ announced = [s \in SettingNames |-> announced[s]]
    BY DEF Init, SettingNames
  <2>2. SettingTypes
    BY <2>1, FeedAssumption DEF Init, SettingTypes, Values, SettingNames, NoChange, Nothing
  <2>3. PendingSound /\ FallbackSound
    BY <2>1 DEF PendingSound, FallbackSound, NoChange, SettingNames
  <2>4. QED  BY <2>2, <2>3 DEF SettingsSound
<1>5. QED  BY <1>1, <1>2, <1>3, <1>4, OracleParts DEF Init

\* Whatever is printed, sent late, scheduled, rescheduled and applied, prices on
\* their way and in force are prices the market had, not older than their path allows.
THEOREM OracleInvariant == Spec => []OracleInv
BY OracleStart, OracleStep, PTL DEF Spec

\* Types; what is pending is what was announced last; the oracle's decimals are its feed's.
THEOREM TypeSafety == Spec => []TypeOK
<1>1. OracleInv => TypeOK
  BY DEF OracleInv, TypeOK, PrintedSound, FeedsSound, SettingTypes
<1>2. QED  BY <1>1, OracleInvariant, PTL

\* A setting takes only the value last announced for it, a full CONFIG_DELAY before.
THEOREM AlwaysAnnounced == Spec => AnnouncedBeforeUse
<1> DEFINE Announced ==
             \A s \in SettingNames :
               settings'[s] # settings[s] =>
                 /\ announced[s].at # 0 /\ settings'[s] = announced[s].value
                 /\ now >= announced[s].at + ConfigDelay
<1>1. ASSUME OracleInv, NEW s \in SettingNames, Apply(s) PROVE Announced
  <2>1. SUFFICES ASSUME NEW t \in SettingNames, settings'[t] # settings[t]
                 PROVE  /\ announced[t].at # 0 /\ settings'[t] = announced[t].value
                        /\ now >= announced[t].at + ConfigDelay
    OBVIOUS
  <2>2. t = s
    BY <1>1, <2>1, OracleParts DEF Apply, SettingsSound, SettingTypes
  <2>3. settings'[s] = pending[s].value /\ pending[s].value = announced[s].value
    BY <1>1, OracleParts DEF Apply, SettingsSound, SettingTypes
  <2>4. /\ announced[s].at \in 1 .. now /\ now >= pending[s].execute_after
        /\ pending[s].execute_after = announced[s].at + ConfigDelay
    BY <1>1, OracleParts DEF Apply, SettingsSound, PendingSound
  <2>5. QED  BY <2>2, <2>3, <2>4
<1>2. UNCHANGED settings => Announced
  OBVIOUS
<1>3. [Next]_vars => UNCHANGED settings \/ \E s \in SettingNames : Apply(s)
  BY DEF Next, vars, oracleVars, print_price, setPrice, set_fallback_price, transferOwnership,
     set_use_fallback, set_price_feed, set_max_staleness, Schedule, apply_fallback_price,
     apply_use_fallback, apply_price_feed, apply_max_staleness, initialize, publish, Tick, SettingNames
<1>4. OracleInv /\ [Next]_vars => Announced
  <2> HIDE DEF Announced
  <2>1. QED  BY <1>1, <1>2, <1>3
<1>5. QED  BY <1>4, OracleInvariant, PTL DEF Spec, AnnouncedBeforeUse

\* The fallback in use is a price the market had at least CONFIG_DELAY ago.
THEOREM FallbackAlwaysWasTheMarket == Spec => []FallbackWasTheMarket
<1>1. OracleInv => FallbackWasTheMarket
  BY DEF OracleInv, FallbackSound, FallbackWasTheMarket, Had, ORACLE_DECIMALS
<1>2. QED  BY <1>1, OracleInvariant, PTL

\* A vault never works with a price of a feed that the market has not had recently.
THEOREM PriceAlwaysTracksMarket == Spec => []PriceTracksMarket
<1>1. SUFFICES ASSUME OracleInv, ~settings["use_fallback"], PriceAvailable
               PROVE  \E t \in 1 .. now :
                        /\ t >= now - Age
                        /\ get_price = ScalePrice(MarketPrice[t], FeedDecimals[settings["price_feed"]])
  <2>1. OracleInv => PriceTracksMarket
    BY <1>1 DEF PriceTracksMarket
  <2>2. QED  BY <2>1, OracleInvariant, PTL
<1>2. PICK f \in Feeds : f = settings["price_feed"]
  BY <1>1, OracleParts DEF SettingsSound, SettingTypes, SettingNames, Values
<1>3. PICK r \in Rounds : r = rounds[f]
  BY <1>1, OracleParts DEF FeedsSound
<1>4. RoundAccepted(r) /\ get_price = r.answer
  BY <1>1, <1>2, <1>3 DEF PriceAvailable, get_price
<1>5. PICK t \in 1 .. now : Had(f, r.answer, t) /\ t >= r.updated_at - Lag(f)
  BY <1>1, <1>3, <1>4, OracleParts DEF FeedsSound, RoundSound, RoundAccepted
<1>6. t >= now - Age
  <2>1. PICK limit \in Nat : limit = settings["max_staleness"]
    BY <1>1, OracleParts DEF SettingsSound, SettingTypes, SettingNames, Values
  <2>2. PICK lag \in Nat : lag = Lag(f)
    BY DEF Lag, AheadBy
  <2>3. Age = limit + lag
    BY <1>2, <2>1, <2>2 DEF Age, Lag
  <2>4. now - r.updated_at <= limit /\ r.updated_at \in Nat /\ now \in Nat
    BY <1>1, <1>4, <2>1, OracleParts DEF RoundAccepted, Rounds
  <2>5. QED  BY <1>5, <2>2, <2>3, <2>4
<1>7. QED  BY <1>2, <1>4, <1>5, <1>6 DEF Had
=============================================================================
