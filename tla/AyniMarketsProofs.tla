--------------------------- MODULE AyniMarketsProofs ---------------------------
(* Theorems about the registry, the factory, the vaults' custody of collateral *)
(* and the collateral token.                                                   *)
EXTENDS AyniMarkets, AyniMathProofs

Holders == Accounts \cup Addresses
ClaimStatus == {"NONE", "OPEN", "CANCELLED", "FILLED", "REPAID", "LIQUIDATED"}

RegistryInv ==
  /\ registry_factory \in {NoOne, ThisFactory, OtherFactory}
  /\ vault_count \in Nat
  /\ vault_metadata \in [Addresses -> [id : Nat, market : Markets \cup {NoOne}, active : BOOLEAN]]
  /\ vault_for_market \in [Markets -> Addresses \cup {NoOne}]
  /\ \A v \in Addresses : Registered(v) => vault_metadata[v].market \in Markets
  /\ {vault_metadata[v].id : v \in {w \in Addresses : Registered(w)}} = 1 .. vault_count
  /\ OneVaultPerMarket

SettingsInv ==
  /\ manager \in {NoOne, Protocol, OtherProtocol}
  /\ factory_registry \in {ThisRegistry, OtherRegistry} /\ vault_blueprint \in Blueprints
  /\ is_admin \subseteq Admins

\* Where no vault has been made nothing is registered, paused or deposited.
VaultInv ==
  /\ vault_router \in [Addresses -> {NoOne, Owner, Protocol, OtherProtocol}]
  /\ paused \in [Addresses -> BOOLEAN]
  /\ collateral \in [Addresses -> [Users -> Nat]]
  /\ \A v \in Addresses \ Vaults :
       ~Registered(v) /\ ~paused[v] /\ \A u \in Users : collateral[v][u] = 0

ClaimInv ==
  /\ claims \in [OrderIds -> [status : ClaimStatus, market : Markets \cup {NoOne},
                              vault : Addresses \cup {NoOne}]]
  /\ order_nonce \in [Users -> Nat]
  /\ \A o \in OrderIds : claims[o].status = "NONE" \/ claims[o].vault \in Vaults

TokenTypes ==
  /\ native \in [Accounts -> Nat] /\ held \in Nat
  /\ balanceOf \in [Holders -> Nat]
  /\ allowance \in [Accounts -> [Holders -> Nat]]

MarketsInv ==
  RegistryInv /\ SettingsInv /\ VaultInv /\ ClaimInv /\ TokenTypes /\ TokensBacked
-----------------------------------------------------------------------------
(* Addresses and accounts *)

LEMMA AddressFacts ==
  /\ NoOne \notin Addresses
  /\ \A v \in Addresses : v \in Holders /\ v \notin Accounts
  /\ \A u \in Users : u \in Accounts /\ u \in Holders
  /\ Filler \in Accounts /\ Filler \in Holders
BY AddressAssumption DEF Accounts, Holders

LEMMA HoldersAreFinite ==
  IsFiniteSet(Users) /\ IsFiniteSet(Holders)
<1> DEFINE Cs == {Cloned(n) : n \in 1 .. MaxVaults}
           g == [n \in 1 .. MaxVaults |-> Cloned(n)]
<1>1. IsFiniteSet(1 .. MaxVaults)
  BY MarketAssumption, FS_Interval
<1>2. g \in Surjection(1 .. MaxVaults, Cs)
  BY DEF Surjection
<1>3. IsFiniteSet(Cs)
  BY <1>1, <1>2, FS_Surjection
<1>4. IsFiniteSet(Blueprints \X Salts)
  BY MarketAssumption, FS_Product
<1>5. IsFiniteSet(Addresses)
  BY <1>3, <1>4, FS_Union DEF Addresses
<1>6. IsFiniteSet(Users) /\ IsFiniteSet({Filler})
  BY MarketAssumption, FS_Singleton
<1>7. QED
  BY <1>5, <1>6, FS_Union DEF Accounts, Holders

-----------------------------------------------------------------------------
(* The token *)

\* A transfer, to oneself too, neither makes nor loses a token, and takes from
\* one account only.
LEMMA MoveKeepsTotal ==
  ASSUME TokenTypes, NEW from \in Holders, NEW to \in Holders, NEW amount \in Nat,
         Token!Move(from, to, amount)
  PROVE  /\ balanceOf' \in [Holders -> Nat]
         /\ Total(balanceOf') = Total(balanceOf)
         /\ amount <= balanceOf[from]
         /\ \A a \in Holders \ {from} :
              balanceOf'[a] = IF a = to THEN balanceOf[a] + amount ELSE balanceOf[a]
         /\ balanceOf'[from] = IF from = to THEN balanceOf[from] ELSE balanceOf[from] - amount
<1> DEFINE taken == [balanceOf EXCEPT ![from] = @ - amount]
           moved == [taken EXCEPT ![to] = @ + amount]
<1>1. /\ balanceOf \in [Holders -> Nat] /\ balanceOf[from] >= amount
      /\ balanceOf' = moved
  BY DEF TokenTypes, Token!Move
<1>2. /\ taken \in [Holders -> Nat] /\ taken[from] = balanceOf[from] - amount
      /\ \A a \in Holders \ {from} : taken[a] = balanceOf[a]
  BY <1>1
<1> HIDE DEF taken
<1>3. Total(taken) = Total(balanceOf) - balanceOf[from] + taken[from]
  BY <1>1, <1>2, HoldersAreFinite, TotalUpdate
<1>4. /\ moved \in [Holders -> Nat] /\ moved[to] = taken[to] + amount
      /\ \A a \in Holders \ {to} : moved[a] = taken[a]
  BY <1>2
<1> HIDE DEF moved
<1>5. Total(moved) = Total(taken) - taken[to] + moved[to]
  BY <1>2, <1>4, HoldersAreFinite, TotalUpdate
<1>6. Total(balanceOf) \in Nat /\ Total(taken) \in Nat /\ Total(moved) \in Nat
  BY <1>1, <1>2, <1>4, HoldersAreFinite, TotalType
<1>7. balanceOf[from] \in Nat /\ taken[from] \in Nat /\ taken[to] \in Nat /\ moved[to] \in Nat
  BY <1>1, <1>2, <1>4
<1>8. Total(moved) = Total(balanceOf)
  BY <1>2, <1>3, <1>4, <1>5, <1>6, <1>7
<1>9. Total(balanceOf') = Total(moved)
  BY <1>1, Zenon
<1>10. QED
  BY <1>1, <1>2, <1>4, <1>8, <1>9

LEMMA AllowanceTypes ==
  ASSUME TokenTypes, NEW owner \in Holders, NEW caller \in Holders, NEW amount \in Nat,
         owner \in Accounts \/ owner = caller,
         Token!SpendAllowance(owner, caller, amount)
  PROVE  allowance' \in [Accounts -> [Holders -> Nat]]
<1>1. CASE UNCHANGED allowance
  BY <1>1 DEF TokenTypes
<1>2. CASE owner # caller /\ allowance[owner][caller] >= amount
             /\ allowance' = [allowance EXCEPT ![owner][caller] = @ - amount]
  BY <1>2 DEF TokenTypes
<1>3. QED
  BY <1>1, <1>2 DEF Token!SpendAllowance

\* What any transfer keeps.
LEMMA TransferKeepsTokens ==
  ASSUME TokenTypes, Total(balanceOf) = held,
         NEW caller \in Holders, NEW from \in Holders, NEW to \in Holders, NEW amount \in Nat,
         from \in Accounts \/ from = caller,
         Token!transferFrom(caller, from, to, amount)
  PROVE  /\ TokenTypes' /\ Total(balanceOf)' = held'
         /\ amount <= balanceOf[from]
         /\ \A a \in Holders \ {from} :
              balanceOf'[a] = IF a = to THEN balanceOf[a] + amount ELSE balanceOf[a]
         /\ balanceOf'[from] = IF from = to THEN balanceOf[from] ELSE balanceOf[from] - amount
<1>1. /\ Token!SpendAllowance(from, caller, amount) /\ Token!Move(from, to, amount)
      /\ UNCHANGED <<native, held>>
  BY DEF Token!transferFrom
<1>2. allowance' \in [Accounts -> [Holders -> Nat]]
  BY <1>1, AllowanceTypes
<1>3. Total(balanceOf)' = Total(balanceOf')
  BY Zenon DEF Total, Points, Column
<1>4. QED
  BY <1>1, <1>2, <1>3, MoveKeepsTotal DEF TokenTypes

\* Wrapping and unwrapping move coin and tokens together; no vault does either.
LEMMA WrapKeepsTokens ==
  ASSUME TokenTypes, Total(balanceOf) = held, NEW a \in Accounts, NEW amount \in Nat,
         Token!deposit(a, amount) \/ Token!withdraw(a, amount)
  PROVE  /\ TokenTypes' /\ Total(balanceOf)' = held'
         /\ \A v \in Addresses : balanceOf'[v] = balanceOf[v]
<1>1. a \in Holders /\ balanceOf \in [Holders -> Nat] /\ balanceOf[a] \in Nat /\ held \in Nat
      /\ native \in [Accounts -> Nat] /\ native[a] \in Nat
  BY DEF TokenTypes, Holders
<1>2. balanceOf[a] <= Total(balanceOf) /\ Total(balanceOf) \in Nat
  BY <1>1, HoldersAreFinite, TotalBoundsTerm, TotalType
<1>3. Total(balanceOf)' = Total(balanceOf')
  BY Zenon DEF Total, Points, Column
<1>4. ASSUME balanceOf' \in [Holders -> Nat], \A h \in Holders \ {a} : balanceOf'[h] = balanceOf[h]
      PROVE  Total(balanceOf') = Total(balanceOf) - balanceOf[a] + balanceOf'[a]
  BY <1>1, <1>4, HoldersAreFinite, TotalUpdate
<1>5. CASE Token!deposit(a, amount)
  <2>1. /\ balanceOf' \in [Holders -> Nat] /\ balanceOf'[a] = balanceOf[a] + amount
        /\ \A h \in Holders \ {a} : balanceOf'[h] = balanceOf[h]
        /\ held' = held + amount
        /\ native' \in [Accounts -> Nat] /\ allowance' = allowance
    BY <1>1, <1>5 DEF Token!deposit
  <2>2. Total(balanceOf') = held'
    BY <1>1, <1>2, <1>4, <2>1
  <2>3. QED
    BY <1>1, <1>3, <2>1, <2>2, AddressFacts DEF TokenTypes
<1>6. CASE Token!withdraw(a, amount)
  <2>1. /\ balanceOf' \in [Holders -> Nat] /\ balanceOf'[a] = balanceOf[a] - amount
        /\ amount <= balanceOf[a]
        /\ \A h \in Holders \ {a} : balanceOf'[h] = balanceOf[h]
        /\ held' = held - amount
        /\ native' \in [Accounts -> Nat] /\ allowance' = allowance
    BY <1>1, <1>6 DEF Token!withdraw
  <2>2. Total(balanceOf') = held' /\ held' \in Nat
    BY <1>1, <1>2, <1>4, <2>1
  <2>3. QED
    BY <1>1, <1>3, <2>1, <2>2, AddressFacts DEF TokenTypes
<1>7. QED
  BY <1>5, <1>6

-----------------------------------------------------------------------------
(* What each step changes *)

registryAndVaults == <<registryVars, vault_router, paused, collateral>>

\* The vaults' books with the tokens behind them.
BookInv == VaultInv /\ ClaimInv /\ TokenTypes /\ TokensBacked

LEMMA VaultsAreKept ==
  ASSUME UNCHANGED vault_router
  PROVE  Vaults' = Vaults
BY DEF Vaults

LEMMA RegistryKept ==
  ASSUME RegistryInv, UNCHANGED registryVars
  PROVE  RegistryInv' /\ \A v \in Addresses : Registered(v)' = Registered(v)
BY DEF RegistryInv, registryVars, OneVaultPerMarket, Registered

LEMMA SettingsKept ==
  ASSUME SettingsInv, UNCHANGED <<factoryVars, is_admin>>
  PROVE  SettingsInv'
BY DEF SettingsInv, factoryVars

LEMMA VaultsKept ==
  ASSUME VaultInv, UNCHANGED <<vault_metadata, vault_router, paused, collateral>>
  PROVE  VaultInv' /\ Vaults' = Vaults
BY DEF VaultInv, Vaults, Registered

LEMMA ClaimsKept ==
  ASSUME ClaimInv, UNCHANGED claimVars, Vaults \subseteq Vaults'
  PROVE  ClaimInv'
BY DEF ClaimInv, claimVars

LEMMA TokensKept ==
  ASSUME TokenTypes, TokensBacked, UNCHANGED <<tokenVars, collateral>>
  PROVE  TokenTypes' /\ TokensBacked'
<1>1. balanceOf' = balanceOf /\ collateral' = collateral /\ held' = held
      /\ native' = native /\ allowance' = allowance
  BY DEF tokenVars
<1>2. TokenTypes'
  BY <1>1 DEF TokenTypes
<1>3. Total(balanceOf)' = Total(balanceOf)
  BY <1>1, Zenon DEF Total, Points, Column
<1>4. \A v \in Addresses : Total(collateral[v])' = Total(collateral[v])
  BY <1>1, Zenon DEF Total, Points, Column
<1>5. TokensBacked'
  BY <1>1, <1>3, <1>4 DEF TokensBacked
<1>6. QED
  BY <1>2, <1>5

-----------------------------------------------------------------------------
(* The registry *)

LEMMA RegisterStep ==
  ASSUME RegistryInv, NEW v \in Addresses, NEW m \in Markets, register_vault(v, m)
  PROVE  /\ RegistryInv'
         /\ \A w \in Addresses \ {v} : Registered(w)' = Registered(w)
<1> DEFINE n == vault_count + 1
           entry == [id |-> n, market |-> m, active |-> TRUE]
           Ids == {vault_metadata[w].id : w \in {x \in Addresses : Registered(x)}}
           NewIds == {vault_metadata'[w].id : w \in {x \in Addresses : vault_metadata'[x].id # 0}}
<1>1. /\ ~Registered(v) /\ vault_for_market[m] = NoOne
      /\ vault_count' = n /\ n \in Nat \ {0} /\ registry_factory' = registry_factory
      /\ vault_for_market' = [vault_for_market EXCEPT ![m] = v]
      /\ vault_metadata' = [vault_metadata EXCEPT ![v] = entry]
  BY DEF register_vault, RegistryInv
<1>2. /\ vault_metadata' \in
           [Addresses -> [id : Nat, market : Markets \cup {NoOne}, active : BOOLEAN]]
      /\ vault_metadata'[v] = entry
      /\ \A w \in Addresses \ {v} : vault_metadata'[w] = vault_metadata[w]
  BY <1>1 DEF RegistryInv
<1>3. /\ vault_for_market' \in [Markets -> Addresses \cup {NoOne}]
      /\ vault_for_market'[m] = v
      /\ \A k \in Markets \ {m} : vault_for_market'[k] = vault_for_market[k]
  BY <1>1 DEF RegistryInv
<1>4. \A w \in Addresses \ {v} : Registered(w)' <=> Registered(w)
  BY <1>2 DEF Registered
<1>5. Registered(v)'
  BY <1>1, <1>2 DEF Registered
<1>6. NewIds = Ids \cup {n}
  BY <1>1, <1>2 DEF Registered
<1>7. Ids = 1 .. vault_count /\ vault_count \in Nat
  BY DEF RegistryInv
<1>8. NewIds = 1 .. n
  BY <1>6, <1>7
<1>9. \A w \in Addresses : Registered(w)' => vault_metadata'[w].market \in Markets
  BY <1>2, <1>4 DEF RegistryInv
<1>10. OneVaultPerMarket'
  <2>1. SUFFICES ASSUME NEW w \in Addresses, Registered(w)'
                 PROVE  vault_metadata'[w].active
                          <=> vault_for_market'[vault_metadata'[w].market] = w
    BY DEF OneVaultPerMarket
  <2>2. CASE w = v
    BY <1>2, <1>3, <2>2
  <2>3. CASE w # v
    <3>1. /\ Registered(w) /\ vault_metadata[w].market \in Markets
          /\ vault_metadata[w].active <=> vault_for_market[vault_metadata[w].market] = w
      BY <1>4, <2>1, <2>3 DEF OneVaultPerMarket, RegistryInv
    <3>2. CASE vault_metadata[w].market = m
      BY <1>1, <1>2, <1>3, <2>3, <3>1, <3>2, AddressFacts
    <3>3. CASE vault_metadata[w].market # m
      BY <1>2, <1>3, <2>3, <3>1, <3>3
    <3>4. QED
      BY <3>2, <3>3
  <2>4. QED
    BY <2>2, <2>3
<1>11. RegistryInv'
  BY <1>1, <1>2, <1>3, <1>8, <1>9, <1>10 DEF RegistryInv, Registered
<1>12. QED
  BY <1>4, <1>11 DEF Registered

LEMMA ActivateStep ==
  ASSUME RegistryInv, NEW v \in Addresses, NEW active \in BOOLEAN, set_vault_active(v, active)
  PROVE  /\ RegistryInv'
         /\ \A w \in Addresses : Registered(w)' <=> Registered(w)
<1> DEFINE m == vault_metadata[v].market
           served == IF active THEN v ELSE IF vault_for_market[m] = v THEN NoOne
                                           ELSE vault_for_market[m]
<1>1. /\ Registered(v)
      /\ vault_metadata' = [vault_metadata EXCEPT ![v].active = active]
      /\ active => vault_for_market[m] \in {NoOne, v}
      /\ vault_for_market' = [vault_for_market EXCEPT ![m] = served]
      /\ UNCHANGED <<registry_factory, vault_count>>
  BY DEF set_vault_active, SetActive
<1>2. m \in Markets
  BY <1>1 DEF RegistryInv
<1>3. /\ vault_metadata' \in
           [Addresses -> [id : Nat, market : Markets \cup {NoOne}, active : BOOLEAN]]
      /\ vault_metadata'[v].active = active
      /\ \A w \in Addresses : /\ vault_metadata'[w].id = vault_metadata[w].id
                              /\ vault_metadata'[w].market = vault_metadata[w].market
      /\ \A w \in Addresses \ {v} : vault_metadata'[w].active = vault_metadata[w].active
  BY <1>1 DEF RegistryInv
<1>4. /\ vault_for_market' \in [Markets -> Addresses \cup {NoOne}]
      /\ vault_for_market'[m] = served
      /\ \A k \in Markets \ {m} : vault_for_market'[k] = vault_for_market[k]
  BY <1>1, <1>2 DEF RegistryInv
<1>5. \A w \in Addresses : Registered(w)' <=> Registered(w)
  BY <1>3 DEF Registered
<1>6. OneVaultPerMarket'
  <2>1. SUFFICES ASSUME NEW w \in Addresses, Registered(w)'
                 PROVE  vault_metadata'[w].active
                          <=> vault_for_market'[vault_metadata'[w].market] = w
    BY DEF OneVaultPerMarket
  <2>2. /\ Registered(w) /\ vault_metadata[w].market \in Markets
        /\ vault_metadata[w].active <=> vault_for_market[vault_metadata[w].market] = w
    BY <1>5, <2>1 DEF OneVaultPerMarket, RegistryInv
  <2>3. CASE w = v
    BY <1>3, <1>4, <2>3, AddressFacts
  <2>4. CASE w # v
    BY <1>1, <1>3, <1>4, <2>2, <2>4, AddressFacts
  <2>5. QED
    BY <2>3, <2>4
<1>7. {vault_metadata'[w].id : w \in {x \in Addresses : vault_metadata'[x].id # 0}}
        = {vault_metadata[w].id : w \in {x \in Addresses : vault_metadata[x].id # 0}}
  BY <1>3
<1>8. RegistryInv'
  BY <1>1, <1>3, <1>4, <1>5, <1>6, <1>7 DEF RegistryInv, Registered
<1>9. QED
  BY <1>5, <1>8

-----------------------------------------------------------------------------
(* The factory and the administrators *)

LEMMA MakeVaultStep ==
  ASSUME RegistryInv, SettingsInv, VaultInv, NEW v, NEW m \in Markets, MakeVault(v, m)
  PROVE  RegistryInv' /\ SettingsInv' /\ VaultInv' /\ Vaults \subseteq Vaults'
<1> DEFINE router == IF manager = NoOne THEN Owner ELSE manager
<1>1. /\ v \in Addresses \ Vaults
      /\ vault_router' = [vault_router EXCEPT ![v] = router]
      /\ UNCHANGED <<factoryVars, is_admin, paused, collateral>>
      /\ UNCHANGED registryVars \/ register_vault(v, m)
  BY DEF MakeVault
<1>2. router \in {Owner, Protocol, OtherProtocol} /\ router # NoOne
  BY MarketAssumption DEF SettingsInv
<1>3. /\ vault_router' \in [Addresses -> {NoOne, Owner, Protocol, OtherProtocol}]
      /\ vault_router'[v] # NoOne
      /\ \A w \in Addresses \ {v} : vault_router'[w] = vault_router[w]
  BY <1>1, <1>2 DEF VaultInv
<1>4. Vaults' = Vaults \cup {v}
  BY <1>1, <1>3 DEF Vaults
<1>5. RegistryInv' /\ \A w \in Addresses \ {v} : Registered(w)' = Registered(w)
  BY <1>1, RegistryKept, RegisterStep
<1>6. VaultInv'
  BY <1>1, <1>3, <1>4, <1>5 DEF VaultInv
<1>7. QED
  BY <1>1, <1>4, <1>5, <1>6, SettingsKept

\* One vault's flag, with everything else as it was.
LEMMA PauseStep ==
  ASSUME RegistryInv, SettingsInv, VaultInv, NEW v \in Vaults, pause(v) \/ unpause(v)
  PROVE  RegistryInv' /\ SettingsInv' /\ VaultInv' /\ Vaults \subseteq Vaults'
<1>1. PICK b \in BOOLEAN : paused' = [paused EXCEPT ![v] = b]
  BY DEF pause, unpause
<1>2. UNCHANGED <<registryVars, factoryVars, is_admin, vault_router, collateral>>
  BY DEF pause, unpause
<1>3. RegistryInv' /\ \A w \in Addresses : Registered(w)' = Registered(w)
  BY <1>2, RegistryKept
<1>4. /\ paused' \in [Addresses -> BOOLEAN]
      /\ \A w \in Addresses \ {v} : paused'[w] = paused[w]
  BY <1>1 DEF VaultInv
<1>5. VaultInv' /\ Vaults' = Vaults
  BY <1>2, <1>3, <1>4, VaultsAreKept DEF VaultInv, Vaults
<1>6. QED
  BY <1>2, <1>3, <1>5, SettingsKept

\* What no administrator touches.
LEMMA AdminFrame ==
  ASSUME ClaimInv, TokenTypes, TokensBacked,
         UNCHANGED <<claimVars, tokenVars, collateral>>, Vaults \subseteq Vaults'
  PROVE  ClaimInv' /\ TokenTypes' /\ TokensBacked'
<1>1. UNCHANGED claimVars /\ UNCHANGED <<tokenVars, collateral>>
  OBVIOUS
<1>2. QED
  BY <1>1, ClaimsKept, TokensKept

LEMMA AdminStep ==
  ASSUME MarketsInv, AdminCall
  PROVE  MarketsInv'
<1> USE DEF MarketsInv
<1>1. UNCHANGED <<claimVars, tokenVars>>
  BY DEF AdminCall
<1> DEFINE Kept == RegistryInv' /\ SettingsInv' /\ VaultInv' /\ Vaults \subseteq Vaults'
                   /\ collateral' = collateral
\* The setters of the factory, of the registry and of the administrators.
<1>2. ASSUME SettingsInv', UNCHANGED <<vault_count, vault_metadata, vault_for_market, vaultVars>>,
             registry_factory' \in {NoOne, ThisFactory, OtherFactory}
      PROVE  Kept
  <2>1. RegistryInv'
    BY <1>2 DEF RegistryInv, OneVaultPerMarket, Registered
  <2>2. UNCHANGED <<vault_metadata, vault_router, paused, collateral>>
    BY <1>2 DEF vaultVars
  <2>3. QED
    BY <1>2, <2>1, <2>2, VaultsKept
<1>3. ASSUME NEW factory \in {ThisFactory, OtherFactory}, set_factory(factory)
      PROVE  Kept
  <2>1. SettingsInv'
    BY <1>3, SettingsKept DEF set_factory
  <2>2. QED
    BY <1>2, <1>3, <2>1 DEF set_factory
<1>4. ASSUME NEW router \in {Protocol, OtherProtocol}, set_manager(router)
      PROVE  Kept
  <2>1. SettingsInv'
    BY <1>4 DEF set_manager, SettingsInv
  <2>2. UNCHANGED <<vault_count, vault_metadata, vault_for_market, vaultVars, registry_factory>>
    BY <1>4 DEF set_manager, registryVars
  <2>3. QED
    BY <1>2, <2>1, <2>2 DEF RegistryInv
<1>5. ASSUME NEW registry \in {ThisRegistry, OtherRegistry}, set_registry(registry)
      PROVE  Kept
  <2>1. SettingsInv'
    BY <1>5 DEF set_registry, SettingsInv
  <2>2. UNCHANGED <<vault_count, vault_metadata, vault_for_market, vaultVars, registry_factory>>
    BY <1>5 DEF set_registry, registryVars
  <2>3. QED
    BY <1>2, <2>1, <2>2 DEF RegistryInv
<1>6. ASSUME NEW blueprint \in Blueprints, set_vault_blueprint(blueprint)
      PROVE  Kept
  <2>1. SettingsInv'
    BY <1>6 DEF set_vault_blueprint, SettingsInv
  <2>2. UNCHANGED <<vault_count, vault_metadata, vault_for_market, vaultVars, registry_factory>>
    BY <1>6 DEF set_vault_blueprint, registryVars
  <2>3. QED
    BY <1>2, <2>1, <2>2 DEF RegistryInv
<1>7. ASSUME NEW admin \in Admins, NEW enabled \in BOOLEAN, set_admin(admin, enabled)
      PROVE  Kept
  <2>1. SettingsInv'
    BY <1>7 DEF set_admin, SettingsInv, factoryVars
  <2>2. UNCHANGED <<vault_count, vault_metadata, vault_for_market, vaultVars, registry_factory>>
    BY <1>7 DEF set_admin, registryVars
  <2>3. QED
    BY <1>2, <2>1, <2>2 DEF RegistryInv
<1>8. ASSUME NEW v \in Vaults, NEW active \in BOOLEAN, set_vault_active(v, active)
      PROVE  Kept
  <2>1. v \in Addresses
    BY DEF Vaults
  <2>2. UNCHANGED vaultVars /\ UNCHANGED <<factoryVars, is_admin>>
    BY <1>8 DEF set_vault_active
  <2>3. RegistryInv' /\ \A w \in Addresses : Registered(w)' <=> Registered(w)
    BY <1>8, <2>1, ActivateStep
  <2>4. VaultInv' /\ Vaults' = Vaults
    BY <2>2, <2>3 DEF VaultInv, Vaults, vaultVars
  <2>5. SettingsInv' /\ collateral' = collateral
    BY <2>2, SettingsKept DEF vaultVars
  <2>6. QED
    BY <2>3, <2>4, <2>5
<1>9. ASSUME NEW v, NEW m \in Markets, MakeVault(v, m)
      PROVE  Kept
  <2>1. collateral' = collateral
    BY <1>9 DEF MakeVault
  <2>2. QED
    BY <1>9, <2>1, MakeVaultStep
<1>10. ASSUME NEW v \in Vaults, pause(v) \/ unpause(v)
       PROVE  Kept
  <2>1. collateral' = collateral
    BY <1>10 DEF pause, unpause
  <2>2. QED
    BY <1>10, <2>1, PauseStep
<1> HIDE DEF Kept
<1>11. ASSUME NEW m \in Markets,
              \/ create_vault(m)
              \/ \E salt \in Salts : create_vault_with_salt(m, salt)
              \/ \E caller \in {Owner} \cup Admins : create_market(caller, m)
       PROVE  Kept
  BY <1>9, <1>11 DEF create_vault, create_vault_with_salt, create_market
<1>12. Kept
  BY <1>3, <1>4, <1>5, <1>6, <1>7, <1>8, <1>10, <1>11, Zenon DEF AdminCall
<1>13. QED
  BY <1>1, <1>12, AdminFrame DEF Kept

-----------------------------------------------------------------------------
(* The collateral in the vaults *)

\* One account's collateral changes: its vault's sum moves by the difference, and
\* no other vault's moves.
LEMMA CollateralStep ==
  ASSUME VaultInv, NEW v \in Vaults, NEW u \in Users, NEW c \in Nat,
         SetCollateral(v, u, c)
  PROVE  /\ collateral' \in [Addresses -> [Users -> Nat]]
         /\ collateral[v][u] \in Nat /\ collateral[v][u] <= Total(collateral[v])
         /\ Total(collateral[v]) \in Nat
         /\ Total(collateral'[v]) = Total(collateral[v]) - collateral[v][u] + c
         /\ \A w \in Addresses \ {v} : collateral'[w] = collateral[w]
<1>1. v \in Addresses /\ collateral \in [Addresses -> [Users -> Nat]]
  BY DEF Vaults, VaultInv
<1>2. /\ collateral' \in [Addresses -> [Users -> Nat]]
      /\ \A w \in Addresses \ {v} : collateral'[w] = collateral[w]
      /\ collateral'[v][u] = c
      /\ \A x \in Users \ {u} : collateral'[v][x] = collateral[v][x]
  BY <1>1 DEF SetCollateral
<1>3. PICK f : f = collateral[v]
  OBVIOUS
<1>4. PICK g : g = collateral'[v]
  OBVIOUS
<1>5. f \in [Users -> Nat] /\ g \in [Users -> Nat] /\ g[u] = c
      /\ \A x \in Users \ {u} : g[x] = f[x]
  BY <1>1, <1>2, <1>3, <1>4
<1>6. /\ Total(g) = Total(f) - f[u] + g[u]
      /\ f[u] <= Total(f) /\ Total(f) \in Nat /\ f[u] \in Nat
  BY <1>5, HoldersAreFinite, TotalUpdate, TotalBoundsTerm, TotalType
<1>7. QED
  BY <1>2, <1>3, <1>4, <1>5, <1>6

LEMMA VaultCollateralStep ==
  ASSUME VaultInv, NEW v \in Vaults, NEW u \in Users, NEW c \in Nat,
         SetCollateral(v, u, c), UNCHANGED configVars
  PROVE  VaultInv'
<1>1. /\ collateral' \in [Addresses -> [Users -> Nat]]
      /\ \A w \in Addresses \ {v} : collateral'[w] = collateral[w]
  BY CollateralStep
<1>2. UNCHANGED <<vault_metadata, vault_router, paused>>
  BY DEF configVars, registryVars
<1>3. QED
  BY <1>1, <1>2 DEF VaultInv, Vaults, Registered

\* Tokens that enter the vault with a deposit.
LEMMA DepositStep ==
  ASSUME VaultInv, TokenTypes, TokensBacked,
         NEW v, NEW u \in Users, NEW amount \in Nat, DepositTo(v, u, amount)
  PROVE  VaultInv' /\ TokenTypes' /\ TokensBacked'
<1> DEFINE c == collateral[v][u] + amount
<1>1. /\ v \in Vaults /\ v \in Addresses /\ SetCollateral(v, u, c)
      /\ Token!transferFrom(v, u, v, amount) /\ UNCHANGED configVars
  BY DEF DepositTo, Vaults
<1>2. collateral[v][u] \in Nat /\ c \in Nat
  BY <1>1 DEF VaultInv
<1> HIDE DEF c
<1>3. /\ Total(collateral'[v]) = Total(collateral[v]) - collateral[v][u] + c
      /\ \A w \in Addresses \ {v} : collateral'[w] = collateral[w]
      /\ Total(collateral[v]) \in Nat
  BY <1>1, <1>2, CollateralStep
<1>4. u \in Accounts /\ u \in Holders /\ v \in Holders /\ u # v
      /\ \A w \in Addresses : w # u /\ w \in Holders
  BY <1>1, AddressFacts
<1>5. Total(balanceOf) = held /\ \A w \in Addresses : balanceOf[w] >= Total(collateral[w])
  BY DEF TokensBacked
<1>6. /\ TokenTypes' /\ Total(balanceOf)' = held'
      /\ \A a \in Holders \ {u} :
           balanceOf'[a] = IF a = v THEN balanceOf[a] + amount ELSE balanceOf[a]
  BY <1>1, <1>4, <1>5, TransferKeepsTokens
<1>7. ASSUME NEW w \in Addresses
      PROVE  balanceOf'[w] >= Total(collateral'[w])
  <2>1. CASE w = v
    <3>1. Total(collateral'[v]) = Total(collateral[v]) + amount
      BY <1>2, <1>3 DEF c
    <3>2. balanceOf'[v] = balanceOf[v] + amount /\ balanceOf[v] \in Nat
      BY <1>4, <1>6 DEF TokenTypes
    <3>3. QED
      BY <1>1, <1>3, <1>5, <2>1, <3>1, <3>2
  <2>2. CASE w # v
    <3>1. balanceOf'[w] = balanceOf[w]
      BY <1>4, <1>6, <2>2
    <3>2. QED
      BY <1>3, <1>5, <2>2, <3>1
  <2>3. QED
    BY <2>1, <2>2
<1>8. \A w \in Addresses : Total(collateral[w])' = Total(collateral'[w])
  BY Zenon DEF Total, Points, Column
<1>9. TokensBacked'
  BY <1>6, <1>7, <1>8 DEF TokensBacked
<1>10. QED
  BY <1>1, <1>2, <1>6, <1>9, VaultCollateralStep

\* Tokens that leave the vault, no more than leave the account: to the user who
\* withdraws or repays, or to the filler who liquidates.
LEMMA PayOutStep ==
  ASSUME VaultInv, TokenTypes, TokensBacked,
         NEW v \in Vaults, NEW u \in Users, NEW receiver \in Accounts, NEW amount \in Nat,
         NEW c \in Nat, c = collateral[v][u] - amount,
         SetCollateral(v, u, c), Token!transfer(v, receiver, amount)
  PROVE  /\ TokenTypes' /\ TokensBacked'
<1>1. v \in Addresses /\ Token!transferFrom(v, v, receiver, amount)
  BY DEF Vaults, Token!transfer
<1>2. /\ Total(collateral'[v]) = Total(collateral[v]) - collateral[v][u] + c
      /\ \A w \in Addresses \ {v} : collateral'[w] = collateral[w]
      /\ Total(collateral[v]) \in Nat /\ collateral[v][u] \in Nat
  BY CollateralStep
<1>3. receiver \in Holders /\ v \in Holders /\ receiver # v
      /\ \A w \in Addresses : w # receiver /\ w \in Holders
  BY <1>1, AddressFacts DEF Holders
<1>4. Total(balanceOf) = held /\ \A w \in Addresses : balanceOf[w] >= Total(collateral[w])
  BY DEF TokensBacked
<1>5. /\ TokenTypes' /\ Total(balanceOf)' = held'
      /\ \A a \in Holders \ {v} :
           balanceOf'[a] = IF a = receiver THEN balanceOf[a] + amount ELSE balanceOf[a]
      /\ balanceOf'[v] = balanceOf[v] - amount /\ balanceOf[v] \in Nat
  BY <1>1, <1>3, <1>4, TransferKeepsTokens DEF TokenTypes
<1>6. ASSUME NEW w \in Addresses
      PROVE  balanceOf'[w] >= Total(collateral'[w])
  <2>1. CASE w = v
    <3>1. Total(collateral'[v]) = Total(collateral[v]) - amount
      BY <1>2
    <3>2. QED
      BY <1>1, <1>2, <1>4, <1>5, <2>1, <3>1
  <2>2. CASE w # v
    <3>1. balanceOf'[w] = balanceOf[w]
      BY <1>3, <1>5, <2>2
    <3>2. QED
      BY <1>2, <1>4, <2>2, <3>1
  <2>3. QED
    BY <2>1, <2>2
<1>7. \A w \in Addresses : Total(collateral[w])' = Total(collateral'[w])
  BY Zenon DEF Total, Points, Column
<1>8. TokensBacked'
  BY <1>5, <1>6, <1>7 DEF TokensBacked
<1>9. QED
  BY <1>5, <1>8

\* A step of the users, the claims or the token leaves registry and settings.
LEMMA ConfigKept ==
  ASSUME RegistryInv, SettingsInv, UNCHANGED configVars
  PROVE  RegistryInv' /\ SettingsInv' /\ Vaults' = Vaults
<1>1. UNCHANGED registryVars /\ UNCHANGED <<factoryVars, is_admin>> /\ UNCHANGED vault_router
  BY DEF configVars
<1>2. QED
  BY <1>1, RegistryKept, SettingsKept, VaultsAreKept

LEMMA UserDepositStep ==
  ASSUME MarketsInv, NEW v, NEW u \in Users, NEW amount \in Nat, DepositTo(v, u, amount)
  PROVE  MarketsInv'
<1>1. UNCHANGED configVars /\ UNCHANGED claimVars
  BY DEF DepositTo
<1>2. QED
  BY <1>1, DepositStep, ConfigKept, ClaimsKept DEF MarketsInv

LEMMA UserWithdrawStep ==
  ASSUME MarketsInv, NEW v, NEW u \in Users, NEW amount \in Nat, WithdrawFrom(v, u, amount)
  PROVE  MarketsInv'
<1> DEFINE c == collateral[v][u] - amount
<1>1. /\ v \in Vaults /\ amount <= collateral[v][u] /\ SetCollateral(v, u, c)
      /\ Token!transfer(v, u, amount) /\ UNCHANGED configVars /\ UNCHANGED claimVars
  BY DEF WithdrawFrom, Withdrawable
<1>2. collateral[v][u] \in Nat /\ c \in Nat
  BY <1>1 DEF VaultInv, MarketsInv, Vaults
<1>3. u \in Accounts
  BY AddressFacts
<1>4. TokenTypes' /\ TokensBacked'
  BY <1>1, <1>2, <1>3, PayOutStep DEF MarketsInv
<1> HIDE DEF c
<1>5. VaultInv'
  BY <1>1, <1>2, VaultCollateralStep DEF MarketsInv
<1>6. QED
  BY <1>1, <1>4, <1>5, ConfigKept, ClaimsKept DEF MarketsInv

\* A claim's status changes, its vault does not.
LEMMA StatusStep ==
  ASSUME ClaimInv, NEW o \in OrderIds, NEW s \in ClaimStatus, claims[o].status # "NONE",
         SetStatus(o, s), UNCHANGED order_nonce, Vaults' = Vaults
  PROVE  ClaimInv'
<1>1. /\ claims' \in [OrderIds -> [status : ClaimStatus, market : Markets \cup {NoOne},
                                   vault : Addresses \cup {NoOne}]]
      /\ claims'[o].vault = claims[o].vault
      /\ \A p \in OrderIds \ {o} : claims'[p] = claims[p]
  BY DEF SetStatus, ClaimInv
<1>2. QED
  BY <1>1 DEF ClaimInv

LEMMA OpenStep ==
  ASSUME MarketsInv, NEW m \in Markets, NEW u \in Users, open(m, u)
  PROVE  MarketsInv'
<1> DEFINE o == <<u, order_nonce[u] + 1>>
<1>1. PICK v \in Vaults :
        claims' = [claims EXCEPT ![o] = [status |-> "OPEN", market |-> m, vault |-> v]]
  BY DEF open
<1>2. /\ order_nonce[u] < MaxNonce /\ order_nonce' = [order_nonce EXCEPT ![u] = @ + 1]
      /\ UNCHANGED configVars /\ UNCHANGED <<tokenVars, collateral>>
  BY DEF open
<1>3. o \in OrderIds /\ v \in Addresses /\ order_nonce' \in [Users -> Nat]
  BY <1>2, MarketAssumption DEF OrderIds, MarketsInv, ClaimInv, Vaults
<1>4. RegistryInv' /\ SettingsInv' /\ Vaults' = Vaults
  BY <1>2, ConfigKept DEF MarketsInv
<1>5. VaultInv'
  BY <1>2, VaultsKept DEF MarketsInv, configVars, registryVars
<1>6. TokenTypes' /\ TokensBacked'
  BY <1>2, TokensKept DEF MarketsInv
<1> HIDE DEF o
<1>7. /\ claims' \in [OrderIds -> [status : ClaimStatus, market : Markets \cup {NoOne},
                                   vault : Addresses \cup {NoOne}]]
      /\ claims'[o].vault = v
      /\ \A p \in OrderIds \ {o} : claims'[p] = claims[p]
  BY <1>1, <1>3 DEF MarketsInv, ClaimInv, ClaimStatus
<1>8. ClaimInv'
  BY <1>3, <1>4, <1>7 DEF ClaimInv, MarketsInv
<1>9. QED
  BY <1>4, <1>5, <1>6, <1>8 DEF MarketsInv

\* Cancelling and filling move no collateral.
LEMMA PlainClaimStep ==
  ASSUME MarketsInv, NEW o \in OrderIds, cancel_claim(o) \/ fill(o)
  PROVE  MarketsInv'
<1>1. PICK s \in ClaimStatus : SetStatus(o, s)
  BY DEF cancel_claim, fill, ClaimStatus
<1>2. /\ claims[o].status # "NONE" /\ UNCHANGED order_nonce
      /\ UNCHANGED configVars /\ UNCHANGED <<tokenVars, collateral>>
  BY DEF cancel_claim, fill
<1>3. RegistryInv' /\ SettingsInv' /\ Vaults' = Vaults
  BY <1>2, ConfigKept DEF MarketsInv
<1>4. VaultInv'
  BY <1>2, VaultsKept DEF MarketsInv, configVars, registryVars
<1>5. TokenTypes' /\ TokensBacked'
  BY <1>2, TokensKept DEF MarketsInv
<1>6. ClaimInv'
  BY <1>1, <1>2, <1>3, StatusStep DEF MarketsInv
<1>7. QED
  BY <1>3, <1>4, <1>5, <1>6 DEF MarketsInv

\* Repaying and liquidating release all of the account's collateral.
LEMMA ReleaseStep ==
  ASSUME MarketsInv, NEW o \in OrderIds, repay_claim(o) \/ liquidate_claim(o)
  PROVE  MarketsInv'
<1> DEFINE v == claims[o].vault
           u == o[1]
<1>1. PICK s \in ClaimStatus : SetStatus(o, s)
  BY DEF repay_claim, liquidate_claim, ClaimStatus
<1>2. u \in Users
  BY DEF OrderIds
<1>3. PICK receiver \in Accounts : Release(o, receiver)
  BY <1>2, AddressFacts DEF repay_claim, liquidate_claim
<1>4. claims[o].status = "FILLED" /\ UNCHANGED order_nonce /\ UNCHANGED configVars
  BY DEF repay_claim, liquidate_claim
<1>5. v \in Vaults /\ v \in Addresses
  BY <1>4 DEF MarketsInv, ClaimInv, Vaults
<1>6. SetCollateral(v, u, 0) /\ Token!transfer(v, receiver, collateral[v][u])
  BY <1>3 DEF Release
<1> HIDE DEF v, u
<1>7. collateral[v][u] \in Nat /\ 0 = collateral[v][u] - collateral[v][u]
  BY <1>2, <1>5 DEF MarketsInv, VaultInv
<1>8. TokenTypes' /\ TokensBacked'
  BY <1>2, <1>5, <1>6, <1>7, PayOutStep DEF MarketsInv
<1>9. VaultInv'
  BY <1>2, <1>4, <1>5, <1>6, VaultCollateralStep DEF MarketsInv
<1>10. RegistryInv' /\ SettingsInv' /\ Vaults' = Vaults
  BY <1>4, ConfigKept DEF MarketsInv
<1>11. ClaimInv'
  BY <1>1, <1>4, <1>10, StatusStep DEF MarketsInv
<1>12. QED
  BY <1>8, <1>9, <1>10, <1>11 DEF MarketsInv

-----------------------------------------------------------------------------
(* The token's own calls *)

\* Nobody but a vault takes tokens out of a vault, so what it holds only grows.
LEMMA TokenStep ==
  ASSUME MarketsInv, TokenCall
  PROVE  MarketsInv'
<1>1. PICK a \in Accounts, amount \in Amounts :
        \/ Token!deposit(a, amount) \/ Token!withdraw(a, amount)
        \/ \E to \in Accounts \cup Addresses :
             Token!transfer(a, to, amount) \/ \E from \in Accounts \ {a} :
                                                Token!transferFrom(a, from, to, amount)
        \/ /\ a \in Users /\ ~leaving[a]
           /\ \/ Token!approve(a, Filler, amount)
              \/ \E v \in Vaults, allowed \in Approvals : Token!approve(a, v, allowed)
  BY DEF TokenCall
<1>2. UNCHANGED configVars /\ UNCHANGED claimVars /\ collateral' = collateral
  BY DEF TokenCall
<1>3. amount \in Nat /\ a \in Holders
  BY MarketAssumption DEF Holders
<1>4. TokenTypes /\ Total(balanceOf) = held
      /\ \A w \in Addresses : balanceOf[w] >= Total(collateral[w]) /\ balanceOf[w] \in Nat
  BY DEF MarketsInv, TokensBacked, TokenTypes, Holders
<1>5. ASSUME TokenTypes', Total(balanceOf)' = held',
             \A w \in Addresses : balanceOf'[w] = balanceOf[w] \/ balanceOf'[w] = balanceOf[w] + amount
      PROVE  TokenTypes' /\ TokensBacked'
  <2>1. \A w \in Addresses : Total(collateral[w])' = Total(collateral[w])
    BY <1>2, Zenon DEF Total, Points, Column
  <2>2. \A w \in Addresses : Total(collateral[w]) \in Nat
    BY HoldersAreFinite, TotalType DEF MarketsInv, VaultInv
  <2>3. \A w \in Addresses : balanceOf'[w] >= Total(collateral[w])
    BY <1>3, <1>4, <1>5, <2>2
  <2>4. QED
    BY <1>5, <2>1, <2>3 DEF TokensBacked
<1>6. ASSUME Token!deposit(a, amount) \/ Token!withdraw(a, amount)
      PROVE  TokenTypes' /\ TokensBacked'
  BY <1>3, <1>4, <1>5, <1>6, WrapKeepsTokens
<1>7. ASSUME NEW to \in Holders, NEW from \in Accounts, Token!transferFrom(a, from, to, amount)
      PROVE  TokenTypes' /\ TokensBacked'
  <2>1. from \in Holders /\ \A w \in Addresses : w # from /\ w \in Holders
    BY AddressFacts DEF Holders
  <2>2. QED
    BY <1>3, <1>4, <1>5, <1>7, <2>1, TransferKeepsTokens
<1>8. ASSUME NEW s \in Holders, NEW n \in Nat, Token!approve(a, s, n)
      PROVE  TokenTypes' /\ TokensBacked'
  <2>1. allowance' \in [Accounts -> [Holders -> Nat]]
        /\ UNCHANGED <<native, held, balanceOf>>
    BY <1>4, <1>8 DEF Token!approve, TokenTypes
  <2>2. Total(balanceOf)' = Total(balanceOf)
    BY <2>1, Zenon DEF Total, Points, Column
  <2>3. QED
    BY <1>4, <1>5, <2>1, <2>2 DEF TokenTypes
<1>9. TokenTypes' /\ TokensBacked'
  <2>1. CASE \E to \in Accounts \cup Addresses :
               Token!transfer(a, to, amount) \/ \E from \in Accounts \ {a} :
                                                  Token!transferFrom(a, from, to, amount)
    BY <1>7, <2>1 DEF Holders, Token!transfer
  <2>2. CASE \/ Token!approve(a, Filler, amount)
             \/ \E v \in Vaults, allowed \in Approvals : Token!approve(a, v, allowed)
    BY <1>3, <1>8, <2>2, AddressFacts, MarketAssumption DEF Vaults
  <2>3. QED
    BY <1>1, <1>6, <2>1, <2>2
<1>10. RegistryInv' /\ SettingsInv' /\ Vaults' = Vaults
  BY <1>2, ConfigKept DEF MarketsInv
<1>11. VaultInv'
  BY <1>2, VaultsKept DEF MarketsInv, configVars, registryVars
<1>12. ClaimInv'
  BY <1>2, <1>10, ClaimsKept DEF MarketsInv
<1>13. QED
  BY <1>9, <1>10, <1>11, <1>12 DEF MarketsInv

-----------------------------------------------------------------------------
(* The invariant *)

LEMMA InvInit ==
  ASSUME Init
  PROVE  MarketsInv
<1>1. RegistryInv
  <2>1. \A v \in Addresses : ~Registered(v)
    BY DEF Init, Registered, NotRegistered
  <2>2. {vault_metadata[v].id : v \in {w \in Addresses : Registered(w)}} = 1 .. vault_count
    BY <2>1 DEF Init
  <2>3. QED
    BY <2>1, <2>2 DEF Init, RegistryInv, NotRegistered, OneVaultPerMarket
<1>2. SettingsInv
  BY MarketAssumption DEF Init, SettingsInv
<1>3. VaultInv
  BY DEF Init, VaultInv, Registered, NotRegistered
<1>4. ClaimInv
  BY DEF Init, ClaimInv, NoClaim, ClaimStatus
<1>5. TokenTypes
  BY MarketAssumption DEF Init, TokenTypes, Holders
<1>6. TokensBacked
  <2>1. Total(balanceOf) = 0
    BY <1>5, TotalZero DEF Init, TokenTypes, Holders
  <2>2. \A v \in Addresses : Total(collateral[v]) = 0
    BY <1>3, TotalZero DEF Init, VaultInv
  <2>3. \A v \in Addresses : balanceOf[v] = 0
    BY DEF Init
  <2>4. QED
    BY <2>1, <2>2, <2>3 DEF Init, TokensBacked
<1>7. QED
  BY <1>1, <1>2, <1>3, <1>4, <1>5, <1>6 DEF MarketsInv

LEMMA InvStutter ==
  ASSUME MarketsInv, UNCHANGED <<configVars, collateral, claimVars, tokenVars>>
  PROVE  MarketsInv'
<1>1. UNCHANGED configVars /\ UNCHANGED claimVars /\ UNCHANGED <<tokenVars, collateral>>
  OBVIOUS
<1>2. UNCHANGED <<vault_metadata, vault_router, paused, collateral>>
  BY <1>1 DEF configVars, registryVars
<1>3. QED
  BY <1>1, <1>2, ConfigKept, VaultsKept, ClaimsKept, TokensKept DEF MarketsInv

LEMMA InvNext ==
  ASSUME MarketsInv, [Next]_vars
  PROVE  MarketsInv'
<1>1. CASE AdminCall
  BY <1>1, AdminStep
<1>2. CASE UserCall
  <2>1. PICK u \in Users, amount \in Amounts :
          \/ \E m \in Markets : deposit(m, u, amount) \/ withdraw(m, u, amount) \/ open(m, u)
          \/ \E v \in Addresses : DepositTo(v, u, amount) \/ WithdrawFrom(v, u, amount)
    BY <1>2 DEF UserCall
  <2>2. amount \in Nat
    BY MarketAssumption
  <2>3. CASE \E m \in Markets : open(m, u)
    BY <2>3, OpenStep
  <2>4. CASE \E v : DepositTo(v, u, amount)
    BY <2>2, <2>4, UserDepositStep
  <2>5. CASE \E v : WithdrawFrom(v, u, amount)
    BY <2>2, <2>5, UserWithdrawStep
  <2>6. QED
    BY <2>1, <2>3, <2>4, <2>5 DEF deposit, withdraw
<1>3. CASE TokenCall
  BY <1>3, TokenStep
<1>4. CASE ClaimCall
  <2>1. CASE \E o \in OrderIds : cancel_claim(o) \/ fill(o)
    BY <2>1, PlainClaimStep
  <2>2. CASE \E o \in OrderIds : repay_claim(o) \/ liquidate_claim(o)
    BY <2>2, ReleaseStep
  <2>3. CASE \E m \in Markets, u \in Users : repay(m, u)
    <3>1. \E o \in OrderIds : repay_claim(o)
      BY <2>3 DEF repay, LiveClaims
    <3>2. QED
      BY <3>1, ReleaseStep
  <2>4. QED
    BY <1>4, <2>1, <2>2, <2>3 DEF ClaimCall
<1>5. CASE \E u \in Users : Leave(u) \/ \E v \in Addresses : WithdrawAll(v, u)
  <2>1. CASE \E u \in Users : Leave(u)
    BY <2>1, InvStutter DEF Leave
  <2>2. ASSUME NEW u \in Users, NEW v \in Addresses, WithdrawAll(v, u)
        PROVE  MarketsInv'
    <3>1. collateral[v][u] \in Nat
      BY DEF MarketsInv, VaultInv
    <3>2. PICK amount \in Nat : amount = collateral[v][u]
      BY <3>1
    <3>3. WithdrawFrom(v, u, amount)
      BY <2>2, <3>2 DEF WithdrawAll
    <3>4. QED
      BY <3>3, UserWithdrawStep
  <2>3. QED
    BY <1>5, <2>1, <2>2
<1>6. CASE UNCHANGED vars
  BY <1>6, InvStutter DEF vars
<1>7. QED
  BY <1>1, <1>2, <1>3, <1>4, <1>5, <1>6 DEF Next

\* What every reachable state satisfies: the registry's books, what no vault
\* means at an address, and the tokens behind every account.
THEOREM MarketsInvariant == Spec => []MarketsInv
<1>1. Init => MarketsInv
  BY InvInit
<1>2. MarketsInv /\ [Next]_vars => MarketsInv'
  BY InvNext
<1>3. QED
  BY <1>1, <1>2, PTL DEF Spec

\* Types, the registry's numbering, and that only vaults hold collateral,
\* claims and registrations.
THEOREM TypeSafety == Spec => []TypeOK
<1>1. MarketsInv => TypeOK
  BY DEF MarketsInv, RegistryInv, SettingsInv, VaultInv, ClaimInv, TokenTypes, Holders, TypeOK
<1>2. QED
  BY <1>1, MarketsInvariant, PTL

\* Through any sequence of creations, deactivations, replacements and returns
\* (AyniVaultRegistry.sol) a market has at most one active vault: the one the
\* registry returns for it.
THEOREM MarketsHaveOneVault == Spec => []OneVaultPerMarket
<1>1. MarketsInv => OneVaultPerMarket
  BY DEF MarketsInv, RegistryInv
<1>2. QED
  BY <1>1, MarketsInvariant, PTL

\* Wrapped tokens are backed one for one, and a vault always holds the tokens it
\* owes its users, whoever transfers what to whom (WrappedZkLTC.sol, AyniVault.sol).
THEOREM TokensAlwaysBacked == Spec => []TokensBacked
<1>1. MarketsInv => TokensBacked
  BY DEF MarketsInv
<1>2. QED
  BY <1>1, MarketsInvariant, PTL
=============================================================================
