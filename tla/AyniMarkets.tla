----------------------------- MODULE AyniMarkets ------------------------------
(***************************************************************************)
(* Many markets: the factory that makes vaults (AyniVaultFactory.sol,      *)
(* Clones.sol), the registry that says which vault serves a market         *)
(* (AyniVaultRegistry.sol), the router that looks it up (AyniProtocol.sol),*)
(* the vaults' custody of collateral, and the collateral token.            *)
(*                                                                         *)
(* A market is a pair of tokens; there is one collateral token, so it is   *)
(* named by its debt asset.  Debts and prices are AyniVault's and          *)
(* AyniProtocol's matter: here an account with a filled claim may withdraw *)
(* all but its last unit, and anybody may liquidate the claim.  The router *)
(* and the vault each record a claim's status and agree (StatusMirror in   *)
(* AyniProtocol, OrdersAgree in AyniVault), so `claims' stands for both.   *)
(* As in AyniVault, x_bug... is x with a plausible mistake.                *)
(***************************************************************************)
EXTENDS AyniMath

CONSTANTS
  Markets,
  Users,            \* borrowers
  Filler,           \* fills claims, and receives liquidated collateral
  Owner,            \* of registry, factory, router and vaults
  Admins,           \* accounts the owner may make administrators
  Protocol, OtherProtocol,        \* routers; the second is a redeployment
  ThisFactory, OtherFactory, ThisRegistry, OtherRegistry,
  Blueprints, FirstBlueprint, Salts,
  NoOne,            \* address(0)
  InitialNative,    \* coin each account starts with
  Amounts,
  Approvals,        \* allowances the users give to vaults
  Unlimited,        \* type(uint256).max
  MaxVaults,        \* bound on the vaults made
  MaxNonce,         \* bound on the claims of one user
  MaxAdminCalls     \* bound on the calls of the owner and the administrators

ASSUME MarketAssumption ==
  /\ IsFiniteSet(Users) /\ IsFiniteSet(Blueprints) /\ IsFiniteSet(Salts)
  /\ NoOne \notin Users \cup {Filler, Owner, Protocol, OtherProtocol, ThisFactory, OtherFactory}
  /\ Protocol \notin {Owner, OtherProtocol}
  /\ ThisFactory # OtherFactory /\ ThisRegistry # OtherRegistry
  /\ FirstBlueprint \in Blueprints /\ Filler \notin Users
  /\ InitialNative \in Nat /\ Amounts \subseteq Nat \ {0} /\ Approvals \subseteq Nat
  /\ Unlimited \in Nat \ {0}
  /\ MaxVaults \in Nat /\ MaxNonce \in Nat /\ MaxAdminCalls \in Nat

\* create derives an address from the factory's own nonce, create2 from the
\* code (the blueprint behind the clone) and the salt.
Cloned(n) == <<"create", n>>
Salted(blueprint, salt) == <<blueprint, salt>>
Addresses == {Cloned(n) : n \in 1 .. MaxVaults} \cup (Blueprints \X Salts)

OrderIds == Users \X (1 .. MaxNonce)
Accounts == Users \cup {Filler}

\* A contract's address is nobody's account, and not address(0).
ASSUME AddressAssumption == Addresses \cap (Accounts \cup {NoOne}) = {}

VARIABLES
  registry_factory,   \* registry.factory
  vault_count, vault_metadata, vault_for_market,
  manager, factory_registry, vault_blueprint,   \* the factory
  is_admin,           \* the router's administrators
  vault_router,       \* _router of each vault; NoOne where there is no vault
  paused, collateral, \* of each vault, and of each user in it
  claims, order_nonce,
  leaving,            \* users who have decided to take their collateral home
  admin_calls         \* counts the calls MaxAdminCalls bounds
VARIABLES native, held, balanceOf, allowance

Token == INSTANCE AyniWrappedZkLTC

registryVars == <<registry_factory, vault_count, vault_metadata, vault_for_market>>
factoryVars == <<manager, factory_registry, vault_blueprint>>
vaultVars == <<vault_router, paused, collateral>>
claimVars == <<claims, order_nonce>>
tokenVars == <<native, held, balanceOf, allowance>>
configVars == <<registryVars, factoryVars, is_admin, vault_router, paused, admin_calls>>
vars == <<configVars, collateral, claimVars, leaving, tokenVars>>

NotRegistered == [id |-> 0, market |-> NoOne, active |-> FALSE]
NoClaim == [status |-> "NONE", market |-> NoOne, vault |-> NoOne]

\* Deployed; the owner may have connected registry, factory and router or not.
Init ==
  /\ registry_factory \in {NoOne, ThisFactory} /\ manager \in {NoOne, Protocol}
  /\ factory_registry = ThisRegistry /\ vault_blueprint = FirstBlueprint
  /\ vault_count = 0
  /\ vault_metadata = [v \in Addresses |-> NotRegistered]
  /\ vault_for_market = [m \in Markets |-> NoOne]
  /\ is_admin = {}
  /\ vault_router = [v \in Addresses |-> NoOne]
  /\ paused = [v \in Addresses |-> FALSE]
  /\ collateral = [v \in Addresses |-> [u \in Users |-> 0]]
  /\ claims = [o \in OrderIds |-> NoClaim]
  /\ order_nonce = [u \in Users |-> 0]
  /\ leaving = [u \in Users |-> FALSE]
  /\ admin_calls = 0
  /\ native = [a \in Accounts |-> IF a \in Users THEN InitialNative ELSE 0]
  /\ held = 0
  /\ balanceOf = [a \in Accounts \cup Addresses |-> 0]
  /\ allowance = [a \in Accounts |-> [s \in Accounts \cup Addresses |-> 0]]
-----------------------------------------------------------------------------
(* The registry *)

Vaults == {v \in Addresses : vault_router[v] # NoOne}
Registered(v) == vault_metadata[v].id # 0

\* register_vault: the factory's call, for a vault it has just made.
register_vault(v, market) ==
  /\ registry_factory = ThisFactory
  /\ ~Registered(v)
  /\ vault_for_market[market] = NoOne
  /\ vault_count' = vault_count + 1
  /\ vault_for_market' = [vault_for_market EXCEPT ![market] = v]
  /\ vault_metadata' = [vault_metadata EXCEPT ![v] =
                          [id |-> vault_count + 1, market |-> market, active |-> TRUE]]
  /\ UNCHANGED registry_factory

set_factory(factory) ==
  /\ registry_factory' = factory
  /\ UNCHANGED <<vault_count, vault_metadata, vault_for_market, factoryVars, is_admin, vaultVars>>

SetActive(v, active) ==
  vault_metadata' = [vault_metadata EXCEPT ![v].active = active]

set_vault_active_bugTakesOver(v, active) ==
  /\ Registered(v)
  /\ SetActive(v, active)
  /\ LET market == vault_metadata[v].market
     IN  vault_for_market' = [vault_for_market EXCEPT ![market] =
                                IF active THEN v ELSE IF @ = v THEN NoOne ELSE @]
  /\ UNCHANGED <<registry_factory, vault_count, factoryVars, is_admin, vaultVars>>

set_vault_active(v, active) ==
  /\ Registered(v)
  /\ SetActive(v, active)
  /\ LET market == vault_metadata[v].market
     IN  /\ active => vault_for_market[market] \in {NoOne, v}
         /\ vault_for_market' = [vault_for_market EXCEPT ![market] =
                                   IF active THEN v ELSE IF @ = v THEN NoOne ELSE @]
  /\ UNCHANGED <<registry_factory, vault_count, factoryVars, is_admin, vaultVars>>
-----------------------------------------------------------------------------
(* The factory *)

set_manager(router) ==
  /\ manager' = router
  /\ UNCHANGED <<registryVars, factory_registry, vault_blueprint, is_admin, vaultVars>>
set_registry(registry) ==
  /\ factory_registry' = registry
  /\ UNCHANGED <<registryVars, manager, vault_blueprint, is_admin, vaultVars>>
set_vault_blueprint(blueprint) ==
  /\ vault_blueprint' = blueprint
  /\ UNCHANGED <<registryVars, manager, factory_registry, is_admin, vaultVars>>

\* initialize: the new vault obeys the manager of the moment, or the owner's own
\* account, for good.  Another registry keeps books of its own.
MakeVault(v, market) ==
  /\ v \in Addresses \ Vaults
  /\ vault_router' = [vault_router EXCEPT ![v] = IF manager = NoOne THEN Owner ELSE manager]
  /\ \/ factory_registry = ThisRegistry /\ register_vault(v, market)
     \/ factory_registry = OtherRegistry /\ UNCHANGED registryVars
  /\ UNCHANGED <<factoryVars, is_admin, paused, collateral>>

create_vault(market) ==
  Cardinality(Vaults) < MaxVaults /\ MakeVault(Cloned(Cardinality(Vaults) + 1), market)
\* A second clone of the blueprint with the same salt has no address to go to.
create_vault_with_salt(market, salt) ==
  Cardinality(Vaults) < MaxVaults /\ MakeVault(Salted(vault_blueprint, salt), market)
-----------------------------------------------------------------------------
(* The router's administration *)

\* The owner alone.
set_admin(admin, enabled) ==
  /\ is_admin' = IF enabled THEN is_admin \cup {admin} ELSE is_admin \ {admin}
  /\ UNCHANGED <<registryVars, factoryVars, vaultVars>>

\* The factory refuses a router that is not its manager.
create_market(caller, market) ==
  /\ caller = Owner \/ caller \in is_admin
  /\ manager = Protocol
  /\ create_vault(market)

pause(v) ==
  /\ v \in Vaults /\ ~paused[v]
  /\ paused' = [paused EXCEPT ![v] = TRUE]
  /\ UNCHANGED <<registryVars, factoryVars, is_admin, vault_router, collateral>>
unpause(v) ==
  /\ paused[v]
  /\ paused' = [paused EXCEPT ![v] = FALSE]
  /\ UNCHANGED <<registryVars, factoryVars, is_admin, vault_router, collateral>>
-----------------------------------------------------------------------------
(* The vaults' collateral *)

LiveClaims(v, u) ==
  {o \in OrderIds : o[1] = u /\ claims[o].vault = v /\ claims[o].status \in {"OPEN", "FILLED"}}
InStatus(v, u, status) == \E o \in LiveClaims(v, u) : claims[o].status = status

SetCollateral(v, u, amount) == collateral' = [collateral EXCEPT ![v][u] = amount]

\* _deposit
DepositTo(v, u, amount) ==
  /\ v \in Vaults /\ ~paused[v]
  /\ SetCollateral(v, u, collateral[v][u] + amount)
  /\ Token!transferFrom(v, u, v, amount)
  /\ UNCHANGED <<configVars, claimVars, leaving>>

\* What the vault holds, rather than what it owes this account, is the limit.
Withdrawable_bugHeldByVault(v, u, amount) ==
  /\ amount > 0 /\ amount <= balanceOf[v]
  /\ ~InStatus(v, u, "OPEN")

\* An open order holds all collateral, a filled one some of it.
Withdrawable(v, u, amount) ==
  /\ amount > 0 /\ amount <= collateral[v][u]
  /\ ~InStatus(v, u, "OPEN")
  /\ InStatus(v, u, "FILLED") => amount < collateral[v][u]

\* _withdraw: a paused vault too gives collateral back.
WithdrawFrom(v, u, amount) ==
  /\ v \in Vaults /\ Withdrawable(v, u, amount)
  /\ SetCollateral(v, u, collateral[v][u] - amount)
  /\ Token!transfer(v, u, amount)
  /\ UNCHANGED <<configVars, claimVars, leaving>>

\* The claim's vault gives all its collateral to `receiver'.
Release(o, receiver) ==
  LET v == claims[o].vault
      u == o[1]
  IN  /\ SetCollateral(v, u, 0)
      /\ Token!transfer(v, receiver, collateral[v][u])
-----------------------------------------------------------------------------
(* The router's calls: those that name a market find its vault in the       *)
(* registry, those that name a claim use the vault the claim was opened in *)

\* _requireMarket, and the vault obeys this router.
MarketVault(market, v) ==
  v # NoOne /\ v = vault_for_market[market] /\ vault_router[v] = Protocol

deposit(market, u, amount) ==
  \E v \in Vaults : MarketVault(market, v) /\ DepositTo(v, u, amount)
withdraw(market, u, amount) ==
  \E v \in Vaults : MarketVault(market, v) /\ WithdrawFrom(v, u, amount)

SetStatus(o, status) == claims' = [claims EXCEPT ![o].status = status]

\* open, and borrow when no pool serves it.
open(market, u) ==
  /\ order_nonce[u] < MaxNonce
  /\ \E v \in Vaults :
       /\ MarketVault(market, v) /\ ~paused[v]
       /\ LiveClaims(v, u) = {} /\ collateral[v][u] > 0
       /\ claims' = [claims EXCEPT ![<<u, order_nonce[u] + 1>>] =
                       [status |-> "OPEN", market |-> market, vault |-> v]]
  /\ order_nonce' = [order_nonce EXCEPT ![u] = @ + 1]
  /\ UNCHANGED <<configVars, collateral, leaving, tokenVars>>

cancel_claim(o) ==
  /\ claims[o].status = "OPEN"
  /\ SetStatus(o, "CANCELLED")
  /\ UNCHANGED <<configVars, collateral, order_nonce, leaving, tokenVars>>

\* confirm_fill and fill_with_pool: neither asks the registry, nor whether the
\* vault is paused.
fill(o) ==
  /\ claims[o].status = "OPEN"
  /\ SetStatus(o, "FILLED")
  /\ UNCHANGED <<configVars, collateral, order_nonce, leaving, tokenVars>>

repay_claim_bugThroughMarket(o) ==
  /\ claims[o].status = "FILLED"
  /\ MarketVault(claims[o].market, claims[o].vault)
  /\ SetStatus(o, "REPAID")
  /\ Release(o, o[1])
  /\ UNCHANGED <<configVars, order_nonce, leaving>>

\* In full; a partial repayment changes nothing here.
repay_claim(o) ==
  /\ claims[o].status = "FILLED"
  /\ SetStatus(o, "REPAID")
  /\ Release(o, o[1])
  /\ UNCHANGED <<configVars, order_nonce, leaving>>

\* The user's active claim in the market's present vault.
repay(market, u) ==
  \E v \in Vaults :
    MarketVault(market, v) /\ \E o \in LiveClaims(v, u) : repay_claim(o)

liquidate_claim(o) ==
  /\ claims[o].status = "FILLED"
  /\ SetStatus(o, "LIQUIDATED")
  /\ Release(o, Filler)
  /\ UNCHANGED <<configVars, order_nonce, leaving>>
-----------------------------------------------------------------------------
(* The system *)

AdminCall ==
  /\ admin_calls < MaxAdminCalls /\ admin_calls' = admin_calls + 1
  /\ \/ \E factory \in {ThisFactory, OtherFactory} : set_factory(factory)
     \/ \E v \in Vaults, active \in BOOLEAN : set_vault_active(v, active)
     \/ \E router \in {Protocol, OtherProtocol} : set_manager(router)
     \/ \E registry \in {ThisRegistry, OtherRegistry} : set_registry(registry)
     \/ \E blueprint \in Blueprints : set_vault_blueprint(blueprint)
     \/ \E market \in Markets :
          \/ create_vault(market)
          \/ \E salt \in Salts : create_vault_with_salt(market, salt)
          \/ \E caller \in {Owner} \cup Admins : create_market(caller, market)
     \/ \E admin \in Admins, enabled \in BOOLEAN : set_admin(admin, enabled)
     \/ \E v \in Vaults : pause(v) \/ unpause(v)
  /\ UNCHANGED <<claimVars, leaving, tokenVars>>

\* A user who stays; a vault's own deposit and withdraw need no router.
UserCall ==
  \E u \in Users, amount \in Amounts :
    /\ ~leaving[u]
    /\ \/ \E market \in Markets :
            deposit(market, u, amount) \/ withdraw(market, u, amount) \/ open(market, u)
       \/ \E v \in Addresses : DepositTo(v, u, amount) \/ WithdrawFrom(v, u, amount)

TokenCall ==
  /\ \E a \in Accounts, amount \in Amounts :
       \/ Token!deposit(a, amount) \/ Token!withdraw(a, amount)
       \/ \E to \in Accounts \cup Addresses :
            Token!transfer(a, to, amount) \/ \E from \in Accounts \ {a} :
                                               Token!transferFrom(a, from, to, amount)
       \/ /\ a \in Users /\ ~leaving[a]
          /\ \/ Token!approve(a, Filler, amount)
             \/ \E v \in Vaults, allowed \in Approvals : Token!approve(a, v, allowed)
  /\ UNCHANGED <<configVars, collateral, claimVars, leaving>>

\* Claims close and fill whether their borrower stays or leaves.
ClaimCall ==
  \/ \E o \in OrderIds : cancel_claim(o) \/ fill(o) \/ repay_claim(o) \/ liquidate_claim(o)
  \/ \E market \in Markets, u \in Users : repay(market, u)

\* What a leaver does: cancel, repay, and withdraw from the vault itself.
WithdrawAll(v, u) == leaving[u] /\ WithdrawFrom(v, u, collateral[v][u])
Leave(u) ==
  /\ ~leaving[u]
  /\ leaving' = [leaving EXCEPT ![u] = TRUE]
  /\ UNCHANGED <<configVars, collateral, claimVars, tokenVars>>

Next ==
  \/ AdminCall \/ UserCall \/ TokenCall \/ ClaimCall
  \/ \E u \in Users : Leave(u) \/ \E v \in Addresses : WithdrawAll(v, u)

\* A leaver does each of these in the end, if it stays possible.  Nothing is
\* asked of the owner, of a filler or of the oracle.
Fairness ==
  \A u \in Users :
    /\ \A n \in 1 .. MaxNonce : /\ WF_vars(leaving[u] /\ cancel_claim(<<u, n>>))
                                /\ WF_vars(leaving[u] /\ repay_claim(<<u, n>>))
    /\ \A v \in Addresses : WF_vars(WithdrawAll(v, u))

Spec == Init /\ [][Next]_vars /\ Fairness
-----------------------------------------------------------------------------
(* Properties *)

\* Every variable keeps its type, balances never go below zero, the registry
\* numbers its vaults 1, 2, ... and only vaults hold collateral and claims.
TypeOK ==
  /\ registry_factory \in {NoOne, ThisFactory, OtherFactory}
  /\ {vault_metadata[v].id : v \in {w \in Addresses : Registered(w)}} = 1 .. vault_count
  /\ \A v \in Addresses : vault_metadata[v].market \in Markets \cup {NoOne}
  /\ manager \in {NoOne, Protocol, OtherProtocol}
  /\ factory_registry \in {ThisRegistry, OtherRegistry} /\ vault_blueprint \in Blueprints
  /\ is_admin \subseteq Admins
  /\ vault_router \in [Addresses -> {NoOne, Owner, Protocol, OtherProtocol}]
  /\ collateral \in [Addresses -> [Users -> Nat]]
  /\ \A v \in Addresses \ Vaults :
       ~Registered(v) /\ ~paused[v] /\ \A u \in Users : collateral[v][u] = 0
  /\ \A o \in OrderIds :
       claims[o].status = "NONE" \/ claims[o].vault \in Vaults
  /\ native \in [Accounts -> Nat] /\ held \in Nat
  /\ balanceOf \in [Accounts \cup Addresses -> Nat]
  /\ allowance \in [Accounts -> [Accounts \cup Addresses -> Nat]]

\* However vaults are created, deactivated, replaced and brought back, those
\* called active are exactly those the registry returns for their market, so
\* that a market has at most one.
OneVaultPerMarket ==
  \A v \in Addresses :
    Registered(v) => (vault_metadata[v].active <=> vault_for_market[vault_metadata[v].market] = v)

\* Every wrapped token is backed by a coin, and every vault holds at least the
\* tokens it has recorded as its users' collateral, whatever else it was sent.
TokensBacked ==
  /\ Total(balanceOf) = held
  /\ \A v \in Addresses : balanceOf[v] >= Total(collateral[v])

\* A user can always leave: whatever market is deactivated or replaced, whatever
\* vault paused, router, factory or registry exchanged while a claim is open or
\* filled, cancelling, repaying and withdrawing bring all collateral home (or
\* the claim is liquidated).
LeaversLeave ==
  \A u \in Users : leaving[u] ~> \A v \in Addresses : collateral[v][u] = 0
=============================================================================
