--------------------------- MODULE AyniWrappedZkLTC ---------------------------
(***************************************************************************)
(* The collateral token, src/WrappedZkLTC.sol: native coin wrapped one for *)
(* one.  It has no life of its own; AyniMarkets calls its functions for    *)
(* the accounts and the vaults.                                            *)
(***************************************************************************)
EXTENDS AyniMath

CONSTANTS
  Accounts,    \* accounts that may hold native coin and tokens
  Addresses,   \* contracts that may hold tokens
  Unlimited    \* type(uint256).max

VARIABLES
  native,       \* native coin of the accounts
  held,         \* address(this).balance, which is also totalSupply()
  balanceOf, allowance

tokenVars == <<native, held, balanceOf, allowance>>

\* deposit and receive: the coin sent along is credited.
deposit(account, amount) ==
  /\ amount <= native[account]
  /\ native' = [native EXCEPT ![account] = @ - amount]
  /\ held' = held + amount
  /\ balanceOf' = [balanceOf EXCEPT ![account] = @ + amount]
  /\ UNCHANGED allowance

\* The account takes the coin: it is no contract that could refuse it.
withdraw(account, amount) ==
  /\ balanceOf[account] >= amount
  /\ balanceOf' = [balanceOf EXCEPT ![account] = @ - amount]
  /\ held' = held - amount
  /\ native' = [native EXCEPT ![account] = @ + amount]
  /\ UNCHANGED allowance

approve(owner, spender, amount) ==
  /\ allowance' = [allowance EXCEPT ![owner][spender] = amount]
  /\ UNCHANGED <<native, held, balanceOf>>

\* Both balances read before either is written: a transfer to oneself mints.
Move_bugCachedBalances(from, to, amount) ==
  /\ balanceOf[from] >= amount
  /\ balanceOf' = [balanceOf EXCEPT ![from] = @ - amount, ![to] = balanceOf[to] + amount]

Move(from, to, amount) ==
  /\ balanceOf[from] >= amount
  /\ LET taken == [balanceOf EXCEPT ![from] = @ - amount]
     IN  balanceOf' = [taken EXCEPT ![to] = @ + amount]

\* The caller spends its own tokens, or within an allowance; an unlimited one is
\* not used up.
SpendAllowance(owner, caller, amount) ==
  \/ owner = caller /\ UNCHANGED allowance
  \/ owner # caller /\ allowance[owner][caller] = Unlimited /\ UNCHANGED allowance
  \/ /\ owner # caller /\ allowance[owner][caller] # Unlimited
     /\ allowance[owner][caller] >= amount
     /\ allowance' = [allowance EXCEPT ![owner][caller] = @ - amount]

transferFrom(caller, from, to, amount) ==
  /\ SpendAllowance(from, caller, amount)
  /\ Move(from, to, amount)
  /\ UNCHANGED <<native, held>>

transfer(caller, to, amount) == transferFrom(caller, caller, to, amount)
=============================================================================
