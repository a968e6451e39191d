----------------------------- MODULE Usd1TopUp ------------------------------
(***************************************************************************)
(* Buying the USD1 that a Bonk purchase still lacks,                       *)
(* src/rust/launchdeck-engine/src/bonk_native.rs: the balances are read,   *)
(* the least SOL whose guaranteed output covers the shortfall is searched  *)
(* on one copy of the route pool, the result is quoted again (on a copy    *)
(* that may be another one: the cache expires), and the swap is compiled   *)
(* together with the purchase.  Meanwhile the pool moves and the wallet is *)
(* used by others.                                                         *)
(*                                                                         *)
(* Out has for every state of the pool the USD1 guaranteed, the slippage   *)
(* taken off, for the SOL put in.                                          *)
(***************************************************************************)
EXTENDS Integers

CONSTANTS
    Pools,          \* the states of the route pool
    Out,            \* [Pools -> [0..MaxSol -> Nat]]
    MaxSol,         \* the largest balance
    UsdHeld,        \* balances the wallet may come to have
    SolHeld,
    Required,       \* USD1 the purchase needs
    Reserve,        \* BONK_USD1_MIN_REMAINING_SOL
    Iterations,     \* BONK_USD1_MAX_INPUT_SEARCH_ITERATIONS
    Tolerance(_),   \* bonk_usd1_search_tolerance_lamports
    Buffer(_),      \* what bonk_add_usd1_search_buffer_lamports adds
    MaxOthers       \* moves of the pool and of the wallet by others

ASSUME TopUpAssumption ==
    /\ MaxSol \in Nat /\ Required \in Nat /\ Reserve \in Nat
    /\ Iterations \in Nat /\ MaxOthers \in Nat
    /\ Out \in [Pools -> [0..MaxSol -> Nat]]
    /\ UsdHeld \subseteq Nat /\ SolHeld \subseteq 0..MaxSol
    /\ \A n \in 0..MaxSol : Tolerance(n) \in Nat /\ Buffer(n) \in Nat

VARIABLES
    follow,         \* a follow buy, not a purchase with the launch
    pc,
    usd, sol,       \* the wallet's balances
    route,          \* the pool on the chain
    cache,          \* bonk_usd1_route_setup_cache: {} or one copy of the pool
    setup,          \* the copy in use
    usdRead,        \* the balance the shortfall was taken from
    most,           \* SOL that may be spent
    low, high, quote, tries,    \* the search; quote is that of high
    minOut,         \* guaranteed output in the compiled swap
    touched,        \* history: others have used the wallet since it was read
    others          \* moves of others so far

balances == <<usd, sol>>
search == <<low, high, quote, tries>>
topUpVars == <<follow, pc, usd, sol, route, cache, setup, usdRead, most, low, high, quote,
               tries, minOut, touched, others>>

Short == Required - usdRead

TopUpInit ==
    /\ follow \in BOOLEAN
    /\ pc = IF follow THEN "usd" ELSE "prepare"
    /\ usd \in UsdHeld /\ sol \in SolHeld
    /\ route \in Pools /\ cache \in {{}} \union {{p} : p \in Pools}
    /\ setup = route
    /\ usdRead = 0 /\ most = 0
    /\ low = 0 /\ high = 0 /\ quote = 0 /\ tries = 0
    /\ minOut = 0 /\ touched = FALSE /\ others = 0

Fail == pc' = "failed" /\ UNCHANGED <<follow, balances, route, others>>

-----------------------------------------------------------------------------
(* native_prepare_bonk_usd1_topup *)

\* native_compile_follow_buy_transaction looks at the balance before it asks
\* for a top-up; with enough of it the purchase is compiled alone.
LookUsd ==
    /\ pc = "usd"
    /\ usdRead' = usd /\ touched' = FALSE
    /\ pc' = IF usd >= Required THEN "alone" ELSE "prepare"
    /\ UNCHANGED <<follow, balances, route, cache, setup, most, search, minOut, others>>

\* fetch_bonk_owner_token_balance.  A follow buy that needs no top-up after
\* all is an error of its caller, a launch goes without.
ReadUsd ==
    /\ pc = "prepare"
    /\ usdRead' = usd /\ touched' = FALSE
    /\ pc' = IF usd < Required THEN "sol" ELSE IF follow THEN "failed" ELSE "alone"
    /\ UNCHANGED <<follow, balances, route, cache, setup, most, search, minOut, others>>

\* bonk_rpc_get_balance_lamports
ReadSol ==
    /\ pc = "sol"
    /\ IF sol <= Reserve
       THEN pc' = "failed" /\ UNCHANGED most
       ELSE pc' = "setup" /\ most' = sol - Reserve
    /\ UNCHANGED <<follow, balances, route, cache, setup, usdRead, search, minOut,
                   touched, others>>

\* load_bonk_usd1_route_setup_with_metrics: a cached copy, or that of now,
\* which is cached.  The first guess comes from the price of the copy.
Load == IF cache = {} THEN setup' = route /\ cache' = {route}
                      ELSE setup' \in cache /\ UNCHANGED cache

LoadAndGuess ==
    /\ pc = "setup"
    /\ Load
    /\ \E guess \in 1..most : high' = guess /\ quote' = Out[setup'][guess]
    /\ low' = 1 /\ tries' = 0
    /\ pc' = "expand"
    /\ UNCHANGED <<follow, balances, route, usdRead, most, minOut, touched, others>>

-----------------------------------------------------------------------------
(* native_quote_sol_input_for_usd1_output_with_max_and_metrics *)

Lacks == quote < Short

Double ==
    /\ pc = "expand" /\ Lacks /\ high < most
    /\ low' = high + 1
    /\ high' = IF 2 * high < most THEN 2 * high ELSE most
    /\ quote' = Out[setup][high']
    /\ UNCHANGED <<follow, pc, balances, route, cache, setup, usdRead, most, tries, minOut,
                   touched, others>>

CannotSatisfy ==
    /\ pc = "expand" /\ Lacks /\ high = most
    /\ Fail
    /\ UNCHANGED <<cache, setup, usdRead, most, search, minOut, touched>>

Found ==
    /\ pc = "expand" /\ ~Lacks
    /\ pc' = "narrow"
    /\ UNCHANGED <<follow, balances, route, cache, setup, usdRead, most, search, minOut,
                   touched, others>>

Narrowed == low >= high \/ high - low <= Tolerance(high) \/ tries = Iterations

Halve ==
    /\ pc = "narrow" /\ ~Narrowed
    /\ LET mid == (low + high) \div 2
       IN  IF Out[setup][mid] >= Short
           THEN high' = mid /\ quote' = Out[setup][mid] /\ UNCHANGED low
           ELSE low' = mid + 1 /\ UNCHANGED <<high, quote>>
    /\ tries' = tries + 1
    /\ UNCHANGED <<follow, pc, balances, route, cache, setup, usdRead, most, minOut, touched, others>>

Buffered == IF high + Buffer(high) < most THEN high + Buffer(high) ELSE most

\* The buffer, and the last look at the quote.
AddBuffer ==
    /\ pc = "narrow" /\ Narrowed
    /\ high' = Buffered
    /\ quote' = Out[setup][Buffered]
    /\ pc' = IF Out[setup][Buffered] < Short THEN "failed" ELSE "requote"
    /\ UNCHANGED <<follow, balances, route, cache, setup, usdRead, most, low, tries, minOut,
                   touched, others>>

-----------------------------------------------------------------------------
(* The swap is compiled and lands *)

\* Mutant of Requote: the copy of now is taken for that of the search.
RequoteUnchecked ==
    /\ pc = "requote"
    /\ Load
    /\ minOut' = Out[setup'][high]
    /\ pc' = "compiled"
    /\ UNCHANGED <<follow, balances, route, usdRead, most, search, touched, others>>

\* native_quote_usd1_output_from_sol_input_with_metrics
Requote ==
    /\ pc = "requote"
    /\ Load
    /\ minOut' = Out[setup'][high]
    /\ pc' = IF Out[setup'][high] < Short THEN "failed" ELSE "compiled"
    /\ UNCHANGED <<follow, balances, route, usdRead, most, search, touched, others>>

\* The swap reverts when the pool pays less than the minimum or the wallet
\* lacks the SOL; else its output is there for the purchase.
SwapLands ==
    /\ pc = "compiled"
    /\ \/ /\ Out[route][high] >= minOut /\ sol >= high
          /\ usd' = usd + Out[route][high] /\ sol' = sol - high
          /\ pc' = "swapped"
       \/ /\ Out[route][high] < minOut \/ sol < high
          /\ pc' = "failed" /\ UNCHANGED balances
    /\ UNCHANGED <<follow, route, cache, setup, usdRead, most, search, minOut, touched, others>>

\* The purchase in the same transaction, or alone.
Purchase ==
    /\ pc \in {"swapped", "alone"}
    /\ IF usd >= Required
       THEN pc' = "bought" /\ usd' = usd - Required
       ELSE pc' = "unfunded" /\ UNCHANGED usd
    /\ UNCHANGED <<follow, sol, route, cache, setup, usdRead, most, search, minOut, touched, others>>

-----------------------------------------------------------------------------
(* Others *)

Busy == others < MaxOthers /\ others' = others + 1

\* Somebody trades on the pool.
PoolMoves ==
    /\ Busy
    /\ route' \in Pools
    /\ UNCHANGED <<follow, pc, balances, cache, setup, usdRead, most, search, minOut, touched>>

\* bonk_usd1_route_setup_cache_ttl
CacheExpires ==
    /\ Busy
    /\ cache' = {}
    /\ UNCHANGED <<follow, pc, balances, route, setup, usdRead, most, search, minOut, touched>>

\* Another action of the same wallet, or its owner.
WalletUsed ==
    /\ Busy
    /\ usd' \in UsdHeld /\ sol' \in SolHeld
    /\ touched' = TRUE
    /\ UNCHANGED <<follow, pc, route, cache, setup, usdRead, most, search, minOut>>

TopUpNext ==
    \/ LookUsd \/ ReadUsd \/ ReadSol \/ LoadAndGuess
    \/ Double \/ CannotSatisfy \/ Found \/ Halve \/ AddBuffer
    \/ Requote \/ SwapLands \/ Purchase
    \/ PoolMoves \/ CacheExpires \/ WalletUsed

TopUpSpec == TopUpInit /\ [][TopUpNext]_topUpVars

-----------------------------------------------------------------------------
(* Properties *)

TopUpTypeOK ==
    /\ follow \in BOOLEAN
    /\ pc \in {"usd", "prepare", "sol", "setup", "expand", "narrow", "requote", "compiled",
               "swapped", "alone", "bought", "unfunded", "failed"}
    /\ usd \in Nat /\ sol \in 0..MaxSol
    /\ route \in Pools /\ setup \in Pools
    /\ cache = {} \/ \E p \in Pools : cache = {p}
    /\ usdRead \in Nat /\ most \in 0..MaxSol
    /\ low \in Nat /\ high \in 0..MaxSol
    /\ quote \in Nat /\ tries \in 0..Iterations
    /\ minOut \in Nat /\ touched \in BOOLEAN /\ others \in 0..MaxOthers

(* A purchase whose top-up has landed is funded, however the pool moved    *)
(* and whichever copy of it the search and the second quote worked on,     *)
(* unless others have used the wallet since its balance was read; and the  *)
(* swap never takes the SOL that must remain (BONK_USD1_MIN_REMAINING_SOL):*)
(* no doubling, buffer or wrong guess passes what was spendable.           *)
LandedIsFunded ==
    /\ pc = "unfunded" => touched
    /\ pc = "swapped" /\ ~touched => sol >= Reserve

=============================================================================
