------------------------------ MODULE Assemble ------------------------------
(***************************************************************************)
(* How instructions become signed transactions that fit into a packet,     *)
(* src/rust/launchdeck-engine/src.  bonk_native.rs splits a launch over as *)
(* many transactions as it takes, and puts a top-up of USD1 in front, or   *)
(* takes the compiled top-up and the compiled launch (or buy) apart again  *)
(* and makes one transaction of both.  pump_native.rs compiles a launch,   *)
(* its setup and a separate tip, each in the smallest format.  Bags        *)
(* returns transactions that bags_native.rs takes apart to put fees in.    *)
(*                                                                         *)
(* What the fees are is the business of LaunchBuild, the amounts that of   *)
(* Trades and Usd1TopUp.                                                   *)
(***************************************************************************)
EXTENDS Instructions

CONSTANTS
    Requests,       \* what is to be assembled
    Limits,         \* [launch, topup, buy, sell, followUp -> compute units]
    MaxInstructions \* of a Bonk launch in one transaction

\* Numbers, the formats of a Pump transaction, and the one bundle of Pump's
\* that is tipped once.  The Bags service pays the tip it is asked to pay, or
\* none; it is asked for the request's tip where that has one
\* (bags_native.rs 4504, 4613).
ASSUME AssembleAssumption ==
    \A r \in Requests :
        /\ r.kind \in {"bonk-launch", "buy", "same-time-buy", "sell", "pump", "bags"}
        /\ r.fees \in [limit : Nat, price : Nat, tip : Nat]
        /\ r.kind = "pump" =>
            /\ r.format \in {"legacy", "v0", "v0-alt", "auto"} /\ r.missing \in Nat
            /\ r.secure => r.plan = "hellomoon-bundle"
        /\ r.kind \in {"bonk-launch", "buy", "same-time-buy"} => r.arrays \in Nat
        /\ r.kind = "bonk-launch" => r.quote \in {"sol", "usd1"}
        /\ r.kind = "bags" =>
            /\ DOMAIN r.service = 1..Len(r.service) /\ Len(r.service) \in Nat
            /\ \A i \in 1..Len(r.service) : r.service[i].accounts \in Nat
            /\ r.fees.tip > 0 =>
                \A i \in 1..Len(r.service) : r.service[i].tip \in {0, r.fees.tip}

VARIABLES
    order,
    progress,
    todo,           \* instructions that are not in a transaction yet
    queue,          \* those of the transaction that is being filled
    groups,         \* those of the transactions before
    tables,         \* lookup tables that could be loaded, in order
    topUp,          \* the compiled top-up
    txs,            \* the result so far
    why             \* the error of a refusal, or of a combination given up

assembleVars == <<order, progress, todo, queue, groups, tables, topUp, txs, why>>

NoTopUp == NoTx("none")

AssembleInit ==
    /\ order \in Requests
    /\ progress = "start" /\ todo = <<>> /\ queue = <<>> /\ groups = <<>> /\ tables = <<>>
    /\ topUp = NoTopUp /\ txs = <<>> /\ why = "none"

Refused(error) ==
    /\ progress' = "refused" /\ why' = error
    /\ UNCHANGED <<order, todo, queue, groups, tables, topUp, txs>>

\* tx becomes the last transaction and stage the next one, unless there is none.
Adds(tx, next) ==
    IF tx.error # "none" THEN Refused(tx.error)
    ELSE /\ txs' = Append(txs, tx) /\ progress' = next
         /\ UNCHANGED <<order, todo, queue, groups, tables, topUp, why>>

First(better(_, _), made) == FoldLeft(LAMBDA a, b : IF better(b, a) THEN b ELSE a, Head(made), Tail(made))

-----------------------------------------------------------------------------
(* Bonk: the best of the tables                                            *)

Merged(a, b) == a \o SelectSeq(b, LAMBDA t : t \notin ToSet(a))

Smaller(a, b) == a.size < b.size \/ (a.size = b.size /\ Len(a.tables) < Len(b.tables))

(* build_bonk_compiled_transaction_with_lookup_preference.  A legacy       *)
(* transaction is of any size.                                             *)
BonkCompiled(format, keys, ixs, base, preferred) ==
    IF format = "legacy" THEN Signed("legacy", keys, ixs, <<>>)
    ELSE LET choices == <<base, preferred, Merged(preferred, base)>>
             good == SelectSeq([i \in 1..3 |-> Message("v0", ixs, choices[i])],
                               LAMBDA m : m.size <= PacketLimit)
         IN  IF good = <<>> THEN NoTx(IF CanSign(keys, ixs) THEN "size" ELSE "signers")
             ELSE Signed("v0", keys, ixs, First(Smaller, good).tables)

\* bonk_instruction_required_extra_signers
KeysNeeded(core, extra) == extra \intersect (SignersOf(core) \ {Owner})

BonkFormat(r) == IF r.quote = "usd1" THEN "v0" ELSE r.format

\* load_bonk_preferred_usd1_lookup_tables, whose failure is no error
Preferred(r) == IF r.quote = "usd1" /\ BonkFormat(r) = "v0" THEN {<<>>, <<"usd1">>} ELSE {<<>>}

-----------------------------------------------------------------------------
(* Bonk: a launch                                                          *)

OwnQuote(r) == Key(IF r.quote = "usd1" THEN "my-usd1" ELSE "my-sol")

MyTokens == CreateAta(Key("my-tokens"), Mint, "token")
MyUsd1 == CreateAta(Key("my-usd1"), Key("usd1"), "token")

WrapInOwn ==
    <<CreateAta(Key("my-sol"), Key("sol"), "token"), Transfer(Key("my-sol"), 9),
      Instr("sync", "token", {}, <<Key("my-sol")>>, 1)>>

DevBuy(r) ==
    <<MyTokens>> \o (IF r.quote = "sol" THEN WrapInOwn ELSE If(r.createAta, MyUsd1))
      \o <<BonkSwap("buy", r.quote, Key("my-tokens"), OwnQuote(r))>>

BonkLaunch(r) ==
    <<BonkInitialize(r.quote, r.strings)>> \o (IF r.devBuy THEN DevBuy(r) ELSE <<>>)

TopUpCore(r) ==
    If(r.createAta \/ r.kind = "same-time-buy", MyUsd1) \o OpenWrapped
      \o <<ClmmSwap(r.arrays), CloseWrapped>>

\* bonk_bundle_tx_config_for_index
BundleFees(r, i, n) == IF r.secure /\ n > 1 /\ i < n THEN [r.fees EXCEPT !.tip = 0] ELSE r.fees

BonkStart ==
    /\ progress = "start" /\ order.kind = "bonk-launch"
    /\ tables' \in Preferred(order)
    /\ todo' = BonkLaunch(order)
    /\ progress' = "split"
    /\ UNCHANGED <<order, queue, groups, topUp, txs, why>>

\* bonk_compiled_transaction_fits_with_lookup_preference
Fits(r, core) ==
    LET ixs == Settings(core, r.fees, r.dontfront)
        tx == BonkCompiled(BonkFormat(r), KeysNeeded(core, {Mint}), ixs, <<>>, tables)
    IN  Len(ixs) <= MaxInstructions /\ tx.error = "none" /\ tx.size <= PacketLimit

(* split_bonk_instruction_bundle: one instruction, of which the first of a *)
(* transaction is taken whatever its size.                                 *)
Split ==
    /\ progress = "split" /\ todo # <<>>
    /\ todo' = Tail(todo)
    /\ IF queue = <<>> \/ Fits(order, Append(queue, Head(todo)))
       THEN queue' = Append(queue, Head(todo)) /\ groups' = groups
       ELSE queue' = <<Head(todo)>> /\ groups' = Append(groups, queue)
    /\ UNCHANGED <<order, progress, tables, topUp, txs, why>>

(* compile_bonk_instruction_bundle                                         *)
CompileGroups ==
    /\ progress = "split" /\ todo = <<>>
    /\ LET all == Append(groups, queue)
           made == [i \in DOMAIN all |->
                        BonkCompiled(BonkFormat(order), KeysNeeded(all[i], {Mint}),
                               Settings(all[i], BundleFees(order, i, Len(all)), order.dontfront),
                               <<>>, tables)]
       IN  \/ \E i \in DOMAIN made :
                /\ made[i].error # "none" /\ \A j \in 1..(i - 1) : made[j].error = "none"
                /\ Refused(made[i].error)
           \/ /\ \A i \in DOMAIN made : made[i].error = "none"
              /\ txs' = made
              /\ progress' = IF order.devBuy /\ order.short THEN "topup" ELSE "done"
              /\ UNCHANGED <<order, todo, queue, groups, tables, topUp, why>>

(* The top-up of a launch, or of a buy.                                    *)
TopUpFees(r) ==
    CASE r.kind = "bonk-launch" -> BundleFees(r, 1, Len(txs) + 1)
      [] r.kind = "buy" -> r.fees
      [] r.kind = "same-time-buy" -> [r.fees EXCEPT !.limit = Limits.topup]

TopUpTx(r, loaded) ==
    BonkCompiled("v0", {Wrapped}, Settings(TopUpCore(r), TopUpFees(r), r.dontfront), <<>>, loaded)

CompileTopUp ==
    /\ progress = "topup"
    /\ \E loaded \in Preferred(order) :
        LET tx == TopUpTx(order, loaded) IN
        IF tx.error # "none" THEN Refused(tx.error)
        ELSE /\ topUp' = tx
             /\ IF Len(txs) > 1
                THEN txs' = <<tx>> \o txs /\ why' = "several" /\ progress' = "done"
                ELSE txs' = txs /\ why' = why
                     /\ progress' = IF order.kind = "bonk-launch" THEN "combine" ELSE "action"
             /\ UNCHANGED <<order, todo, queue, groups, tables>>

-----------------------------------------------------------------------------
(* Bonk: two transactions made one                                         *)

\* Mutant of IsKept: what goes to the system program is taken for a tip.
IsKeptBut(ix, fees) == ~IsBudget(ix) /\ ~(fees.tip > 0 /\ ix.program = Key("system"))

\* filter_atomic_bonk_instructions
IsKept(ix, fees) == ~IsBudget(ix) /\ ~IsTip(ix, fees)

CoreOf(tx, fees) ==
    LET ixs == Decompiled(tx) IN Taken(ixs, {i \in DOMAIN ixs : IsKept(ixs[i], fees)})

\* build_bonk_atomic_tx_instructions
AtomicSettings(core, fees, on) ==
    If(fees.price > 0, PriceOf(fees.price)) \o If(fees.limit > 0, LimitOf(fees.limit))
      \o Protected(core, on) \o If(fees.tip > 0, Transfer(TipAccount, fees.tip))

\* Mutant of MissingSigners: the keys at hand are forgotten.
MissingAllSigners(ixs, known) == SignersOf(ixs) \ {Owner}

MissingSigners(ixs, known) == SignersOf(ixs) \ (known \union {Owner})

Anew(account) == <<account[1], account[2] + 1>>

\* rewrite_missing_bonk_instruction_signers
Rewritten(ixs, missing) ==
    LET New(a) == IF a \in missing THEN Anew(a) ELSE a
    IN  [i \in DOMAIN ixs |-> [ixs[i] EXCEPT !.uses = [k \in DOMAIN @ |-> New(@[k])],
                                             !.signs = {New(a) : a \in @}]]

(* configured_atomic_bonk_usd1_follow_buy_compute_unit_limit; a launch     *)
(* keeps its own.                                                          *)
CombinedFees(r) ==
    IF r.kind = "bonk-launch" THEN r.fees
    ELSE [r.fees EXCEPT !.limit = Max({TopUpFees(r).limit + r.fees.limit, Limits.followUp})]

(* combine_atomic_bonk_transactions                                        *)
Combined(r, action, loaded) ==
    LET fees == CombinedFees(r)
        known == IF r.kind = "bonk-launch" THEN {Mint} ELSE {}
        ixs == AtomicSettings(CoreOf(topUp, fees) \o CoreOf(action, fees), fees, r.dontfront)
        missing == MissingSigners(ixs, known)
    IN  BonkCompiled("v0", known \union {Anew(a) : a \in missing}, Rewritten(ixs, missing),
               Merged(topUp.tables, action.tables), loaded)

\* Reading the tables that were used may fail.
CombinedOrError(r, action) ==
    {Combined(r, action, loaded) : loaded \in Preferred(r)} \union {NoTx("rpc")}

(* Without a combination a launch keeps its two transactions,              *)
Combine ==
    /\ progress = "combine" /\ order.kind = "bonk-launch"
    /\ \E tx \in CombinedOrError(order, txs[1]) :
        /\ txs' = IF tx.error = "none" THEN <<tx>> ELSE <<topUp>> \o txs
        /\ why' = tx.error
    /\ progress' = "done"
    /\ UNCHANGED <<order, todo, queue, groups, tables, topUp>>

(* and a buy is given up.                                                  *)
CombineBuy ==
    /\ progress = "combine" /\ order.kind # "bonk-launch"
    /\ \E tx \in CombinedOrError(order, txs[1]) :
        IF tx.error # "none" THEN Refused(tx.error)
        ELSE /\ txs' = <<tx>> /\ progress' = "done"
             /\ UNCHANGED <<order, todo, queue, groups, tables, topUp, why>>

-----------------------------------------------------------------------------
(* Bonk: a buy, a sell                                                     *)

BuyCore(r) ==
    IF r.quote = "sol"
    THEN <<MyTokens>> \o OpenWrapped
           \o <<BonkSwap("buy", "sol", Key("my-tokens"), Wrapped), CloseWrapped>>
    ELSE <<MyTokens>> \o If(r.createAta, MyUsd1)
           \o <<BonkSwap("buy", "usd1", Key("my-tokens"), Key("my-usd1"))>>

SellCore(r) ==
    IF r.quote = "sol"
    THEN OpenWrapped \o <<BonkSwap("sell", "sol", Key("my-tokens"), Wrapped), CloseWrapped>>
    ELSE <<MyUsd1, BonkSwap("sell", "usd1", Key("my-tokens"), Key("my-usd1"))>>

TradeStart ==
    /\ progress = "start" /\ order.kind \in {"buy", "same-time-buy", "sell"}
    /\ progress' = IF order.kind # "sell" /\ order.quote = "usd1" /\ order.short
                   THEN "topup" ELSE "action"
    /\ UNCHANGED <<order, todo, queue, groups, tables, topUp, txs, why>>

TradeCore(r) == IF r.kind = "sell" THEN SellCore(r) ELSE BuyCore(r)

\* A sell keeps the format it asks for, a buy with USD1 does not.
TradeFormat(r) == IF r.kind = "sell" THEN r.format ELSE BonkFormat(r)

CompileTrade ==
    /\ progress = "action"
    /\ \E loaded \in IF TradeFormat(order) = "v0" THEN Preferred(order) ELSE {<<>>} :
        Adds(BonkCompiled(TradeFormat(order), IF order.quote = "sol" THEN {Wrapped} ELSE {},
                    Settings(TradeCore(order), order.fees, order.dontfront), <<>>, loaded),
             IF topUp = NoTopUp THEN "done" ELSE "combine")

-----------------------------------------------------------------------------
(* Pump                                                                    *)

DefaultTables == <<"A", "B">>

Requested(r) == Merged(IF r.defaults THEN DefaultTables ELSE <<>>, r.explicit)

\* A table that does not exist is left out.
PumpStart ==
    /\ progress = "start" /\ order.kind = "pump"
    /\ \E found \in SUBSET ToSet(Requested(order)) :
        LET loaded == IF order.format \in {"auto", "v0-alt"}
                      THEN SelectSeq(Requested(order), LAMBDA t : t \in found) ELSE <<>>
        IN  IF order.format = "v0-alt" /\ loaded = <<>> THEN Refused("tables")
            ELSE /\ tables' = loaded /\ progress' = "launch"
                 /\ UNCHANGED <<order, todo, queue, groups, topUp, txs, why>>

\* lookup_table_variants_for_transaction: the profiles, all, those asked for
Variants(r, label) ==
    LET profiles == IF label = "follow-up" THEN <<<<"B">>, <<"A">>, DefaultTables>>
                                           ELSE <<<<"A">>, <<"B">>, DefaultTables>>
        all == Append([i \in DOMAIN profiles |->
                         IF r.defaults THEN Merged(profiles[i], r.explicit) ELSE <<>>], r.explicit)
        loaded == [i \in DOMAIN all |-> SelectSeq(all[i], LAMBDA t : t \in ToSet(tables))]
    IN  SelectSeq(loaded, LAMBDA v : v # <<>>)

TooLarge(tx) == tx.size > PacketLimit

\* Mutant of Preferable: the one with tables, as it should be the smaller.
PreferableTables(a, b) == a.tables # <<>> /\ b.tables = <<>>

\* choose_best_auto_candidate
Preferable(a, b) ==
    \/ ~TooLarge(a) /\ TooLarge(b)
    \/ /\ TooLarge(a) = TooLarge(b)
       /\ \/ a.size < b.size
          \/ a.size = b.size /\ a.tables = <<>> /\ b.tables # <<>>

(* compile_transaction_with_metrics.  Only "auto" compares.                *)
PumpCompiled(r, keys, ixs, variants) ==
    CASE r.format = "legacy" -> Signed("legacy", keys, ixs, <<>>)
      [] r.format = "v0" -> Signed("v0", keys, ixs, <<>>)
      [] r.format = "v0-alt" -> Signed("v0", keys, ixs, IF variants = <<>> THEN <<>> ELSE variants[1])
      [] r.format = "auto" ->
            LET made == <<Message("v0", ixs, <<>>)>>
                          \o [i \in DOMAIN variants |-> Message("v0", ixs, variants[i])]
            IN  Signed("v0", keys, ixs, First(Preferable, made).tables)

IsAgent(r) == r.mode \in {"agent-unlocked", "agent-custom", "agent-locked"}

PumpLaunchOf(r) ==
    If(r.creatorMissing, SocialFee(Key("creator-fee"))) \o <<PumpCreate(r.strings)>>
      \o (IF r.devBuy THEN <<PumpExtend, CreateAta(Key("my-tokens"), Mint, "token-2022"), BuyOnCurve>>
          ELSE <<>>)
      \o If(IsAgent(r), AgentInitialize)

\* The accounts of the recipients on GitHub, of which the missing ones are made.
PumpSetup(r) ==
    <<ShareConfig>> \o [i \in 1..r.missing |-> SocialFee(<<"github", i>>)]
      \o <<UpdateShares(IF r.mode = "agent-locked" THEN 1 ELSE r.recipients)>>

Separate(r) == r.plan = "jito-bundle" /\ r.fees.tip > 0

LaunchFees(r) ==
    [r.fees EXCEPT !.price = IF r.plan = "jito-bundle" /\ r.followUp THEN 0 ELSE @,
                   !.tip = IF Separate(r) \/ (r.plan = "hellomoon-bundle" /\ r.followUp) THEN 0 ELSE @]

SetupFees(r) ==
    [limit |-> Limits.followUp, price |-> IF r.plan = "jito-bundle" THEN 0 ELSE r.fees.price,
     tip |-> IF r.plan \in {"inline", "hellomoon-bundle"} THEN r.fees.tip ELSE 0]

AfterSetup(r) == IF Separate(r) THEN "tip" ELSE "done"

PumpCompileLaunch ==
    /\ progress = "launch"
    /\ Adds(PumpCompiled(order, {Mint},
                   Settings(PumpLaunchOf(order), LaunchFees(order), order.dontfront),
                   Variants(order, "launch")),
            IF order.followUp THEN "follow-up" ELSE AfterSetup(order))

PumpCompileSetup ==
    /\ progress = "follow-up"
    /\ Adds(PumpCompiled(order, {}, Settings(PumpSetup(order), SetupFees(order), order.dontfront),
                   Variants(order, "follow-up")),
            AfterSetup(order))

(* A transfer and nothing else.                                            *)
PumpCompileTip ==
    /\ progress = "tip"
    /\ Adds(PumpCompiled(order, {}, <<Transfer(TipAccount, order.fees.tip)>>,
                   Variants(order, "jito-tip")), "done")

-----------------------------------------------------------------------------
(* Bags                                                                    *)

\* What the service returns (external): a setup, or a launch that the mint's
\* key, which the service has, signed as well.
ServiceCore(s) ==
    <<Instr("service", "bags", IF s.foreign THEN {Owner, Mint} ELSE {Owner},
         <<Owner, Mint>> \o Own(s.name, s.accounts), 60), Transfer(Key("bags-fees"), s.pays)>>

ServiceIxs(s) ==
    If(s.limit > 0, LimitOf(s.limit)) \o If(s.price > 0, PriceOf(s.price))
      \o If(s.heap, Budget("heap", 0, 5)) \o ServiceCore(s)
      \o If(s.tip > 0, Transfer(TipAccount, s.tip))

\* Mutant of TipToAdd: that there may be a tip already is forgotten.
TipToAddAnyway(core, fees) == If(fees.tip > 0, Transfer(TipAccount, fees.tip))

TipToAdd(core, fees) ==
    If(fees.tip > 0 /\ ~\E i \in DOMAIN core : IsTip(core[i], fees), Transfer(TipAccount, fees.tip))

AmountOf(op, ixs) == Max({0} \union {ixs[i].n : i \in {k \in DOMAIN ixs : ixs[k].op = op}})

\* split_compute_budget_instructions, build_merged_compute_budget_instructions
Rebuilt(ixs, fees, on) ==
    LET limit == Max({AmountOf("limit", ixs), fees.limit})
        price == Max({AmountOf("price", ixs), fees.price})
        other == Taken(ixs, {i \in DOMAIN ixs :
                               IsBudget(ixs[i]) /\ ixs[i].op \notin {"limit", "price"}})
        core == Protected(Taken(ixs, {i \in DOMAIN ixs : ~IsBudget(ixs[i])}), on)
    IN  If(limit > 0, LimitOf(limit)) \o If(price > 0, PriceOf(price))
          \o other \o core \o TipToAdd(core, fees)

ServiceTables(s) == IF s.table THEN <<"bags">> ELSE <<>>

(* ensure_tx_config_on_bags_versioned_transaction: what somebody else      *)
(* signed too is signed as it is.  A bundle is not tipped here when one of *)
(* its transactions is the whole bundle's.                                 *)
Ensured(r, s) ==
    LET fees == IF s.bundled /\ r.secure THEN [r.fees EXCEPT !.tip = 0] ELSE r.fees
        given == Signed("v0", SignersOf(ServiceIxs(s)), ServiceIxs(s), ServiceTables(s))
    IN  IF SignersOf(given.ixs) # {Owner} THEN given
        ELSE Signed("v0", {}, Rebuilt(Decompiled(given), fees, r.dontfront), given.tables)

BagsEnsure ==
    /\ progress = "start" /\ order.kind = "bags" /\ Len(txs) < Len(order.service)
    /\ Adds(Ensured(order, order.service[Len(txs) + 1]), "start")

BagsDone ==
    /\ progress = "start" /\ order.kind = "bags" /\ Len(txs) = Len(order.service)
    /\ progress' = "done"
    /\ UNCHANGED <<order, todo, queue, groups, tables, topUp, txs, why>>

-----------------------------------------------------------------------------
(* An account, a blockhash, a table cannot be read.                        *)
ReadFails ==
    /\ progress \in {"start", "topup", "action", "follow-up"}
    /\ Refused("rpc")

AssembleNext ==
    \/ BonkStart \/ Split \/ CompileGroups \/ CompileTopUp \/ Combine \/ CombineBuy
    \/ TradeStart \/ CompileTrade
    \/ PumpStart \/ PumpCompileLaunch \/ PumpCompileSetup \/ PumpCompileTip
    \/ BagsEnsure \/ BagsDone \/ ReadFails

AssembleSpec == AssembleInit /\ [][AssembleNext]_assembleVars

-----------------------------------------------------------------------------
(* Properties                                                              *)

Delivered == progress = "done"

\* The instructions a request asks for, in order.
Asked(r) ==
    CASE r.kind = "bonk-launch" ->
            (IF r.devBuy /\ r.short THEN TopUpCore(r) ELSE <<>>) \o BonkLaunch(r)
      [] r.kind \in {"buy", "same-time-buy"} ->
            (IF r.quote = "usd1" /\ r.short THEN TopUpCore(r) ELSE <<>>) \o BuyCore(r)
      [] r.kind = "sell" -> SellCore(r)
      [] r.kind = "pump" -> PumpLaunchOf(r) \o (IF r.followUp THEN PumpSetup(r) ELSE <<>>)
      [] r.kind = "bags" -> FlattenSeq([i \in DOMAIN r.service |-> ServiceCore(r.service[i])])

\* What the programs are told: the program, the data and the accounts.
Told(ix, rename) ==
    <<ix.op, ix.program, ix.n, [k \in DOMAIN ix.uses |-> IF ix.uses[k] = Wrapped THEN rename ELSE ix.uses[k]]>>

Without(ix, account) == [ix EXCEPT !.uses = Taken(@, {k \in DOMAIN @ : @[k] # account})]

IsCore(ix) == ~IsBudget(ix) /\ ~(ix.op = "transfer" /\ ix.uses[2] = TipAccount)

Core(ixs) == Taken(ixs, {i \in DOMAIN ixs : IsCore(ixs[i])})

Result == FlattenSeq([i \in DOMAIN txs |-> Core(txs[i].ixs)])

(* Splitting, combining, taking apart and rebuilding lose no instruction,  *)
(* add none and keep their order and accounts; the temporary account of a  *)
(* top-up may be another one, but the same in all of its instructions.     *)
(* bonk_native.rs 3704, 4011, 6052, bags_native.rs 1907.                   *)
InstructionsKept ==
    Delivered =>
        \E temporary \in {Wrapped, Anew(Wrapped)} :
            [i \in DOMAIN Asked(order) |-> Told(Asked(order)[i], temporary)]
                = [i \in DOMAIN Result |-> Told(Without(Result[i], Dontfront), Wrapped)]

Count(ixs, is(_)) == Len(SelectSeq(ixs, is))

\* What an instruction sets or pays.
FeeOf(ix) == IF ix.op = "transfer" /\ ix.uses[2] = TipAccount THEN "tip" ELSE ix.op

IsTipped(tx) == \E i \in DOMAIN tx.ixs : FeeOf(tx.ixs[i]) = "tip"

(* No transaction sets its limit or its price twice, which the chain would *)
(* refuse, or pays two tips; a bundle that is tipped once is tipped in its *)
(* last transaction.  bonk_native.rs 3450, 4299, bags_native.rs 1695, 1953.*)
FeesOnce ==
    Delivered =>
        /\ \A i \in DOMAIN txs : \A fee \in {"limit", "price", "tip"} :
            \A j, k \in DOMAIN txs[i].ixs :
                FeeOf(txs[i].ixs[j]) = fee /\ FeeOf(txs[i].ixs[k]) = fee => j = k
        /\ order.kind \in {"bonk-launch", "pump"} /\ order.secure
            => \A i \in DOMAIN txs : IsTipped(txs[i]) <=> i = Len(txs) /\ order.fees.tip > 0

(* The keys at hand are always those a transaction asks for, so that none  *)
(* is refused, nor a combination given up, for a signature.                *)
(* bonk_native.rs 3605, 4011.                                              *)
NeverMissigned == why # "signers"

(* A transaction that is delivered fits, unless nothing could be done: a   *)
(* single instruction of a launch, or no loaded table makes it fit.        *)
(* bonk_native.rs 3704, pump_native.rs 3098.                               *)
FitsIfItCan ==
    Delivered => \A i \in DOMAIN txs :
        TooLarge(txs[i]) =>
            \/ order.kind = "bonk-launch" /\ Count(txs[i].ixs, IsCore) = 1
            \/ order.kind = "pump" /\ order.format # "auto"
            \/ order.kind = "pump"
                 /\ \A v \in {<<>>} \union ToSet(Variants(order, "launch")) :
                        Size("v0", txs[i].ixs, v) > PacketLimit
            \/ order.kind = "bags"
=============================================================================
