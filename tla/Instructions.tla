---------------------------- MODULE Instructions ----------------------------
(***************************************************************************)
(* The instructions that the launchpads' compilers build, src/rust/        *)
(* launchdeck-engine/src (pump_native.rs, bonk_native.rs, bags_native.rs), *)
(* and the message that a list of them becomes.                            *)
(*                                                                         *)
(* An account is a name and a number; a key made anew for an account has   *)
(* its name and the next number.  An instruction keeps its accounts in     *)
(* order, who signs, the bytes of its data and the amount that is looked   *)
(* at: of a tip, a limit, a price.                                         *)
(***************************************************************************)
EXTENDS Integers, Sequences, SequencesExt, FiniteSetsExt

CONSTANTS
    Listed,         \* [names of tables -> the accounts they list]
    PacketLimit     \* bytes of a transaction that the network takes

Key(name) == <<name, 0>>
Owner == Key("owner")
Mint == Key("mint")
Wrapped == Key("wrapped")
TipAccount == Key("tip")
Dontfront == Key("dontfront")

\* Accounts that no other instruction mentions.
Own(name, n) == [i \in 1..n |-> <<name, i>>]

Named(names) == [i \in DOMAIN names |-> Key(names[i])]

Instr(op, program, signs, uses, data) ==
    [op |-> op, program |-> Key(program), signs |-> signs, uses |-> uses, data |-> data, n |-> 0]

Budget(op, n, data) == [Instr(op, "budget", {}, <<>>, data) EXCEPT !.n = n]
LimitOf(n) == Budget("limit", n, 5)
PriceOf(n) == Budget("price", n, 9)

Transfer(to, n) == [Instr("transfer", "system", {Owner}, <<Owner, to>>, 12) EXCEPT !.n = n]

CreateAta(account, mint, token) ==
    Instr("create-ata", "ata", {Owner},
       <<Owner, account, Owner, mint, Key("system"), Key(token)>>, 1)

-----------------------------------------------------------------------------
(* Bonk *)

\* The program's own arguments and the strings.
BonkInitialize(quote, strings) ==
    Instr("initialize", "launchpad", {Owner, Mint},
       <<Owner, Owner>>
         \o Named(<<"config", "platform", "auth", "pool", "mint", quote, "vault-a", "vault-b",
                    "metadata", "token", "token", "metadata-program", "system", "rent", "event",
                    "launchpad">>), 72 + strings)

BonkSwap(op, quote, from, to) ==
    Instr(op, "launchpad", {Owner},
       <<Owner>> \o Named(<<"auth", "config", "platform", "pool">>) \o <<from, to>>
         \o Named(<<"vault-a", "vault-b", "mint", quote, "token", "token", "event", "launchpad",
                    "system", "platform-fees", "creator-fees">>), 32)

OpenWrapped ==
    <<Instr("create-account", "system", {Owner, Wrapped}, <<Owner, Wrapped>>, 52),
      Instr("initialize-account", "token", {}, <<Wrapped, Key("sol")>>, 33),
      Instr("sync", "token", {}, <<Wrapped>>, 1)>>

CloseWrapped == Instr("close", "token", {Owner}, <<Wrapped, Owner, Owner>>, 1)

ClmmSwap(arrays) ==
    Instr("clmm-swap", "clmm", {Owner},
       <<Owner>> \o Named(<<"clmm-config", "clmm-pool">>) \o <<Wrapped, Key("my-usd1")>>
         \o Named(<<"clmm-sol", "clmm-usd1", "clmm-observation", "token", "token-2022", "memo",
                    "sol", "usd1", "clmm-bitmap">>) \o Own("tick-array", arrays), 41)

-----------------------------------------------------------------------------
(* Pump *)

PumpCreate(strings) ==
    Instr("create", "pump", {Mint, Owner},
       Named(<<"mint", "mint-authority", "curve", "curve-tokens", "global", "owner", "system",
               "token-2022", "ata", "mayhem", "mayhem-params", "mayhem-sol", "mayhem-state",
               "mayhem-tokens", "event", "pump">>), 54 + strings)

PumpExtend ==
    Instr("extend", "pump", {Owner}, Named(<<"curve", "owner", "system", "event", "pump">>), 8)

BuyOnCurve ==
    Instr("buy", "pump", {Owner},
       Named(<<"global", "fee-recipient", "mint", "curve", "curve-tokens", "my-tokens", "owner",
               "system", "token-2022", "creator-vault", "event", "pump", "volume", "my-volume",
               "fee-config", "fees", "curve-v2">>), 25)

AgentInitialize ==
    Instr("agent", "agents", {Owner},
       Named(<<"owner", "curve", "agents-config", "mint", "agent", "system", "agents-event",
               "agents">>), 42)

SocialFee(user) ==
    Instr("social-fee", "fees", {Owner},
       Named(<<"owner">>) \o <<user>> \o Named(<<"system", "fees-global", "fees-event", "fees">>), 21)

ShareConfig ==
    Instr("share-config", "fees", {Owner},
       Named(<<"fees-event", "fees", "owner", "global", "mint", "shares", "system", "curve", "pump",
               "event", "fees", "amm", "fees">>), 8)

UpdateShares(recipients) ==
    Instr("update-shares", "fees", {Owner},
       Named(<<"fees-event", "fees", "owner", "global", "mint", "shares", "curve", "share-vault",
               "system", "pump", "event", "amm", "amm-event", "sol", "token", "ata",
               "share-authority", "share-sol", "owner">>), 12 + 34 * recipients)

-----------------------------------------------------------------------------
(* Messages and transactions; the format is that of the chain (external)   *)

SignersOf(ixs) == {Owner} \union UNION {ixs[i].signs : i \in DOMAIN ixs}

KeysOf(ixs) ==
    {Owner} \union UNION {ToSet(ixs[i].uses) \union {ixs[i].program} : i \in DOMAIN ixs}

\* Neither a signer nor a program that is invoked is looked up.
Lookable(ixs) == KeysOf(ixs) \ (SignersOf(ixs) \union {ixs[i].program : i \in DOMAIN ixs})

\* The tables are gone through in order; one that gives nothing is left out.
LookUp(ixs, tables) ==
    FoldLeft(LAMBDA r, t : IF r.left \intersect Listed[t] = {} THEN r
                           ELSE [left |-> r.left \ Listed[t], used |-> Append(r.used, t)],
             [left |-> Lookable(ixs), used |-> <<>>], tables)

Sum(ixs, bytes(_)) == FoldLeft(LAMBDA n, i : n + bytes(i), 0, ixs)

\* Signatures, header and blockhash; keys of 32 bytes, or one for a looked up
\* key and 34 for its table; the instructions.
Size(format, ixs, tables) ==
    LET found == LookUp(ixs, tables)
        looked == Cardinality(Lookable(ixs)) - Cardinality(found.left)
    IN  38 + 64 * Cardinality(SignersOf(ixs)) + 32 * (Cardinality(KeysOf(ixs)) - looked)
        + Sum(ixs, LAMBDA i : 3 + Len(i.uses) + i.data + (IF i.data < 128 THEN 0 ELSE 1))
        + (IF format = "legacy" THEN 0 ELSE 2 + 34 * Len(found.used) + looked)

NoTx(error) == [format |-> "none", ixs |-> <<>>, tables |-> <<>>, size |-> 0, error |-> error]

Message(format, ixs, tables) ==
    [format |-> format, ixs |-> ixs, size |-> Size(format, ixs, tables), error |-> "none",
     tables |-> IF format = "legacy" THEN <<>> ELSE LookUp(ixs, tables).used]

\* Signing fails unless the keys at hand are those the message asks for.
CanSign(keys, ixs) == keys \union {Owner} = SignersOf(ixs)

Signed(format, keys, ixs, tables) ==
    IF CanSign(keys, ixs) THEN Message(format, ixs, tables) ELSE NoTx("signers")

\* What is read back from a message: its signers sign wherever they occur.
Decompiled(tx) ==
    [i \in DOMAIN tx.ixs |->
        [tx.ixs[i] EXCEPT !.signs = ToSet(tx.ixs[i].uses) \intersect SignersOf(tx.ixs)]]

-----------------------------------------------------------------------------
(* Settings around the instructions of a transaction                       *)

DontfrontOn(ix) == IF Dontfront \in ToSet(ix.uses) THEN ix ELSE [ix EXCEPT !.uses = Append(@, Dontfront)]

\* apply_jitodontfront
Protected(core, on) == [i \in DOMAIN core |-> IF on THEN DontfrontOn(core[i]) ELSE core[i]]

If(condition, ix) == IF condition THEN <<ix>> ELSE <<>>

\* with_tx_settings, with_bonk_tx_settings, build_native_follow_instructions
Settings(core, fees, on) ==
    <<LimitOf(fees.limit)>> \o If(fees.price > 0, PriceOf(fees.price)) \o Protected(core, on)
      \o If(fees.tip > 0, Transfer(TipAccount, fees.tip))

\* The instructions at some places, in their order.
Taken(ixs, places) ==
    LET upTo[n \in 0..Len(ixs)] ==
            IF n = 0 THEN <<>>
            ELSE IF n \in places THEN Append(upTo[n - 1], ixs[n]) ELSE upTo[n - 1]
    IN  upTo[Len(ixs)]

IsBudget(ix) == ix.program = Key("budget")

IsTip(ix, fees) ==
    /\ fees.tip > 0 /\ ix.program = Key("system") /\ ix.op = "transfer"
    /\ ix.uses[1] = Owner /\ Owner \in ix.signs /\ ix.uses[2] = TipAccount /\ ix.n = fees.tip
=============================================================================
