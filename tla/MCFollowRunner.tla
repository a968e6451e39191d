-------------------------- MODULE MCFollowRunner --------------------------
(***************************************************************************)
(* Jobs for TLC to run FollowRunner on. b1 and b2 are sniper buys of rows  *)
(* 1 and 2, s1 is the autosell of row 1, d1 the dev auto sell.             *)
(***************************************************************************)
EXTENDS FollowRunner

MCKind       == [a \in Actions |-> CASE a \in {"b1", "b2"} -> "SniperBuy"
                                     [] a = "s1"           -> "SniperSell"
                                     [] a = "d1"           -> "DevAutoSell"]
MCOrderIndex == [a \in Actions |-> CASE a \in {"b1", "s1"} -> 1
                                     [] a = "b2"           -> 2
                                     [] a = "d1"           -> 0]

\* The dev auto sell sorts before the buys, the buys by row.
MCLead == [k \in {TriggerKey[a] : a \in Actions} |->
             CHOOSE a \in Actions :
               /\ TriggerKey[a] = k
               /\ \A b \in Actions : TriggerKey[b] = k => OrderIndex[a] <= OrderIndex[b]]

\* All with one wallet, or the sells and buys of row 1 apart from the others.
OneWallet  == [a \in Actions |-> "w1"]
TwoWallets == [a \in Actions |-> IF a \in {"b1", "s1"} THEN "w1" ELSE "w2"]

\* A batch in the block of the launch, and an autosell at a market cap.
RowsTrigger == [a \in Actions |-> IF a = "s1" THEN "market" ELSE "block0"]
RowsKey     == [a \in Actions |-> IF a = "s1" THEN "sniper-sell" ELSE "slot:0"]

\* A buy in the block of the launch, before the setup, and a dev auto sell
\* after it.
SetupTrigger == [a \in Actions |-> IF a = "d1" THEN "confirm" ELSE "block0"]
SetupKey     == [a \in Actions |-> IF a = "d1" THEN "confirm" ELSE "slot:0"]

\* A buy at submit, and a dev auto sell some blocks later.
LiveTrigger == [a \in Actions |-> IF a = "d1" THEN "blockN" ELSE "submit"]
LiveKey     == [a \in Actions |-> IF a = "d1" THEN "slot:1" ELSE "submit:0"]

\* A buy with a delay and its autosell in the block of the buy.
DelayTrigger == [a \in Actions |-> IF a = "s1" THEN "block0" ELSE "delay"]
DelayKey     == [a \in Actions |-> IF a = "s1" THEN "sniper-sell" ELSE "submit:500"]

=============================================================================
