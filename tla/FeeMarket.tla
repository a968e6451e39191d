------------------------------ MODULE FeeMarket ------------------------------
(***************************************************************************)
(* The cache of the fee market of the main host, src/rust/launchdeck-      *)
(* engine/src/main.rs: one entry holds the priority estimate of Helius and *)
(* the tip floor of Jito, and one stamp says when it was fetched. Two tasks*)
(* refresh a half each while the host is in use, the tip from a request    *)
(* and then from a stream; a launch takes what it finds within             *)
(* FEE_MARKET_MAX_AGE and fetches both otherwise. An estimate is           *)
(* represented by the time it was fetched.                                 *)
(***************************************************************************)
EXTENDS Integers

CONSTANTS
    MaxAge, \* FEE_MARKET_MAX_AGE, in ticks
    MaxTime \* bound: the ticks of a behaviour

None == -1

VARIABLES
    tick,
    inUse,   \* the gate of the background requests (module Warm)
    entry,   \* the cached snapshot and its stamp
    helius,  \* the task of the priority estimate: idle, or awaiting its answer
    jito,    \* the task of the tip: idle, awaiting the floor, or on the stream,
    launch,  \* the launch that wants a snapshot: idle, or awaiting both answers
    used     \* the age of what the last launch was given, None for no estimate

feeVars == <<tick, inUse, entry, helius, jito, launch, used>>

\* auto_fee_jito_tip_percentile and the level are fixed: one key.
NoEntry == [here |-> FALSE, priority |-> None, tip |-> None, at |-> 0]

\* Also an update of one half stamps the entry, and makes one when there is none.
Stamped(e) == [e EXCEPT !.here = TRUE, !.at = tick]

(* fetch_helius_priority_snapshot_live does not fail: an error of the      *)
(* request is an estimate that is missing.                                 *)
HeliusEstimate == {tick, None}

\* The floor has none of the percentiles, or no answer came.
JitoFloor == {tick, None}

HeliusLooks ==
    /\ helius = "idle" /\ inUse
    /\ helius' = "asked"
    /\ UNCHANGED <<tick, inUse, entry, jito, launch, used>>

HeliusAnswers ==
    /\ helius = "asked"
    /\ \E estimate \in HeliusEstimate : entry' = Stamped([entry EXCEPT !.priority = estimate])
    /\ helius' = "idle"
    /\ UNCHANGED <<tick, inUse, jito, launch, used>>

JitoLooks ==
    /\ jito = "idle" /\ inUse
    /\ jito' = "asked"
    /\ UNCHANGED <<tick, inUse, entry, helius, launch, used>>

\* A failed request leaves the entry as it is; either way the stream is opened.
FloorAnswers ==
    /\ jito = "asked"
    /\ \/ \E floor \in JitoFloor : entry' = Stamped([entry EXCEPT !.tip = floor])
       \/ entry' = entry
    /\ jito' = "stream"
    /\ UNCHANGED <<tick, inUse, helius, launch, used>>

\* The gate is looked at before each message.
StreamLooks ==
    /\ jito = "stream" /\ inUse
    /\ jito' = "listening"
    /\ UNCHANGED <<tick, inUse, entry, helius, launch, used>>

\* A message without the percentile is passed over.
StreamUpdate ==
    /\ jito = "listening"
    /\ entry' \in {entry, Stamped([entry EXCEPT !.tip = tick])}
    /\ jito' = "stream"
    /\ UNCHANGED <<tick, inUse, helius, launch, used>>

\* Closed, silent for JITO_TIP_STREAM_IDLE_TIMEOUT, or not in use.
StreamEnds ==
    /\ jito \in {"stream", "listening"}
    /\ jito' = "idle"
    /\ UNCHANGED <<tick, inUse, entry, helius, launch, used>>

Age(value) == IF value = None THEN None ELSE tick - value

Ages(e) == [priority |-> Age(e.priority), tip |-> Age(e.tip)]

IsFresh == entry.here /\ tick - entry.at <= MaxAge

(* fetch_fee_market_snapshot, for a launch with an automatic fee, a pass of*)
(* the warm loop or the startup warm.                                      *)
Snapshot ==
    /\ launch = "idle"
    /\ \/ IsFresh /\ used' = Ages(entry) /\ launch' = launch
       \/ ~IsFresh /\ launch' = "asked" /\ used' = used
    /\ UNCHANGED <<tick, inUse, entry, helius, jito>>

\* Both halves are fetched and put over what is there by now.
SnapshotAnswers ==
    /\ launch = "asked"
    /\ \E estimate \in HeliusEstimate, floor \in JitoFloor :
          entry' = Stamped([entry EXCEPT !.priority = estimate, !.tip = floor])
    /\ used' = Ages(entry')
    /\ launch' = "idle"
    /\ UNCHANGED <<tick, inUse, helius, jito>>

UseChanges ==
    /\ inUse' = ~inUse
    /\ UNCHANGED <<tick, entry, helius, jito, launch, used>>

Tick ==
    /\ tick < MaxTime
    /\ tick' = tick + 1
    /\ UNCHANGED <<inUse, entry, helius, jito, launch, used>>

FeeInit ==
    /\ tick = 0 /\ inUse = FALSE /\ entry = NoEntry
    /\ helius = "idle" /\ jito = "idle" /\ launch = "idle"
    /\ used = [priority |-> None, tip |-> None]

FeeNext ==
    \/ HeliusLooks \/ HeliusAnswers
    \/ JitoLooks \/ FloorAnswers \/ StreamLooks \/ StreamUpdate \/ StreamEnds
    \/ Snapshot \/ SnapshotAnswers \/ UseChanges \/ Tick

FeeSpec == FeeInit /\ [][FeeNext]_feeVars

(* docs/EXECUTION_DOS_AND_DONTS.md: "Do not keep stale fee recommendations *)
(* around during active trading windows". A launch is given no estimate    *)
(* older than FEE_MARKET_MAX_AGE. The code does not keep to it: the update *)
(* of one half stamps the other, which may be from before the host was last*)
(* in use (update_cached_fee_market_snapshot).                             *)
FeesFresh == used.priority <= MaxAge /\ used.tip <= MaxAge
==============================================================================
