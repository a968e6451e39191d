----------------------------- MODULE FollowWatch -----------------------------
(***************************************************************************)
(* The watchers of one follow job and the waits that read them, src/rust/  *)
(* launchdeck-engine/src/bin/launchdeck-follow-daemon.rs. A job has at most*)
(* one task for the launch signature, one for the slots and one for the    *)
(* market cap; each goes from the websocket to polling, starts over when   *)
(* the polling fails, gives up after MaxAttempts rounds, and publishes its *)
(* last value or its error in a watch channel that every action reads.     *)
(* Slots count from the slot of the launch; the market cap is 0 or 1, and 1*)
(* is the threshold. The health records of the watchers are left out.      *)
(***************************************************************************)
EXTENDS Naturals

CONSTANTS
    Waiter,      \* actions that wait for their trigger
    MaxAttempts, \* WATCHER_MAX_RECONNECT_ATTEMPTS
    MaxSlot      \* the last slot the cluster reaches

ASSUME WatchAssumption == MaxAttempts \in Nat \ {0} /\ MaxSlot \in Nat \ {0}

Kind == {"signature", "slot", "market"}

VARIABLES
    watchPlan,  \* ws: a watch endpoint is configured; mint: the job has one
    jobIs,      \* live or cancelled
    launch,     \* the launch transaction: pending, confirmed or failed
    recorded,   \* the job's confirmedObservedSlot is set
    slotNow,    \* the slot of the cluster
    cap,        \* the market cap, and whether it ever was at the threshold
    wasHigh,
    watcher,    \* [Kind -> [stage, attempt]]
    told,       \* [Kind -> the last value in the watch channel]
    wait        \* [Waiter -> what the action waits for]

clusterVars == <<launch, recorded, slotNow, cap, wasHigh>>
watchVars == <<watchPlan, jobIs, clusterVars, watcher, told, wait>>

Nothing == [is |-> "none", v |-> 0]
Value(v) == [is |-> "ok", v |-> v]
Error == [is |-> "err", v |-> 0]

(* confirm: the action requires the confirmation of the launch; trigger:   *)
(* the events of which the first lets it go; none for on-confirmation.     *)
(* sells: at the end of its scan a market cap trigger sells. What no action*)
(* of the job asks for is fixed, to save states.                           *)
Triggers == {{}, {"slot"}, {"market"}, {"time"}, {"slot", "market"}, {"time", "market"}}
WatchPlan == [ws: BOOLEAN, mint: BOOLEAN,
              trigger: [Waiter -> Triggers], confirm: [Waiter -> BOOLEAN],
              sells: BOOLEAN]

Target == 1

WatchTypeOK ==
    /\ watchPlan \in WatchPlan
    /\ jobIs \in {"live", "cancelled"}
    /\ launch \in {"pending", "confirmed", "failed"} /\ recorded \in BOOLEAN
    /\ slotNow \in 0..MaxSlot /\ cap \in 0..1 /\ wasHigh \in BOOLEAN
    /\ watcher \in [Kind -> [stage: {"none", "websocket", "polling", "over"},
                             attempt: 0..(MaxAttempts - 1)]]
    /\ told \in [Kind -> [is: {"none", "ok", "err"}, v: 0..MaxSlot]]
    /\ wait \in [Waiter -> [pc: {"confirming", "starting", "waiting", "ok", "err"},
                            by: {"none", "slot", "market", "time", "scanEnd"}]]

WatchInit ==
    /\ watchPlan \in WatchPlan
    /\ \A w \in Waiter : "slot" \in watchPlan.trigger[w] => watchPlan.confirm[w]
    /\ (\A w \in Waiter : "market" \notin watchPlan.trigger[w])
           => watchPlan.mint /\ ~watchPlan.sells
    /\ jobIs = "live" /\ launch = "pending" /\ recorded = FALSE
    /\ slotNow = 0 /\ cap = 0 /\ wasHigh = FALSE
    /\ watcher = [k \in Kind |-> [stage |-> "none", attempt |-> 0]]
    /\ told = [k \in Kind |-> Nothing]
    /\ wait = [w \in Waiter |-> [pc |-> "confirming", by |-> "none"]]

-----------------------------------------------------------------------------
(* The watcher tasks *)

\* transactionSubscribe, when it is preferred, and the standard websocket are
\* one stage: they publish the same and the first falls back to the second.
FirstSession == IF watchPlan.ws THEN "websocket" ELSE "polling"

\* ensure_..._watcher: the first wait starts the task, none starts it again.
\* Without the mint the market watcher ends at once.
Ensure(ks) ==
    /\ watcher' = [k \in Kind |->
            IF k \notin ks \/ watcher[k].stage # "none" THEN watcher[k]
            ELSE IF k = "market" /\ ~watchPlan.mint THEN [watcher[k] EXCEPT !.stage = "over"]
            ELSE [watcher[k] EXCEPT !.stage = FirstSession]]
    /\ told' = [k \in Kind |->
            IF k = "market" /\ k \in ks /\ watcher[k].stage = "none" /\ ~watchPlan.mint
            THEN Error ELSE told[k]]

InSession(k) == watcher[k].stage \in {"websocket", "polling"}

\* The signature watcher is over with the first confirmation it sees.
SignatureSession ==
    /\ InSession("signature")
    /\ jobIs = "live"
    /\ launch = "confirmed"
    /\ told' = [told EXCEPT !["signature"] = Value(0)]
    /\ watcher' = [watcher EXCEPT !["signature"].stage = "over"]
    /\ UNCHANGED <<watchPlan, jobIs, clusterVars, wait>>

\* run_slot_watcher_..._session: every message, or poll, is published.
SlotSession ==
    /\ InSession("slot")
    /\ jobIs = "live"
    /\ told' = [told EXCEPT !["slot"] = Value(slotNow)]
    /\ UNCHANGED <<watchPlan, jobIs, clusterVars, watcher, wait>>

\* recompute_market_cap_for_job: a Bags snapshot may be one of before.
CapSeen == {cap} \union (IF told["market"].is = "ok" THEN {told["market"].v} ELSE {})

\* At every message, or poll.
MarketSession ==
    /\ InSession("market")
    /\ jobIs = "live"
    /\ \E seen \in CapSeen : told' = [told EXCEPT !["market"] = Value(seen)]
    /\ UNCHANGED <<watchPlan, jobIs, clusterVars, watcher, wait>>

\* handle_watcher_retry: a cancelled job's watcher, or one at its last
\* attempt, publishes its error and is over; any other starts over, after a
\* pause of which nobody can tell the length.
Retry(k) ==
    IF jobIs # "live" \/ watcher[k].attempt + 1 >= MaxAttempts
    THEN /\ watcher' = [watcher EXCEPT ![k].stage = "over"]
         /\ told' = [told EXCEPT ![k] = Error]
    ELSE /\ watcher' = [watcher EXCEPT ![k] = [stage |-> FirstSession, attempt |-> @.attempt + 1]]
         /\ UNCHANGED told

\* A session ends: the socket does not open, is closed, its subscription is
\* refused, a request fails, the launch has failed, or the job is cancelled.
\* Every session falls back to the next, the polling to another round.
SessionFails(k) ==
    /\ InSession(k)
    /\ \/ /\ watcher[k].stage = "websocket"
          /\ watcher' = [watcher EXCEPT ![k].stage = "polling"]
          /\ UNCHANGED told
       \/ /\ watcher[k].stage = "polling"
          /\ Retry(k)
    /\ UNCHANGED <<watchPlan, jobIs, clusterVars, wait>>

-----------------------------------------------------------------------------
(* The waits: wait_for_action_eligibility *)

Ends(w, how, by) == wait' = [wait EXCEPT ![w] = [pc |-> how, by |-> by]]
Goes(w, pc) == wait' = [wait EXCEPT ![w].pc = pc]

\* Mutant of Confirm: only the watcher ends the wait.
ConfirmUncancelled(w) ==
    /\ wait[w].pc = "confirming"
    /\ \/ /\ ~watchPlan.confirm[w] \/ recorded
          /\ Goes(w, "starting")
          /\ UNCHANGED <<watcher, told>>
       \/ /\ watchPlan.confirm[w] /\ ~recorded
          /\ watcher["signature"].stage = "none"
          /\ Ensure({"signature"})
          /\ UNCHANGED wait
       \/ /\ watchPlan.confirm[w] /\ ~recorded
          /\ watcher["signature"].stage # "none"
          /\ CASE told["signature"].is = "err" -> Ends(w, "err", "none")
               [] told["signature"].is = "ok" -> Goes(w, "starting")
               [] OTHER -> FALSE
          /\ UNCHANGED <<watcher, told>>
    /\ UNCHANGED <<watchPlan, jobIs, clusterVars>>

\* wait_for_signature_confirmation: what the job record says comes first,
\* then a cancellation, then the channel; looked at every 50 ms.
Confirm(w) ==
    /\ wait[w].pc = "confirming"
    /\ \/ /\ ~watchPlan.confirm[w] \/ recorded
          /\ Goes(w, "starting")
          /\ UNCHANGED <<watcher, told>>
       \/ /\ watchPlan.confirm[w] /\ ~recorded
          /\ watcher["signature"].stage = "none"
          /\ Ensure({"signature"})
          /\ UNCHANGED wait
       \/ /\ watchPlan.confirm[w] /\ ~recorded
          /\ watcher["signature"].stage # "none"
          /\ CASE jobIs = "cancelled" \/ told["signature"].is = "err" -> Ends(w, "err", "none")
               [] told["signature"].is = "ok" -> Goes(w, "starting")
               [] OTHER -> FALSE
          /\ UNCHANGED <<watcher, told>>
    /\ UNCHANGED <<watchPlan, jobIs, clusterVars>>

\* The trigger is already there (one fresh look at the slot and at the market
\* cap), or the watchers are started. The look at the market cap may fail.
Start(w) ==
    /\ wait[w].pc = "starting"
    /\ LET trigger == watchPlan.trigger[w] IN
       \/ /\ trigger = {}
          /\ Ends(w, "ok", "none")
          /\ UNCHANGED <<watcher, told>>
       \/ /\ "market" \in trigger
          /\ Ends(w, "err", "none")
          /\ UNCHANGED <<watcher, told>>
       \/ /\ "market" \in trigger /\ watchPlan.mint /\ cap = 1
          /\ Ends(w, "ok", "market")
          /\ Ensure(trigger \intersect {"slot"})
       \/ /\ "slot" \in trigger /\ slotNow >= Target
          /\ Ends(w, "ok", "slot")
          /\ Ensure(trigger \intersect {"slot"})
       \/ /\ trigger # {}
          /\ "market" \in trigger => watchPlan.mint /\ cap = 0
          /\ Goes(w, "waiting")
          /\ Ensure(trigger \ {"time"})
    /\ UNCHANGED <<watchPlan, jobIs, clusterVars>>

Reached(k) == told[k].is = "ok" /\ told[k].v >= Target

\* Mutant of Look: any value of the channel will do.
LookLax(w, k) ==
    /\ wait[w].pc = "waiting" /\ k \in watchPlan.trigger[w]
    /\ \/ /\ jobIs = "cancelled" \/ told[k].is = "err"
          /\ Ends(w, "err", "none")
       \/ /\ told[k].is = "ok"
          /\ Ends(w, "ok", k)
    /\ UNCHANGED <<watchPlan, jobIs, clusterVars, watcher, told>>

\* One turn of a wait: cancelled, an error of the watcher, or the target. An
\* error of one of two triggers ends the wait for both.
Look(w, k) ==
    /\ wait[w].pc = "waiting" /\ k \in watchPlan.trigger[w]
    /\ \/ /\ jobIs = "cancelled" \/ told[k].is = "err"
          /\ Ends(w, "err", "none")
       \/ /\ Reached(k)
          /\ Ends(w, "ok", k)
    /\ UNCHANGED <<watchPlan, jobIs, clusterVars, watcher, told>>

\* wait_until_ms, in steps of at most 50 ms.
TimeCome(w) ==
    /\ wait[w].pc = "waiting" /\ "time" \in watchPlan.trigger[w]
    /\ IF jobIs = "cancelled" THEN Ends(w, "err", "none") ELSE Ends(w, "ok", "time")
    /\ UNCHANGED <<watchPlan, jobIs, clusterVars, watcher, told>>

\* scanTimeoutSeconds have passed without the market cap.
ScanEnds(w) ==
    /\ wait[w].pc = "waiting" /\ "market" \in watchPlan.trigger[w]
    /\ IF watchPlan.sells /\ jobIs = "live" THEN Ends(w, "ok", "scanEnd")
                                            ELSE Ends(w, "err", "none")
    /\ UNCHANGED <<watchPlan, jobIs, clusterVars, watcher, told>>

Waits(w) == wait[w].pc \in {"confirming", "starting", "waiting"}

-----------------------------------------------------------------------------
(* The world; the market is followed while an action waits. *)

Land ==
    /\ launch = "pending"
    /\ launch' \in {"confirmed", "failed"}
    /\ UNCHANGED <<watchPlan, jobIs, recorded, slotNow, cap, wasHigh, watcher, told, wait>>

\* The host, or another task of the job, stores the confirmed slot.
Record ==
    /\ launch = "confirmed" /\ ~recorded
    /\ recorded' = TRUE
    /\ UNCHANGED <<watchPlan, jobIs, launch, slotNow, cap, wasHigh, watcher, told, wait>>

Tick ==
    /\ slotNow < MaxSlot
    /\ slotNow' = slotNow + 1
    /\ UNCHANGED <<watchPlan, jobIs, launch, recorded, cap, wasHigh, watcher, told, wait>>

Trade ==
    /\ \E w \in Waiter : Waits(w)
    /\ cap' = 1 - cap
    /\ wasHigh' = TRUE
    /\ UNCHANGED <<watchPlan, jobIs, launch, recorded, slotNow, watcher, told, wait>>

CancelWatched ==
    /\ jobIs = "live"
    /\ jobIs' = "cancelled"
    /\ UNCHANGED <<watchPlan, clusterVars, watcher, told, wait>>

WaitStep(w) == Confirm(w) \/ Start(w) \/ TimeCome(w) \/ ScanEnds(w)
                 \/ \E k \in {"slot", "market"} : Look(w, k)

WatchNext ==
    \/ SignatureSession \/ SlotSession \/ MarketSession
    \/ \E k \in Kind : SessionFails(k)
    \/ \E w \in Waiter : WaitStep(w)
    \/ Land \/ Record \/ Tick \/ Trade \/ CancelWatched

WatchSpec == WatchInit /\ [][WatchNext]_watchVars

\* The waits look every 50 ms, the launch is decided and polls are made. Nothing is assumed of the sockets.
WatchFairness ==
    /\ \A w \in Waiter : WF_watchVars(WaitStep(w))
    /\ WF_watchVars(watcher["signature"].stage = "polling"
                    /\ (SignatureSession \/ SessionFails("signature")))
    /\ WF_watchVars(Land) /\ WF_watchVars(Tick)
    /\ WF_watchVars(watcher["slot"].stage = "polling" /\ SlotSession)

-----------------------------------------------------------------------------
(* Properties *)

(***************************************************************************)
(* An action is let go only by what it waits for: after the confirmation,  *)
(* when it requires one, at a slot the cluster has reached, at a market cap*)
(* that was reached while the job ran, at its time, or at the end of a scan*)
(* that sells; whichever watcher broke, fell back or gave up meanwhile.    *)
(***************************************************************************)
WaitsTruthful ==
    \A w \in Waiter : wait[w].pc = "ok" =>
        /\ watchPlan.confirm[w] => launch = "confirmed"
        /\ watchPlan.trigger[w] # {} => wait[w].by \in watchPlan.trigger[w] \union {"scanEnd"}
        /\ wait[w].by = "slot" => slotNow >= Target
        /\ wait[w].by = "market" => wasHigh
        /\ wait[w].by = "scanEnd" => watchPlan.sells /\ "market" \in watchPlan.trigger[w]

(***************************************************************************)
(* When the job is cancelled every wait ends, also those whose websocket is*)
(* silent forever: the slot and the signature are looked at every 50 ms,   *)
(* and a wait for the market cap has its deadline.                         *)
(***************************************************************************)
CancelEndsWaits == \A w \in Waiter : jobIs = "cancelled" ~> ~Waits(w)

=============================================================================
