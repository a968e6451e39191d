---------------------------- MODULE MCFollowWaits ----------------------------
(* What the actions of the follow daemon wait for, for TLC: the watchers and *)
(* the offset worker. They share no state: in a behaviour of one the other   *)
(* is over.                                                                  *)
EXTENDS FollowWatch, OffsetWorker

WatchOver ==
    /\ watchPlan = [ws |-> FALSE, mint |-> TRUE, trigger |-> [w \in Waiter |-> {}],
                    confirm |-> [w \in Waiter |-> TRUE], sells |-> FALSE]
    /\ jobIs = "cancelled" /\ launch = "failed" /\ recorded = FALSE
    /\ slotNow = MaxSlot /\ cap = 0 /\ wasHigh = FALSE
    /\ watcher = [k \in Kind |-> [stage |-> "over", attempt |-> 0]]
    /\ told = [k \in Kind |-> Error]
    /\ wait = [w \in Waiter |-> [pc |-> "err", by |-> "none"]]

OffsetOver ==
    /\ approximate = FALSE /\ running = FALSE /\ entered = {}
    /\ height = MaxHeight /\ observed = 0
    /\ place = [c \in Consumer |-> "left"]
    /\ offWorker = [w \in Worker |-> "none"] /\ found = [w \in Worker |-> {}]

WaitsInit == (WatchInit /\ OffsetOver) \/ (WatchOver /\ OffsetInit)

WaitsNext ==
    \/ WatchNext /\ UNCHANGED offVars
    \/ OffsetNext /\ UNCHANGED watchVars

WaitsSpec == WaitsInit /\ [][WaitsNext]_<<watchVars, offVars>>
               /\ WatchFairness /\ OffsetFairness
=============================================================================
