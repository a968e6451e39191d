----------------------------- MODULE FollowJobs -----------------------------
(***************************************************************************)
(* The states of a follow job, of its actions and of its deferred setup,   *)
(* and the functions of src/rust/launchdeck-engine/src/follow.rs that map  *)
(* one state to the next. FollowStore and FollowRunner both build on them. *)
(***************************************************************************)

\* FollowJobState
ActiveJob   == {"Reserved", "Armed", "Running"}
TerminalJob == {"Completed", "CompletedWithFailures", "Cancelled", "Failed"}
JobState    == ActiveJob \union TerminalJob

\* FollowActionState, split at the states a task waits, works and rests in.
PendingAction == {"Queued", "Armed", "Eligible", "Running"}
SettledAction == {"Confirmed", "Stopped", "Failed", "Cancelled", "Expired"}
ActionState   == PendingAction \union {"Sent"} \union SettledAction

\* FollowActionKind
ActionKind == {"SniperBuy", "DevAutoSell", "SniperSell"}

\* DeferredSetupState
SetupState == {"Queued", "Running", "Sent", "Confirmed", "Failed"}

\* arm_job: the state of the job, and of each of its actions, after an arm.
ArmedJobState(s)    == IF s = "Running" THEN "Running" ELSE "Armed"
ArmedActionState(s) == IF s = "Queued" THEN "Armed" ELSE s

\* cancel_job and cancel_all_jobs leave these actions as they are; every
\* other one, Sent and Expired included, becomes Cancelled.
KeptByCancel            == {"Confirmed", "Stopped", "Failed", "Cancelled"}
CancelledActionState(s) == IF s \in KeptByCancel THEN s ELSE "Cancelled"

(***************************************************************************)
(* The state run_job gives a job once all its tasks have been joined.      *)
(* failed and confirmed say whether some action, or the deferred setup,    *)
(* ended that way; taskError whether a task returned an error.             *)
(***************************************************************************)
FinalJobState(cancelled, failed, confirmed, taskError) ==
    CASE cancelled                               -> "Cancelled"
      [] ~cancelled /\ failed /\ confirmed       -> "CompletedWithFailures"
      [] ~cancelled /\ failed /\ ~confirmed      -> "Failed"
      [] ~cancelled /\ ~failed /\ taskError      -> "Failed"
      [] ~cancelled /\ ~failed /\ ~taskError     -> "Completed"

=============================================================================
