-------------------------------- MODULE Warm ---------------------------------
(***************************************************************************)
(* How the main host keeps its connections warm, src/rust/launchdeck-      *)
(* engine/src/main.rs and warm_manager.rs. A loop probes the endpoints of  *)
(* the effective routes; a request of the browser that changes the routes, *)
(* or that comes back after the suspension, runs a pass of its own; another*)
(* task copies the follow jobs of the daemon. They share WarmControlState  *)
(* behind a mutex that no one holds across an await. A request whose client*)
(* goes away is dropped at its next await: a pass it was running leaves its*)
(* in-flight flag behind, until another pass finds the flag stale.         *)
(*                                                                         *)
(* The clock is abstract: activity and success are "recent" within the idle*)
(* timeout and RECENT_WARM_SUCCESS_REUSE_MS, attempt is "fresh" within the *)
(* pass timeout. A pass ends sooner than that, as a probe and its fallback *)
(* take 5 s each at most and the pass timeout is 120 s.                    *)
(***************************************************************************)
EXTENDS Naturals, Sequences, SequencesExt

CONSTANTS
    Route,        \* provider, endpoint profile and Hello Moon mode, normalised
    DefaultRoute, \* the one route warmed when the preset has none: helius-sender
    Target,       \* rows of the telemetry
    StateTargets, \* those of the RPC endpoints and of the fee market
    EndpointOf,   \* [Route -> its endpoint and watch targets]
    FallbackOf,   \* [Route -> the plain websocket behind a Helius subscription]
    Presets,      \* the three legs of the active preset, as settings store them
    Client,       \* requests of the browser
    Forms,        \* the routes a request names
    JobRoutes,    \* the sets of routes the follow jobs may have
    IdleSuspend,  \* LAUNCHDECK_ENABLE_IDLE_WARM_SUSPEND
    MaxChanges    \* bound: changes of the daemon's jobs and of the settings

ASSUME WarmAssumption ==
    /\ DefaultRoute \in Route /\ StateTargets \subseteq Target /\ IdleSuspend \in BOOLEAN
    /\ EndpointOf \in [Route -> SUBSET Target] /\ FallbackOf \in [Route -> SUBSET Target]
    /\ MaxChanges \in Nat

Loop == "loop"

VARIABLES
    warm,    \* WarmControlState without the stamps that are only shown
    active,  \* the targets shown as active in warm_targets
    pass,    \* what the loop and each request are doing
    refresh, \* the answer the follow-job task is about to copy
    preset,  \* the routes of the persistent configuration's active preset
    daemon,  \* the follow daemon: reachable, and the routes of its armed jobs
    changes,
    due      \* effective routes no pass has attempted since they became so

warmVars == <<warm, active, pass, refresh, preset, daemon, changes, due>>

-------------------------------------------------------------------------------
(* Routes.                                                                 *)

InSeq(s) == {s[i] : i \in DOMAIN s}

PushUnique(routes, r) ==
    IF r \notin Route \/ r \in InSeq(routes) THEN routes ELSE Append(routes, r)

RoutesOf(legs) == FoldLeft(PushUnique, <<>>, legs)

ActiveRoutes == {IF RoutesOf(p) = <<>> THEN <<DefaultRoute>> ELSE RoutesOf(p) : p \in Presets}

NamedRoutes == {RoutesOf(f) : f \in Forms}

Effective(w, p) == InSeq(p) \union InSeq(w.selected) \union w.jobRoutes

(* due after a step to w and p: what became effective joins it, what is no *)
(* longer effective leaves it.                                             *)
Owed(w, p) == (due \intersect Effective(w, p)) \union (Effective(w, p) \ Effective(warm, preset))

-------------------------------------------------------------------------------
(* Gates.                                                                  *)

Gate(w, jobs) == w.inFlight > 0 \/ jobs \/ ~IdleSuspend \/ w.activity = "recent"

\* What the tasks that refresh the fee market and the blockhash ask.
BackgroundGate == Gate(warm, warm.jobsActive)

\* A mutant of the next.
KeptActive == active

\* set_all_warm_targets_inactive
AllInactive == {}

\* Rows are kept an hour, those of the last attempt for ever.
NeedResume == warm.attempted /\ active = {}

SucceededRecently(w) == ~w.failed /\ w.success = "recent"

-------------------------------------------------------------------------------
(* A request names its routes.                                             *)

ShouldRewarm(w, routes) ==
    \/ routes # <<>> /\ routes # w.selected
    \/ ~Gate(w, FALSE) /\ (NeedResume \/ ~SucceededRecently(w))

Marked(w, routes) ==
    [w EXCEPT !.activity = "recent",
              !.continuous = @ \/ ShouldRewarm(w, routes),
              !.selected = IF routes = <<>> THEN @ ELSE routes]

Entered(w) == [w EXCEPT !.inFlight = @ + 1, !.activity = "recent"]

\* The guard of a request is dropped with it.
Left(w, c) == IF pass[c].guard THEN [w EXCEPT !.inFlight = @ - 1] ELSE w

Rest(p) == IF p = Loop THEN "sleep" ELSE "done"
At(p, pc) == [pass EXCEPT ![p].pc = pc]

Became(w) == warm' = w /\ due' = Owed(w, preset)

(* POST /api/warm/activity                                                 *)
Activity(c) ==
    /\ pass[c].pc = "idle"
    /\ \E routes \in NamedRoutes :
        /\ Became(Marked(warm, routes))
        /\ pass' = At(c, IF ShouldRewarm(warm, routes) THEN "count" ELSE "done")
    /\ UNCHANGED <<active, refresh, preset, daemon, changes>>

(* POST /api/run: the guard counts the request until its handler is over.  *)
RunBegins(c) ==
    /\ pass[c].pc = "idle"
    /\ Became(Entered(warm))
    /\ pass' = [pass EXCEPT ![c].pc = "run", ![c].guard = TRUE]
    /\ UNCHANGED <<active, refresh, preset, daemon, changes>>

\* An error answers before the routes are marked.
RunEnds(c) ==
    /\ pass[c].pc = "run"
    /\ \/ /\ Became(Left(warm, c)) /\ pass' = [At(c, "done") EXCEPT ![c].guard = FALSE]
       \/ \E routes \in NamedRoutes \ {<<>>} :
            IF ShouldRewarm(warm, routes)
            THEN /\ Became(Marked(warm, routes)) /\ pass' = At(c, "count")
            ELSE /\ Became(Left(Marked(warm, routes), c))
                 /\ pass' = [At(c, "done") EXCEPT ![c].guard = FALSE]
    /\ UNCHANGED <<active, refresh, preset, daemon, changes>>

-------------------------------------------------------------------------------
(* One pass, of the loop or of a request.                                  *)

Wake ==
    /\ pass[Loop].pc = "sleep"
    /\ pass' = At(Loop, "count")
    /\ UNCHANGED <<warm, active, refresh, preset, daemon, changes, due>>

\* The daemon is asked first; when it does not answer there are no jobs.
Count(p) ==
    /\ pass[p].pc = "count"
    /\ pass' = [pass EXCEPT ![p].pc = "claim", ![p].jobs = daemon.up /\ daemon.routes # {}]
    /\ UNCHANGED <<warm, active, refresh, preset, daemon, changes, due>>

\* A mutant of the next.
NeverStale == FALSE

StaleInFlight == warm.passing /\ warm.attempt = "old"

(* Under the lock: the gate, and the flag of the pass.                     *)
Claim(p) ==
    LET jobs == pass[p].jobs
        seen == [warm EXCEPT !.jobsActive = jobs, !.continuous = Gate(warm, jobs)]
        over == /\ pass' = [At(p, Rest(p)) EXCEPT ![p].guard = FALSE]
                /\ UNCHANGED <<refresh, preset, daemon, changes>>
    IN
    /\ pass[p].pc = "claim"
    /\ \/ /\ ~Gate(warm, jobs)
          /\ Became(Left(seen, p)) /\ active' = AllInactive /\ over
       \/ /\ Gate(warm, jobs) /\ warm.passing /\ ~StaleInFlight
          /\ Became(Left(seen, p)) /\ active' = active /\ over
       \/ /\ Gate(warm, jobs) /\ (~warm.passing \/ StaleInFlight)
          /\ Became([seen EXCEPT !.passing = TRUE, !.attempt = "fresh",
                                 !.failed = @ \/ StaleInFlight])
          /\ pass' = [At(p, "probe") EXCEPT ![p].routes = Effective(warm, preset)]
          /\ UNCHANGED <<active, refresh, preset, daemon, changes>>

\* A Helius subscription that does not answer is tried again as a plain one, in
\* a row of its own.
FallenBack(routes, fell) == IF fell THEN UNION {FallbackOf[r] : r \in routes} ELSE {}

Endpoints(routes, fell) == UNION {EndpointOf[r] : r \in routes} \union FallenBack(routes, fell)

(* The rows of an attempt are active and no others.                        *)
Applied(routes) == \E fell \in BOOLEAN : active' = StateTargets \union Endpoints(routes, fell)

(* The probes are over, each answered, refused, limited or timed out: some *)
(* succeeded, or else there is an error, the state targets having no limit.*)
Finish(p) ==
    /\ pass[p].pc = "probe"
    /\ Applied(pass[p].routes)
    /\ \E success \in BOOLEAN :
        warm' = Left([warm EXCEPT !.passing = FALSE, !.attempted = TRUE, !.failed = ~success,
                                  !.success = IF success THEN "recent" ELSE @], p)
    /\ due' = due \ pass[p].routes
    /\ pass' = [At(p, Rest(p)) EXCEPT ![p].guard = FALSE, ![p].routes = {}]
    /\ UNCHANGED <<refresh, preset, daemon, changes>>

(* The pass of the loop has a timeout, which only the daemon's answer can  *)
(* exhaust: the flag it resets may be another pass's.                      *)
LoopTimesOut ==
    /\ pass[Loop].pc = "count"
    /\ Became([warm EXCEPT !.passing = FALSE, !.failed = TRUE])
    /\ active' = IF warm.continuous THEN AllInactive ELSE active
    /\ pass' = At(Loop, "sleep")
    /\ UNCHANGED <<refresh, preset, daemon, changes>>

(* POST /api/startup-warm: probes outside the passes and their flag.       *)
Startup(c) ==
    /\ pass[c].pc = "idle"
    /\ \E named \in NamedRoutes :
        LET routes == IF named = <<>> THEN preset ELSE named IN
        /\ Became([warm EXCEPT !.selected = routes])
        /\ pass' = [At(c, "startup") EXCEPT ![c].routes = InSeq(routes)]
    /\ UNCHANGED <<active, refresh, preset, daemon, changes>>

StartupEnds(c) ==
    /\ pass[c].pc = "startup"
    /\ Applied(pass[c].routes)
    /\ \/ warm' = [warm EXCEPT !.attempt = "fresh", !.success = "recent", !.failed = FALSE,
                               !.activity = "recent", !.continuous = TRUE, !.attempted = TRUE]
       \/ warm' = [warm EXCEPT !.attempt = "fresh", !.failed = TRUE, !.attempted = TRUE]
    /\ due' = due \ pass[c].routes
    /\ pass' = [At(c, "done") EXCEPT ![c].routes = {}]
    /\ UNCHANGED <<refresh, preset, daemon, changes>>

(* The client of a request went away: its handler is dropped at an await.  *)
Dropped(c) ==
    /\ pass[c].pc \in {"run", "count", "claim", "probe", "startup"}
    /\ Became(Left(warm, c))
    /\ pass' = [At(c, "done") EXCEPT ![c].guard = FALSE, ![c].routes = {}]
    /\ UNCHANGED <<active, refresh, preset, daemon, changes>>

-------------------------------------------------------------------------------
(* The task that copies the follow jobs every 5 s.                         *)

NoAnswer == [here |-> FALSE, routes |-> {}]

ReadJobs ==
    /\ ~refresh.here
    /\ refresh' = [here |-> TRUE, routes |-> IF daemon.up THEN daemon.routes ELSE {}]
    /\ UNCHANGED <<warm, active, pass, preset, daemon, changes, due>>

CopyJobs ==
    /\ refresh.here
    /\ Became([warm EXCEPT !.jobsActive = refresh.routes # {}, !.jobRoutes = refresh.routes])
    /\ refresh' = NoAnswer
    /\ UNCHANGED <<active, pass, preset, daemon, changes>>

-------------------------------------------------------------------------------
(* The settings, the daemon and the time.                                  *)

SaveSettings ==
    /\ changes < MaxChanges
    /\ \E p \in ActiveRoutes \ {preset} : preset' = p /\ due' = Owed(warm, p)
    /\ changes' = changes + 1
    /\ UNCHANGED <<warm, active, pass, refresh, daemon>>

DaemonChanges ==
    /\ changes < MaxChanges
    /\ \E up \in BOOLEAN, routes \in JobRoutes : daemon' = [up |-> up, routes |-> routes]
    /\ daemon' # daemon
    /\ changes' = changes + 1
    /\ UNCHANGED <<warm, active, pass, refresh, preset, due>>

AgeActivity ==
    /\ warm.activity = "recent"
    /\ warm' = [warm EXCEPT !.activity = "old"]
    /\ UNCHANGED <<active, pass, refresh, preset, daemon, changes, due>>

AgeSuccess ==
    /\ warm.success = "recent"
    /\ warm' = [warm EXCEPT !.success = "old"]
    /\ UNCHANGED <<active, pass, refresh, preset, daemon, changes, due>>

AgeAttempt ==
    /\ warm.attempt = "fresh"
    /\ \A p \in DOMAIN pass : pass[p].pc # "probe"
    /\ warm' = [warm EXCEPT !.attempt = "old"]
    /\ UNCHANGED <<active, pass, refresh, preset, daemon, changes, due>>

-------------------------------------------------------------------------------
WarmInit ==
    /\ preset \in ActiveRoutes
    /\ warm = [selected |-> preset, jobRoutes |-> {}, jobsActive |-> FALSE,
               inFlight |-> 0, activity |-> "never", success |-> "never", failed |-> FALSE,
               continuous |-> FALSE, passing |-> FALSE, attempt |-> "never",
               attempted |-> FALSE]
    /\ active = {}
    /\ pass = [p \in Client \union {Loop} |->
                  [pc |-> IF p = Loop THEN "count" ELSE "idle", jobs |-> FALSE,
                   routes |-> {}, guard |-> FALSE]]
    /\ refresh = NoAnswer
    /\ daemon = [up |-> TRUE, routes |-> {}]
    /\ changes = 0
    /\ due = InSeq(preset)

WarmNext ==
    \/ \E c \in Client : \/ Activity(c) \/ RunBegins(c) \/ RunEnds(c) \/ Startup(c)
                         \/ StartupEnds(c) \/ Dropped(c)
    \/ \E p \in Client \union {Loop} : Count(p) \/ Claim(p) \/ Finish(p)
    \/ Wake \/ LoopTimesOut \/ ReadJobs \/ CopyJobs
    \/ SaveSettings \/ DaemonChanges \/ AgeActivity \/ AgeSuccess \/ AgeAttempt

LoopStep == Wake \/ Count(Loop) \/ Claim(Loop) \/ Finish(Loop)
CopyStep == ReadJobs \/ CopyJobs
ClientStep(c) == RunEnds(c) \/ Count(c) \/ Claim(c) \/ Finish(c) \/ StartupEnds(c)

(* The loop and the copying task run for ever and every await of theirs    *)
(* ends, with an answer of the daemon or its refusal before the timeout    *)
(* of the pass again and again; so do the awaits of a request: the probes  *)
(* have a timeout each, and a launch ends. Time passes.                    *)
WarmFairness ==
    /\ WF_warmVars(LoopStep) /\ SF_warmVars(Count(Loop)) /\ WF_warmVars(CopyStep)
    /\ WF_warmVars(AgeAttempt)
    /\ \A c \in Client : WF_warmVars(ClientStep(c))

WarmSpec == WarmInit /\ [][WarmNext]_warmVars /\ WarmFairness

-------------------------------------------------------------------------------
\* The gate as a pass finds it that counts the jobs now.
Open == Gate(warm, daemon.up /\ daemon.routes # {})

(* While the host is in use, a route that becomes effective, by a request, *)
(* by the settings or by a follow job, is probed: also when the pass it    *)
(* asked for found another in flight, and when that one's client is gone   *)
(* and its flag stays set (execute_continuous_warm_pass).                  *)
RoutesProbed == \A r \in Route : (r \in due) ~> (r \notin due \/ ~Open)

(* Once nobody uses the host, it stops for good: no target is left active, *)
(* no pass runs, and the gate of the background requests is closed.        *)
WarmStops ==
    <>[]~Open => <>[](/\ ~BackgroundGate
                      /\ active = {}
                      /\ \A p \in DOMAIN pass : pass[p].pc # "probe")

(* docs/CONFIG.md says that changed routes are rewarmed at once. They are  *)
(* not while another pass is in flight: the request returns and the routes *)
(* wait for the next pass of the loop.                                     *)
RewarmedAtOnce ==
    [][\A c \in Client :
          Claim(c) /\ Gate(warm, pass[c].jobs) /\ pass'[c].pc = "done" => due' = {}]_warmVars
==============================================================================
