--------------------------- MODULE MCFollowReport ----------------------------
(* The instance of FollowReport with fairness that TLC checks, and that of   *)
(* FollowTrade: what the daemon writes of a job, and what it compiles for it.*)
(* They share no state; a behaviour takes the steps of one of them.          *)
EXTENDS FollowReport, FollowTrade

CONSTANTS a1, a2

VARIABLE part

MCLaunches ==
    {[launchpad |-> "pump", quote |-> "sol"], [launchpad |-> "bonk", quote |-> "sol"],
     [launchpad |-> "bonk", quote |-> "usd1"], [launchpad |-> "bagsapp", quote |-> "sol"]}

\* Which of the two begins first makes no difference.
TradesInOrder == trade[a2].state # "idle" => trade[a1].state # "idle"

\* A report that nobody writes any more, a market that nobody trades on.
ReportOver ==
    /\ version = 0 /\ lost = {} /\ failed = 0 /\ path = FALSE
    /\ file = [host |-> "final", job |-> 0] /\ host = [pc |-> "done", job |-> 0]
    /\ caller = [c \in Reporter |->
                    [pc |-> "done", snapshot |-> 0, urgent |-> TRUE, had |-> "none"]]
    /\ pending = NoPending /\ registered = "none" /\ writeLock = "free"
    /\ flush = [t \in Task |-> [pc |-> "gone", holds |-> 0, existing |-> "none", aborted |-> FALSE]]

TradingOver ==
    /\ market = [launchpad |-> "pump", quote |-> "sol", phase |-> "curve", vault |-> "creator",
                 shared |-> TRUE]
    /\ wallet = [a \in Accounts |-> Closed]
    /\ hot = [prefer \in BOOLEAN |-> Copy(prefer)]
    /\ kept = [n |-> Closed, clean |-> TRUE]
    /\ trade = [t \in Trade |-> Over("lost")] /\ moves = MaxMoves

JobInit ==
    \/ part = "report" /\ ReportInit /\ TradingOver
    \/ part = "trades" /\ ReportOver /\ TradingInit /\ TradesInOrder

JobNext ==
    /\ UNCHANGED part
    /\ \/ part = "report" /\ ReportNext /\ UNCHANGED tradingVars
       \/ part = "trades" /\ TradingNext /\ TradesInOrder' /\ UNCHANGED reportVars

JobSpec == JobInit /\ [][JobNext]_<<reportVars, tradingVars, part>> /\ ReportFairness
=============================================================================
