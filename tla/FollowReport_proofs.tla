------------------------ MODULE FollowReport_proofs -------------------------
(***************************************************************************)
(* What the follow daemon tells and believes, proved.  The report of a     *)
(* launch never goes back to an older state of its job but in the ways     *)
(* NeverBack names, for any number of callers, flush tasks and other jobs. *)
(* And an action of a follow job is let go only by what it waits for, for  *)
(* every number of actions, attempts of a watcher and slots, whatever      *)
(* sessions break on the way: the inductive invariant of FollowWatch says  *)
(* what a value in a watch channel means, that it was true of the cluster  *)
(* when it was published and can be relied on still.                       *)
(***************************************************************************)
EXTENDS FollowReport, FollowWatch, FiniteSetTheorems, TLAPS


-----------------------------------------------------------------------------
(* The inductive invariant                                                 *)

\* Every caller has changed the job once: this bounds the versions.
Started == {c \in Reporter : caller[c].pc # "idle"}
CountInv == version = Cardinality(Started)

\* Before the daemon knows the report nothing is taken of the job for it, and
\* before the job is armed the report has nothing of it.
PathInv ==
    /\ host.pc \in {"sending", "sent"} =>
         ~path /\ host.job = 0 /\ file.job = 0 /\ caller[Arming].pc = "idle"
    /\ ~path => /\ \A c \in Reporter : caller[c].pc \in {"idle", "armed", "done"}
                /\ pending = NoPending
                /\ \A t \in Task : flush[t].pc = "new"

LockInv == \A t \in Task : flush[t].pc \in {"read", "write"} => writeLock = t

Holding(t) == flush[t].pc \in {"lock", "read"}

\* A version that the host had, or that a caller has queued or a later one.
Queued(c) == caller[c].pc \notin {"idle", "armed", "read"}
Known(v) == v <= host.job \/ \E c \in Reporter : Queued(c) /\ v <= caller[c].snapshot

\* Nothing on its way to the report is older than what the host has, and what
\* is pending is not older than anything that was taken before it.
NewerInv ==
    /\ path => host.job <= version
    /\ \A c \in Reporter : caller[c].pc = "read" => host.job <= caller[c].snapshot
    /\ \A t \in Task : Holding(t) => host.job <= flush[t].holds
    /\ Known(file.job)
    /\ \A t \in Task : Holding(t) => Known(flush[t].holds)
    /\ pending # NoPending =>
         /\ host.job <= pending.v /\ file.job <= pending.v
         /\ Known(pending.v)
         /\ \A t \in Task : Holding(t) => flush[t].holds <= pending.v

\* A task that was not aborted has nothing older than the report, and will
\* have nothing older than what the reader of now is about to write.
OrderInv ==
    \A t \in Task : Holding(t) /\ ~flush[t].aborted =>
        /\ file.job <= flush[t].holds
        /\ \A u \in Task : flush[t].pc = "lock" /\ flush[u].pc = "read"
                             => flush[u].holds <= flush[t].holds

Ways == {"late", "overtaken", "older", "host"}
Clean == Ways \intersect lost = {}

BaseInv == ReportTypeOK /\ CountInv /\ PathInv /\ LockInv

ReportInv ==
    /\ BaseInv
    /\ Clean => NewerInv /\ OrderInv

-----------------------------------------------------------------------------
(* Types and what goes with them                                           *)

CallerSet == [pc: {"idle", "armed", "read", "queued", "taken", "spawn", "done"},
              snapshot: Version, urgent: BOOLEAN, had: Task \union {"none"}]

FlushSet == [pc: {"new", "look", "sleep", "take", "lock", "read", "write", "leave", "gone"},
             holds: Version, existing: HostPart, aborted: BOOLEAN]

\* The types of what the callers and the tasks have.
Typed ==
    /\ caller \in [Reporter -> CallerSet]
    /\ flush \in [Task -> FlushSet]
    /\ pending \in [v: Version, delayed: BOOLEAN]
    /\ registered \in Task \union {"none"}
    /\ writeLock \in Task \union {"free", "other"}
    /\ file \in [host: HostPart, job: Version]
    /\ host \in [pc: {"sending", "sent", "finish", "done"}, job: Version]
    /\ path \in BOOLEAN
    /\ lost \subseteq {"older", "aborted", "late", "overtaken", "gap", "host"}
    /\ failed \in Version

\* The type invariant, taken apart for one table at a time.
LEMMA TypedIs == ReportTypeOK <=> version \in Version /\ Typed
BY DEF ReportTypeOK, Typed, CallerSet, FlushSet

\* And put together again.
LEMMA TypedNext ==
    ASSUME Typed', version' \in Version
    PROVE  ReportTypeOK'
BY DEF ReportTypeOK, Typed, CallerSet, FlushSet

\* One record of a typed table is replaced.
LEMMA CallerTyped ==
    ASSUME Typed, NEW c \in Reporter, NEW r \in CallerSet, caller' = [caller EXCEPT ![c] = r]
    PROVE  /\ caller' \in [Reporter -> CallerSet]
           /\ caller'[c] = r /\ \A d \in Reporter : d # c => caller'[d] = caller[d]
BY DEF Typed

\* Versions are compared as numbers.
LEMMA VersionIsNat == Version \subseteq Nat /\ 0 \in Version
BY ReportAssumption, FS_CardinalityType DEF Version

\* A count of callers is a version.
LEMMA CountIsVersion ==
    ASSUME NEW S \in SUBSET Reporter
    PROVE  IsFiniteSet(S) /\ Cardinality(S) \in Version
<1>1. IsFiniteSet(S) /\ Cardinality(S) <= Cardinality(Reporter)
  BY ReportAssumption, FS_Subset
<1> QED BY <1>1, ReportAssumption, FS_CardinalityType DEF Version

\* The versions are still counted when nobody starts or all who started go on.
LEMMA CountKept ==
    ASSUME CountInv, version' = version,
           \A c \in Reporter : caller'[c].pc = "idle" <=> caller[c].pc = "idle"
    PROVE  CountInv' /\ version' \in Version
<1>1. Started' = Started
  BY DEF Started
<1>2. Cardinality(Started) \in Version
  BY CountIsVersion DEF Started
<1> QED BY <1>1, <1>2 DEF CountInv

\* One more caller starts, one more version.
LEMMA CountGrows ==
    ASSUME CountInv, NEW c \in Reporter, caller[c].pc = "idle", caller'[c].pc # "idle",
           version' = version + 1,
           \A d \in Reporter : d # c => caller'[d].pc = caller[d].pc
    PROVE  CountInv' /\ version' \in Version
<1>1. Started' = Started \union {c} /\ c \notin Started
  BY DEF Started
<1>2. Started \subseteq Reporter /\ Started' \subseteq Reporter
  BY DEF Started
<1>3. IsFiniteSet(Started) /\ Cardinality(Started') \in Version
  BY <1>2, CountIsVersion
<1>4. Cardinality(Started \union {c}) = Cardinality(Started) + 1
  BY <1>1, <1>3, FS_AddElement
<1> QED BY <1>1, <1>3, <1>4 DEF CountInv

\* Nothing is pending, held or written.
LEMMA ReportInitInv == ReportInit => ReportInv
<1> SUFFICES ASSUME ReportInit PROVE ReportInv
  OBVIOUS
<1>1. Started = {}
  BY DEF ReportInit, Started
<1>2. CountInv
  BY <1>1, FS_EmptySet DEF CountInv, ReportInit
<1>3. Typed
  <2>1. [pc: {"idle"}, snapshot: {0}, urgent: BOOLEAN, had: {"none"}] \subseteq CallerSet
    BY VersionIsNat DEF CallerSet
  <2>2. caller \in [Reporter -> CallerSet]
    BY <2>1 DEF ReportInit
  <2>3. [pc |-> "new", holds |-> 0, existing |-> "none", aborted |-> FALSE] \in FlushSet
    BY VersionIsNat DEF FlushSet, HostPart
  <2>4. flush \in [Task -> FlushSet]
    BY <2>3 DEF ReportInit
  <2>5. /\ pending \in [v: Version, delayed: BOOLEAN] /\ file \in [host: HostPart, job: Version]
        /\ host \in [pc: {"sending", "sent", "finish", "done"}, job: Version]
    BY VersionIsNat DEF ReportInit, NoPending, HostPart
  <2> QED BY <2>2, <2>4, <2>5 DEF ReportInit, Typed
<1>4. PathInv /\ LockInv
  BY ReportAssumption DEF ReportInit, PathInv, LockInv
<1>5. NewerInv /\ OrderInv
  BY DEF ReportInit, NewerInv, OrderInv, Holding, Known, NoPending
<1> QED BY <1>2, <1>3, <1>4, <1>5, TypedIs, VersionIsNat DEF ReportInv, BaseInv, ReportInit

\* A caller that goes on, once the daemon knows the report.
LEMMA CallerBase ==
    ASSUME BaseInv, NEW c \in Reporter, Queue(c) \/ Unregister(c) \/ Abort(c) \/ SpawnFlush(c)
    PROVE  BaseInv'
<1>t. /\ version \in Version /\ Typed /\ CountInv /\ PathInv /\ LockInv
  BY TypedIs DEF BaseInv
<1>p. path
  BY <1>t DEF PathInv, Queue, Unregister, Abort, SpawnFlush
<1>c. /\ caller' \in [Reporter -> CallerSet]
      /\ \A d \in Reporter : caller'[d].pc = "idle" <=> caller[d].pc = "idle"
  <2> DEFINE r == caller[c]
  <2>0. r \in CallerSet /\ r.pc \in {"read", "queued", "taken", "spawn"}
    BY <1>t DEF Typed, Queue, Unregister, Abort, SpawnFlush
  <2>1. PICK q \in CallerSet : q.pc # "idle" /\ caller' = [caller EXCEPT ![c] = q]
    <3>1. CASE Queue(c)
      <4>1. PICK p \in {"queued", "spawn"} : caller' = [caller EXCEPT ![c].pc = p]
        BY <3>1 DEF Queue
      <4> DEFINE q == [r EXCEPT !.pc = p]
      <4>2. q \in CallerSet /\ q.pc # "idle"
        BY <2>0 DEF CallerSet
      <4> QED BY <4>1, <4>2
    <3>2. CASE Unregister(c)
      <4> DEFINE q == [r EXCEPT !.pc = "taken", !.had = registered]
      <4>2. q \in CallerSet /\ q.pc # "idle"
        BY <2>0, <1>t DEF CallerSet, Typed
      <4> QED BY <3>2, <4>2 DEF Unregister
    <3>3. CASE Abort(c)
      <4> DEFINE q == [r EXCEPT !.pc = "spawn", !.had = "none"]
      <4>2. q \in CallerSet /\ q.pc # "idle"
        BY <2>0 DEF CallerSet
      <4> QED BY <3>3, <4>2 DEF Abort
    <3>4. CASE SpawnFlush(c)
      <4> DEFINE q == [r EXCEPT !.pc = "done"]
      <4>2. q \in CallerSet /\ q.pc # "idle"
        BY <2>0 DEF CallerSet
      <4> QED BY <3>4, <4>2 DEF SpawnFlush
    <3> QED BY <3>1, <3>2, <3>3, <3>4
  <2> QED BY <2>0, <2>1, <1>t, CallerTyped
<1>f. /\ flush' \in [Task -> FlushSet]
      /\ \A t \in Task : flush'[t].pc \in {"read", "write"} => flush[t].pc \in {"read", "write"}
  <2> DEFINE Good(f) == /\ f \in [Task -> FlushSet]
                        /\ \A t \in Task : f[t].pc \in {"read", "write"}
                                             => flush[t].pc \in {"read", "write"}
  <2>1. Good(flush)
    BY <1>t DEF Typed
  <2>2. ASSUME NEW t \in Task PROVE Good([flush EXCEPT ![t] = Ended])
    BY <1>t, VersionIsNat DEF Typed, FlushSet, Ended, HostPart
  <2>3. ASSUME NEW t \in Task PROVE Good([flush EXCEPT ![t].aborted = TRUE])
    <3>1. flush[t] \in FlushSet
      BY <1>t DEF Typed
    <3>2. [flush[t] EXCEPT !.aborted = TRUE] \in FlushSet
      BY <3>1 DEF FlushSet
    <3> QED BY <3>1, <3>2, <1>t DEF Typed, FlushSet
  <2>4. ASSUME NEW t \in Task PROVE Good([flush EXCEPT ![t].pc = "look"])
    BY <1>t DEF Typed, FlushSet
  <2>5. CASE Queue(c) \/ Unregister(c)
    BY <2>1, <2>5 DEF Queue, Unregister
  <2>6. CASE Abort(c)
    <3>1. \/ flush' = flush
          \/ \E t \in Task : flush' = [flush EXCEPT ![t] = Ended]
          \/ \E t \in Task : flush' = [flush EXCEPT ![t].aborted = TRUE]
      BY <2>6, <1>t DEF Abort, Typed, CallerSet
    <3> QED BY <2>1, <2>2, <2>3, <3>1
  <2>7. CASE SpawnFlush(c)
    <3>1. flush' = flush \/ \E t \in Task : flush' = [flush EXCEPT ![t].pc = "look"]
      BY <2>7 DEF SpawnFlush
    <3> QED BY <2>1, <2>4, <3>1
  <2> QED BY <2>5, <2>6, <2>7
<1>k. CountInv' /\ version' \in Version
  BY <1>c, <1>t, CountKept DEF Queue, Unregister, Abort, SpawnFlush
<1>h. PathInv' /\ UNCHANGED <<file, host, path, writeLock>>
  BY <1>t, <1>p, <1>c DEF Queue, Unregister, Abort, SpawnFlush, PathInv, hostVars
<1>l. LockInv'
  BY <1>t, <1>f, <1>h DEF LockInv
<1>o. Typed'
  <2>1. pending' \in [v: Version, delayed: BOOLEAN]
    <3>1. CASE Queue(c)
      <4>1. caller[c].snapshot \in Version
        BY <1>t DEF Typed, CallerSet
      <4>2. pending' = [v |-> caller[c].snapshot, delayed |-> ~caller[c].urgent]
        BY <3>1 DEF Queue
      <4> QED BY <4>1, <4>2
    <3>2. CASE Unregister(c) \/ Abort(c) \/ SpawnFlush(c)
      BY <1>t, <3>2 DEF Unregister, Abort, SpawnFlush, Typed
    <3> QED BY <3>1, <3>2
  <2>2. registered' \in Task \union {"none"}
    BY <1>t DEF Queue, Unregister, Abort, SpawnFlush, Typed
  <2>3. lost' \in {lost, lost \union {"older"}, lost \union {"aborted"}, lost \union {"gap"}}
    BY DEF Queue, Unregister, Abort, SpawnFlush
  <2>4. failed' = failed
    BY DEF Queue, Unregister, Abort, SpawnFlush
  <2> QED BY <1>t, <1>c, <1>f, <1>h, <2>1, <2>2, <2>3, <2>4 DEF Typed
<1> QED BY <1>k, <1>h, <1>l, <1>o, TypedNext DEF BaseInv

\* A snapshot is taken, with a new version or the one of the arm.
LEMMA SnapshotBase ==
    ASSUME BaseInv, NEW c \in Reporter, Snapshot(c)
    PROVE  BaseInv'
<1>t. /\ version \in Version /\ Typed /\ CountInv /\ PathInv /\ LockInv
  BY TypedIs DEF BaseInv
<1>1. /\ caller'[c].pc = (IF path THEN "read" ELSE "done")
      /\ caller'[c].pc # "idle" /\ caller[c].pc \in {"idle", "armed"}
      /\ \A d \in Reporter : d # c => caller'[d] = caller[d]
  BY <1>t DEF Snapshot, Typed, CallerSet
<1>2. CountInv' /\ version' \in Version
  <2>1. CASE caller[c].pc = "idle"
    <3>1. version' = version + 1
      BY <2>1 DEF Snapshot
    <3> QED BY <2>1, <3>1, <1>1, <1>t, CountGrows
  <2>2. CASE caller[c].pc # "idle"
    <3>1. version' = version
      BY <2>2 DEF Snapshot
    <3> QED BY <2>2, <3>1, <1>1, <1>t, CountKept
  <2> QED BY <2>1, <2>2
<1>3. Typed'
  <2>1. caller' \in [Reporter -> CallerSet]
    <3> DEFINE r == caller[c]
    <3>0. r \in CallerSet /\ r.snapshot \in Version
      BY <1>t DEF Typed, CallerSet
    <3>1. CASE path
      <4> DEFINE q == [r EXCEPT !.pc = "read", !.snapshot = version']
      <4>1. q \in CallerSet
        BY <3>0, <1>2 DEF CallerSet
      <4>2. caller' = [caller EXCEPT ![c] = q]
        BY <3>1, <1>t DEF Snapshot, Typed
      <4> QED BY <4>1, <4>2, <1>t, CallerTyped
    <3>2. CASE ~path
      <4> DEFINE q == [r EXCEPT !.pc = "done", !.snapshot = r.snapshot]
      <4>1. q \in CallerSet
        BY <3>0 DEF CallerSet
      <4>2. caller' = [caller EXCEPT ![c] = q]
        BY <3>2, <1>t DEF Snapshot, Typed
      <4> QED BY <4>1, <4>2, <1>t, CallerTyped
    <3> QED BY <3>1, <3>2
  <2> QED BY <2>1, <1>t DEF Snapshot, Typed, hostVars
<1>4. PathInv'
  <2>1. caller[Arming].pc = "idle" => c # Arming
    BY DEF Snapshot
  <2> QED BY <2>1, <1>1, <1>t, ReportAssumption DEF Snapshot, PathInv, hostVars
<1>5. LockInv'
  BY <1>t DEF Snapshot, LockInv
<1> QED BY <1>2, <1>3, <1>4, <1>5, TypedNext DEF BaseInv

\* The steps of a flush task.
LEMMA FlushBase ==
    ASSUME BaseInv, NEW t \in Task, FlushStep(t) \/ Dies(t)
    PROVE  BaseInv'
<1>t. /\ version \in Version /\ Typed /\ CountInv /\ PathInv /\ LockInv
  BY TypedIs DEF BaseInv
<1>p. path
  BY <1>t DEF PathInv, FlushStep, LookPending, TakePending, ReadReport, WriteReport, WriteFails, LookAgain,
              Leave, Dies, Alive
<1>k. CountInv' /\ version' \in Version
  BY <1>t, CountKept
     DEF FlushStep, LookPending, TakePending, ReadReport, WriteReport, WriteFails, LookAgain, Leave, Dies
<1>h. PathInv' /\ UNCHANGED <<caller, hostVars>>
  BY <1>t, <1>p
     DEF FlushStep, LookPending, TakePending, ReadReport, WriteReport, WriteFails, LookAgain, Leave, Dies,
         PathInv, hostVars
<1>f. /\ flush' \in [Task -> FlushSet]
      /\ \A u \in Task : u # t => flush'[u] = flush[u]
  <2>1. PICK r \in FlushSet : flush' = [flush EXCEPT ![t] = r]
    <3> DEFINE f == flush[t]
    <3>0. /\ f \in FlushSet /\ file.host \in HostPart /\ pending.v \in Version
          /\ 0 \in Version /\ "none" \in HostPart
      BY <1>t, VersionIsNat DEF Typed, HostPart
    <3> USE <3>0 DEF FlushSet
    <3>1. CASE LookPending(t)
      <4>1. PICK p \in {"leave", "sleep", "take"} : flush' = [flush EXCEPT ![t].pc = p]
        BY <3>1 DEF LookPending, FlushGoes
      <4> WITNESS [f EXCEPT !.pc = p] \in FlushSet
      <4> QED BY <4>1, <1>t DEF Typed
    <3>2. CASE TakePending(t)
      <4>1. PICK p \in {"leave", "lock"} :
              flush' = [flush EXCEPT ![t].pc = p, ![t].holds = pending.v]
        BY <3>2 DEF TakePending
      <4> WITNESS [f EXCEPT !.pc = p, !.holds = pending.v] \in FlushSet
      <4> QED BY <4>1, <1>t DEF Typed
    <3>3. CASE ReadReport(t)
      <4> WITNESS [f EXCEPT !.pc = "read", !.existing = file.host] \in FlushSet
      <4> QED BY <3>3, <1>t DEF Typed, ReadReport
    <3>4. CASE WriteReport(t)
      <4> WITNESS [f EXCEPT !.pc = "write", !.holds = 0, !.existing = "none"] \in FlushSet
      <4> QED BY <3>4, <1>t DEF Typed, WriteReport
    <3>7. CASE WriteFails(t)
      <4> WITNESS [f EXCEPT !.pc = "write", !.holds = 0, !.existing = "none"] \in FlushSet
      <4> QED BY <3>7, <1>t DEF Typed, WriteFails
    <3>5. CASE LookAgain(t)
      <4>1. PICK p \in {"leave", "look"} : flush' = [flush EXCEPT ![t].pc = p]
        BY <3>5 DEF LookAgain, FlushGoes
      <4> WITNESS [f EXCEPT !.pc = p] \in FlushSet
      <4> QED BY <4>1, <1>t DEF Typed
    <3>6. CASE Leave(t) \/ Dies(t)
      <4>1. Ended \in FlushSet
        BY <3>0 DEF FlushSet, Ended
      <4>2. flush' = [flush EXCEPT ![t] = Ended]
        BY <3>6 DEF Leave, Dies
      <4> QED BY <4>1, <4>2
    <3> QED BY <3>1, <3>2, <3>3, <3>4, <3>5, <3>6, <3>7 DEF FlushStep
  <2> QED BY <2>1, <1>t DEF Typed
<1>l. LockInv'
  <2>1. ASSUME writeLock' = writeLock, flush'[t].pc \in {"read", "write"} => flush[t].pc \in {"read", "write"}
        PROVE  LockInv'
    BY <2>1, <1>t, <1>f DEF LockInv
  <2>2. ASSUME flush'[t].pc \notin {"read", "write"}, writeLock \in {t, "free"} \/ writeLock' = writeLock
        PROVE  LockInv'
    BY <2>2, <1>t, <1>f, ReportAssumption DEF LockInv
  <2>3. CASE ReadReport(t)
    BY <2>3, <1>t, <1>f, ReportAssumption DEF LockInv, ReadReport
  <2>4. CASE WriteReport(t) \/ WriteFails(t)
    BY <2>1, <2>4, <1>t DEF WriteReport, WriteFails, Typed
  <2>5. CASE LookPending(t) \/ TakePending(t) \/ LookAgain(t)
    <3>1. flush'[t].pc \in {"leave", "sleep", "take", "lock", "look"}
      BY <2>5, <1>t DEF LookPending, TakePending, LookAgain, FlushGoes, Typed, FlushSet
    <3>2. writeLock = t \/ writeLock' = writeLock
      BY <2>5, <1>t DEF LookPending, TakePending, LookAgain, LockInv
    <3> QED BY <2>2, <3>1, <3>2
  <2>6. CASE Leave(t) \/ Dies(t)
    BY <2>2, <2>6, <1>t DEF Leave, Dies, Ended, Typed
  <2> QED BY <2>3, <2>4, <2>5, <2>6 DEF FlushStep
<1>o. Typed'
  <2> USE DEF hostVars
  <2>1. /\ pending' \in [v: Version, delayed: BOOLEAN]
        /\ registered' \in Task \union {"none"}
        /\ writeLock' \in Task \union {"free", "other"}
    <3>1. pending' \in {pending, NoPending} /\ NoPending \in [v: Version, delayed: BOOLEAN]
      BY VersionIsNat
         DEF FlushStep, LookPending, TakePending, ReadReport, WriteReport, WriteFails, LookAgain, Leave, Dies,
             NoPending
    <3>2. registered' \in {registered, "none"} /\ writeLock' \in {writeLock, t, "free"}
      BY DEF FlushStep, LookPending, TakePending, ReadReport, WriteReport, WriteFails, LookAgain, Leave, Dies
    <3> QED BY <1>t, <3>1, <3>2 DEF Typed
  <2>2. file' \in [host: HostPart, job: Version]
    BY <1>t
       DEF FlushStep, LookPending, TakePending, ReadReport, WriteReport, WriteFails, LookAgain, Leave, Dies,
           Typed, FlushSet
  <2>3. lost' \in {lost, lost \union {"aborted"}, lost \union {"late"}, lost \union {"overtaken"}}
    BY DEF FlushStep, LookPending, TakePending, ReadReport, WriteReport, WriteFails, LookAgain, Leave, Dies
  <2>4. failed' \in Version
    BY <1>t
       DEF FlushStep, LookPending, TakePending, ReadReport, WriteReport, WriteFails, LookAgain, Leave,
           Dies, Typed, FlushSet
  <2> QED BY <1>t, <1>f, <1>h, <2>1, <2>2, <2>3, <2>4 DEF Typed
<1> QED BY <1>k, <1>h, <1>l, <1>o, TypedNext DEF BaseInv

\* The other jobs and the host.
LEMMA AroundBase ==
    ASSUME BaseInv, OtherJob \/ HostPersists \/ HostArms \/ HostWrites
    PROVE  BaseInv'
<1>t. /\ version \in Version /\ Typed /\ CountInv /\ PathInv /\ LockInv
  BY TypedIs DEF BaseInv
<1>1. CASE OtherJob
  <2>1. CountInv' /\ version' \in Version
    BY <1>1, <1>t, CountKept DEF OtherJob
  <2>2. Typed' /\ PathInv'
    BY <1>1, <1>t DEF OtherJob, Typed, PathInv, hostVars
  <2>3. LockInv'
    BY <1>1, <1>t, ReportAssumption DEF OtherJob, LockInv
  <2> QED BY <2>1, <2>2, <2>3, TypedNext DEF BaseInv
<1>2. CASE HostPersists
  <2>1. CountInv' /\ version' \in Version
    BY <1>2, <1>t, CountKept DEF HostPersists
  <2>2. file' \in [host: HostPart, job: Version] /\ file'.job = 0
    BY <1>2, <1>t DEF HostPersists, Typed, PathInv, HostPart
  <2>3. host'.pc = "sent" /\ host'.job = host.job
        /\ host' \in [pc: {"sending", "sent", "finish", "done"}, job: Version]
    BY <1>2, <1>t DEF HostPersists, Typed
  <2>4. Typed' /\ PathInv' /\ LockInv'
    BY <1>2, <1>t, <2>2, <2>3 DEF HostPersists, Typed, PathInv, LockInv
  <2> QED BY <2>1, <2>4, TypedNext DEF BaseInv
<1>3. CASE HostArms
  <2>1. \/ /\ version' = version + 1 /\ path' = (file.host # "none")
           /\ host' \in [pc : {"finish"}, job : {host.job, version'}]
           /\ caller' = [caller EXCEPT ![Arming].pc = "armed"]
        \/ host' = [host EXCEPT !.pc = "finish"] /\ UNCHANGED <<version, path, caller>>
    BY <1>3 DEF HostArms
  <2>2. CASE host' = [host EXCEPT !.pc = "finish"] /\ UNCHANGED <<version, path, caller>>
    <3>1. CountInv' /\ version' \in Version
      BY <2>2, <1>t, CountKept
    <3>2. Typed' /\ PathInv' /\ LockInv'
      BY <1>3, <2>2, <1>t DEF HostArms, Typed, PathInv, LockInv
    <3> QED BY <3>1, <3>2, TypedNext DEF BaseInv
  <2>3. CASE /\ version' = version + 1 /\ path' = (file.host # "none")
             /\ host' \in [pc : {"finish"}, job : {host.job, version'}]
             /\ caller' = [caller EXCEPT ![Arming].pc = "armed"]
    <3>0. caller[Arming].pc = "idle" /\ ~path
      BY <1>3, <1>t DEF HostArms, PathInv
    <3>1. CountInv' /\ version' \in Version
      BY <2>3, <3>0, <1>t, ReportAssumption, CountGrows DEF Typed, CallerSet
    <3>2. caller' \in [Reporter -> CallerSet]
      <4> DEFINE q == [caller[Arming] EXCEPT !.pc = "armed"]
      <4>1. q \in CallerSet
        BY <1>t, ReportAssumption DEF Typed, CallerSet
      <4> QED BY <4>1, <2>3, <1>t, ReportAssumption, CallerTyped
    <3>3. host'.pc = "finish" /\ host' \in [pc: {"sending", "sent", "finish", "done"}, job: Version]
      BY <2>3, <3>1, <1>t DEF Typed
    <3>4. Typed' /\ LockInv'
      BY <1>3, <2>3, <3>2, <3>3, <1>t DEF HostArms, Typed, LockInv
    <3>5. PathInv'
      BY <1>3, <2>3, <3>0, <3>3, <1>t DEF HostArms, PathInv, Typed
    <3> QED BY <3>1, <3>4, <3>5, TypedNext DEF BaseInv
  <2> QED BY <2>1, <2>2, <2>3
<1>4. CASE HostWrites
  <2>1. CountInv' /\ version' \in Version
    BY <1>4, <1>t, CountKept DEF HostWrites
  <2>2. /\ file' \in [host: HostPart, job: Version]
        /\ lost' \in {lost, lost \union {"host"}}
        /\ host'.pc = "done" /\ host' \in [pc: {"sending", "sent", "finish", "done"}, job: Version]
    BY <1>4, <1>t DEF HostWrites, Typed, HostPart
  <2>3. Typed' /\ PathInv' /\ LockInv'
    BY <1>4, <1>t, <2>2 DEF HostWrites, Typed, PathInv, LockInv
  <2> QED BY <2>1, <2>3, TypedNext DEF BaseInv
<1> QED BY <1>1, <1>2, <1>3, <1>4

-----------------------------------------------------------------------------
(* What is on its way is newer                                             *)

Ahead == NewerInv /\ OrderInv

\* What the arithmetic below needs of the types.
LEMMA Numbers ==
    ASSUME BaseInv
    PROVE  /\ version \in Nat /\ host.job \in Nat /\ file.job \in Nat /\ pending.v \in Nat
           /\ \A c \in Reporter : caller[c].snapshot \in Nat
           /\ \A t \in Task : flush[t].holds \in Nat
<1>1. Typed /\ version \in Version
  BY TypedIs DEF BaseInv
<1> QED BY <1>1, VersionIsNat DEF Typed, CallerSet, FlushSet

\* A step after which no task holds what it did not, and nobody has queued.
Quiet ==
    /\ UNCHANGED <<version, file, hostVars>>
    /\ \A c \in Reporter : /\ caller'[c].snapshot = caller[c].snapshot
                           /\ Queued(c) => Queued(c)'
                           /\ caller'[c].pc = "read" => caller[c].pc = "read"
    /\ pending' \in {pending, NoPending}
    /\ \A t \in Task : Holding(t)' =>
         /\ flush'[t].pc = flush[t].pc /\ flush'[t].holds = flush[t].holds
         /\ flush[t].aborted => flush'[t].aborted

\* What brings no version further and takes no snapshot keeps the order.
LEMMA QuietAhead ==
    ASSUME Ahead, Quiet
    PROVE  Ahead'
<1>1. ASSUME NEW v, Known(v) PROVE Known(v)'
  BY <1>1 DEF Known, Quiet, hostVars
<1>2. \A t \in Task : Holding(t)' => Holding(t)
  BY DEF Quiet, Holding
<1>3. NewerInv'
  <2>1. /\ path' => host'.job <= version'
        /\ \A c \in Reporter : caller'[c].pc = "read" => host'.job <= caller'[c].snapshot
        /\ \A t \in Task : Holding(t)' => host'.job <= flush'[t].holds
    BY <1>2 DEF Ahead, NewerInv, Quiet, hostVars
  <2>2. Known(file.job)' /\ \A t \in Task : Holding(t)' => Known(flush[t].holds)'
    BY <1>1, <1>2 DEF Ahead, NewerInv, Quiet
  <2>3. pending' # NoPending =>
         /\ host'.job <= pending'.v /\ file'.job <= pending'.v
         /\ Known(pending.v)'
         /\ \A t \in Task : Holding(t)' => flush'[t].holds <= pending'.v
    BY <1>1, <1>2 DEF Ahead, NewerInv, Quiet, hostVars
  <2> QED BY <2>1, <2>2, <2>3 DEF NewerInv
<1>4. OrderInv'
  BY <1>2 DEF Ahead, OrderInv, Quiet, Holding
<1> QED BY <1>3, <1>4 DEF Ahead

\* What the tasks do between the lock and the pending snapshot, and the ends
\* of a caller, bring nothing new on its way.
LEMMA QuietCaller ==
    ASSUME BaseInv, NEW c \in Reporter, Unregister(c) \/ Abort(c) \/ SpawnFlush(c)
    PROVE  Quiet
<1>t. Typed
  BY TypedIs DEF BaseInv
<1>1. \A d \in Reporter : /\ caller'[d].snapshot = caller[d].snapshot
                          /\ Queued(d) => Queued(d)'
                          /\ caller'[d].pc = "read" => caller[d].pc = "read"
  BY <1>t DEF Typed, CallerSet, Unregister, Abort, SpawnFlush, Queued
<1>2. \/ flush' = flush
      \/ \E t \in Task : flush' = [flush EXCEPT ![t] = Ended]
      \/ \E t \in Task : flush' = [flush EXCEPT ![t].aborted = TRUE]
      \/ \E t \in Task : flush' = [flush EXCEPT ![t].pc = "look"]
  <2>1. CASE Unregister(c)
    BY <2>1 DEF Unregister
  <2>2. CASE Abort(c)
    BY <2>2, <1>t DEF Abort, Typed, CallerSet
  <2>3. CASE SpawnFlush(c)
    BY <2>3 DEF SpawnFlush
  <2> QED BY <2>1, <2>2, <2>3
<1>3. \A t \in Task : Holding(t)' =>
         /\ flush'[t].pc = flush[t].pc /\ flush'[t].holds = flush[t].holds
         /\ flush[t].aborted => flush'[t].aborted
  BY <1>2, <1>t DEF Typed, FlushSet, Ended, Holding
<1> QED BY <1>1, <1>3 DEF Quiet, Unregister, Abort, SpawnFlush

\* Most steps of a flush task are such steps.
LEMMA QuietFlush ==
    ASSUME BaseInv, NEW t \in Task,
           \/ LookPending(t) \/ WriteFails(t) \/ LookAgain(t) \/ Leave(t) \/ Dies(t)
           \/ TakePending(t) /\ pending = NoPending
    PROVE  Quiet
<1>t. Typed
  BY TypedIs DEF BaseInv
<1>1. \A u \in Task : Holding(u)' => u # t /\ flush'[u] = flush[u]
  <2>1. CASE LookPending(t) \/ WriteFails(t) \/ LookAgain(t)
    BY <2>1, <1>t DEF Typed, FlushSet, LookPending, WriteFails, LookAgain, FlushGoes, Holding
  <2>2. CASE Leave(t) \/ Dies(t)
    BY <2>2, <1>t DEF Typed, Leave, Dies, Ended, Holding
  <2>3. CASE TakePending(t) /\ pending = NoPending
    BY <2>3, <1>t DEF Typed, FlushSet, TakePending, Holding
  <2> QED BY <2>1, <2>2, <2>3
<1> QED BY <1>1 DEF Quiet, LookPending, WriteFails, LookAgain, Leave, Dies, TakePending, Queued

\* The report never goes back while Clean holds: this is what a step must show.
Forward == Ahead' /\ file'.job >= file.job

\* What was pending is newer than the report, and nobody holds a newer one.
LEMMA TakeForward ==
    ASSUME BaseInv, Ahead, NEW t \in Task, TakePending(t), pending # NoPending
    PROVE  Forward
<1>t. Typed /\ PathInv
  BY TypedIs DEF BaseInv
<1>1. /\ flush'[t].pc = "lock" /\ flush'[t].holds = pending.v
      /\ \A u \in Task : u # t => flush'[u] = flush[u]
      /\ pending' = NoPending /\ UNCHANGED <<version, caller, file, host, path>>
  BY <1>t DEF Typed, FlushSet, TakePending, hostVars
<1>2. ASSUME NEW v, Known(v) PROVE Known(v)'
  BY <1>1, <1>2 DEF Known, Queued
<1>3. NewerInv'
  BY <1>1, <1>2 DEF Ahead, NewerInv, Holding
<1>4. OrderInv'
  BY <1>1 DEF Ahead, NewerInv, OrderInv, Holding
<1> QED BY <1>1, <1>3, <1>4, Numbers DEF Forward, Ahead

\* The lock goes to a task whose snapshot is the newest, or one is lost.
LEMMA ReadForward ==
    ASSUME BaseInv, Ahead, NEW t \in Task, ReadReport(t), Clean'
    PROVE  Forward
<1>t. Typed /\ LockInv
  BY TypedIs DEF BaseInv
<1>1. /\ flush[t].pc = "lock" /\ flush'[t].pc = "read"
      /\ \A u \in Task : /\ flush'[u].holds = flush[u].holds
                         /\ flush'[u].aborted = flush[u].aborted
                         /\ u # t => flush'[u] = flush[u]
      /\ UNCHANGED <<version, caller, pending, file, host, path>>
  BY <1>t DEF Typed, FlushSet, ReadReport, hostVars
<1>2. ~Overtakes(t)
  BY DEF ReadReport, Clean, Ways
<1>3. \A u \in Task : flush[u].pc # "read"
  BY <1>t, ReportAssumption DEF LockInv, ReadReport
<1>4. \A u \in Task : Holding(u)' => Holding(u)
  BY <1>1 DEF Holding
<1>5. ASSUME NEW v, Known(v) PROVE Known(v)'
  BY <1>1, <1>5 DEF Known, Queued
<1>6. NewerInv'
  <2>1. \A u \in Task : Holding(u)' => Known(flush[u].holds)'
    BY <1>1, <1>4, <1>5 DEF Ahead, NewerInv
  <2>2. Known(file.job)' /\ (pending # NoPending => Known(pending.v)')
    BY <1>1, <1>5 DEF Ahead, NewerInv
  <2> QED BY <1>1, <1>4, <2>1, <2>2 DEF Ahead, NewerInv
<1>7. OrderInv'
  <2> SUFFICES ASSUME NEW u \in Task, Holding(u)', ~flush'[u].aborted
               PROVE  /\ file'.job <= flush'[u].holds
                      /\ \A r \in Task : flush'[u].pc = "lock" /\ flush'[r].pc = "read"
                                           => flush'[r].holds <= flush'[u].holds
    BY DEF OrderInv
  <2>1. file'.job <= flush'[u].holds
    BY <1>1, <1>4 DEF Ahead, OrderInv
  <2>2. ASSUME NEW r \in Task, flush'[u].pc = "lock", flush'[r].pc = "read"
        PROVE  flush'[r].holds <= flush'[u].holds
    <3>1. r = t /\ flush[u].pc = "lock" /\ ~flush[u].aborted
      BY <2>2, <1>1, <1>3
    <3> QED BY <3>1, <1>1, <1>2, Numbers DEF Overtakes
  <2> QED BY <2>1, <2>2
<1> QED BY <1>1, <1>6, <1>7, Numbers DEF Forward, Ahead

\* Only one task writes, and what it writes is newer than the report.
LEMMA WriteForward ==
    ASSUME BaseInv, Ahead, NEW t \in Task, WriteReport(t), Clean'
    PROVE  Forward
<1>t. Typed /\ LockInv
  BY TypedIs DEF BaseInv
<1>1. /\ flush[t].pc = "read" /\ flush'[t].pc = "write" /\ file'.job = flush[t].holds
      /\ \A u \in Task : u # t => flush'[u] = flush[u]
      /\ UNCHANGED <<version, caller, pending, host, path>>
  BY <1>t DEF Typed, FlushSet, WriteReport, hostVars
<1>2. ~(file.job > flush[t].holds /\ flush[t].aborted)
  BY DEF WriteReport, Clean, Ways
<1>3. file'.job >= file.job
  <2>1. Holding(t)
    BY <1>1 DEF Holding
  <2> QED BY <2>1, <1>1, <1>2, Numbers DEF Ahead, OrderInv
<1>4. \A u \in Task : Holding(u)' => u # t /\ Holding(u) /\ flush[u].pc = "lock"
  BY <1>1, <1>t DEF Holding, LockInv
<1>5. ASSUME NEW v, Known(v) PROVE Known(v)'
  BY <1>1, <1>5 DEF Known, Queued
<1>6. NewerInv'
  <2>1. \A u \in Task : Holding(u)' => Known(flush[u].holds)'
    BY <1>1, <1>4, <1>5 DEF Ahead, NewerInv
  <2>2. Holding(t) /\ Known(file.job)' /\ (pending # NoPending => Known(pending.v)')
    BY <1>1, <1>5 DEF Ahead, NewerInv, Holding
  <2> QED BY <1>1, <1>4, <2>1, <2>2 DEF Ahead, NewerInv
<1>7. OrderInv'
  BY <1>1, <1>4 DEF Ahead, OrderInv, Holding
<1> QED BY <1>3, <1>6, <1>7 DEF Forward, Ahead

\* No caller that has queued had a later snapshot, or the older one is Clean's.
LEMMA QueueForward ==
    ASSUME BaseInv, Ahead, NEW c \in Reporter, Queue(c), Clean'
    PROVE  Forward
<1>t. Typed
  BY TypedIs DEF BaseInv
<1>1. /\ caller[c].pc = "read" /\ Queued(c)'
      /\ \A d \in Reporter : /\ caller'[d].snapshot = caller[d].snapshot
                             /\ d # c => caller'[d] = caller[d]
      /\ pending'.v = caller[c].snapshot
      /\ UNCHANGED <<version, flush, file, host, path>>
  BY <1>t DEF Typed, CallerSet, Queue, Queued, hostVars
<1>2. \A d \in Reporter : Queued(d) => ~(caller[d].snapshot > caller[c].snapshot)
  BY DEF Queue, Clean, Ways, Queued
<1>3. host.job <= caller[c].snapshot
  BY <1>1 DEF Ahead, NewerInv
<1>4. ASSUME NEW v \in Nat, Known(v) PROVE v <= caller[c].snapshot /\ Known(v)'
  <2>1. v <= caller[c].snapshot
    BY <1>2, <1>3, <1>4, Numbers DEF Known
  <2> QED BY <2>1, <1>1 DEF Known
<1>5. Known(pending.v)'
  BY <1>1, Numbers DEF Known
<1>6. NewerInv'
  <2>1. \A t \in Task : Holding(t) <=> Holding(t)'
    BY <1>1 DEF Holding
  <2>2. /\ file.job <= caller[c].snapshot /\ Known(file.job)'
        /\ \A t \in Task : Holding(t) =>
             flush[t].holds <= caller[c].snapshot /\ Known(flush[t].holds)'
    BY <1>1, <1>4, Numbers DEF Ahead, NewerInv
  <2>3. \A d \in Reporter : caller'[d].pc = "read" => caller[d].pc = "read"
    BY <1>1
  <2> QED BY <1>1, <1>3, <1>5, <2>1, <2>2, <2>3 DEF Ahead, NewerInv
<1>7. OrderInv'
  BY <1>1 DEF Ahead, OrderInv, Holding
<1> QED BY <1>1, <1>6, <1>7, Numbers DEF Forward, Ahead

\* A new snapshot is newer than all there is.
LEMMA SnapshotForward ==
    ASSUME BaseInv, Ahead, NEW c \in Reporter, Snapshot(c)
    PROVE  Forward
<1>t. Typed
  BY TypedIs DEF BaseInv
<1>1. /\ ~Queued(c)
      /\ \A d \in Reporter : d # c => caller'[d] = caller[d]
      /\ caller'[c].pc = "read" => path /\ caller'[c].snapshot = version'
      /\ version' >= version /\ version' \in Nat
      /\ UNCHANGED <<flush, pending, file, host, path>>
  BY <1>t, Numbers DEF Typed, CallerSet, Snapshot, Queued, hostVars
<1>2. ASSUME NEW v, Known(v) PROVE Known(v)'
  BY <1>1, <1>2 DEF Known, Queued
<1>3. NewerInv'
  <2>1. path' => host'.job <= version'
    BY <1>1, Numbers DEF Ahead, NewerInv
  <2>2. \A d \in Reporter : caller'[d].pc = "read" => host'.job <= caller'[d].snapshot
    BY <1>1, <2>1 DEF Ahead, NewerInv
  <2>3. /\ Known(file.job)' /\ (pending # NoPending => Known(pending.v)')
        /\ \A t \in Task : Holding(t) => Known(flush[t].holds)'
    BY <1>1, <1>2 DEF Ahead, NewerInv
  <2> QED BY <1>1, <2>1, <2>2, <2>3 DEF Ahead, NewerInv, Holding
<1>4. OrderInv'
  BY <1>1 DEF Ahead, OrderInv, Holding
<1> QED BY <1>1, <1>3, <1>4, Numbers DEF Forward, Ahead

\* The other job, the host and the arm.
LEMMA AroundForward ==
    ASSUME BaseInv, BaseInv', Ahead, OtherJob \/ HostPersists \/ HostArms \/ HostWrites, Clean'
    PROVE  Forward
<1>t. Typed /\ PathInv
  BY TypedIs DEF BaseInv
<1>n. host'.job \in Nat /\ file'.job \in Nat /\ version' \in Nat
  <2>1. version' \in Version /\ Typed'
    BY DEF BaseInv, ReportTypeOK, Typed, CallerSet, FlushSet
  <2> QED BY <2>1, VersionIsNat DEF Typed
<1> USE DEF Forward, Ahead
<1>1. CASE OtherJob
  <2>1. UNCHANGED <<version, caller, flush, pending, file, host, path>>
    BY <1>1 DEF OtherJob, hostVars
  <2> QED BY <2>1, Numbers DEF NewerInv, OrderInv, Known, Queued, Holding
<1>2. CASE HostPersists
  <2>1. /\ ~path /\ host.job = 0 /\ file.job = 0 /\ file'.job = 0 /\ host'.job = 0
        /\ UNCHANGED <<version, caller, flush, pending, path>>
    BY <1>2, <1>t DEF HostPersists, PathInv, Typed
  <2> QED BY <2>1 DEF NewerInv, OrderInv, Known, Queued, Holding
<1>3. CASE HostArms
  <2>1. /\ ~path /\ host.job = 0 /\ file.job = 0
        /\ \A c \in Reporter : caller[c].pc # "read"
        /\ pending = NoPending /\ \A t \in Task : ~Holding(t)
    BY <1>3, <1>t DEF HostArms, PathInv, Holding
  <2>2. UNCHANGED <<flush, pending, file>>
    BY <1>3 DEF HostArms
  <2>3. \A c \in Reporter : caller'[c].pc # "read"
    BY <1>3, <1>t, <2>1 DEF HostArms, Typed, CallerSet
  <2>4. path' => host'.job <= version'
    <3>1. CASE host' = [host EXCEPT !.pc = "finish"]
      BY <3>1, <1>n, <1>t, <2>1 DEF Typed
    <3>2. CASE host' \in [pc : {"finish"}, job : {host.job, version'}]
      BY <3>2, <1>n, <2>1
    <3> QED BY <1>3, <3>1, <3>2 DEF HostArms
  <2> QED BY <2>1, <2>2, <2>3, <2>4, <1>n DEF NewerInv, OrderInv, Known, Holding
<1>4. CASE HostWrites
  <2>0. file.job \in Nat /\ host.job \in Nat
    BY Numbers
  <2>a. host'.job = host.job /\ UNCHANGED <<version, caller, flush, pending, path>>
    BY <1>4, <1>t DEF HostWrites, Typed
  <2>b. ASSUME file' = [host |-> "final", job |-> host.job],
               lost' = IF file.job > host.job THEN lost \union {"host"} ELSE lost
        PROVE  file'.job = host.job /\ file'.job >= file.job
    <3>1. ~(file.job > host.job)
      BY <2>b DEF Clean, Ways
    <3> QED BY <2>0, <2>b, <3>1
  <2>c. ASSUME file' = file PROVE file'.job = file.job /\ file'.job >= file.job
    BY <2>0, <2>c
  <2>1. /\ host'.job = host.job /\ UNCHANGED <<version, caller, flush, pending, path>>
        /\ file'.job \in {file.job, host.job} /\ file'.job >= file.job
    BY <1>4, <2>a, <2>b, <2>c DEF HostWrites
  <2>2. NewerInv'
    BY <2>1, Numbers DEF NewerInv, Known, Queued, Holding
  <2>3. OrderInv'
    BY <2>1 DEF NewerInv, OrderInv, Holding
  <2> QED BY <2>1, <2>2, <2>3
<1> QED BY <1>1, <1>2, <1>3, <1>4

-----------------------------------------------------------------------------
(* The theorems                                                            *)

\* Ways of losing a version are remembered.
LEMMA CleanBefore ==
    ASSUME ReportNext, Clean'
    PROVE  Clean
<1>1. lost \subseteq lost'
  <2>1. ASSUME NEW c \in Reporter, CallerStep(c) PROVE lost \subseteq lost'
    BY <2>1 DEF CallerStep, Snapshot, Queue, Unregister, Abort, SpawnFlush
  <2>2. ASSUME NEW t \in Task, FlushStep(t) \/ Dies(t) PROVE lost \subseteq lost'
    BY <2>2 DEF FlushStep, LookPending, TakePending, ReadReport, WriteReport, WriteFails, LookAgain, Leave,
                Dies
  <2>3. CASE OtherJob \/ HostPersists \/ HostArms \/ HostWrites
    BY <2>3 DEF OtherJob, HostPersists, HostArms, HostWrites
  <2> QED BY <2>1, <2>2, <2>3 DEF ReportNext
<1> QED BY <1>1 DEF Clean

\* Every step keeps the invariant, and none takes the report back.
LEMMA ReportStep ==
    ASSUME ReportInv, ReportNext
    PROVE  ReportInv' /\ (Clean' => file'.job >= file.job)
<1>b. BaseInv
  BY DEF ReportInv
<1>1. BaseInv'
  <2>1. ASSUME NEW c \in Reporter, CallerStep(c) PROVE BaseInv'
    BY <1>b, <2>1, SnapshotBase, CallerBase DEF CallerStep
  <2>2. ASSUME NEW t \in Task, FlushStep(t) \/ Dies(t) PROVE BaseInv'
    BY <1>b, <2>2, FlushBase
  <2> QED BY <1>b, <2>1, <2>2, AroundBase DEF ReportNext
<1>2. ASSUME Clean' PROVE Forward
  <2>a. Ahead
    BY <1>2, CleanBefore DEF ReportInv, Ahead
  <2>q. Quiet => Forward
    BY <1>b, <2>a, QuietAhead, Numbers DEF Quiet, Forward
  <2>1. ASSUME NEW c \in Reporter, CallerStep(c) PROVE Forward
    BY <1>b, <1>2, <2>a, <2>q, <2>1, SnapshotForward, QueueForward, QuietCaller DEF CallerStep
  <2>2. ASSUME NEW t \in Task, FlushStep(t) \/ Dies(t) PROVE Forward
    BY <1>b, <1>2, <2>a, <2>q, <2>2, TakeForward, ReadForward, WriteForward, QuietFlush
       DEF FlushStep
  <2> QED BY <1>b, <1>1, <1>2, <2>a, <2>1, <2>2, AroundForward DEF ReportNext
<1> QED BY <1>1, <1>2 DEF Forward, ReportInv, Ahead

\* In every behaviour of the reports the types hold, the versions are counted
\* by the callers, and what is on its way to the report is newer than it.
THEOREM ReportInvHolds == ReportSpec => []ReportInv
<1>1. ReportInv /\ UNCHANGED reportVars => ReportInv'
  <2> SUFFICES ASSUME ReportInv, UNCHANGED reportVars PROVE ReportInv'
    OBVIOUS
  <2> USE DEF reportVars, hostVars
  <2>1. Started' = Started /\ BaseInv'
    BY DEF ReportInv, BaseInv, ReportTypeOK, CountInv, PathInv, LockInv, Started
  <2>2. Clean' => NewerInv' /\ OrderInv'
    BY DEF ReportInv, Clean, NewerInv, OrderInv, Known, Queued, Holding
  <2> QED BY <2>1, <2>2 DEF ReportInv
<1> QED BY <1>1, ReportInitInv, ReportStep, PTL DEF ReportSpec

\* The types of the reports, for any number of callers and tasks.
THEOREM ReportTypeCorrect == ReportSpec => []ReportTypeOK
<1>1. ReportInv => ReportTypeOK
  BY DEF ReportInv, BaseInv
<1> QED BY <1>1, ReportInvHolds, PTL

\* The state of a job in the report of its launch never goes back, except by a
\* flush that was aborted or overtaken, an older snapshot queued over a newer
\* one, or the host (queue_follow_job_report_sync, the flush task it spawns).
THEOREM NeverBackHolds == ReportSpec => NeverBack
<1>1. ReportInv /\ [ReportNext]_reportVars =>
        [file'.job >= file.job
           \/ {"late", "overtaken", "older", "host"} \intersect lost' # {}]_reportVars
  BY ReportStep DEF Clean, Ways
<1> QED BY <1>1, ReportInvHolds, PTL DEF ReportSpec, NeverBack

-----------------------------------------------------------------------------
(* Waits                                                                   *)

\* What is published, or recorded in the job, tells the truth.
ChannelsInv ==
    /\ told["signature"].is = "ok" => launch = "confirmed"
    /\ recorded => launch = "confirmed"
    /\ told["slot"].is = "ok" => told["slot"].v <= slotNow
    /\ told["market"].is = "ok" /\ told["market"].v >= Target => wasHigh
    /\ cap = 1 => wasHigh

\* A wait that is past its first stage, not given up, has the confirmation.
PastConfirmInv ==
    \A w \in Waiter :
        wait[w].pc \in {"starting", "waiting", "ok"} /\ watchPlan.confirm[w]
            => launch = "confirmed"

WatchInv == WatchTypeOK /\ ChannelsInv /\ PastConfirmInv /\ WaitsTruthful

Watching == [stage: {"none", "websocket", "polling", "over"}, attempt: 0..(MaxAttempts - 1)]
Told == [is: {"none", "ok", "err"}, v: 0..MaxSlot]
Waiting == [pc: {"confirming", "starting", "waiting", "ok", "err"},
            by: {"none", "slot", "market", "time", "scanEnd"}]

-----------------------------------------------------------------------------
(* The operators of the waits and of the watchers *)

(***************************************************************************)
(* Ending a wait, or taking it to its next stage, concerns this wait only. *)
(***************************************************************************)
LEMMA EndsEffect ==
    ASSUME WatchTypeOK, NEW w \in Waiter,
           NEW how \in {"ok", "err"},
           NEW by \in {"none", "slot", "market", "time", "scanEnd"}, Ends(w, how, by)
    PROVE  /\ wait' \in [Waiter -> Waiting]
           /\ wait'[w].pc = how /\ wait'[w].by = by
           /\ \A x \in Waiter \ {w} : wait'[x] = wait[x]
  BY DEF WatchTypeOK, Ends, Waiting

\* A wait goes on to its next stage.
LEMMA GoesEffect ==
    ASSUME WatchTypeOK, NEW w \in Waiter, NEW pc \in {"starting", "waiting"}, Goes(w, pc)
    PROVE  /\ wait' \in [Waiter -> Waiting]
           /\ wait'[w].pc = pc
           /\ \A x \in Waiter \ {w} : wait'[x] = wait[x]
  BY DEF WatchTypeOK, Goes, Waiting

(***************************************************************************)
(* Starting a watcher publishes nothing but the error of a market watcher  *)
(* that has no mint to watch.                                              *)
(***************************************************************************)
LEMMA EnsureEffect ==
    ASSUME WatchTypeOK, NEW ks, Ensure(ks)
    PROVE  /\ watcher' \in [Kind -> Watching]
           /\ told' \in [Kind -> Told]
           /\ \A k \in Kind : told'[k] = told[k] \/ told'[k].is = "err"
  <1>1. Error \in Told /\ Error.is = "err"
    BY WatchAssumption DEF Error, Told
  <1>2. \A k \in Kind : watcher[k] \in Watching /\ told[k] \in Told
    BY DEF WatchTypeOK, Watching, Told
  <1>3. \A k \in Kind : watcher'[k] \in Watching /\ told'[k] \in Told
    BY <1>1, <1>2 DEF Ensure, FirstSession, Watching
  <1>4. QED
    BY <1>1, <1>3 DEF Ensure

(***************************************************************************)
(* A watcher that fails starts over or gives up; it never publishes a value*)
(***************************************************************************)
LEMMA FailEffect ==
    ASSUME WatchTypeOK, NEW k \in Kind, SessionFails(k)
    PROVE  /\ watcher' \in [Kind -> Watching]
           /\ told' \in [Kind -> Told]
           /\ \A j \in Kind : told'[j] = told[j] \/ told'[j].is = "err"
           /\ UNCHANGED <<watchPlan, jobIs, clusterVars, wait>>
  <1> USE WatchAssumption DEF WatchTypeOK
  <1>1. UNCHANGED <<watchPlan, jobIs, clusterVars, wait>>
    BY DEF SessionFails
  <1>2. CASE watcher' = [watcher EXCEPT ![k].stage = "polling"] /\ UNCHANGED told
    BY <1>1, <1>2 DEF Watching, Told
  <1>3. CASE Retry(k)
    <2>1. CASE /\ watcher' = [watcher EXCEPT ![k].stage = "over"]
               /\ told' = [told EXCEPT ![k] = Error]
      BY <1>1, <2>1 DEF Watching, Told, Error
    <2>2. CASE /\ watcher[k].attempt + 1 < MaxAttempts
               /\ watcher' = [watcher EXCEPT ![k] =
                      [stage |-> FirstSession, attempt |-> @.attempt + 1]]
               /\ UNCHANGED told
      <3>1. watcher[k].attempt + 1 \in 0..(MaxAttempts - 1)
        BY <2>2, WatchAssumption
      <3>2. QED
        BY <1>1, <2>2, <3>1 DEF Watching, Told, FirstSession
    <2>3. QED
      BY <1>3, <2>1, <2>2, WatchAssumption DEF Retry
  <1>4. QED
    BY <1>2, <1>3 DEF SessionFails

(***************************************************************************)
(* Publishing a value that is true of the cluster.                         *)
(***************************************************************************)
LEMMA SessionEffect ==
    ASSUME WatchTypeOK, ChannelsInv, SignatureSession \/ SlotSession \/ MarketSession
    PROVE  /\ watcher' \in [Kind -> Watching]
           /\ told' \in [Kind -> Told]
           /\ UNCHANGED <<watchPlan, jobIs, clusterVars, wait>>
           /\ ChannelsInv'
  <1> USE WatchAssumption DEF WatchTypeOK, Kind, Value, Told, Watching, ChannelsInv,
         clusterVars
  <1>1. CASE SignatureSession
    BY <1>1 DEF SignatureSession
  <1>2. CASE SlotSession
    BY <1>2 DEF SlotSession
  <1>3. CASE MarketSession
    <2>1. PICK seen \in CapSeen : told' = [told EXCEPT !["market"] = Value(seen)]
      BY <1>3 DEF MarketSession
    <2>2. seen \in 0..MaxSlot /\ (seen >= Target => wasHigh)
      BY <2>1 DEF CapSeen, Target
    <2>3. QED
      BY <1>3, <2>1, <2>2 DEF MarketSession
  <1>4. QED
    BY <1>1, <1>2, <1>3

-----------------------------------------------------------------------------
(* The inductive invariant *)

(***************************************************************************)
(* A step of an action's wait: a wait that is let go has a reason for it   *)
(* that holds, and publishes nothing.                                      *)
(***************************************************************************)
LEMMA WaitEffect ==
    ASSUME WatchInv, NEW w \in Waiter, WaitStep(w)
    PROVE  /\ UNCHANGED <<watchPlan, jobIs, clusterVars>>
           /\ watcher' \in [Kind -> Watching]
           /\ told' \in [Kind -> Told]
           /\ \A k \in Kind : told'[k] = told[k] \/ told'[k].is = "err"
           /\ wait' \in [Waiter -> Waiting]
           /\ \A x \in Waiter \ {w} : wait'[x] = wait[x]
           /\ wait'[w].pc \in {"starting", "waiting", "ok"} /\ watchPlan.confirm[w]
                 => launch = "confirmed"
           /\ wait'[w].pc = "ok" =>
                 /\ watchPlan.trigger[w] # {}
                       => wait'[w].by \in watchPlan.trigger[w] \union {"scanEnd"}
                 /\ wait'[w].by = "slot" => slotNow >= Target
                 /\ wait'[w].by = "market" => wasHigh
                 /\ wait'[w].by = "scanEnd" =>
                       watchPlan.sells /\ "market" \in watchPlan.trigger[w]
  <1> USE DEF WatchInv
  <1>1. /\ watcher \in [Kind -> Watching] /\ told \in [Kind -> Told]
        /\ wait \in [Waiter -> Waiting]
    BY DEF WatchTypeOK, Watching, Told, Waiting
  <1>2. CASE Confirm(w)
    <2>1. UNCHANGED <<watchPlan, jobIs, clusterVars>> /\ wait[w].pc = "confirming"
      BY <1>2 DEF Confirm
    <2>2. CASE /\ ~watchPlan.confirm[w] \/ recorded
               /\ Goes(w, "starting")
               /\ UNCHANGED <<watcher, told>>
      BY <1>1, <2>1, <2>2, GoesEffect DEF ChannelsInv
    <2>3. CASE Ensure({"signature"}) /\ UNCHANGED wait
      BY <1>1, <2>1, <2>3, EnsureEffect
    <2>4. CASE Ends(w, "err", "none") /\ UNCHANGED <<watcher, told>>
      BY <1>1, <2>1, <2>4, EndsEffect
    <2>5. CASE /\ told["signature"].is = "ok"
               /\ Goes(w, "starting")
               /\ UNCHANGED <<watcher, told>>
      BY <1>1, <2>1, <2>5, GoesEffect DEF ChannelsInv
    <2>6. QED
      BY <1>2, <2>2, <2>3, <2>4, <2>5 DEF Confirm
  <1>3. CASE Start(w)
    <2>1. /\ UNCHANGED <<watchPlan, jobIs, clusterVars>>
          /\ watchPlan.confirm[w] => launch = "confirmed"
      BY <1>3 DEF Start, PastConfirmInv
    <2>2. CASE watchPlan.trigger[w] = {} /\ Ends(w, "ok", "none") /\ UNCHANGED <<watcher, told>>
      BY <1>1, <2>1, <2>2, EndsEffect
    <2>3. CASE Ends(w, "err", "none") /\ UNCHANGED <<watcher, told>>
      BY <1>1, <2>1, <2>3, EndsEffect
    <2>4. CASE /\ "market" \in watchPlan.trigger[w] /\ cap = 1 /\ Ends(w, "ok", "market")
               /\ Ensure(watchPlan.trigger[w] \intersect {"slot"})
      BY <1>1, <2>1, <2>4, EndsEffect, EnsureEffect DEF ChannelsInv
    <2>5. CASE /\ "slot" \in watchPlan.trigger[w] /\ slotNow >= Target
               /\ Ends(w, "ok", "slot")
               /\ Ensure(watchPlan.trigger[w] \intersect {"slot"})
      BY <1>1, <2>1, <2>5, EndsEffect, EnsureEffect
    <2>6. CASE Goes(w, "waiting") /\ Ensure(watchPlan.trigger[w] \ {"time"})
      BY <1>1, <2>1, <2>6, GoesEffect, EnsureEffect
    <2>7. QED
      BY <1>3, <2>2, <2>3, <2>4, <2>5, <2>6 DEF Start
  <1>4. ASSUME NEW k \in {"slot", "market"}, Look(w, k)
        PROVE  /\ UNCHANGED <<watchPlan, jobIs, clusterVars, watcher, told>>
               /\ watchPlan.confirm[w] => launch = "confirmed"
               /\ \/ Ends(w, "err", "none")
                  \/ /\ k \in watchPlan.trigger[w] /\ Ends(w, "ok", k)
                     /\ k = "slot" => slotNow >= Target
                     /\ k = "market" => wasHigh
    BY <1>4 DEF Look, Reached, ChannelsInv, PastConfirmInv, WatchTypeOK, Kind, Target
  <1>5. ASSUME TimeCome(w) \/ ScanEnds(w)
        PROVE  /\ UNCHANGED <<watchPlan, jobIs, clusterVars, watcher, told>>
               /\ watchPlan.confirm[w] => launch = "confirmed"
               /\ \/ Ends(w, "err", "none")
                  \/ "time" \in watchPlan.trigger[w] /\ Ends(w, "ok", "time")
                  \/ /\ "market" \in watchPlan.trigger[w] /\ watchPlan.sells
                     /\ Ends(w, "ok", "scanEnd")
    BY <1>5 DEF TimeCome, ScanEnds, PastConfirmInv
  <1>6. CASE TimeCome(w) \/ ScanEnds(w)
    BY <1>1, <1>5, <1>6, EndsEffect
  <1>7. CASE \E k \in {"slot", "market"} : Look(w, k)
    BY <1>1, <1>4, <1>7, EndsEffect
  <1>8. QED
    BY <1>2, <1>3, <1>6, <1>7 DEF WaitStep

(***************************************************************************)
(* WatchInv holds in the initial states and every step keeps it.           *)
(***************************************************************************)
LEMMA WatchInvariance ==
    WatchSpec => []WatchInv
  <1>1. ASSUME WatchInit
        PROVE  WatchInv
    <2> USE <1>1, WatchAssumption DEF WatchInit
    <2>1. WatchTypeOK
      <3>1. /\ [stage |-> "none", attempt |-> 0] \in Watching
            /\ Nothing \in Told
            /\ [pc |-> "confirming", by |-> "none"] \in Waiting
        BY DEF Watching, Told, Waiting, Nothing
      <3>2. /\ watcher \in [Kind -> Watching] /\ told \in [Kind -> Told]
            /\ wait \in [Waiter -> Waiting]
        BY <3>1
      <3>3. slotNow \in 0..MaxSlot /\ cap \in 0..1
        OBVIOUS
      <3>4. QED
        BY <3>2, <3>3 DEF WatchTypeOK, Watching, Told, Waiting
    <2>2. QED
      BY <2>1 DEF WatchInv, ChannelsInv, PastConfirmInv, WaitsTruthful, Kind, Nothing
  <1>2. ASSUME WatchInv, [WatchNext]_watchVars
        PROVE  WatchInv'
    <2> USE WatchAssumption
    <2>1. /\ WatchTypeOK /\ ChannelsInv
          /\ watcher \in [Kind -> Watching] /\ told \in [Kind -> Told]
          /\ wait \in [Waiter -> Waiting]
      BY <1>2 DEF WatchInv, WatchTypeOK, Watching, Told, Waiting
    <2>2. ASSUME UNCHANGED <<watchPlan, wait>>,
                 jobIs' \in {"live", "cancelled"},
                 launch' \in {"pending", "confirmed", "failed"}, recorded' \in BOOLEAN,
                 slotNow' \in 0..MaxSlot, cap' \in 0..1, wasHigh' \in BOOLEAN,
                 watcher' \in [Kind -> Watching], told' \in [Kind -> Told],
                 ChannelsInv',
                 launch = "confirmed" => launch' = "confirmed",
                 slotNow' >= slotNow, wasHigh => wasHigh'
          PROVE  WatchInv'
      <3>1. WatchTypeOK'
        BY <1>2, <2>2 DEF WatchInv, WatchTypeOK, Watching, Told
      <3>2. PastConfirmInv'
        BY <1>2, <2>2 DEF WatchInv, PastConfirmInv
      <3>3. WaitsTruthful'
        BY <1>2, <2>1, <2>2 DEF WatchInv, WatchTypeOK, WaitsTruthful, Target
      <3>4. QED
        BY <2>2, <3>1, <3>2, <3>3 DEF WatchInv
    <2>3. CASE SignatureSession \/ SlotSession \/ MarketSession
      BY <2>1, <2>2, <2>3, SessionEffect DEF WatchTypeOK, clusterVars
    <2>4. ASSUME NEW k \in Kind, SessionFails(k)
          PROVE  WatchInv'
      <3>1. ChannelsInv'
        BY <2>1, <2>4, FailEffect DEF ChannelsInv, Kind, clusterVars
      <3>2. QED
        BY <2>1, <2>2, <2>4, <3>1, FailEffect DEF WatchTypeOK, clusterVars
    <2>5. ASSUME NEW w \in Waiter, WaitStep(w)
          PROVE  WatchInv'
      <3>1. WatchTypeOK'
        BY <1>2, <2>1, <2>5, WaitEffect
        DEF WatchTypeOK, Watching, Told, Waiting, clusterVars
      <3>2. ChannelsInv'
        BY <1>2, <2>1, <2>5, WaitEffect DEF ChannelsInv, Kind, clusterVars
      <3>3. PastConfirmInv'
        BY <1>2, <2>5, WaitEffect DEF WatchInv, PastConfirmInv, clusterVars
      <3>4. WaitsTruthful'
        <4>1. ASSUME NEW x \in Waiter, wait'[x].pc = "ok"
              PROVE  /\ watchPlan'.confirm[x] => launch' = "confirmed"
                     /\ watchPlan'.trigger[x] # {}
                           => wait'[x].by \in watchPlan'.trigger[x] \union {"scanEnd"}
                     /\ wait'[x].by = "slot" => slotNow' >= Target
                     /\ wait'[x].by = "market" => wasHigh'
                     /\ wait'[x].by = "scanEnd" =>
                           watchPlan'.sells /\ "market" \in watchPlan'.trigger[x]
          <5>1. CASE x = w
            BY <1>2, <2>5, <4>1, <5>1, WaitEffect DEF clusterVars
          <5>2. CASE x # w
            BY <1>2, <2>5, <4>1, <5>2, WaitEffect DEF WatchInv, WaitsTruthful, clusterVars
          <5>3. QED
            BY <5>1, <5>2
        <4>2. QED
          BY <4>1 DEF WaitsTruthful
      <3>5. QED
        BY <3>1, <3>2, <3>3, <3>4 DEF WatchInv
    <2>6. CASE Land \/ Record \/ Tick \/ Trade \/ CancelWatched
      <3> USE <2>1 DEF ChannelsInv, WatchTypeOK
      <3>1. told["slot"].v \in Nat
        BY DEF Told, Kind
      <3>2. CASE Land
        BY <2>2, <3>2 DEF Land
      <3>3. CASE Record
        BY <2>2, <3>3 DEF Record
      <3>4. CASE Tick
        BY <2>2, <3>1, <3>4 DEF Tick
      <3>5. CASE Trade
        BY <2>2, <3>5 DEF Trade
      <3>6. CASE CancelWatched
        BY <2>2, <3>6 DEF CancelWatched, clusterVars
      <3>7. QED
        BY <2>6, <3>2, <3>3, <3>4, <3>5, <3>6
    <2>7. CASE UNCHANGED watchVars
      BY <1>2, <2>7
      DEF watchVars, clusterVars, WatchInv, WatchTypeOK, ChannelsInv, PastConfirmInv,
          WaitsTruthful
    <2>8. QED
      BY <1>2, <2>3, <2>4, <2>5, <2>6, <2>7 DEF WatchNext
  <1>3. QED
    BY <1>1, <1>2, PTL DEF WatchSpec

-----------------------------------------------------------------------------
(* The theorems *)

(***************************************************************************)
(* Every variable of the watchers and of the waits keeps its type: no      *)
(* watcher makes more than MaxAttempts rounds.                             *)
(***************************************************************************)
THEOREM WatchTypeCorrect ==
    WatchSpec => []WatchTypeOK
  <1>1. WatchInv => WatchTypeOK
    BY DEF WatchInv
  <1>2. QED
    BY <1>1, WatchInvariance, PTL

(***************************************************************************)
(* An action is let go only by what it waits for, after the confirmation   *)
(* when it requires one, whatever watcher broke, fell back or gave up.     *)
(***************************************************************************)
THEOREM OnlyByItsTrigger ==
    WatchSpec => []WaitsTruthful
  <1>1. WatchInv => WaitsTruthful
    BY DEF WatchInv
  <1>2. QED
    BY <1>1, WatchInvariance, PTL
=============================================================================
