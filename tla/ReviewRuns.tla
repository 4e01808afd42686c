----------------------------- MODULE ReviewRuns -----------------------------
(***************************************************************************)
(* The Runs of the Claim Review Brief agent and everything that drives     *)
(* them: run_brief (harness.py) in a thread of the app (RunRegistry,       *)
(* runner.py) or in the nightly job (work_queue), the Working Branches     *)
(* (lakebase.py), the routing pass (routing.py), the request and the       *)
(* disposition endpoints (api.py), and the review record they share        *)
(* (module ReviewRecord).                                                  *)
(*                                                                         *)
(* The app and the nightly job are two processes with a connection to main *)
(* each.  The app re-dials a dropped connection and replays the call once, *)
(* under its store lock; the job does not re-dial, so once its connection  *)
(* is gone every later call of that process raises (store.py:190-202).     *)
(***************************************************************************)
EXTENDS ReviewRecord

CONSTANTS RuleClaims,    \* the claims ROUTING_SQL selects
          NightlyCap,    \* REVIEW_NIGHTLY_CAP
          DemoHold,      \* REVIEW_DEMO_HOLD_SECONDS > 0 (the app's only)
          MaxCrashes,    \* bound: how often a process is killed
          Timely,        \* a live Run neither outlives STALE_RUN_SECONDS nor its branch TTL
          Drops,         \* a connection to main may drop before a commit
          LostAcks,      \* ... and after a commit, before its acknowledgement
          BranchFaults   \* a branch call of the platform may fail

ASSUME RunsAssumption ==
  /\ RuleClaims \subseteq Claims
  /\ NightlyCap \in Nat /\ MaxCrashes \in Nat
  /\ {DemoHold, Timely, Drops, LostAcks, BranchFaults} \subseteq BOOLEAN

VARIABLES
  pc,        \* where each Run's thread of control stands
  proc,      \* the process it runs in
  target,    \* its claim_id argument
  verdict,   \* "open", "built", "promoted", "failed" or "skipped"
  branch,    \* the Working Branch run-<run_id> exists on the platform
  redial,    \* its store call lost the connection and is being replayed
  thread,    \* RunRegistry._threads and _run_ids: the last Run of each claim
  request,   \* a POST .../brief in flight, by claim
  viewed,    \* the Brief the reviewer has on screen, by claim
  job,       \* the nightly job: idle, routing or building
  worklist,  \* the claims the job still has to route, or to build
  jobConn,   \* the job's connection to main is up
  crashes

threadVars == <<pc, proc, target, verdict, branch, redial>>
jobVars    == <<job, worklist, jobConn>>
webVars    == <<thread, request, viewed>>
vars       == <<recordVars, threadVars, jobVars, webVars, crashes>>

\* From claim_run's success to the Run's last write of its claim row.
Claimed  == {"starting", "forking", "working", "promoting", "failing"}
Teardown == {"holding", "deleting", "marking", "excusing"}
Ended    == {"unborn", "done", "dead"}
PCs      == {"waiting", "claiming"} \cup Claimed \cup Teardown \cup Ended
Verdicts == {"open", "built", "promoted", "failed", "skipped"}

Alive(r) == pc[r] \notin Ended

\* Still to write its claim row: claimed it, and neither promoted nor re-queued.
Owns(r) ==
  \/ pc[r] \in Claimed
  \/ pc[r] \in Teardown /\ verdict[r] = "failed"

\* _Run.branch is not None.
Forked(r) == pc[r] \in {"working", "promoting"} \cup Teardown

TypeOK ==
  /\ RecordTypeOK
  /\ pc \in [Runs -> PCs]
  /\ proc \in [Runs -> {"none", "app", "job"}]
  /\ target \in [Runs -> Claims \cup {NoClaim}]
  /\ verdict \in [Runs -> Verdicts]
  /\ branch \in [Runs -> BOOLEAN]
  /\ redial \in [Runs -> BOOLEAN]
  /\ thread \in [Claims -> Runs \cup {NoRun}]
  /\ request \in [Claims -> {"none", "unrouted", "routed"}]
  /\ viewed \in [Claims -> Runs \cup {NoRun}]
  /\ job \in {"idle", "routing", "building"}
  /\ worklist \in SUBSET Claims
  /\ jobConn \in BOOLEAN
  /\ crashes \in 0..MaxCrashes

Init ==
  /\ RecordInit
  /\ pc = [r \in Runs |-> "unborn"]
  /\ proc = [r \in Runs |-> "none"]
  /\ target = [r \in Runs |-> NoClaim]
  /\ verdict = [r \in Runs |-> "open"]
  /\ branch = [r \in Runs |-> FALSE]
  /\ redial = [r \in Runs |-> FALSE]
  /\ thread = [c \in Claims |-> NoRun]
  /\ request = [c \in Claims |-> "none"]
  /\ viewed = [c \in Claims |-> NoRun]
  /\ job = "idle"
  /\ worklist = {}
  /\ jobConn = TRUE
  /\ crashes = 0

-----------------------------------------------------------------------------
(* Store calls: ReviewStore._run (store.py:190-202). *)

\* The app's store lock is free: no other thread of the app is replaying.
StoreFree == \A r \in Runs : ~redial[r]

MayCall(r) == IF proc[r] = "app" THEN \A q \in Runs \ {r} : ~redial[q] ELSE jobConn

Goto(r, where, what) ==
  /\ pc' = [pc EXCEPT ![r] = where]
  /\ verdict' = [verdict EXCEPT ![r] = what]
  /\ UNCHANGED <<proc, target, branch>>

\* The call returns.
Returns(r, where, what) ==
  /\ MayCall(r)
  /\ Goto(r, where, what)
  /\ redial' = [redial EXCEPT ![r] = FALSE]
  /\ UNCHANGED <<jobVars, webVars, crashes>>

\* The connection drops: the app goes on to replay, once; in the job, or when
\* the replay drops too, the call raises.
Raises(r, where, what) ==
  /\ MayCall(r)
  /\ Drops
  /\ IF proc[r] = "app" /\ ~redial[r]
       THEN /\ redial' = [redial EXCEPT ![r] = TRUE]
            /\ UNCHANGED <<pc, verdict, proc, target, branch, jobConn>>
       ELSE /\ redial' = [redial EXCEPT ![r] = FALSE]
            /\ jobConn' = (jobConn /\ proc[r] = "app")
            /\ Goto(r, where, what)
  /\ UNCHANGED <<job, worklist, webVars, crashes>>

\* The job's connection went in an earlier call.
RaisesAtOnce(r, where, what) ==
  /\ proc[r] = "job" /\ ~jobConn
  /\ Goto(r, where, what)
  /\ UNCHANGED <<recordVars, redial, jobVars, webVars, crashes>>

\* The connection drops before the commit.
Dropped(r, where, what) ==
  \/ Raises(r, where, what) /\ UNCHANGED recordVars
  \/ RaisesAtOnce(r, where, what)

-----------------------------------------------------------------------------
(* run_brief (harness.py:320-376). *)

\* Faults: a lock per claim; a lock that is never released.
SerialPerClaim(r) == \A q \in Runs \ {r} :
  proc[q] = "app" /\ target[q] = target[r] => pc[q] \in Ended \cup {"waiting"}
SerialForEver(r) == \A q \in Runs \ {r} :
  proc[q] = "app" => pc[q] \in {"unborn", "dead", "waiting"}

\* The app: a thread runs when it has the process-wide lock of the registry.
Serial(r) == \A q \in Runs \ {r} :
               proc[q] = "app" => pc[q] \in Ended \cup {"waiting"}

AcquireSerial(r) ==
  /\ pc[r] = "waiting"
  /\ Serial(r)
  /\ Goto(r, "claiming", "open")
  /\ UNCHANGED <<recordVars, redial, jobVars, webVars, crashes>>

\* A row no longer claimable is skipped; a raising claim_run fails the Run
\* before anything was started.
Claim(r) ==
  /\ pc[r] = "claiming"
  /\ \/ ClaimRun(target[r], r) /\ Returns(r, "starting", "open")
     \/ /\ ~MayClaim(target[r])
        /\ UNCHANGED recordVars
        /\ Returns(r, "done", "skipped")
     \/ Dropped(r, "done", "failed")
     \/ LostAcks /\ ClaimRun(target[r], r) /\ Raises(r, "done", "failed")

\* A second INSERT of the same run id violates the primary key: it raises
\* whatever the connection does, and the Run returns without fail_run.
Start(r) ==
  /\ pc[r] = "starting"
  /\ \/ StartRun(r, target[r]) /\ Returns(r, "forking", "open")
     \/ /\ HasRow(r)
        /\ UNCHANGED recordVars
        /\ Returns(r, "done", "failed")
     \/ Dropped(r, "done", "failed")
     \/ LostAcks /\ StartRun(r, target[r]) /\ Raises(r, "done", "failed")

\* execute, before there is a branch (harness.py:277-282): the claim lookup
\* fails, or the anchor date is not recorded.  Nothing to tear down.
ExecuteAborts(r) ==
  /\ pc[r] = "forking"
  /\ \/ UNCHANGED recordVars /\ Returns(r, "failing", "failed")
     \/ Dropped(r, "failing", "failed")

\* BranchLifecycle.create (lakebase.py:84-99): it yields a branch, or raises
\* and has deleted the branch, or raises and leaves it behind.
Fork(r) ==
  /\ pc[r] = "forking"
  /\ MayCall(r)
  /\ anchor
  /\ redial' = [redial EXCEPT ![r] = FALSE]
  /\ \/ /\ branch' = [branch EXCEPT ![r] = TRUE]
        /\ pc' = [pc EXCEPT ![r] = "working"]
        /\ UNCHANGED verdict
     \/ /\ BranchFaults
        /\ \E left \in BOOLEAN : branch' = [branch EXCEPT ![r] = left]
        /\ pc' = [pc EXCEPT ![r] = "failing"]
        /\ verdict' = [verdict EXCEPT ![r] = "failed"]
  /\ UNCHANGED <<recordVars, proc, target, jobVars, webVars, crashes>>

TeardownFrom(r) == IF DemoHold /\ proc[r] = "app" THEN "holding" ELSE "deleting"

\* Fault: what there is of the Brief is promoted, whatever execute's failure.
ExecutePartially(r) ==
  /\ pc[r] = "working"
  /\ UpdateRun(r)
  /\ \E what \in {"built", "failed"} : Returns(r, "promoting", what)

\* The rest of execute: module BriefPlan says how it succeeds or fails.  Its
\* progress reports are calls of update_run.
Execute(r) ==
  /\ pc[r] = "working"
  /\ \/ UpdateRun(r) /\ Returns(r, "promoting", "built")
     \/ UpdateRun(r) /\ Returns(r, TeardownFrom(r), "failed")
     \/ Dropped(r, TeardownFrom(r), "failed")

Promote(r) ==
  /\ pc[r] = "promoting"
  /\ \/ CompleteRun(r, target[r]) /\ Returns(r, TeardownFrom(r), "promoted")
     \/ Dropped(r, TeardownFrom(r), "failed")
     \/ LostAcks /\ CompleteRun(r, target[r]) /\ Raises(r, TeardownFrom(r), "failed")

\* Faults: fail_run only for the exceptions of teardown; a failed cleanup fails the Run.
AfterTeardownAlways(r)  == "done"
AfterExceptionAlways(r) == "failing"

\* Where teardown's end, and an exception out of it, lead (harness.py:357-374).
AfterTeardown(r)   == IF verdict[r] = "promoted" THEN "done" ELSE "failing"
AfterException(r)  == IF verdict[r] = "promoted" THEN "excusing" ELSE "failing"

\* The demo hold, before the deletion: if its update_run raises, the branch
\* is never deleted.
Hold(r) ==
  /\ pc[r] = "holding"
  /\ \/ UpdateRun(r) /\ Returns(r, "deleting", verdict[r])
     \/ Dropped(r, AfterException(r), verdict[r])

\* BranchLifecycle.delete (lakebase.py:114-119) raises when the platform
\* does, the branch gone or not, or when there was none any more.
DeleteBranch(r) ==
  /\ pc[r] = "deleting"
  /\ \/ /\ branch[r]
        /\ branch' = [branch EXCEPT ![r] = FALSE]
        /\ pc' = [pc EXCEPT ![r] = "marking"]
     \/ /\ BranchFaults \/ ~branch[r]
        /\ \E left \in BOOLEAN : branch' = [branch EXCEPT ![r] = @ /\ left]
        /\ pc' = [pc EXCEPT ![r] = AfterException(r)]
  /\ UNCHANGED <<recordVars, proc, target, verdict, redial, jobVars, webVars, crashes>>

MarkDeleted(r) ==
  /\ pc[r] = "marking"
  /\ \/ UpdateRun(r) /\ Returns(r, AfterTeardown(r), verdict[r])
     \/ Dropped(r, AfterException(r), verdict[r])

\* The best-effort marker after a promoted Run's cleanup failed.
Excuse(r) ==
  /\ pc[r] = "excusing"
  /\ \/ UpdateRun(r) /\ Returns(r, "done", verdict[r])
     \/ Dropped(r, "done", verdict[r])

\* fail_run; its own failure is swallowed.
Fail(r) ==
  /\ pc[r] = "failing"
  /\ \/ FailRun(r, target[r]) /\ Returns(r, "done", "failed")
     \/ Dropped(r, "done", "failed")
     \/ LostAcks /\ FailRun(r, target[r]) /\ Raises(r, "done", "failed")

RunStep(r) ==
  \/ AcquireSerial(r) \/ Claim(r) \/ Start(r) \/ ExecuteAborts(r) \/ Fork(r)
  \/ Execute(r) \/ Promote(r) \/ Hold(r) \/ DeleteBranch(r) \/ MarkDeleted(r)
  \/ Excuse(r) \/ Fail(r)

-----------------------------------------------------------------------------
(* The app's endpoints (api.py) and the registry (runner.py:57-97). *)

\* prepare_brief reads get_claim ...
PrepareBrief(c) ==
  /\ request[c] = "none"
  /\ StoreFree
  /\ request' = [request EXCEPT ![c] = IF IsRouted(c) THEN "routed" ELSE "unrouted"]
  /\ UNCHANGED <<recordVars, threadVars, jobVars, thread, viewed, crashes>>

\* ... routes a claim it did not find, in a second statement ...
RouteOnDemand(c) ==
  /\ request[c] = "unrouted"
  /\ StoreFree
  /\ UpsertRoutedClaim(c, "on_demand")
  /\ request' = [request EXCEPT ![c] = "routed"]
  /\ UNCHANGED <<threadVars, jobVars, thread, viewed, crashes>>

\* ... and answers 500 when that statement raises ...
RouteOnDemandFails(c) ==
  /\ request[c] = "unrouted"
  /\ StoreFree
  /\ Drops
  /\ UNCHANGED recordVars \/ (LostAcks /\ UpsertRoutedClaim(c, "on_demand"))
  /\ request' = [request EXCEPT ![c] = "none"]
  /\ UNCHANGED <<threadVars, jobVars, thread, viewed, crashes>>

\* RunRegistry.start mints a run id unless the claim's last thread is alive.
Launch(c, r) ==
  /\ pc[r] = "unborn"
  /\ pc' = [pc EXCEPT ![r] = "waiting"]
  /\ proc' = [proc EXCEPT ![r] = "app"]
  /\ target' = [target EXCEPT ![r] = c]
  /\ thread' = [thread EXCEPT ![c] = r]
  /\ UNCHANGED <<verdict, branch, redial>>

IsRunning(c) == thread[c] # NoRun /\ Alive(thread[c])

\* ... and asks the registry for a Run.
StartRequested(c) ==
  /\ request[c] = "routed"
  /\ request' = [request EXCEPT ![c] = "none"]
  /\ IF IsRunning(c) THEN UNCHANGED <<threadVars, thread>>
                     ELSE \E r \in Runs : Launch(c, r)
  /\ UNCHANGED <<recordVars, jobVars, viewed, crashes>>

\* GET .../claims/{id}: the reviewer opens the Brief.
ViewBrief(c) ==
  /\ StoreFree
  /\ brief[c] # NoRun
  /\ viewed' = [viewed EXCEPT ![c] = brief[c]]
  /\ UNCHANGED <<recordVars, threadVars, jobVars, thread, request, crashes>>

\* POST .../disposition: the outcome of the Brief on screen.
Dispose(c) ==
  /\ StoreFree
  /\ viewed[c] # NoRun
  /\ RecordDisposition(c, viewed[c])
  /\ UNCHANGED <<threadVars, jobVars, webVars, crashes>>

-----------------------------------------------------------------------------
(* The nightly job: route_claims, then build_briefs. *)

\* Fault: the pass starts from an empty queue.
BeginRoutingAfresh ==
  /\ job = "idle"
  /\ job' = "routing"
  /\ worklist' = RuleClaims
  /\ anchor' = TRUE
  /\ runState' = [c \in Claims |-> "absent"]
  /\ activeRun' = [c \in Claims |-> NoRun]
  /\ UNCHANGED <<routedBy, stale, runRow, brief, disposition, threadVars, jobConn, webVars, crashes>>

\* Without a generation manifest there is no anchor date, and no row to route.
BeginRouting ==
  /\ job = "idle"
  /\ job' = "routing"
  /\ \/ RecordAnchorDate /\ worklist' = RuleClaims
     \/ UNCHANGED recordVars /\ worklist' = {}
  /\ UNCHANGED <<threadVars, jobConn, webVars, crashes>>

RouteClaim(c) ==
  /\ job = "routing"
  /\ c \in worklist
  /\ UpsertRoutedClaim(c, "rule")
  /\ worklist' = worklist \ {c}
  /\ UNCHANGED <<threadVars, job, jobConn, webVars, crashes>>

\* A query or a store call of the task raises: the later tasks never run.
RoutingFails ==
  /\ job = "routing"
  /\ job' = "idle"
  /\ worklist' = {}
  /\ UNCHANGED <<recordVars, threadVars, jobConn, webVars, crashes>>

\* work_queue takes one snapshot of the queue, over a fresh connection ...
BeginBuilding ==
  /\ job = "routing"
  /\ worklist = {}
  /\ job' = "building"
  /\ worklist' = PendingClaims(NightlyCap)
  /\ UNCHANGED <<recordVars, threadVars, jobConn, webVars, crashes>>

JobIdle == \A r \in Runs : proc[r] = "job" => ~Alive(r)

\* ... and works it newest report first, one Run after the other.
BuildNext(c, r) ==
  /\ job = "building"
  /\ JobIdle
  /\ c \in worklist
  /\ \A d \in worklist : ReportRank[d] <= ReportRank[c]
  /\ pc[r] = "unborn"
  /\ pc' = [pc EXCEPT ![r] = "claiming"]
  /\ proc' = [proc EXCEPT ![r] = "job"]
  /\ target' = [target EXCEPT ![r] = c]
  /\ worklist' = worklist \ {c}
  /\ UNCHANGED <<recordVars, verdict, branch, redial, job, jobConn, webVars, crashes>>

EndBuilding ==
  /\ job = "building"
  /\ JobIdle
  /\ worklist = {}
  /\ job' = "idle"
  /\ jobConn' = TRUE
  /\ UNCHANGED <<recordVars, threadVars, worklist, webVars, crashes>>

-----------------------------------------------------------------------------
(* The environment. *)

\* A process is killed: its threads die where they stand, and what it kept
\* in memory is gone.  The record and the branches stay as they are.
Kill(p) ==
  /\ crashes < MaxCrashes
  /\ crashes' = crashes + 1
  /\ pc' = [r \in Runs |-> IF proc[r] = p /\ Alive(r) THEN "dead" ELSE pc[r]]
  /\ redial' = [r \in Runs |-> redial[r] /\ proc[r] # p]
  /\ UNCHANGED <<recordVars, proc, target, verdict, branch, viewed>>

CrashApp ==
  /\ Kill("app")
  /\ thread' = [c \in Claims |-> NoRun]
  /\ request' = [c \in Claims |-> "none"]
  /\ UNCHANGED jobVars

CrashJob ==
  /\ job # "idle"
  /\ Kill("job")
  /\ job' = "idle"
  /\ worklist' = {}
  /\ jobConn' = TRUE
  /\ UNCHANGED <<thread, request>>

\* Time: the row of a Run in progress goes stale, a branch reaches its TTL.
\* Timely says that neither happens under a Run that is still at work.
Elapse(c) ==
  /\ Timely => \A r \in Runs : ~(target[r] = c /\ Owns(r))
  /\ GoStale(c)
  /\ UNCHANGED <<threadVars, jobVars, webVars, crashes>>

ExpireBranch(r) ==
  /\ branch[r]
  /\ Timely => ~Forked(r)
  /\ branch' = [branch EXCEPT ![r] = FALSE]
  /\ UNCHANGED <<recordVars, pc, proc, target, verdict, redial, jobVars, webVars, crashes>>

-----------------------------------------------------------------------------
Next ==
  \/ \E r \in Runs : RunStep(r)
  \/ \E c \in Claims :
       \/ PrepareBrief(c) \/ RouteOnDemand(c) \/ RouteOnDemandFails(c)
       \/ StartRequested(c)
       \/ ViewBrief(c) \/ Dispose(c)
       \/ RouteClaim(c) \/ Elapse(c)
       \/ \E r \in Runs : BuildNext(c, r)
  \/ BeginRouting \/ RoutingFails \/ BeginBuilding \/ EndBuilding
  \/ CrashApp \/ CrashJob
  \/ \E r \in Runs : ExpireBranch(r)

Spec == Init /\ [][Next]_vars

-----------------------------------------------------------------------------
(* Whatever the faults. *)

\* A Brief reaches main only out of the promotion of a Run whose execute
\* returned it whole (harness.py:352; ADR-0017: "a half-written Brief can
\* never exist on main").
WholeBriefStep ==
  \A c \in Claims : brief'[c] # brief[c] =>
    /\ brief'[c] \in Runs
    /\ verdict[brief'[c]] = "built"
    /\ target[brief'[c]] = c
OnlyWholeBriefs == [][WholeBriefStep]_vars

-----------------------------------------------------------------------------
(* When Runs are timely and no acknowledgement is lost. *)

\* The claim row is the Run's lock: a Run that still has its claim row to
\* write is the active Run of a claim in progress.  In particular no two
\* Runs of one claim are at work, whichever processes they run in.
OwnersAreActive ==
  \A r \in Runs : Owns(r) =>
    runState[target[r]] = "in_progress" /\ activeRun[target[r]] = r

\* Failed Runs promote nothing (ADR-0017) and nothing un-promotes: a Brief on
\* main is that of a completed Run, and its claim is brief_ready for good.
BriefsAreFinal ==
  \A c \in Claims : brief[c] # NoRun =>
    runStatus[brief[c]] = "completed" /\ runState[c] = "brief_ready"

\* The recorded human outcome is about the Brief that is on main, not about
\* one that a later Run has replaced.
DispositionsFitBriefs ==
  \A c \in Claims : disposition[c] # NoRun => disposition[c] = brief[c]

\* The record keeps the promise of module BriefPromise to its readers.
Promise == INSTANCE BriefPromise
             WITH phase <- runState, owner <- activeRun, published <- brief
KeepsPromise == Promise!PromiseSpec

\* What run_status answers for a Run id (api.py:87-92).
ApiStatus(r) ==
  IF HasRow(r) THEN runStatus[r]
  ELSE IF pc[r] = "unborn" THEN "unborn"
  ELSE IF Alive(r) THEN "minted" ELSE "lost"

\* get_claim's active_run: NULL while the active Run has no record yet.
ApiActive(c) == IF activeRun[c] # NoRun /\ HasRow(activeRun[c]) THEN activeRun[c] ELSE NoRun

\* A client of the API sees what module BriefService promises: a Run that is
\* over stays over, one Run at a time per claim, a Brief is published by the
\* step that completes its Run and never again.
Service == INSTANCE BriefService
             WITH status <- [r \in Runs |-> ApiStatus(r)], claimOf <- target,
                  active <- [c \in Claims |-> ApiActive(c)], published <- brief
ServesTheApi == Service!ServiceSpec

-----------------------------------------------------------------------------
(* When no process is killed, no branch call fails and there is no demo hold. *)

\* Every Working Branch on the platform is the one of a Run that is still to
\* delete it, and each process has at most one (design spec: "one Working
\* Branch alive at a time"; lakebase.py:94-95).
BranchesAreAttended ==
  /\ \A r \in Runs : branch[r] => Forked(r)
  /\ \A q, r \in Runs : branch[q] /\ branch[r] /\ proc[q] = proc[r] => q = r
-----------------------------------------------------------------------------
(* Liveness.  The threads of the app and of the job are scheduled and the   *)
(* calls they make return or raise (the SDK's waiters, Genie and the        *)
(* warehouse poll all give up in the end), so a Run that can step does.  The *)
(* registry's lock is a threading.Lock, which promises no order: a weakly    *)
(* fair AcquireSerial is enough because only finitely many threads compete.  *)

FairSpec ==
  /\ Spec
  /\ \A r \in Runs : WF_vars(RunStep(r))

\* Without crashes or drops every Run that enters run_brief settles its claim:
\* no claim stays in progress for ever, whatever fails in the Run itself or in
\* its branch (harness.py:339-374).
ClaimsSettle ==
  \A c \in Claims :
    runState[c] = "in_progress" ~> runState[c] \in {"queued", "brief_ready"}

\* A Run waiting for the registry's lock gets its turn and ends: no thread
\* waits for ever on the lock that another one holds (runner.py:84-86).
WaitersEnd ==
  \A r \in Runs : pc[r] = "waiting" ~> pc[r] = "done"

-----------------------------------------------------------------------------
(* What the documentation says and the code does not do. *)

\* runner.py:6-8: after a Run was killed "the store's stale-claim rule lets
\* the next nightly pass or on-demand request reclaim it".
ReclaimStep ==
  job = "routing" /\ job' = "building" =>
    {c \in Claims : runState[c] = "in_progress" /\ stale[c]} \subseteq worklist'
NightlyReclaimsStale == [][ReclaimStep]_vars

\* ADR-0017, "Failed Runs promote nothing"; the design spec, section 6.1.
FailedRunsPromoteNothing ==
  \A c \in Claims : brief[c] # NoRun => runStatus[brief[c]] # "failed"
=============================================================================
