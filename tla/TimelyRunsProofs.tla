-------------------------- MODULE TimelyRunsProofs --------------------------
(***************************************************************************)
(* What holds of the Runs when a live Run neither outlives the staleness   *)
(* rule nor its branch's TTL (Timely) and no acknowledgement of a commit   *)
(* is lost (~LostAcks), for any number of claims, Runs and crashes, with   *)
(* connections dropped before a commit and branch calls failing.           *)
(*                                                                         *)
(* The argument: the claim row is a lock.  claim_run takes it only when it *)
(* is free or stale, a live Run's row is never stale, so the row of a Run  *)
(* at work names that Run until the Run itself writes it.  Hence two Runs  *)
(* never promote Briefs of one claim, and what depends on a Brief stays    *)
(* true of it.                                                             *)
(***************************************************************************)
EXTENDS ReviewRunsProofs

\* Teardown starts with the Run promoted or failed.
VerdictsFit ==
  \A r \in Runs : pc[r] \in Teardown => verdict[r] \in {"promoted", "failed"}

\* The row of a Run that is still to write it is never stale.
OwnersAreFresh == \A r \in Runs : Owns(r) => ~stale[target[r]]

LockInv == VerdictsFit /\ OwnersAreActive /\ OwnersAreFresh

\* The reviewer's screen shows the Brief that is on main.
ViewsFit == \A c \in Claims : viewed[c] # NoRun => viewed[c] = brief[c]

BriefInv == BriefsAreFinal /\ ViewsFit /\ DispositionsFitBriefs

\* A row names a Run only after that Run claimed it, and a Run claims one row;
\* no method of the store writes "failed" to routed_claim, though claim_run
\* allows for it.
ActiveRunsClaimed ==
  /\ \A c \in Claims : activeRun[c] # NoRun =>
       /\ pc[activeRun[c]] \notin {"unborn", "waiting", "claiming"}
       /\ target[activeRun[c]] = c
  /\ \A c \in Claims : runState[c] # "failed"

\* The record of a Run that is still to write it says "running".
OwnersAreRunning == \A r \in Runs : Owns(r) /\ HasRow(r) => runStatus[r] = "running"

TimelyInv ==
  /\ TypeOK /\ ThreadsCoherent /\ RecordInv /\ LockInv /\ BriefInv
  /\ ActiveRunsClaimed /\ OwnersAreRunning

-----------------------------------------------------------------------------
(* The steps of the system, sorted by what they do to the record. *)

\* A step of Run r: one of its four writes of the record, or none.
RunMoves(r) ==
  /\ UNCHANGED <<target, viewed>>
  /\ \A q \in Runs \ {r} : pc'[q] = pc[q] /\ verdict'[q] = verdict[q]
  /\ pc[r] \notin Ended /\ pc'[r] \notin {"unborn", "waiting"}
  /\ pc'[r] = "claiming" => pc[r] \in {"waiting", "claiming"}
  /\ pc'[r] \in Teardown => verdict'[r] \in {"promoted", "failed"}
  /\ \/ /\ pc[r] = "claiming" /\ pc'[r] = "starting"
        /\ ClaimRun(target[r], r)
     \/ /\ Owns(r)
        /\ StartRun(r, target[r])
     \/ /\ Owns(r) /\ pc'[r] \in Teardown /\ verdict'[r] = "promoted"
        /\ CompleteRun(r, target[r])
     \/ /\ Owns(r) /\ pc'[r] = "done"
        /\ FailRun(r, target[r])
     \/ /\ UNCHANGED recordVars
        /\ pc'[r] \in Claimed \/ (pc'[r] \in Teardown /\ verdict'[r] = "failed") => Owns(r)

\* Any other step: no Run gains a claim, and the record sees a routing, a
\* disposition, the passage of time, or nothing.
DriverMoves ==
  /\ \A r \in Runs :
       \/ pc'[r] = pc[r] /\ verdict'[r] = verdict[r] /\ target'[r] = target[r]
       \/ pc[r] = "unborn" /\ pc'[r] \in {"waiting", "claiming"}
       \/ pc[r] \notin Ended /\ pc'[r] = "dead" /\ target'[r] = target[r]
  /\ \A c \in Claims : viewed'[c] = viewed[c] \/ viewed'[c] = brief[c]
  /\ \/ \E c \in Claims : \E by \in Origins : UpsertRoutedClaim(c, by) /\ UNCHANGED viewed
     \/ \E c \in Claims : viewed[c] # NoRun /\ RecordDisposition(c, viewed[c]) /\ UNCHANGED viewed
     \/ \E c \in Claims : /\ \A r \in Runs : ~(target[r] = c /\ Owns(r))
                          /\ GoStale(c)
                          /\ UNCHANGED viewed
     \/ UNCHANGED <<claimRow, runRow, brief, disposition>>

LEMMA RunStepMoves ==
  ASSUME ~LostAcks, TypeOK, ThreadsCoherent, VerdictsFit, NEW r \in Runs, RunStep(r)
  PROVE  RunMoves(r)
<1> USE DEF TypeOK, PCs, Claimed, Teardown, Ended, VerdictsFit, RunMoves, Owns, webVars
<1>1. CASE AcquireSerial(r)
  BY <1>1 DEF AcquireSerial, Goto
<1>2. CASE Claim(r)
  BY <1>2 DEF Claim, Dropped, Raises, RaisesAtOnce, Returns, Goto
<1>3. CASE Start(r)
  BY <1>3 DEF Start, Dropped, Raises, RaisesAtOnce, Returns, Goto
<1>4. CASE ExecuteAborts(r)
  BY <1>4 DEF ExecuteAborts, Dropped, Raises, RaisesAtOnce, Returns, Goto
<1>5. CASE Fork(r)
  BY <1>5 DEF Fork
<1>6. CASE Execute(r)
  BY <1>6 DEF Execute, UpdateRun, Dropped, Raises, RaisesAtOnce, Returns, Goto, TeardownFrom
<1>7. CASE Promote(r)
  BY <1>7 DEF Promote, Dropped, Raises, RaisesAtOnce, Returns, Goto, TeardownFrom
<1>8. CASE Hold(r)
  BY <1>8 DEF Hold, UpdateRun, Dropped, Raises, RaisesAtOnce, Returns, Goto, AfterException
<1>9. CASE DeleteBranch(r)
  BY <1>9 DEF DeleteBranch, AfterException
<1>10. CASE MarkDeleted(r)
  BY <1>10 DEF MarkDeleted, UpdateRun, Dropped, Raises, RaisesAtOnce, Returns, Goto, AfterTeardown, AfterException
<1>11. CASE Excuse(r)
  BY <1>11 DEF Excuse, UpdateRun, Dropped, Raises, RaisesAtOnce, Returns, Goto
<1>12. CASE Fail(r)
  BY <1>12 DEF Fail, Dropped, Raises, RaisesAtOnce, Returns, Goto
<1>13. QED
  BY <1>1, <1>2, <1>3, <1>4, <1>5, <1>6, <1>7, <1>8, <1>9, <1>10, <1>11, <1>12 DEF RunStep

LEMMA NextMoves ==
  ASSUME Timely, ~LostAcks, TypeOK, ThreadsCoherent, VerdictsFit, [Next]_vars
  PROVE  DriverMoves \/ \E r \in Runs : RunMoves(r)
<1> USE DEF TypeOK, DriverMoves, recordVars, threadVars, webVars
<1>1. ASSUME NEW r \in Runs, RunStep(r) PROVE RunMoves(r)
  BY <1>1, RunStepMoves
<1>2. ASSUME NEW c \in Claims, PrepareBrief(c) PROVE DriverMoves
  BY <1>2 DEF PrepareBrief
<1>3. ASSUME NEW c \in Claims, RouteOnDemand(c) PROVE DriverMoves
  BY <1>3 DEF RouteOnDemand, Origins
<1>4. ASSUME NEW c \in Claims, RouteOnDemandFails(c) PROVE DriverMoves
  BY <1>4 DEF RouteOnDemandFails
<1>5. ASSUME NEW c \in Claims, StartRequested(c) PROVE DriverMoves
  BY <1>5 DEF StartRequested, Launch
<1>6. ASSUME NEW c \in Claims, ViewBrief(c) PROVE DriverMoves
  BY <1>6 DEF ViewBrief
<1>7. ASSUME NEW c \in Claims, Dispose(c) PROVE DriverMoves
  BY <1>7 DEF Dispose
<1>8. ASSUME NEW c \in Claims, RouteClaim(c) PROVE DriverMoves
  BY <1>8 DEF RouteClaim, Origins
<1>9. ASSUME NEW c \in Claims, Elapse(c) PROVE DriverMoves
  BY <1>9 DEF Elapse
<1>10. ASSUME NEW c \in Claims, NEW r \in Runs, BuildNext(c, r) PROVE DriverMoves
  BY <1>10 DEF BuildNext
<1>11. CASE BeginRouting
  BY <1>11 DEF BeginRouting, RecordAnchorDate
<1>12. CASE RoutingFails
  BY <1>12 DEF RoutingFails
<1>13. CASE BeginBuilding
  BY <1>13 DEF BeginBuilding
<1>14. CASE EndBuilding
  BY <1>14 DEF EndBuilding
<1>15. CASE CrashApp
  BY <1>15 DEF CrashApp, Kill, Alive
<1>16. CASE CrashJob
  BY <1>16 DEF CrashJob, Kill, Alive
<1>17. ASSUME NEW r \in Runs, ExpireBranch(r) PROVE DriverMoves
  BY <1>17 DEF ExpireBranch
<1>18. CASE UNCHANGED vars
  BY <1>18 DEF vars
<1>19. QED
  BY <1>1, <1>2, <1>3, <1>4, <1>5, <1>6, <1>7, <1>8, <1>9, <1>10, <1>11, <1>12, <1>13, <1>14, <1>15, <1>16, <1>17, <1>18 DEF Next

-----------------------------------------------------------------------------
(* The claim row is a lock. *)

LEMMA LockStep ==
  ASSUME TypeOK, ThreadsCoherent, LockInv, DriverMoves \/ \E r \in Runs : RunMoves(r)
  PROVE  LockInv'
<1> USE NullAssumption
    DEF TypeOK, RecordTypeOK, LockInv, VerdictsFit, OwnersAreActive, OwnersAreFresh,
        Owns, Claimed, Teardown, Ended, ThreadsCoherent, Started
<1>1. ASSUME NEW r \in Runs, RunMoves(r) PROVE LockInv'
  <2> USE <1>1 DEF RunMoves
  <2>1. CASE pc[r] = "claiming" /\ pc'[r] = "starting" /\ ClaimRun(target[r], r)
    \* The row was free or stale, so no other Run owned it.
    <3>1. ASSUME NEW q \in Runs, Owns(q) PROVE target[q] # target[r]
      BY <2>1, <3>1 DEF ClaimRun, MayClaim
    <3>2. QED
      BY <2>1, <3>1 DEF ClaimRun
  <2>2. CASE Owns(r) /\ StartRun(r, target[r])
    BY <2>2 DEF StartRun, claimRow
  <2>3. CASE Owns(r) /\ pc'[r] \in Teardown /\ verdict'[r] = "promoted" /\ CompleteRun(r, target[r])
    BY <2>3 DEF CompleteRun
  <2>4. CASE Owns(r) /\ pc'[r] = "done" /\ FailRun(r, target[r])
    BY <2>4 DEF FailRun
  <2>5. CASE /\ UNCHANGED recordVars
             /\ pc'[r] \in Claimed \/ (pc'[r] \in Teardown /\ verdict'[r] = "failed") => Owns(r)
    BY <2>5 DEF recordVars, claimRow
  <2>6. QED
    BY <2>1, <2>2, <2>3, <2>4, <2>5
<1>2. ASSUME DriverMoves PROVE LockInv'
  <2>1. \A r \in Runs : Owns(r)' => Owns(r) /\ target'[r] = target[r]
    BY <1>2 DEF DriverMoves
  <2>2. VerdictsFit'
    BY <1>2 DEF DriverMoves
  <2>3. ASSUME NEW c \in Claims, NEW by \in Origins, UpsertRoutedClaim(c, by) PROVE LockInv'
    BY <2>1, <2>2, <2>3 DEF UpsertRoutedClaim
  <2>4. ASSUME NEW c \in Claims, \A r \in Runs : ~(target[r] = c /\ Owns(r)), GoStale(c) PROVE LockInv'
    BY <2>1, <2>2, <2>4 DEF GoStale
  <2>5. CASE UNCHANGED claimRow
    BY <2>1, <2>2, <2>5 DEF claimRow
  <2>6. QED
    BY <1>2, <2>3, <2>4, <2>5 DEF DriverMoves, RecordDisposition
<1>3. QED
  BY <1>1, <1>2

-----------------------------------------------------------------------------
(* What depends on a Brief stays true of it. *)

LEMMA BriefStep ==
  ASSUME TypeOK, ThreadsCoherent, RecordInv, LockInv, BriefInv,
         DriverMoves \/ \E r \in Runs : RunMoves(r)
  PROVE  BriefInv'
<1> USE NullAssumption
    DEF TypeOK, RecordTypeOK, BriefInv, BriefsAreFinal, ViewsFit, DispositionsFitBriefs
\* A claim whose row is taken, or may be, has no Brief and nothing that needs one.
<1>1. \A r \in Runs : Owns(r) => /\ target[r] \in Claims /\ brief[target[r]] = NoRun
                               /\ \A c \in Claims : brief[c] # r
  <2> SUFFICES ASSUME NEW r \in Runs, Owns(r)
               PROVE /\ target[r] \in Claims /\ brief[target[r]] = NoRun
                     /\ \A c \in Claims : brief[c] # r
    OBVIOUS
  <2>1. target[r] \in Claims
    BY DEF ThreadsCoherent, Owns, Claimed, Teardown
  <2>2. brief[target[r]] = NoRun
    BY <2>1 DEF LockInv, OwnersAreActive
  <2>3. ASSUME NEW c \in Claims, brief[c] = r PROVE FALSE
    BY <2>2, <2>3 DEF RecordInv, BriefsHaveRuns, ThreadsCoherent, HasRow
  <2>4. QED
    BY <2>1, <2>2, <2>3
<1>2. ASSUME NEW r \in Runs, RunMoves(r) PROVE BriefInv'
  <2> USE <1>1, <1>2 DEF RunMoves
  <2>1. CASE pc[r] = "claiming" /\ pc'[r] = "starting" /\ ClaimRun(target[r], r)
    BY <2>1 DEF ClaimRun, MayClaim, runRow
  <2>2. CASE Owns(r) /\ StartRun(r, target[r])
    BY <2>2 DEF StartRun, claimRow
  <2>3. CASE Owns(r) /\ pc'[r] \in Teardown /\ verdict'[r] = "promoted" /\ CompleteRun(r, target[r])
    BY <2>3 DEF CompleteRun
  <2>4. CASE Owns(r) /\ pc'[r] = "done" /\ FailRun(r, target[r])
    BY <2>4 DEF FailRun
  <2>5. CASE UNCHANGED recordVars
    BY <2>5 DEF recordVars, claimRow, runRow
  <2>6. QED
    BY <2>1, <2>2, <2>3, <2>4, <2>5
<1>3. ASSUME DriverMoves PROVE BriefInv'
  <2> USE <1>3 DEF DriverMoves
  <2>1. ASSUME NEW c \in Claims, NEW by \in Origins, UpsertRoutedClaim(c, by), UNCHANGED viewed PROVE BriefInv'
    BY <2>1 DEF UpsertRoutedClaim, runRow, RecordInv, ClaimRowsCoherent
  <2>2. ASSUME NEW c \in Claims, viewed[c] # NoRun, RecordDisposition(c, viewed[c]), UNCHANGED viewed PROVE BriefInv'
    BY <2>2 DEF RecordDisposition, claimRow, runRow
  <2>3. ASSUME NEW c \in Claims, GoStale(c), UNCHANGED viewed PROVE BriefInv'
    BY <2>3 DEF GoStale, runRow
  <2>4. CASE UNCHANGED <<claimRow, runRow, brief, disposition>>
    BY <2>4 DEF claimRow, runRow
  <2>5. QED
    BY <2>1, <2>2, <2>3, <2>4
<1>4. QED
  BY <1>2, <1>3

LEMMA ActiveRunsStep ==
  ASSUME TypeOK, ThreadsCoherent, ActiveRunsClaimed, DriverMoves \/ \E r \in Runs : RunMoves(r)
  PROVE  ActiveRunsClaimed'
<1> USE NullAssumption DEF TypeOK, RecordTypeOK, ActiveRunsClaimed
<1>1. ASSUME NEW r \in Runs, RunMoves(r) PROVE ActiveRunsClaimed'
  <2> USE <1>1 DEF RunMoves, Ended
  <2>1. CASE pc[r] = "claiming" /\ pc'[r] = "starting" /\ ClaimRun(target[r], r)
    BY <2>1 DEF ClaimRun, ThreadsCoherent
  <2>2. CASE StartRun(r, target[r])
    BY <2>2 DEF StartRun, claimRow
  <2>3. CASE CompleteRun(r, target[r])
    BY <2>3 DEF CompleteRun
  <2>4. CASE FailRun(r, target[r])
    BY <2>4 DEF FailRun
  <2>5. CASE UNCHANGED recordVars
    BY <2>5 DEF recordVars, claimRow
  <2>6. QED
    BY <2>1, <2>2, <2>3, <2>4, <2>5
<1>2. ASSUME DriverMoves PROVE ActiveRunsClaimed'
  <2> USE <1>2 DEF DriverMoves, Ended
  <2>1. ASSUME NEW c \in Claims, NEW by \in Origins, UpsertRoutedClaim(c, by) PROVE ActiveRunsClaimed'
    BY <2>1 DEF UpsertRoutedClaim
  <2>2. ASSUME NEW c \in Claims, GoStale(c) PROVE ActiveRunsClaimed'
    BY <2>2 DEF GoStale
  <2>3. CASE UNCHANGED claimRow
    BY <2>3 DEF claimRow
  <2>4. QED
    BY <2>1, <2>2, <2>3 DEF RecordDisposition
<1>3. QED
  BY <1>1, <1>2

LEMMA OwnersRunStep ==
  ASSUME TypeOK, ThreadsCoherent, OwnersAreRunning, DriverMoves \/ \E r \in Runs : RunMoves(r)
  PROVE  OwnersAreRunning'
<1> USE NullAssumption
    DEF TypeOK, RecordTypeOK, OwnersAreRunning, Owns, Claimed, Teardown, Ended, HasRow
<1>1. ASSUME NEW r \in Runs, RunMoves(r) PROVE OwnersAreRunning'
  <2> USE <1>1 DEF RunMoves
  <2>1. CASE pc[r] = "claiming" /\ pc'[r] = "starting" /\ ClaimRun(target[r], r)
    BY <2>1 DEF ClaimRun, runRow, ThreadsCoherent
  <2>2. CASE Owns(r) /\ StartRun(r, target[r])
    BY <2>2 DEF StartRun
  <2>3. CASE Owns(r) /\ pc'[r] \in Teardown /\ verdict'[r] = "promoted" /\ CompleteRun(r, target[r])
    BY <2>3 DEF CompleteRun
  <2>4. CASE Owns(r) /\ pc'[r] = "done" /\ FailRun(r, target[r])
    BY <2>4 DEF FailRun
  <2>5. CASE /\ UNCHANGED recordVars
             /\ pc'[r] \in Claimed \/ (pc'[r] \in Teardown /\ verdict'[r] = "failed") => Owns(r)
    BY <2>5 DEF recordVars, runRow
  <2>6. QED
    BY <2>1, <2>2, <2>3, <2>4, <2>5
<1>2. ASSUME DriverMoves PROVE OwnersAreRunning'
  <2>1. UNCHANGED runRow
    BY <1>2 DEF DriverMoves, UpsertRoutedClaim, RecordDisposition, GoStale
  <2>2. \A r \in Runs : Owns(r)' => Owns(r)
    BY <1>2 DEF DriverMoves
  <2>3. QED
    BY <2>1, <2>2 DEF runRow
<1>3. QED
  BY <1>1, <1>2

-----------------------------------------------------------------------------
(* The theorems. *)

LEMMA TimelyInvInit == Init => TimelyInv
<1> SUFFICES ASSUME Init PROVE TimelyInv
  OBVIOUS
<1>1. TypeOK /\ ThreadsCoherent /\ RecordInv
  BY TypeInit, CoherentInit, RecordInvInit DEF Init
<1>2. LockInv
  BY DEF Init, LockInv, VerdictsFit, OwnersAreActive, OwnersAreFresh, Owns, Claimed, Teardown
<1>3. OwnersAreRunning
  BY DEF Init, OwnersAreRunning, Owns, Claimed, Teardown
<1>4. BriefInv /\ ActiveRunsClaimed
  BY DEF Init, RecordInit, BriefInv, BriefsAreFinal, ViewsFit, DispositionsFitBriefs, ActiveRunsClaimed
<1>5. QED
  BY <1>1, <1>2, <1>3, <1>4 DEF TimelyInv

LEMMA TimelyInvStep ==
  ASSUME Timely, ~LostAcks, TimelyInv, [Next]_vars
  PROVE  TimelyInv'
<1>1. TypeOK' /\ ThreadsCoherent' /\ RecordInv'
  BY TypeStep, CoherentStep, NextOnRecord, RecordInvStep DEF TimelyInv
<1>2. DriverMoves \/ \E r \in Runs : RunMoves(r)
  BY NextMoves DEF TimelyInv, LockInv
<1>3. LockInv' /\ BriefInv' /\ ActiveRunsClaimed' /\ OwnersAreRunning'
  BY <1>2, LockStep, BriefStep, ActiveRunsStep, OwnersRunStep DEF TimelyInv
<1>4. QED
  BY <1>1, <1>3 DEF TimelyInv

LEMMA TimelyInvHolds == ASSUME Timely, ~LostAcks PROVE Spec => []TimelyInv
<1>1. Init => TimelyInv
  BY TimelyInvInit
<1>2. TimelyInv /\ [Next]_vars => TimelyInv'
  BY TimelyInvStep
<1>3. QED
  BY <1>1, <1>2, PTL DEF Spec

\* A Run that still has its claim row to write is the active Run of a claim in
\* progress, so no two Runs of one claim are at work, in whichever processes
\* (claim_run, store.py:243-248, as the lock of run_brief).
THEOREM OwnersStayActive == ASSUME Timely, ~LostAcks PROVE Spec => []OwnersAreActive
<1>1. TimelyInv => OwnersAreActive
  BY DEF TimelyInv, LockInv
<1>2. QED
  BY <1>1, TimelyInvHolds, PTL

\* A promoted Brief is final: failed Runs promote nothing and nothing takes a
\* claim out of brief_ready (harness.py:339-374, ADR-0017).
THEOREM BriefsStayFinal == ASSUME Timely, ~LostAcks PROVE Spec => []BriefsAreFinal
<1>1. TimelyInv => BriefsAreFinal
  BY DEF TimelyInv, BriefInv
<1>2. QED
  BY <1>1, TimelyInvHolds, PTL

\* The recorded human outcome is about the Brief that is on main, although
\* record_disposition (store.py:324-335) names only the claim.
THEOREM DispositionsStayFit == ASSUME Timely, ~LostAcks PROVE Spec => []DispositionsFitBriefs
<1>1. TimelyInv => DispositionsFitBriefs
  BY DEF TimelyInv, BriefInv
<1>2. QED
  BY <1>1, TimelyInvHolds, PTL

\* A step of the system is a step of the promise, or a stutter.
LEMMA PromiseStep ==
  ASSUME Timely, ~LostAcks, TimelyInv, [Next]_vars
  PROVE  [Promise!PromiseNext]_(Promise!promiseVars)
<1> USE NullAssumption
    DEF TimelyInv, TypeOK, RecordTypeOK, Promise!promiseVars, Promise!PromiseNext
<1>1. DriverMoves \/ \E r \in Runs : RunMoves(r)
  BY NextMoves DEF LockInv
<1>2. ASSUME NEW r \in Runs, RunMoves(r) PROVE [Promise!PromiseNext]_(Promise!promiseVars)
  <2> USE <1>2 DEF RunMoves
  <2>1. ASSUME Owns(r) PROVE /\ target[r] \in Claims
                             /\ runState[target[r]] = "in_progress"
                             /\ activeRun[target[r]] = r
                             /\ brief[target[r]] = NoRun
    BY <2>1 DEF ThreadsCoherent, Owns, Claimed, Teardown, LockInv, OwnersAreActive, BriefInv, BriefsAreFinal
  <2>2. CASE pc[r] = "claiming" /\ ClaimRun(target[r], r)
    <3>1. target[r] \in Claims
      BY <2>2 DEF ThreadsCoherent
    <3>2. Promise!Prepare(target[r], r)
      BY <2>2, <3>1 DEF Promise!Prepare, ClaimRun, MayClaim, ActiveRunsClaimed
    <3>3. QED
      BY <3>1, <3>2
  <2>3. CASE Owns(r) /\ StartRun(r, target[r])
    BY <2>3 DEF StartRun, claimRow
  <2>4. CASE Owns(r) /\ CompleteRun(r, target[r])
    <3>1. Promise!Publish(target[r])
      BY <2>1, <2>4 DEF Promise!Publish, CompleteRun
    <3>2. QED
      BY <2>1, <2>4, <3>1
  <2>5. CASE Owns(r) /\ FailRun(r, target[r])
    <3>1. Promise!GiveUp(target[r])
      BY <2>1, <2>5 DEF Promise!GiveUp, FailRun
    <3>2. QED
      BY <2>1, <2>5, <3>1
  <2>6. CASE UNCHANGED recordVars
    BY <2>6 DEF recordVars, claimRow
  <2>7. QED
    BY <2>2, <2>3, <2>4, <2>5, <2>6
<1>3. ASSUME DriverMoves PROVE [Promise!PromiseNext]_(Promise!promiseVars)
  <2>1. ASSUME NEW c \in Claims, NEW by \in Origins, UpsertRoutedClaim(c, by)
        PROVE  Promise!Enqueue(c) \/ UNCHANGED Promise!promiseVars
    BY <2>1 DEF UpsertRoutedClaim, Promise!Enqueue
  <2>2. ASSUME NEW c \in Claims, GoStale(c) PROVE UNCHANGED Promise!promiseVars
    BY <2>2 DEF GoStale
  <2>3. CASE UNCHANGED <<claimRow, brief>>
    BY <2>3 DEF claimRow
  <2>4. QED
    BY <1>3, <2>1, <2>2, <2>3 DEF DriverMoves, RecordDisposition
<1>4. QED
  BY <1>1, <1>2, <1>3

\* The whole system implements BriefPromise: a claim is prepared by one Run at a
\* time, its Brief is published once and by that Run, and a failed or dead Run
\* gives the claim up or is replaced (store.py claim_run, complete_run, fail_run).
THEOREM RunsKeepPromise == ASSUME Timely, ~LostAcks PROVE Spec => KeepsPromise
<1>1. Init => Promise!PromiseInit
  BY DEF Init, RecordInit, Promise!PromiseInit
<1>2. TimelyInv /\ [Next]_vars => [Promise!PromiseNext]_(Promise!promiseVars)
  BY PromiseStep
<1>3. QED
  BY <1>1, <1>2, TimelyInvHolds, PTL DEF Spec, KeepsPromise, Promise!PromiseSpec

-----------------------------------------------------------------------------
(* The review API. *)

\* What the clients of the API can see stays as it is.
LEMMA UnseenServes ==
  ASSUME UNCHANGED <<pc, target, activeRun, runRow, brief>>
  PROVE  UNCHANGED Service!serviceVars
<1>1. \A r : ApiStatus(r)' = ApiStatus(r)
  BY DEF ApiStatus, HasRow, Alive, Ended, runRow
<1>2. \A c : ApiActive(c)' = ApiActive(c)
  BY DEF ApiActive, HasRow, runRow
<1>3. QED
  BY <1>1, <1>2 DEF Service!serviceVars

\* Threads go on or end.
ThreadsEnd ==
  /\ UNCHANGED <<target, activeRun, runRow, brief>>
  /\ \A r \in Runs : pc'[r] = pc[r] \/ (Alive(r) /\ pc'[r] # "unborn")

\* Some Runs end, and of the API's Runs those that never got a record are lost.
LEMMA EndedServes ==
  ASSUME ThreadsEnd
  PROVE  [Service!ServiceNext]_(Service!serviceVars)
<1> USE DEF ThreadsEnd
<1> DEFINE lost == {r \in Runs : ~HasRow(r) /\ Alive(r) /\ pc'[r] \in Ended}
<1>1. \A r \in Runs : r \in lost => ApiStatus(r) = "minted"
  BY DEF ApiStatus, Alive, Ended
<1>2. \A r \in Runs : ApiStatus(r)' = IF r \in lost THEN "lost" ELSE ApiStatus(r)
  BY DEF ApiStatus, HasRow, Alive, Ended, runRow
<1>3. \A c : ApiActive(c)' = ApiActive(c)
  BY DEF ApiActive, HasRow, runRow
<1>4. Service!Drop(lost)
  <2> HIDE DEF lost
  <2>1. lost \subseteq Runs
    BY DEF lost
  <2>2. QED
    BY <1>1, <1>2, <1>3, <2>1 DEF Service!Drop
<1>5. QED
  BY <1>4 DEF Service!ServiceNext

\* A Run is born with its claim, in the app or in the job.
LEMMA BornServes ==
  ASSUME TypeOK, ThreadsCoherent, NEW c \in Claims, NEW r \in Runs, NEW where \in {"waiting", "claiming"},
         pc[r] = "unborn", pc' = [pc EXCEPT ![r] = where], target' = [target EXCEPT ![r] = c],
         UNCHANGED <<activeRun, runRow, brief>>
  PROVE  [Service!ServiceNext]_(Service!serviceVars)
<1>1. ~HasRow(r)
  BY DEF ThreadsCoherent
<1>2. \A q \in Runs : ApiStatus(q)' = IF q = r THEN "minted" ELSE ApiStatus(q)
  BY <1>1 DEF ApiStatus, HasRow, Alive, Ended, runRow, TypeOK
<1>3. ApiStatus(r) = "unborn"
  BY <1>1 DEF ApiStatus
<1>4. \A d : ApiActive(d)' = ApiActive(d)
  BY DEF ApiActive, HasRow, runRow
<1>5. Service!Mint(c, r)
  BY <1>2, <1>3, <1>4 DEF Service!Mint, TypeOK
<1>6. QED
  BY <1>5 DEF Service!ServiceNext

\* The drivers and the environment mint Runs and lose them, and no more.
LEMMA DriverServes ==
  ASSUME TypeOK, ThreadsCoherent, [Next]_vars, ~\E r \in Runs : RunStep(r)
  PROVE  [Service!ServiceNext]_(Service!serviceVars)
<1> USE DEF TypeOK, recordVars, claimRow, threadVars
<1>1. ASSUME NEW c \in Claims, PrepareBrief(c) PROVE UNCHANGED Service!serviceVars
  BY <1>1, UnseenServes DEF PrepareBrief
<1>2. ASSUME NEW c \in Claims, RouteOnDemand(c) PROVE UNCHANGED Service!serviceVars
  BY <1>2, UnseenServes DEF RouteOnDemand, UpsertRoutedClaim
<1>3. ASSUME NEW c \in Claims, RouteOnDemandFails(c) PROVE UNCHANGED Service!serviceVars
  BY <1>3, UnseenServes DEF RouteOnDemandFails, UpsertRoutedClaim
<1>4. ASSUME NEW c \in Claims, StartRequested(c) PROVE [Service!ServiceNext]_(Service!serviceVars)
  BY <1>4, UnseenServes, BornServes DEF StartRequested, Launch
<1>5. ASSUME NEW c \in Claims, ViewBrief(c) PROVE UNCHANGED Service!serviceVars
  BY <1>5, UnseenServes DEF ViewBrief
<1>6. ASSUME NEW c \in Claims, Dispose(c) PROVE UNCHANGED Service!serviceVars
  BY <1>6, UnseenServes DEF Dispose, RecordDisposition
<1>7. ASSUME NEW c \in Claims, RouteClaim(c) PROVE UNCHANGED Service!serviceVars
  BY <1>7, UnseenServes DEF RouteClaim, UpsertRoutedClaim
<1>8. ASSUME NEW c \in Claims, Elapse(c) PROVE UNCHANGED Service!serviceVars
  BY <1>8, UnseenServes DEF Elapse, GoStale
<1>9. ASSUME NEW c \in Claims, NEW r \in Runs, BuildNext(c, r)
      PROVE  [Service!ServiceNext]_(Service!serviceVars)
  BY <1>9, BornServes DEF BuildNext
<1>10. ASSUME BeginRouting \/ RoutingFails \/ BeginBuilding \/ EndBuilding
       PROVE  UNCHANGED Service!serviceVars
  BY <1>10, UnseenServes DEF BeginRouting, RecordAnchorDate, RoutingFails, BeginBuilding, EndBuilding
<1>11. ASSUME NEW p, Kill(p) PROVE [Service!ServiceNext]_(Service!serviceVars)
  <2>1. ThreadsEnd
    BY <1>11 DEF Kill, ThreadsEnd
  <2>2. QED
    BY <2>1, EndedServes
<1>12. ASSUME NEW r \in Runs, ExpireBranch(r) PROVE UNCHANGED Service!serviceVars
  BY <1>12, UnseenServes DEF ExpireBranch
<1>13. CASE UNCHANGED vars
  BY <1>13, UnseenServes DEF vars
<1>14. QED
  BY <1>1, <1>2, <1>3, <1>4, <1>5, <1>6, <1>7, <1>8, <1>9, <1>10, <1>11, <1>12, <1>13
  DEF Next, CrashApp, CrashJob

\* A Run takes over its claim, begins, publishes, gives up, or is lost.
LEMMA RunServes ==
  ASSUME TimelyInv, NEW r \in Runs, RunMoves(r)
  PROVE  [Service!ServiceNext]_(Service!serviceVars)
<1> USE NullAssumption DEF RunMoves, TypeOK, RecordTypeOK
<1>1. TypeOK /\ ThreadsCoherent
  BY DEF TimelyInv
<1>2. ASSUME Owns(r)
      PROVE  /\ target[r] \in Claims
             /\ activeRun[target[r]] = r
             /\ brief[target[r]] = NoRun
             /\ Alive(r) /\ pc[r] # "unborn"
             /\ ApiStatus(r) = IF HasRow(r) THEN "running" ELSE "minted"
  BY <1>2 DEF TimelyInv, ThreadsCoherent, Owns, Claimed, Teardown, LockInv, OwnersAreActive,
              BriefInv, BriefsAreFinal, OwnersAreRunning, ApiStatus, Alive, Ended
<1>3. \A q \in Runs \ {r} : Alive(q)' = Alive(q) /\ (pc'[q] = "unborn" <=> pc[q] = "unborn")
  BY DEF Alive
<1>4. CASE pc[r] = "claiming" /\ pc'[r] = "starting" /\ ClaimRun(target[r], r)
  <2>1. target[r] \in Claims /\ ~HasRow(r)
    BY <1>1, <1>4 DEF ThreadsCoherent
  <2>2. \A q \in Runs : ApiStatus(q)' = ApiStatus(q)
    BY <1>3, <1>4, <2>1 DEF ApiStatus, HasRow, Alive, Ended, ClaimRun, runRow
  <2>3. \A c \in Claims : ApiActive(c)' = IF c = target[r] THEN NoRun ELSE ApiActive(c)
    BY <1>1, <1>4, <2>1 DEF ApiActive, HasRow, ClaimRun, runRow
  <2>4. CASE ApiActive(target[r]) = NoRun
    <3>1. UNCHANGED Service!serviceVars
      BY <1>4, <2>2, <2>3, <2>4 DEF Service!serviceVars, ClaimRun
    <3>2. QED
      BY <3>1
  <2>5. CASE ApiActive(target[r]) # NoRun
    <3>1. Service!TakeOver(target[r])
      BY <1>4, <2>1, <2>2, <2>3, <2>5 DEF Service!TakeOver, ClaimRun
    <3>2. QED
      BY <2>1, <3>1 DEF Service!ServiceNext
  <2>6. QED
    BY <2>4, <2>5
<1>5. CASE Owns(r) /\ StartRun(r, target[r])
  <2>1. \A q \in Runs : ApiStatus(q)' = IF q = r THEN "running" ELSE ApiStatus(q)
    BY <1>1, <1>2, <1>3, <1>5 DEF ApiStatus, HasRow, StartRun
  <2>2. \A c \in Claims : ApiActive(c)' = IF c = target[r] THEN r ELSE ApiActive(c)
    <3>1. \A c \in Claims : c # target[r] => activeRun[c] # r
      BY DEF TimelyInv, ActiveRunsClaimed
    <3>2. QED
      BY <1>1, <1>2, <1>5, <3>1 DEF ApiActive, HasRow, StartRun, claimRow
  <2>3. ApiStatus(r) = "minted" /\ ApiActive(target[r]) = NoRun
    BY <1>2, <1>5 DEF StartRun, ApiActive
  <2>4. Service!Begin(r)
    BY <1>2, <1>5, <2>1, <2>2, <2>3 DEF Service!Begin, StartRun
  <2>5. QED
    BY <2>4 DEF Service!ServiceNext
<1>6. CASE Owns(r) /\ pc'[r] \in Teardown /\ CompleteRun(r, target[r])
  <2>1. \A q \in Runs : ApiStatus(q)' = IF q = r THEN "completed" ELSE ApiStatus(q)
    BY <1>1, <1>3, <1>6 DEF ApiStatus, HasRow, CompleteRun
  <2>2. \A c \in Claims : ApiActive(c)' = IF c = target[r] THEN NoRun ELSE ApiActive(c)
    BY <1>1, <1>2, <1>6 DEF ApiActive, HasRow, CompleteRun
  <2>3. ApiStatus(r) = "running" /\ ApiActive(target[r]) = r
    BY <1>2, <1>6 DEF CompleteRun, ApiActive
  <2>4. Service!Publish(r)
    BY <1>2, <1>6, <2>1, <2>2, <2>3 DEF Service!Publish, CompleteRun
  <2>5. QED
    BY <2>4 DEF Service!ServiceNext
<1>7. CASE Owns(r) /\ pc'[r] = "done" /\ FailRun(r, target[r])
  <2>1. \A c \in Claims : ApiActive(c)' = IF c = target[r] THEN NoRun ELSE ApiActive(c)
    BY <1>1, <1>2, <1>7 DEF ApiActive, HasRow, FailRun
  <2>2. CASE HasRow(r)
    <3>1. \A q \in Runs : ApiStatus(q)' = IF q = r THEN "failed" ELSE ApiStatus(q)
      BY <1>1, <1>3, <1>7, <2>2 DEF ApiStatus, HasRow, FailRun
    <3>2. ApiStatus(r) = "running" /\ ApiActive(target[r]) = r
      BY <1>2, <1>7, <2>2 DEF ApiActive
    <3>3. Service!GiveUp(r)
      BY <1>2, <1>7, <2>1, <3>1, <3>2 DEF Service!GiveUp, FailRun
    <3>4. QED
      BY <3>3 DEF Service!ServiceNext
  <2>3. CASE ~HasRow(r)
    <3>1. \A q \in Runs : ApiStatus(q)' = IF q \in {r} THEN "lost" ELSE ApiStatus(q)
      BY <1>1, <1>3, <1>7, <2>3 DEF ApiStatus, HasRow, FailRun, Alive, Ended
    <3>2. ApiStatus(r) = "minted" /\ ApiActive(target[r]) = NoRun
      BY <1>2, <1>7, <2>3 DEF ApiActive
    <3>3. Service!Drop({r})
      BY <1>2, <1>7, <2>1, <3>1, <3>2 DEF Service!Drop, FailRun
    <3>4. QED
      BY <3>3 DEF Service!ServiceNext
  <2>4. QED
    BY <2>2, <2>3
<1>8. CASE UNCHANGED recordVars
  <2>1. ThreadsEnd
    BY <1>8 DEF recordVars, claimRow, ThreadsEnd, Alive
  <2>2. QED
    BY <2>1, EndedServes
<1>9. QED
  BY <1>4, <1>5, <1>6, <1>7, <1>8

\* The whole system, seen through run_status and get_claim (api.py), behaves as
\* module BriefService says: the service that module ReviewView is built over.
THEOREM RunsServeTheApi == ASSUME Timely, ~LostAcks PROVE Spec => ServesTheApi
<1>1. Init => Service!ServiceInit
  <2> SUFFICES ASSUME Init PROVE Service!ServiceInit
    OBVIOUS
  <2>1. \A r \in Runs : ApiStatus(r) = "unborn"
    BY DEF Init, RecordInit, ApiStatus, HasRow
  <2>2. \A c \in Claims : ApiActive(c) = NoRun
    BY DEF Init, RecordInit, ApiActive
  <2>3. QED
    BY <2>1, <2>2 DEF Init, RecordInit, Service!ServiceInit
<1>2. TimelyInv /\ [Next]_vars => [Service!ServiceNext]_(Service!serviceVars)
  <2> SUFFICES ASSUME TimelyInv, [Next]_vars PROVE [Service!ServiceNext]_(Service!serviceVars)
    OBVIOUS
  <2>1. ASSUME NEW r \in Runs, RunStep(r) PROVE [Service!ServiceNext]_(Service!serviceVars)
    BY <2>1, RunStepMoves, RunServes DEF TimelyInv, LockInv
  <2>2. CASE ~\E r \in Runs : RunStep(r)
    BY <2>2, DriverServes DEF TimelyInv
  <2>3. QED
    BY <2>1, <2>2
<1>3. QED
  BY <1>1, <1>2, TimelyInvHolds, PTL DEF Spec, ServesTheApi, Service!ServiceSpec
=============================================================================
