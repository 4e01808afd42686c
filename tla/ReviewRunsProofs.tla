-------------------------- MODULE ReviewRunsProofs --------------------------
(***************************************************************************)
(* What holds of the Runs for any number of claims and Runs, any nightly   *)
(* cap and any number of crashes: what the review record guarantees        *)
(* whoever calls it, types, that the Runs are such callers, one Run at     *)
(* work in each process; and, where no process is killed, the platform     *)
(* answers and there is no demo hold, that no branch is left behind.       *)
(***************************************************************************)
EXTENDS ReviewRuns, TLAPS

-----------------------------------------------------------------------------
(* The record, whoever calls it. *)

\* A run row exists exactly when it has a status, and only of a routed claim
\* (the primary and foreign keys of review.run).
RunRowsCoherent ==
  \A r \in Runs :
    /\ HasRow(r) <=> runStatus[r] # "absent"
    /\ HasRow(r) => IsRouted(runClaim[r])

\* The inductive invariant: the promised parts need the run rows' own.
RecordInv ==
  /\ RecordTypeOK
  /\ RunRowsCoherent
  /\ ClaimRowsCoherent
  /\ BriefsHaveRuns
  /\ DispositionsHaveBriefs

LEMMA RecordInvInit == RecordInit => RecordInv
  BY NullAssumption, ZenonT(40)
  DEF RecordInit, RecordInv, RecordTypeOK, RunRowsCoherent, ClaimRowsCoherent,
      BriefsHaveRuns, DispositionsHaveBriefs, HasRow, IsRouted, Origins,
      RunStates, Statuses

\* Types are kept by every method of the store.
LEMMA RecordTypeStep == RecordTypeOK /\ [RecordNext]_recordVars => RecordTypeOK'
<1> SUFFICES ASSUME RecordTypeOK, [RecordNext]_recordVars PROVE RecordTypeOK'
  OBVIOUS
<1> USE NullAssumption DEF RecordTypeOK, claimRow, runRow, Origins, RunStates, Statuses, HasRow
<1>1. CASE RecordAnchorDate
  BY <1>1 DEF RecordAnchorDate
<1>2. ASSUME NEW c \in Claims, NEW by \in {"rule", "on_demand"}, UpsertRoutedClaim(c, by)
      PROVE  RecordTypeOK'
  BY <1>2 DEF UpsertRoutedClaim
<1>3. ASSUME NEW c \in Claims, NEW r \in Runs, ClaimRun(c, r)
      PROVE  RecordTypeOK'
  BY <1>3 DEF ClaimRun
<1>4. ASSUME NEW c \in Claims, NEW r \in Runs, StartRun(r, c)
      PROVE  RecordTypeOK'
  BY <1>4 DEF StartRun
<1>5. ASSUME NEW r \in Runs, HasRow(r), CompleteRun(r, runClaim[r])
      PROVE  RecordTypeOK'
  BY <1>5 DEF CompleteRun
<1>6. ASSUME NEW r \in Runs, HasRow(r), FailRun(r, runClaim[r])
      PROVE  RecordTypeOK'
  BY <1>6 DEF FailRun
<1>7. ASSUME NEW c \in Claims, NEW b \in Runs, RecordDisposition(c, b)
      PROVE  RecordTypeOK'
  BY <1>7 DEF RecordDisposition
<1>8. ASSUME NEW c \in Claims, GoStale(c)
      PROVE  RecordTypeOK'
  BY <1>8 DEF GoStale
<1>9. CASE UNCHANGED recordVars
  BY <1>9 DEF recordVars
<1>10. QED
  BY <1>1, <1>2, <1>3, <1>4, <1>5, <1>6, <1>7, <1>8, <1>9 DEF RecordNext

\* The invariant is inductive.  Each method disturbs only some of its parts:
\* the others follow from the rows it leaves alone.
LEMMA RecordInvStep == RecordInv /\ [RecordNext]_recordVars => RecordInv'
<1> SUFFICES ASSUME RecordInv, [RecordNext]_recordVars PROVE RecordInv'
  OBVIOUS
<1>t. RecordTypeOK /\ RecordTypeOK'
  BY RecordTypeStep DEF RecordInv
<1> USE <1>t, NullAssumption
    DEF RecordInv, RecordTypeOK, claimRow, runRow, RunRowsCoherent,
        ClaimRowsCoherent, BriefsHaveRuns, DispositionsHaveBriefs, HasRow, IsRouted
<1>1. CASE RecordAnchorDate
  BY <1>1 DEF RecordAnchorDate
<1>2. ASSUME NEW c \in Claims, NEW by \in {"rule", "on_demand"}, UpsertRoutedClaim(c, by)
      PROVE  RecordInv'
  BY <1>2 DEF UpsertRoutedClaim
<1>3. ASSUME NEW c \in Claims, NEW r \in Runs, ClaimRun(c, r)
      PROVE  RecordInv'
  BY <1>3 DEF ClaimRun, MayClaim
<1>4. ASSUME NEW c \in Claims, NEW r \in Runs, StartRun(r, c)
      PROVE  RecordInv'
  BY <1>4 DEF StartRun
<1>5. ASSUME NEW r \in Runs, HasRow(r), CompleteRun(r, runClaim[r])
      PROVE  RecordInv'
  BY <1>5 DEF CompleteRun
<1>6. ASSUME NEW r \in Runs, HasRow(r), FailRun(r, runClaim[r])
      PROVE  RecordInv'
  BY <1>6 DEF FailRun
<1>7. ASSUME NEW c \in Claims, NEW b \in Runs, RecordDisposition(c, b)
      PROVE  RecordInv'
  BY <1>7 DEF RecordDisposition
<1>8. ASSUME NEW c \in Claims, GoStale(c)
      PROVE  RecordInv'
  BY <1>8 DEF GoStale
<1>9. CASE UNCHANGED recordVars
  BY <1>9 DEF recordVars
<1>10. QED
  BY <1>1, <1>2, <1>3, <1>4, <1>5, <1>6, <1>7, <1>8, <1>9 DEF RecordNext

\* Type correctness of the record (store.py, schema.py).
THEOREM RecordTypeCorrect == RecordSpec => []RecordTypeOK
<1>1. RecordInit => RecordTypeOK
  BY RecordInvInit DEF RecordInv
<1>2. RecordTypeOK /\ [RecordNext]_recordVars => RecordTypeOK'
  BY RecordTypeStep
<1>3. QED
  BY <1>1, <1>2, PTL DEF RecordSpec

\* The inductive invariant holds of the record in every order of calls.
THEOREM RecordInvHolds == RecordSpec => []RecordInv
<1>1. RecordInit => RecordInv
  BY RecordInvInit
<1>2. RecordInv /\ [RecordNext]_recordVars => RecordInv'
  BY RecordInvStep
<1>3. QED
  BY <1>1, <1>2, PTL DEF RecordSpec

\* The states of a claim row are coherent (ClaimRowsCoherent), Briefs and Runs
\* fit each other (BriefsHaveRuns), and outcomes have Briefs
\* (DispositionsHaveBriefs), in every order of calls.
THEOREM RecordIsCoherent ==
  RecordSpec => [](ClaimRowsCoherent /\ BriefsHaveRuns /\ DispositionsHaveBriefs)
<1>1. RecordInv => ClaimRowsCoherent /\ BriefsHaveRuns /\ DispositionsHaveBriefs
  BY DEF RecordInv
<1>2. QED
  BY <1>1, RecordInvHolds, PTL

-----------------------------------------------------------------------------
(* The Runs. *)

\* A thread that left its start has a claim; from forking on its run row
\* exists; and the row, once there, is of the thread's claim.
Started == {"forking", "working", "promoting", "failing"} \cup Teardown
ThreadsCoherent ==
  \A r \in Runs :
    /\ pc[r] # "unborn" => target[r] \in Claims
    /\ pc[r] \in {"unborn", "waiting", "claiming"} => ~HasRow(r)
    /\ pc[r] \in Started => HasRow(r)
    /\ HasRow(r) => runClaim[r] = target[r]

LEMMA TypeInit == Init => TypeOK
  BY RecordInvInit, RunsAssumption
  DEF Init, TypeOK, RecordInv, PCs, Ended, Verdicts

-----------------------------------------------------------------------------
(* Every step of the system is a step of the record, or leaves it alone. *)

LEMMA RunStepOnRecord ==
  ASSUME TypeOK, ThreadsCoherent, NEW r \in Runs, RunStep(r)
  PROVE  [RecordNext]_recordVars
<1>1. CASE AcquireSerial(r)
  BY <1>1 DEF AcquireSerial, Goto, ThreadsCoherent, TypeOK, RecordTypeOK, Started
<1>2. CASE Claim(r)
  BY <1>2 DEF Claim, Dropped, Raises, RaisesAtOnce, Returns, Goto, ThreadsCoherent, TypeOK, RecordTypeOK, Started, RecordNext
<1>3. CASE Start(r)
  BY <1>3 DEF Start, Dropped, Raises, RaisesAtOnce, Returns, Goto, ThreadsCoherent, TypeOK, RecordTypeOK, Started, RecordNext
<1>4. CASE ExecuteAborts(r)
  BY <1>4 DEF ExecuteAborts, Dropped, Raises, RaisesAtOnce, Returns, Goto, ThreadsCoherent, TypeOK, RecordTypeOK, Started
<1>5. CASE Fork(r)
  BY <1>5 DEF Fork, ThreadsCoherent, TypeOK, RecordTypeOK, Started
<1>6. CASE Execute(r)
  BY <1>6 DEF Execute, UpdateRun, Dropped, Raises, RaisesAtOnce, Returns, Goto, ThreadsCoherent, TypeOK, RecordTypeOK, Started
<1>7. CASE Promote(r)
  BY <1>7 DEF Promote, Dropped, Raises, RaisesAtOnce, Returns, Goto, ThreadsCoherent, TypeOK, RecordTypeOK, Started, RecordNext, CompleteRun
<1>8. CASE Hold(r)
  BY <1>8 DEF Hold, UpdateRun, Dropped, Raises, RaisesAtOnce, Returns, Goto, ThreadsCoherent, TypeOK, RecordTypeOK, Started
<1>9. CASE DeleteBranch(r)
  BY <1>9 DEF DeleteBranch, ThreadsCoherent, TypeOK, RecordTypeOK, Started
<1>10. CASE MarkDeleted(r)
  BY <1>10 DEF MarkDeleted, UpdateRun, Dropped, Raises, RaisesAtOnce, Returns, Goto, ThreadsCoherent, TypeOK, RecordTypeOK, Started
<1>11. CASE Excuse(r)
  BY <1>11 DEF Excuse, UpdateRun, Dropped, Raises, RaisesAtOnce, Returns, Goto, ThreadsCoherent, TypeOK, RecordTypeOK, Started
<1>12. CASE Fail(r)
  BY <1>12 DEF Fail, Dropped, Raises, RaisesAtOnce, Returns, Goto, ThreadsCoherent, TypeOK, RecordTypeOK, Started, RecordNext
<1>13. QED
  BY <1>1, <1>2, <1>3, <1>4, <1>5, <1>6, <1>7, <1>8, <1>9, <1>10, <1>11, <1>12 DEF RunStep

\* The environment's and the endpoints' actions, by name, outside RunStep.
LEMMA NextOnRecord ==
  ASSUME TypeOK, ThreadsCoherent, [Next]_vars
  PROVE  [RecordNext]_recordVars
<1> USE DEF TypeOK, RecordTypeOK
<1>1. ASSUME NEW r \in Runs, RunStep(r) PROVE [RecordNext]_recordVars
  BY <1>1, RunStepOnRecord
<1>2. ASSUME NEW c \in Claims, PrepareBrief(c) PROVE [RecordNext]_recordVars
  BY <1>2 DEF PrepareBrief
<1>3. ASSUME NEW c \in Claims, RouteOnDemand(c) PROVE [RecordNext]_recordVars
  BY <1>3 DEF RouteOnDemand, RecordNext
<1>4. ASSUME NEW c \in Claims, RouteOnDemandFails(c) PROVE [RecordNext]_recordVars
  BY <1>4 DEF RouteOnDemandFails, RecordNext
<1>5. ASSUME NEW c \in Claims, StartRequested(c) PROVE [RecordNext]_recordVars
  BY <1>5 DEF StartRequested
<1>6. ASSUME NEW c \in Claims, ViewBrief(c) PROVE [RecordNext]_recordVars
  BY <1>6 DEF ViewBrief
<1>7. ASSUME NEW c \in Claims, Dispose(c) PROVE [RecordNext]_recordVars
  BY <1>7 DEF Dispose, RecordNext
<1>8. ASSUME NEW c \in Claims, RouteClaim(c) PROVE [RecordNext]_recordVars
  BY <1>8 DEF RouteClaim, RecordNext
<1>9. ASSUME NEW c \in Claims, Elapse(c) PROVE [RecordNext]_recordVars
  BY <1>9 DEF Elapse, RecordNext
<1>10. ASSUME NEW c \in Claims, NEW r \in Runs, BuildNext(c, r) PROVE [RecordNext]_recordVars
  BY <1>10 DEF BuildNext
<1>11. CASE BeginRouting
  BY <1>11 DEF BeginRouting, RecordNext
<1>12. CASE RoutingFails
  BY <1>12 DEF RoutingFails
<1>13. CASE BeginBuilding
  BY <1>13 DEF BeginBuilding
<1>14. CASE EndBuilding
  BY <1>14 DEF EndBuilding
<1>15. CASE CrashApp
  BY <1>15 DEF CrashApp, Kill
<1>16. CASE CrashJob
  BY <1>16 DEF CrashJob, Kill
<1>17. ASSUME NEW r \in Runs, ExpireBranch(r) PROVE [RecordNext]_recordVars
  BY <1>17 DEF ExpireBranch
<1>18. CASE UNCHANGED vars
  BY <1>18 DEF vars
<1>19. QED
  BY <1>1, <1>2, <1>3, <1>4, <1>5, <1>6, <1>7, <1>8, <1>9, <1>10, <1>11, <1>12, <1>13, <1>14, <1>15, <1>16, <1>17, <1>18 DEF Next

-----------------------------------------------------------------------------
(* Type correctness. *)

LEMMA RunStepType ==
  ASSUME TypeOK, RecordTypeOK', NEW r \in Runs, RunStep(r)
  PROVE  TypeOK'
<1> USE DEF TypeOK, PCs, Claimed, Teardown, Ended, Verdicts
<1>1. CASE AcquireSerial(r)
  BY <1>1 DEF AcquireSerial, Goto, jobVars, webVars
<1>2. CASE Claim(r)
  BY <1>2, ZenonT(40) DEF Claim, Dropped, Raises, RaisesAtOnce, Returns, Goto, jobVars, webVars
<1>3. CASE Start(r)
  BY <1>3, ZenonT(40) DEF Start, Dropped, Raises, RaisesAtOnce, Returns, Goto, jobVars, webVars
<1>4. CASE ExecuteAborts(r)
  BY <1>4 DEF ExecuteAborts, Dropped, Raises, RaisesAtOnce, Returns, Goto, jobVars, webVars
<1>5. CASE Fork(r)
  BY <1>5 DEF Fork, jobVars, webVars
<1>6. CASE Execute(r)
  BY <1>6 DEF Execute, Dropped, Raises, RaisesAtOnce, Returns, Goto, TeardownFrom, jobVars, webVars
<1>7. CASE Promote(r)
  BY <1>7, ZenonT(40) DEF Promote, Dropped, Raises, RaisesAtOnce, Returns, Goto, TeardownFrom, jobVars, webVars
<1>8. CASE Hold(r)
  BY <1>8 DEF Hold, Dropped, Raises, RaisesAtOnce, Returns, Goto, AfterException, jobVars, webVars
<1>9. CASE DeleteBranch(r)
  BY <1>9 DEF DeleteBranch, AfterException, jobVars, webVars
<1>10. CASE MarkDeleted(r)
  BY <1>10 DEF MarkDeleted, Dropped, Raises, RaisesAtOnce, Returns, Goto, AfterTeardown, AfterException, jobVars, webVars
<1>11. CASE Excuse(r)
  BY <1>11 DEF Excuse, Dropped, Raises, RaisesAtOnce, Returns, Goto, jobVars, webVars
<1>12. CASE Fail(r)
  BY <1>12, ZenonT(40) DEF Fail, Dropped, Raises, RaisesAtOnce, Returns, Goto, jobVars, webVars
<1>13. QED
  BY <1>1, <1>2, <1>3, <1>4, <1>5, <1>6, <1>7, <1>8, <1>9, <1>10, <1>11, <1>12 DEF RunStep

LEMMA TypeStep ==
  ASSUME TypeOK, ThreadsCoherent, [Next]_vars
  PROVE  TypeOK'
<1>t. RecordTypeOK'
  BY NextOnRecord, RecordTypeStep DEF TypeOK
<1> USE <1>t, RunsAssumption
    DEF TypeOK, PCs, Claimed, Teardown, Ended, Verdicts, threadVars, jobVars, webVars
<1>1. ASSUME NEW r \in Runs, RunStep(r) PROVE TypeOK'
  BY <1>1, RunStepType
<1>2. ASSUME NEW c \in Claims, PrepareBrief(c) PROVE TypeOK'
  BY <1>2 DEF PrepareBrief
<1>3. ASSUME NEW c \in Claims, RouteOnDemand(c) PROVE TypeOK'
  BY <1>3 DEF RouteOnDemand
<1>4. ASSUME NEW c \in Claims, RouteOnDemandFails(c) PROVE TypeOK'
  BY <1>4 DEF RouteOnDemandFails
<1>5. ASSUME NEW c \in Claims, StartRequested(c) PROVE TypeOK'
  BY <1>5 DEF StartRequested, Launch
<1>6. ASSUME NEW c \in Claims, ViewBrief(c) PROVE TypeOK'
  BY <1>6 DEF ViewBrief, RecordTypeOK
<1>7. ASSUME NEW c \in Claims, Dispose(c) PROVE TypeOK'
  BY <1>7 DEF Dispose
<1>8. ASSUME NEW c \in Claims, RouteClaim(c) PROVE TypeOK'
  BY <1>8 DEF RouteClaim
<1>9. ASSUME NEW c \in Claims, Elapse(c) PROVE TypeOK'
  BY <1>9 DEF Elapse
<1>10. ASSUME NEW c \in Claims, NEW r \in Runs, BuildNext(c, r) PROVE TypeOK'
  BY <1>10 DEF BuildNext
<1>11. CASE BeginRouting
  BY <1>11 DEF BeginRouting
<1>12. CASE RoutingFails
  BY <1>12 DEF RoutingFails
<1>13. CASE BeginBuilding
  BY <1>13 DEF BeginBuilding, PendingClaims, Pending
<1>14. CASE EndBuilding
  BY <1>14 DEF EndBuilding
<1>15. CASE CrashApp
  BY <1>15 DEF CrashApp, Kill
<1>16. CASE CrashJob
  BY <1>16 DEF CrashJob, Kill
<1>17. ASSUME NEW r \in Runs, ExpireBranch(r) PROVE TypeOK'
  BY <1>17 DEF ExpireBranch
<1>18. CASE UNCHANGED vars
  BY <1>18 DEF vars
<1>19. QED
  BY <1>1, <1>2, <1>3, <1>4, <1>5, <1>6, <1>7, <1>8, <1>9, <1>10, <1>11, <1>12, <1>13, <1>14, <1>15, <1>16, <1>17, <1>18 DEF Next

-----------------------------------------------------------------------------
(* The threads and the run rows. *)

LEMMA CoherentInit == Init => ThreadsCoherent
  BY DEF Init, RecordInit, ThreadsCoherent, HasRow, Started, Teardown

LEMMA RunStepCoherent ==
  ASSUME TypeOK, ThreadsCoherent, NEW r \in Runs, RunStep(r)
  PROVE  ThreadsCoherent'
<1> USE NullAssumption
    DEF TypeOK, RecordTypeOK, ThreadsCoherent, HasRow, Started, Teardown, recordVars, runRow
<1>1. CASE AcquireSerial(r)
  BY <1>1 DEF AcquireSerial, Goto
<1>2. CASE Claim(r)
  BY <1>2 DEF Claim, Dropped, Raises, RaisesAtOnce, Returns, Goto, ClaimRun
<1>3. CASE Start(r)
  BY <1>3 DEF Start, Dropped, Raises, RaisesAtOnce, Returns, Goto, StartRun
<1>4. CASE ExecuteAborts(r)
  BY <1>4 DEF ExecuteAborts, Dropped, Raises, RaisesAtOnce, Returns, Goto
<1>5. CASE Fork(r)
  BY <1>5 DEF Fork
<1>6. CASE Execute(r)
  BY <1>6 DEF Execute, Dropped, Raises, RaisesAtOnce, Returns, Goto, TeardownFrom, UpdateRun
<1>7. CASE Promote(r)
  BY <1>7 DEF Promote, Dropped, Raises, RaisesAtOnce, Returns, Goto, TeardownFrom, CompleteRun
<1>8. CASE Hold(r)
  BY <1>8 DEF Hold, Dropped, Raises, RaisesAtOnce, Returns, Goto, AfterException, UpdateRun
<1>9. CASE DeleteBranch(r)
  BY <1>9 DEF DeleteBranch, AfterException
<1>10. CASE MarkDeleted(r)
  BY <1>10 DEF MarkDeleted, Dropped, Raises, RaisesAtOnce, Returns, Goto, AfterTeardown, AfterException, UpdateRun
<1>11. CASE Excuse(r)
  BY <1>11 DEF Excuse, Dropped, Raises, RaisesAtOnce, Returns, Goto, UpdateRun
<1>12. CASE Fail(r)
  BY <1>12 DEF Fail, Dropped, Raises, RaisesAtOnce, Returns, Goto, FailRun
<1>13. QED
  BY <1>1, <1>2, <1>3, <1>4, <1>5, <1>6, <1>7, <1>8, <1>9, <1>10, <1>11, <1>12 DEF RunStep

LEMMA CoherentStep ==
  ASSUME TypeOK, ThreadsCoherent, [Next]_vars
  PROVE  ThreadsCoherent'
<1> USE NullAssumption
    DEF TypeOK, RecordTypeOK, ThreadsCoherent, HasRow, Started, Teardown, recordVars, runRow, threadVars
<1>1. ASSUME NEW r \in Runs, RunStep(r) PROVE ThreadsCoherent'
  BY <1>1, RunStepCoherent
<1>2. ASSUME NEW c \in Claims, PrepareBrief(c) PROVE ThreadsCoherent'
  BY <1>2 DEF PrepareBrief
<1>3. ASSUME NEW c \in Claims, RouteOnDemand(c) PROVE ThreadsCoherent'
  BY <1>3 DEF RouteOnDemand, UpsertRoutedClaim
<1>4. ASSUME NEW c \in Claims, RouteOnDemandFails(c) PROVE ThreadsCoherent'
  BY <1>4 DEF RouteOnDemandFails, UpsertRoutedClaim
<1>5. ASSUME NEW c \in Claims, StartRequested(c) PROVE ThreadsCoherent'
  BY <1>5 DEF StartRequested, Launch
<1>6. ASSUME NEW c \in Claims, ViewBrief(c) PROVE ThreadsCoherent'
  BY <1>6 DEF ViewBrief
<1>7. ASSUME NEW c \in Claims, Dispose(c) PROVE ThreadsCoherent'
  BY <1>7 DEF Dispose, RecordDisposition
<1>8. ASSUME NEW c \in Claims, RouteClaim(c) PROVE ThreadsCoherent'
  BY <1>8 DEF RouteClaim, UpsertRoutedClaim
<1>9. ASSUME NEW c \in Claims, Elapse(c) PROVE ThreadsCoherent'
  BY <1>9 DEF Elapse, GoStale
<1>10. ASSUME NEW c \in Claims, NEW r \in Runs, BuildNext(c, r) PROVE ThreadsCoherent'
  BY <1>10 DEF BuildNext
<1>11. CASE BeginRouting
  BY <1>11 DEF BeginRouting, RecordAnchorDate
<1>12. CASE RoutingFails
  BY <1>12 DEF RoutingFails
<1>13. CASE BeginBuilding
  BY <1>13 DEF BeginBuilding
<1>14. CASE EndBuilding
  BY <1>14 DEF EndBuilding
<1>15. CASE CrashApp
  BY <1>15 DEF CrashApp, Kill, Alive, Ended
<1>16. CASE CrashJob
  BY <1>16 DEF CrashJob, Kill, Alive, Ended
<1>17. ASSUME NEW r \in Runs, ExpireBranch(r) PROVE ThreadsCoherent'
  BY <1>17 DEF ExpireBranch
<1>18. CASE UNCHANGED vars
  BY <1>18 DEF vars
<1>19. QED
  BY <1>1, <1>2, <1>3, <1>4, <1>5, <1>6, <1>7, <1>8, <1>9, <1>10, <1>11, <1>12, <1>13, <1>14, <1>15, <1>16, <1>17, <1>18 DEF Next

-----------------------------------------------------------------------------
(* The theorems that need no assumption about faults or timing. *)

LEMMA RunsInvariant == Spec => [](TypeOK /\ ThreadsCoherent)
<1>1. Init => TypeOK /\ ThreadsCoherent
  BY TypeInit, CoherentInit
<1>2. (TypeOK /\ ThreadsCoherent) /\ [Next]_vars => (TypeOK /\ ThreadsCoherent)'
  BY TypeStep, CoherentStep
<1>3. QED
  BY <1>1, <1>2, PTL DEF Spec

\* Type correctness of the Runs and everything that drives them.
THEOREM TypeCorrect == Spec => []TypeOK
  BY RunsInvariant, PTL

\* The harness, the registry, the job and the endpoints use the record as the
\* record allows (RecordSpec): what is proved above of the record
\* holds of the whole system, with every crash and every lost acknowledgement.
THEOREM RunsUseTheRecord == Spec => RecordSpec
<1>1. Init => RecordInit
  BY DEF Init
<1>2. TypeOK /\ ThreadsCoherent /\ [Next]_vars => [RecordNext]_recordVars
  BY NextOnRecord
<1>3. QED
  BY <1>1, <1>2, RunsInvariant, PTL DEF Spec, RecordSpec
-----------------------------------------------------------------------------
(* Only whole Briefs are promoted. *)

\* A Run gets to promote only with what execute returned.
BuiltToPromote == \A r \in Runs : pc[r] = "promoting" => verdict[r] = "built"

LEMMA RunStepBuilt ==
  ASSUME TypeOK, BuiltToPromote, NEW r \in Runs, RunStep(r)
  PROVE  /\ BuiltToPromote'
         /\ brief' = brief \/ (pc[r] = "promoting" /\ CompleteRun(r, target[r]))
<1> USE DEF TypeOK, BuiltToPromote, recordVars
<1>1. CASE AcquireSerial(r)
  BY <1>1 DEF AcquireSerial, Goto
<1>2. CASE Claim(r)
  BY <1>2 DEF Claim, Dropped, Raises, RaisesAtOnce, Returns, Goto, ClaimRun
<1>3. CASE Start(r)
  BY <1>3 DEF Start, Dropped, Raises, RaisesAtOnce, Returns, Goto, StartRun
<1>4. CASE ExecuteAborts(r)
  BY <1>4 DEF ExecuteAborts, Dropped, Raises, RaisesAtOnce, Returns, Goto
<1>5. CASE Fork(r)
  BY <1>5 DEF Fork
<1>6. CASE Execute(r)
  BY <1>6 DEF Execute, Dropped, Raises, RaisesAtOnce, Returns, Goto, TeardownFrom, UpdateRun
<1>7. CASE Promote(r)
  BY <1>7 DEF Promote, Dropped, Raises, RaisesAtOnce, Returns, Goto, TeardownFrom
<1>8. CASE Hold(r)
  BY <1>8 DEF Hold, Dropped, Raises, RaisesAtOnce, Returns, Goto, AfterException, UpdateRun
<1>9. CASE DeleteBranch(r)
  BY <1>9 DEF DeleteBranch, AfterException
<1>10. CASE MarkDeleted(r)
  BY <1>10 DEF MarkDeleted, Dropped, Raises, RaisesAtOnce, Returns, Goto, AfterTeardown, AfterException, UpdateRun
<1>11. CASE Excuse(r)
  BY <1>11 DEF Excuse, Dropped, Raises, RaisesAtOnce, Returns, Goto, UpdateRun
<1>12. CASE Fail(r)
  BY <1>12 DEF Fail, Dropped, Raises, RaisesAtOnce, Returns, Goto, FailRun
<1>13. QED
  BY <1>1, <1>2, <1>3, <1>4, <1>5, <1>6, <1>7, <1>8, <1>9, <1>10, <1>11, <1>12 DEF RunStep

LEMMA BuiltStep ==
  ASSUME TypeOK, BuiltToPromote, [Next]_vars
  PROVE  /\ BuiltToPromote'
         /\ \/ brief' = brief
            \/ \E r \in Runs : pc[r] = "promoting" /\ CompleteRun(r, target[r])
<1> DEFINE Goal == /\ BuiltToPromote'
                   /\ \/ brief' = brief
                      \/ \E r \in Runs : pc[r] = "promoting" /\ CompleteRun(r, target[r])
<1>1. ASSUME NEW r \in Runs, RunStep(r) PROVE Goal
  BY <1>1, RunStepBuilt
<1>2. ASSUME \A r \in Runs : pc'[r] = "promoting" => pc[r] = "promoting" /\ verdict'[r] = verdict[r],
             brief' = brief
      PROVE  Goal
  BY <1>2 DEF BuiltToPromote
<1> USE DEF TypeOK, recordVars, threadVars
<1>3. ASSUME NEW c \in Claims, PrepareBrief(c) \/ RouteOnDemand(c) \/ RouteOnDemandFails(c) \/ RouteClaim(c)
      PROVE  Goal
  BY <1>2, <1>3 DEF PrepareBrief, RouteOnDemand, RouteOnDemandFails, RouteClaim, UpsertRoutedClaim
<1>4. ASSUME NEW c \in Claims, StartRequested(c) PROVE Goal
  BY <1>2, <1>4 DEF StartRequested, Launch
<1>5. ASSUME NEW c \in Claims, ViewBrief(c) \/ Dispose(c) \/ Elapse(c) PROVE Goal
  BY <1>2, <1>5 DEF ViewBrief, Dispose, RecordDisposition, Elapse, GoStale
<1>6. ASSUME NEW c \in Claims, NEW r \in Runs, BuildNext(c, r) PROVE Goal
  BY <1>2, <1>6 DEF BuildNext
<1>7. CASE BeginRouting \/ RoutingFails \/ BeginBuilding \/ EndBuilding
  BY <1>2, <1>7 DEF BeginRouting, RecordAnchorDate, RoutingFails, BeginBuilding, EndBuilding
<1>8. CASE CrashApp \/ CrashJob
  BY <1>2, <1>8 DEF CrashApp, CrashJob, Kill, Alive, Ended
<1>9. CASE (\E r \in Runs : ExpireBranch(r)) \/ UNCHANGED vars
  BY <1>2, <1>9 DEF ExpireBranch, vars
<1>10. QED
  BY <1>1, <1>3, <1>4, <1>5, <1>6, <1>7, <1>8, <1>9 DEF Next

\* Whatever fails, is killed or is replayed, a Brief reaches main only from a
\* Run whose execute returned it whole (harness.py:352, ADR-0017).
THEOREM WholeBriefsOnly == Spec => OnlyWholeBriefs
<1>1. Init => BuiltToPromote
  BY DEF Init, BuiltToPromote
<1>2. TypeOK /\ BuiltToPromote /\ [Next]_vars => BuiltToPromote'
  BY BuiltStep
<1>3. TypeOK /\ BuiltToPromote /\ ThreadsCoherent /\ [Next]_vars => [WholeBriefStep]_vars
  <2> SUFFICES ASSUME TypeOK, BuiltToPromote, ThreadsCoherent, Next,
                      NEW c \in Claims, brief'[c] # brief[c]
               PROVE  /\ brief'[c] \in Runs
                      /\ verdict[brief'[c]] = "built"
                      /\ target[brief'[c]] = c
    BY DEF WholeBriefStep
  <2>1. PICK r \in Runs : pc[r] = "promoting" /\ CompleteRun(r, target[r])
    BY BuiltStep
  <2>2. brief'[c] = r /\ target[r] = c
    BY <2>1 DEF CompleteRun, TypeOK, RecordTypeOK
  <2>3. QED
    BY <2>1, <2>2 DEF BuiltToPromote
<1>4. QED
  BY <1>1, <1>2, <1>3, RunsInvariant, PTL DEF Spec, OnlyWholeBriefs

-----------------------------------------------------------------------------
(* The Working Branches: who works on one, and when none is left behind. *)

\* Past the registry's lock, and not over.
AtWork(r) == pc[r] \notin Ended \cup {"waiting"}

\* One Run at work per process: the registry's lock in the app, the loop of
\* work_queue in the job.  Only the app's threads wait for the lock.
WorksAlone ==
  /\ \A q, r \in Runs : AtWork(q) /\ AtWork(r) /\ proc[q] = proc[r] => q = r
  /\ \A r \in Runs : pc[r] = "waiting" => proc[r] = "app"

\* A branch is there only until its own Run has tried to delete it.
BranchesFit == \A r \in Runs : branch[r] => pc[r] \in {"working", "promoting", "deleting"}

-----------------------------------------------------------------------------
(* One Run at work per process. *)

\* A Run gets to work only with the lock, and leaves the other Runs alone.
LEMMA RunStepAlone ==
  ASSUME TypeOK, NEW r \in Runs, RunStep(r)
  PROVE  /\ proc' = proc
         /\ \A q \in Runs \ {r} : pc'[q] = pc[q]
         /\ pc[r] \notin Ended
         /\ pc'[r] = "waiting" => pc[r] = "waiting"
         /\ AtWork(r) \/ Serial(r) \/ pc'[r] = "waiting"
<1> USE DEF TypeOK, PCs, Claimed, Teardown, Ended, AtWork
<1>1. CASE AcquireSerial(r)
  BY <1>1 DEF AcquireSerial, Goto
<1>2. CASE Claim(r)
  BY <1>2 DEF Claim, Dropped, Raises, RaisesAtOnce, Returns, Goto
<1>3. CASE Start(r)
  BY <1>3 DEF Start, Dropped, Raises, RaisesAtOnce, Returns, Goto
<1>4. CASE ExecuteAborts(r)
  BY <1>4 DEF ExecuteAborts, Dropped, Raises, RaisesAtOnce, Returns, Goto
<1>5. CASE Fork(r)
  BY <1>5 DEF Fork
<1>6. CASE Execute(r)
  BY <1>6 DEF Execute, Dropped, Raises, RaisesAtOnce, Returns, Goto, TeardownFrom
<1>7. CASE Promote(r)
  BY <1>7 DEF Promote, Dropped, Raises, RaisesAtOnce, Returns, Goto, TeardownFrom
<1>8. CASE Hold(r)
  BY <1>8 DEF Hold, Dropped, Raises, RaisesAtOnce, Returns, Goto, AfterException
<1>9. CASE DeleteBranch(r)
  BY <1>9 DEF DeleteBranch, AfterException
<1>10. CASE MarkDeleted(r)
  BY <1>10 DEF MarkDeleted, Dropped, Raises, RaisesAtOnce, Returns, Goto, AfterTeardown, AfterException
<1>11. CASE Excuse(r)
  BY <1>11 DEF Excuse, Dropped, Raises, RaisesAtOnce, Returns, Goto
<1>12. CASE Fail(r)
  BY <1>12 DEF Fail, Dropped, Raises, RaisesAtOnce, Returns, Goto
<1>13. QED
  BY <1>1, <1>2, <1>3, <1>4, <1>5, <1>6, <1>7, <1>8, <1>9, <1>10, <1>11, <1>12 DEF RunStep

LEMMA AloneStep ==
  ASSUME TypeOK, WorksAlone, [Next]_vars
  PROVE  WorksAlone'
<1> USE DEF TypeOK, WorksAlone, AtWork
<1>1. ASSUME NEW r \in Runs, RunStep(r) PROVE WorksAlone'
  <2>1. /\ proc' = proc
        /\ \A q \in Runs \ {r} : pc'[q] = pc[q]
        /\ pc[r] \notin Ended
        /\ pc'[r] = "waiting" => pc[r] = "waiting"
        /\ AtWork(r) \/ Serial(r) \/ pc'[r] = "waiting"
    BY <1>1, RunStepAlone
  <2>2. CASE AtWork(r) \/ pc'[r] = "waiting"
    BY <2>1, <2>2
  <2>3. CASE Serial(r) /\ ~AtWork(r)
    BY <2>1, <2>3 DEF Serial
  <2>4. QED
    BY <2>1, <2>2, <2>3
<1>2. ASSUME \A r \in Runs : \/ pc'[r] = pc[r] /\ proc'[r] = proc[r]
                             \/ pc'[r] = "dead" /\ proc'[r] = proc[r]
                             \/ pc'[r] = "waiting" /\ proc'[r] = "app"
      PROVE  WorksAlone'
  BY <1>2 DEF Ended
<1> USE DEF threadVars
<1>3. ASSUME NEW c \in Claims, PrepareBrief(c) \/ RouteOnDemand(c) \/ RouteOnDemandFails(c) \/ RouteClaim(c)
      PROVE  WorksAlone'
  BY <1>2, <1>3 DEF PrepareBrief, RouteOnDemand, RouteOnDemandFails, RouteClaim
<1>4. ASSUME NEW c \in Claims, StartRequested(c) PROVE WorksAlone'
  BY <1>2, <1>4 DEF StartRequested, Launch
<1>5. ASSUME NEW c \in Claims, ViewBrief(c) \/ Dispose(c) \/ Elapse(c) PROVE WorksAlone'
  BY <1>2, <1>5 DEF ViewBrief, Dispose, Elapse
<1>6. ASSUME NEW c \in Claims, NEW r \in Runs, BuildNext(c, r) PROVE WorksAlone'
  BY <1>6 DEF BuildNext, JobIdle, Alive, Ended
<1>7. CASE BeginRouting \/ RoutingFails \/ BeginBuilding \/ EndBuilding
  BY <1>2, <1>7 DEF BeginRouting, RoutingFails, BeginBuilding, EndBuilding
<1>8. CASE CrashApp \/ CrashJob
  <2>1. \A r \in Runs : pc'[r] \in {pc[r], "dead"} /\ proc'[r] = proc[r]
    BY <1>8 DEF CrashApp, CrashJob, Kill
  <2>2. QED
    BY <1>2, <2>1
<1>9. CASE (\E r \in Runs : ExpireBranch(r)) \/ UNCHANGED vars
  BY <1>2, <1>9 DEF ExpireBranch, vars
<1>10. QED
  BY <1>1, <1>3, <1>4, <1>5, <1>6, <1>7, <1>8, <1>9 DEF Next

\* Neither process has two Runs at work, killed or not (runner.py:47-54, 84-86).
THEOREM RunsWorkAlone == Spec => []WorksAlone
<1>1. Init => WorksAlone
  BY DEF Init, WorksAlone, AtWork, Ended
<1>2. TypeOK /\ WorksAlone /\ [Next]_vars => WorksAlone'
  BY AloneStep
<1>3. QED
  BY <1>1, <1>2, TypeCorrect, PTL DEF Spec

-----------------------------------------------------------------------------
(* No branch is left behind. *)

LEMMA RunStepBranches ==
  ASSUME ~BranchFaults, ~DemoHold, TypeOK, BranchesFit, NEW r \in Runs, RunStep(r)
  PROVE  BranchesFit'
<1> USE DEF TypeOK, BranchesFit
<1>1. CASE AcquireSerial(r)
  BY <1>1 DEF AcquireSerial, Goto
<1>2. CASE Claim(r)
  BY <1>2 DEF Claim, Dropped, Raises, RaisesAtOnce, Returns, Goto
<1>3. CASE Start(r)
  BY <1>3 DEF Start, Dropped, Raises, RaisesAtOnce, Returns, Goto
<1>4. CASE ExecuteAborts(r)
  BY <1>4 DEF ExecuteAborts, Dropped, Raises, RaisesAtOnce, Returns, Goto
<1>5. CASE Fork(r)
  BY <1>5 DEF Fork
<1>6. CASE Execute(r)
  BY <1>6 DEF Execute, Dropped, Raises, RaisesAtOnce, Returns, Goto, TeardownFrom
<1>7. CASE Promote(r)
  BY <1>7 DEF Promote, Dropped, Raises, RaisesAtOnce, Returns, Goto, TeardownFrom
<1>8. CASE Hold(r)
  BY <1>8 DEF Hold, Dropped, Raises, RaisesAtOnce, Returns, Goto, AfterException
<1>9. CASE DeleteBranch(r)
  BY <1>9 DEF DeleteBranch, AfterException
<1>10. CASE MarkDeleted(r)
  BY <1>10 DEF MarkDeleted, Dropped, Raises, RaisesAtOnce, Returns, Goto, AfterTeardown, AfterException
<1>11. CASE Excuse(r)
  BY <1>11 DEF Excuse, Dropped, Raises, RaisesAtOnce, Returns, Goto
<1>12. CASE Fail(r)
  BY <1>12 DEF Fail, Dropped, Raises, RaisesAtOnce, Returns, Goto
<1>13. QED
  BY <1>1, <1>2, <1>3, <1>4, <1>5, <1>6, <1>7, <1>8, <1>9, <1>10, <1>11, <1>12 DEF RunStep

LEMMA BranchesStep ==
  ASSUME MaxCrashes = 0, ~BranchFaults, ~DemoHold, TypeOK, BranchesFit, [Next]_vars
  PROVE  BranchesFit'
<1> USE DEF TypeOK, BranchesFit, threadVars
<1>1. ASSUME NEW r \in Runs, RunStep(r) PROVE BranchesFit'
  BY <1>1, RunStepBranches
<1>2. ASSUME NEW c \in Claims, PrepareBrief(c) \/ RouteOnDemand(c) \/ RouteOnDemandFails(c) \/ RouteClaim(c)
      PROVE  BranchesFit'
  BY <1>2 DEF PrepareBrief, RouteOnDemand, RouteOnDemandFails, RouteClaim
<1>3. ASSUME NEW c \in Claims, StartRequested(c) PROVE BranchesFit'
  BY <1>3 DEF StartRequested, Launch
<1>4. ASSUME NEW c \in Claims, ViewBrief(c) \/ Dispose(c) \/ Elapse(c) PROVE BranchesFit'
  BY <1>4 DEF ViewBrief, Dispose, Elapse
<1>5. ASSUME NEW c \in Claims, NEW r \in Runs, BuildNext(c, r) PROVE BranchesFit'
  BY <1>5 DEF BuildNext
<1>6. CASE BeginRouting \/ RoutingFails \/ BeginBuilding \/ EndBuilding
  BY <1>6 DEF BeginRouting, RoutingFails, BeginBuilding, EndBuilding
<1>7. CASE CrashApp \/ CrashJob
  <2>1. crashes < 0 /\ crashes \in 0..0
    BY <1>7 DEF CrashApp, CrashJob, Kill
  <2>2. QED
    BY <2>1
<1>8. ASSUME NEW r \in Runs, ExpireBranch(r) PROVE BranchesFit'
  BY <1>8 DEF ExpireBranch
<1>9. CASE UNCHANGED vars
  BY <1>9 DEF vars
<1>10. QED
  BY <1>1, <1>2, <1>3, <1>4, <1>5, <1>6, <1>7, <1>8, <1>9 DEF Next

\* Every Working Branch is that of a Run still to delete it, and each process
\* has at most one (lakebase.py:94-99, harness.py:306-317), when no process is
\* killed, no branch call fails and the demo hold is off.
THEOREM BranchesStayAttended ==
  ASSUME MaxCrashes = 0, ~BranchFaults, ~DemoHold PROVE Spec => []BranchesAreAttended
<1>1. Init => BranchesFit
  BY DEF Init, BranchesFit
<1>2. TypeOK /\ BranchesFit /\ [Next]_vars => BranchesFit'
  BY BranchesStep
<1>3. BranchesFit /\ WorksAlone => BranchesAreAttended
  BY DEF BranchesFit, WorksAlone, AtWork, Ended, BranchesAreAttended, Forked, Teardown
<1>4. QED
  BY <1>1, <1>2, <1>3, TypeCorrect, RunsWorkAlone, PTL DEF Spec
=============================================================================
