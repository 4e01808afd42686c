---------------------------- MODULE ReviewRecord ----------------------------
(***************************************************************************)
(* The review record on Lakebase main: app/backend/review/store.py over    *)
(* the tables of app/backend/review/schema.py.  One action per writing     *)
(* method of ReviewStore; each is one SQL statement or one explicit        *)
(* transaction, hence one atomic step.  Next lets any caller call any      *)
(* method at any time, so what is proved of this module holds whatever the *)
(* harness does; module ReviewRuns says who calls what, and when.          *)
(*                                                                         *)
(* Data are abstracted to what the properties tell apart.  A Brief is      *)
(* named by the Run that built it, a disposition by the Brief it was       *)
(* formed on, the anchor date by whether it is recorded, and updated_at by *)
(* whether it lies more than STALE_RUN_SECONDS in the past.  The progress  *)
(* columns of a Run are left out.                                          *)
(***************************************************************************)
EXTENDS Naturals, FiniteSets

CONSTANTS Claims,      \* claim ids of claim_event
          Runs,        \* run ids, each minted at most once
          NoClaim,     \* SQL NULL of a claim id
          NoRun,       \* SQL NULL of a run id
          ReportRank   \* the order (report_date, claim_id) of the claims

ASSUME NullAssumption == NoClaim \notin Claims /\ NoRun \notin Runs

ASSUME RankAssumption ==
  /\ ReportRank \in [Claims -> Nat]
  /\ \A c, d \in Claims : ReportRank[c] = ReportRank[d] => c = d

VARIABLES
  routedBy,     \* routed_claim.routed_by, "none" when the claim has no row
  runState,     \* routed_claim.run_state, "absent" when the claim has no row
  activeRun,    \* routed_claim.active_run_id
  stale,        \* routed_claim.updated_at < now() - STALE_RUN_SECONDS
  runClaim,     \* run.claim_id, NoClaim when the run has no row
  runStatus,    \* run.status
  brief,        \* brief.run_id, NoRun when the claim has no Brief
  disposition,  \* the Brief the recorded outcome was formed on
  anchor        \* dataset.anchor_date is recorded

claimRow   == <<routedBy, runState, activeRun, stale>>
runRow     == <<runClaim, runStatus>>
recordVars == <<claimRow, runRow, brief, disposition, anchor>>

RunStates == {"absent", "queued", "in_progress", "brief_ready", "failed"}
Statuses  == {"absent", "running", "completed", "failed"}
Origins   == {"none", "rule", "on_demand"}

RecordTypeOK ==
  /\ routedBy \in [Claims -> Origins]
  /\ runState \in [Claims -> RunStates]
  /\ activeRun \in [Claims -> Runs \cup {NoRun}]
  /\ stale \in [Claims -> BOOLEAN]
  /\ runClaim \in [Runs -> Claims \cup {NoClaim}]
  /\ runStatus \in [Runs -> Statuses]
  /\ brief \in [Claims -> Runs \cup {NoRun}]
  /\ disposition \in [Claims -> Runs \cup {NoRun}]
  /\ anchor \in BOOLEAN

RecordInit ==
  /\ routedBy = [c \in Claims |-> "none"]
  /\ runState = [c \in Claims |-> "absent"]
  /\ activeRun = [c \in Claims |-> NoRun]
  /\ stale = [c \in Claims |-> FALSE]
  /\ runClaim = [r \in Runs |-> NoClaim]
  /\ runStatus = [r \in Runs |-> "absent"]
  /\ brief = [c \in Claims |-> NoRun]
  /\ disposition = [c \in Claims |-> NoRun]
  /\ anchor = FALSE

-----------------------------------------------------------------------------
(* Readers. *)

IsRouted(c) == runState[c] # "absent"
HasRow(r)   == runClaim[r] # NoClaim

\* Faults: no staleness condition; only a live Run protects its claim.
MayClaimFresh(c)      == runState[c] \in {"queued", "failed", "in_progress"}
MayClaimUnlessBusy(c) == IsRouted(c) /\ (runState[c] # "in_progress" \/ stale[c])

\* The WHERE clause of claim_run.
MayClaim(c) ==
  \/ runState[c] \in {"queued", "failed"}
  \/ runState[c] = "in_progress" /\ stale[c]

\* The rows pending_claims selects, before its LIMIT.
Pending ==
  {c \in Claims : /\ runState[c] \in {"queued", "failed"}
                  /\ brief[c] = NoRun
                  /\ disposition[c] = NoRun}

\* ORDER BY report_date DESC, claim_id DESC LIMIT cap
PendingClaims(cap) ==
  {c \in Pending :
     Cardinality({d \in Pending : ReportRank[d] > ReportRank[c]}) < cap}

-----------------------------------------------------------------------------
(* Writers. *)

RecordAnchorDate ==
  /\ anchor' = TRUE
  /\ UNCHANGED <<claimRow, runRow, brief, disposition>>

\* ON CONFLICT keeps run_state and active_run_id, but refreshes updated_at.
UpsertRoutedClaim(c, by) ==
  /\ routedBy' = [routedBy EXCEPT ![c] = by]
  /\ runState' = [runState EXCEPT ![c] = IF @ = "absent" THEN "queued" ELSE @]
  /\ stale' = [stale EXCEPT ![c] = FALSE]
  /\ UNCHANGED <<activeRun, runRow, brief, disposition, anchor>>

\* One conditional UPDATE: it claims the row or matches nothing.
ClaimRun(c, r) ==
  /\ MayClaim(c)
  /\ runState' = [runState EXCEPT ![c] = "in_progress"]
  /\ activeRun' = [activeRun EXCEPT ![c] = r]
  /\ stale' = [stale EXCEPT ![c] = FALSE]
  /\ UNCHANGED <<routedBy, runRow, brief, disposition, anchor>>

\* The INSERT needs a routed claim (foreign key) and a fresh run id (primary key).
StartRun(r, c) ==
  /\ ~HasRow(r)
  /\ IsRouted(c)
  /\ runClaim' = [runClaim EXCEPT ![r] = c]
  /\ runStatus' = [runStatus EXCEPT ![r] = "running"]
  /\ UNCHANGED <<claimRow, brief, disposition, anchor>>

\* Progress columns only (current_step, step_count, branch_name), which no
\* other method reads: the call matters as one that can fail.
UpdateRun(r) == UNCHANGED recordVars

\* Faults: the run's status written to the claim; the claim left out.
CompleteRunMixed(r, c) ==
  /\ HasRow(r)
  /\ brief' = [brief EXCEPT ![c] = r]
  /\ runStatus' = [runStatus EXCEPT ![r] = "completed"]
  /\ runState' = [runState EXCEPT ![c] = "completed"]
  /\ activeRun' = [activeRun EXCEPT ![c] = NoRun]
  /\ UNCHANGED <<routedBy, stale, runClaim, disposition, anchor>>
CompleteRunNotClaim(r, c) ==
  /\ HasRow(r)
  /\ brief' = [brief EXCEPT ![c] = r]
  /\ runStatus' = [runStatus EXCEPT ![r] = "completed"]
  /\ UNCHANGED <<claimRow, runClaim, disposition, anchor>>

\* One transaction over brief, run and routed_claim.  The claim is updated
\* by its id alone: whose active Run it is does not matter.
CompleteRun(r, c) ==
  /\ HasRow(r)
  /\ brief' = [brief EXCEPT ![c] = r]
  /\ runStatus' = [runStatus EXCEPT ![r] = "completed"]
  /\ runState' = [runState EXCEPT ![c] = "brief_ready"]
  /\ activeRun' = [activeRun EXCEPT ![c] = NoRun]
  /\ stale' = [stale EXCEPT ![c] = FALSE]
  /\ UNCHANGED <<routedBy, runClaim, disposition, anchor>>

\* Fault: active_run_id keeps the failed Run.
FailRunKeepsActive(r, c) ==
  /\ runStatus' = [runStatus EXCEPT ![r] = IF HasRow(r) THEN "failed" ELSE @]
  /\ runState' = [runState EXCEPT ![c] = "queued"]
  /\ UNCHANGED <<routedBy, activeRun, stale, runClaim, brief, disposition, anchor>>

\* One transaction over run and routed_claim, by id alone as above.
FailRun(r, c) ==
  /\ runStatus' = [runStatus EXCEPT ![r] = IF HasRow(r) THEN "failed" ELSE @]
  /\ runState' = [runState EXCEPT ![c] = "queued"]
  /\ activeRun' = [activeRun EXCEPT ![c] = NoRun]
  /\ stale' = [stale EXCEPT ![c] = FALSE]
  /\ UNCHANGED <<routedBy, runClaim, brief, disposition, anchor>>

\* LookupError without a Brief; otherwise the latest outcome wins.
RecordDisposition(c, b) ==
  /\ brief[c] # NoRun
  /\ disposition' = [disposition EXCEPT ![c] = b]
  /\ UNCHANGED <<claimRow, runRow, brief, anchor>>

\* Time passes: the row of a Run in progress outlives STALE_RUN_SECONDS.
GoStale(c) ==
  /\ runState[c] = "in_progress"
  /\ ~stale[c]
  /\ stale' = [stale EXCEPT ![c] = TRUE]
  /\ UNCHANGED <<routedBy, runState, activeRun, runRow, brief, disposition,
                 anchor>>

RecordNext ==
  \/ RecordAnchorDate
  \/ \E c \in Claims : \E by \in {"rule", "on_demand"} : UpsertRoutedClaim(c, by)
  \/ \E c \in Claims, r \in Runs : ClaimRun(c, r)
  \/ \E c \in Claims, r \in Runs : StartRun(r, c)
  \/ \E r \in Runs : HasRow(r) /\ CompleteRun(r, runClaim[r])
  \/ \E r \in Runs : HasRow(r) /\ FailRun(r, runClaim[r])
  \/ \E c \in Claims, b \in Runs : RecordDisposition(c, b)
  \/ \E c \in Claims : GoStale(c)

RecordSpec == RecordInit /\ [][RecordNext]_recordVars

-----------------------------------------------------------------------------
(* What the record promises whatever its callers do. *)

\* The states of a claim row are coherent: a Run is active exactly while the
\* claim is in progress, and brief_ready always has a Brief behind it
\* (store.py: claim_run, complete_run and fail_run write both columns).
ClaimRowsCoherent ==
  \A c \in Claims :
    /\ runState[c] = "in_progress" <=> activeRun[c] # NoRun
    /\ runState[c] = "brief_ready" => brief[c] # NoRun
    /\ runState[c] = "absent" => brief[c] = NoRun

\* A Brief on main belongs to a Run of that very claim that is over, and a
\* completed Run left a Brief: there is no Brief without its Run record and no
\* completion without its Brief (store.py:3-6 and the foreign keys).
BriefsHaveRuns ==
  /\ \A c \in Claims : brief[c] # NoRun =>
       /\ runClaim[brief[c]] = c
       /\ runStatus[brief[c]] \in {"completed", "failed"}
  /\ \A r \in Runs : runStatus[r] = "completed" => brief[runClaim[r]] # NoRun

\* A human outcome is only ever recorded on a claim that has a Brief, and the
\* Brief is still there afterwards (store.py record_disposition).
DispositionsHaveBriefs ==
  \A c \in Claims : disposition[c] # NoRun => brief[c] # NoRun
=============================================================================
