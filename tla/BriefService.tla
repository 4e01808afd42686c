---------------------------- MODULE BriefService ----------------------------
(***************************************************************************)
(* The Runs as a client of the review API sees them: GET .../runs/{id} and *)
(* GET .../claims/{id} of app/backend/review/api.py, without threads,      *)
(* branches or connections.  ReviewView is built over it; ReviewRuns       *)
(* implements it when Runs are timely and no acknowledgement is lost.      *)
(***************************************************************************)
CONSTANTS Claims, Runs, NoClaim, NoRun

VARIABLES
  status,    \* of a Run id: unborn, minted, running, completed, failed, lost
  claimOf,   \* the claim a Run id was minted for
  active,    \* active_run of a claim: its Run, once that one has a record
  published  \* the Run whose Brief the claim has

serviceVars == <<status, claimOf, active, published>>

ServiceTypeOK ==
  /\ status \in [Runs -> {"unborn", "minted", "running", "completed", "failed", "lost"}]
  /\ claimOf \in [Runs -> Claims \cup {NoClaim}]
  /\ active \in [Claims -> Runs \cup {NoRun}]
  /\ published \in [Claims -> Runs \cup {NoRun}]

ServiceInit ==
  /\ status = [r \in Runs |-> "unborn"]
  /\ claimOf = [r \in Runs |-> NoClaim]
  /\ active = [c \in Claims |-> NoRun]
  /\ published = [c \in Claims |-> NoRun]

\* A Run id is given out before the Run has a record.
Mint(c, r) ==
  /\ status[r] = "unborn"
  /\ status' = [status EXCEPT ![r] = "minted"]
  /\ claimOf' = [claimOf EXCEPT ![r] = c]
  /\ UNCHANGED <<active, published>>

\* Runs that never get a record: skipped, failed before it, or killed.
Drop(lost) ==
  /\ \A r \in lost : status[r] = "minted"
  /\ status' = [r \in Runs |-> IF r \in lost THEN "lost" ELSE status[r]]
  /\ UNCHANGED <<claimOf, active, published>>

\* One Run at a time per claim, and none once there is a Brief.
Begin(r) ==
  /\ status[r] = "minted"
  /\ active[claimOf[r]] = NoRun
  /\ published[claimOf[r]] = NoRun
  /\ status' = [status EXCEPT ![r] = "running"]
  /\ active' = [active EXCEPT ![claimOf[r]] = r]
  /\ UNCHANGED <<claimOf, published>>

Publish(r) ==
  /\ status[r] = "running"
  /\ active[claimOf[r]] = r
  /\ status' = [status EXCEPT ![r] = "completed"]
  /\ active' = [active EXCEPT ![claimOf[r]] = NoRun]
  /\ published' = [published EXCEPT ![claimOf[r]] = r]
  /\ UNCHANGED claimOf

GiveUp(r) ==
  /\ status[r] = "running"
  /\ active[claimOf[r]] = r
  /\ status' = [status EXCEPT ![r] = "failed"]
  /\ active' = [active EXCEPT ![claimOf[r]] = NoRun]
  /\ UNCHANGED <<claimOf, published>>

\* The claim of a Run that died is taken over; its record says running for ever.
TakeOver(c) ==
  /\ active[c] # NoRun
  /\ active' = [active EXCEPT ![c] = NoRun]
  /\ UNCHANGED <<status, claimOf, published>>

ServiceNext ==
  \/ \E c \in Claims, r \in Runs : Mint(c, r)
  \/ \E lost \in SUBSET Runs : Drop(lost)
  \/ \E r \in Runs : Begin(r) \/ Publish(r) \/ GiveUp(r)
  \/ \E c \in Claims : TakeOver(c)

ServiceSpec == ServiceInit /\ [][ServiceNext]_serviceVars
=============================================================================
