---------------------------- MODULE BriefPromise ----------------------------
(***************************************************************************)
(* What the review record promises a reader of the queue, without threads, *)
(* branches or connections: a claim is prepared by at most one Run at a    *)
(* time; its Brief appears once, by the Run that is preparing it; a failed *)
(* Run puts the claim back; a Run that died may be replaced.  Abstract     *)
(* counterpart of the claim lifecycle of store.py; ReviewRuns implements   *)
(* it when Runs are timely and no acknowledgement is lost.                 *)
(***************************************************************************)
CONSTANTS Claims, Runs, NoRun

VARIABLES phase,      \* where each claim stands
          owner,      \* the Run preparing it
          published   \* the Run whose Brief the reader sees

promiseVars == <<phase, owner, published>>

PromiseInit ==
  /\ phase = [c \in Claims |-> "absent"]
  /\ owner = [c \in Claims |-> NoRun]
  /\ published = [c \in Claims |-> NoRun]

Enqueue(c) ==
  /\ phase[c] = "absent"
  /\ phase' = [phase EXCEPT ![c] = "queued"]
  /\ UNCHANGED <<owner, published>>

\* By r from the queue, or in place of a Run that died.
Prepare(c, r) ==
  /\ phase[c] \in {"queued", "in_progress"}
  /\ \A d \in Claims : owner[d] # r
  /\ phase' = [phase EXCEPT ![c] = "in_progress"]
  /\ owner' = [owner EXCEPT ![c] = r]
  /\ UNCHANGED published

GiveUp(c) ==
  /\ phase[c] = "in_progress"
  /\ phase' = [phase EXCEPT ![c] = "queued"]
  /\ owner' = [owner EXCEPT ![c] = NoRun]
  /\ UNCHANGED published

Publish(c) ==
  /\ phase[c] = "in_progress"
  /\ published[c] = NoRun
  /\ phase' = [phase EXCEPT ![c] = "brief_ready"]
  /\ published' = [published EXCEPT ![c] = owner[c]]
  /\ owner' = [owner EXCEPT ![c] = NoRun]

PromiseNext ==
  \E c \in Claims :
    \/ Enqueue(c) \/ GiveUp(c) \/ Publish(c)
    \/ \E r \in Runs : Prepare(c, r)

PromiseSpec == PromiseInit /\ [][PromiseNext]_promiseVars
=============================================================================
