------------------------------ MODULE BriefPlan ------------------------------
(***************************************************************************)
(* What happens inside _Run.execute (harness.py:276-304): the fixed plan,  *)
(* the model's replies at its three decision points, the budgets, and the  *)
(* wall clock.  ReviewRuns has the whole of it as the one action Execute.  *)
(*                                                                         *)
(* A reply is abstracted to the class the harness tells apart.  Time       *)
(* passes in the calls the harness makes: to the review record, the        *)
(* warehouse, Genie, the model, branches and connect_branch, and each      *)
(* ensure_stage_tables, stage, INSERT or scratch statement on the branch   *)
(* connection.  Each takes up to MaxCall ticks, whatever it does inside    *)
(* (a create is up to three calls of the branch API); the tracer's spans   *)
(* cost nothing.  The clock is read only where the code reads it, at the   *)
(* end of _Run.step.                                                       *)
(***************************************************************************)
EXTENDS Naturals

CONSTANTS RunTimeout,        \* REVIEW_RUN_TIMEOUT_SECONDS
          MaxCall,           \* the longest a single call takes
          MaxSentenceTurns,  \* MAX_SENTENCE_TURNS
          MaxScratch         \* MAX_SCRATCH_STATEMENTS

ASSUME PlanAssumption ==
  /\ RunTimeout \in Nat /\ MaxCall \in Nat
  /\ MaxSentenceTurns \in Nat \ {0} /\ MaxScratch \in Nat

SECTIONS         == 1..4  \* sequence, relevant_changes, frequency, similar
QuestionAttempts == 2     \* the range(2) of frequency
MaxGenieTurns    == 2     \* MAX_GENIE_TURNS

SENTENCE_DROPPED_REASONS ==
  {"vocabulary check", "model output", "scratch SQL budget",
   "no sentence returned", "sentence turns exhausted"}

VARIABLES
  pc,          \* the call the Run makes next
  elapsed,     \* clock() - started
  attempts,    \* question proposals made
  genieTurns,  \* questions put to Genie
  followUp,    \* the frequency section names its follow-up question
  answer,      \* the Genie answer in the frequency section: none, first, second
  section,     \* the section whose sentence is being written
  turn,        \* model turns spent on it that asked for SQL
  scratch,     \* len(ScratchSql.statements)
  outcome,     \* per section: pending, kept, or the reason it was dropped
  modelCalls   \* calls of ModelClient.complete

planVars == <<pc, elapsed, attempts, genieTurns, followUp, answer, section,
              turn, scratch, outcome, modelCalls>>
sentenceVars == <<section, turn, scratch, outcome>>
questionVars == <<attempts, genieTurns, followUp, answer>>

Places == {"lookup", "fork", "sequence", "relevant", "question",
           "ask", "followup", "askagain", "similar", "sentence", "built", "failed"}

PlanTypeOK ==
  /\ pc \in Places
  /\ elapsed \in Nat
  /\ attempts \in 0..QuestionAttempts
  /\ genieTurns \in 0..MaxGenieTurns
  /\ followUp \in BOOLEAN
  /\ answer \in {"none", "first", "second"}
  /\ section \in 1..5
  /\ turn \in 0..MaxSentenceTurns
  /\ scratch \in 0..MaxScratch
  /\ outcome \in [SECTIONS -> {"pending", "kept"} \cup SENTENCE_DROPPED_REASONS]
  /\ modelCalls \in Nat

PlanInit ==
  /\ pc = "lookup"
  /\ elapsed = 0
  /\ attempts = 0
  /\ genieTurns = 0
  /\ followUp = FALSE
  /\ answer = "none"
  /\ section = 1
  /\ turn = 0
  /\ scratch = 0
  /\ outcome = [s \in SECTIONS |-> "pending"]
  /\ modelCalls = 0

-----------------------------------------------------------------------------
\* update_run and the INSERT into run_step, which every step makes first.
StepCalls == 2

\* The calls made at each place up to the next one, where none fails: at most
\* these, and the step's where there is a step.
CallsAt ==
  [lookup   |-> 2,              \* the claim, the anchor date
   fork     |-> 4 + StepCalls,  \* create, update_run, connect_branch, the stage tables
   sequence |-> 2 + StepCalls,  \* the query, its stage
   relevant |-> 4 + StepCalls,  \* two queries, two stages
   question |-> 1 + StepCalls,  \* the model
   ask      |-> 1 + StepCalls,  \* Genie
   followup |-> 1,              \* the model
   askagain |-> 1 + StepCalls,  \* Genie
   similar  |-> 3 + StepCalls,  \* the stage of frequency, the query, its stage
   sentence |-> 2 + StepCalls]  \* the model, a scratch statement

\* So many calls are made.
Calls(n) == \E d \in 0..(n * MaxCall) : elapsed' = elapsed + d

\* Fault: a step that does not look at the clock.
Unchecked(next) == pc' = next

\* check_timeout: raises once the time is over.
Checked(next) == pc' = IF elapsed' > RunTimeout THEN "failed" ELSE next

ModelCall == modelCalls' = modelCalls + 1

\* No step, so the clock is not looked at.
LookUpClaim ==
  /\ pc = "lookup"
  /\ Calls(CallsAt.lookup) /\ pc' = "fork"
  /\ UNCHANGED <<questionVars, sentenceVars, modelCalls>>

CreateBranch ==
  /\ pc = "fork"
  /\ Calls(CallsAt.fork) /\ Checked("sequence")
  /\ UNCHANGED <<questionVars, sentenceVars, modelCalls>>

Sequence ==
  /\ pc = "sequence"
  /\ Calls(CallsAt.sequence) /\ Checked("relevant")
  /\ UNCHANGED <<questionVars, sentenceVars, modelCalls>>

Relevant ==
  /\ pc = "relevant"
  /\ Calls(CallsAt.relevant) /\ Checked("question")
  /\ UNCHANGED <<questionVars, sentenceVars, modelCalls>>

\* The model proposes a question.  A reply that is no JSON object, or is
\* rejected by validate_question, costs an attempt; after the last one the
\* canonical question stands in.  One step for all of it.
ChooseQuestion ==
  /\ pc = "question"
  /\ ModelCall
  /\ attempts' = attempts + 1
  /\ \/ Calls(CallsAt.question) /\ Checked("ask")                 \* accepted, or canonical
     \/ attempts' < QuestionAttempts /\ Calls(1) /\ pc' = "question"  \* once more
  /\ UNCHANGED <<genieTurns, followUp, answer, sentenceVars>>

\* Anything but an ok answer fails the Run, before its step.
AskGenie ==
  /\ pc = "ask"
  /\ genieTurns' = genieTurns + 1
  /\ \/ Calls(CallsAt.ask) /\ Checked("followup") /\ answer' = "first"
     \/ Calls(1) /\ pc' = "failed" /\ UNCHANGED answer
  /\ UNCHANGED <<attempts, followUp, sentenceVars, modelCalls>>

\* A usable narrowing question goes to Genie; no step either way.
ChooseFollowUp ==
  /\ pc = "followup"
  /\ genieTurns < MaxGenieTurns
  /\ ModelCall
  /\ Calls(CallsAt.followup) /\ pc' \in {"askagain", "similar"}
  /\ UNCHANGED <<questionVars, sentenceVars>>

\* Fault: the follow-up is named whatever became of its answer.
AskFollowUpOptimist ==
  /\ pc = "askagain"
  /\ genieTurns' = genieTurns + 1
  /\ Calls(CallsAt.askagain) /\ Checked("similar")
  /\ followUp' = TRUE
  /\ answer' \in {answer, "second"}
  /\ UNCHANGED <<attempts, sentenceVars, modelCalls>>

\* A second answer that is not ok is discarded, and its question with it.
AskFollowUp ==
  /\ pc = "askagain"
  /\ genieTurns' = genieTurns + 1
  /\ Calls(CallsAt.askagain) /\ Checked("similar")
  /\ \/ answer' = "second" /\ followUp' = TRUE
     \/ UNCHANGED <<answer, followUp>>
  /\ UNCHANGED <<attempts, sentenceVars, modelCalls>>

\* The stage of the frequency section goes before, without a step of its own.
Similar ==
  /\ pc = "similar"
  /\ Calls(CallsAt.similar) /\ Checked("sentence")
  /\ UNCHANGED <<questionVars, sentenceVars, modelCalls>>

\* The section's sentence is kept or dropped, its step reported, and the next
\* section is up; after the last the Brief is returned.
Close(what) ==
  /\ outcome' = [outcome EXCEPT ![section] = what]
  /\ section' = section + 1
  /\ turn' = 0
  /\ Checked(IF section = 4 THEN "built" ELSE "sentence")

\* A turn whose reply settles the section.
Sentence ==
  /\ pc = "sentence" /\ turn < MaxSentenceTurns
  /\ ModelCall
  /\ Calls(1 + StepCalls)
  /\ \E what \in {"kept", "vocabulary check", "model output", "no sentence returned"} :
       Close(what)
  /\ UNCHANGED <<scratch, questionVars>>

\* Faults: one statement too many; a budget of the wrong size.
BudgetSpentLate  == scratch > MaxScratch
BudgetOfTurns    == scratch >= MaxSentenceTurns

BudgetSpent == scratch >= MaxScratch

\* A turn whose reply is SQL: ScratchSql.run counts the statement before it
\* looks at it, and raises when the budget of the whole Run is spent.
ScratchTurn ==
  /\ pc = "sentence" /\ turn < MaxSentenceTurns
  /\ ModelCall
  /\ IF BudgetSpent
       THEN /\ Calls(1 + StepCalls)
            /\ Close("scratch SQL budget")
            /\ UNCHANGED scratch
       ELSE /\ scratch' = scratch + 1
            /\ turn' = turn + 1
            /\ Calls(CallsAt.sentence)
            /\ Checked("sentence")
            /\ UNCHANGED <<section, outcome>>
  /\ UNCHANGED questionVars

\* Fault: an exception's text for a reason.
ExhaustTurnsVerbatim ==
  /\ pc = "sentence" /\ turn = MaxSentenceTurns
  /\ Calls(StepCalls)
  /\ Close("scratch SQL budget of 8 statements exhausted")
  /\ UNCHANGED <<scratch, questionVars, modelCalls>>

\* Every turn went to SQL.
ExhaustTurns ==
  /\ pc = "sentence" /\ turn = MaxSentenceTurns
  /\ Calls(StepCalls)
  /\ Close("sentence turns exhausted")
  /\ UNCHANGED <<scratch, questionVars, modelCalls>>

\* Any other exception, from any of the calls: the claim or the anchor is
\* missing, a query, the model endpoint, the branch or the record fails.
Raise ==
  /\ pc \notin {"built", "failed"}
  /\ Calls(CallsAt[pc]) /\ pc' = "failed"
  /\ UNCHANGED <<questionVars, sentenceVars, modelCalls>>

PlanNext ==
  \/ LookUpClaim \/ CreateBranch \/ Sequence \/ Relevant \/ ChooseQuestion
  \/ AskGenie \/ ChooseFollowUp \/ AskFollowUp \/ Similar
  \/ Sentence \/ ScratchTurn \/ ExhaustTurns \/ Raise

PlanSpec == PlanInit /\ [][PlanNext]_planVars

-----------------------------------------------------------------------------
\* A Brief that execute returns is whole and in time: every section has its
\* sentence or the one reason why not, the frequency section an answer, and
\* its follow-up question is named exactly when its answer is the one shown
\* (harness.py:207-211, 261-267, 300-304).
BriefIsWhole ==
  pc = "built" =>
    /\ \A s \in SECTIONS : outcome[s] # "pending"
    /\ answer # "none" /\ (followUp <=> answer = "second")
    /\ elapsed <= RunTimeout

\* A Run that runs late stops: the clock is first read after eight calls, and
\* from then on after at most six more, which relevant makes, and the follow-up
\* decision with similar after it.  The stale window of the record and the branch
\* TTL have to leave room for that, not for RunTimeout alone (harness.py:132-134).
OverrunIsBounded ==
  \/ elapsed <= 8 * MaxCall
  \/ elapsed <= RunTimeout + 6 * MaxCall

\* No Run costs more model calls, Genie questions or scratch statements than
\* its budgets, whatever the model answers.
BudgetsHold ==
  /\ modelCalls <= QuestionAttempts + 1 + 4 * MaxSentenceTurns
  /\ genieTurns <= MaxGenieTurns
  /\ scratch <= MaxScratch

\* The scratch budget is shared, but a section loses its sentence to it only
\* when the earlier ones could have spent it: with 8 statements and 3 turns
\* the first two sections never do.
ScratchIsShared ==
  \A s \in SECTIONS : outcome[s] = "scratch SQL budget" =>
    MaxScratch < s * MaxSentenceTurns

=============================================================================
