--------------------------- MODULE BriefQuestions ---------------------------
(***************************************************************************)
(* What a Run asks about a claim, read off the gold tables of its policy:   *)
(* the Routing Rule (review/routing.py), the rows that the harness's tools  *)
(* select (review/tools.py), and the situation and the window detected from *)
(* them (review/questions.py).  Module BriefPlan is the Run that uses them; *)
(* how a question is worded, and whether the model words it, is not here.   *)
(***************************************************************************)
EXTENDS Expectations

CONSTANTS QUESTION_WINDOWS, \* _WINDOWS: <<30, 60, 90>>
          ROUTING_DAYS,     \* the 90 days of the Routing Rule
          SEQUENCE_DAYS     \* the 365 days of the Sequence

ASSUME QuestionsAssumption ==
  /\ QUESTION_WINDOWS \in Seq(Nat) /\ Len(QUESTION_WINDOWS) = 3
  /\ QUESTION_WINDOWS[1] < QUESTION_WINDOWS[2] /\ QUESTION_WINDOWS[2] < QUESTION_WINDOWS[3]
  /\ RELEVANT_CHANGE_DAYS < QUESTION_WINDOWS[3]
  /\ {ROUTING_DAYS, SEQUENCE_DAYS} \subseteq Nat

\* ROUTING_SQL: a High-Severity Claim whose report date is Recent.
Routed(k) ==
  /\ SeverityBand(claims[k].amount) \subseteq {"severe", "catastrophic"}
  /\ claims[k].report >= DAY_ANCHOR - ROUTING_DAYS

\* Mutant: any change the claim is the Linked Claim of.
AllLinkedChanges(k) == {c \in ChangeRows : k \in LinkedClaim(c)}

\* _RELEVANT_SQL: the Relevant Changes, before the loss or in the gap.
RelevantChanges(k) ==
  {c \in ChangeRows : RelatesToClaimed(c, k) /\ k \in LinkedClaim(c)}

\* _PATTERNS_SQL: the matches the claim is evidence of.
MatchesOn(k) == {match \in PatternMatches : k \in match.claim}

\* detect_situation.
DetectSituation(k) ==
  LET relevant == RelevantChanges(k)
  IN IF \E c \in relevant : ChangeTiming(c, k) = "after_loss_before_report"
     THEN "relevant_in_gap"
     ELSE IF relevant # {} THEN "relevant_before_loss"
     ELSE IF MatchesOn(k) # {} THEN "pattern_only"
     ELSE "nothing_before"

\* Mutant: a change in the gap counts as near to the loss.
WindowDaysSigned(k) ==
  LET covering == {i \in 1..3 : \E c \in RelevantChanges(k) :
                     DaysToLoss(c, k) <= QUESTION_WINDOWS[i]}
  IN QUESTION_WINDOWS[CHOOSE i \in covering \cup {3} : \A j \in covering : i <= j]

\* window_days: the first window that covers a Relevant Change before the loss,
\* and the last one when none does.
WindowDays(k) ==
  LET covering == {i \in 1..3 : \E c \in RelevantChanges(k) :
                     0 <= DaysToLoss(c, k) /\ DaysToLoss(c, k) <= QUESTION_WINDOWS[i]}
  IN QUESTION_WINDOWS[CHOOSE i \in covering \cup {3} : \A j \in covering : i <= j]

\* _SEQUENCE_SQL: the changes among the rows of the Sequence, which starts
\* SEQUENCE_DAYS before the loss and ends with it; and the material ones the
\* Brief counts, whose rows are of the type policy_change.
SequenceChanges(k) ==
  {c \in ChangeRows : claims[k].loss - SEQUENCE_DAYS <= c.day /\ c.day <= claims[k].loss}
MaterialCounted(k) ==
  {c \in Material(SequenceChanges(k)) : ChangeEvent(c).type = "policy_change"}

-----------------------------------------------------------------------------
\* A Brief says of a claim what the claim's own rows say, though each section
\* is another query.  A question about the gap is asked of a claim that counts
\* a change there and of a policy with the flag.  One about the days before a
\* loss, with a window no longer than RELEVANT_CHANGE_DAYS, is asked of a claim
\* marked relevant_coverage_change; a claim that is marked so and not asked about
\* in such a way lost its change to another claim, reported no later.  A claim
\* that is the evidence of a raised line is never one with "patterns only".  And the Sequence counts the changes the
\* claim counts back from its loss, but for those of status.
BriefFitsTables ==
  \A k \in DOMAIN claims :
    LET situation == DetectSituation(k)
    IN /\ situation = "relevant_in_gap" =>
            MaterialInGap(k) # {} /\ "change_in_loss_report_gap" \in Flags
       /\ situation = "relevant_before_loss" /\ WindowDays(k) <= RELEVANT_CHANGE_DAYS =>
            RelevantCoverageChange(k)
       /\ situation \in {"pattern_only", "nothing_before"} /\ RelevantCoverageChange(k) =>
            \E j \in DOMAIN claims \ {k} : claims[j].report <= claims[k].report
       /\ situation = "pattern_only" =>
            \A match \in MatchesOn(k) : match.code # "coverage_raised_then_claimed_same_line"
       /\ MaterialCounted(k) = {c \in ClaimPrior(k, SEQUENCE_DAYS) : c.category # "status"}
=============================================================================
