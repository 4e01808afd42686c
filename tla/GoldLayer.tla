------------------------------ MODULE GoldLayer ------------------------------
(***************************************************************************)
(* The gold tables of one policy, computed by pipeline/transformations.py  *)
(* from its history: the change rows and their Linked Claims, the claim    *)
(* rows, the claim context, the Noteworthy Patterns, the profile and the   *)
(* timeline.                                                               *)
(*                                                                         *)
(* The pipeline keeps state nowhere: each table is an operator of the      *)
(* bronze tables.  A row of policy_change_event is [day, category, line,   *)
(* direction]; its change_event_id, a number in sort order, is the order   *)
(* Before.  A claim is named by its place in the order of claim_id, and a  *)
(* NULL claim is the empty set of claims.                                  *)
(***************************************************************************)
EXTENDS PolicyHistory

CONSTANTS PATTERN_CLAIM_WINDOW_DAYS,        \* 60
          PATTERN_CLUSTER_SPAN_DAYS,        \* 30
          PATTERN_CLUSTER_MIN_CHANGES,      \* 3
          PATTERN_VEHICLE_ADDRESS_DAYS,     \* 60
          PATTERN_LIMIT_RAISED_WINDOW_DAYS, \* 90
          RECENT_BEFORE_LOSS_DAYS,          \* 30
          RELEVANT_CHANGE_DAYS              \* the 60 days of relevant_coverage_change

AT_OR_NEAR_LIMIT_PCT == 90

ASSUME WindowsAssumption ==
  /\ {PATTERN_CLAIM_WINDOW_DAYS, PATTERN_CLUSTER_SPAN_DAYS, PATTERN_CLUSTER_MIN_CHANGES,
      PATTERN_VEHICLE_ADDRESS_DAYS, PATTERN_LIMIT_RAISED_WINDOW_DAYS,
      RECENT_BEFORE_LOSS_DAYS, RELEVANT_CHANGE_DAYS} \subseteq Nat
  /\ PATTERN_CLAIM_WINDOW_DAYS <= RELEVANT_CHANGE_DAYS
  /\ PATTERN_CLUSTER_MIN_CHANGES # 0

-----------------------------------------------------------------------------
(* The change rows: consecutive versions compared column by column. *)

\* The columns of policy_history that are compared, by category.  The three
\* address columns move together and are one.
Column == [address |-> "location", status |-> "status", vehicle |-> "vehicle",
           premium |-> "premium", agent |-> "agent"]

\* change_direction.
ChangeDirection(category, old, new) ==
  IF category \in {"coverage", "deductible", "premium"}
  THEN Direction(old, new) ELSE "switch"

PolicyDiffs ==
  UNION {{[day |-> history[i + 1].from, category |-> c, line |-> NoLine,
           direction |-> ChangeDirection(c, history[i][Column[c]], history[i + 1][Column[c]])] :
     i \in {j \in 1..(Len(history) - 1) :
              history[j][Column[c]] # history[j + 1][Column[c]]}} : c \in DOMAIN Column}

LineDiffs(category, column, lines) ==
  UNION {{[day |-> coverage[l][i + 1].from, category |-> category, line |-> l,
           direction |-> ChangeDirection(category, coverage[l][i][column],
                                         coverage[l][i + 1][column])] :
     i \in {j \in 1..(Len(coverage[l]) - 1) :
              coverage[l][j][column] # coverage[l][j + 1][column]}} : l \in lines}

\* derive_change_events_from_scd2.
ChangeRows == PolicyDiffs \cup LineDiffs("coverage", "limit", Lines)
                \cup LineDiffs("deductible", "deductible", DeductibleLines)

Material(rows) == {c \in rows : c.category \in MATERIAL_CATEGORIES}

\* The order of change_event_id: day, category, line.
CategoryRank == [address |-> 1, agent |-> 2, coverage |-> 3, deductible |-> 4,
                 premium |-> 5, status |-> 6, vehicle |-> 7]
Before(c, d) ==
  \/ c.day < d.day
  \/ /\ c.day = d.day
     /\ \/ CategoryRank[c.category] < CategoryRank[d.category]
        \/ c.category = d.category /\ c.line < d.line

LatestOf(rows) == CHOOSE c \in rows : \A d \in rows : d # c => Before(d, c)

-----------------------------------------------------------------------------
(* policy_change_event. *)

\* Mutant: linkage by loss date (ADR-0002 before ADR-0004).
ReportedFromLoss(day) == {k \in DOMAIN claims : claims[k].loss >= day}

\* Mutant: no tie-break.
ReportedFirstUntied(k, ks) == \A j \in ks : claims[k].report <= claims[j].report

\* The claims reported at or after a day, and the first of some claims to be
\* reported; of claims reported on one day it is the one with the least id.
ReportedFrom(day) == {k \in DOMAIN claims : claims[k].report >= day}

ReportedFirst(k, ks) ==
  \A j \in ks : \/ claims[k].report < claims[j].report
                \/ claims[k].report = claims[j].report /\ k <= j

\* _link_claim: the Linked Claim of a change, none when no claim follows.
LinkedClaim(c) == {k \in ReportedFrom(c.day) : ReportedFirst(k, ReportedFrom(c.day))}

DaysToLoss(c, k)   == claims[k].loss - c.day

\* Mutant: a change on the day of the loss is after it.
ChangeTimingStrict(c, k) == IF DaysToLoss(c, k) > 0 THEN "before_loss"
                            ELSE "after_loss_before_report"

ChangeTiming(c, k) == IF DaysToLoss(c, k) >= 0 THEN "before_loss"
                      ELSE "after_loss_before_report"

\* Mutant: any line-specific change will do.
RelatesToAny(c, k) == c.line # NoLine

RelatesToClaimed(c, k) == c.line # NoLine /\ c.line = claims[k].line

\* days_to_next_claim_loss <= N with change_timing = 'before_loss'.
LinkedBeforeLoss(c, window) ==
  \E k \in LinkedClaim(c) : /\ ChangeTiming(c, k) = "before_loss"
                            /\ DaysToLoss(c, k) <= window

Distance(a, b) == IF a < b THEN b - a ELSE a - b

\* _nearest_category_offsets: of the row's own category the previous change,
\* of another one the change nearest to the row, of two equally near the
\* earlier, and of one day the first.
NearestPeer(c, category) ==
  LET peers == {d \in ChangeRows : d.category = category /\ d # c}
      earlier == {d \in peers : Before(d, c)}
      Nearer(d, e) == \/ Distance(d.day, c.day) < Distance(e.day, c.day)
                      \/ /\ Distance(d.day, c.day) = Distance(e.day, c.day)
                         /\ Before(d, e)
  IN IF category = c.category
     THEN {d \in earlier : \A e \in earlier : e # d => Before(e, d)}
     ELSE {d \in peers : \A e \in peers : e # d => Nearer(d, e)}

-----------------------------------------------------------------------------
(* claim_event. *)

\* Mutant: a version is in force from the day after its first.
ScdLookupAfter(rows, day) ==
  LET covers == {i \in DOMAIN rows : rows[i].from < day /\ day <= EffectiveTo(rows, i)}
  IN {i \in covers : \A j \in covers : i <= j}

\* _scd_lookup: the first version that covers the day, none when no one does.
ScdLookup(rows, day) ==
  LET covers == {i \in DOMAIN rows : rows[i].from <= day /\ day < EffectiveTo(rows, i)}
  IN {i \in covers : \A j \in covers : i <= j}

ApplicableLimits(k) ==
  {coverage[claims[k].line][i].limit : i \in ScdLookup(coverage[claims[k].line], claims[k].loss)}

\* limit_utilization_pct is NULL when there is no limit or it is zero.
AtOrNearLimit(k) ==
  \E limit \in ApplicableLimits(k) :
    limit # 0 /\ claims[k].amount * 100 >= AT_OR_NEAR_LIMIT_PCT * limit

\* The material changes of the Loss-to-Report Gap (loss_date, report_date].
MaterialInGap(k) ==
  {c \in Material(ChangeRows) : claims[k].loss < c.day /\ c.day <= claims[k].report}

RelevantCoverageChange(k) ==
  \E c \in ChangeRows : /\ c.category \in {"coverage", "deductible"}
                        /\ c.line = claims[k].line
                        /\ claims[k].loss - RELEVANT_CHANGE_DAYS <= c.day
                        /\ c.day <= claims[k].loss

\* The last material change on or before the loss.
LastBeforeLoss(k) ==
  LET before == {c \in Material(ChangeRows) : c.day <= claims[k].loss}
  IN {c \in before : \A d \in before : d # c => Before(d, c)}

-----------------------------------------------------------------------------
(* claim_context. *)

WithinBefore(loss, day) == 0 <= loss - day /\ loss - day <= RECENT_BEFORE_LOSS_DAYS

\* The versions that enter the reinstated status.
ReinstatedOn ==
  {history[i].from : i \in {j \in DOMAIN history :
     history[j].status = "reinstated" /\ (j > 1 => history[j - 1].status # "reinstated")}}

\* Mutant: the vehicle the policy started with counts.
AddedOnFromStart == {vehicles[i].added : i \in DOMAIN vehicles}

\* The vehicles added after inception.
AddedOn == {day \in {vehicles[i].added : i \in DOMAIN vehicles} : day > history[1].from}

ReinstatedRecently(k)   == \E day \in ReinstatedOn : WithinBefore(claims[k].loss, day)
VehicleAddedRecently(k) == \E day \in AddedOn : WithinBefore(claims[k].loss, day)
PriorClaims(k) == {j \in DOMAIN claims : claims[j].report < claims[k].report}

-----------------------------------------------------------------------------
(* policy_pattern_match: one evaluation of each rule. *)

\* The rules that emit the Linked Claim of their change; the others emit none.
ClaimRules == {"coverage_raised_then_claimed_same_line", "deductible_lowered_before_claim",
               "change_in_loss_report_gap"}

\* The latest of the changes that hit, with the claim it is evidence for.
EmitLatest(code, hits) ==
  IF hits = {} THEN {}
  ELSE LET latest == LatestOf(hits)
       IN {[code |-> code, on |-> latest.day, change |-> latest,
            claim |-> IF code \in ClaimRules THEN LinkedClaim(latest) ELSE {}]}

R1 == EmitLatest("coverage_raised_then_claimed_same_line",
        {c \in ChangeRows :
           /\ c.category = "coverage" /\ c.direction = "increase"
           /\ LinkedBeforeLoss(c, PATTERN_CLAIM_WINDOW_DAYS)
           /\ \E k \in LinkedClaim(c) : RelatesToClaimed(c, k)})
R2 == EmitLatest("deductible_lowered_before_claim",
        {c \in ChangeRows : /\ c.category = "deductible" /\ c.direction = "decrease"
                            /\ LinkedBeforeLoss(c, PATTERN_CLAIM_WINDOW_DAYS)})
R3 == EmitLatest("change_in_loss_report_gap",
        {c \in Material(ChangeRows) :
           \E k \in LinkedClaim(c) : ChangeTiming(c, k) = "after_loss_before_report"})

\* _densest_window: the rows of the span that starts with s, and of the spans
\* that hold the most the first; empty when there are no rows.
SpanFrom(rows, s) ==
  {c \in rows : (c = s \/ Before(s, c)) /\ c.day - s.day <= PATTERN_CLUSTER_SPAN_DAYS}
DensestSpan(rows) ==
  LET size == [s \in rows |-> Cardinality(SpanFrom(rows, s))]
      First(s) == \A t \in rows : \/ size[t] < size[s]
                                  \/ size[t] = size[s] /\ ~Before(t, s)
  IN UNION {SpanFrom(rows, s) : s \in {t \in rows : First(t)}}
Peak == Cardinality(DensestSpan(Material(ChangeRows)))

R4 == LET span == DensestSpan(Material(ChangeRows))
      IN EmitLatest("rapid_change_cluster",
           IF Cardinality(span) >= PATTERN_CLUSTER_MIN_CHANGES THEN span ELSE {})

\* Mutant: the offset without ABS.
R5Signed == EmitLatest("vehicle_and_address_within_60d",
        {c \in ChangeRows :
           /\ c.category = "vehicle"
           /\ \E d \in NearestPeer(c, "address") :
                d.day - c.day <= PATTERN_VEHICLE_ADDRESS_DAYS})

R5 == EmitLatest("vehicle_and_address_within_60d",
        {c \in ChangeRows :
           /\ c.category = "vehicle"
           /\ \E d \in NearestPeer(c, "address") :
                Distance(d.day, c.day) <= PATTERN_VEHICLE_ADDRESS_DAYS})

\* The raises of the claim's limit within the window before its loss.
Raises(k) ==
  {c \in ChangeRows : /\ c.category = "coverage" /\ c.direction = "increase"
                      /\ c.line = claims[k].line
                      /\ claims[k].loss - PATTERN_LIMIT_RAISED_WINDOW_DAYS <= c.day
                      /\ c.day <= claims[k].loss}
R6 ==
  LET hits == {k \in DOMAIN claims : AtOrNearLimit(k) /\ Raises(k) # {}}
      last == CHOOSE k \in hits : \A j \in hits :
                \/ claims[j].loss < claims[k].loss
                \/ claims[j].loss = claims[k].loss /\ j <= k
  IN IF hits = {} THEN {}
     ELSE {[code |-> "claim_near_new_limit", on |-> claims[last].loss,
            change |-> LatestOf(Raises(last)), claim |-> {last}]}

PatternMatches == R1 \cup R2 \cup R3 \cup R4 \cup R5 \cup R6

-----------------------------------------------------------------------------
(* policy_profile: what is in force now, what the changes add up to, and the
   flags, which are read off the matches. *)

\* _current_version and coverage_current: the row marked is_current.
CurrentLimits(l) ==
  {coverage[l][i].limit : i \in {j \in DOMAIN coverage[l] : IsCurrent(coverage[l], j)}}

Flags == {match.code : match \in PatternMatches}

CoverageMoves(direction) ==
  Cardinality({c \in ChangeRows : c.category = "coverage" /\ c.direction = direction})

\* Mutant: as many increases as decreases are none.
NetCoverageDirectionOfDifference ==
  LET up   == CoverageMoves("increase")
      down == CoverageMoves("decrease")
  IN CASE up > down -> "increase" [] down > up -> "decrease" [] OTHER -> "none"

NetCoverageDirection ==
  LET up   == CoverageMoves("increase")
      down == CoverageMoves("decrease")
  IN CASE up = 0 /\ down = 0 -> "none"
       [] up > down -> "increase"
       [] down > up -> "decrease"
       [] OTHER -> "net_zero"

-----------------------------------------------------------------------------
(* policy_timeline_event. *)

\* Mutant: the claim marker first.
TypeRankClaimFirst == [policy_created |-> 0, policy_change |-> 2, claim_filed |-> 1,
                       claim_payment |-> 3, renewal |-> 4, status_change |-> 5]

\* The order of TIMELINE_EVENT_TYPES, which decides within a day.
TypeRank == [policy_created |-> 0, policy_change |-> 1, claim_filed |-> 2,
             claim_payment |-> 3, renewal |-> 4, status_change |-> 5]

Renewals == {history[i].term_start : i \in {j \in DOMAIN history :
               j > 1 /\ history[j].term_start > history[j - 1].term_start}}

ChangeEvent(c) == [day |-> c.day,
                   type |-> IF c.category = "status" THEN "status_change" ELSE "policy_change"]
ClaimEvent(k)  == [day |-> claims[k].report, type |-> "claim_filed"]

\* An event is shown before another one, whatever their ids.
ShownBefore(e, f) == \/ e.day < f.day
                     \/ e.day = f.day /\ TypeRank[e.type] < TypeRank[f.type]
=============================================================================
