---------------------------- MODULE Expectations ----------------------------
(***************************************************************************)
(* The expectations catalogue (pipeline/expectations.py) and the columns of *)
(* the gold tables it speaks of.  dlt_pipeline.py attaches each catalogue   *)
(* with expect_all_or_fail: one row that breaks one expectation fails the   *)
(* update, for every policy of the dataset.                                 *)
(*                                                                         *)
(* A table is built row by row, and a row is a record of its columns; a     *)
(* family of columns is one of them.  A NULL column is the empty set and a  *)
(* value the singleton.  The expectations on texts and on identifiers (E18, *)
(* E19, E22), those on policy_similarity (E15, E16) and the join of E21 are *)
(* not here: the model has neither texts nor neighbours, and a claim has    *)
(* its context row by construction.                                         *)
(***************************************************************************)
EXTENDS GoldLayer

CONSTANTS SEVERITY_CUTS,   \* where moderate, severe and catastrophic start
          PRIOR_WINDOWS,   \* <<30, 60, 90>>
          SettleLags       \* bound: the days from a report to its settlement

ASSUME ExpectationsAssumption ==
  /\ SEVERITY_CUTS \in Seq(Nat \ {0}) /\ Len(SEVERITY_CUTS) = 3
  /\ PRIOR_WINDOWS \in Seq(Nat) /\ Len(PRIOR_WINDOWS) = 3
  /\ \A rows \in {SEVERITY_CUTS, PRIOR_WINDOWS} : rows[1] < rows[2] /\ rows[2] < rows[3]
  /\ RELEVANT_CHANGE_DAYS <= PRIOR_WINDOWS[2]
  /\ SettleLags \subseteq Nat

CATEGORICAL_CATEGORIES == {"vehicle", "address", "status", "agent"}
SEVERITY_ORDER == <<"minor", "moderate", "severe", "catastrophic">>
PATTERN_CODES == ClaimRules \cup {"rapid_change_cluster", "vehicle_and_address_within_60d",
                                  "claim_near_new_limit"}

-----------------------------------------------------------------------------
(* policy_change_event: the columns GoldLayer does not name. *)

\* severity_band: half-open bands.
SeverityBand(amount) ==
  {SEVERITY_ORDER[i] : i \in {j \in 1..4 : /\ j > 1 => SEVERITY_CUTS[j - 1] <= amount
                                           /\ j < 4 => amount < SEVERITY_CUTS[j]}}

\* The seven LINKAGE_COLUMNS.
Linkage(c) ==
  LET linked == LinkedClaim(c)
      Of(column) == {claims[k][column] : k \in linked}
  IN [next_claim_id             |-> linked,
      days_to_next_claim_loss   |-> {DaysToLoss(c, k) : k \in linked},
      days_to_next_claim_report |-> {report - c.day : report \in Of("report")},
      change_timing             |-> {ChangeTiming(c, k) : k \in linked},
      next_claim_amount         |-> Of("amount"),
      next_claim_severity       |-> UNION {SeverityBand(amount) : amount \in Of("amount")},
      next_claim_coverage_line  |-> Of("line")]

\* old_value_num and new_value_num.
NumericPair(c) ==
  LET Moved(rows, column) == {<<rows[i][column], rows[i + 1][column]>> :
                                i \in {j \in 1..(Len(rows) - 1) : rows[j + 1].from = c.day}}
  IN CASE c.category \in CATEGORICAL_CATEGORIES -> {}
       [] c.category = "coverage"   -> Moved(coverage[c.line], "limit")
       [] c.category = "deductible" -> Moved(coverage[c.line], "deductible")
       [] OTHER -> Moved(history, "premium")

\* change_pct, in whole percents.
ChangePct(c) == {((pair[2] - pair[1]) * 100) \div pair[1] :
                   pair \in {p \in NumericPair(c) : p[1] # 0}}

\* _prior_material_counts, by what is counted: the change grain leaves the day
\* out, the claim grain counts it.
PriorMaterial(day, window, inclusive) ==
  {c \in Material(ChangeRows) : /\ day - window <= c.day
                                /\ IF inclusive THEN c.day <= day ELSE c.day < day}

ClaimPrior(k, window) == PriorMaterial(claims[k].loss, window, TRUE)

\* The three windows of the material_changes_prior columns.
PriorCounts(day, inclusive) ==
  [i \in 1..3 |-> Cardinality(PriorMaterial(day, PRIOR_WINDOWS[i], inclusive))]

\* build_policy_change_event: the row of a change.
ChangeEventRow(c) ==
  [change_date     |-> c.day,
   change_category |-> c.category,
   is_material     |-> c.category \in MATERIAL_CATEGORIES,
   coverage_line   |-> c.line,
   value_num       |-> NumericPair(c),
   direction       |-> c.direction,
   change_pct      |-> ChangePct(c),
   linkage         |-> Linkage(c),
   relates         |-> {RelatesToClaimed(c, k) : k \in LinkedClaim(c)},
   material_changes_prior |-> PriorCounts(c.day, FALSE)]

-----------------------------------------------------------------------------
(* claim_event and claim_context. *)

\* limit_utilization_pct, in whole percents; it may be above 100.
Utilization(k) ==
  {(claims[k].amount * 100) \div limit : limit \in ApplicableLimits(k) \ {0}}

PolicyAgeAtLoss(k) == claims[k].loss - history[1].from

DaysSincePriorClaim(k) ==
  {claims[k].report - claims[j].report :
     j \in {i \in PriorClaims(k) :
              \A h \in PriorClaims(k) : claims[h].report <= claims[i].report}}

\* build_claim_event: the row of a claim.
ClaimEventRow(k) ==
  [coverage_line         |-> claims[k].line,
   loss_date             |-> claims[k].loss,
   report_date           |-> claims[k].report,
   loss_to_report_days   |-> claims[k].report - claims[k].loss,
   settled_amount        |-> claims[k].amount,
   severity_band         |-> SeverityBand(claims[k].amount),
   applicable_limit      |-> ApplicableLimits(k),
   limit_utilization_pct |-> Utilization(k),
   at_or_near_limit      |-> {AtOrNearLimit(k) : pct \in Utilization(k)},
   material_changes_prior  |-> PriorCounts(claims[k].loss, TRUE),
   material_changes_in_gap |-> Cardinality(MaterialInGap(k)),
   last_material_change_before_loss |-> LastBeforeLoss(k),
   relevant_coverage_change         |-> RelevantCoverageChange(k)]

\* build_claim_context: the row of a claim.
ClaimContextRow(k) ==
  [policy_age_at_loss_days |-> PolicyAgeAtLoss(k),
   prior_claims_count      |-> Cardinality(PriorClaims(k)),
   days_since_prior_claim  |-> DaysSincePriorClaim(k),
   reinstated_recently     |-> ReinstatedRecently(k),
   vehicle_added_recently  |-> VehicleAddedRecently(k)]

-----------------------------------------------------------------------------
(* policy_profile. *)

MaxSeverity ==
  LET severities == UNION {SeverityBand(claims[k].amount) : k \in DOMAIN claims}
      worst == {i \in 1..4 : SEVERITY_ORDER[i] \in severities}
  IN {SEVERITY_ORDER[i] : i \in {j \in worst : \A h \in worst : h <= j}}

\* The changes share_material_changes_within_60d_before_loss counts.
BeforeSomeLoss == UNION {ClaimPrior(k, PRIOR_WINDOWS[2]) : k \in DOMAIN claims}

\* last_material_change_date and last_claim_date.
LatestDay(days) == {d \in days : \A e \in days : e <= d}

\* build_policy_profile: the row of the policy, from its change and claim rows
\* and its matches.  The share is a pair: how many of how many.
PolicyProfile(matches) ==
  LET material == Material(ChangeRows)
      matched  == {match.code : match \in matches}
      OfCategory(category) == {c \in material : c.category = category}
  IN [policy_status         |-> Current.status,
      term_start_date       |-> Current.term_start,
      current_limit         |-> [l \in Lines |-> CurrentLimits(l)],
      material_change_count |-> Cardinality(material),
      peak_material_changes |-> Peak,
      category_count        |-> [category \in MATERIAL_CATEGORIES |->
                                   Cardinality(OfCategory(category))],
      net_coverage_direction |-> NetCoverageDirection,
      claim_count           |-> Len(claims),
      max_severity_band     |-> MaxSeverity,
      share_before_loss     |-> IF material = {} THEN {}
                                ELSE {<<Cardinality(BeforeSomeLoss), Cardinality(material)>>},
      last_material_change_date |-> LatestDay({c.day : c \in material}),
      last_claim_date       |-> LatestDay({claims[k].loss : k \in DOMAIN claims}),
      noteworthy_pattern_count |-> Cardinality(matched),
      pattern               |-> [code \in PATTERN_CODES |-> code \in matched]]

-----------------------------------------------------------------------------
(* policy_timeline_event. *)

\* Mutant: the interim payment of an open claim may be dated past the anchor.
PaymentsUnclamped(k, lag) ==
  LET settle  == claims[k].report + lag
      interim == claims[k].report + lag \div 3
  IN IF settle <= DAY_ANCHOR THEN {interim, settle} ELSE {interim}

\* The days the generator may pay a claim on: its settlement and a part before
\* it, or, while it is open, the part alone.
Payments(k, lag) ==
  LET settle  == claims[k].report + lag
      interim == claims[k].report + lag \div 3
  IN IF settle <= DAY_ANCHOR THEN {interim, settle} ELSE {interim} \cap Days

Event(day, type, amount) == [day |-> day, type |-> type, amount |-> amount]

\* With every payment that may be drawn.
TimelineEvents ==
  {Event(history[1].from, "policy_created", {})}
    \cup {Event(day, "renewal", {}) : day \in Renewals}
    \cup {Event(c.day, ChangeEvent(c).type, {}) : c \in ChangeRows}
    \cup UNION {{Event(claims[k].report, "claim_filed", {claims[k].amount})}
                  \cup {Event(day, "claim_payment", {claims[k].amount}) :
                          day \in UNION {Payments(k, lag) : lag \in SettleLags}} :
                  k \in DOMAIN claims}

-----------------------------------------------------------------------------
(* The catalogues: what each says of one row. *)

\* SEVERITY_CASE: a CASE takes the first branch that is true.
SeverityCase(amount) ==
  IF amount < SEVERITY_CUTS[1] THEN "minor"
  ELSE IF amount < SEVERITY_CUTS[2] THEN "moderate"
  ELSE IF amount < SEVERITY_CUTS[3] THEN "severe" ELSE "catastrophic"

ChangeExpectations(row) ==
  LET linkage == row.linkage
      categorical == row.change_category \in CATEGORICAL_CATEGORIES
  IN [E1 |-> /\ categorical => row.change_pct = {}
             /\ (\A pair \in row.value_num : pair[1] = 0) => row.change_pct = {},
      E2 |-> IF categorical THEN row.direction = "switch"
             ELSE row.direction \in {"increase", "decrease"},
      E3 |-> categorical <=> row.value_num = {},
      E4 |-> \/ \A column \in DOMAIN linkage : linkage[column] = {}
             \/ \A column \in DOMAIN linkage : linkage[column] # {},
      E5 |-> linkage.change_timing \subseteq {"before_loss", "after_loss_before_report"},
      E6 |-> \A days \in linkage.days_to_next_claim_report : days >= 0,
      E7 |-> \A days \in linkage.days_to_next_claim_loss :
               linkage.change_timing = {IF days >= 0 THEN "before_loss"
                                        ELSE "after_loss_before_report"},
      E8 |-> linkage.next_claim_severity =
               {SeverityCase(amount) : amount \in linkage.next_claim_amount},
      E12 |-> row.change_category = "deductible" => row.coverage_line \in DeductibleLines,
      E17 |-> row.change_date <= DAY_ANCHOR,
      is_material_matches_the_five_decision_categories |->
        row.is_material <=> row.change_category \in MATERIAL_CATEGORIES]

ClaimExpectations(row) ==
  LET pcts  == row.limit_utilization_pct
      prior == row.material_changes_prior
  IN [E9  |-> row.settled_amount >= 0 /\ row.severity_band = {SeverityCase(row.settled_amount)},
      E10 |-> /\ row.applicable_limit \subseteq {0} <=> pcts = {}
              /\ \A pct \in pcts : /\ pct \in {(row.settled_amount * 100) \div limit :
                                                limit \in row.applicable_limit \ {0}}
                                   /\ row.at_or_near_limit = {pct >= AT_OR_NEAR_LIMIT_PCT},
      E11 |-> /\ row.report_date >= row.loss_date
              /\ row.loss_to_report_days = row.report_date - row.loss_date,
      E17 |-> row.loss_date <= DAY_ANCHOR /\ row.report_date <= DAY_ANCHOR,
      prior_windows_widen_monotonically |->
        prior[1] <= prior[2] /\ prior[2] <= prior[3],
      gap_count_is_never_negative |-> row.material_changes_in_gap >= 0]

ContextExpectations(row) ==
  [E23 |-> /\ row.prior_claims_count >= 0 /\ row.policy_age_at_loss_days >= 0
           /\ \A days \in row.days_since_prior_claim : days >= 0,
   prior_claim_gap_is_null_exactly_when_there_is_no_prior_claim |->
     row.prior_claims_count = 0 <=> row.days_since_prior_claim = {}]

ProfileExpectations(row) ==
  LET count == row.category_count
  IN [E20 |-> \A day \in row.last_material_change_date : day <= DAY_ANCHOR,
      E17 |-> \A day \in row.last_claim_date : day <= DAY_ANCHOR,
      category_counts_sum_to_the_material_count |->
        count["coverage"] + count["deductible"] + count["vehicle"] + count["address"]
          + count["status"] = row.material_change_count,
      E13 |-> row.noteworthy_pattern_count =
                Cardinality({code \in PATTERN_CODES : row.pattern[code]}),
      max_severity_band_domain |->
        row.max_severity_band \subseteq {SEVERITY_ORDER[i] : i \in 1..4},
      net_coverage_direction_domain |->
        row.net_coverage_direction \in {"increase", "decrease", "net_zero", "none"},
      share_is_a_fraction |->
        \A share \in row.share_before_loss : 0 <= share[1] /\ share[1] <= share[2]]

TimelineExpectations(e) ==
  [E17 |-> e.day <= DAY_ANCHOR,
   event_type_domain |-> e.type \in DOMAIN TypeRank,
   amount_is_a_claim_or_payment_amount |->
     e.amount = {} \/ e.type \in {"claim_filed", "claim_payment"}]

MatchExpectations(match) ==
  [E17 |-> match.on <= DAY_ANCHOR,
   pattern_code_domain |-> match.code \in PATTERN_CODES,
   every_match_carries_evidence |-> match.change \in ChangeRows \/ match.claim # {}]

\* qa_severity_agreement joins next_claim_id to claim_id.
SeverityAgreement(linkage, row) ==
  [E8 |-> /\ linkage.next_claim_severity = row.severity_band
          /\ linkage.next_claim_amount = {row.settled_amount}
          /\ linkage.next_claim_coverage_line = {row.coverage_line}]

\* qa_pattern_consistency: the count and the flags of the profile against the rows.
PatternConsistency(row, matches) ==
  LET matched == {match.code : match \in matches}
  IN [E13 |-> row.noteworthy_pattern_count = Cardinality(matched),
      E14 |-> \A code \in PATTERN_CODES : row.pattern[code] <=> code \in matched]

Broken(results) == {name \in DOMAIN results : ~results[name]}

\* What fails the update, among the rows of this policy.
FailedExpectations ==
  LET rows    == ChangeRows
      matches == PatternMatches
      profile == PolicyProfile(matches)
  IN UNION ({Broken(ChangeExpectations(ChangeEventRow(c))) : c \in rows}
       \cup {Broken(ClaimExpectations(ClaimEventRow(k))) : k \in DOMAIN claims}
       \cup {Broken(ContextExpectations(ClaimContextRow(k))) : k \in DOMAIN claims}
       \cup {Broken(ProfileExpectations(profile)), Broken(PatternConsistency(profile, matches))}
       \cup {Broken(MatchExpectations(match)) : match \in matches}
       \cup {Broken(TimelineExpectations(e)) : e \in TimelineEvents}
       \cup UNION {{Broken(SeverityAgreement(Linkage(c), ClaimEventRow(k))) :
                      k \in LinkedClaim(c)} : c \in rows})

-----------------------------------------------------------------------------
\* No history the generator may emit fails the update: expect_all_or_fail stops
\* it, for every policy, at one row of one table that breaks one expectation.
PipelinePasses == phase = "built" => FailedExpectations = {}
=============================================================================
