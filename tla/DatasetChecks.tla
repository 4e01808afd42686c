---------------------------- MODULE DatasetChecks ----------------------------
(***************************************************************************)
(* What the generator, its validator (generator/validate.py) and the       *)
(* pipeline must agree on.  Three implementations read the same history:   *)
(* the generator keeps its own list of changes and its own limits, the     *)
(* validator rebuilds changes, links and exposure with pandas, and the     *)
(* pipeline builds the gold tables (module GoldLayer).                     *)
(***************************************************************************)
EXTENDS BriefQuestions

(* The validator's own reconstruction. *)

MovedRows(category, column) ==
  {[day |-> history[i + 1].from, category |-> category, line |-> NoLine,
    direction |-> "switch"] :
     i \in {j \in 1..(Len(history) - 1) : history[j][column] # history[j + 1][column]}}
MovedLineRows(category, column) ==
  UNION {{[day |-> coverage[l][i + 1].from, category |-> category, line |-> l,
           direction |-> IF coverage[l][i + 1][column] > coverage[l][i][column]
                         THEN "increase" ELSE "decrease"] :
     i \in {j \in 1..(Len(coverage[l]) - 1) :
              coverage[l][j][column] # coverage[l][j + 1][column]}} : l \in Lines}

\* derive_material_changes.
ValidatorRows ==
  MovedRows("address", "location") \cup MovedRows("vehicle", "vehicle")
    \cup MovedRows("status", "status") \cup MovedLineRows("coverage", "limit")
    \cup MovedLineRows("deductible", "deductible")

\* Mutant: merge_asof with allow_exact_matches=False.
ValidatorLinkAfter(c) ==
  LET from == ReportedFrom(c.day + 1)
  IN {k \in from : \A j \in from :
        \/ claims[k].report < claims[j].report
        \/ claims[k].report = claims[j].report /\ claims[k].loss <= claims[j].loss}

\* link_changes_to_claims: merge_asof takes the first row of the claim table,
\* sorted by report date; the table is written in the order of the losses.
ValidatorLink(c) ==
  LET from == ReportedFrom(c.day)
  IN {k \in from : \A j \in from :
        \/ claims[k].report < claims[j].report
        \/ claims[k].report = claims[j].report /\ claims[k].loss <= claims[j].loss}

\* Mutant: one of the two terminal statuses is forgotten.
ExposureEndCancelled == IF Current.status = "cancelled" THEN Current.from ELSE DAY_ANCHOR

\* policy_exposure: a policy whose last version is terminal left on its day.
ExposureEnd == IF Current.status \in Terminal THEN Current.from ELSE DAY_ANCHOR

\* ExposureGrid.window, for the changes of a category.
ValidatorWindow(rows, category, window, day) ==
  \E c \in rows : /\ c.category = category
                  /\ c.day <= day
                  /\ day <= c.day + window - 1 /\ day <= ExposureEnd

\* run, with ExposureGrid.locate: the claims that fall on no day of the exposure.
ClaimsOutside == {k \in DOMAIN claims : claims[k].loss \notin history[1].from..ExposureEnd}

HighSeverity(k) == SeverityBand(claims[k].amount) \subseteq {"severe", "catastrophic"}

\* windowed_claim_counts: the claims that are counted for a category, among the
\* validator's material rows.
WindowedClaims(rows, category, window, high) ==
  {k \in DOMAIN claims : /\ high => HighSeverity(k)
                         /\ \E c \in rows :
                              /\ c.category = category /\ k \in ValidatorLink(c)
                              /\ 0 <= DaysToLoss(c, k) /\ DaysToLoss(c, k) <= window}

\* The claims that the query Genie is given for the question counts among the
\* material rows of policy_change_event (build_space.py, "Which material changes most often precede ... claims").
QueriedClaims(rows, category, window, high) ==
  {k \in DOMAIN claims : /\ high => HighSeverity(k)
                         /\ \E c \in rows :
                              /\ c.category = category /\ k \in LinkedClaim(c)
                              /\ ChangeTiming(c, k) = "before_loss"
                              /\ DaysToLoss(c, k) <= window}

-----------------------------------------------------------------------------
\* The tables keep their domains; a policy is exposed from its start on.
DatasetTypeOK ==
  /\ phase \in {"evolving", "built"}
  /\ population \in Populations
  /\ end_day \in Days /\ terminal_status \in Terminal \cup {"none"}
  /\ reinstate_pending \in BOOLEAN
  /\ changes \in SUBSET [day : Days, category : MATERIAL_CATEGORIES \cup {"agent"},
                         line : Lines \cup {NoLine},
                         direction : {"increase", "decrease", "switch"}]
  /\ history \in Seq([from : Days, status : PolicyStatuses, agent : Agents,
                      location : Locations, vehicle : 1..Len(vehicles),
                      term_start : Days, premium : {0, 1}])
  /\ history # <<>>
  /\ coverage \in [Lines -> Seq([from : Days, limit : Limits,
                                 deductible : Deductibles \cup {NoDeductible}])]
  /\ vehicles \in Seq([added : Days, removed : Days \cup {FAR_FUTURE}])
  /\ claims \in Seq([line : Lines, loss : Days, report : Days, amount : Nat])

\* Versions tile time: on each day of the dataset one version of the policy and
\* one of each line is in force, and no version is shorter than a day, however
\* many changes a day has (_frames, record_coverage); so the limit a claim is
\* measured against (claim_event.applicable_limit) is the limit the generator
\* sized the claim with (limit_at), change days included.
Tiles(rows) ==
  /\ \A day \in Days : Cardinality({i \in DOMAIN rows :
       rows[i].from <= day /\ day < EffectiveTo(rows, i)}) = 1
  /\ \A i \in 1..(Len(rows) - 1) : rows[i].from < rows[i + 1].from
VersionsInForce ==
  /\ Tiles(history) /\ \A l \in Lines : Tiles(coverage[l])
  /\ \A k \in DOMAIN claims : ApplicableLimits(k) = {LimitAt(claims[k].line, claims[k].loss)}

\* The change rows that the pipeline derives from the versions are the changes
\* the generator made, each once and with its direction, and nothing else but
\* premium echoes: not a renewal, not a co-committed sibling lost or doubled.
ChangesRoundTrip == {c \in ChangeRows : c.category # "premium"} = changes

\* The two grains tell one story of the Loss-to-Report Gap: a material change
\* has change_timing 'after_loss_before_report' when and only when it is counted
\* in the gap of its Linked Claim (claim_event), and one that is counted in the gap of a claim without being
\* linked to it is linked to a claim that is reported in that gap as well.
GapsAgree ==
  \A k \in DOMAIN claims : \A c \in Material(ChangeRows) :
    /\ k \in LinkedClaim(c) =>
         (ChangeTiming(c, k) = "after_loss_before_report" <=> c \in MaterialInGap(k))
    /\ c \in MaterialInGap(k) /\ k \notin LinkedClaim(c)
         => \A j \in LinkedClaim(c) : /\ c.day <= claims[j].report
                                      /\ claims[j].report <= claims[k].report

\* Patterns mean what their names say (ADR-0009), told from what the generator
\* did: a cluster is some three changes close together, a vehicle and an
\* address change were made close together, a limit was higher than the day
\* before within the window of a claim that comes near it.
PatternsMeanWhatTheySay ==
  LET flags == Flags IN
  phase = "built" =>
    /\ "rapid_change_cluster" \in flags <=>
         \E cluster \in SUBSET Material(changes) :
           /\ Cardinality(cluster) = PATTERN_CLUSTER_MIN_CHANGES
           /\ \A c, d \in cluster : Distance(c.day, d.day) <= PATTERN_CLUSTER_SPAN_DAYS
    /\ "vehicle_and_address_within_60d" \in flags <=>
         \E c, d \in changes :
           /\ c.category = "vehicle" /\ d.category = "address"
           /\ Distance(c.day, d.day) <= PATTERN_VEHICLE_ADDRESS_DAYS
    /\ "claim_near_new_limit" \in flags <=>
         \E k \in DOMAIN claims :
           LET At(day) == LimitAt(claims[k].line, day)
           IN /\ claims[k].amount * 100 >= AT_OR_NEAR_LIMIT_PCT * At(claims[k].loss)
              /\ \E day \in 1..claims[k].loss :
                   /\ claims[k].loss - PATTERN_LIMIT_RAISED_WINDOW_DAYS <= day
                   /\ At(day) > At(day - 1)

\* A link follows time: a change has one Linked Claim at most, and a change
\* before a linked one is linked, never to a claim that is reported later.  So a
\* match names evidence the claim row agrees with: the claim of a raised line has
\* a relevant change, the claim of a change in the gap counts it, and every
\* other change a claim is shown with is one its row counts back from.  And the
\* Brief that is built from these rows fits them (BriefFitsTables).
EvidenceAgrees ==
  /\ \A c, d \in ChangeRows :
       /\ Cardinality(LinkedClaim(c)) <= 1
       /\ c.day <= d.day /\ LinkedClaim(d) # {}
            => \E k \in LinkedClaim(c) : \A j \in LinkedClaim(d) :
                 claims[k].report <= claims[j].report
  /\ \A match \in PatternMatches : \A k \in match.claim :
       /\ match.code = "coverage_raised_then_claimed_same_line" => RelevantCoverageChange(k)
       /\ match.code = "change_in_loss_report_gap" => match.change \in MaterialInGap(k)
       /\ match.code # "change_in_loss_report_gap" =>
            \E last \in LastBeforeLoss(k) : match.change.day <= last.day
  /\ BriefFitsTables

\* The claim context agrees with the change rows: a vehicle added after
\* inception is a vehicle change, a reinstatement is a status change, and each
\* is material (build_claim_context reads the vehicle and history tables); and
\* the first claim of a policy has every change up to its report linked to it,
\* or to a claim reported with it.  A change is counted in a prior window of its
\* Linked Claim when and only when its own row is before the loss by no more.
ContextAgrees ==
  LET rows == Material(ChangeRows) IN
  \A k \in DOMAIN claims :
    LET Recent(category) == \E c \in rows :
          c.category = category /\ WithinBefore(claims[k].loss, c.day)
    IN /\ VehicleAddedRecently(k) <=> Recent("vehicle")
       /\ ReinstatedRecently(k) => Recent("status")
       /\ PriorClaims(k) = {} =>
            \A c \in ChangeRows : c.day <= claims[k].report =>
              \E j \in LinkedClaim(c) : claims[j].report = claims[k].report
       /\ \A i \in DOMAIN PRIOR_WINDOWS :
            LET prior == ClaimPrior(k, PRIOR_WINDOWS[i])
            IN \A c \in rows : k \in LinkedClaim(c) =>
                 (c \in prior <=> /\ ChangeTiming(c, k) = "before_loss"
                                  /\ DaysToLoss(c, k) <= PRIOR_WINDOWS[i])

\* The profile is a snapshot of the anchor day that agrees with the other
\* tables: the limit marked current is the one in force on that day, the peak
\* and the cluster flag say the same, "none" is said of the coverage when no
\* limit ever moved, not when the moves cancel out, and the share of changes
\* before a loss is above zero when some claim counts such a change.
ProfileAgrees ==
  /\ \A l \in Lines : CurrentLimits(l) = {LimitAt(l, DAY_ANCHOR)}
  /\ "rapid_change_cluster" \in Flags <=> Peak >= PATTERN_CLUSTER_MIN_CHANGES
  /\ NetCoverageDirection = "none" <=>
       \A l \in Lines : \A i \in DOMAIN coverage[l] : coverage[l][i].limit = coverage[l][1].limit
  /\ \A k \in DOMAIN claims : RelevantCoverageChange(k) => BeforeSomeLoss # {}

\* What the snapshots say agrees with the change rows (both of the above).
SnapshotsAgree == ContextAgrees /\ ProfileAgrees

\* A change in the gap of its Linked Claim is shown before the claim marker,
\* and a renewal is an event of its own (build_policy_timeline_event).  A
\* status change on the day of the report is the exception: its type sorts last.
TimelineTells ==
  /\ \A c \in Material(ChangeRows) : \A k \in LinkedClaim(c) :
       \/ c.category = "status" /\ c.day = claims[k].report
       \/ ShownBefore(ChangeEvent(c), ClaimEvent(k))
  /\ phase = "built" =>
       Renewals = {day \in 1..end_day : day % TERM_LENGTH_DAYS = 0}

\* The validator measures what the pipeline publishes and what the generator
\* calibrated: it finds the same material changes, links them to the same claim
\* unless two claims of the policy share a report date, and measures rates on
\* the same exposure: every loss falls on a day the policy is on the books, and
\* each window after a change covers the same days.  And the counts it ranks the
\* categories by are those of the query: a claim that only one of them counts
\* shares its report date with another claim of the policy.
ValidatorAgrees ==
  LET rows == ValidatorRows
      published == Material(ChangeRows)
  IN
  /\ rows = published
  /\ \A c \in rows :
       \/ ValidatorLink(c) = LinkedClaim(c)
       \/ \E k \in LinkedClaim(c) : \E j \in ValidatorLink(c) :
            j # k /\ claims[j].report = claims[k].report
  /\ phase = "built" =>
       /\ ClaimsOutside = {}
       /\ \A category \in MATERIAL_CATEGORIES : \A day \in Days : \A window \in 1..2 :
            ValidatorWindow(rows, category, window, day)
              <=> WindowFlag(category, window, day)
       /\ \A category \in MATERIAL_CATEGORIES : \A window \in 0..1 : \A high \in BOOLEAN :
            LET windowed == WindowedClaims(rows, category, window, high)
                queried  == QueriedClaims(published, category, window, high)
            IN \A k \in (windowed \ queried) \cup (queried \ windowed) :
                 \E j \in DOMAIN claims \ {k} : claims[j].report = claims[k].report
=============================================================================
