---------------------------- MODULE DatasetProofs ----------------------------
(***************************************************************************)
(* The dataset of a policy, for any anchor, ladders and lines, and for any *)
(* number of changes and claims: its types, the two grains of the          *)
(* Loss-to-Report Gap, and the round trip from the generator's changes     *)
(* through the versions to the change rows.                                *)
(***************************************************************************)
EXTENDS DatasetChecks, TLAPS

(* The rows of the tables. *)

Versions(n) == [from : Days, status : PolicyStatuses, agent : Agents,
                location : Locations, vehicle : 1..n, term_start : Days,
                premium : {0, 1}]
CoverageVersions == [from : Days, limit : Limits, deductible : Deductibles \cup {NoDeductible}]
ChangeSet == [day : Days, category : MATERIAL_CATEGORIES \cup {"agent"},
              line : Lines \cup {NoLine}, direction : {"increase", "decrease", "switch"}]
ClaimSet  == [line : Lines, loss : Days, report : Days, amount : Nat]

\* The type invariant, table by table.
LEMMA TablesTyped ==
  ASSUME DatasetTypeOK
  PROVE  /\ history \in Seq(Versions(Len(vehicles))) /\ history # <<>>
         /\ coverage \in [Lines -> Seq(CoverageVersions)]
         /\ changes \in SUBSET ChangeSet
         /\ claims \in Seq(ClaimSet)
         /\ Len(vehicles) \in Nat
<1>1. history \in Seq(Versions(Len(vehicles))) /\ history # <<>>
  BY DEF DatasetTypeOK, Versions
<1>2. coverage \in [Lines -> Seq(CoverageVersions)]
  BY DEF DatasetTypeOK, CoverageVersions
<1>3. changes \in SUBSET ChangeSet /\ claims \in Seq(ClaimSet)
  BY DEF DatasetTypeOK, ChangeSet, ClaimSet
<1>4. Len(vehicles) \in Nat
  BY DEF DatasetTypeOK
<1> QED
  BY <1>1, <1>2, <1>3, <1>4

LEMMA LatestTyped ==
  ASSUME NEW S, NEW rows \in Seq(S), rows # <<>>
  PROVE  /\ Len(rows) \in Nat \ {0}
         /\ Latest(rows) \in S
         /\ \A i \in 1..Len(rows) : rows[i] \in S
  BY DEF Latest

LEMMA CurrentTyped ==
  ASSUME DatasetTypeOK
  PROVE  /\ Len(history) \in Nat \ {0}
         /\ Current \in Versions(Len(vehicles))
         /\ Len(vehicles) \in Nat
         /\ \A i \in 1..Len(history) : history[i] \in Versions(Len(vehicles))
  BY TablesTyped, LatestTyped DEF Current

\* A new version has its types once the new vehicle, if there is one, is counted.
LEMMA NewVersionTyped ==
  ASSUME DatasetTypeOK, HistoryAssumption,
         NEW day \in Days, NEW today, NEW location \in Locations, NEW agent \in Agents,
         NEW n \in Nat, n >= Len(vehicles),
         Key("vehicle", NoLine) \in today => n >= Len(vehicles) + 1
  PROVE  NewVersion(day, today, location, agent) \in Versions(n)
<1>1. /\ Current.status \in PolicyStatuses /\ Current.term_start \in Days
      /\ Current.premium \in {0, 1} /\ Current.vehicle \in 1..Len(vehicles)
      /\ Len(vehicles) \in Nat
  BY CurrentTyped DEF Versions
<1>2. NewStatus(day) \in PolicyStatuses
  BY DEF DatasetTypeOK, NewStatus, PolicyStatuses, Terminal
<1>3. (IF Key("vehicle", NoLine) \in today THEN Len(vehicles) + 1 ELSE Current.vehicle) \in 1..n
  BY <1>1
<1>4. (IF Rerates(day, today) THEN 1 - Current.premium ELSE Current.premium) \in {0, 1}
  BY <1>1
<1> QED
  BY <1>1, <1>2, <1>3, <1>4 DEF NewVersion, Versions

\* What a day's changes become in the generator's list.
LEMMA AppliedTyped ==
  ASSUME NEW day \in Days, NEW today \in SUBSET (PolicyKeys \cup LineKeys),
         NEW limit, NEW deductible, HistoryAssumption
  PROVE  Applied(day, today, limit, deductible) \subseteq ChangeSet
<1> SUFFICES ASSUME NEW k \in today, NEW d \in {"increase", "decrease", "switch"}
             PROVE  [day |-> day, category |-> k.category, line |-> k.line, direction |-> d]
                      \in ChangeSet
  BY DEF Applied, Direction
<1>1. k.category \in MATERIAL_CATEGORIES \cup {"agent"} /\ k.line \in Lines \cup {NoLine}
  BY DEF PolicyKeys, LineKeys, MATERIAL_CATEGORIES, HistoryAssumption
<1> QED
  BY <1>1 DEF ChangeSet

LEMMA RecordCoverageTyped ==
  ASSUME NEW rows \in Seq(CoverageVersions), NEW day \in Days, NEW today, NEW l,
         NEW limit \in Limits, NEW deductible \in Deductibles \cup {NoDeductible}
  PROVE  RecordCoverage(rows, day, today, l, limit, deductible) \in Seq(CoverageVersions)
<1>1. [from |-> day, limit |-> limit, deductible |-> deductible] \in CoverageVersions
  BY DEF CoverageVersions
<1> QED
  BY <1>1 DEF RecordCoverage

LEMMA VersionsGrow ==
  ASSUME NEW m \in Nat, NEW n \in Nat, m <= n, NEW h \in Seq(Versions(m))
  PROVE  h \in Seq(Versions(n))
<1>1. Versions(m) \subseteq Versions(n)
  BY DEF Versions
<1> QED
  BY <1>1

\* The ladder's rungs that policies start with are rungs.
LEMMA InitIsInception == ASSUME Init, HistoryAssumption PROVE Inception(Limits, Deductibles)
<1>1. StartLimits \subseteq Limits /\ StartDeductibles \subseteq Deductibles
  BY DEF HistoryAssumption
<1>2. [Lines -> StartLimits] \subseteq [Lines -> Limits]
      /\ [DeductibleLines -> StartDeductibles] \subseteq [DeductibleLines -> Deductibles]
  BY <1>1
<1> QED
  BY <1>2 DEF Init, Inception

LEMMA InitTyped == ASSUME Inception(Limits, Deductibles), HistoryAssumption PROVE DatasetTypeOK
<1>1. PICK location \in Locations, agent \in Agents :
        history = <<[from |-> 0, status |-> "active", agent |-> agent,
                     location |-> location, vehicle |-> 1, term_start |-> 0,
                     premium |-> 0]>>
  BY DEF Inception
<1>2. 0 \in Days
  BY DEF Days, HistoryAssumption
<1>3. vehicles = <<[added |-> 0, removed |-> FAR_FUTURE]>>
  BY DEF Inception
<1>4. vehicles \in Seq([added : Days, removed : Days \cup {FAR_FUTURE}]) /\ Len(vehicles) = 1
  BY <1>2, <1>3
<1>5. history \in Seq(Versions(1)) /\ history # <<>>
  BY <1>1, <1>2 DEF Versions, PolicyStatuses
<1>6. coverage \in [Lines -> Seq(CoverageVersions)]
  <2>1. PICK limit \in [Lines -> Limits], deductible \in [DeductibleLines -> Deductibles] :
          coverage = [l \in Lines |->
            <<[from |-> 0, limit |-> limit[l],
               deductible |-> IF l \in DeductibleLines THEN deductible[l] ELSE NoDeductible]>>]
    BY DEF Inception
  <2> SUFFICES ASSUME NEW l \in Lines
               PROVE  <<[from |-> 0, limit |-> limit[l],
                         deductible |-> IF l \in DeductibleLines THEN deductible[l]
                                        ELSE NoDeductible]>> \in Seq(CoverageVersions)
    BY <2>1
  <2>2. limit[l] \in Limits
    BY DEF HistoryAssumption
  <2>3. (IF l \in DeductibleLines THEN deductible[l] ELSE NoDeductible)
          \in Deductibles \cup {NoDeductible}
    BY DEF HistoryAssumption
  <2> QED
    BY <1>2, <2>2, <2>3 DEF CoverageVersions
<1>7. end_day \in Days /\ terminal_status \in Terminal \cup {"none"} /\ population \in Populations
  BY DEF Inception, Days, HistoryAssumption
<1>8. claims \in Seq(ClaimSet) /\ changes \in SUBSET ChangeSet
  BY DEF Inception
<1>9. reinstate_pending \in BOOLEAN /\ phase \in {"evolving", "built"}
  BY DEF Inception
<1> QED
  BY <1>4, <1>5, <1>6, <1>7, <1>8, <1>9 DEF DatasetTypeOK, Versions, CoverageVersions, ClaimSet, ChangeSet

\* A boundary day, with the plan it realises spelt out.
LEMMA BoundaryPlan ==
  ASSUME NEW day, NEW today, Boundary(day, today)
  PROVE  \E location \in Locations, agent \in Agents,
            limit \in [Lines -> Limits], deductible \in [DeductibleLines -> Deductibles] :
           /\ location # Current.location <=> Key("address", NoLine) \in today
           /\ agent # Current.agent <=> Key("agent", NoLine) \in today
           /\ \A l \in Lines : limit[l] # LimitOf(l) <=> Key("coverage", l) \in today
           /\ \A l \in DeductibleLines :
                deductible[l] # DeductibleOf(l) <=> Key("deductible", l) \in today
           /\ history' = Append(history, NewVersion(day, today, location, agent))
           /\ coverage' = [l \in Lines |->
                RecordCoverage(coverage[l], day, today, l, limit[l],
                               IF l \in DeductibleLines THEN deductible[l] ELSE NoDeductible)]
           /\ changes' = changes \cup Applied(day, today, limit, deductible)
  BY DEF Boundary

LEMMA VehiclesGrow ==
  ASSUME DatasetTypeOK, NEW day \in Days, NEW today, Boundary(day, today)
  PROVE  /\ vehicles' \in Seq([added : Days, removed : Days \cup {FAR_FUTURE}])
         /\ Len(vehicles') \in Nat /\ Len(vehicles') >= Len(vehicles)
         /\ Key("vehicle", NoLine) \in today => Len(vehicles') = Len(vehicles) + 1
<1> DEFINE V == [added : Days, removed : Days \cup {FAR_FUTURE}]
<1>1. vehicles \in Seq(V) /\ Len(vehicles) \in Nat
  BY DEF DatasetTypeOK
<1>2. CASE Key("vehicle", NoLine) \notin today
  BY <1>1, <1>2 DEF Boundary
<1>3. CASE Key("vehicle", NoLine) \in today
  <2> DEFINE closed == [vehicles EXCEPT ![Len(vehicles)].removed = day]
             new    == [added |-> day, removed |-> FAR_FUTURE]
  <2>1. vehicles' = Append(closed, new)
    BY <1>3 DEF Boundary
  <2>2. ASSUME NEW v \in V PROVE [v EXCEPT !.removed = day] \in V
    <3>1. day \in Days \cup {FAR_FUTURE}
      OBVIOUS
    <3> QED
      BY <3>1
  <2>3. closed \in Seq(V) /\ Len(closed) = Len(vehicles)
    <3> HIDE DEF V
    <3>1. vehicles \in [1..Len(vehicles) -> V]
      BY <1>1
    <3>2. closed \in [1..Len(vehicles) -> V]
      BY <2>2, <3>1
    <3> HIDE DEF closed
    <3> QED
      BY <1>1, <3>2
  <2>4. new \in V
    OBVIOUS
  <2> HIDE DEF closed, new, V
  <2>5. Append(closed, new) \in Seq(V) /\ Len(Append(closed, new)) = Len(closed) + 1
    BY <2>3, <2>4
  <2> QED
    BY <1>1, <2>1, <2>3, <2>5 DEF V
<1> QED
  BY <1>2, <1>3

LEMMA BoundaryTyped ==
  ASSUME DatasetTypeOK, HistoryAssumption, NEW day \in Days,
         NEW today \in SUBSET (PolicyKeys \cup LineKeys), Boundary(day, today)
  PROVE  DatasetTypeOK'
<1>1. PICK location \in Locations, agent \in Agents,
          limit \in [Lines -> Limits], deductible \in [DeductibleLines -> Deductibles] :
        /\ history' = Append(history, NewVersion(day, today, location, agent))
        /\ coverage' = [l \in Lines |->
             RecordCoverage(coverage[l], day, today, l, limit[l],
                            IF l \in DeductibleLines THEN deductible[l] ELSE NoDeductible)]
        /\ changes' = changes \cup Applied(day, today, limit, deductible)
  BY BoundaryPlan
<1>2. /\ vehicles' \in Seq([added : Days, removed : Days \cup {FAR_FUTURE}])
      /\ Len(vehicles') \in Nat /\ Len(vehicles') >= Len(vehicles)
      /\ Key("vehicle", NoLine) \in today => Len(vehicles') = Len(vehicles) + 1
  BY VehiclesGrow
<1>3. history' \in Seq(Versions(Len(vehicles'))) /\ history' # <<>>
  <2>1. history \in Seq(Versions(Len(vehicles')))
    BY TablesTyped, VersionsGrow, <1>2
  <2>2. NewVersion(day, today, location, agent) \in Versions(Len(vehicles'))
    BY NewVersionTyped, TablesTyped, <1>2
  <2> QED
    BY <1>1, <2>1, <2>2
<1>4. coverage' \in [Lines -> Seq(CoverageVersions)]
  <2> SUFFICES ASSUME NEW l \in Lines
               PROVE  RecordCoverage(coverage[l], day, today, l, limit[l],
                        IF l \in DeductibleLines THEN deductible[l] ELSE NoDeductible)
                        \in Seq(CoverageVersions)
    BY <1>1
  <2>1. coverage[l] \in Seq(CoverageVersions) /\ limit[l] \in Limits
    BY TablesTyped
  <2>2. (IF l \in DeductibleLines THEN deductible[l] ELSE NoDeductible)
          \in Deductibles \cup {NoDeductible}
    OBVIOUS
  <2> QED
    BY <2>1, <2>2, RecordCoverageTyped
<1>5. changes' \in SUBSET ChangeSet
  BY <1>1, TablesTyped, AppliedTyped
<1>6. claims' \in Seq(ClaimSet)
  BY TablesTyped DEF Boundary
<1>7. /\ phase' \in {"evolving", "built"} /\ population' \in Populations
      /\ end_day' \in Days /\ terminal_status' \in Terminal \cup {"none"}
  BY DEF DatasetTypeOK, Boundary, planVars
<1>8. reinstate_pending' \in BOOLEAN
  BY DEF Boundary
<1> QED
  BY <1>2, <1>3, <1>4, <1>5, <1>6, <1>7, <1>8
  DEF DatasetTypeOK, Versions, CoverageVersions, ChangeSet, ClaimSet

LEMMA BuildClaimsTyped == ASSUME DatasetTypeOK, HistoryAssumption, BuildClaims PROVE DatasetTypeOK'
<1>1. claims' \in Seq(ClaimSet)
  <2>1. PICK n \in 0..MaxClaims : claims' \in [1..n -> Placeable]
    BY DEF BuildClaims
  <2>2. n \in Nat
    BY DEF HistoryAssumption
  <2>3. Placeable \subseteq ClaimSet
    <3>1. Amounts \subseteq Nat
      BY DEF HistoryAssumption
    <3> QED
      BY <3>1 DEF Placeable, ClaimSet
  <2>4. claims' \in [1..n -> ClaimSet]
    BY <2>1, <2>3
  <2> QED
    BY <2>2, <2>4
<1>2. phase' \in {"evolving", "built"}
  BY DEF BuildClaims
<1> QED
  BY <1>1, <1>2 DEF DatasetTypeOK, BuildClaims, planVars, ClaimSet

LEMMA NextTyped ==
  ASSUME DatasetTypeOK, HistoryAssumption, [Next]_vars
  PROVE  DatasetTypeOK'
<1>1. CASE \E day \in Days : \E today \in SUBSET (PolicyKeys \cup LineKeys) : Boundary(day, today)
  BY <1>1, BoundaryTyped
<1>2. CASE BuildClaims
  BY <1>2, BuildClaimsTyped
<1>3. CASE UNCHANGED vars
  BY <1>3 DEF vars, planVars, DatasetTypeOK
<1> QED
  BY <1>1, <1>2, <1>3 DEF Next

\* Whatever changes the generator draws, and in whatever order, the tables it
\* writes keep their types (build.py, _evolve_policies and _build_claims).
THEOREM DatasetTypeCorrect == Spec => []DatasetTypeOK
<1>1. Init => DatasetTypeOK
  BY InitIsInception, InitTyped, HistoryAssumption
<1>2. DatasetTypeOK /\ [Next]_vars => DatasetTypeOK'
  BY NextTyped, HistoryAssumption
<1> QED
  BY <1>1, <1>2, PTL DEF Spec

-----------------------------------------------------------------------------
(* The Loss-to-Report Gap. *)

\* A change row is dated by the version that shows it.
LEMMA RowsAreDated ==
  ASSUME DatasetTypeOK, HistoryAssumption, NEW c \in ChangeRows
  PROVE  c.day \in Int
<1>1. Days \subseteq Int
  BY DEF Days
<1>2. ASSUME c \in PolicyDiffs PROVE c.day \in Int
  <2>1. PICK i \in 1..(Len(history) - 1) : c.day = history[i + 1].from
    BY <1>2 DEF PolicyDiffs
  <2>2. i + 1 \in 1..Len(history)
    BY CurrentTyped
  <2> QED
    BY <1>1, <2>1, <2>2, CurrentTyped DEF Versions
<1>3. ASSUME NEW category, NEW column, NEW lines \in SUBSET Lines,
             c \in LineDiffs(category, column, lines)
      PROVE  c.day \in Int
  <2>1. PICK l \in lines : \E i \in 1..(Len(coverage[l]) - 1) : c.day = coverage[l][i + 1].from
    BY <1>3 DEF LineDiffs
  <2>2. PICK i \in 1..(Len(coverage[l]) - 1) : c.day = coverage[l][i + 1].from
    BY <2>1
  <2>3. coverage[l] \in Seq(CoverageVersions)
    BY TablesTyped
  <2>4. i + 1 \in 1..Len(coverage[l]) /\ coverage[l][i + 1] \in CoverageVersions
    BY <2>3
  <2> QED
    BY <1>1, <2>2, <2>4 DEF CoverageVersions
<1> QED
  BY <1>2, <1>3 DEF ChangeRows, HistoryAssumption

LEMMA ClaimsAreDated ==
  ASSUME DatasetTypeOK, NEW k \in DOMAIN claims
  PROVE  claims[k].loss \in Int /\ claims[k].report \in Int
<1>1. claims[k] \in ClaimSet
  BY TablesTyped
<1> QED
  BY <1>1 DEF ClaimSet, Days

LEMMA GapsFollow == ASSUME DatasetTypeOK, HistoryAssumption PROVE GapsAgree
<1> SUFFICES ASSUME NEW k \in DOMAIN claims, NEW c \in Material(ChangeRows)
             PROVE  /\ k \in LinkedClaim(c) =>
                         (ChangeTiming(c, k) = "after_loss_before_report" <=> c \in MaterialInGap(k))
                    /\ c \in MaterialInGap(k) /\ k \notin LinkedClaim(c)
                         => \A j \in LinkedClaim(c) : /\ c.day <= claims[j].report
                                                      /\ claims[j].report <= claims[k].report
  BY DEF GapsAgree
<1>1. c \in ChangeRows
  BY DEF Material
<1>2. c.day \in Int
  BY <1>1, RowsAreDated
<1>3. \A j \in DOMAIN claims : claims[j].loss \in Int /\ claims[j].report \in Int
  BY ClaimsAreDated
<1>4. c \in MaterialInGap(k) <=> claims[k].loss < c.day /\ c.day <= claims[k].report
  BY DEF MaterialInGap
<1>5. ASSUME k \in LinkedClaim(c)
      PROVE  ChangeTiming(c, k) = "after_loss_before_report" <=> c \in MaterialInGap(k)
  <2>1. c.day <= claims[k].report
    BY <1>2, <1>3, <1>5 DEF LinkedClaim, ReportedFrom
  <2>2. ChangeTiming(c, k) = "after_loss_before_report" <=> claims[k].loss < c.day
    BY <1>2, <1>3 DEF ChangeTiming, DaysToLoss
  <2> QED
    BY <1>4, <2>1, <2>2
<1>6. ASSUME c \in MaterialInGap(k), NEW j \in LinkedClaim(c)
      PROVE  c.day <= claims[j].report /\ claims[j].report <= claims[k].report
  <2>1. k \in ReportedFrom(c.day)
    BY <1>2, <1>3, <1>4, <1>6 DEF ReportedFrom
  <2>2. j \in ReportedFrom(c.day) /\ ReportedFirst(j, ReportedFrom(c.day))
    BY <1>6 DEF LinkedClaim
  <2>3. j \in DOMAIN claims /\ claims[j].report >= c.day
    BY <2>2 DEF ReportedFrom
  <2>4. claims[j].report <= claims[k].report
    BY <1>3, <2>1, <2>2, <2>3 DEF ReportedFirst
  <2> QED
    BY <1>2, <1>3, <2>3, <2>4
<1> QED
  BY <1>5, <1>6

\* policy_change_event says by a sign that a change fell between loss and
\* report, claim_event counts the dates in (loss_date, report_date]
\* (transformations.py:633, 1114): of a change and its Linked Claim they say
\* the same, and where they speak of different claims the linked one was reported first.
THEOREM GapGrainsAgree == Spec => []GapsAgree
<1>1. DatasetTypeOK => GapsAgree
  BY GapsFollow, HistoryAssumption
<1> QED
  BY <1>1, DatasetTypeCorrect, PTL

-----------------------------------------------------------------------------
(* The round trip.  A version shows a status change only if the status moves,
   which the lapses and reinstatements in turn and the one terminal day ensure. *)

StatusInv ==
  /\ terminal_status # "none" <=> population = "terminating"
  /\ population = "terminating" => (Current.from < end_day => Current.status = "active")
  /\ population # "terminating" =>
       /\ Current.status \in {"active", "lapsed", "reinstated"}
       /\ reinstate_pending <=> Current.status = "lapsed"

LinesStarted == \A l \in Lines : coverage[l] # <<>>

RoundTripInv == DatasetTypeOK /\ StatusInv /\ LinesStarted /\ ChangesRoundTrip

LEMMA AppendLatest ==
  ASSUME NEW S, NEW rows \in Seq(S), NEW row \in S
  PROVE  Latest(Append(rows, row)) = row /\ Append(rows, row) # <<>>
  BY DEF Latest

\* A status change of the plan moves the status.
LEMMA StatusMoves ==
  ASSUME DatasetTypeOK, StatusInv, NEW day \in Days,
         NEW today \in SUBSET (PolicyKeys \cup LineKeys), Boundary(day, today),
         Key("status", NoLine) \in today
  PROVE  NewStatus(day) # Current.status
<1>1. Key("status", NoLine) \in ChangesOn(day) /\ Current.from < day
  BY DEF Boundary
<1>2. population = "lapsing" \/ (population = "terminating" /\ day = end_day)
  <2>1. Key("status", NoLine).category = "status"
    BY DEF Key
  <2> QED
    BY <1>1, <2>1 DEF ChangesOn
<1>3. CASE population = "terminating"
  <2>1. terminal_status \in Terminal /\ day = end_day /\ terminal_status # "none"
    BY <1>2, <1>3 DEF DatasetTypeOK, StatusInv
  <2>2. Current.status = "active"
    BY <1>1, <1>3, <2>1 DEF StatusInv
  <2> QED
    BY <2>1, <2>2 DEF NewStatus, Terminal
<1>4. CASE population = "lapsing"
  <2>1. terminal_status = "none" /\ (reinstate_pending <=> Current.status = "lapsed")
    BY <1>4 DEF StatusInv
  <2> QED
    BY <2>1 DEF NewStatus
<1> QED
  BY <1>2, <1>3, <1>4

LEMMA StatusKept ==
  ASSUME DatasetTypeOK, HistoryAssumption, StatusInv, NEW day \in Days,
         NEW today \in SUBSET (PolicyKeys \cup LineKeys), Boundary(day, today)
  PROVE  StatusInv'
<1>1. PICK location \in Locations, agent \in Agents :
        history' = Append(history, NewVersion(day, today, location, agent))
  BY BoundaryPlan
<1> DEFINE v == NewVersion(day, today, location, agent)
<1>2. Current' = v
  <2>1. Len(vehicles) \in Nat /\ Len(vehicles) + 1 \in Nat /\ Len(vehicles) + 1 >= Len(vehicles)
    BY TablesTyped
  <2>2. v \in Versions(Len(vehicles) + 1)
    <3> DEFINE n == Len(vehicles) + 1
    <3>1. n \in Nat /\ n >= Len(vehicles) /\ n >= Len(vehicles) + 1
      BY <2>1
    <3> HIDE DEF n
    <3>2. v \in Versions(n)
      BY <3>1, NewVersionTyped
    <3> QED
      BY <3>2 DEF n
  <2>3. history \in Seq(Versions(Len(vehicles) + 1))
    BY <2>1, TablesTyped, VersionsGrow
  <2> HIDE DEF v
  <2> QED
    BY <1>1, <2>2, <2>3, AppendLatest DEF Current, v
<1>3. v.from = day /\ v.status = IF Key("status", NoLine) \in today THEN NewStatus(day)
                                 ELSE Current.status
  BY DEF NewVersion
<1>4. /\ population' = population /\ terminal_status' = terminal_status /\ end_day' = end_day
      /\ reinstate_pending' = (reinstate_pending # (/\ Key("status", NoLine) \in today
                                                    /\ terminal_status = "none"))
      /\ Current.from < day /\ day <= end_day
      /\ today \subseteq ChangesOn(day)
  BY DEF Boundary, planVars
<1>5. /\ day \in Int /\ end_day \in Int /\ Current.from \in Int
      /\ reinstate_pending \in BOOLEAN
  <2>1. Current.from \in Days
    BY CurrentTyped DEF Versions
  <2>2. end_day \in Days /\ reinstate_pending \in BOOLEAN
    BY DEF DatasetTypeOK
  <2> QED
    BY <2>1, <2>2 DEF Days
<1>6. CASE population = "terminating"
  <2>1. ASSUME day < end_day PROVE v.status = "active"
    <3>1. Key("status", NoLine) \notin today
      BY <1>4, <1>5, <1>6, <2>1 DEF ChangesOn, Key
    <3>2. Current.status = "active"
      BY <1>4, <1>5, <1>6, <2>1 DEF StatusInv
    <3> QED
      BY <1>3, <3>1, <3>2
  <2> HIDE DEF v
  <2> QED
    BY <1>2, <1>3, <1>4, <1>6, <2>1 DEF StatusInv
<1>7. CASE population # "terminating"
  <2>1. terminal_status = "none"
    BY <1>7 DEF StatusInv
  <2>2. /\ Current.status \in {"active", "lapsed", "reinstated"}
        /\ reinstate_pending <=> Current.status = "lapsed"
    BY <1>7 DEF StatusInv
  <2>3. CASE Key("status", NoLine) \in today
    <3>1. v.status = IF reinstate_pending THEN "reinstated" ELSE "lapsed"
      BY <1>3, <2>1, <2>3 DEF NewStatus
    <3>2. reinstate_pending' <=> ~reinstate_pending
      BY <1>4, <1>5, <2>1, <2>3
    <3> HIDE DEF v
    <3> QED
      BY <1>2, <1>4, <1>7, <2>1, <3>1, <3>2 DEF StatusInv
  <2>4. CASE Key("status", NoLine) \notin today
    <3>1. v.status = Current.status
      BY <1>3, <2>4
    <3>2. reinstate_pending' <=> reinstate_pending
      BY <1>4, <1>5, <2>4
    <3> HIDE DEF v
    <3> QED
      BY <1>2, <1>4, <1>7, <2>1, <2>2, <3>1, <3>2 DEF StatusInv
  <2> QED
    BY <2>3, <2>4
<1> QED
  BY <1>6, <1>7

(* What a version added to a table adds to the change rows. *)

PolicyRow(c, old, new) ==
  [day |-> new.from, category |-> c, line |-> NoLine,
   direction |-> ChangeDirection(c, old[Column[c]], new[Column[c]])]

LineRow(category, column, l, old, new) ==
  [day |-> new.from, category |-> category, line |-> l,
   direction |-> ChangeDirection(category, old[column], new[column])]

LineRows(rows, category, column, l) ==
  {LineRow(category, column, l, rows[i], rows[i + 1]) :
     i \in {j \in 1..(Len(rows) - 1) : rows[j][column] # rows[j + 1][column]}}

PolicyRows(rows, c) ==
  {PolicyRow(c, rows[i], rows[i + 1]) :
     i \in {j \in 1..(Len(rows) - 1) : rows[j][Column[c]] # rows[j + 1][Column[c]]}}

LEMMA AppendPolicyRow ==
  ASSUME NEW S, NEW rows \in Seq(S), rows # <<>>, NEW row \in S, NEW c, NEW x
  PROVE  x \in PolicyRows(Append(rows, row), c) <=>
           \/ x \in PolicyRows(rows, c)
           \/ Latest(rows)[Column[c]] # row[Column[c]] /\ x = PolicyRow(c, Latest(rows), row)
<1> DEFINE more == Append(rows, row)
           n    == Len(rows)
<1>1. /\ n \in Nat \ {0} /\ Len(more) = n + 1 /\ more[n + 1] = row
      /\ \A i \in 1..n : more[i] = rows[i]
  OBVIOUS
<1>2. x \in PolicyRows(more, c) <=>
        \E i \in 1..n : more[i][Column[c]] # more[i + 1][Column[c]]
                        /\ x = PolicyRow(c, more[i], more[i + 1])
  <2> HIDE DEF more, n
  <2>1. 1..(Len(more) - 1) = 1..n
    BY <1>1
  <2> QED
    BY <2>1 DEF PolicyRows
<1>3. x \in PolicyRows(rows, c) <=>
        \E i \in 1..(n - 1) : rows[i][Column[c]] # rows[i + 1][Column[c]]
                              /\ x = PolicyRow(c, rows[i], rows[i + 1])
  BY DEF PolicyRows
<1>4. \A i \in 1..(n - 1) : more[i] = rows[i] /\ more[i + 1] = rows[i + 1]
  <2> HIDE DEF more, n
  <2> QED
    BY <1>1
<1>5. more[n] = Latest(rows) /\ more[n + 1] = row
  BY <1>1 DEF Latest
<1>6. \A i : i \in 1..n <=> (i \in 1..(n - 1) \/ i = n)
  <2> HIDE DEF n
  <2> QED
    BY <1>1
<1> HIDE DEF more, n
<1>7. x \in PolicyRows(more, c) <=>
        \/ \E i \in 1..(n - 1) : more[i][Column[c]] # more[i + 1][Column[c]]
                                 /\ x = PolicyRow(c, more[i], more[i + 1])
        \/ more[n][Column[c]] # more[n + 1][Column[c]]
           /\ x = PolicyRow(c, more[n], more[n + 1])
  <2> DEFINE Shows(i) == /\ more[i][Column[c]] # more[i + 1][Column[c]]
                         /\ x = PolicyRow(c, more[i], more[i + 1])
  <2>1. x \in PolicyRows(more, c) <=> \E i \in 1..n : Shows(i)
    BY <1>2
  <2> HIDE DEF Shows
  <2>2. (\E i \in 1..n : Shows(i)) <=> ((\E i \in 1..(n - 1) : Shows(i)) \/ Shows(n))
    BY <1>6
  <2> QED
    BY <2>1, <2>2 DEF Shows
<1>8. x \in PolicyRows(more, c) <=>
        \/ \E i \in 1..(n - 1) : rows[i][Column[c]] # rows[i + 1][Column[c]]
                                 /\ x = PolicyRow(c, rows[i], rows[i + 1])
        \/ Latest(rows)[Column[c]] # row[Column[c]] /\ x = PolicyRow(c, Latest(rows), row)
  BY <1>4, <1>5, <1>7
<1> QED
  BY <1>3, <1>8 DEF more

LEMMA AppendLineRow ==
  ASSUME NEW S, NEW rows \in Seq(S), rows # <<>>, NEW row \in S,
         NEW category, NEW column, NEW l, NEW x
  PROVE  x \in LineRows(Append(rows, row), category, column, l) <=>
           \/ x \in LineRows(rows, category, column, l)
           \/ Latest(rows)[column] # row[column]
              /\ x = LineRow(category, column, l, Latest(rows), row)
<1> DEFINE more == Append(rows, row)
           n    == Len(rows)
<1>1. /\ n \in Nat \ {0} /\ Len(more) = n + 1 /\ more[n + 1] = row
      /\ \A i \in 1..n : more[i] = rows[i]
  OBVIOUS
<1>2. x \in LineRows(more, category, column, l) <=>
        \E i \in 1..n : more[i][column] # more[i + 1][column]
                        /\ x = LineRow(category, column, l, more[i], more[i + 1])
  <2> HIDE DEF more, n
  <2>1. 1..(Len(more) - 1) = 1..n
    BY <1>1
  <2> QED
    BY <2>1 DEF LineRows
<1>3. x \in LineRows(rows, category, column, l) <=>
        \E i \in 1..(n - 1) : rows[i][column] # rows[i + 1][column]
                              /\ x = LineRow(category, column, l, rows[i], rows[i + 1])
  BY DEF LineRows
<1>4. \A i \in 1..(n - 1) : more[i] = rows[i] /\ more[i + 1] = rows[i + 1]
  <2> HIDE DEF more, n
  <2> QED
    BY <1>1
<1>5. more[n] = Latest(rows) /\ more[n + 1] = row
  BY <1>1 DEF Latest
<1>6. \A i : i \in 1..n <=> (i \in 1..(n - 1) \/ i = n)
  <2> HIDE DEF n
  <2> QED
    BY <1>1
<1> HIDE DEF more, n
<1>7. x \in LineRows(more, category, column, l) <=>
        \/ \E i \in 1..(n - 1) : more[i][column] # more[i + 1][column]
                                 /\ x = LineRow(category, column, l, more[i], more[i + 1])
        \/ more[n][column] # more[n + 1][column]
           /\ x = LineRow(category, column, l, more[n], more[n + 1])
  BY <1>2, <1>6, Zenon
<1>8. x \in LineRows(more, category, column, l) <=>
        \/ \E i \in 1..(n - 1) : rows[i][column] # rows[i + 1][column]
                                 /\ x = LineRow(category, column, l, rows[i], rows[i + 1])
        \/ Latest(rows)[column] # row[column] /\ x = LineRow(category, column, l, Latest(rows), row)
  BY <1>4, <1>5, <1>7
<1> QED
  BY <1>3, <1>8 DEF more

\* The change rows, row by row.
LEMMA InChangeRows ==
  ASSUME NEW x
  PROVE  x \in ChangeRows <=>
           \/ \E c \in DOMAIN Column : x \in PolicyRows(history, c)
           \/ \E l \in Lines : x \in LineRows(coverage[l], "coverage", "limit", l)
           \/ \E l \in DeductibleLines :
                x \in LineRows(coverage[l], "deductible", "deductible", l)
  BY DEF ChangeRows, PolicyDiffs, LineDiffs, PolicyRows, PolicyRow, LineRows, LineRow

Switched == {"address", "vehicle", "status", "agent"}

\* A column of the new version differs when and only when the day changes it.
LEMMA ColumnsMove ==
  ASSUME DatasetTypeOK, StatusInv, NEW day \in Days,
         NEW today \in SUBSET (PolicyKeys \cup LineKeys), Boundary(day, today),
         NEW location, NEW agent,
         location # Current.location <=> Key("address", NoLine) \in today,
         agent # Current.agent <=> Key("agent", NoLine) \in today,
         NEW c \in Switched
  PROVE  Current[Column[c]] # NewVersion(day, today, location, agent)[Column[c]]
           <=> Key(c, NoLine) \in today
<1> DEFINE v == NewVersion(day, today, location, agent)
<1>1. CASE c = "address"
  <2>1. Column[c] = "location"
    BY <1>1 DEF Column
  <2>2. v["location"] = location
    BY DEF NewVersion
  <2> HIDE DEF v
  <2> QED
    BY <1>1, <2>1, <2>2 DEF v
<1>2. CASE c = "agent"
  <2>1. Column[c] = "agent"
    BY <1>2 DEF Column
  <2>2. v["agent"] = agent
    BY DEF NewVersion
  <2> HIDE DEF v
  <2> QED
    BY <1>2, <2>1, <2>2 DEF v
<1>3. CASE c = "vehicle"
  <2>1. Column[c] = "vehicle"
    BY <1>3 DEF Column
  <2>2. v["vehicle"] = IF Key("vehicle", NoLine) \in today THEN Len(vehicles) + 1
                       ELSE Current["vehicle"]
    BY DEF NewVersion
  <2>3. Current["vehicle"] \in 1..Len(vehicles) /\ Len(vehicles) \in Nat
    BY CurrentTyped DEF Versions
  <2>4. Current["vehicle"] # Len(vehicles) + 1
    BY <2>3
  <2> HIDE DEF v
  <2> QED
    BY <1>3, <2>1, <2>2, <2>4 DEF v
<1>4. CASE c = "status"
  <2>1. Column[c] = "status"
    BY <1>4 DEF Column
  <2>2. v["status"] = IF Key("status", NoLine) \in today THEN NewStatus(day)
                      ELSE Current["status"]
    BY DEF NewVersion
  <2>3. Key("status", NoLine) \in today => NewStatus(day) # Current["status"]
    BY StatusMoves
  <2> HIDE DEF v
  <2> QED
    BY <1>4, <2>1, <2>2, <2>3 DEF v
<1> QED
  BY <1>1, <1>2, <1>3, <1>4 DEF Switched

\* The rows a boundary day adds for the columns of policy_history.
LEMMA PolicyRowsMade ==
  ASSUME DatasetTypeOK, HistoryAssumption, StatusInv, NEW day \in Days,
         NEW today \in SUBSET (PolicyKeys \cup LineKeys), Boundary(day, today),
         NEW location \in Locations, NEW agent \in Agents,
         location # Current.location <=> Key("address", NoLine) \in today,
         agent # Current.agent <=> Key("agent", NoLine) \in today,
         history' = Append(history, NewVersion(day, today, location, agent)),
         NEW c \in Switched, NEW x
  PROVE  x \in PolicyRows(history', c) <=>
           \/ x \in PolicyRows(history, c)
           \/ /\ Key(c, NoLine) \in today
              /\ x = [day |-> day, category |-> c, line |-> NoLine, direction |-> "switch"]
<1> DEFINE v == NewVersion(day, today, location, agent)
           n == Len(vehicles) + 1
<1>1. n \in Nat /\ n >= Len(vehicles) /\ n >= Len(vehicles) + 1 /\ Len(vehicles) \in Nat
  BY TablesTyped
<1>2. v.from = day
  BY DEF NewVersion
<1>3. PolicyRow(c, Current, v)
        = [day |-> day, category |-> c, line |-> NoLine, direction |-> "switch"]
  <2> HIDE DEF v
  <2> QED
    BY <1>2 DEF PolicyRow, ChangeDirection, Switched
<1> HIDE DEF n
<1>4. v \in Versions(n) /\ history \in Seq(Versions(n)) /\ history # <<>>
  BY <1>1, NewVersionTyped, TablesTyped, VersionsGrow
<1>5. Current[Column[c]] # v[Column[c]] <=> Key(c, NoLine) \in today
  BY ColumnsMove
<1> HIDE DEF v
<1>6. x \in PolicyRows(Append(history, v), c) <=>
        \/ x \in PolicyRows(history, c)
        \/ Current[Column[c]] # v[Column[c]] /\ x = PolicyRow(c, Current, v)
  BY <1>4, AppendPolicyRow DEF Current
<1> QED
  BY <1>3, <1>5, <1>6 DEF v

\* The rows a boundary day adds for a line: a limit and a deductible moved on one
\* day are one version and two rows.
LineRowsAre(after, l, day, today, limit, deductible, x) ==
  /\ after # <<>>
  /\ x \in LineRows(after, "coverage", "limit", l) <=>
       \/ x \in LineRows(coverage[l], "coverage", "limit", l)
       \/ /\ Key("coverage", l) \in today
          /\ x = [day |-> day, category |-> "coverage", line |-> l,
                  direction |-> Direction(LimitOf(l), limit)]
  /\ l \in DeductibleLines =>
       (x \in LineRows(after, "deductible", "deductible", l) <=>
          \/ x \in LineRows(coverage[l], "deductible", "deductible", l)
          \/ /\ Key("deductible", l) \in today
             /\ x = [day |-> day, category |-> "deductible", line |-> l,
                     direction |-> Direction(DeductibleOf(l), deductible)])

LEMMA LineRowsMade ==
  ASSUME DatasetTypeOK, LinesStarted, HistoryAssumption, NEW day \in Days,
         NEW today \in SUBSET (PolicyKeys \cup LineKeys), NEW l \in Lines,
         NEW limit \in Limits, NEW deductible \in Deductibles \cup {NoDeductible},
         limit # LimitOf(l) <=> Key("coverage", l) \in today,
         l \in DeductibleLines =>
           (deductible # DeductibleOf(l) <=> Key("deductible", l) \in today),
         NEW x
  PROVE  LineRowsAre(RecordCoverage(coverage[l], day, today, l, limit, deductible),
                     l, day, today, limit, deductible, x)
<1> DEFINE after == RecordCoverage(coverage[l], day, today, l, limit, deductible)
           row == [from |-> day, limit |-> limit, deductible |-> deductible]
           last == Latest(coverage[l])
<1>1. coverage[l] \in Seq(CoverageVersions) /\ coverage[l] # <<>> /\ row \in CoverageVersions
  BY TablesTyped DEF LinesStarted, CoverageVersions
<1>2. CASE {Key("coverage", l), Key("deductible", l)} \cap today = {}
  <2>1. after = coverage[l]
    BY <1>2 DEF RecordCoverage
  <2>2. Key("coverage", l) \notin today /\ Key("deductible", l) \notin today
    BY <1>2
  <2> QED
    BY <1>1, <2>1, <2>2 DEF LineRowsAre
<1>3. CASE {Key("coverage", l), Key("deductible", l)} \cap today # {}
  <2>1. after = Append(coverage[l], row)
    BY <1>3 DEF RecordCoverage
  <2>2. /\ LineRow("coverage", "limit", l, last, row)
             = [day |-> day, category |-> "coverage", line |-> l,
                direction |-> Direction(LimitOf(l), limit)]
        /\ LineRow("deductible", "deductible", l, last, row)
             = [day |-> day, category |-> "deductible", line |-> l,
                direction |-> Direction(DeductibleOf(l), deductible)]
    BY DEF LineRow, ChangeDirection, LimitOf, DeductibleOf
  <2>3. /\ last["limit"] # row["limit"] <=> Key("coverage", l) \in today
        /\ l \in DeductibleLines =>
             (last["deductible"] # row["deductible"] <=> Key("deductible", l) \in today)
    BY DEF LimitOf, DeductibleOf
  <2> HIDE DEF row, last, after
  <2>4. after # <<>>
    BY <1>1, <2>1
  <2>5. x \in LineRows(Append(coverage[l], row), "coverage", "limit", l) <=>
          \/ x \in LineRows(coverage[l], "coverage", "limit", l)
          \/ last["limit"] # row["limit"] /\ x = LineRow("coverage", "limit", l, last, row)
    BY <1>1, AppendLineRow DEF last
  <2>6. x \in LineRows(Append(coverage[l], row), "deductible", "deductible", l) <=>
          \/ x \in LineRows(coverage[l], "deductible", "deductible", l)
          \/ last["deductible"] # row["deductible"]
             /\ x = LineRow("deductible", "deductible", l, last, row)
    BY <1>1, AppendLineRow DEF last
  <2> QED
    BY <2>1, <2>2, <2>3, <2>4, <2>5, <2>6 DEF LineRowsAre, after
<1> QED
  BY <1>2, <1>3

\* The generator's own list of the day, row by row.
LEMMA InApplied ==
  ASSUME NEW day, NEW today \in SUBSET (PolicyKeys \cup LineKeys), NEW limit, NEW deductible,
         NEW x
  PROVE  x \in Applied(day, today, limit, deductible) <=>
           \/ \E c \in Switched :
                /\ Key(c, NoLine) \in today
                /\ x = [day |-> day, category |-> c, line |-> NoLine, direction |-> "switch"]
           \/ \E l \in Lines :
                /\ Key("coverage", l) \in today
                /\ x = [day |-> day, category |-> "coverage", line |-> l,
                        direction |-> Direction(LimitOf(l), limit[l])]
           \/ \E l \in DeductibleLines :
                /\ Key("deductible", l) \in today
                /\ x = [day |-> day, category |-> "deductible", line |-> l,
                        direction |-> Direction(DeductibleOf(l), deductible[l])]
<1> DEFINE Made(k) ==
      [day |-> day, category |-> k.category, line |-> k.line,
       direction |->
         CASE k.category = "coverage"   -> Direction(LimitOf(k.line), limit[k.line])
           [] k.category = "deductible" -> Direction(DeductibleOf(k.line), deductible[k.line])
           [] OTHER -> "switch"]
<1>1. x \in Applied(day, today, limit, deductible) <=> \E k \in today : x = Made(k)
  BY DEF Applied
<1>2. ASSUME NEW c \in Switched
      PROVE  Made(Key(c, NoLine))
               = [day |-> day, category |-> c, line |-> NoLine, direction |-> "switch"]
  BY DEF Key, Switched
<1>3. ASSUME NEW l
      PROVE  Made(Key("coverage", l))
               = [day |-> day, category |-> "coverage", line |-> l,
                  direction |-> Direction(LimitOf(l), limit[l])]
  BY DEF Key
<1>4. ASSUME NEW l
      PROVE  Made(Key("deductible", l))
               = [day |-> day, category |-> "deductible", line |-> l,
                  direction |-> Direction(DeductibleOf(l), deductible[l])]
  BY DEF Key
<1>5. \A k \in today : \/ \E c \in Switched : k = Key(c, NoLine)
                       \/ \E l \in Lines : k = Key("coverage", l)
                       \/ \E l \in DeductibleLines : k = Key("deductible", l)
  BY DEF PolicyKeys, LineKeys, Key, Switched
<1> HIDE DEF Made
<1> QED
  BY <1>1, <1>2, <1>3, <1>4, <1>5

\* A boundary day adds to the change rows what it adds to the generator's list.
LEMMA RoundTripKept ==
  ASSUME RoundTripInv, HistoryAssumption, NEW day \in Days,
         NEW today \in SUBSET (PolicyKeys \cup LineKeys), Boundary(day, today)
  PROVE  LinesStarted' /\ ChangesRoundTrip'
<1> USE DEF RoundTripInv
<1>1. PICK location \in Locations, agent \in Agents,
          limit \in [Lines -> Limits], deductible \in [DeductibleLines -> Deductibles] :
        /\ location # Current.location <=> Key("address", NoLine) \in today
        /\ agent # Current.agent <=> Key("agent", NoLine) \in today
        /\ \A l \in Lines : limit[l] # LimitOf(l) <=> Key("coverage", l) \in today
        /\ \A l \in DeductibleLines :
             deductible[l] # DeductibleOf(l) <=> Key("deductible", l) \in today
        /\ history' = Append(history, NewVersion(day, today, location, agent))
        /\ coverage' = [l \in Lines |->
             RecordCoverage(coverage[l], day, today, l, limit[l],
                            IF l \in DeductibleLines THEN deductible[l] ELSE NoDeductible)]
        /\ changes' = changes \cup Applied(day, today, limit, deductible)
  BY BoundaryPlan
<1>2. ASSUME NEW l \in Lines, NEW x
      PROVE  /\ coverage'[l] # <<>>
             /\ x \in LineRows(coverage'[l], "coverage", "limit", l) <=>
                  \/ x \in LineRows(coverage[l], "coverage", "limit", l)
                  \/ /\ Key("coverage", l) \in today
                     /\ x = [day |-> day, category |-> "coverage", line |-> l,
                             direction |-> Direction(LimitOf(l), limit[l])]
             /\ l \in DeductibleLines =>
                  (x \in LineRows(coverage'[l], "deductible", "deductible", l) <=>
                     \/ x \in LineRows(coverage[l], "deductible", "deductible", l)
                     \/ /\ Key("deductible", l) \in today
                        /\ x = [day |-> day, category |-> "deductible", line |-> l,
                                direction |-> Direction(DeductibleOf(l), deductible[l])])
  <2> DEFINE d == IF l \in DeductibleLines THEN deductible[l] ELSE NoDeductible
  <2>1. limit[l] \in Limits /\ d \in Deductibles \cup {NoDeductible}
    OBVIOUS
  <2>2. l \in DeductibleLines => d = deductible[l]
    OBVIOUS
  <2>3. coverage'[l] = RecordCoverage(coverage[l], day, today, l, limit[l], d)
    BY <1>1
  <2>4. limit[l] # LimitOf(l) <=> Key("coverage", l) \in today
    BY <1>1
  <2>5. l \in DeductibleLines => (d # DeductibleOf(l) <=> Key("deductible", l) \in today)
    BY <1>1
  <2> HIDE DEF d
  <2>6. DatasetTypeOK /\ LinesStarted
    OBVIOUS
  <2> HIDE DEF RoundTripInv
  <2>7. LineRowsAre(RecordCoverage(coverage[l], day, today, l, limit[l], d),
                    l, day, today, limit[l], d, x)
    BY <2>1, <2>4, <2>5, <2>6, LineRowsMade
  <2> QED
    BY <2>2, <2>3, <2>7 DEF LineRowsAre
<1>3. ASSUME NEW c \in Switched, NEW x
      PROVE  x \in PolicyRows(history', c) <=>
               \/ x \in PolicyRows(history, c)
               \/ /\ Key(c, NoLine) \in today
                  /\ x = [day |-> day, category |-> c, line |-> NoLine, direction |-> "switch"]
  BY <1>1, PolicyRowsMade
<1>4. ASSUME NEW rows, NEW c, NEW x \in PolicyRows(rows, c) PROVE x.category = c
  BY DEF PolicyRows, PolicyRow
<1>5. ASSUME NEW rows, NEW category, NEW column, NEW l,
             NEW x \in LineRows(rows, category, column, l)
      PROVE  x.category = category
  BY DEF LineRows, LineRow
<1>6. \A c : c \in DOMAIN Column <=> (c \in Switched \/ c = "premium")
  BY DEF Column, Switched
<1> DEFINE NotEcho(x, h, cov) ==
      \/ \E c \in Switched : x \in PolicyRows(h, c)
      \/ \E l \in Lines : x \in LineRows(cov[l], "coverage", "limit", l)
      \/ \E l \in DeductibleLines : x \in LineRows(cov[l], "deductible", "deductible", l)
<1>7. ASSUME NEW x PROVE x \in ChangeRows /\ x.category # "premium" <=> NotEcho(x, history, coverage)
  BY <1>4, <1>5, <1>6, InChangeRows DEF Switched
<1>8. ASSUME NEW x
      PROVE  x \in ChangeRows' /\ x.category # "premium" <=> NotEcho(x, history', coverage')
  <2>1. x \in ChangeRows' <=>
          \/ \E c \in DOMAIN Column : x \in PolicyRows(history', c)
          \/ \E l \in Lines : x \in LineRows(coverage'[l], "coverage", "limit", l)
          \/ \E l \in DeductibleLines :
               x \in LineRows(coverage'[l], "deductible", "deductible", l)
    BY DEF ChangeRows, PolicyDiffs, LineDiffs, PolicyRows, PolicyRow, LineRows, LineRow
  <2> QED
    BY <1>4, <1>5, <1>6, <2>1 DEF Switched
<1>9. ASSUME NEW x
      PROVE  NotEcho(x, history', coverage') <=>
               NotEcho(x, history, coverage) \/ x \in Applied(day, today, limit, deductible)
  <2> DEFINE row(category, l, direction) ==
        [day |-> day, category |-> category, line |-> l, direction |-> direction]
  <2>1. (\E c \in Switched : x \in PolicyRows(history', c)) <=>
          \/ \E c \in Switched : x \in PolicyRows(history, c)
          \/ \E c \in Switched : Key(c, NoLine) \in today /\ x = row(c, NoLine, "switch")
    BY <1>3
  <2>2. (\E l \in Lines : x \in LineRows(coverage'[l], "coverage", "limit", l)) <=>
          \/ \E l \in Lines : x \in LineRows(coverage[l], "coverage", "limit", l)
          \/ \E l \in Lines : /\ Key("coverage", l) \in today
                             /\ x = row("coverage", l, Direction(LimitOf(l), limit[l]))
    BY <1>2
  <2>3. (\E l \in DeductibleLines : x \in LineRows(coverage'[l], "deductible", "deductible", l)) <=>
          \/ \E l \in DeductibleLines : x \in LineRows(coverage[l], "deductible", "deductible", l)
          \/ \E l \in DeductibleLines :
               /\ Key("deductible", l) \in today
               /\ x = row("deductible", l, Direction(DeductibleOf(l), deductible[l]))
    <3>1. DeductibleLines \subseteq Lines
      BY DEF HistoryAssumption
    <3> QED
      BY <1>2, <3>1
  <2>4. x \in Applied(day, today, limit, deductible) <=>
          \/ \E c \in Switched : Key(c, NoLine) \in today /\ x = row(c, NoLine, "switch")
          \/ \E l \in Lines : /\ Key("coverage", l) \in today
                             /\ x = row("coverage", l, Direction(LimitOf(l), limit[l]))
          \/ \E l \in DeductibleLines :
               /\ Key("deductible", l) \in today
               /\ x = row("deductible", l, Direction(DeductibleOf(l), deductible[l]))
    BY InApplied
  <2> HIDE DEF row
  <2> QED
    BY <2>1, <2>2, <2>3, <2>4, ZenonT(60)
<1> HIDE DEF NotEcho
<1>10. ASSUME NEW x
       PROVE  x \in changes <=> NotEcho(x, history, coverage)
  BY <1>7 DEF ChangesRoundTrip
<1>11. {x \in ChangeRows' : x.category # "premium"} = changes'
  BY <1>1, <1>8, <1>9, <1>10
<1> QED
  BY <1>2, <1>11 DEF LinesStarted, ChangesRoundTrip
LEMMA InitRoundTrip == ASSUME Inception(Limits, Deductibles), HistoryAssumption PROVE RoundTripInv
<1>1. PICK location \in Locations, agent \in Agents :
        history = <<[from |-> 0, status |-> "active", agent |-> agent,
                     location |-> location, vehicle |-> 1, term_start |-> 0,
                     premium |-> 0]>>
  BY DEF Inception
<1>2. Len(history) = 1 /\ Current.status = "active"
  BY <1>1 DEF Current, Latest
<1>3. StatusInv
  BY <1>2 DEF Inception, StatusInv, Terminal, Populations
<1>4. \A l \in Lines : Len(coverage[l]) = 1
  BY DEF Inception
<1>5. ASSUME NEW x PROVE x \notin ChangeRows
  <2>1. \A c : x \notin PolicyRows(history, c)
    BY <1>2 DEF PolicyRows
  <2>2. \A l \in Lines : \A category, column : x \notin LineRows(coverage[l], category, column, l)
    BY <1>4 DEF LineRows
  <2> QED
    BY <2>1, <2>2, InChangeRows DEF HistoryAssumption
<1>6. ChangesRoundTrip
  BY <1>5 DEF Inception, ChangesRoundTrip
<1>7. LinesStarted
  BY <1>4 DEF LinesStarted
<1> QED
  BY <1>3, <1>6, <1>7, InitTyped DEF RoundTripInv

\* What the round trip speaks of is settled once the claims are drawn.
LEMMA SettledRoundTrip ==
  ASSUME RoundTripInv, HistoryAssumption, DatasetTypeOK',
         UNCHANGED <<planVars, reinstate_pending, changes, history, coverage>>
  PROVE  RoundTripInv'
<1>1. StatusInv'
  BY DEF RoundTripInv, StatusInv, planVars, Current, Latest
<1>2. LinesStarted'
  BY DEF RoundTripInv, LinesStarted
<1>3. ChangesRoundTrip'
  <2>1. PolicyDiffs' = PolicyDiffs
    BY DEF PolicyDiffs
  <2>2. LineDiffs("coverage", "limit", Lines)' = LineDiffs("coverage", "limit", Lines)
    BY DEF LineDiffs
  <2>3. LineDiffs("deductible", "deductible", DeductibleLines)'
          = LineDiffs("deductible", "deductible", DeductibleLines)
    BY DEF LineDiffs
  <2>4. ChangeRows' = ChangeRows
    BY <2>1, <2>2, <2>3 DEF ChangeRows
  <2> QED
    BY <2>4 DEF RoundTripInv, ChangesRoundTrip
<1> QED
  BY <1>1, <1>2, <1>3 DEF RoundTripInv

LEMMA NextRoundTrip ==
  ASSUME RoundTripInv, HistoryAssumption, [Next]_vars
  PROVE  RoundTripInv'
<1>1. DatasetTypeOK'
  BY NextTyped DEF RoundTripInv
<1>2. ASSUME NEW day \in Days, NEW today \in SUBSET (PolicyKeys \cup LineKeys),
             Boundary(day, today)
      PROVE  RoundTripInv'
  <2>1. StatusInv'
    BY <1>2, StatusKept DEF RoundTripInv
  <2>2. LinesStarted' /\ ChangesRoundTrip'
    BY <1>2, RoundTripKept
  <2> QED
    BY <1>1, <2>1, <2>2 DEF RoundTripInv
<1>3. CASE BuildClaims
  BY <1>1, <1>3, SettledRoundTrip DEF BuildClaims
<1>4. CASE UNCHANGED vars
  BY <1>1, <1>4, SettledRoundTrip DEF vars
<1> QED
  BY <1>2, <1>3, <1>4 DEF Next

\* The pipeline recovers the generator's changes from the versions alone
\* (derive_change_events_from_scd2): whatever days share changes, renewals and
\* premiums, _evolve_policies writes versions whose differences are the changes
\* it applied, each with its direction.
THEOREM RoundTrip == Spec => []ChangesRoundTrip
<1>1. Init => RoundTripInv
  BY InitIsInception, InitRoundTrip, HistoryAssumption
<1>2. RoundTripInv /\ [Next]_vars => RoundTripInv'
  BY NextRoundTrip, HistoryAssumption
<1>3. RoundTripInv => ChangesRoundTrip
  BY DEF RoundTripInv
<1> QED
  BY <1>1, <1>2, <1>3, PTL DEF Spec
=============================================================================
