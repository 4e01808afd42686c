------------------------------ MODULE Scenarios ------------------------------
(***************************************************************************)
(* The scenario catalogue of the generator (generator/build.py): a policy  *)
(* is drawn for a scenario or a control population, its story is planted,  *)
(* ordinary changes and claims are laid around it, it is evolved, and the  *)
(* claims are built.  What the story must look like to the validator and   *)
(* to the pipeline is then asked of the tables of module GoldLayer.        *)
(*                                                                         *)
(* Unlike DatasetChecks, which draws any history of a few days, this       *)
(* module keeps the constants of the source, in days: the windows that are *)
(* kept clear around a story, the report lags and the windows of the       *)
(* pattern rules have to fit each other.  What rng draws from a range is   *)
(* the first or the last value, and the ordinary changes and claims fall   *)
(* beside the days the story is sensitive to.                              *)
(***************************************************************************)
EXTENDS DatasetChecks

CONSTANTS COLL, COMP,            \* two of the Lines; the others are liability
          MaxBackgroundChanges,  \* bound: ordinary changes of the policy
          MaxBackgroundClaims,   \* bound: ordinary claims
          ReportLags             \* bound: the report lags drawn

HIGH_SEVERITY == 10000           \* the cut below severe, in dollars
REPORT_LAG_CAP_DAYS == 60
S1_COVERAGE_RAISE_OFFSET == 41
S1_LOSS_OFFSET == 17
S1_EXEMPLAR_ADDRESS_OFFSET == 55
S1_EXEMPLAR_VEHICLE_OFFSET == 30
DEMO_COLL_LIMIT_BEFORE == 15000
DEMO_COLL_LIMIT_AFTER == 25000
LIMIT_UTILISATION == 97          \* DEMO_LIMIT_UTILISATION, S6_LIMIT_UTILISATION
S2_DEDUCTIBLE_CUT_OFFSET == 52
S2_LOSS_OFFSET == 20
S3_LOSS_OFFSET == 34
S3_REPORT_OFFSET == 19
S3_ADDRESS_CHANGE_OFFSET == 28
S4_CLUSTER_OFFSETS == <<82, 75, 68, 60>>
S4_LOSS_OFFSET == 31
S4_INITIAL_LIMIT == 10000
S4_INITIAL_DEDUCTIBLE == 1000
S5_VEHICLE_OFFSET == 73
S5_ADDRESS_OFFSET == 48
S6_COVERAGE_RAISE_OFFSET == 66
S6_LOSS_OFFSET == 45
C1_QUIET_WINDOW_DAYS == 130
C5_CLUSTER_SPAN_DAYS == 20

S4_CLUSTER_CHANGES == <<[category |-> "coverage", line |-> COLL, direction |-> "increase"],
                        [category |-> "coverage", line |-> COMP, direction |-> "increase"],
                        [category |-> "deductible", line |-> COLL, direction |-> "decrease"],
                        [category |-> "deductible", line |-> COMP, direction |-> "decrease"]>>

Scenario == {"demo", "S1", "S2", "S3", "S4", "S5", "S6", "C1", "C2", "C3", "C4", "C5"}

\* The ladders are those of the generator: the rungs the stories start from and
\* climb to are on them, and limits are whole hundreds.
ASSUME ScenariosAssumption ==
  /\ {COLL, COMP} \subseteq DeductibleLines /\ COLL # COMP
  /\ DAY_ANCHOR >= 400    \* _assign_scenarios draws long histories only
  /\ REPORT_LAG_MIN_DAYS = 1
  /\ {5000, 10000, 15000, 25000} \subseteq Limits /\ \A limit \in Limits : limit % 100 = 0
  /\ {250, 1000} \subseteq Deductibles
  /\ {MaxBackgroundChanges, MaxBackgroundClaims} \subseteq Nat
  /\ ReportLags \subseteq REPORT_LAG_MIN_DAYS..REPORT_LAG_CAP_DAYS

\* What the stories ask of the rules and the questions: windows that hold the
\* days of a story and none beyond what is kept clear around it.
ASSUME StoriesAssumption ==
  /\ PATTERN_CLAIM_WINDOW_DAYS \in 32..120          \* S2, C5
  /\ PATTERN_LIMIT_RAISED_WINDOW_DAYS \in 24..120   \* S1, C5
  /\ PATTERN_CLUSTER_SPAN_DAYS >= 25 /\ PATTERN_CLUSTER_MIN_CHANGES <= 3
  /\ PATTERN_VEHICLE_ADDRESS_DAYS >= 25             \* S5
  /\ QUESTION_WINDOWS[1] >= 24 /\ QUESTION_WINDOWS[2] <= C1_QUIET_WINDOW_DAYS
  /\ SEVERITY_CUTS[2] <= HIGH_SEVERITY
  /\ ROUTING_DAYS >= 30                             \* S4

VARIABLES
  scenario,   \* the population the policy is a member of
  stage,      \* how far Builder.run has come
  plan,       \* what was planted on it
  ordinary    \* the ordinary changes laid around it

scenarioVars == <<scenario, stage, plan, ordinary>>

-----------------------------------------------------------------------------
(* A plan: what _plant_scenarios sets and appends for one policy. *)

Ago(offset) == DAY_ANCHOR - offset
Drawn(lo, hi) == {lo, hi - 1}     \* rng.integers(lo, hi)
Always == <<0, DAY_ANCHOR>>

\* Change(policy, day, category, line, forced_new, direction); 0 forces nothing.
Change(day, category) == [day |-> day, category |-> category, line |-> NoLine,
                          forced |-> 0, direction |-> "any"]
Move(day, category, line, forced, direction) ==
  [day |-> day, category |-> category, line |-> line, forced |-> forced,
   direction |-> direction]

\* PlantedClaim; a share is a percentage of the limit in force, see _c4_plan.
Claim(loss, report, line, amount) ==
  [loss |-> loss, report |-> report, line |-> line, amount |-> amount, share |-> 0]

\* _lag: never zero, never over the cap, never later than the anchor.
Lag(max) == {lag \in ReportLags : lag <= max} \cup {IF max < REPORT_LAG_CAP_DAYS THEN max
                                                    ELSE REPORT_LAG_CAP_DAYS}
Reported(loss, offset) == {loss + lag : lag \in Lag(offset)}

Near(limit) == (limit * LIMIT_UTILISATION) \div 100
Between(lo, hi) == {a \in Amounts : lo <= a /\ a <= hi}

NoPlan == [limits |-> <<>>, deductibles |-> <<>>, changes |-> {}, claims |-> {},
           quiet |-> {},        \* blocked_change_windows
           unclaimed |-> {},    \* blocked_claim_windows
           no_claims |-> FALSE] \* no_claims_at_all

\* Mutant: ordinary endorsements may come before the raise.
RaisedUnguarded(old, new, raise, loss, report) ==
  [NoPlan EXCEPT !.limits = [l \in {COLL} |-> old],
                 !.changes = {Move(Ago(raise), "coverage", COLL, new, "increase")},
                 !.claims = {Claim(Ago(loss), report, COLL, Near(new))},
                 !.quiet = {<<Ago(raise), DAY_ANCHOR>>}, !.unclaimed = {Always}]

\* The line's limit is raised to new and a claim comes near it.
Raised(old, new, raise, loss, report) ==
  [NoPlan EXCEPT !.limits = [l \in {COLL} |-> old],
                 !.changes = {Move(Ago(raise), "coverage", COLL, new, "increase")},
                 !.claims = {Claim(Ago(loss), report, COLL, Near(new))},
                 !.quiet = {Always}, !.unclaimed = {Always}]

S1 == {Raised(x.old, x.new, S1_COVERAGE_RAISE_OFFSET, S1_LOSS_OFFSET, x.report) :
         x \in {y \in [old : Limits, new : {v \in Limits : v >= 15000},
                       report : Reported(Ago(S1_LOSS_OFFSET), S1_LOSS_OFFSET)] :
                  y.old < y.new}}

\* The S1 exemplar: address, coverage, vehicle, collision claim.
DemoSpine == {Change(Ago(S1_EXEMPLAR_ADDRESS_OFFSET), "address"),
              Change(Ago(S1_EXEMPLAR_VEHICLE_OFFSET), "vehicle")}
Demo == {[p EXCEPT !.changes = @ \cup DemoSpine] :
           p \in {Raised(DEMO_COLL_LIMIT_BEFORE, DEMO_COLL_LIMIT_AFTER,
                         S1_COVERAGE_RAISE_OFFSET, S1_LOSS_OFFSET, report) :
                    report \in Reported(Ago(S1_LOSS_OFFSET), S1_LOSS_OFFSET)}}

\* The line's deductible is cut before a claim.
Cut(limit, report, amount) ==
  [NoPlan EXCEPT !.limits = [l \in {COMP} |-> limit],
                 !.deductibles = [l \in {COMP} |-> 1000],
                 !.changes = {Move(Ago(S2_DEDUCTIBLE_CUT_OFFSET), "deductible", COMP,
                                   250, "decrease")},
                 !.claims = {Claim(Ago(S2_LOSS_OFFSET), report, COMP, amount)},
                 !.quiet = {Always}, !.unclaimed = {Always}]
S2 == {Cut(limit, report, amount) :
         limit \in Limits \cap 10000..25000, amount \in Between(2800, 9400),
         report \in Reported(Ago(S2_LOSS_OFFSET), S2_LOSS_OFFSET)}

\* The address changes between the loss and its report.
MovedInGap(line, amount) ==
  LET clear == <<Ago(S3_LOSS_OFFSET) - 130, DAY_ANCHOR>>
  IN [NoPlan EXCEPT !.changes = {Change(Ago(S3_ADDRESS_CHANGE_OFFSET), "address")},
                    !.claims = {Claim(Ago(S3_LOSS_OFFSET), Ago(S3_REPORT_OFFSET), line, amount)},
                    !.quiet = {clear}, !.unclaimed = {clear}]
S3 == {MovedInGap(line, amount) : line \in Lines, amount \in Between(3200, 24000)}

\* Limits and deductibles move in a cluster before a costly claim.
Clustered(line, report, amount) ==
  [NoPlan EXCEPT !.limits = [l \in DeductibleLines |-> S4_INITIAL_LIMIT],
                 !.deductibles = [l \in DeductibleLines |-> S4_INITIAL_DEDUCTIBLE],
                 !.changes = {LET c == S4_CLUSTER_CHANGES[i]
                              IN Move(Ago(S4_CLUSTER_OFFSETS[i]), c.category, c.line, 0,
                                      c.direction) : i \in DOMAIN S4_CLUSTER_CHANGES},
                 !.claims = {Claim(Ago(S4_LOSS_OFFSET), report, line, amount)},
                 !.quiet = {Always}, !.unclaimed = {Always}]
S4 == {Clustered(line, report, amount) :
         line \in Lines \ {COMP}, amount \in Between(11000, 46000),
         report \in Reported(Ago(S4_LOSS_OFFSET), S4_LOSS_OFFSET)}

\* A vehicle and an address, and whatever claims there are.
Spine == [NoPlan EXCEPT !.changes = {Change(Ago(S5_VEHICLE_OFFSET), "vehicle"),
                                     Change(Ago(S5_ADDRESS_OFFSET), "address")},
                        !.quiet = {<<Ago(140), DAY_ANCHOR>>}]
S5 == {Spine}

S6 == {Raised(5000, new, S6_COVERAGE_RAISE_OFFSET, S6_LOSS_OFFSET, report) :
         new \in Limits \cap {8000, 10000},
         report \in Reported(Ago(S6_LOSS_OFFSET), S6_LOSS_OFFSET)}

\* Mutant: the window ends before the day of the loss, which rules count in.
UnprovokedUpToLoss(claim) ==
  [NoPlan EXCEPT !.claims = {claim},
                 !.quiet = {<<claim.loss - C1_QUIET_WINDOW_DAYS, claim.loss - 1>>},
                 !.no_claims = TRUE]

\* A claim with nothing before it: no change is laid in the quiet window.
Unprovoked(claim) ==
  [NoPlan EXCEPT !.claims = {claim},
                 !.quiet = {<<claim.loss - C1_QUIET_WINDOW_DAYS, claim.loss>>},
                 !.no_claims = TRUE]

C1 == UNION {{Unprovoked(Claim(Ago(offset), report, line, amount)) :
                report \in Reported(Ago(offset), offset), line \in Lines,
                amount \in {a \in Amounts : a >= HIGH_SEVERITY}} : offset \in Drawn(20, 110)}

Unclaimed == [NoPlan EXCEPT !.no_claims = TRUE]
C2 == {Unclaimed}

Least(a, b) == IF a < b THEN a ELSE b
Most(a, b)  == IF a > b THEN a ELSE b

\* The address changes after the loss only.
MovedAfter(loss, report, amount) ==
  [NoPlan EXCEPT !.changes = {Change(loss + Most(1, (report - loss) \div 2), "address")},
                 !.claims = {Claim(loss, report, COMP, amount)},
                 !.quiet = {<<loss - 130, loss>>}, !.no_claims = TRUE]
C3 == {MovedAfter(Ago(offset), Least(Ago(offset) + lag, DAY_ANCHOR), amount) :
         offset \in Drawn(40, 95), lag \in Drawn(12, 25), amount \in Between(140, 2499)}

C4 == UNION {{Unprovoked([loss |-> Ago(offset), report |-> report, line |-> line,
                          amount |-> 0, share |-> share]) :
                report \in Reported(Ago(offset), offset), line \in {COLL, COMP},
                share \in {90, 125}} : offset \in Drawn(25, 115)}

\* A cluster of changes that leads up to no claim.
Idle(last) ==
  LET span == C5_CLUSTER_SPAN_DAYS
      days == <<last - span, last - (2 * span) \div 3, last - span \div 3, last>>
  IN [NoPlan EXCEPT !.changes = {Change(days[1], "address"), Change(days[2], "vehicle"),
                                 Move(days[3], "coverage", COMP, 0, "any"),
                                 Move(days[4], "deductible", COMP, 0, "any")},
                    !.quiet = {<<days[1] - 120, last + 120>>},
                    !.unclaimed = {<<days[1] - 30, last + 120>>}]
C5 == {Idle(Ago(offset)) : offset \in Drawn(150, 260)}

Plans(s) == CASE s = "demo" -> Demo [] s = "S1" -> S1 [] s = "S2" -> S2 [] s = "S3" -> S3
              [] s = "S4" -> S4 [] s = "S5" -> S5 [] s = "S6" -> S6 [] s = "C1" -> C1
              [] s = "C2" -> C2 [] s = "C3" -> C3 [] s = "C4" -> C4 [] s = "C5" -> C5

-----------------------------------------------------------------------------
(* The stages of Builder.run. *)

\* _build_entities and _assign_scenarios: a member's history is long, and its
\* limits and deductibles are any, until they are planted.
ScenarioInit ==
  /\ Init /\ population = "ordinary"
  /\ scenario \in Scenario /\ stage = "assigned"
  /\ plan = NoPlan /\ ordinary = {}

\* _plant_scenarios.
Plant(p) ==
  /\ stage = "assigned" /\ stage' = "planted"
  /\ plan' = p
  /\ coverage' = [l \in Lines |->
       <<[from |-> 0,
          limit |-> IF l \in DOMAIN p.limits THEN p.limits[l] ELSE LimitOf(l),
          deductible |-> IF l \in DOMAIN p.deductibles THEN p.deductibles[l]
                         ELSE DeductibleOf(l)]>>]
  /\ UNCHANGED <<scenario, ordinary, phase, planVars, reinstate_pending, changes, history,
                 vehicles, claims>>

Blocked(windows, day) == \E w \in windows : w[1] <= day /\ day <= w[2]

\* The days where an ordinary change or claim could disturb a story: beside its
\* changes, its claims and its windows.
Sensitive ==
  UNION ({{w[1] - 1, w[1], w[2], w[2] + 1} : w \in plan.quiet \cup plan.unclaimed}
           \cup {{c.day - 1, c.day, c.day + 1} : c \in plan.changes}
           \cup {{c.loss, c.report, c.report + 1} : c \in plan.claims})
  \cup {20, end_day - 1, end_day}

\* _background_endorsements: on no blocked day, and not twice the same on a
\* day.  One that repeats a planted one is dropped (_finalise_changes).
LayChange(day, k) ==
  /\ stage = "planted" /\ Cardinality(ordinary) < MaxBackgroundChanges
  /\ day \in Sensitive \cap 20..end_day /\ ~Blocked(plan.quiet, day)
  /\ k \in ChangesOn(day)
  /\ \A c \in ordinary : c.day = day => c.category # k.category
  /\ \A c \in plan.changes : c.day = day => Key(c.category, c.line) # k
  /\ ordinary' = ordinary \cup {Move(day, k.category, k.line, 0, "any")}
  /\ UNCHANGED <<scenario, stage, plan, vars>>

Planned == plan.changes \cup ordinary
NextDay == LET days == {c.day : c \in Planned} \cup {NextRenewal}
           IN CHOOSE d \in days : /\ d > Current.from
                                  /\ \A e \in days : e > Current.from => d <= e

\* _assert_direction: the change cannot go the way that was declared, forced to
\* a value or not (_new_limit, _new_deductible).
Contradicted(c) ==
  LET old    == IF c.category = "coverage" THEN LimitOf(c.line) ELSE DeductibleOf(c.line)
      ladder == IF c.category = "coverage" THEN Limits ELSE Deductibles
  IN /\ c.direction # "any"
     /\ \A new \in (IF c.forced # 0 THEN {c.forced} ELSE ladder) :
          new = old \/ Direction(old, new) # c.direction

\* The value a planned change moved to, among those Boundary allows.
Realised(c, rows) ==
  LET row == Latest(rows[c.line])
      old == IF c.category = "coverage" THEN LimitOf(c.line) ELSE DeductibleOf(c.line)
      new == IF c.category = "coverage" THEN row.limit ELSE row.deductible
  IN /\ c.forced # 0 => new = c.forced
     /\ c.direction # "any" => Direction(old, new) = c.direction

\* _evolve_policies, one boundary day: all that is planned for it is applied.
Evolve ==
  /\ stage \in {"planted", "evolving"} /\ NextDay <= end_day
  /\ LET today == {c \in Planned : c.day = NextDay}
     IN IF \E c \in today : c.line # NoLine /\ Contradicted(c)
        THEN stage' = "failed" /\ UNCHANGED vars
        ELSE /\ stage' = "evolving"
             /\ Boundary(NextDay, {Key(c.category, c.line) : c \in today})
             /\ \A c \in today : c.line # NoLine => Realised(c, coverage')
  /\ UNCHANGED <<scenario, plan, ordinary>>

\* The settled amount: what was planted, or a share of the limit then in force.
Settled(c) == IF c.share = 0 THEN c.amount
              ELSE (LimitAt(c.line, c.loss) * c.share) \div 100
Row(c) == [line |-> c.line, loss |-> c.loss, report |-> Least(c.report, DAY_ANCHOR),
           amount |-> Settled(c)]

\* _allocate_background_claims: the days an ordinary claim may be placed on.
Eligible == {day \in Sensitive \cap 0..(end_day - 1) :
               ~plan.no_claims /\ ~Blocked(plan.unclaimed, day)}
OrdinaryClaims ==
  UNION {{[line |-> line, loss |-> day, report |-> report, amount |-> amount] :
            report \in Reported(day, DAY_ANCHOR - day), line \in Lines, amount \in Amounts} :
           day \in Eligible}

\* _build_claims: the ordinary claims that were drawn and the planted ones,
\* under ids whose order says nothing.
ClaimRows(drawn) == {drawn[i] : i \in DOMAIN drawn} \cup {Row(c) : c \in plan.claims}
Build ==
  /\ stage = "evolving" /\ NextDay > end_day
  /\ \E n \in 0..MaxBackgroundClaims : \E drawn \in [1..n -> OrdinaryClaims] :
       /\ \A c, d \in ClaimRows(drawn) : c # d => c.loss # d.loss
       /\ \E placed \in [1..Cardinality(ClaimRows(drawn)) -> ClaimRows(drawn)] :
            {placed[i] : i \in DOMAIN placed} = ClaimRows(drawn) /\ claims' = placed
  /\ stage' = "built" /\ phase' = "built"
  /\ UNCHANGED <<scenario, plan, ordinary, planVars, reinstate_pending, changes, history,
                 coverage, vehicles>>

ScenarioNext ==
  \/ \E p \in Plans(scenario) : Plant(p)
  \/ \E day \in Sensitive : \E k \in PolicyKeys \cup LineKeys : LayChange(day, k)
  \/ Evolve
  \/ Build

ScenarioSpec == ScenarioInit /\ [][ScenarioNext]_<<vars, scenarioVars>>
-----------------------------------------------------------------------------
(* check_scenario_shapes, for one policy. *)

At(offset)      == {k \in DOMAIN claims : claims[k].loss = Ago(offset)}
Moves(category) == {c \in ValidatorRows : c.category = category}
MovesAt(category, offset) == {c \in Moves(category) : c.day = Ago(offset)}

\* limit_utilisation: the limit of the version that covers the loss.
NearLimit(k) ==
  LET rows == coverage[claims[k].line]
  IN \E i \in DOMAIN rows : /\ rows[i].from <= claims[k].loss
                            /\ claims[k].loss < EffectiveTo(rows, i)
                            /\ claims[k].amount * 100 >= 90 * rows[i].limit

QuietFor(days, k) ==
  \A c \in ValidatorRows : ~(claims[k].loss - days < c.day /\ c.day <= claims[k].loss)

\* The claim of a planted story at its declared offset.
OneClaim(offset) == Cardinality(At(offset)) = 1

Shape(s) ==
  CASE s \in {"S1", "demo"} ->
         /\ OneClaim(S1_LOSS_OFFSET)
         /\ \A k \in At(S1_LOSS_OFFSET) : claims[k].line = COLL
         /\ \E c \in MovesAt("coverage", S1_COVERAGE_RAISE_OFFSET) :
              c.line = COLL /\ c.direction = "increase"
         /\ s = "demo" =>
              LET loss   == Ago(S1_LOSS_OFFSET)
                  window == {c \in ValidatorRows : loss - 60 < c.day /\ c.day <= loss}
                  Only(day) == {c.category : c \in {d \in window : d.day = day}}
              IN /\ Cardinality(window) = 3
                 /\ Only(Ago(S1_EXEMPLAR_ADDRESS_OFFSET)) = {"address"}
                 /\ Only(Ago(S1_COVERAGE_RAISE_OFFSET)) = {"coverage"}
                 /\ Only(Ago(S1_EXEMPLAR_VEHICLE_OFFSET)) = {"vehicle"}
    [] s = "S2" -> \E c \in MovesAt("deductible", S2_DEDUCTIBLE_CUT_OFFSET) :
                     c.line = COMP /\ c.direction = "decrease"
    [] s = "S3" -> /\ OneClaim(S3_LOSS_OFFSET)
                   /\ \A k \in At(S3_LOSS_OFFSET) : claims[k].report = Ago(S3_REPORT_OFFSET)
                   /\ MovesAt("address", S3_ADDRESS_CHANGE_OFFSET) # {}
    [] s = "S4" -> /\ OneClaim(S4_LOSS_OFFSET)
                   /\ \A k \in At(S4_LOSS_OFFSET) : claims[k].amount >= HIGH_SEVERITY
                   /\ Cardinality({c \in ValidatorRows : \E i \in DOMAIN S4_CLUSTER_OFFSETS :
                                     c.day = Ago(S4_CLUSTER_OFFSETS[i])}) = 4
    [] s = "S5" -> /\ MovesAt("vehicle", S5_VEHICLE_OFFSET) # {}
                   /\ MovesAt("address", S5_ADDRESS_OFFSET) # {}
    [] s = "S6" -> /\ OneClaim(S6_LOSS_OFFSET)
                   /\ \A k \in At(S6_LOSS_OFFSET) :
                        NearLimit(k) /\ 2500 <= claims[k].amount /\ claims[k].amount < HIGH_SEVERITY
    [] s = "C1" -> Len(claims) >= 1 /\ \A k \in DOMAIN claims : QuietFor(90, k)
    [] s = "C2" -> claims = <<>>
    [] s = "C4" -> Len(claims) = 1 /\ \A k \in DOMAIN claims : NearLimit(k)
    [] OTHER -> TRUE

\* Whatever is drawn, and whatever ordinary changes and claims surround it, a
\* planted change goes the way that was declared (_assert_direction) and every
\* story has the shape the validator demands (check_scenario_shapes).
ShapesHold ==
  /\ stage # "failed"
  /\ stage = "built" => Shape(scenario)

\* The stories tell in the gold tables and the controls do not (spec 01,
\* section 9).  A planted claim is the evidence of its scenario's pattern; of a
\* control's claim no pattern says that anything came before it; and the cluster
\* of C5 matches its rules without leading up to any claim.  A Run tells them
\* too: the costly stories are routed, a raised limit is asked about with the
\* shortest window, a claim that nothing came before with the longest.
Story == {k \in DOMAIN claims : \E c \in plan.claims : claims[k].loss = c.loss}
Shows(code) == \E match \in PatternMatches : match.code = code /\ match.claim = Story
CodesOn(k) == {match.code : match \in {m \in PatternMatches : k \in m.claim}}
ScenariosShow ==
  stage = "built" =>
    /\ scenario \in {"demo", "S1", "S6"} => /\ Shows("coverage_raised_then_claimed_same_line")
                                           /\ Shows("claim_near_new_limit")
    /\ scenario \in {"S2", "S4"} => Shows("deductible_lowered_before_claim")
    /\ scenario \in {"S3", "C3"} => Shows("change_in_loss_report_gap")
    /\ scenario \in {"demo", "S4", "C5"} => "rapid_change_cluster" \in Flags
    /\ scenario \in {"demo", "S5", "C5"} => "vehicle_and_address_within_60d" \in Flags
    /\ scenario \in {"C1", "C2", "C3", "C4"} =>
         \A k \in DOMAIN claims : CodesOn(k) \subseteq {"change_in_loss_report_gap"}
    /\ scenario \in {"demo", "S4"} => \A k \in Story : Routed(k)
    /\ scenario \in {"demo", "S1", "S6"} =>
         \A k \in Story : /\ DetectSituation(k) = "relevant_before_loss"
                          /\ WindowDays(k) = QUESTION_WINDOWS[1]
    /\ scenario \in {"C1", "C4"} =>
         \A k \in Story : WindowDays(k) = QUESTION_WINDOWS[3]
    /\ scenario = "C5" =>
         \A match \in PatternMatches : \A c \in plan.changes :
           match.claim # {} /\ match.change.day = c.day /\ match.change.category = c.category
             => match.code = "change_in_loss_report_gap"
=============================================================================
