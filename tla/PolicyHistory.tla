---------------------------- MODULE PolicyHistory ----------------------------
(***************************************************************************)
(* The history of one policy as the generator builds it (generator/        *)
(* build.py): one SCD Type 2 version per boundary day, one coverage        *)
(* version per Coverage Line and day, the vehicles, and then the claims.   *)
(*                                                                         *)
(* Days count from the start of the policy.  The generator draws the whole *)
(* plan of changes first (_plant_scenarios, _background_endorsements,      *)
(* _constructed_status_population, _agent_reassignments) and evolves the   *)
(* policy afterwards; as the evolution only looks at the changes of the    *)
(* day, each day's changes are drawn here when it comes to that day.  The  *)
(* premium is 0 or 1: only whether two versions differ in it is ever used. *)
(***************************************************************************)
EXTENDS Integers, Sequences, FiniteSets

CONSTANTS DAY_ANCHOR,          \* the last day of the dataset
          TERM_LENGTH_DAYS,    \* days from one renewal to the next
          REPORT_LAG_MIN_DAYS, \* no claim is reported sooner after its loss
          Lines,               \* COVERAGE_LINES, numbered in their sort order
          DeductibleLines,     \* DEDUCTIBLE_LINES
          Limits,              \* the ladder of limits of every line
          Deductibles,         \* DEDUCTIBLES
          Locations, Agents,
          Amounts,             \* settled amounts a claim may have
          StartLimits,         \* bound: the limits policies start with
          StartDeductibles,    \* bound: the deductibles they start with
          MaxClaims,           \* bound: the claims of the policy
          MaxEvents            \* bound: its changes and claims together

NoLine       == 0   \* coverage_line is NULL
NoDeductible == 0   \* deductible_amount is NULL

ASSUME HistoryAssumption ==
  /\ {DAY_ANCHOR, TERM_LENGTH_DAYS, REPORT_LAG_MIN_DAYS} \subseteq Nat \ {0}
  /\ MaxEvents \in Nat /\ MaxClaims \in Nat
  /\ Lines \subseteq Nat \ {NoLine} /\ IsFiniteSet(Lines) /\ DeductibleLines \subseteq Lines
  /\ Limits \subseteq Nat \ {0} /\ StartLimits \subseteq Limits
  /\ Deductibles \subseteq Nat \ {NoDeductible} /\ StartDeductibles \subseteq Deductibles
  /\ Amounts \subseteq Nat

VARIABLES
  phase,              \* "evolving", then "built"
  population,         \* the pool the policy was drawn from
  end_day,            \* the last day of its exposure
  terminal_status,    \* the status it leaves the books with, or "none"
  reinstate_pending,  \* lapsed, and its reinstatement still to come
  changes,            \* self.changes: what was changed, and on which day
  history,            \* policy_history, without the columns the frame derives
  coverage,           \* coverage_track, by line
  vehicles,           \* the vehicle table; a vehicle is named by its place in it
  claims              \* the claim table, in the order of claim_id

planVars == <<population, end_day, terminal_status>>
vars == <<phase, planVars, reinstate_pending, changes, history, coverage,
          vehicles, claims>>

Days        == 0..DAY_ANCHOR
FAR_FUTURE  == DAY_ANCHOR + 1   \* stands for 9999-12-31
Terminal    == {"cancelled", "non_renewed"}
PolicyStatuses == {"active", "lapsed", "reinstated"} \cup Terminal
Populations == {"ordinary", "lapsing", "terminating", "reassigned"}

MATERIAL_CATEGORIES == {"coverage", "deductible", "vehicle", "address", "status"}

\* What one change is about: a category, and a line where that has one.
PolicyKeys == [category : {"address", "vehicle", "status", "agent"}, line : {NoLine}]
LineKeys   == [category : {"coverage"}, line : Lines]
                 \cup [category : {"deductible"}, line : DeductibleLines]
Key(category, line) == [category |-> category, line |-> line]

\* _background_endorsements, and the pools that also get a status or an agent
\* change.  A policy that leaves the books does so on its last day.
ChangesOn(day) ==
  {k \in PolicyKeys \cup LineKeys :
     /\ k.category = "status" => \/ population = "lapsing"
                                 \/ population = "terminating" /\ day = end_day
     /\ k.category = "agent" => population = "reassigned"}

Latest(rows)   == rows[Len(rows)]
Current        == Latest(history)
LimitOf(l)     == Latest(coverage[l]).limit
DeductibleOf(l) == Latest(coverage[l]).deductible
NextRenewal    == Current.term_start + TERM_LENGTH_DAYS

\* Mutant: the last day is taken for the terminal one, leaving or not.
NewStatusAtEnd(day) ==
  IF day = end_day THEN terminal_status
  ELSE IF reinstate_pending THEN "reinstated" ELSE "lapsed"

\* The status after a status change: the terminal one on its day, else lapses
\* and reinstatements in turn.
NewStatus(day) ==
  IF terminal_status # "none" /\ day = end_day THEN terminal_status
  ELSE IF reinstate_pending THEN "reinstated" ELSE "lapsed"

Direction(old, new) == IF new > old THEN "increase" ELSE "decrease"

-----------------------------------------------------------------------------
\* A policy on the day it is taken out, with limits and deductibles among these.
Inception(limits, deductibles) ==
  /\ phase = "evolving"
  /\ population \in Populations
  /\ IF population = "terminating"
     THEN end_day \in 2..(DAY_ANCHOR - 1) /\ terminal_status \in Terminal
     ELSE end_day = DAY_ANCHOR /\ terminal_status = "none"
  /\ reinstate_pending = FALSE
  /\ changes = {}
  /\ \E location \in Locations, agent \in Agents :
       history = <<[from |-> 0, status |-> "active", agent |-> agent,
                    location |-> location, vehicle |-> 1, term_start |-> 0,
                    premium |-> 0]>>
  /\ \E limit \in [Lines -> limits],
        deductible \in [DeductibleLines -> deductibles] :
       coverage = [l \in Lines |->
         <<[from |-> 0, limit |-> limit[l],
            deductible |-> IF l \in DeductibleLines THEN deductible[l] ELSE NoDeductible]>>]
  /\ vehicles = <<[added |-> 0, removed |-> FAR_FUTURE]>>
  /\ claims = <<>>

Init == Inception(StartLimits, StartDeductibles)

\* Mutant: a version per change.
RecordCoverageEach(rows, day, today, l, limit, deductible) ==
  LET moved == {Key("coverage", l), Key("deductible", l)} \cap today
      row   == [from |-> day, limit |-> limit, deductible |-> deductible]
  IN IF moved = {} THEN rows
     ELSE IF Cardinality(moved) = 1 THEN Append(rows, row)
     ELSE Append(Append(rows, [row EXCEPT !.deductible = rows[Len(rows)].deductible]), row)

\* record_coverage: one coverage version per line and day, even if a limit and
\* a deductible moved together.
RecordCoverage(rows, day, today, l, limit, deductible) ==
  IF {Key("coverage", l), Key("deductible", l)} \cap today = {} THEN rows
  ELSE Append(rows, [from |-> day, limit |-> limit, deductible |-> deductible])

\* Each change of the day with the direction the evolution gives it; None
\* where the code leaves it None is "switch".
Applied(day, today, limit, deductible) ==
  {[day |-> day, category |-> k.category, line |-> k.line,
    direction |->
      CASE k.category = "coverage"   -> Direction(LimitOf(k.line), limit[k.line])
        [] k.category = "deductible" -> Direction(DeductibleOf(k.line), deductible[k.line])
        [] OTHER -> "switch"] : k \in today}

\* A change of one of these moves the premium, and so does a renewal.
Rerates(day, today) ==
  \/ day = NextRenewal
  \/ \E k \in today : k.category \in {"address", "vehicle", "coverage", "deductible"}

\* Mutant: a renewal recalculates the status.
NewVersionReactivated(day, today, location, agent) ==
  [from |-> day,
   status |-> IF Key("status", NoLine) \in today THEN NewStatus(day)
              ELSE IF day = NextRenewal THEN "active" ELSE Current.status,
   agent |-> agent, location |-> location,
   vehicle |-> IF Key("vehicle", NoLine) \in today THEN Len(vehicles) + 1
               ELSE Current.vehicle,
   term_start |-> IF day = NextRenewal THEN day ELSE Current.term_start,
   premium |-> IF Rerates(day, today) THEN 1 - Current.premium ELSE Current.premium]

\* The version a boundary day adds.  A renewal starts a new term; it never
\* touches the status.
NewVersion(day, today, location, agent) ==
  [from |-> day,
   status |-> IF Key("status", NoLine) \in today THEN NewStatus(day) ELSE Current.status,
   agent |-> agent, location |-> location,
   vehicle |-> IF Key("vehicle", NoLine) \in today THEN Len(vehicles) + 1
               ELSE Current.vehicle,
   term_start |-> IF day = NextRenewal THEN day ELSE Current.term_start,
   premium |-> IF Rerates(day, today) THEN 1 - Current.premium ELSE Current.premium]

\* The next boundary day of _evolve_policies: a renewal, a day with changes,
\* or both.  No renewal is passed over, and a policy that leaves does leave.
Boundary(day, today) ==
  /\ phase = "evolving"
  /\ Current.from < day /\ day <= end_day /\ day <= NextRenewal
  /\ today \subseteq ChangesOn(day)
  /\ today # {} \/ day = NextRenewal
  /\ population = "terminating" /\ day = end_day => Key("status", NoLine) \in today
  /\ Cardinality(changes) + Cardinality(today) <= MaxEvents
  /\ \E location \in Locations, agent \in Agents,
        limit \in [Lines -> Limits], deductible \in [DeductibleLines -> Deductibles] :
       /\ location # Current.location <=> Key("address", NoLine) \in today
       /\ agent # Current.agent <=> Key("agent", NoLine) \in today
       /\ \A l \in Lines : limit[l] # LimitOf(l) <=> Key("coverage", l) \in today
       /\ \A l \in DeductibleLines :
            deductible[l] # DeductibleOf(l) <=> Key("deductible", l) \in today
       /\ history' = Append(history, NewVersion(day, today, location, agent))
       /\ coverage' = [l \in Lines |->
            RecordCoverage(coverage[l], day, today, l, limit[l],
                           IF l \in DeductibleLines THEN deductible[l] ELSE NoDeductible)]
       /\ changes' = changes \cup Applied(day, today, limit, deductible)
  /\ vehicles' = IF Key("vehicle", NoLine) \in today
                 THEN Append([vehicles EXCEPT ![Len(vehicles)].removed = day],
                             [added |-> day, removed |-> FAR_FUTURE])
                 ELSE vehicles
  /\ reinstate_pending' = (reinstate_pending # (/\ Key("status", NoLine) \in today
                                                /\ terminal_status = "none"))
  /\ UNCHANGED <<phase, planVars, claims>>

\* A claim the generator may place: a loss before the last day of the policy,
\* reported after the least lag and no later than the anchor.
Placeable ==
  {k \in [line : Lines, loss : Days, report : Days, amount : Amounts] :
     k.loss < end_day /\ k.report >= k.loss + REPORT_LAG_MIN_DAYS}

\* _build_claims, once the policy has seen all its boundaries.  No two claims
\* of one policy have the same loss day.  The ids are a shuffle: their order
\* says nothing about the dates.
BuildClaims ==
  /\ phase = "evolving"
  /\ NextRenewal > end_day
  /\ ~reinstate_pending
  /\ population = "terminating" => Current.from = end_day
  /\ \E n \in 0..MaxClaims : \E placed \in [1..n -> Placeable] :
       /\ Cardinality(changes) + n <= MaxEvents
       /\ \A i, j \in 1..n : i # j => placed[i].loss # placed[j].loss
       /\ claims' = placed
  /\ phase' = "built"
  /\ UNCHANGED <<planVars, reinstate_pending, changes, history, coverage, vehicles>>

Next == \/ \E day \in Days : \E today \in SUBSET (PolicyKeys \cup LineKeys) :
             Boundary(day, today)
        \/ BuildClaims

Spec == Init /\ [][Next]_vars

-----------------------------------------------------------------------------
\* _frames: effective_to is the next version's first day, and is exclusive.
EffectiveTo(rows, i) == IF i < Len(rows) THEN rows[i + 1].from ELSE FAR_FUTURE
IsCurrent(rows, i)   == i = Len(rows)

\* limit_at: the last entry of the line on or before the day.
LimitAt(l, day) ==
  LET upTo == {i \in DOMAIN coverage[l] : coverage[l][i].from <= day}
  IN coverage[l][IF upTo = {} THEN 1 ELSE CHOOSE i \in upTo : \A j \in upTo : j <= i].limit

\* _window_flags: the days within a window that starts with a material change.
WindowFlag(category, window, day) ==
  \E c \in changes : /\ c.category = category
                     /\ c.day <= day
                     /\ day <= c.day + window - 1 /\ day <= end_day
=============================================================================
