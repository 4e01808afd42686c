--------------------------- MODULE ScenarioProofs ---------------------------
(***************************************************************************)
(* The scenario catalogue, for any ladders and lines, any report lags, any *)
(* number of ordinary changes and claims on the days Scenarios lays them,  *)
(* and any windows that fit the stories: each planted story has the shape  *)
(* the validator demands and shows in the gold tables what it was planted  *)
(* for, and the controls do not.                                           *)
(***************************************************************************)
EXTENDS Scenarios, GoldProofs

(* What was planted, plan by plan. *)

\* A report lag is at least a day, and never past the cap or what is left to the anchor
\* (_lag).
LEMMA ReportedTyped ==
  ASSUME NEW loss \in Nat, NEW offset \in Nat \ {0}, NEW report \in Reported(loss, offset)
  PROVE  /\ report \in Nat /\ loss + 1 <= report
         /\ report <= loss + offset /\ report <= loss + REPORT_LAG_CAP_DAYS
<1> USE ScenariosAssumption
<1>1. PICK lag \in Lag(offset) : report = loss + lag
  BY DEF Reported
<1>2. \A l \in ReportLags : l \in 1..60
  BY DEF ScenariosAssumption, REPORT_LAG_CAP_DAYS
<1>3. lag \in 1..60 /\ lag <= offset
  BY <1>2 DEF Lag, REPORT_LAG_CAP_DAYS
<1> QED
  BY <1>1, <1>3 DEF REPORT_LAG_CAP_DAYS

\* A limit is raised, and a claim comes near it.
RaisedStory(s, p, old, new, raise, loss, report) ==
  /\ old < new /\ loss < raise /\ raise <= 66 /\ 17 <= loss /\ raise - loss <= 24
  /\ Ago(loss) + 1 <= report /\ report <= DAY_ANCHOR
  /\ p.limits = [l \in {COLL} |-> old] /\ p.deductibles = <<>>
  /\ p.changes = {Move(Ago(raise), "coverage", COLL, new, "increase")}
                   \cup (IF s = "demo" THEN DemoSpine ELSE {})
  /\ p.claims = {Claim(Ago(loss), report, COLL, Near(new))}
  /\ p.quiet = {Always} /\ p.unclaimed = {Always}
  /\ s \in {"demo", "S1"} => raise = 41 /\ loss = 17
  /\ s = "demo" => new = 25000
  /\ s = "S6" => raise = 66 /\ loss = 45 /\ new \in {8000, 10000}

\* A story of a raised limit, with whatever it draws.
RaisedTale(s, p) ==
  \E old \in Limits : \E new \in Limits : \E raise \in Nat : \E loss \in Nat :
    \E report \in Nat : RaisedStory(s, p, old, new, raise, loss, report)

\* S1, S6 and the exemplar raise a limit within the days of the story.
LEMMA RaisedTold ==
  ASSUME NEW s \in {"demo", "S1", "S6"}, NEW p \in Plans(s)
  PROVE  RaisedTale(s, p)
<1> USE ScenariosAssumption, HistoryAssumption
<1>1. /\ DAY_ANCHOR \in Nat /\ DAY_ANCHOR >= 400 /\ Limits \subseteq Nat
      /\ {5000, 10000, 15000, 25000} \subseteq Limits
  BY DEF ScenariosAssumption, HistoryAssumption
<1>2. ASSUME NEW loss \in {17, 45}, NEW report \in Reported(Ago(loss), loss)
      PROVE  report \in Nat /\ Ago(loss) + 1 <= report /\ report <= DAY_ANCHOR
  <2>1. Ago(loss) \in Nat /\ loss \in Nat \ {0} /\ Ago(loss) + loss = DAY_ANCHOR
    BY <1>1 DEF Ago
  <2> QED
    BY <1>1, <2>1, ReportedTyped DEF RaisedTale
<1>3. CASE s = "S1"
  <2>1. p \in S1
    BY <1>3 DEF Plans
  <2>2. PICK old \in Limits, new \in Limits, report \in Reported(Ago(17), 17) :
          old < new /\ p = Raised(old, new, 41, 17, report)
    BY <2>1 DEF S1, S1_LOSS_OFFSET, S1_COVERAGE_RAISE_OFFSET
  <2>3. /\ p.limits = [l \in {COLL} |-> old] /\ p.deductibles = <<>>
        /\ p.changes = {Move(Ago(41), "coverage", COLL, new, "increase")}
        /\ p.claims = {Claim(Ago(17), report, COLL, Near(new))}
        /\ p.quiet = {Always} /\ p.unclaimed = {Always}
    BY <2>2 DEF Raised, NoPlan
  <2>4. report \in Nat /\ Ago(17) + 1 <= report /\ report <= DAY_ANCHOR
    BY <1>2
  <2>5. RaisedStory(s, p, old, new, 41, 17, report)
    BY <1>3, <2>2, <2>3, <2>4 DEF RaisedStory
  <2> QED
    BY <2>4, <2>5 DEF RaisedTale
<1>4. CASE s = "demo"
  <2>1. p \in Demo
    BY <1>4 DEF Plans
  <2>2. PICK report \in Reported(Ago(17), 17) :
          p = [Raised(15000, 25000, 41, 17, report) EXCEPT !.changes = @ \cup DemoSpine]
    BY <2>1
    DEF Demo, S1_LOSS_OFFSET, S1_COVERAGE_RAISE_OFFSET, DEMO_COLL_LIMIT_BEFORE,
        DEMO_COLL_LIMIT_AFTER
  <2>3. /\ p.limits = [l \in {COLL} |-> 15000] /\ p.deductibles = <<>>
        /\ p.changes = {Move(Ago(41), "coverage", COLL, 25000, "increase")} \cup DemoSpine
        /\ p.claims = {Claim(Ago(17), report, COLL, Near(25000))}
        /\ p.quiet = {Always} /\ p.unclaimed = {Always}
    BY <2>2 DEF Raised, NoPlan
  <2>4. report \in Nat /\ Ago(17) + 1 <= report /\ report <= DAY_ANCHOR
    BY <1>2
  <2>5. RaisedStory(s, p, 15000, 25000, 41, 17, report)
    BY <1>4, <2>3, <2>4 DEF RaisedStory
  <2> QED
    BY <1>1, <2>4, <2>5 DEF RaisedTale
<1>5. CASE s = "S6"
  <2>1. p \in S6
    BY <1>5 DEF Plans
  <2>2. PICK new \in Limits \cap {8000, 10000}, report \in Reported(Ago(45), 45) :
          p = Raised(5000, new, 66, 45, report)
    BY <2>1 DEF S6, S6_LOSS_OFFSET, S6_COVERAGE_RAISE_OFFSET
  <2>3. /\ p.limits = [l \in {COLL} |-> 5000] /\ p.deductibles = <<>>
        /\ p.changes = {Move(Ago(66), "coverage", COLL, new, "increase")}
        /\ p.claims = {Claim(Ago(45), report, COLL, Near(new))}
        /\ p.quiet = {Always} /\ p.unclaimed = {Always}
    BY <2>2 DEF Raised, NoPlan
  <2>4. report \in Nat /\ Ago(45) + 1 <= report /\ report <= DAY_ANCHOR
    BY <1>2
  <2>5. RaisedStory(s, p, 5000, new, 66, 45, report)
    BY <1>5, <2>2, <2>3, <2>4 DEF RaisedStory
  <2> QED
    BY <1>1, <2>2, <2>4, <2>5 DEF RaisedTale
<1> QED
  BY <1>3, <1>4, <1>5

\* S2: a deductible is cut, and a claim follows.
CutStory(p, limit, amount, report) ==
  /\ Ago(20) + 1 <= report /\ report <= DAY_ANCHOR
  /\ p.limits = [l \in {COMP} |-> limit] /\ p.deductibles = [l \in {COMP} |-> 1000]
  /\ p.changes = {Move(Ago(52), "deductible", COMP, 250, "decrease")}
  /\ p.claims = {Claim(Ago(20), report, COMP, amount)}
  /\ p.quiet = {Always} /\ p.unclaimed = {Always}

\* S3: an address changes between a loss and its report.
GapStory(p, line, amount) ==
  /\ p.limits = <<>> /\ p.deductibles = <<>>
  /\ p.changes = {Change(Ago(28), "address")}
  /\ p.claims = {Claim(Ago(34), Ago(19), line, amount)}
  /\ p.quiet = {<<Ago(164), DAY_ANCHOR>>} /\ p.unclaimed = {<<Ago(164), DAY_ANCHOR>>}

\* S4: four changes in three weeks, and a claim a month later.
ClusterStory(p, line, amount, report) ==
  /\ 11000 <= amount /\ Ago(31) + 1 <= report /\ report <= DAY_ANCHOR
  /\ p.limits = [l \in DeductibleLines |-> 10000]
  /\ p.deductibles = [l \in DeductibleLines |-> 1000]
  /\ p.changes = {Move(Ago(82), "coverage", COLL, 0, "increase"),
                  Move(Ago(75), "coverage", COMP, 0, "increase"),
                  Move(Ago(68), "deductible", COLL, 0, "decrease"),
                  Move(Ago(60), "deductible", COMP, 0, "decrease")}
  /\ p.claims = {Claim(Ago(31), report, line, amount)}
  /\ p.quiet = {Always} /\ p.unclaimed = {Always}

\* S5: a vehicle and an address.
SpineStory(p) ==
  /\ p.limits = <<>> /\ p.deductibles = <<>>
  /\ p.changes = {Change(Ago(73), "vehicle"), Change(Ago(48), "address")}
  /\ p.claims = {}

\* C1 and C4: a claim that nothing came before.
UnprovokedStory(s, p, claim) ==
  /\ claim.loss \in Nat /\ claim.report \in Nat /\ claim.line \in Lines
  /\ claim.amount \in Nat /\ claim.share \in Nat
  /\ 130 <= claim.loss /\ claim.loss + 1 <= claim.report /\ claim.report <= DAY_ANCHOR
  /\ s = "C4" => 90 <= claim.share
  /\ p.limits = <<>> /\ p.deductibles = <<>> /\ p.changes = {} /\ p.claims = {claim}
  /\ p.quiet = {<<claim.loss - 130, claim.loss>>} /\ p.no_claims = TRUE

\* C2: no claim at all.
UnclaimedStory(p) ==
  /\ p.limits = <<>> /\ p.deductibles = <<>> /\ p.changes = {} /\ p.claims = {}
  /\ p.no_claims = TRUE

\* C3: a claim, and an address after its loss.
LateStory(p, loss, moved, report, amount) ==
  /\ 130 <= loss /\ loss < moved /\ moved <= report /\ report <= DAY_ANCHOR
  /\ p.limits = <<>> /\ p.deductibles = <<>>
  /\ p.changes = {Change(moved, "address")}
  /\ p.claims = {Claim(loss, report, COMP, amount)}
  /\ p.quiet = {<<loss - 130, loss>>} /\ p.no_claims = TRUE

\* C5: four changes in three weeks, and no claim near them.
IdleStory(p, last) ==
  /\ 140 <= last /\ last <= Ago(150)
  /\ p.limits = <<>> /\ p.deductibles = <<>>
  /\ p.changes = {Change(last - 20, "address"), Change(last - 13, "vehicle"),
                  Move(last - 6, "coverage", COMP, 0, "any"),
                  Move(last, "deductible", COMP, 0, "any")}
  /\ p.claims = {} /\ p.unclaimed = {<<last - 50, last + 120>>}

\* The anchor leaves room for every story.
LEMMA Dates ==
         /\ DAY_ANCHOR \in Nat /\ DAY_ANCHOR >= 400
         /\ COLL \in DeductibleLines /\ COMP \in DeductibleLines
         /\ COLL \in Lines /\ COMP \in Lines
<1> USE ScenariosAssumption, HistoryAssumption
<1>1. DAY_ANCHOR \in Nat /\ DAY_ANCHOR >= 400
  BY DEF ScenariosAssumption, HistoryAssumption
<1>2. COLL \in {COLL, COMP} /\ COMP \in {COLL, COMP}
  OBVIOUS
<1>3. COLL \in DeductibleLines /\ COMP \in DeductibleLines
  BY <1>2 DEF ScenariosAssumption
<1> QED
  BY <1>1, <1>3 DEF HistoryAssumption

\* A claim drawn with some days to go to the anchor is reported by then.
LEMMA ReportedByAnchor ==
  ASSUME NEW offset \in 1..400, NEW report \in Reported(Ago(offset), offset)
  PROVE  /\ Ago(offset) \in Nat /\ report \in Nat
         /\ Ago(offset) + 1 <= report /\ report <= DAY_ANCHOR
<1> USE ScenariosAssumption, HistoryAssumption
<1>1. DAY_ANCHOR \in Nat /\ DAY_ANCHOR >= 400
  BY Dates
<1>2. Ago(offset) \in Nat /\ offset \in Nat \ {0} /\ Ago(offset) + offset = DAY_ANCHOR
  BY <1>1 DEF Ago
<1>3. /\ report \in Nat /\ Ago(offset) + 1 <= report
      /\ report <= Ago(offset) + offset
  BY <1>2, ReportedTyped
<1> QED
  BY <1>1, <1>2, <1>3

\* Every plan of the other populations tells its story.
LEMMA StoriesTold ==
  ASSUME NEW s, NEW p \in Plans(s)
  PROVE  /\ s = "S2" => \E limit \in Limits : \E amount \in Nat : \E report \in Nat :
                           CutStory(p, limit, amount, report)
         /\ s = "S3" => \E line \in Lines : \E amount \in Nat : GapStory(p, line, amount)
         /\ s = "S4" => \E line \in Lines : \E amount \in Nat : \E report \in Nat :
                           ClusterStory(p, line, amount, report)
         /\ s = "S5" => SpineStory(p)
         /\ s \in {"C1", "C4"} => \E claim : UnprovokedStory(s, p, claim)
         /\ s = "C2" => UnclaimedStory(p)
         /\ s = "C3" => \E loss \in Nat : \E moved \in Nat : \E report \in Nat :
                           \E amount \in Nat : LateStory(p, loss, moved, report, amount)
         /\ s = "C5" => \E last \in Nat : IdleStory(p, last)
<1> USE ScenariosAssumption, HistoryAssumption
<1>1. DAY_ANCHOR \in Nat /\ DAY_ANCHOR >= 400 /\ COMP \in Lines /\ COLL \in Lines
  BY Dates
<1>2. \A lo, hi : \A a \in Between(lo, hi) : a \in Nat /\ lo <= a
  BY DEF Between, HistoryAssumption
<1>3. ASSUME s = "S2"
      PROVE  \E limit \in Limits : \E amount \in Nat : \E report \in Nat :
               CutStory(p, limit, amount, report)
  <2>1. p \in S2
    BY <1>3 DEF Plans
  <2>2. PICK limit \in Limits, amount \in Between(2800, 9400),
             report \in Reported(Ago(20), 20) : p = Cut(limit, report, amount)
    BY <2>1 DEF S2, S2_LOSS_OFFSET
  <2>3. /\ p.limits = [l \in {COMP} |-> limit] /\ p.deductibles = [l \in {COMP} |-> 1000]
        /\ p.changes = {Move(Ago(52), "deductible", COMP, 250, "decrease")}
        /\ p.claims = {Claim(Ago(20), report, COMP, amount)}
        /\ p.quiet = {Always} /\ p.unclaimed = {Always}
    BY <2>2 DEF Cut, NoPlan, S2_LOSS_OFFSET, S2_DEDUCTIBLE_CUT_OFFSET
  <2>4. amount \in Nat
    BY <1>2
  <2>5. report \in Nat /\ Ago(20) + 1 <= report /\ report <= DAY_ANCHOR
    <3>1. 20 \in 1..400
      OBVIOUS
    <3> QED
      BY <3>1, ReportedByAnchor
  <2>6. CutStory(p, limit, amount, report)
    BY <2>3, <2>5 DEF CutStory
  <2> QED
    BY <2>4, <2>5, <2>6
<1>4. ASSUME s = "S3" PROVE \E line \in Lines : \E amount \in Nat : GapStory(p, line, amount)
  <2>1. p \in S3
    BY <1>4 DEF Plans
  <2>2. PICK line \in Lines, amount \in Between(3200, 24000) : p = MovedInGap(line, amount)
    BY <2>1 DEF S3
  <2>3. /\ p.limits = <<>> /\ p.deductibles = <<>>
        /\ p.changes = {Change(Ago(28), "address")}
        /\ p.claims = {Claim(Ago(34), Ago(19), line, amount)}
        /\ p.quiet = {<<Ago(34) - 130, DAY_ANCHOR>>}
        /\ p.unclaimed = {<<Ago(34) - 130, DAY_ANCHOR>>}
    BY <2>2 DEF MovedInGap, NoPlan, S3_ADDRESS_CHANGE_OFFSET, S3_LOSS_OFFSET, S3_REPORT_OFFSET
  <2>4. Ago(34) - 130 = Ago(164) /\ amount \in Nat
    BY <1>1, <1>2 DEF Ago
  <2>5. GapStory(p, line, amount)
    BY <2>3, <2>4 DEF GapStory
  <2> QED
    BY <2>4, <2>5
<1>5. ASSUME s = "S4"
      PROVE  \E line \in Lines : \E amount \in Nat : \E report \in Nat :
               ClusterStory(p, line, amount, report)
  <2> DEFINE cluster == {LET c == S4_CLUSTER_CHANGES[i]
                         IN Move(Ago(S4_CLUSTER_OFFSETS[i]), c.category, c.line, 0,
                                 c.direction) : i \in DOMAIN S4_CLUSTER_CHANGES}
  <2>1. p \in S4
    BY <1>5 DEF Plans
  <2>2. PICK line \in Lines \ {COMP}, amount \in Between(11000, 46000),
             report \in Reported(Ago(31), 31) : p = Clustered(line, report, amount)
    BY <2>1 DEF S4, S4_LOSS_OFFSET
  <2>3. cluster = {Move(Ago(82), "coverage", COLL, 0, "increase"),
                   Move(Ago(75), "coverage", COMP, 0, "increase"),
                   Move(Ago(68), "deductible", COLL, 0, "decrease"),
                   Move(Ago(60), "deductible", COMP, 0, "decrease")}
    <3>1. DOMAIN S4_CLUSTER_CHANGES = {1, 2, 3, 4}
      BY DEF S4_CLUSTER_CHANGES
    <3>2. /\ S4_CLUSTER_CHANGES[1] = [category |-> "coverage", line |-> COLL, direction |-> "increase"]
          /\ S4_CLUSTER_CHANGES[2] = [category |-> "coverage", line |-> COMP, direction |-> "increase"]
          /\ S4_CLUSTER_CHANGES[3] = [category |-> "deductible", line |-> COLL, direction |-> "decrease"]
          /\ S4_CLUSTER_CHANGES[4] = [category |-> "deductible", line |-> COMP, direction |-> "decrease"]
      BY DEF S4_CLUSTER_CHANGES
    <3>3. /\ S4_CLUSTER_OFFSETS[1] = 82 /\ S4_CLUSTER_OFFSETS[2] = 75
          /\ S4_CLUSTER_OFFSETS[3] = 68 /\ S4_CLUSTER_OFFSETS[4] = 60
      BY DEF S4_CLUSTER_OFFSETS
    <3> QED
      BY <3>1, <3>2, <3>3
  <2>4. /\ p.limits = [l \in DeductibleLines |-> 10000]
        /\ p.deductibles = [l \in DeductibleLines |-> 1000]
        /\ p.changes = cluster
        /\ p.claims = {Claim(Ago(31), report, line, amount)}
        /\ p.quiet = {Always} /\ p.unclaimed = {Always}
    BY <2>2 DEF Clustered, NoPlan, S4_LOSS_OFFSET, S4_INITIAL_LIMIT, S4_INITIAL_DEDUCTIBLE
  <2> HIDE DEF cluster
  <2>5. line \in Lines /\ amount \in Nat /\ 11000 <= amount
    BY <1>2
  <2>6. report \in Nat /\ Ago(31) + 1 <= report /\ report <= DAY_ANCHOR
    BY ReportedByAnchor
  <2>7. ClusterStory(p, line, amount, report)
    BY <2>3, <2>4, <2>5, <2>6 DEF ClusterStory
  <2> QED
    BY <2>5, <2>6, <2>7
<1>6. ASSUME s = "S5" PROVE SpineStory(p)
  <2>1. p = Spine
    BY <1>6 DEF Plans, S5
  <2>2. /\ p.limits = <<>> /\ p.deductibles = <<>>
        /\ p.changes = {Change(Ago(73), "vehicle"), Change(Ago(48), "address")}
        /\ p.claims = {}
    BY <2>1 DEF Spine, NoPlan, S5_VEHICLE_OFFSET, S5_ADDRESS_OFFSET
  <2> QED
    BY <2>2 DEF SpineStory
<1>8. ASSUME s = "C1" PROVE \E claim : UnprovokedStory(s, p, claim)
  <2>1. p \in C1
    BY <1>8 DEF Plans
  <2> DEFINE Drew(offset, report, line, amount) ==
               p = Unprovoked(Claim(Ago(offset), report, line, amount))
  <2>0. PICK offset \in {20, 109} :
          \E report \in Reported(Ago(offset), offset), line \in Lines, amount \in Amounts :
            Drew(offset, report, line, amount)
    BY <2>1 DEF C1, Drawn
  <2>2. PICK report \in Reported(Ago(offset), offset), line \in Lines, amount \in Amounts :
          Drew(offset, report, line, amount)
    BY <2>0
  <2>4. /\ Ago(offset) \in Nat /\ report \in Nat
        /\ Ago(offset) + 1 <= report /\ report <= DAY_ANCHOR
    <3>1. offset \in 1..400
      OBVIOUS
    <3> QED
      BY <3>1, ReportedByAnchor
  <2>5. 130 <= Ago(offset)
    BY <1>1 DEF Ago
  <2>6. amount \in Nat
    BY DEF HistoryAssumption
  <2> DEFINE claim == Claim(Ago(offset), report, line, amount)
  <2>3. /\ claim.loss \in Nat /\ claim.report \in Nat /\ claim.line \in Lines
        /\ claim.amount \in Nat /\ claim.share \in Nat
        /\ claim.loss = Ago(offset) /\ claim.report = report
    BY <2>4, <2>6 DEF Claim
  <2> HIDE DEF claim
  <2>7. p = Unprovoked(claim)
    BY <2>2 DEF claim
  <2>8. /\ p.limits = <<>> /\ p.deductibles = <<>> /\ p.changes = {} /\ p.claims = {claim}
        /\ p.quiet = {<<claim.loss - 130, claim.loss>>} /\ p.no_claims = TRUE
    BY <2>7 DEF Unprovoked, NoPlan, C1_QUIET_WINDOW_DAYS
  <2>9. 130 <= claim.loss /\ claim.loss + 1 <= claim.report /\ claim.report <= DAY_ANCHOR
    BY <2>3, <2>4, <2>5
  <2>10. s # "C4"
    BY <1>8
  <2> HIDE DEF Drew
  <2>11. UnprovokedStory(s, p, claim)
    BY <2>3, <2>8, <2>9, <2>10 DEF UnprovokedStory
  <2> QED
    BY <2>11
<1>9. ASSUME s = "C4" PROVE \E claim : UnprovokedStory(s, p, claim)
  <2>1. p \in C4
    BY <1>9 DEF Plans
  <2> DEFINE Drew(offset, report, line, share) ==
               p = Unprovoked([loss |-> Ago(offset), report |-> report, line |-> line,
                               amount |-> 0, share |-> share])
  <2>0. PICK offset \in {25, 114} :
          \E report \in Reported(Ago(offset), offset), line \in {COLL, COMP}, share \in {90, 125} :
            Drew(offset, report, line, share)
    BY <2>1 DEF C4, Drawn
  <2>2. PICK report \in Reported(Ago(offset), offset), line \in {COLL, COMP}, share \in {90, 125} :
          Drew(offset, report, line, share)
    BY <2>0
  <2>4. /\ Ago(offset) \in Nat /\ report \in Nat
        /\ Ago(offset) + 1 <= report /\ report <= DAY_ANCHOR
    <3>1. offset \in 1..400
      OBVIOUS
    <3> QED
      BY <3>1, ReportedByAnchor
  <2>5. 130 <= Ago(offset)
    BY <1>1 DEF Ago
  <2>6. line \in Lines
    BY <1>1
  <2> DEFINE claim == [loss |-> Ago(offset), report |-> report, line |-> line,
                       amount |-> 0, share |-> share]
  <2>3. /\ claim.loss \in Nat /\ claim.report \in Nat /\ claim.line \in Lines
        /\ claim.amount \in Nat /\ claim.share \in Nat
        /\ claim.loss = Ago(offset) /\ claim.report = report /\ 90 <= claim.share
    BY <2>4, <2>6
  <2> HIDE DEF claim
  <2>7. p = Unprovoked(claim)
    BY <2>2 DEF claim
  <2>8. /\ p.limits = <<>> /\ p.deductibles = <<>> /\ p.changes = {} /\ p.claims = {claim}
        /\ p.quiet = {<<claim.loss - 130, claim.loss>>} /\ p.no_claims = TRUE
    BY <2>7 DEF Unprovoked, NoPlan, C1_QUIET_WINDOW_DAYS
  <2>9. 130 <= claim.loss /\ claim.loss + 1 <= claim.report /\ claim.report <= DAY_ANCHOR
    BY <2>3, <2>4, <2>5
  <2>10. UnprovokedStory(s, p, claim)
    BY <1>9, <2>3, <2>8, <2>9 DEF UnprovokedStory
  <2> QED
    BY <2>10
<1>10. ASSUME s = "C2" PROVE UnclaimedStory(p)
  <2>1. p = Unclaimed
    BY <1>10 DEF Plans, C2
  <2>2. /\ p.limits = <<>> /\ p.deductibles = <<>> /\ p.changes = {} /\ p.claims = {}
        /\ p.no_claims = TRUE
    BY <2>1 DEF Unclaimed, NoPlan
  <2> QED
    BY <2>2 DEF UnclaimedStory
<1>11. ASSUME s = "C3"
       PROVE  \E loss \in Nat : \E moved \in Nat : \E report \in Nat : \E amount \in Nat :
                LateStory(p, loss, moved, report, amount)
  <2>1. p \in C3
    BY <1>11 DEF Plans
  <2>2. PICK offset \in {40, 94}, lag \in {12, 24}, amount \in Between(140, 2499) :
          p = MovedAfter(Ago(offset), Least(Ago(offset) + lag, DAY_ANCHOR), amount)
    BY <2>1 DEF C3, Drawn
  <2> DEFINE loss   == Ago(offset)
             report == Least(loss + lag, DAY_ANCHOR)
             moved  == loss + Most(1, (report - loss) \div 2)
  <2>3. p = MovedAfter(loss, report, amount)
    BY <2>2
  <2>4. loss \in Nat /\ 130 <= loss /\ loss + 24 <= DAY_ANCHOR /\ amount \in Nat
    BY <1>1, <1>2 DEF Ago
  <2> HIDE DEF loss
  <2>5. report = loss + lag /\ report \in Nat /\ report <= DAY_ANCHOR
    BY <1>1, <2>4 DEF Least
  <2> HIDE DEF report
  <2>6. /\ p.limits = <<>> /\ p.deductibles = <<>>
        /\ p.changes = {Change(moved, "address")}
        /\ p.claims = {Claim(loss, report, COMP, amount)}
        /\ p.quiet = {<<loss - 130, loss>>} /\ p.no_claims = TRUE
    BY <2>3 DEF MovedAfter, NoPlan
  <2>7. moved \in Nat /\ loss < moved /\ moved <= report
    <3>1. report - loss = lag
      BY <2>4, <2>5
    <3>2. CASE lag = 12
      <4>1. moved = loss + 6
        BY <3>1, <3>2 DEF Most
      <4> QED
        BY <2>4, <2>5, <3>2, <4>1
    <3>3. CASE lag = 24
      <4>1. moved = loss + 12
        BY <3>1, <3>3 DEF Most
      <4> QED
        BY <2>4, <2>5, <3>3, <4>1
    <3> QED
      BY <3>2, <3>3
  <2> HIDE DEF moved
  <2>8. LateStory(p, loss, moved, report, amount)
    BY <2>4, <2>5, <2>6, <2>7 DEF LateStory
  <2> QED
    BY <2>4, <2>5, <2>7, <2>8
<1>12. ASSUME s = "C5" PROVE \E last \in Nat : IdleStory(p, last)
  <2>1. p \in C5
    BY <1>12 DEF Plans
  <2>2. PICK offset \in {150, 259} : p = Idle(Ago(offset))
    BY <2>1 DEF C5, Drawn
  <2> DEFINE last == Ago(offset)
  <2>3. last \in Nat /\ 140 <= last /\ last <= Ago(150)
    BY <1>1 DEF Ago
  <2>4. p = Idle(last)
    BY <2>2
  <2> HIDE DEF last
  <2> DEFINE days == <<last - 20, last - 13, last - 6, last>>
  <2>5. p = [NoPlan EXCEPT !.changes = {Change(days[1], "address"), Change(days[2], "vehicle"),
                                        Move(days[3], "coverage", COMP, 0, "any"),
                                        Move(days[4], "deductible", COMP, 0, "any")},
                           !.quiet = {<<days[1] - 120, last + 120>>},
                           !.unclaimed = {<<days[1] - 30, last + 120>>}]
    <3>1. 20 \div 3 = 6 /\ (2 * 20) \div 3 = 13
      OBVIOUS
    <3> QED
      BY <2>4, <3>1 DEF Idle, C5_CLUSTER_SPAN_DAYS
  <2>6. /\ p.limits = <<>> /\ p.deductibles = <<>>
        /\ p.changes = {Change(days[1], "address"), Change(days[2], "vehicle"),
                        Move(days[3], "coverage", COMP, 0, "any"),
                        Move(days[4], "deductible", COMP, 0, "any")}
        /\ p.claims = {} /\ p.unclaimed = {<<days[1] - 30, last + 120>>}
    BY <2>5 DEF NoPlan
  <2>7. /\ days[1] = last - 20 /\ days[2] = last - 13 /\ days[3] = last - 6 /\ days[4] = last
        /\ (last - 20) - 30 = last - 50
    BY <2>3
  <2> HIDE DEF days
  <2>8. IdleStory(p, last)
    BY <2>3, <2>6, <2>7 DEF IdleStory
  <2> QED
    BY <2>3, <2>8
<1> QED
  BY <1>3, <1>4, <1>5, <1>6, <1>8, <1>9, <1>10, <1>11, <1>12

-----------------------------------------------------------------------------
(* What every plan has in common. *)

\* A planned change that declares a direction can go that way: it is the only one
\* of its category on its line, no ordinary change is laid on the policy, and the
\* value it starts from is planted on the right side of one it may go to.
Directed(p, c) ==
  /\ p.quiet = {Always}
  /\ \A d \in p.changes : d.category = c.category /\ d.line = c.line => d = c
  /\ \/ /\ c.category = "coverage" /\ c.direction = "increase"
        /\ c.line \in Lines /\ c.line \in DOMAIN p.limits
        /\ \E new \in Limits : p.limits[c.line] < new /\ (c.forced # 0 => c.forced = new)
     \/ /\ c.category = "deductible" /\ c.direction = "decrease"
        /\ c.line \in DeductibleLines /\ c.line \in DOMAIN p.deductibles
        /\ \E new \in Deductibles : new < p.deductibles[c.line] /\ (c.forced # 0 => c.forced = new)

ChangeFits(p, c) ==
  /\ c.day \in Nat /\ 1 <= c.day /\ c.day <= DAY_ANCHOR
  /\ c.category \in {"address", "vehicle", "coverage", "deductible"}
  /\ c.direction # "any" => Directed(p, c)

ClaimFits(c) ==
  /\ c.line \in Lines /\ c.loss \in Nat /\ c.loss < DAY_ANCHOR
  /\ c.report \in Nat /\ c.loss + 1 <= c.report /\ c.amount \in Nat /\ c.share \in Nat

ClaimsFit(p) == p.claims = {} \/ \E c : p.claims = {c} /\ ClaimFits(c)

PlanFits(p) ==
  /\ \A l \in DOMAIN p.limits : p.limits[l] \in Limits
  /\ \A l \in DOMAIN p.deductibles : l \in DeductibleLines /\ p.deductibles[l] \in Deductibles
  /\ \A c \in p.changes : ChangeFits(p, c)
  /\ ClaimsFit(p)

\* A raised limit is a change that can be made as declared, and its claim fits.
LEMMA RaisedFits ==
  ASSUME NEW s \in {"demo", "S1", "S6"}, NEW p \in Plans(s)
  PROVE  PlanFits(p)
<1> USE ScenariosAssumption, HistoryAssumption
<1>0. PICK old \in Limits, new \in Limits :
        \E raise \in Nat : \E loss \in Nat : \E report \in Nat :
          RaisedStory(s, p, old, new, raise, loss, report)
  <2>1. RaisedTale(s, p)
    BY RaisedTold
  <2> QED
    BY ONLY <2>1 DEF RaisedTale
<1>1. PICK raise \in Nat, loss \in Nat, report \in Nat :
        RaisedStory(s, p, old, new, raise, loss, report)
  BY <1>0
<1>2. /\ DAY_ANCHOR \in Nat /\ DAY_ANCHOR >= 400 /\ COLL \in Lines
      /\ old \in Nat /\ new \in Nat
  BY Dates DEF HistoryAssumption
<1>3. /\ old < new /\ loss < raise /\ raise <= 66 /\ 17 <= loss
      /\ Ago(loss) + 1 <= report /\ report <= DAY_ANCHOR
      /\ p.limits = [l \in {COLL} |-> old] /\ p.deductibles = <<>>
      /\ p.changes = {Move(Ago(raise), "coverage", COLL, new, "increase")}
                       \cup (IF s = "demo" THEN DemoSpine ELSE {})
      /\ p.claims = {Claim(Ago(loss), report, COLL, Near(new))}
      /\ p.quiet = {Always}
  BY <1>1 DEF RaisedStory
<1>4. \A c \in p.changes : ChangeFits(p, c)
  <2>1. ASSUME NEW c \in p.changes PROVE ChangeFits(p, c)
    <3>1. /\ Ago(raise) \in Nat /\ 1 <= Ago(raise) /\ Ago(raise) <= DAY_ANCHOR
          /\ Ago(55) \in Nat /\ 1 <= Ago(55) /\ Ago(55) <= DAY_ANCHOR
          /\ Ago(30) \in Nat /\ 1 <= Ago(30) /\ Ago(30) <= DAY_ANCHOR
      BY <1>2, <1>3 DEF Ago
    <3>2. \/ c = Move(Ago(raise), "coverage", COLL, new, "increase")
          \/ c = Change(Ago(55), "address") \/ c = Change(Ago(30), "vehicle")
      BY <1>3 DEF DemoSpine, S1_EXEMPLAR_ADDRESS_OFFSET, S1_EXEMPLAR_VEHICLE_OFFSET
    <3>3. CASE c = Move(Ago(raise), "coverage", COLL, new, "increase")
      <4>1. \A d \in p.changes : d.category = c.category => d = c
        BY <1>3, <3>3 DEF DemoSpine, Move, Change
      <4>2. /\ c.category = "coverage" /\ c.direction = "increase" /\ c.line = COLL
            /\ c.forced = new /\ c.day = Ago(raise)
        BY <3>3 DEF Move
      <4>3. COLL \in DOMAIN p.limits /\ p.limits[COLL] = old
        BY <1>3
      <4>4. Directed(p, c)
        BY <1>2, <1>3, <4>1, <4>2, <4>3 DEF Directed
      <4> QED
        BY <3>1, <4>2, <4>4 DEF ChangeFits
    <3>4. CASE c = Change(Ago(55), "address") \/ c = Change(Ago(30), "vehicle")
      BY <3>1, <3>4 DEF ChangeFits, Change
    <3> QED
      BY <3>2, <3>3, <3>4
  <2> QED
    BY <2>1
<1>5. ClaimFits(Claim(Ago(loss), report, COLL, Near(new)))
  <2>1. Near(new) \in Nat
    BY <1>2 DEF Near, LIMIT_UTILISATION
  <2>2. Ago(loss) \in Nat /\ Ago(loss) < DAY_ANCHOR
    BY ONLY <1>2, <1>3, loss \in Nat, raise \in Nat DEF Ago
  <2> HIDE DEF Near
  <2> QED
    BY <1>2, <1>3, <2>1, <2>2 DEF ClaimFits, Claim
<1>6. \A l \in DOMAIN p.limits : p.limits[l] \in Limits
  BY <1>3
<1> QED
  BY <1>3, <1>4, <1>5, <1>6 DEF PlanFits, ClaimsFit

\* A cut deductible is a change that can be made as declared, and its claim fits.
LEMMA CutFits ==
  ASSUME NEW p, NEW limit \in Limits, NEW amount \in Nat, NEW report \in Nat,
         CutStory(p, limit, amount, report)
  PROVE  PlanFits(p)
<1> USE ScenariosAssumption, HistoryAssumption
<1>1. /\ Ago(20) + 1 <= report
      /\ p.limits = [l \in {COMP} |-> limit] /\ p.deductibles = [l \in {COMP} |-> 1000]
      /\ p.changes = {Move(Ago(52), "deductible", COMP, 250, "decrease")}
      /\ p.claims = {Claim(Ago(20), report, COMP, amount)} /\ p.quiet = {Always}
  BY DEF CutStory
<1>2. /\ DAY_ANCHOR \in Nat /\ DAY_ANCHOR >= 400 /\ COMP \in Lines /\ COMP \in DeductibleLines
      /\ 250 \in Deductibles /\ 1000 \in Deductibles
  BY Dates DEF ScenariosAssumption
<1>3. /\ Ago(52) \in Nat /\ 1 <= Ago(52) /\ Ago(52) <= DAY_ANCHOR
      /\ Ago(20) \in Nat /\ Ago(20) < DAY_ANCHOR
  BY <1>2 DEF Ago
<1>4. ASSUME NEW c \in p.changes PROVE ChangeFits(p, c)
  <2>1. c = Move(Ago(52), "deductible", COMP, 250, "decrease") /\ \A d \in p.changes : d = c
    BY <1>1
  <2>2. /\ c.category = "deductible" /\ c.direction = "decrease" /\ c.line = COMP
        /\ c.forced = 250 /\ c.day = Ago(52)
    BY <2>1 DEF Move
  <2>3. COMP \in DOMAIN p.deductibles /\ p.deductibles[COMP] = 1000 /\ 250 < 1000
    BY <1>1
  <2>4. Directed(p, c)
    BY <1>1, <1>2, <2>1, <2>2, <2>3 DEF Directed
  <2> QED
    BY <1>3, <2>2, <2>4 DEF ChangeFits
<1>5. ClaimFits(Claim(Ago(20), report, COMP, amount))
  BY <1>1, <1>2, <1>3 DEF ClaimFits, Claim
<1>6. /\ \A l \in DOMAIN p.limits : p.limits[l] \in Limits
      /\ \A l \in DOMAIN p.deductibles : l \in DeductibleLines /\ p.deductibles[l] \in Deductibles
  BY <1>1, <1>2
<1> QED
  BY <1>1, <1>4, <1>5, <1>6 DEF PlanFits, ClaimsFit

\* The four moves of a cluster can be made as declared, and the claim fits.
LEMMA ClusterFits ==
  ASSUME NEW p, NEW line \in Lines, NEW amount \in Nat, NEW report \in Nat,
         ClusterStory(p, line, amount, report)
  PROVE  PlanFits(p)
<1> USE ScenariosAssumption, HistoryAssumption
<1>1. /\ Ago(31) + 1 <= report
      /\ p.limits = [l \in DeductibleLines |-> 10000]
      /\ p.deductibles = [l \in DeductibleLines |-> 1000]
      /\ p.changes = {Move(Ago(82), "coverage", COLL, 0, "increase"),
                      Move(Ago(75), "coverage", COMP, 0, "increase"),
                      Move(Ago(68), "deductible", COLL, 0, "decrease"),
                      Move(Ago(60), "deductible", COMP, 0, "decrease")}
      /\ p.claims = {Claim(Ago(31), report, line, amount)} /\ p.quiet = {Always}
  BY DEF ClusterStory
<1>2. /\ DAY_ANCHOR \in Nat /\ DAY_ANCHOR >= 400
      /\ COLL \in DeductibleLines /\ COMP \in DeductibleLines /\ COLL # COMP
      /\ COLL \in Lines /\ COMP \in Lines
      /\ 250 \in Deductibles /\ 1000 \in Deductibles /\ 10000 \in Limits /\ 15000 \in Limits
  BY Dates DEF ScenariosAssumption
<1>3. /\ Ago(31) \in Nat /\ Ago(31) < DAY_ANCHOR
      /\ \A offset \in {82, 75, 68, 60} :
           Ago(offset) \in Nat /\ 1 <= Ago(offset) /\ Ago(offset) <= DAY_ANCHOR
  BY <1>2 DEF Ago
<1>4. ASSUME NEW c \in p.changes PROVE ChangeFits(p, c)
  <2>1. \A d \in p.changes : d.category = c.category /\ d.line = c.line => d = c
    BY <1>1, <1>2 DEF Move
  <2>2. /\ c.direction \in {"increase", "decrease"} /\ c.forced = 0
        /\ c.line \in {COLL, COMP}
        /\ \/ c.category = "coverage" /\ c.direction = "increase"
           \/ c.category = "deductible" /\ c.direction = "decrease"
    BY <1>1 DEF Move
  <2>3. c.day \in {Ago(82), Ago(75), Ago(68), Ago(60)}
    BY <1>1 DEF Move
  <2>4. c.day \in Nat /\ 1 <= c.day /\ c.day <= DAY_ANCHOR
    BY <1>3, <2>3
  <2>5. /\ c.line \in DOMAIN p.limits /\ p.limits[c.line] = 10000 /\ 10000 < 15000
        /\ c.line \in DOMAIN p.deductibles /\ p.deductibles[c.line] = 1000 /\ 250 < 1000
        /\ c.line \in Lines /\ c.line \in DeductibleLines
    BY <1>1, <1>2, <2>2
  <2>6. Directed(p, c)
    BY <1>1, <1>2, <2>1, <2>2, <2>5 DEF Directed
  <2> QED
    BY <2>2, <2>4, <2>6 DEF ChangeFits
<1>5. ClaimFits(Claim(Ago(31), report, line, amount))
  BY <1>1, <1>2, <1>3 DEF ClaimFits, Claim
<1>6. /\ \A l \in DOMAIN p.limits : p.limits[l] \in Limits
      /\ \A l \in DOMAIN p.deductibles : l \in DeductibleLines /\ p.deductibles[l] \in Deductibles
  BY <1>1, <1>2
<1> QED
  BY <1>1, <1>4, <1>5, <1>6 DEF PlanFits, ClaimsFit

\* The other stories declare no direction and plant no limit.
Undirected(p) ==
  /\ p.limits = <<>> /\ p.deductibles = <<>>
  /\ \A c \in p.changes : /\ c.day \in Nat /\ 1 <= c.day /\ c.day <= DAY_ANCHOR
                          /\ c.category \in {"address", "vehicle", "coverage", "deductible"}
                          /\ c.direction = "any"

\* A plan that declares no direction fits whatever the policy starts from.
LEMMA UndirectedFits ==
  ASSUME NEW p, Undirected(p), ClaimsFit(p)
  PROVE  PlanFits(p)
<1>1. DOMAIN p.limits = {} /\ DOMAIN p.deductibles = {}
  BY DEF Undirected
<1>2. \A c \in p.changes : ChangeFits(p, c)
  BY DEF ChangeFits, Undirected
<1> QED
  BY <1>1, <1>2 DEF PlanFits

\* Each plan of each population is one that Builder.run can carry out.
LEMMA StoriesFit ==
  ASSUME NEW s \in Scenario, NEW p \in Plans(s)
  PROVE  PlanFits(p)
<1> USE ScenariosAssumption, HistoryAssumption
<1>1. DAY_ANCHOR \in Nat /\ DAY_ANCHOR >= 400 /\ COMP \in Lines
  BY Dates
<1>2. CASE s \in {"demo", "S1", "S6"}
  BY <1>2, RaisedFits
<1>3. CASE s = "S2"
  <2>1. PICK limit \in Limits, amount \in Nat, report \in Nat : CutStory(p, limit, amount, report)
    BY <1>3, StoriesTold
  <2> QED
    BY <2>1, CutFits
<1>4. CASE s = "S4"
  <2>1. PICK line \in Lines, amount \in Nat, report \in Nat : ClusterStory(p, line, amount, report)
    BY <1>4, StoriesTold
  <2> QED
    BY <2>1, ClusterFits
<1>5. CASE s = "S3"
  <2>1. PICK line \in Lines, amount \in Nat : GapStory(p, line, amount)
    BY <1>5, StoriesTold
  <2>2. /\ p.limits = <<>> /\ p.deductibles = <<>>
        /\ p.changes = {Change(Ago(28), "address")}
        /\ p.claims = {Claim(Ago(34), Ago(19), line, amount)}
    BY <2>1 DEF GapStory
  <2>3. Undirected(p)
    BY <1>1, <2>2 DEF Undirected, Change, Ago
  <2>4. ClaimFits(Claim(Ago(34), Ago(19), line, amount))
    BY <1>1 DEF ClaimFits, Claim, Ago
  <2> QED
    BY <2>2, <2>3, <2>4, UndirectedFits DEF ClaimsFit
<1>6. CASE s = "S5"
  <2>1. SpineStory(p)
    BY <1>6, StoriesTold
  <2>2. /\ p.limits = <<>> /\ p.deductibles = <<>>
        /\ p.changes = {Change(Ago(73), "vehicle"), Change(Ago(48), "address")}
        /\ p.claims = {}
    BY <2>1 DEF SpineStory
  <2>3. Undirected(p)
    BY <1>1, <2>2 DEF Undirected, Change, Ago
  <2> QED
    BY <2>2, <2>3, UndirectedFits DEF ClaimsFit
<1>7. CASE s \in {"C1", "C4"}
  <2>1. PICK claim : UnprovokedStory(s, p, claim)
    BY <1>7, StoriesTold
  <2>2. p.limits = <<>> /\ p.deductibles = <<>> /\ p.changes = {} /\ p.claims = {claim}
    BY <2>1 DEF UnprovokedStory
  <2>3. ClaimFits(claim)
    BY <1>1, <2>1 DEF UnprovokedStory, ClaimFits
  <2>4. Undirected(p)
    BY <2>2 DEF Undirected
  <2> QED
    BY <2>2, <2>3, <2>4, UndirectedFits DEF ClaimsFit
<1>8. CASE s = "C2"
  <2>1. UnclaimedStory(p)
    BY <1>8, StoriesTold
  <2>2. p.limits = <<>> /\ p.deductibles = <<>> /\ p.changes = {} /\ p.claims = {}
    BY <2>1 DEF UnclaimedStory
  <2>3. Undirected(p)
    BY <2>2 DEF Undirected
  <2> QED
    BY <2>2, <2>3, UndirectedFits DEF ClaimsFit
<1>9. CASE s = "C3"
  <2>1. PICK loss \in Nat, moved \in Nat, report \in Nat, amount \in Nat :
          LateStory(p, loss, moved, report, amount)
    <3>1. \E loss \in Nat : \E moved \in Nat : \E report \in Nat : \E amount \in Nat :
            LateStory(p, loss, moved, report, amount)
      BY ONLY <1>9, p \in Plans(s), StoriesTold, SMTT(30)
    <3> QED
      BY ONLY <3>1
  <2>2. /\ loss < moved /\ moved <= report /\ report <= DAY_ANCHOR
        /\ p.limits = <<>> /\ p.deductibles = <<>>
        /\ p.changes = {Change(moved, "address")}
        /\ p.claims = {Claim(loss, report, COMP, amount)}
    BY <2>1 DEF LateStory
  <2>3. Undirected(p)
    BY <1>1, <2>2 DEF Undirected, Change
  <2>4. ClaimFits(Claim(loss, report, COMP, amount))
    BY <1>1, <2>2 DEF ClaimFits, Claim
  <2> QED
    BY <2>2, <2>3, <2>4, UndirectedFits DEF ClaimsFit
<1>10. CASE s = "C5"
  <2>1. PICK last \in Nat : IdleStory(p, last)
    BY <1>10, StoriesTold
  <2>2. /\ 140 <= last /\ last <= Ago(150)
        /\ p.limits = <<>> /\ p.deductibles = <<>>
        /\ p.changes = {Change(last - 20, "address"), Change(last - 13, "vehicle"),
                        Move(last - 6, "coverage", COMP, 0, "any"),
                        Move(last, "deductible", COMP, 0, "any")}
        /\ p.claims = {}
    BY <2>1 DEF IdleStory
  <2>3. last <= DAY_ANCHOR
    BY <1>1, <2>2 DEF Ago
  <2>4. Undirected(p)
    BY <1>1, <2>2, <2>3 DEF Undirected, Change, Move
  <2> QED
    BY <2>2, <2>4, UndirectedFits DEF ClaimsFit
<1> QED
  BY <1>2, <1>3, <1>4, <1>5, <1>6, <1>7, <1>8, <1>9, <1>10 DEF Scenario

-----------------------------------------------------------------------------
(* The stages of a run keep the tables, and carry the plan out. *)

\* How far the run has come, and with which plan.
Begun ==
  /\ population = "ordinary" /\ end_day = DAY_ANCHOR /\ scenario \in Scenario
  /\ stage \in {"assigned", "planted", "evolving", "built"}
  /\ stage = "built" <=> phase = "built"
  /\ stage \in {"assigned", "planted"} => Inception(Limits, Deductibles)
  /\ IF stage = "assigned" THEN plan = NoPlan /\ ordinary = {} ELSE plan \in Plans(scenario)

\* Ordinary changes keep clear of the quiet windows.
Clear ==
  \A c \in ordinary : /\ c.day \in Nat /\ 1 <= c.day /\ c.day <= DAY_ANCHOR
                      /\ c.direction = "any" /\ ~Blocked(plan.quiet, c.day)

\* A row of changes is what a planned change, laid or planted, became.
Answers(row, c) ==
  /\ row.day = c.day /\ row.category = c.category /\ row.line = c.line
  /\ c.direction # "any" => row.direction = c.direction

Happened == \A c \in Planned : c.day <= Current.from => \E row \in changes : Answers(row, c)
AsPlanned == \A row \in changes : \E c \in Planned : Answers(row, c)

\* A line stands where it was planted until its declared change, and where that
\* forced it to from then on.
Laddered ==
  \A c \in plan.changes : c.direction # "any" =>
    /\ c.category = "coverage" =>
         IF c.day > Current.from THEN LimitOf(c.line) = plan.limits[c.line]
         ELSE c.forced # 0 => LimitOf(c.line) = c.forced
    /\ c.category = "deductible" /\ c.day > Current.from =>
         DeductibleOf(c.line) = plan.deductibles[c.line]

\* The latest version of a line is as old as the policy or as a change of the line.
LinesDated ==
  \A l \in Lines : \/ Latest(coverage[l]).from = 0
                   \/ \E c \in Planned : c.line = l /\ c.day = Latest(coverage[l]).from

\* The claims that were planted, and ordinary ones on days that were kept open.
FromPlan(k) == \E c \in plan.claims : claims[k] = Row(c)
FromRest(k) ==
  /\ ~plan.no_claims /\ ~Blocked(plan.unclaimed, claims[k].loss)
  /\ claims[k].report <= claims[k].loss + REPORT_LAG_CAP_DAYS
ClaimsLaid ==
  /\ \A c \in plan.claims : \E k \in DOMAIN claims : claims[k] = Row(c)
  /\ \A k \in DOMAIN claims : FromPlan(k) \/ FromRest(k)
  /\ \A j, k \in DOMAIN claims : claims[j].loss = claims[k].loss => j = k
Done ==
  stage = "built" => /\ \A c \in Planned : c.day <= Current.from
                     /\ ClaimsLaid

ScenarioInv ==
  /\ GoldInv /\ Begun /\ Clear /\ Happened /\ AsPlanned
  /\ Laddered /\ LinesDated /\ Done

\* What the invariant of the gold tables gives of a policy.
LEMMA GoldParts ==
  ASSUME GoldInv
  PROVE  /\ RoundTripInv /\ DatasetTypeOK /\ ChangesRoundTrip /\ LinesStarted
         /\ DatesInv /\ TermInv /\ BooksInv /\ StartInv /\ PolicyInv
BY DEF GoldInv, PolicyInv, HistoryInv, RoundTripInv

\* The plan that was planted, or none yet, fits.
LEMMA PlanNowFits ==
  ASSUME Begun
  PROVE  PlanFits(plan)
<1> USE ScenariosAssumption, HistoryAssumption
<1>1. CASE stage = "assigned"
  <2>1. plan = NoPlan
    BY <1>1 DEF Begun
  <2>2. Undirected(plan) /\ ClaimsFit(plan)
    BY <2>1 DEF NoPlan, Undirected, ClaimsFit
  <2> QED
    BY <2>2, UndirectedFits
<1>2. CASE stage # "assigned"
  <2>1. plan \in Plans(scenario) /\ scenario \in Scenario
    BY <1>2 DEF Begun
  <2> QED
    BY <2>1, StoriesFit
<1> QED
  BY <1>1, <1>2

\* With a policy kept quiet throughout, only the planted changes are made.
LEMMA QuietAlways ==
  ASSUME Clear, plan.quiet = {Always}
  PROVE  ordinary = {}
<1> USE ScenariosAssumption, HistoryAssumption
<1>1. ASSUME NEW c \in ordinary PROVE FALSE
  <2>1. c.day \in Nat /\ c.day <= DAY_ANCHOR /\ ~Blocked(plan.quiet, c.day)
    BY DEF Clear
  <2>2. Blocked({Always}, c.day)
    BY <2>1 DEF Blocked, Always
  <2> QED
    BY <2>1, <2>2
<1> QED
  BY <1>1

\* A declared direction is that of a planted change, and of no other on its line.
LEMMA OnlyMover ==
  ASSUME Begun, Clear, NEW c \in plan.changes, c.direction # "any"
  PROVE  /\ Directed(plan, c) /\ Planned = plan.changes
         /\ \A d \in Planned : d.category = c.category /\ d.line = c.line => d = c
<1> USE ScenariosAssumption, HistoryAssumption
<1>1. Directed(plan, c)
  BY PlanNowFits DEF PlanFits, ChangeFits
<1>2. ordinary = {}
  BY <1>1, QuietAlways DEF Directed
<1> QED
  BY <1>1, <1>2 DEF Planned, Directed

\* A declared direction is up for a limit and down for a deductible, on a planted line.
LEMMA DirectedLine ==
  ASSUME NEW p, NEW c, Directed(p, c), DeductibleLines \subseteq Lines
  PROVE  \/ /\ c.category = "coverage" /\ c.category # "deductible"
            /\ c.direction = "increase"
            /\ c.line \in Lines /\ c.line \in DOMAIN p.limits
         \/ /\ c.category = "deductible" /\ c.category # "coverage"
            /\ c.direction = "decrease"
            /\ c.line \in Lines /\ c.line \in DOMAIN p.deductibles
BY DEF Directed

\* All that is planned is due between the first day and the anchor, and only the story
\* declares directions.
LEMMA PlannedDays ==
  ASSUME Begun, Clear, NEW c \in Planned
  PROVE  /\ c.day \in Nat /\ 1 <= c.day /\ c.day <= DAY_ANCHOR
         /\ c.direction # "any" => c \in plan.changes
<1> USE ScenariosAssumption, HistoryAssumption
<1>1. CASE c \in plan.changes
  BY <1>1, PlanNowFits DEF PlanFits, ChangeFits
<1>2. CASE c \in ordinary
  BY <1>2 DEF Clear
<1> QED
  BY <1>1, <1>2 DEF Planned
-----------------------------------------------------------------------------
(* Planting and laying out. *)

\* The values planted are rungs, and so the policy is still one on its first day.
LEMMA PlantStarts ==
  ASSUME ScenarioInv, NEW p, PlanFits(p), Plant(p)
  PROVE  /\ Inception(Limits, Deductibles)'
         /\ \A l \in Lines : /\ Latest(coverage'[l]).from = 0
                             /\ l \in DOMAIN p.limits => Latest(coverage'[l]).limit = p.limits[l]
                             /\ l \in DOMAIN p.deductibles =>
                                  Latest(coverage'[l]).deductible = p.deductibles[l]
<1> USE ScenariosAssumption, HistoryAssumption
<1>1. Inception(Limits, Deductibles)
  BY DEF ScenarioInv, Begun, Plant
<1>2. PICK limit \in [Lines -> Limits], deductible \in [DeductibleLines -> Deductibles] :
        coverage = [l \in Lines |->
          <<[from |-> 0, limit |-> limit[l],
             deductible |-> IF l \in DeductibleLines THEN deductible[l] ELSE NoDeductible]>>]
  BY ONLY <1>1 DEF Inception
<1>3. \A l \in Lines :
        /\ LimitOf(l) = limit[l]
        /\ DeductibleOf(l) = IF l \in DeductibleLines THEN deductible[l] ELSE NoDeductible
  BY <1>2 DEF LimitOf, DeductibleOf, Latest
<1> DEFINE limits == [l \in Lines |-> IF l \in DOMAIN p.limits THEN p.limits[l] ELSE limit[l]]
           deductibles == [l \in DeductibleLines |->
             IF l \in DOMAIN p.deductibles THEN p.deductibles[l] ELSE deductible[l]]
           Start(l) == [from |-> 0,
                        limit |-> IF l \in DOMAIN p.limits THEN p.limits[l] ELSE LimitOf(l),
                        deductible |-> IF l \in DOMAIN p.deductibles THEN p.deductibles[l]
                                       ELSE DeductibleOf(l)]
<1>4. limits \in [Lines -> Limits] /\ deductibles \in [DeductibleLines -> Deductibles]
  BY DEF PlanFits
<1>5. ASSUME NEW l \in Lines
      PROVE  Start(l) = [from |-> 0, limit |-> limits[l],
                         deductible |-> IF l \in DeductibleLines THEN deductibles[l]
                                        ELSE NoDeductible]
  <2>1. l \in DOMAIN p.deductibles => l \in DeductibleLines
    BY DEF PlanFits
  <2> QED
    BY <1>3, <2>1
<1>6. coverage' = [l \in Lines |-> <<Start(l)>>]
  BY DEF Plant
<1>7. coverage' = [l \in Lines |->
        <<[from |-> 0, limit |-> limits[l],
           deductible |-> IF l \in DeductibleLines THEN deductibles[l] ELSE NoDeductible]>>]
  BY <1>5, <1>6
<1>8. UNCHANGED <<phase, population, end_day, terminal_status, reinstate_pending, changes,
                  history, vehicles, claims>>
  BY DEF Plant, planVars
<1>9. Inception(Limits, Deductibles)'
  <2> HIDE DEF limits, deductibles, Start
  <2>2. PICK location \in Locations, agent \in Agents :
          history' = <<[from |-> 0, status |-> "active", agent |-> agent,
                        location |-> location, vehicle |-> 1, term_start |-> 0,
                        premium |-> 0]>>
    BY <1>1, <1>8 DEF Inception
  <2>3. /\ phase' = "evolving" /\ population' \in Populations
        /\ IF population' = "terminating"
           THEN end_day' \in 2..(DAY_ANCHOR - 1) /\ terminal_status' \in Terminal
           ELSE end_day' = DAY_ANCHOR /\ terminal_status' = "none"
        /\ reinstate_pending' = FALSE /\ changes' = {}
        /\ vehicles' = <<[added |-> 0, removed |-> FAR_FUTURE]>> /\ claims' = <<>>
    BY <1>1, <1>8 DEF Inception
  <2> QED
    BY ONLY <1>4, <1>7, <2>2, <2>3, SMTT(30) DEF Inception
<1>10. ASSUME NEW l \in Lines
       PROVE  /\ Latest(coverage'[l]).from = 0
              /\ l \in DOMAIN p.limits => Latest(coverage'[l]).limit = p.limits[l]
              /\ l \in DOMAIN p.deductibles => Latest(coverage'[l]).deductible = p.deductibles[l]
  <2>1. Latest(coverage'[l]) = Start(l)
    BY <1>6 DEF Latest
  <2> QED
    BY <2>1
<1> QED
  BY <1>9, <1>10

\* At inception a policy has one version, of day zero, and no change.
LEMMA FirstDay ==
  ASSUME Inception(Limits, Deductibles)
  PROVE  Current.from = 0 /\ changes = {} /\ phase = "evolving"
<1>1. PICK location \in Locations, agent \in Agents :
        history = <<[from |-> 0, status |-> "active", agent |-> agent,
                     location |-> location, vehicle |-> 1, term_start |-> 0, premium |-> 0]>>
  BY DEF Inception
<1>2. Current = history[1]
  BY <1>1 DEF Current, Latest
<1> QED
  BY <1>1, <1>2 DEF Inception

\* Planting a story keeps the invariant (_plant_scenarios).
LEMMA PlantKeeps ==
  ASSUME ScenarioInv, NEW p \in Plans(scenario), Plant(p)
  PROVE  ScenarioInv'
<1> USE ScenariosAssumption, HistoryAssumption
<1>1. scenario \in Scenario /\ PlanFits(p)
  BY StoriesFit DEF ScenarioInv, Begun
<1>2. Inception(Limits, Deductibles) /\ stage = "assigned"
  BY DEF ScenarioInv, Begun, Plant
<1>3. Inception(Limits, Deductibles)'
  BY <1>1, PlantStarts
<1>4. GoldInv'
  BY <1>3, GoldStarts, PTL
<1>5. /\ stage' = "planted" /\ plan' = p /\ population' = population /\ end_day' = end_day
      /\ phase' = phase /\ scenario' = scenario /\ ordinary' = ordinary /\ changes' = changes
      /\ history' = history /\ Current' = Current
  BY DEF Plant, planVars, Current
<1>6. /\ population = "ordinary" /\ end_day = DAY_ANCHOR /\ scenario \in Scenario
      /\ phase = "evolving" /\ ordinary = {} /\ changes = {} /\ Current.from = 0
  BY <1>2, FirstDay DEF ScenarioInv, Begun
<1>7. Begun'
  BY <1>3, <1>5, <1>6 DEF Begun
<1>8. Clear' /\ AsPlanned' /\ Done'
  BY <1>5, <1>6 DEF Clear, AsPlanned, Done
<1>9. \A c \in p.changes : /\ c.day \in Nat /\ 1 <= c.day
                           /\ c.direction # "any" => Directed(p, c)
  BY <1>1 DEF PlanFits, ChangeFits
<1>10. Happened'
  <2>1. Current'.from = 0 /\ Planned' = p.changes
    BY <1>5, <1>6 DEF Planned
  <2> QED
    BY <1>9, <2>1 DEF Happened
<1>11. \A l \in Lines : /\ Latest(coverage'[l]).from = 0
                        /\ l \in DOMAIN p.limits => Latest(coverage'[l]).limit = p.limits[l]
                        /\ l \in DOMAIN p.deductibles =>
                             Latest(coverage'[l]).deductible = p.deductibles[l]
  BY <1>1, PlantStarts
<1>12. LinesDated'
  BY <1>11 DEF LinesDated
<1>13. Laddered'
  <2>1. ASSUME NEW c \in p.changes, c.direction # "any"
        PROVE  /\ c.day > 0
               /\ c.category = "coverage" => Latest(coverage'[c.line]).limit = p.limits[c.line]
               /\ c.category = "deductible" =>
                    Latest(coverage'[c.line]).deductible = p.deductibles[c.line]
    <3>1. Directed(p, c) /\ DeductibleLines \subseteq Lines /\ c.day > 0
      BY <1>9, <2>1 DEF HistoryAssumption
    <3>2. \/ /\ c.category = "coverage" /\ c.category # "deductible"
             /\ c.line \in Lines /\ c.line \in DOMAIN p.limits
          \/ /\ c.category = "deductible" /\ c.category # "coverage"
             /\ c.line \in Lines /\ c.line \in DOMAIN p.deductibles
      BY <3>1, DirectedLine
    <3>3. c.category = "coverage" => Latest(coverage'[c.line]).limit = p.limits[c.line]
      BY ONLY <1>11, <3>2
    <3>4. c.category = "deductible" =>
            Latest(coverage'[c.line]).deductible = p.deductibles[c.line]
      BY ONLY <1>11, <3>2
    <3> QED
      BY <3>1, <3>3, <3>4
  <2> QED
    BY <1>5, <1>6, <2>1 DEF Laddered, LimitOf, DeductibleOf
<1> QED
  BY <1>4, <1>7, <1>8, <1>10, <1>12, <1>13 DEF ScenarioInv

\* Nothing that is laid out touches the tables.
LEMMA StandsKeeps ==
  ASSUME ScenarioInv, UNCHANGED <<vars, scenario, stage, plan>>,
         Clear', ordinary \subseteq ordinary', stage # "planted" => UNCHANGED ordinary
  PROVE  ScenarioInv'
<1> USE ScenariosAssumption, HistoryAssumption
<1>1. GoldInv'
  BY GoldKept DEF ScenarioInv
<1>2. UNCHANGED <<phase, population, end_day, terminal_status, reinstate_pending, changes,
                  history, coverage, vehicles, claims, scenario, stage, plan>>
  BY DEF vars, planVars
<1>3. Current' = Current /\ Planned \subseteq Planned'
  BY <1>2 DEF Current, Planned
<1>4. Inception(Limits, Deductibles) => Inception(Limits, Deductibles)'
  BY ONLY <1>2 DEF Inception
<1>5. Begun'
  BY <1>2, <1>4 DEF ScenarioInv, Begun
<1>6. Happened'
  <2>1. CASE stage = "planted"
    <3>1. Current.from = 0
      BY <2>1, FirstDay DEF ScenarioInv, Begun
    <3>2. Begun' /\ Clear' /\ \A c \in Planned' : c \in plan.changes \/ c \in ordinary'
      BY <1>2, <1>5 DEF Planned
    <3>3. PlanFits(plan)
      BY PlanNowFits DEF ScenarioInv
    <3>4. \A c \in Planned' : c.day \in Nat /\ 1 <= c.day
      BY <3>2, <3>3 DEF PlanFits, ChangeFits, Clear
    <3> QED
      BY <1>3, <3>1, <3>4 DEF Happened
  <2>2. CASE stage # "planted"
    <3>1. Planned' = Planned
      BY <1>2, <2>2 DEF Planned
    <3> QED
      BY <1>2, <1>3, <3>1 DEF ScenarioInv, Happened
  <2> QED
    BY <2>1, <2>2
<1>7. AsPlanned' /\ LinesDated'
  BY <1>2, <1>3 DEF ScenarioInv, AsPlanned, LinesDated
<1>8. Laddered'
  BY <1>2, <1>3 DEF ScenarioInv, Laddered, LimitOf, DeductibleOf
<1>9. Done'
  <2>1. CASE stage = "built"
    <3>1. Planned' = Planned
      BY <1>2, <2>1 DEF Planned
    <3>2. \A c : Row(c)' = Row(c)
      BY <1>2 DEF Row, Settled, LimitAt
    <3>3. ClaimsLaid
      BY <2>1 DEF ScenarioInv, Done
    <3>4. ClaimsLaid'
      BY <1>2, <3>2, <3>3 DEF ClaimsLaid, FromPlan, FromRest
    <3> QED
      BY <1>2, <1>3, <2>1, <3>1, <3>4 DEF ScenarioInv, Done
  <2>2. CASE stage # "built"
    BY <1>2, <2>2 DEF Done
  <2> QED
    BY <2>1, <2>2
<1> QED
  BY <1>1, <1>5, <1>6, <1>7, <1>8, <1>9 DEF ScenarioInv

\* Laying an ordinary change keeps the invariant (_background_endorsements).
LEMMA LayKeeps ==
  ASSUME ScenarioInv, NEW day, NEW k, LayChange(day, k)
  PROVE  ScenarioInv'
<1> USE ScenariosAssumption, HistoryAssumption
<1>1. /\ ordinary' = ordinary \cup {Move(day, k.category, k.line, 0, "any")}
      /\ UNCHANGED <<vars, scenario, stage, plan>> /\ stage = "planted"
  BY DEF LayChange
<1>2. day \in 20..end_day /\ ~Blocked(plan.quiet, day) /\ end_day = DAY_ANCHOR
  BY DEF LayChange, ScenarioInv, Begun
<1>3. day \in Nat /\ 1 <= day /\ day <= DAY_ANCHOR
  BY <1>2, Dates
<1>4. Clear'
  <2>1. ASSUME NEW c \in ordinary'
        PROVE  /\ c.day \in Nat /\ 1 <= c.day /\ c.day <= DAY_ANCHOR
               /\ c.direction = "any" /\ ~Blocked(plan.quiet, c.day)
    <3>1. CASE c \in ordinary
      BY <3>1 DEF ScenarioInv, Clear
    <3>2. CASE c = Move(day, k.category, k.line, 0, "any")
      <4>1. c.day = day /\ c.direction = "any"
        BY <3>2 DEF Move
      <4> QED
        BY <1>2, <1>3, <4>1
    <3> QED
      BY <1>1, <3>1, <3>2
  <2>2. plan' = plan
    BY <1>1
  <2>3. \A day_ : Blocked(plan.quiet, day_)' <=> Blocked(plan.quiet, day_)
    BY <2>2 DEF Blocked
  <2> QED
    BY <2>1, <2>3 DEF Clear
<1> QED
  BY <1>1, <1>4, StandsKeeps

\* A step that changes nothing keeps the invariant.
LEMMA StutterKeeps ==
  ASSUME ScenarioInv, UNCHANGED <<vars, scenarioVars>>
  PROVE  ScenarioInv'
<1> USE ScenariosAssumption, HistoryAssumption
<1>1. UNCHANGED <<vars, scenario, stage, plan, ordinary>>
  BY DEF scenarioVars
<1>2. Clear'
  BY <1>1 DEF ScenarioInv, Clear, Blocked
<1> QED
  BY <1>1, <1>2, StandsKeeps
-----------------------------------------------------------------------------
(* Evolving. *)

\* A boundary day of the plan, and what it realises.
Evolved(day, keys) ==
  /\ Boundary(day, keys) /\ stage' = "evolving" /\ UNCHANGED <<scenario, plan, ordinary>>
  /\ stage \in {"planted", "evolving"}
  /\ \A k : k \in keys <=> \E c \in Planned : c.day = day /\ k = Key(c.category, c.line)
  /\ Current.from < day
  /\ \A c \in Planned : c.day > Current.from => day <= c.day
  /\ \A c \in Planned : c.day = day /\ c.line # NoLine => Realised(c, coverage')

\* The next day is a renewal or a day with changes, and none is passed over.
LEMMA NextDayExists ==
  ASSUME ScenarioInv
  PROVE  /\ NextDay \in Nat /\ NextDay > Current.from /\ NextDay <= NextRenewal
         /\ \A c \in Planned : c.day > Current.from => NextDay <= c.day
<1> USE ScenariosAssumption, HistoryAssumption
<1> DEFINE days == {c.day : c \in Planned} \cup {NextRenewal}
           after == {d \in days : d > Current.from}
<1>1. Current.from \in Nat /\ NextRenewal \in Nat /\ NextRenewal > Current.from
  <2>1. DatasetTypeOK /\ TermInv
    BY GoldParts DEF ScenarioInv
  <2>2. Current.from \in Days /\ Current.term_start \in Days
    BY <2>1, CurrentTyped DEF Versions
  <2> QED
    BY <2>1, <2>2 DEF TermInv, NextRenewal, Days, HistoryAssumption
<1>2. \A c \in Planned : c.day \in Nat
  BY PlannedDays DEF ScenarioInv
<1>3. after \in SUBSET Nat /\ NextRenewal \in after
  BY <1>1, <1>2
<1>4. PICK n \in after : \A m \in after : n <= m
  <2> HIDE DEF after
  <2> QED
    BY <1>3, LeastNumber
<1>5. n \in days /\ n > Current.from /\ \A e \in days : e > Current.from => n <= e
  BY <1>4
<1>6. NextDay \in days /\ NextDay > Current.from
      /\ \A e \in days : e > Current.from => NextDay <= e
  <2> HIDE DEF days
  <2>1. NextDay = CHOOSE d \in days : /\ d > Current.from
                                      /\ \A e \in days : e > Current.from => d <= e
    BY DEF NextDay, days
  <2> QED
    BY <1>5, <2>1
<1>7. NextDay \in Nat
  BY <1>1, <1>2, <1>6
<1> QED
  BY <1>1, <1>6, <1>7

\* What was declared can still be done: _assert_direction never fails.
LEMMA NeverContradicted ==
  ASSUME ScenarioInv, NEW c \in Planned, c.day > Current.from
  PROVE  ~Contradicted(c)
<1> USE ScenariosAssumption, HistoryAssumption
<1>1. SUFFICES ASSUME c.direction # "any" PROVE ~Contradicted(c)
  BY DEF Contradicted
<1>2. c \in plan.changes
  BY <1>1, PlannedDays DEF ScenarioInv
<1>3. Directed(plan, c)
  BY <1>1, <1>2, OnlyMover DEF ScenarioInv
<1>4. Laddered
  BY DEF ScenarioInv
<1>5. Limits \subseteq Nat /\ Deductibles \subseteq Nat
  BY DEF HistoryAssumption
<1>6. PlanFits(plan)
  BY PlanNowFits DEF ScenarioInv
<1>7. CASE c.category = "coverage" /\ c.direction = "increase"
  <2>1. LimitOf(c.line) = plan.limits[c.line] /\ c.line \in DOMAIN plan.limits
    BY ONLY <1>1, <1>2, <1>3, <1>4, <1>7, c.day > Current.from DEF Laddered, Directed
  <2>2. PICK new \in Limits : plan.limits[c.line] < new /\ (c.forced # 0 => c.forced = new)
    BY ONLY <1>3, <1>7 DEF Directed
  <2>3. LimitOf(c.line) \in Nat /\ new \in Nat
    <3>1. plan.limits[c.line] \in Limits
      BY ONLY <1>6, <2>1 DEF PlanFits
    <3> QED
      BY ONLY <1>5, <2>1, <3>1, new \in Limits
  <2>4. new # LimitOf(c.line) /\ Direction(LimitOf(c.line), new) = c.direction
    BY ONLY <1>7, <2>1, <2>2, <2>3 DEF Direction
  <2>5. new \in (IF c.forced # 0 THEN {c.forced} ELSE Limits)
    BY <2>2
  <2> QED
    BY ONLY <1>7, <2>4, <2>5 DEF Contradicted
<1>8. CASE c.category = "deductible" /\ c.direction = "decrease"
  <2>1. DeductibleOf(c.line) = plan.deductibles[c.line] /\ c.line \in DOMAIN plan.deductibles
    BY ONLY <1>1, <1>2, <1>3, <1>4, <1>8, c.day > Current.from DEF Laddered, Directed
  <2>2. PICK new \in Deductibles :
          new < plan.deductibles[c.line] /\ (c.forced # 0 => c.forced = new)
    BY ONLY <1>3, <1>8 DEF Directed
  <2>3. DeductibleOf(c.line) \in Nat /\ new \in Nat
    <3>1. plan.deductibles[c.line] \in Deductibles
      BY ONLY <1>6, <2>1 DEF PlanFits
    <3> QED
      BY ONLY <1>5, <2>1, <3>1, new \in Deductibles
  <2>4. new # DeductibleOf(c.line) /\ Direction(DeductibleOf(c.line), new) = c.direction
    BY ONLY <1>8, <2>1, <2>2, <2>3 DEF Direction
  <2>5. new \in (IF c.forced # 0 THEN {c.forced} ELSE Deductibles)
    BY <2>2
  <2> QED
    BY ONLY <1>8, <2>4, <2>5 DEF Contradicted
<1> QED
  BY ONLY <1>3, <1>7, <1>8 DEF Directed

\* A day of _evolve_policies is a boundary of the policy, and never fails.
LEMMA EvolveBounds ==
  ASSUME ScenarioInv, Evolve
  PROVE  \E day \in Days : \E keys \in SUBSET (PolicyKeys \cup LineKeys) : Evolved(day, keys)
<1> USE ScenariosAssumption, HistoryAssumption
<1> DEFINE today == {c \in Planned : c.day = NextDay}
           keys == {Key(c.category, c.line) : c \in today}
<1>1. /\ NextDay \in Nat /\ NextDay > Current.from
      /\ \A c \in Planned : c.day > Current.from => NextDay <= c.day
  BY NextDayExists
<1>2. \A c \in today : ~Contradicted(c)
  BY <1>1, NeverContradicted
<1>3. /\ stage' = "evolving" /\ Boundary(NextDay, keys)
      /\ \A c \in today : c.line # NoLine => Realised(c, coverage')
      /\ stage \in {"planted", "evolving"} /\ NextDay <= end_day
      /\ UNCHANGED <<scenario, plan, ordinary>>
  <2>1. ~\E c \in {d \in Planned : d.day = NextDay} : c.line # NoLine /\ Contradicted(c)
    BY ONLY <1>2
  <2> QED
    BY ONLY Evolve, <2>1 DEF Evolve
<1>4. NextDay \in Days
  <2>1. end_day = DAY_ANCHOR
    BY DEF ScenarioInv, Begun
  <2> QED
    BY <1>1, <1>3, <2>1, Dates DEF Days
<1>5. keys \in SUBSET (PolicyKeys \cup LineKeys)
  <2> HIDE DEF keys
  <2>1. keys \subseteq ChangesOn(NextDay)
    BY ONLY <1>3 DEF Boundary
  <2> QED
    BY <2>1 DEF ChangesOn
<1>6. \A k : k \in keys <=> \E c \in Planned : c.day = NextDay /\ k = Key(c.category, c.line)
  OBVIOUS
<1>7. \A c \in Planned : c.day = NextDay /\ c.line # NoLine => Realised(c, coverage')
  BY <1>3
<1>8. Evolved(NextDay, keys)
  <2> HIDE DEF today, keys
  <2> QED
    BY <1>1, <1>3, <1>6, <1>7 DEF Evolved
<1> QED
  BY <1>4, <1>5, <1>8

\* A line has the values that were drawn for it, and a new version only if one moved.
LineStands(l, day, today, limit, deductible) ==
  /\ Latest(coverage'[l]).limit = limit[l]
  /\ l \in DeductibleLines => Latest(coverage'[l]).deductible = deductible[l]
  /\ \/ Latest(coverage'[l]).from = Latest(coverage[l]).from
     \/ /\ Latest(coverage'[l]).from = day
        /\ Key("coverage", l) \in today \/ Key("deductible", l) \in today
  /\ Key("coverage", l) \notin today => limit[l] = LimitOf(l)
  /\ l \in DeductibleLines /\ Key("deductible", l) \notin today =>
       deductible[l] = DeductibleOf(l)

\* On a boundary day a line keeps its row or gets one of that day with other terms.
LEMMA LineMoves ==
  ASSUME DatasetTypeOK, LinesStarted, NEW day \in Days, NEW today, NEW location, NEW agent,
         NEW limit \in [Lines -> Limits],
         NEW deductible \in [DeductibleLines -> Deductibles],
         Writes(day, today, location, agent, limit, deductible), NEW l \in Lines
  PROVE  LineStands(l, day, today, limit, deductible)
<1> USE HistoryAssumption
<1> DEFINE d == IF l \in DeductibleLines THEN deductible[l] ELSE NoDeductible
           row == [from |-> day, limit |-> limit[l], deductible |-> d]
<1>1. coverage[l] \in Seq(CoverageVersions)
  BY TablesTyped
<1>2. row \in CoverageVersions
  BY DEF CoverageVersions
<1>3. coverage'[l] = RecordCoverage(coverage[l], day, today, l, limit[l], d)
  BY DEF Writes
<1>4. /\ limit[l] # LimitOf(l) <=> Key("coverage", l) \in today
      /\ l \in DeductibleLines =>
           (deductible[l] # DeductibleOf(l) <=> Key("deductible", l) \in today)
  BY DEF Writes
<1>5. CASE {Key("coverage", l), Key("deductible", l)} \cap today = {}
  <2>1. coverage'[l] = coverage[l]
    BY <1>3, <1>5 DEF RecordCoverage
  <2>2. LimitOf(l) = Latest(coverage'[l]).limit /\ DeductibleOf(l) = Latest(coverage'[l]).deductible
    BY <2>1 DEF LimitOf, DeductibleOf
  <2> QED
    BY <1>4, <1>5, <2>1, <2>2 DEF LineStands
<1>6. CASE {Key("coverage", l), Key("deductible", l)} \cap today # {}
  <2>1. coverage'[l] = Append(coverage[l], row)
    BY <1>3, <1>6 DEF RecordCoverage
  <2>2. Latest(coverage'[l]) = row
    <3> HIDE DEF row
    <3> QED
      BY <1>1, <1>2, <2>1, AppendLatest
  <2>3. /\ Latest(coverage'[l]).limit = limit[l] /\ Latest(coverage'[l]).from = day
        /\ l \in DeductibleLines => Latest(coverage'[l]).deductible = deductible[l]
    BY <2>2
  <2> QED
    BY <1>4, <1>6, <2>3 DEF LineStands
<1> QED
  BY <1>5, <1>6

\* The row a change of the day becomes.
Made(day, k, limit, deductible) ==
  [day |-> day, category |-> k.category, line |-> k.line,
   direction |->
     CASE k.category = "coverage"   -> Direction(LimitOf(k.line), limit[k.line])
       [] k.category = "deductible" -> Direction(DeductibleOf(k.line), deductible[k.line])
       [] OTHER -> "switch"]

\* The change row of a planned change answers it: its day, its category, its line, its
\* direction.
LEMMA MadeAnswers ==
  ASSUME ScenarioInv, NEW day \in Days, NEW today, NEW location, NEW agent,
         NEW limit \in [Lines -> Limits],
         NEW deductible \in [DeductibleLines -> Deductibles],
         Writes(day, today, location, agent, limit, deductible),
         NEW c \in Planned, c.day = day, c.line # NoLine => Realised(c, coverage')
  PROVE  Answers(Made(day, Key(c.category, c.line), limit, deductible), c)
<1> USE ScenariosAssumption, HistoryAssumption
<1> DEFINE row == Made(day, Key(c.category, c.line), limit, deductible)
<1>1. row.day = c.day /\ row.category = c.category /\ row.line = c.line
  BY DEF Made, Key
<1>2. ASSUME c.direction # "any" PROVE row.direction = c.direction
  <2>1. c \in plan.changes
    BY <1>2, PlannedDays DEF ScenarioInv
  <2>2. Directed(plan, c)
    BY <1>2, <2>1, OnlyMover DEF ScenarioInv
  <2>3. DeductibleLines \subseteq Lines /\ \A l \in Lines : l # NoLine
    BY DEF HistoryAssumption
  <2>4. \/ c.category = "coverage" /\ c.line \in Lines
        \/ c.category = "deductible" /\ c.line \in DeductibleLines
    BY ONLY <2>2 DEF Directed
  <2>5. c.line \in Lines /\ Realised(c, coverage')
    BY ONLY <2>3, <2>4, c.line # NoLine => Realised(c, coverage')
  <2>6. /\ Latest(coverage'[c.line]).limit = limit[c.line]
        /\ c.line \in DeductibleLines => Latest(coverage'[c.line]).deductible = deductible[c.line]
    <3>1. DatasetTypeOK /\ LinesStarted
      BY GoldParts DEF ScenarioInv
    <3>2. \A l \in Lines : LineStands(l, day, today, limit, deductible)
      BY <3>1, LineMoves
    <3> QED
      BY ONLY <2>5, <3>2 DEF LineStands
  <2>7. CASE c.category = "coverage"
    <3>1. Direction(LimitOf(c.line), limit[c.line]) = c.direction
      BY ONLY <1>2, <2>5, <2>6, <2>7 DEF Realised
    <3> QED
      BY <2>7, <3>1 DEF Made, Key
  <2>8. CASE c.category = "deductible" /\ c.line \in DeductibleLines
    <3>1. Direction(DeductibleOf(c.line), deductible[c.line]) = c.direction
      BY ONLY <1>2, <2>5, <2>6, <2>8 DEF Realised
    <3> QED
      BY <2>8, <3>1 DEF Made, Key
  <2> QED
    BY <2>4, <2>7, <2>8
<1> QED
  BY <1>1, <1>2 DEF Answers

\* A boundary day keeps the invariant (_evolve_policies).
LEMMA EvolveKeeps ==
  ASSUME ScenarioInv, NEW day \in Days, NEW keys \in SUBSET (PolicyKeys \cup LineKeys),
         Evolved(day, keys)
  PROVE  ScenarioInv'
<1> USE ScenariosAssumption, HistoryAssumption
<1>1. Boundary(day, keys)
  BY DEF Evolved
<1>2. GoldInv'
  BY <1>1, GoldKept DEF ScenarioInv, Next
<1>3. PICK location \in Locations, agent \in Agents,
           limit \in [Lines -> Limits], deductible \in [DeductibleLines -> Deductibles] :
        Writes(day, keys, location, agent, limit, deductible)
  BY <1>1, BoundaryWrites
<1>4. DatasetTypeOK /\ LinesStarted
  BY GoldParts DEF ScenarioInv
<1>5. Current'.from = day
  <2>1. history' = Append(history, NewVersion(day, keys, location, agent))
    BY ONLY <1>3 DEF Writes
  <2>2. Current' = NewVersion(day, keys, location, agent)
    BY ONLY <1>1, <1>4, <2>1, HistoryAssumption, day \in Days, location \in Locations,
       agent \in Agents, keys \in SUBSET (PolicyKeys \cup LineKeys), VersionAdded
  <2> QED
    BY ONLY <2>2 DEF NewVersion
<1>6. /\ UNCHANGED <<scenario, plan, ordinary, population, end_day, phase, Planned>>
      /\ stage' = "evolving" /\ stage \in {"planted", "evolving"} /\ phase = "evolving"
      /\ day \in Nat /\ Current.from \in Nat /\ Current.from < day
      /\ \A c \in Planned : c.day > Current.from => day <= c.day
      /\ \A k : k \in keys <=> \E c \in Planned : c.day = day /\ k = Key(c.category, c.line)
      /\ \A c \in Planned : c.day = day /\ c.line # NoLine => Realised(c, coverage')
  <2>1. day \in Nat /\ Current.from \in Nat
    BY <1>4, CurrentTyped, Dates DEF Versions, Days
  <2> QED
    BY <2>1 DEF Evolved, Boundary, planVars, Planned
<1>7. \A c \in Planned : c.day \in Nat
  <2>1. Begun /\ Clear
    BY DEF ScenarioInv
  <2> QED
    BY <2>1, PlannedDays
<1>8. \A c \in Planned : c.day = day =>
        Answers(Made(day, Key(c.category, c.line), limit, deductible), c)
  BY <1>3, <1>6, MadeAnswers
<1>9. changes' = changes \cup {Made(day, k, limit, deductible) : k \in keys}
  BY <1>3 DEF Writes, Applied, Made
<1>10. Begun' /\ Clear' /\ Done'
  <2>1. Begun'
    BY <1>6 DEF ScenarioInv, Begun
  <2>2. Clear'
    BY <1>6 DEF ScenarioInv, Clear, Blocked
  <2> QED
    BY <1>6, <2>1, <2>2 DEF Done
<1>11. Happened'
  <2>1. ASSUME NEW c \in Planned, c.day <= day
        PROVE  \E row \in changes' : Answers(row, c)
    <3>1. CASE c.day <= Current.from
      BY <1>9, <3>1 DEF ScenarioInv, Happened
    <3>2. CASE c.day > Current.from
      <4>1. c.day = day
        BY <1>6, <1>7, <2>1, <3>2
      <4>2. Key(c.category, c.line) \in keys
        BY <1>6, <4>1
      <4>3. Made(day, Key(c.category, c.line), limit, deductible) \in changes'
        BY <1>9, <4>2
      <4> QED
        BY <1>8, <4>1, <4>3
    <3> QED
      BY <1>6, <1>7, <3>1, <3>2
  <2> QED
    BY <1>5, <1>6, <2>1 DEF Happened
<1>12. AsPlanned'
  <2>1. ASSUME NEW row \in changes'
        PROVE  \E c \in Planned : Answers(row, c)
    <3>1. CASE row \in changes
      BY <3>1 DEF ScenarioInv, AsPlanned
    <3>2. CASE row \in {Made(day, k, limit, deductible) : k \in keys}
      <4>1. PICK k \in keys : row = Made(day, k, limit, deductible)
        BY <3>2
      <4>2. PICK c \in Planned : c.day = day /\ k = Key(c.category, c.line)
        BY <1>6
      <4> QED
        BY <1>8, <4>1, <4>2
    <3> QED
      BY <1>9, <3>1, <3>2
  <2> QED
    BY <1>6, <2>1 DEF AsPlanned
<1>13. LinesDated'
  <2>1. ASSUME NEW l \in Lines
        PROVE  \/ Latest(coverage'[l]).from = 0
               \/ \E c \in Planned : c.line = l /\ c.day = Latest(coverage'[l]).from
    <3>1. \/ Latest(coverage'[l]).from = Latest(coverage[l]).from
          \/ /\ Latest(coverage'[l]).from = day
             /\ Key("coverage", l) \in keys \/ Key("deductible", l) \in keys
      BY <1>3, <1>4, LineMoves DEF LineStands
    <3>2. ASSUME NEW category, Key(category, l) \in keys
          PROVE  \E c \in Planned : c.line = l /\ c.day = day
      <4>1. PICK c \in Planned : c.day = day /\ Key(category, l) = Key(c.category, c.line)
        BY <1>6, <3>2
      <4> QED
        BY <4>1 DEF Key
    <3> QED
      BY <3>1, <3>2 DEF ScenarioInv, LinesDated
  <2> QED
    BY <1>6, <2>1 DEF LinesDated
<1>14. Laddered'
  <2>1. ASSUME NEW c \in plan.changes, c.direction # "any"
        PROVE  /\ c.category = "coverage" =>
                    IF c.day > day THEN Latest(coverage'[c.line]).limit = plan.limits[c.line]
                    ELSE c.forced # 0 => Latest(coverage'[c.line]).limit = c.forced
               /\ c.category = "deductible" /\ c.day > day =>
                    Latest(coverage'[c.line]).deductible = plan.deductibles[c.line]
    <3>1. /\ Directed(plan, c) /\ c \in Planned
          /\ \A d \in Planned : d.category = c.category /\ d.line = c.line => d = c
      BY <2>1, OnlyMover DEF ScenarioInv, Planned
    <3>2. DeductibleLines \subseteq Lines /\ \A l \in Lines : l # NoLine
      BY DEF HistoryAssumption
    <3>3. /\ c.category = "coverage" => c.line \in Lines
          /\ c.category = "deductible" => c.line \in DeductibleLines
          /\ c.line \in Lines
      BY ONLY <3>1, <3>2, DirectedLine DEF Directed
    <3>4. Key(c.category, c.line) \in keys => c.day = day
      <4>1. ASSUME NEW d \in Planned, d.day = day,
                   Key(c.category, c.line) = Key(d.category, d.line)
            PROVE  c.day = day
        BY ONLY <3>1, <4>1 DEF Key
      <4> QED
        BY <1>6, <4>1
    <3>5. /\ Latest(coverage'[c.line]).limit = limit[c.line]
          /\ c.line \in DeductibleLines =>
               Latest(coverage'[c.line]).deductible = deductible[c.line]
          /\ Key("coverage", c.line) \notin keys => limit[c.line] = LimitOf(c.line)
          /\ c.line \in DeductibleLines /\ Key("deductible", c.line) \notin keys =>
               deductible[c.line] = DeductibleOf(c.line)
      <4>1. \A l \in Lines : LineStands(l, day, keys, limit, deductible)
        BY <1>3, <1>4, LineMoves
      <4> QED
        BY ONLY <3>3, <4>1 DEF LineStands
    <3>6. /\ c.category = "coverage" =>
               IF c.day > Current.from THEN LimitOf(c.line) = plan.limits[c.line]
               ELSE c.forced # 0 => LimitOf(c.line) = c.forced
          /\ c.category = "deductible" /\ c.day > Current.from =>
               DeductibleOf(c.line) = plan.deductibles[c.line]
      BY <2>1 DEF ScenarioInv, Laddered
    <3>7. c.day \in Nat /\ (c.day > Current.from => day <= c.day)
      BY <1>6, <1>7, <3>1
    <3>8. CASE c.category = "coverage"
      <4>1. CASE c.day = day
        <5>1. c.line # NoLine /\ c \in Planned
          BY ONLY <3>1, <3>2, <3>3
        <5>2. Realised(c, coverage')
          BY ONLY <1>6, <4>1, <5>1
        <5>3. c.forced # 0 => Latest(coverage'[c.line]).limit = c.forced
          BY ONLY <3>8, <5>2 DEF Realised
        <5> QED
          BY <1>6, <3>8, <4>1, <5>3
      <4>2. CASE c.day # day
        <5>1. Latest(coverage'[c.line]).limit = LimitOf(c.line)
          BY <3>4, <3>5, <3>8, <4>2
        <5>2. c.day > day <=> c.day > Current.from
          BY <1>6, <3>7, <4>2
        <5> QED
          BY <3>6, <3>8, <5>1, <5>2
      <4> QED
        BY <4>1, <4>2
    <3>9. CASE c.category = "deductible" /\ c.day > day
      <4>1. Latest(coverage'[c.line]).deductible = DeductibleOf(c.line)
        BY <1>6, <3>3, <3>4, <3>5, <3>7, <3>9
      <4> QED
        BY <1>6, <3>6, <3>7, <3>9, <4>1
    <3> QED
      BY <3>8, <3>9, <2>1
  <2> QED
    BY <1>5, <1>6, <2>1 DEF Laddered, LimitOf, DeductibleOf
<1> QED
  BY <1>2, <1>10, <1>11, <1>12, <1>13, <1>14 DEF ScenarioInv

-----------------------------------------------------------------------------
(* Building the claims. *)

\* A share of a limit is a whole number.
LEMMA ShareTyped ==
  ASSUME NEW limit \in Nat, NEW share \in Nat
  PROVE  (limit * share) \div 100 \in Nat
<1>1. limit * share \in Nat
  OBVIOUS
<1> QED
  BY <1>1

\* The limit in force on a day is a number.
LEMMA LimitTyped ==
  ASSUME DatasetTypeOK, DatesInv, NEW l \in Lines, NEW day \in Days
  PROVE  LimitAt(l, day) \in Nat
<1> USE HistoryAssumption
<1>1. PICK i \in DOMAIN coverage[l] : LimitAt(l, day) = coverage[l][i].limit
  BY LimitInForce
<1>2. coverage[l] \in Seq(CoverageVersions)
  BY TablesTyped
<1>3. coverage[l][i].limit \in Limits
  <2>1. coverage[l][i] \in CoverageVersions
    BY ONLY <1>2, i \in DOMAIN coverage[l]
  <2> QED
    BY ONLY <2>1 DEF CoverageVersions
<1> QED
  BY <1>1, <1>3 DEF HistoryAssumption

\* A planted claim is settled within its days, for a natural amount.
RowFitsPlan(c) ==
  /\ Row(c) \in ClaimSet /\ ClaimFits(c)
  /\ Row(c).loss = c.loss /\ Row(c).line = c.line
  /\ Row(c).report = (IF c.report < DAY_ANCHOR THEN c.report ELSE DAY_ANCHOR)
  /\ Row(c).loss < DAY_ANCHOR /\ Row(c).loss + 1 <= Row(c).report

\* The row of a planned claim is a claim, reported by the anchor.
LEMMA RowFits ==
  ASSUME ScenarioInv, NEW c \in plan.claims
  PROVE  RowFitsPlan(c)
<1> USE ScenariosAssumption, HistoryAssumption
<1>1. ClaimFits(c)
  <2>1. PlanFits(plan)
    BY PlanNowFits DEF ScenarioInv
  <2> QED
    BY ONLY <2>1, c \in plan.claims DEF PlanFits, ClaimsFit
<1>2. /\ c.line \in Lines /\ c.loss \in Nat /\ c.loss < DAY_ANCHOR
      /\ c.report \in Nat /\ c.loss + 1 <= c.report /\ c.amount \in Nat /\ c.share \in Nat
  BY ONLY <1>1 DEF ClaimFits
<1>3. DAY_ANCHOR \in Nat /\ Limits \subseteq Nat
  BY Dates DEF HistoryAssumption
<1>4. c.loss \in Days
  BY ONLY <1>2, <1>3 DEF Days
<1>5. LimitAt(c.line, c.loss) \in Nat
  <2>1. DatasetTypeOK /\ DatesInv
    BY GoldParts DEF ScenarioInv
  <2>2. \A l \in Lines : \A day \in Days : LimitAt(l, day) \in Nat
    BY <2>1, LimitTyped
  <2> QED
    BY ONLY <1>2, <1>4, <2>2
<1>6. Settled(c) \in Nat
  BY <1>2, <1>5, ShareTyped DEF Settled
<1>7. /\ Row(c).loss = c.loss /\ Row(c).line = c.line /\ Row(c).amount = Settled(c)
      /\ Row(c).report = (IF c.report < DAY_ANCHOR THEN c.report ELSE DAY_ANCHOR)
  BY DEF Row, Least
<1>8. Row(c).report \in Days /\ Row(c).loss + 1 <= Row(c).report
  BY ONLY <1>2, <1>3, <1>7 DEF Days
<1>9. Row(c) \in ClaimSet
  <2>1. Row(c) = [line |-> Row(c).line, loss |-> Row(c).loss, report |-> Row(c).report,
                  amount |-> Row(c).amount]
    BY DEF Row
  <2> QED
    BY ONLY <1>2, <1>4, <1>6, <1>7, <1>8, <2>1 DEF ClaimSet
<1> QED
  BY ONLY <1>1, <1>2, <1>7, <1>8, <1>9 DEF RowFitsPlan

\* An ordinary claim falls on a day that was kept open.
FitsOpenDay(row) ==
  /\ row \in ClaimSet /\ row.loss < DAY_ANCHOR /\ row.loss + 1 <= row.report
  /\ ~plan.no_claims /\ ~Blocked(plan.unclaimed, row.loss)
  /\ row.report <= row.loss + REPORT_LAG_CAP_DAYS

\* Every claim that may be drawn does.
LEMMA OrdinaryFits ==
  ASSUME ScenarioInv, NEW row \in OrdinaryClaims
  PROVE  FitsOpenDay(row)
<1> USE ScenariosAssumption, HistoryAssumption
<1>1. PICK day \in Eligible :
        row \in {[line |-> line, loss |-> day, report |-> report, amount |-> amount] :
                   report \in Reported(day, DAY_ANCHOR - day), line \in Lines, amount \in Amounts}
  BY DEF OrdinaryClaims
<1>2. PICK report \in Reported(day, DAY_ANCHOR - day), line \in Lines, amount \in Amounts :
        row = [line |-> line, loss |-> day, report |-> report, amount |-> amount]
  BY <1>1
<1>3. end_day = DAY_ANCHOR
  BY DEF ScenarioInv, Begun
<1>4. day \in 0..(end_day - 1) /\ ~plan.no_claims /\ ~Blocked(plan.unclaimed, day)
  BY ONLY <1>1 DEF Eligible
<1>5. DAY_ANCHOR \in Nat /\ amount \in Nat
  BY Dates DEF HistoryAssumption
<1>6. day \in Nat /\ day < DAY_ANCHOR /\ DAY_ANCHOR - day \in Nat \ {0}
  BY ONLY <1>3, <1>4, <1>5
<1>7. /\ report \in Nat /\ day + 1 <= report
      /\ report <= day + (DAY_ANCHOR - day) /\ report <= day + REPORT_LAG_CAP_DAYS
  BY <1>2, <1>6, ReportedTyped
<1>8. report \in Days /\ day \in Days
  BY ONLY <1>5, <1>6, <1>7 DEF Days
<1> QED
  BY ONLY <1>2, <1>4, <1>5, <1>6, <1>7, <1>8 DEF ClaimSet, FitsOpenDay

\* What is built: each of some claims once, whatever its place.
Places(placed, rows) ==
  /\ placed \in [1..Cardinality(rows) -> rows]
  /\ {placed[i] : i \in DOMAIN placed} = rows

\* Placing the rows of a set under as many ids gives each row one id.
LEMMA PlacedOnce ==
  ASSUME NEW rows, IsFiniteSet(rows), NEW placed, Places(placed, rows)
  PROVE  /\ Cardinality(rows) \in Nat
         /\ \A r \in rows : \E i \in 1..Cardinality(rows) : placed[i] = r
         /\ \A i, j \in 1..Cardinality(rows) : placed[i] = placed[j] => i = j
<1> DEFINE n == Cardinality(rows)
<1>1. n \in Nat
  BY FS_CardinalityType
<1>2. IsFiniteSet(1..n) /\ Cardinality(1..n) = n
  BY <1>1, FS_Interval
<1>3. placed \in Surjection(1..n, rows)
  BY DEF Places, Surjection
<1>4. placed \in Injection(1..n, rows)
  BY <1>1, <1>2, <1>3, FS_SurjSameCardinalityImpliesInj
<1> QED
  BY <1>1, <1>3, <1>4 DEF Surjection, Injection, IsInjective

\* What is placed is the ordinary claims drawn and the planted ones.
LEMMA InClaimRows ==
  ASSUME NEW n \in Nat, NEW drawn \in [1..n -> OrdinaryClaims]
  PROVE  /\ \A r \in ClaimRows(drawn) : \/ r \in OrdinaryClaims
                                       \/ \E c \in plan.claims : r = Row(c)
         /\ \A c \in plan.claims : Row(c) \in ClaimRows(drawn)
BY DEF ClaimRows

\* There are finitely many claims to place.
LEMMA RowsToPlace ==
  ASSUME ScenarioInv, NEW n \in Nat, NEW drawn \in [1..n -> OrdinaryClaims]
  PROVE  IsFiniteSet(ClaimRows(drawn))
<1> USE ScenariosAssumption, HistoryAssumption
<1> DEFINE T == {drawn[i] : i \in DOMAIN drawn}
           P == {Row(c) : c \in plan.claims}
<1>1. IsFiniteSet(1..n) /\ DOMAIN drawn = 1..n
  BY FS_Interval
<1>2. IsFiniteSet(T)
  <2>1. drawn \in [1..n -> T]
    BY <1>1
  <2>2. \A t \in T : \E i \in 1..n : drawn[i] = t
    BY <1>1
  <2> HIDE DEF T
  <2>3. drawn \in Surjection(1..n, T)
    BY <2>1, <2>2 DEF Surjection
  <2> QED
    BY <1>1, <2>3, FS_Surjection
<1>3. IsFiniteSet(P)
  <2>1. PlanFits(plan)
    <3>1. Begun
      BY ONLY ScenarioInv DEF ScenarioInv
    <3> QED
      BY ONLY <3>1, PlanNowFits
  <2>2. plan.claims = {} \/ \E c : plan.claims = {c}
    BY ONLY <2>1 DEF PlanFits, ClaimsFit
  <2>3. P = {} \/ \E r : P = {r}
    BY ONLY <2>2
  <2> HIDE DEF P
  <2>4. CASE P = {}
    BY ONLY <2>4, FS_EmptySet
  <2>5. CASE \E r : P = {r}
    <3>1. PICK r : P = {r}
      BY ONLY <2>5
    <3>2. IsFiniteSet({r})
      BY ONLY FS_Singleton
    <3> QED
      BY ONLY <3>1, <3>2
  <2> QED
    BY ONLY <2>3, <2>4, <2>5
<1>4. ClaimRows(drawn) = T \cup P
  BY DEF ClaimRows
<1> HIDE DEF T, P
<1>5. IsFiniteSet(T \cup P)
  BY ONLY <1>2, <1>3, FS_Union
<1> QED
  BY ONLY <1>4, <1>5

\* Building gives claims of the right shape and dates, each planted one among them.
LEMMA BuildPlaces ==
  ASSUME ScenarioInv, Build
  PROVE  /\ claims' \in Seq(ClaimSet)
         /\ \A k \in DOMAIN claims' : /\ claims'[k].loss < DAY_ANCHOR
                                      /\ claims'[k].loss + 1 <= claims'[k].report
         /\ ClaimsLaid'
<1> USE ScenariosAssumption, HistoryAssumption
<1>1. PICK n \in 0..MaxBackgroundClaims : \E drawn \in [1..n -> OrdinaryClaims] :
        /\ \A c, d \in ClaimRows(drawn) : c # d => c.loss # d.loss
        /\ \E placed \in [1..Cardinality(ClaimRows(drawn)) -> ClaimRows(drawn)] :
             {placed[i] : i \in DOMAIN placed} = ClaimRows(drawn) /\ claims' = placed
  BY ONLY Build DEF Build
<1>2. PICK drawn \in [1..n -> OrdinaryClaims] :
        /\ \A c, d \in ClaimRows(drawn) : c # d => c.loss # d.loss
        /\ \E placed \in [1..Cardinality(ClaimRows(drawn)) -> ClaimRows(drawn)] :
             {placed[i] : i \in DOMAIN placed} = ClaimRows(drawn) /\ claims' = placed
  BY ONLY <1>1
<1> DEFINE rows == ClaimRows(drawn)
<1> HIDE DEF rows
<1>3. (\A c, d \in rows : c # d => c.loss # d.loss) /\ Places(claims', rows)
  BY ONLY <1>2 DEF Places, rows
<1>4. n \in Nat
  BY DEF ScenariosAssumption
<1>5. IsFiniteSet(rows)
  <2>1. IsFiniteSet(ClaimRows(drawn))
    BY ONLY <1>4, ScenarioInv, drawn \in [1..n -> OrdinaryClaims], RowsToPlace, SMTT(40)
  <2> QED
    BY ONLY <2>1 DEF rows
<1>6. \A r \in rows : \/ r \in OrdinaryClaims
                      \/ \E c \in plan.claims : r = Row(c)
  BY <1>4, InClaimRows DEF rows
<1>7. \A c \in plan.claims : Row(c) \in rows
  BY <1>4, InClaimRows DEF rows
<1>8. UNCHANGED <<coverage, plan>>
  BY DEF Build
<1>9. \A c : Row(c)' = Row(c)
  BY <1>8 DEF Row, Settled, LimitAt
<1>10. /\ Cardinality(rows) \in Nat /\ claims' \in [1..Cardinality(rows) -> rows]
       /\ \A r \in rows : \E i \in 1..Cardinality(rows) : claims'[i] = r
       /\ \A i, j \in 1..Cardinality(rows) : claims'[i] = claims'[j] => i = j
  <2>1. claims' \in [1..Cardinality(rows) -> rows]
    BY ONLY <1>3 DEF Places
  <2>2. \A placed : Places(placed, rows) =>
          /\ Cardinality(rows) \in Nat
          /\ \A r \in rows : \E i \in 1..Cardinality(rows) : placed[i] = r
          /\ \A i, j \in 1..Cardinality(rows) : placed[i] = placed[j] => i = j
    BY ONLY <1>5, PlacedOnce
  <2> QED
    BY ONLY <1>3, <2>1, <2>2
<1>11. \A r \in rows : /\ r \in ClaimSet /\ r.loss < DAY_ANCHOR /\ r.loss + 1 <= r.report
                       /\ \/ \E c \in plan.claims : r = Row(c)
                          \/ /\ ~plan.no_claims /\ ~Blocked(plan.unclaimed, r.loss)
                             /\ r.report <= r.loss + REPORT_LAG_CAP_DAYS
  <2>1. ASSUME NEW r \in OrdinaryClaims
        PROVE  /\ r \in ClaimSet /\ r.loss < DAY_ANCHOR /\ r.loss + 1 <= r.report
               /\ ~plan.no_claims /\ ~Blocked(plan.unclaimed, r.loss)
               /\ r.report <= r.loss + REPORT_LAG_CAP_DAYS
    <3>1. FitsOpenDay(r)
      BY ONLY ScenarioInv, r \in OrdinaryClaims,
         OrdinaryFits, SMTT(30)
    <3> QED
      BY ONLY <3>1 DEF FitsOpenDay
  <2>2. ASSUME NEW c \in plan.claims
        PROVE  /\ Row(c) \in ClaimSet /\ Row(c).loss < DAY_ANCHOR
               /\ Row(c).loss + 1 <= Row(c).report
    <3>1. RowFitsPlan(c)
      BY RowFits
    <3> QED
      BY ONLY <3>1 DEF RowFitsPlan
  <2> QED
    BY ONLY <1>6, <2>1, <2>2
<1>12. DOMAIN claims' = 1..Cardinality(rows) /\ \A k \in DOMAIN claims' : claims'[k] \in rows
  BY <1>10
<1>13. claims' \in Seq(ClaimSet)
  <2>1. claims' \in [1..Cardinality(rows) -> ClaimSet]
    BY <1>10, <1>11
  <2> QED
    BY <1>10, <2>1
<1>14. ClaimsLaid'
  <2>1. \A c \in plan.claims : \E k \in DOMAIN claims' : claims'[k] = Row(c)
    BY ONLY <1>7, <1>10, <1>12
  <2>2. ASSUME NEW k \in DOMAIN claims'
        PROVE  \/ \E c \in plan.claims : claims'[k] = Row(c)
               \/ /\ ~plan.no_claims /\ ~Blocked(plan.unclaimed, claims'[k].loss)
                  /\ claims'[k].report <= claims'[k].loss + REPORT_LAG_CAP_DAYS
    BY <1>11, <1>12
  <2>3. ASSUME NEW j \in DOMAIN claims', NEW k \in DOMAIN claims',
               claims'[j].loss = claims'[k].loss
        PROVE  j = k
    <3>1. claims'[j] \in rows /\ claims'[k] \in rows
      BY <1>12
    <3>2. claims'[j] = claims'[k]
      BY <1>3, <2>3, <3>1
    <3> QED
      BY <1>10, <1>12, <3>2
  <2>5. \A c \in plan'.claims : \E k \in DOMAIN claims' : claims'[k] = Row(c)'
    BY <1>8, <1>9, <2>1
  <2>6. \A k \in DOMAIN claims' :
          \/ \E c \in plan'.claims : claims'[k] = Row(c)'
          \/ /\ ~plan'.no_claims /\ ~Blocked(plan'.unclaimed, claims'[k].loss)
             /\ claims'[k].report <= claims'[k].loss + REPORT_LAG_CAP_DAYS
    BY <1>8, <1>9, <2>2
  <2> QED
    BY <2>3, <2>5, <2>6 DEF ClaimsLaid, FromPlan, FromRest, Blocked
<1> QED
  BY <1>11, <1>12, <1>13, <1>14

\* The claims are drawn last: the tables stand, and the plan is carried out.
LEMMA BuildGold ==
  ASSUME ScenarioInv, Build
  PROVE  GoldInv'
<1> USE ScenariosAssumption, HistoryAssumption
<1>1. /\ UNCHANGED <<scenario, plan, ordinary, population, end_day, terminal_status,
                     reinstate_pending, changes, history, coverage, vehicles>>
      /\ phase' = "built" /\ NextDay > end_day
  BY ONLY Build DEF Build, planVars
<1>2. /\ DatasetTypeOK /\ RoundTripInv /\ DatesInv /\ TermInv /\ BooksInv /\ StartInv
      /\ end_day = DAY_ANCHOR /\ population = "ordinary"
  BY GoldParts DEF ScenarioInv, Begun
<1>3. /\ claims' \in Seq(ClaimSet)
      /\ \A k \in DOMAIN claims' : /\ claims'[k].loss < DAY_ANCHOR
                                   /\ claims'[k].loss + 1 <= claims'[k].report
  BY ONLY ScenarioInv, Build, BuildPlaces
<1>4. DatasetTypeOK'
  BY ONLY <1>1, <1>2, <1>3 DEF DatasetTypeOK, ClaimSet
<1>5. RoundTripInv'
  BY <1>1, <1>2, <1>4, SettledRoundTrip DEF planVars
<1>6. Current' = Current /\ NextRenewal' = NextRenewal /\ Renewals' = Renewals
  BY ONLY <1>1 DEF Current, Latest, NextRenewal, Renewals
<1>7. DatesInv'
  BY ONLY <1>1, <1>2, <1>6 DEF DatesInv, Ascends, Latest
<1>8. end_day < NextRenewal
  <2>1. NextDay \in Nat /\ NextDay <= NextRenewal
    BY NextDayExists
  <2>2. NextRenewal \in Int
    <3>1. Current \in Versions(Len(vehicles))
      BY <1>2, CurrentTyped
    <3> QED
      BY <3>1 DEF Versions, Days, NextRenewal, HistoryAssumption
  <2>3. DAY_ANCHOR \in Nat
    BY DEF HistoryAssumption
  <2> QED
    BY ONLY <1>1, <1>2, <2>1, <2>2, <2>3
<1>9. TermInv'
  BY ONLY <1>1, <1>2, <1>6, <1>8 DEF TermInv
<1>10. BooksInv'
  <2>1. NoOtherDeductible'
    BY ONLY <1>1, <1>2 DEF BooksInv, NoOtherDeductible
  <2>2. REPORT_LAG_MIN_DAYS = 1
    BY DEF ScenariosAssumption
  <2> QED
    BY ONLY <1>1, <1>2, <1>3, <2>1, <2>2 DEF BooksInv
<1>11. StartInv'
  BY ONLY <1>1, <1>2 DEF StartInv
<1> QED
  BY ONLY <1>5, <1>7, <1>9, <1>10, <1>11 DEF GoldInv, PolicyInv, HistoryInv

\* Building the claims keeps the invariant (_build_claims).
LEMMA BuildKeeps ==
  ASSUME ScenarioInv, Build
  PROVE  ScenarioInv'
<1> USE ScenariosAssumption, HistoryAssumption
<1>1. /\ UNCHANGED <<scenario, plan, ordinary, population, end_day, changes, history, coverage>>
      /\ stage = "evolving" /\ stage' = "built" /\ phase' = "built" /\ NextDay > end_day
  BY ONLY Build DEF Build, planVars
<1>2. Current' = Current /\ Planned' = Planned
  BY ONLY <1>1 DEF Current, Latest, Planned
<1>3. GoldInv' /\ ClaimsLaid'
  <2>1. GoldInv'
    BY BuildGold
  <2>2. ClaimsLaid'
    BY BuildPlaces
  <2> QED
    BY ONLY <2>1, <2>2
<1>4. Begun /\ Clear /\ Happened /\ AsPlanned /\ Laddered /\ LinesDated
  BY DEF ScenarioInv
<1>5. Begun'
  BY ONLY <1>1, <1>4 DEF Begun
<1>6. Clear' /\ Happened' /\ AsPlanned'
  BY ONLY <1>1, <1>2, <1>4 DEF Clear, Happened, AsPlanned, Blocked
<1>7. Laddered' /\ LinesDated'
  BY ONLY <1>1, <1>2, <1>4 DEF Laddered, LinesDated, LimitOf, DeductibleOf, Latest
<1>8. \A c \in Planned : c.day <= Current.from
  <2>1. ASSUME NEW c \in Planned
        PROVE  c.day <= Current.from
    <3>1. c.day \in Nat /\ c.day <= DAY_ANCHOR
      BY <1>4, PlannedDays
    <3>2. NextDay \in Nat /\ \A d \in Planned : d.day > Current.from => NextDay <= d.day
      BY NextDayExists
    <3>3. end_day = DAY_ANCHOR /\ DAY_ANCHOR \in Nat
      BY <1>4 DEF Begun, HistoryAssumption
    <3>4. Current.from \in Nat
      <4>1. DatasetTypeOK
        BY GoldParts DEF ScenarioInv
      <4>2. Current \in Versions(Len(vehicles))
        BY <4>1, CurrentTyped
      <4> QED
        BY <4>2, <3>3 DEF Versions, Days
    <3> QED
      BY ONLY c \in Planned, <1>1, <3>1, <3>2, <3>3, <3>4
  <2> QED
    BY <2>1
<1>9. Done'
  BY ONLY <1>2, <1>3, <1>8 DEF Done
<1> QED
  BY ONLY <1>3, <1>5, <1>6, <1>7, <1>9 DEF ScenarioInv

\* An assigned policy is at its inception.
LEMMA ScenarioStarts ==
  ASSUME ScenarioInit
  PROVE  ScenarioInv
<1> USE ScenariosAssumption, HistoryAssumption
<1>1. /\ Init /\ population = "ordinary" /\ scenario \in Scenario /\ stage = "assigned"
      /\ plan = NoPlan /\ ordinary = {}
  BY DEF ScenarioInit
<1>2. Inception(Limits, Deductibles)
  BY <1>1, InitIsInception
<1>3. GoldInv
  BY <1>2, GoldStarts
<1>4. Current.from = 0 /\ changes = {} /\ phase = "evolving"
  BY <1>2, FirstDay
<1>5. plan.changes = {} /\ Planned = {}
  BY <1>1 DEF NoPlan, Planned
<1>6. Begun
  <2>1. end_day = DAY_ANCHOR
    BY <1>1, <1>2 DEF Inception
  <2> QED
    BY ONLY <1>1, <1>2, <1>4, <2>1 DEF Begun
<1>7. Clear /\ Happened /\ AsPlanned /\ Laddered
  BY ONLY <1>1, <1>4, <1>5 DEF Clear, Happened, AsPlanned, Laddered
<1>8. LinesDated
  BY ONLY <1>2 DEF Inception, LinesDated, Latest
<1>9. Done
  BY ONLY <1>1 DEF Done
<1> QED
  BY ONLY <1>3, <1>6, <1>7, <1>8, <1>9 DEF ScenarioInv

\* Every step of the generator keeps the invariant.
LEMMA ScenarioKept ==
  ASSUME ScenarioInv, [ScenarioNext]_<<vars, scenarioVars>>
  PROVE  ScenarioInv'
<1> USE ScenariosAssumption, HistoryAssumption
<1>1. ASSUME NEW p \in Plans(scenario), Plant(p)
      PROVE  ScenarioInv'
  BY <1>1, PlantKeeps
<1>2. ASSUME NEW day \in Sensitive, NEW k \in PolicyKeys \cup LineKeys, LayChange(day, k)
      PROVE  ScenarioInv'
  BY <1>2, LayKeeps
<1>3. CASE Evolve
  <2>1. PICK day \in Days : \E keys \in SUBSET (PolicyKeys \cup LineKeys) : Evolved(day, keys)
    BY <1>3, EvolveBounds
  <2>2. PICK keys \in SUBSET (PolicyKeys \cup LineKeys) : Evolved(day, keys)
    BY <2>1
  <2> QED
    BY <2>2, EvolveKeeps
<1>4. CASE Build
  BY <1>4, BuildKeeps
<1>5. CASE UNCHANGED <<vars, scenarioVars>>
  BY <1>5, StutterKeeps
<1> QED
  BY <1>1, <1>2, <1>3, <1>4, <1>5 DEF ScenarioNext

\* A run of the generator carries its plan out, whatever is drawn: every planted
\* change is made on its day, in its direction, and no other change falls in a
\* window that was kept clear of them (Builder.run).
THEOREM ScenarioHolds == ScenarioSpec => []ScenarioInv
<1>1. ScenarioInit => ScenarioInv
  BY ScenarioStarts, ScenariosAssumption, HistoryAssumption
<1>2. ScenarioInv /\ [ScenarioNext]_<<vars, scenarioVars>> => ScenarioInv'
  BY ScenarioKept, ScenariosAssumption, HistoryAssumption
<1> QED
  BY <1>1, <1>2, PTL DEF ScenarioSpec

-----------------------------------------------------------------------------
(* What is built: the rows and the claims of a story. *)

Built == ScenarioInv /\ stage = "built"

\* What holds of a policy that is built.
LEMMA BuiltParts ==
  ASSUME Built
  PROVE  /\ ScenarioInv /\ GoldInv /\ RoundTripInv /\ DatasetTypeOK /\ ChangesRoundTrip
         /\ DatesInv /\ BooksInv
         /\ Begun /\ Clear /\ Happened /\ AsPlanned /\ Laddered /\ LinesDated /\ ClaimsLaid
         /\ plan \in Plans(scenario) /\ scenario \in Scenario /\ end_day = DAY_ANCHOR
         /\ \A c \in Planned : c.day <= Current.from
<1>1. ScenarioInv /\ stage = "built"
  BY DEF Built
<1>2. GoldInv /\ Begun /\ Clear /\ Happened /\ AsPlanned /\ Laddered /\ LinesDated /\ Done
  BY ONLY <1>1 DEF ScenarioInv
<1>3. /\ plan \in Plans(scenario) /\ scenario \in Scenario /\ end_day = DAY_ANCHOR
  BY ONLY <1>1, <1>2 DEF Begun
<1>4. ClaimsLaid /\ \A c \in Planned : c.day <= Current.from
  BY ONLY <1>1, <1>2 DEF Done
<1>5. RoundTripInv /\ DatasetTypeOK /\ ChangesRoundTrip /\ DatesInv /\ BooksInv
  BY <1>2, GoldParts
<1> QED
  BY ONLY <1>1, <1>2, <1>3, <1>4, <1>5

\* The rows the validator finds: each planted change has one, and every other
\* one is on a day that was not kept clear.
RowsShown ==
  /\ ValidatorRows = Material(ChangeRows) /\ ValidatorRows \subseteq ChangeRows
  /\ Material(changes) = ValidatorRows
  /\ \A c \in plan.changes : \E row \in ValidatorRows : Answers(row, c)
  /\ \A row \in ValidatorRows :
       /\ row.day \in Nat /\ row.day <= DAY_ANCHOR
       /\ (\E c \in plan.changes : Answers(row, c)) \/ ~Blocked(plan.quiet, row.day)
  /\ \A r, s \in ValidatorRows :
       r.day = s.day /\ r.category = s.category /\ r.line = s.line => r = s

\* Every planned change has its row, and every row its planned change.
LEMMA RowsTell ==
  ASSUME Built
  PROVE  RowsShown
<1> USE ScenariosAssumption, HistoryAssumption
<1>1. /\ DatasetTypeOK /\ ChangesRoundTrip /\ DatesInv /\ BooksInv
      /\ Begun /\ Clear /\ Happened /\ AsPlanned
      /\ \A c \in Planned : c.day <= Current.from
  BY BuiltParts
<1>2. ValidatorRows = Material(ChangeRows)
  BY <1>1, RowsAgree
<1>3. ValidatorRows \subseteq ChangeRows /\ \A r \in ValidatorRows : r.category \in MATERIAL_CATEGORIES
  BY ONLY <1>2 DEF Material
<1>4. \A c : c.category \in MATERIAL_CATEGORIES => (c \in ValidatorRows <=> c \in changes)
  BY <1>1, <1>2, MaterialChanges
<1>5. Material(changes) = ValidatorRows
  BY ONLY <1>3, <1>4 DEF Material
<1>6. ASSUME NEW c \in plan.changes
      PROVE  \E row \in ValidatorRows : Answers(row, c)
  <2>1. PlanFits(plan)
    BY <1>1, PlanNowFits
  <2>2. c.category \in MATERIAL_CATEGORIES
    BY ONLY c \in plan.changes, <2>1 DEF PlanFits, ChangeFits, MATERIAL_CATEGORIES
  <2>3. c \in Planned /\ c.day <= Current.from
    BY <1>1 DEF Planned
  <2>4. PICK row \in changes : Answers(row, c)
    BY ONLY <1>1, <2>3 DEF Happened
  <2>5. row.category = c.category
    BY ONLY <2>4 DEF Answers
  <2> QED
    BY ONLY <1>4, <2>2, <2>4, <2>5
<1>7. ASSUME NEW row \in ValidatorRows
      PROVE  /\ row.day \in Nat /\ row.day <= DAY_ANCHOR
             /\ (\E c \in plan.changes : Answers(row, c)) \/ ~Blocked(plan.quiet, row.day)
  <2>1. row \in ChangeRows /\ row \in changes
    BY <1>3, <1>4
  <2>2. row.day \in Days
    BY <1>1, <2>1, RowTyped
  <2>3. row.day \in Nat /\ row.day <= DAY_ANCHOR
    BY <2>2 DEF Days, HistoryAssumption
  <2>4. PICK c \in Planned : Answers(row, c)
    BY ONLY <1>1, <2>1 DEF AsPlanned
  <2>5. CASE c \in plan.changes
    BY ONLY <2>3, <2>4, <2>5
  <2>6. CASE c \in ordinary
    <3>1. ~Blocked(plan.quiet, c.day) /\ row.day = c.day
      BY ONLY <1>1, <2>4, <2>6 DEF Clear, Answers
    <3> QED
      BY ONLY <2>3, <3>1
  <2> QED
    BY <2>4, <2>5, <2>6 DEF Planned
<1>8. ASSUME NEW r \in ValidatorRows, NEW s \in ValidatorRows,
             r.day = s.day, r.category = s.category, r.line = s.line
      PROVE  r = s
  BY <1>1, <1>3, <1>8, RowKey
<1> QED
  BY ONLY <1>2, <1>3, <1>5, <1>6, <1>7, <1>8 DEF RowsShown

\* A planted change has its one row.
LEMMA OneRow ==
  ASSUME RowsShown, NEW c \in plan.changes
  PROVE  \E row \in ValidatorRows :
           /\ Answers(row, c)
           /\ \A r \in ValidatorRows : Answers(r, c) => r = row
BY DEF RowsShown, Answers

\* Around a policy that was kept quiet there is nothing but the plan.
LEMMA OnlyPlanned ==
  ASSUME RowsShown, plan.quiet = {Always}
  PROVE  \A row \in ValidatorRows : \E c \in plan.changes : Answers(row, c)
<1>1. ASSUME NEW row \in ValidatorRows
      PROVE  \E c \in plan.changes : Answers(row, c)
  <2>1. /\ row.day \in Nat /\ row.day <= DAY_ANCHOR
        /\ (\E c \in plan.changes : Answers(row, c)) \/ ~Blocked(plan.quiet, row.day)
    BY DEF RowsShown
  <2>2. Blocked({Always}, row.day)
    BY ONLY <2>1 DEF Blocked, Always
  <2> QED
    BY ONLY <2>1, <2>2, plan.quiet = {Always}
<1> QED
  BY <1>1

\* The claim of a story: the only one of its loss day, and every other one is on
\* a day that was kept open.
Told(k, loss, report, line) ==
  /\ k \in DOMAIN claims /\ Story = {k}
  /\ claims[k].loss = loss /\ claims[k].report = report /\ claims[k].line = line
  /\ loss \in Nat /\ report \in Nat /\ line \in Lines
  /\ claims[k].amount \in Nat
  /\ loss < report /\ report <= DAY_ANCHOR
  /\ \A j \in DOMAIN claims : /\ claims[j].loss = loss => j = k
                              /\ j = k \/ FromRest(j)

\* The claim of the story is in the table.
LEMMA StoryTold ==
  ASSUME Built, NEW c, plan.claims = {c}, c.report <= DAY_ANCHOR
  PROVE  \E k \in DOMAIN claims :
           Told(k, c.loss, c.report, c.line) /\ claims[k].amount = Settled(c)
<1> USE ScenariosAssumption, HistoryAssumption
<1>1. ScenarioInv /\ ClaimsLaid /\ DatasetTypeOK
  BY BuiltParts
<1>2. c \in plan.claims
  OBVIOUS
<1>3. RowFitsPlan(c)
  BY <1>1, <1>2, RowFits
<1>4. DAY_ANCHOR \in Nat
  BY Dates
<1>5. /\ c.line \in Lines /\ c.loss \in Nat /\ c.report \in Nat /\ c.loss + 1 <= c.report
      /\ Row(c).loss = c.loss /\ Row(c).line = c.line
      /\ Row(c).report = (IF c.report < DAY_ANCHOR THEN c.report ELSE DAY_ANCHOR)
      /\ Row(c).amount \in Nat
  <2>1. Row(c) \in ClaimSet /\ ClaimFits(c) 
        /\ Row(c).loss = c.loss /\ Row(c).line = c.line
        /\ Row(c).report = (IF c.report < DAY_ANCHOR THEN c.report ELSE DAY_ANCHOR)
    BY ONLY <1>3 DEF RowFitsPlan
  <2>2. Row(c).amount \in Nat
    BY ONLY <2>1 DEF ClaimSet
  <2> QED
    BY ONLY <2>1, <2>2 DEF ClaimFits
<1>6. Row(c).report = c.report
  BY ONLY <1>4, <1>5, c.report <= DAY_ANCHOR
<1>7. PICK k \in DOMAIN claims : claims[k] = Row(c)
  BY ONLY <1>1, <1>2 DEF ClaimsLaid
<1>8. \A j \in DOMAIN claims : claims[j].loss = c.loss => j = k
  BY ONLY <1>1, <1>5, <1>7 DEF ClaimsLaid
<1>9. \A j \in DOMAIN claims : j = k \/ FromRest(j)
  <2>1. ASSUME NEW j \in DOMAIN claims, FromPlan(j)
        PROVE  j = k
    <3>1. claims[j] = Row(c)
      BY ONLY <2>1, plan.claims = {c} DEF FromPlan
    <3> QED
      BY ONLY j \in DOMAIN claims, <1>5, <1>8, <3>1
  <2> QED
    BY ONLY <1>1, <2>1 DEF ClaimsLaid
<1>10. Story = {k}
  <2>1. Story = {j \in DOMAIN claims : claims[j].loss = c.loss}
    BY ONLY plan.claims = {c} DEF Story
  <2> QED
    BY ONLY <1>5, <1>7, <1>8, <2>1
<1>11. claims[k].amount = Settled(c)
  BY ONLY <1>7 DEF Row
<1> QED
  BY ONLY <1>4, <1>5, <1>6, <1>7, <1>8, <1>9, <1>10, <1>11, c.report <= DAY_ANCHOR DEF Told

\* A policy that was kept free of other claims has none.
Closed == plan.no_claims = TRUE \/ plan.unclaimed = {Always}

\* Where no ordinary claim may be laid the story is the only claim.
LEMMA StoryAlone ==
  ASSUME Built, NEW k, NEW loss, NEW report, NEW line, Told(k, loss, report, line), Closed
  PROVE  DOMAIN claims = {k}
<1> USE HistoryAssumption
<1>1. DatasetTypeOK
  BY BuiltParts
<1>2. ASSUME NEW j \in DOMAIN claims
      PROVE  j = k
  <2>1. claims[j].loss \in Days
    BY <1>1, ClaimTyped
  <2>2. Blocked({Always}, claims[j].loss)
    BY ONLY <2>1 DEF Blocked, Always, Days
  <2>3. ~FromRest(j)
    BY ONLY <2>2, Closed DEF FromRest, Closed
  <2> QED
    BY ONLY j \in DOMAIN claims, <2>3, Told(k, loss, report, line) DEF Told
<1>3. k \in DOMAIN claims
  BY ONLY Told(k, loss, report, line) DEF Told
<1> QED
  BY ONLY <1>2, <1>3

\* Where a policy has no planted claim and takes no other it has none.
LEMMA NoClaims ==
  ASSUME Built, UnclaimedStory(plan)
  PROVE  claims = <<>>
<1> USE HistoryAssumption
<1>1. DatasetTypeOK /\ ClaimsLaid
  BY BuiltParts
<1>2. \A k \in DOMAIN claims : FALSE
  BY ONLY <1>1, UnclaimedStory(plan) DEF ClaimsLaid, FromPlan, FromRest, UnclaimedStory
<1>3. claims \in Seq(ClaimSet)
  BY <1>1, TablesTyped
<1>4. Len(claims) \in Nat /\ DOMAIN claims = 1..Len(claims)
  BY ONLY <1>3
<1>5. Len(claims) = 0
  <2>1. Len(claims) >= 1 => 1 \in DOMAIN claims
    BY ONLY <1>4
  <2> QED
    BY ONLY <1>2, <1>4, <2>1
<1> QED
  BY ONLY <1>3, <1>5

\* A claim of the story is the only one of its day.
LEMMA AtTold ==
  ASSUME NEW k, NEW offset, NEW report, NEW line, Told(k, Ago(offset), report, line)
  PROVE  At(offset) = {k} /\ OneClaim(offset)
<1>1. At(offset) = {k}
  BY DEF At, Told
<1>2. Cardinality({k}) = 1
  BY ONLY FS_Singleton
<1> QED
  BY ONLY <1>1, <1>2 DEF OneClaim

-----------------------------------------------------------------------------
(* The shapes (check_scenario_shapes). *)

\* A share of ninety per cent or more of a limit in whole hundreds comes near it.
LEMMA NearShare ==
  ASSUME NEW limit \in Nat, limit % 100 = 0, NEW share \in Nat, share >= 90
  PROVE  ((limit * share) \div 100) * 100 >= 90 * limit
<1>1. PICK q \in Nat : limit = 100 * q
  <2>1. limit = 100 * (limit \div 100) /\ limit \div 100 \in Nat
    OBVIOUS
  <2> QED
    BY <2>1
<1>2. PICK t \in Nat : share = 90 + t
  <2>1. share - 90 \in Nat /\ share = 90 + (share - 90)
    OBVIOUS
  <2> QED
    BY <2>1
<1>3. q * t \in Nat
  BY <1>1, <1>2
<1>4. limit * share = 100 * (90 * q + q * t)
  BY <1>1, <1>2
<1>5. (limit * share) \div 100 = 90 * q + q * t
  <2> DEFINE x == 90 * q + q * t
  <2>1. x \in Nat
    BY <1>1, <1>3
  <2> HIDE DEF x
  <2>2. (100 * x) \div 100 = x
    BY ONLY <2>1
  <2> QED
    BY <1>4, <2>2 DEF x
<1> QED
  BY ONLY <1>1, <1>3, <1>5

\* Close to a limit is at least nine tenths of it, and not above it.
LEMMA NearAmount ==
  ASSUME NEW limit \in Nat, limit >= 100
  PROVE  Near(limit) \in Nat /\ Near(limit) * 100 >= 90 * limit /\ Near(limit) <= limit
BY DEF Near, LIMIT_UTILISATION

\* The version that covers a loss is the one limit_at looks up.
LEMMA NearShows ==
  ASSUME DatasetTypeOK, DatesInv,
         NEW k \in DOMAIN claims, claims[k].amount * 100 >= 90 * LimitAt(claims[k].line, claims[k].loss)
  PROVE  NearLimit(k)
<1> USE HistoryAssumption
<1>1. claims[k].line \in Lines /\ claims[k].loss \in Days
  BY ClaimTyped
<1> DEFINE rows == coverage[claims[k].line]
<1>2. PICK i \in DOMAIN rows :
        /\ Covering(rows, claims[k].loss) = {i}
        /\ LimitAt(claims[k].line, claims[k].loss) = rows[i].limit
  <2>1. \A l \in Lines : \A day \in Days :
          \E i \in DOMAIN coverage[l] : /\ Covering(coverage[l], day) = {i}
                                        /\ LimitAt(l, day) = coverage[l][i].limit
    BY LimitInForce
  <2> QED
    BY ONLY <1>1, <2>1
<1>3. i \in Covering(rows, claims[k].loss)
  BY ONLY <1>2
<1>4. rows[i].from <= claims[k].loss /\ claims[k].loss < EffectiveTo(rows, i)
  BY ONLY <1>3 DEF Covering
<1> QED
  BY <1>2, <1>4 DEF NearLimit

\* After its planted raise a line stays at its limit, to the day of the loss.
LEMMA StandsRaised ==
  ASSUME Built, plan.quiet = {Always},
         NEW c \in plan.changes, c.category = "coverage", c.direction # "any", c.forced # 0,
         NEW l \in Lines, c.line = l, \A d \in plan.changes : d.line = l => d = c,
         NEW day \in Days, c.day <= day
  PROVE  LimitAt(l, day) = c.forced
<1> USE ScenariosAssumption, HistoryAssumption
<1>1. /\ DatasetTypeOK /\ DatesInv /\ Begun /\ Clear /\ Laddered /\ LinesDated
      /\ \A d \in Planned : d.day <= Current.from
  BY BuiltParts
<1>2. ordinary = {}
  BY <1>1, QuietAlways
<1>3. Planned = plan.changes
  BY ONLY <1>2 DEF Planned
<1>4. /\ c.day \in Nat /\ c.day <= Current.from
  <2>1. PlanFits(plan)
    BY <1>1, PlanNowFits
  <2> QED
    BY ONLY <1>1, <1>3, <2>1, c \in plan.changes DEF PlanFits, ChangeFits
<1>5. Current.from \in Nat
  <2>1. Current \in Versions(Len(vehicles))
    BY <1>1, CurrentTyped
  <2> QED
    BY <2>1, Dates DEF Versions, Days
<1>6. LimitOf(l) = c.forced
  <2>1. ~(c.day > Current.from)
    BY ONLY <1>4, <1>5
  <2> QED
    BY ONLY <1>1, <2>1, c \in plan.changes, c.category = "coverage", c.direction # "any",
            c.forced # 0, c.line = l DEF Laddered
<1>7. Latest(coverage[l]).from = 0 \/ Latest(coverage[l]).from = c.day
  BY ONLY <1>1, <1>3, l \in Lines, \A d \in plan.changes : d.line = l => d = c DEF LinesDated
<1>8. Latest(coverage[l]).from <= day
  <2>1. day \in Nat
    BY Dates DEF Days
  <2> QED
    BY ONLY <1>4, <1>7, <2>1, c.day <= day
<1>9. PICK i \in DOMAIN coverage[l] :
        /\ \A j \in DOMAIN coverage[l] : coverage[l][j].from <= day <=> j <= i
        /\ LimitAt(l, day) = coverage[l][i].limit
  BY <1>1, LimitInForce
<1>10. coverage[l] \in Seq(CoverageVersions) /\ coverage[l] # <<>>
  <2>1. coverage[l] \in Seq(CoverageVersions)
    BY <1>1, TablesTyped
  <2> QED
    BY ONLY <1>1, <2>1, l \in Lines DEF DatesInv, Ascends
<1>11. Len(coverage[l]) \in Nat /\ Len(coverage[l]) \in DOMAIN coverage[l]
       /\ DOMAIN coverage[l] = 1..Len(coverage[l])
  BY ONLY <1>10
<1>12. i = Len(coverage[l])
  <2>1. Len(coverage[l]) <= i
    BY ONLY <1>8, <1>9, <1>11 DEF Latest
  <2> QED
    BY ONLY <1>9, <1>11, <2>1
<1> QED
  BY ONLY <1>6, <1>9, <1>12 DEF LimitOf, Latest

\* What the tables show of a story of a raised limit.
RaisedTables(k, row, new, raise, loss, report) ==
  /\ Told(k, Ago(loss), report, COLL) /\ DOMAIN claims = {k}
  /\ claims[k].amount = Near(new) /\ claims[k].amount * 100 >= 90 * new
  /\ LimitAt(COLL, Ago(loss)) = new
  /\ row \in ValidatorRows /\ row.day = Ago(raise) /\ row.category = "coverage"
  /\ row.line = COLL /\ row.direction = "increase"

\* The raise and the claim are in the tables.
LEMMA RaisedShown ==
  ASSUME Built, NEW s, NEW old, NEW new \in Limits, NEW raise \in Nat, NEW loss \in Nat,
         NEW report \in Nat, RaisedStory(s, plan, old, new, raise, loss, report)
  PROVE  \E k \in DOMAIN claims : \E row \in ValidatorRows :
           RaisedTables(k, row, new, raise, loss, report)
<1> USE ScenariosAssumption, HistoryAssumption
<1> DEFINE c == Move(Ago(raise), "coverage", COLL, new, "increase")
           planted == Claim(Ago(loss), report, COLL, Near(new))
<1>1. /\ c.day = Ago(raise) /\ c.category = "coverage" /\ c.line = COLL /\ c.forced = new
      /\ c.direction = "increase" /\ c.direction # "any"
  BY ONLY DEF Move
<1>2. /\ planted.loss = Ago(loss) /\ planted.report = report /\ planted.line = COLL
      /\ planted.amount = Near(new) /\ planted.share = 0
  BY ONLY DEF Claim
<1>3. /\ c \in plan.changes /\ plan.claims = {planted}
      /\ plan.quiet = {Always} /\ plan.unclaimed = {Always} /\ report <= DAY_ANCHOR
  BY ONLY RaisedStory(s, plan, old, new, raise, loss, report) DEF RaisedStory
<1>4. /\ loss < raise /\ raise <= 66 /\ 17 <= loss
  BY ONLY RaisedStory(s, plan, old, new, raise, loss, report) DEF RaisedStory
<1>5. DAY_ANCHOR \in Nat /\ DAY_ANCHOR >= 400 /\ COLL \in Lines
  BY Dates
<1>6. new \in Nat /\ new >= 100 /\ new # 0
  <2>1. new \in Nat \ {0} /\ new % 100 = 0
    BY DEF HistoryAssumption, ScenariosAssumption
  <2> QED
    BY ONLY <2>1
<1>7. \A d \in plan.changes : d.line = COLL => d = c
  <2>1. \A d \in DemoSpine : d.line = NoLine
    BY ONLY DEF DemoSpine, Change
  <2>2. COLL # NoLine
    BY <1>5 DEF HistoryAssumption
  <2>3. plan.changes = {c} \cup (IF s = "demo" THEN DemoSpine ELSE {})
    BY ONLY RaisedStory(s, plan, old, new, raise, loss, report) DEF RaisedStory
  <2> HIDE DEF c
  <2> QED
    BY ONLY <2>1, <2>2, <2>3
<1>8. Ago(loss) \in Days /\ Ago(raise) <= Ago(loss)
  BY ONLY <1>4, <1>5, loss \in Nat, raise \in Nat DEF Ago, Days
<1> HIDE DEF c, planted
<1>9. LimitAt(COLL, Ago(loss)) = new
  <2>1. LimitAt(COLL, Ago(loss)) = c.forced
    BY <1>1, <1>3, <1>5, <1>6, <1>7, <1>8, StandsRaised
  <2> QED
    BY <1>1, <2>1
<1>10. PICK k \in DOMAIN claims :
         Told(k, planted.loss, planted.report, planted.line) /\ claims[k].amount = Settled(planted)
  BY <1>2, <1>3, StoryTold
<1>11. Told(k, Ago(loss), report, COLL) /\ claims[k].amount = Near(new)
  BY ONLY <1>2, <1>10 DEF Settled
<1>12. DOMAIN claims = {k}
  <2>1. Closed
    BY ONLY <1>3 DEF Closed
  <2> QED
    BY ONLY Built, <1>11, <2>1, StoryAlone
<1>13. claims[k].amount * 100 >= 90 * new
  BY <1>6, <1>11, NearAmount
<1>14. RowsShown
  BY RowsTell
<1>15. PICK row \in ValidatorRows : Answers(row, c)
  BY ONLY <1>3, <1>14 DEF RowsShown
<1>16. /\ row.day = Ago(raise) /\ row.category = "coverage" /\ row.line = COLL
       /\ row.direction = "increase"
  BY ONLY <1>1, <1>15 DEF Answers
<1>17. RaisedTables(k, row, new, raise, loss, report)
  BY ONLY <1>9, <1>11, <1>12, <1>13, <1>16, row \in ValidatorRows DEF RaisedTables
<1> QED
  BY ONLY <1>17, k \in DOMAIN claims, row \in ValidatorRows

-----------------------------------------------------------------------------
\* Rows that differ are as many as they are named.
LEMMA ThreeOf ==
  ASSUME NEW a, NEW b, NEW c, a # b, a # c, b # c
  PROVE  IsFiniteSet({a, b, c}) /\ Cardinality({a, b, c}) = 3
<1>1. IsFiniteSet({a}) /\ Cardinality({a}) = 1
  BY ONLY FS_Singleton
<1>2. IsFiniteSet({a} \cup {b}) /\ Cardinality({a} \cup {b}) = 2
  BY ONLY <1>1, FS_AddElement, a # b
<1> DEFINE T == {a} \cup {b}
<1>3. c \notin T
  BY ONLY a # c, b # c
<1> HIDE DEF T
<1>4. IsFiniteSet(T \cup {c}) /\ Cardinality(T \cup {c}) = 3
  <2>1. IsFiniteSet(T) /\ Cardinality(T) = 2
    BY ONLY <1>2 DEF T
  <2> QED
    BY ONLY <1>3, <2>1, FS_AddElement
<1>5. T \cup {c} = {a, b, c}
  BY ONLY DEF T
<1> QED
  BY ONLY <1>4, <1>5

\* Four different things are four.
LEMMA FourOf ==
  ASSUME NEW a, NEW b, NEW c, NEW d, a # b, a # c, b # c, d \notin {a, b, c}
  PROVE  IsFiniteSet({a, b, c, d}) /\ Cardinality({a, b, c, d}) = 4
<1> DEFINE T == {a, b, c}
<1>1. IsFiniteSet(T) /\ Cardinality(T) = 3
  BY ThreeOf
<1> HIDE DEF T
<1>2. d \notin T
  BY ONLY d \notin {a, b, c} DEF T
<1>3. IsFiniteSet(T \cup {d}) /\ Cardinality(T \cup {d}) = 4
  BY ONLY <1>1, <1>2, FS_AddElement
<1>4. T \cup {d} = {a, b, c, d}
  BY ONLY DEF T
<1> QED
  BY ONLY <1>3, <1>4

\* Each of the stories of a raised limit is shaped as the validator demands.
LEMMA RaisedShape ==
  ASSUME NEW k, NEW row, NEW new, NEW raise, NEW loss, NEW report,
         RaisedTables(k, row, new, raise, loss, report)
  PROVE  /\ OneClaim(loss) /\ At(loss) = {k} /\ claims[k].line = COLL
         /\ \E c \in MovesAt("coverage", raise) : c.line = COLL /\ c.direction = "increase"
<1>1. Told(k, Ago(loss), report, COLL)
  BY DEF RaisedTables
<1>2. At(loss) = {k} /\ OneClaim(loss)
  BY <1>1, AtTold
<1>3. claims[k].line = COLL
  BY <1>1 DEF Told
<1>4. row \in MovesAt("coverage", raise) /\ row.line = COLL /\ row.direction = "increase"
  BY DEF RaisedTables, MovesAt, Moves
<1> QED
  BY ONLY <1>2, <1>3, <1>4

\* The exemplar has three changes in the sixty days before its loss, and no other.
DemoWindow ==
  LET loss   == Ago(S1_LOSS_OFFSET)
      window == {c \in ValidatorRows : loss - 60 < c.day /\ c.day <= loss}
      Only(day) == {c.category : c \in {d \in window : d.day = day}}
  IN /\ Cardinality(window) = 3
     /\ Only(Ago(S1_EXEMPLAR_ADDRESS_OFFSET)) = {"address"}
     /\ Only(Ago(S1_COVERAGE_RAISE_OFFSET)) = {"coverage"}
     /\ Only(Ago(S1_EXEMPLAR_VEHICLE_OFFSET)) = {"vehicle"}

\* The three rows of the exemplar.
DemoRows(a, b, c) ==
  /\ ValidatorRows = {a, b, c}
  /\ a.category = "address" /\ a.day = Ago(55)
  /\ b.category = "coverage" /\ b.day = Ago(41)
  /\ c.category = "vehicle" /\ c.day = Ago(30)

\* The three changes of the exemplar are in the tables.
LEMMA DemoShown ==
  ASSUME Built, NEW old, NEW new, NEW report,
         RaisedStory("demo", plan, old, new, 41, 17, report)
  PROVE  \E a \in ValidatorRows : \E b \in ValidatorRows : \E c \in ValidatorRows :
           DemoRows(a, b, c)
<1> USE ScenariosAssumption, HistoryAssumption
<1> DEFINE x == Change(Ago(55), "address")
           y == Move(Ago(41), "coverage", COLL, new, "increase")
           z == Change(Ago(30), "vehicle")
<1>1. /\ x.day = Ago(55) /\ x.category = "address"
      /\ y.day = Ago(41) /\ y.category = "coverage"
      /\ z.day = Ago(30) /\ z.category = "vehicle"
  BY ONLY DEF Change, Move
<1>2. plan.changes = {x, y, z} /\ plan.quiet = {Always}
  BY ONLY RaisedStory("demo", plan, old, new, 41, 17, report)
  DEF RaisedStory, DemoSpine, S1_EXEMPLAR_ADDRESS_OFFSET, S1_EXEMPLAR_VEHICLE_OFFSET
<1> HIDE DEF x, y, z
<1>3. RowsShown
  BY RowsTell
<1>4. x \in plan.changes /\ y \in plan.changes /\ z \in plan.changes
  BY ONLY <1>2
<1>5. PICK a \in ValidatorRows : Answers(a, x) /\ \A r \in ValidatorRows : Answers(r, x) => r = a
  BY <1>3, <1>4, OneRow
<1>6. PICK b \in ValidatorRows : Answers(b, y) /\ \A r \in ValidatorRows : Answers(r, y) => r = b
  BY <1>3, <1>4, OneRow
<1>7. PICK c \in ValidatorRows : Answers(c, z) /\ \A r \in ValidatorRows : Answers(r, z) => r = c
  BY <1>3, <1>4, OneRow
<1>8. \A r \in ValidatorRows : \E d \in plan.changes : Answers(r, d)
  BY <1>2, <1>3, OnlyPlanned
<1>9. ValidatorRows = {a, b, c}
  BY ONLY <1>2, <1>5, <1>6, <1>7, <1>8
<1>10. DemoRows(a, b, c)
  BY ONLY <1>1, <1>5, <1>6, <1>7, <1>9 DEF Answers, DemoRows
<1> QED
  BY ONLY <1>10, <1>9

\* The exemplar has its shape (check_scenario_shapes).
LEMMA DemoShape ==
  ASSUME NEW a, NEW b, NEW c, DemoRows(a, b, c)
  PROVE  DemoWindow
<1> USE ScenariosAssumption, HistoryAssumption
<1>1. DAY_ANCHOR \in Nat /\ DAY_ANCHOR >= 400
  BY Dates
<1>2. /\ Ago(17) - 60 < Ago(55) /\ Ago(55) < Ago(41) /\ Ago(41) < Ago(30) /\ Ago(30) <= Ago(17)
      /\ Ago(55) <= Ago(17) /\ Ago(41) <= Ago(17)
      /\ Ago(17) - 60 < Ago(41) /\ Ago(17) - 60 < Ago(30)
      /\ Ago(55) # Ago(41) /\ Ago(55) # Ago(30) /\ Ago(41) # Ago(30)
  BY ONLY <1>1 DEF Ago
<1>3. a # b /\ a # c /\ b # c
  BY ONLY <1>2, DemoRows(a, b, c) DEF DemoRows
<1> DEFINE window == {r \in ValidatorRows : Ago(17) - 60 < r.day /\ r.day <= Ago(17)}
<1>4. window = {a, b, c}
  BY ONLY <1>2, DemoRows(a, b, c) DEF DemoRows
<1>5. Cardinality(window) = 3
  <2>1. Cardinality({a, b, c}) = 3
    BY ONLY <1>3, ThreeOf
  <2> QED
    BY ONLY <1>4, <2>1
<1>6. /\ {r \in window : r.day = Ago(55)} = {a} /\ {r \in window : r.day = Ago(41)} = {b}
      /\ {r \in window : r.day = Ago(30)} = {c}
  BY ONLY <1>2, <1>4, DemoRows(a, b, c) DEF DemoRows
<1>7. /\ {r.category : r \in {a}} = {"address"} /\ {r.category : r \in {b}} = {"coverage"}
      /\ {r.category : r \in {c}} = {"vehicle"}
  BY ONLY DemoRows(a, b, c) DEF DemoRows
<1> QED
  BY ONLY <1>5, <1>6, <1>7
  DEF DemoWindow, S1_LOSS_OFFSET, S1_EXEMPLAR_ADDRESS_OFFSET, S1_COVERAGE_RAISE_OFFSET,
      S1_EXEMPLAR_VEHICLE_OFFSET

\* S2: the row of the cut, and the claim.
CutTables(k, row, amount, report) ==
  /\ Told(k, Ago(20), report, COMP) /\ DOMAIN claims = {k}
  /\ row \in ValidatorRows /\ row.day = Ago(52) /\ row.category = "deductible"
  /\ row.line = COMP /\ row.direction = "decrease"
  /\ \A r \in ValidatorRows : r = row

\* The cut and the claim are in the tables.
LEMMA CutShown ==
  ASSUME Built, NEW limit \in Limits, NEW amount \in Nat, NEW report \in Nat,
         CutStory(plan, limit, amount, report)
  PROVE  \E k \in DOMAIN claims : \E row \in ValidatorRows : CutTables(k, row, amount, report)
<1> USE ScenariosAssumption, HistoryAssumption
<1> DEFINE c == Move(Ago(52), "deductible", COMP, 250, "decrease")
           planted == Claim(Ago(20), report, COMP, amount)
<1>1. /\ c.day = Ago(52) /\ c.category = "deductible" /\ c.line = COMP
      /\ c.direction = "decrease" /\ c.direction # "any"
  BY ONLY DEF Move
<1>2. planted.loss = Ago(20) /\ planted.report = report /\ planted.line = COMP
  BY ONLY DEF Claim
<1>3. /\ plan.changes = {c} /\ plan.claims = {planted} /\ report <= DAY_ANCHOR
      /\ plan.quiet = {Always} /\ plan.unclaimed = {Always}
  BY ONLY CutStory(plan, limit, amount, report) DEF CutStory
<1> HIDE DEF c, planted
<1>4. PICK k \in DOMAIN claims : Told(k, planted.loss, planted.report, planted.line)
  BY <1>2, <1>3, StoryTold
<1>5. Told(k, Ago(20), report, COMP)
  BY ONLY <1>2, <1>4
<1>6. DOMAIN claims = {k}
  <2>1. Closed
    BY ONLY <1>3 DEF Closed
  <2> QED
    BY ONLY Built, <1>5, <2>1, StoryAlone
<1>7. RowsShown
  BY RowsTell
<1>8. PICK row \in ValidatorRows : Answers(row, c) /\ \A r \in ValidatorRows : Answers(r, c) => r = row
  BY <1>3, <1>7, OneRow
<1>9. \A r \in ValidatorRows : \E d \in plan.changes : Answers(r, d)
  BY <1>3, <1>7, OnlyPlanned
<1>10. \A r \in ValidatorRows : r = row
  BY ONLY <1>3, <1>8, <1>9
<1>11. CutTables(k, row, amount, report)
  BY ONLY <1>1, <1>5, <1>6, <1>8, <1>10 DEF Answers, CutTables
<1> QED
  BY ONLY <1>11, k \in DOMAIN claims, row \in ValidatorRows

\* S3: the row of the move, and the claim it falls in the gap of.
GapTables(k, row, line) ==
  /\ Told(k, Ago(34), Ago(19), line)
  /\ row \in ValidatorRows /\ row.day = Ago(28) /\ row.category = "address"
  /\ \A r \in ValidatorRows : r = row \/ r.day < Ago(164)
  /\ \A j \in DOMAIN claims : j = k \/ (claims[j].loss < Ago(164) /\ claims[j].report < Ago(104))

\* The move in the gap and the claim are in the tables.
LEMMA GapShown ==
  ASSUME Built, NEW line \in Lines, NEW amount \in Nat, GapStory(plan, line, amount)
  PROVE  \E k \in DOMAIN claims : \E row \in ValidatorRows : GapTables(k, row, line)
<1> USE ScenariosAssumption, HistoryAssumption
<1> DEFINE c == Change(Ago(28), "address")
           planted == Claim(Ago(34), Ago(19), line, amount)
<1>1. c.day = Ago(28) /\ c.category = "address" /\ c.line = NoLine
  BY ONLY DEF Change
<1>2. planted.loss = Ago(34) /\ planted.report = Ago(19) /\ planted.line = line
  BY ONLY DEF Claim
<1>3. /\ plan.changes = {c} /\ plan.claims = {planted}
      /\ plan.quiet = {<<Ago(164), DAY_ANCHOR>>} /\ plan.unclaimed = {<<Ago(164), DAY_ANCHOR>>}
  BY ONLY GapStory(plan, line, amount) DEF GapStory
<1>4. DAY_ANCHOR \in Nat /\ DAY_ANCHOR >= 400
  BY Dates
<1>5. planted.report <= DAY_ANCHOR
  BY ONLY <1>2, <1>4 DEF Ago
<1> HIDE DEF c, planted
<1>6. PICK k \in DOMAIN claims : Told(k, planted.loss, planted.report, planted.line)
  BY <1>3, <1>5, StoryTold
<1>7. Told(k, Ago(34), Ago(19), line)
  BY ONLY <1>2, <1>6
<1>8. RowsShown
  BY RowsTell
<1>9. PICK row \in ValidatorRows : Answers(row, c) /\ \A r \in ValidatorRows : Answers(r, c) => r = row
  BY <1>3, <1>8, OneRow
<1>10. ASSUME NEW r \in ValidatorRows
       PROVE  r = row \/ r.day < Ago(164)
  <2>1. /\ r.day \in Nat /\ r.day <= DAY_ANCHOR
        /\ (\E d \in plan.changes : Answers(r, d)) \/ ~Blocked(plan.quiet, r.day)
    BY ONLY <1>8, r \in ValidatorRows DEF RowsShown
  <2>2. CASE \E d \in plan.changes : Answers(r, d)
    BY ONLY <1>3, <1>9, <2>2, r \in ValidatorRows
  <2>3. CASE ~Blocked(plan.quiet, r.day)
    <3>1. ~(Ago(164) <= r.day /\ r.day <= DAY_ANCHOR)
      BY ONLY <1>3, <2>3 DEF Blocked
    <3> QED
      BY ONLY <1>4, <2>1, <3>1 DEF Ago
  <2> QED
    BY ONLY <2>1, <2>2, <2>3
<1>11. ASSUME NEW j \in DOMAIN claims
       PROVE  j = k \/ (claims[j].loss < Ago(164) /\ claims[j].report < Ago(104))
  <2>1. j = k \/ FromRest(j)
    BY ONLY <1>7, j \in DOMAIN claims DEF Told
  <2>2. /\ claims[j].loss \in Nat /\ claims[j].loss <= DAY_ANCHOR /\ claims[j].report \in Nat
    <3>1. DatasetTypeOK
      BY BuiltParts
    <3>2. claims[j].loss \in Days /\ claims[j].report \in Days
      BY <3>1, ClaimTyped
    <3> QED
      BY ONLY <1>4, <3>2 DEF Days
  <2>3. CASE FromRest(j)
    <3>1. ~(Ago(164) <= claims[j].loss /\ claims[j].loss <= DAY_ANCHOR)
      BY ONLY <1>3, <2>3 DEF FromRest, Blocked
    <3>2. claims[j].report <= claims[j].loss + 60
      BY ONLY <2>3 DEF FromRest, REPORT_LAG_CAP_DAYS
    <3> QED
      BY ONLY <1>4, <2>2, <3>1, <3>2 DEF Ago
  <2> QED
    BY ONLY <2>1, <2>3
<1>12. row.day = Ago(28) /\ row.category = "address"
  BY ONLY <1>1, <1>9 DEF Answers
<1>13. GapTables(k, row, line)
  BY ONLY <1>7, <1>10, <1>11, <1>12, row \in ValidatorRows DEF GapTables
<1> QED
  BY ONLY <1>13, k \in DOMAIN claims, row \in ValidatorRows

\* S4: the four rows of the cluster, and the claim.
ClusterRows(a, b, c, d) ==
  /\ ValidatorRows = {a, b, c, d}
  /\ a.category = "coverage" /\ a.day = Ago(82) /\ a.line = COLL
  /\ b.category = "coverage" /\ b.day = Ago(75) /\ b.line = COMP
  /\ c.category = "deductible" /\ c.day = Ago(68) /\ c.line = COLL /\ c.direction = "decrease"
  /\ d.category = "deductible" /\ d.day = Ago(60) /\ d.line = COMP /\ d.direction = "decrease"

\* The four moves of the cluster are in the tables.
LEMMA ClusterShown ==
  ASSUME Built, NEW line, NEW amount, NEW report, ClusterStory(plan, line, amount, report)
  PROVE  \E a \in ValidatorRows : \E b \in ValidatorRows : \E c \in ValidatorRows :
           \E d \in ValidatorRows : ClusterRows(a, b, c, d)
<1> USE ScenariosAssumption, HistoryAssumption
<1> DEFINE w == Move(Ago(82), "coverage", COLL, 0, "increase")
           x == Move(Ago(75), "coverage", COMP, 0, "increase")
           y == Move(Ago(68), "deductible", COLL, 0, "decrease")
           z == Move(Ago(60), "deductible", COMP, 0, "decrease")
<1>1. /\ w.day = Ago(82) /\ w.category = "coverage" /\ w.line = COLL
      /\ x.day = Ago(75) /\ x.category = "coverage" /\ x.line = COMP
      /\ y.day = Ago(68) /\ y.category = "deductible" /\ y.line = COLL /\ y.direction = "decrease"
      /\ z.day = Ago(60) /\ z.category = "deductible" /\ z.line = COMP /\ z.direction = "decrease"
      /\ "decrease" # "any"
  BY ONLY DEF Move
<1>2. plan.changes = {w, x, y, z} /\ plan.quiet = {Always}
  BY ONLY ClusterStory(plan, line, amount, report) DEF ClusterStory
<1> HIDE DEF w, x, y, z
<1>3. RowsShown
  BY RowsTell
<1>4. w \in plan.changes /\ x \in plan.changes /\ y \in plan.changes /\ z \in plan.changes
  BY ONLY <1>2
<1>5. PICK a \in ValidatorRows : Answers(a, w) /\ \A r \in ValidatorRows : Answers(r, w) => r = a
  BY <1>3, <1>4, OneRow
<1>6. PICK b \in ValidatorRows : Answers(b, x) /\ \A r \in ValidatorRows : Answers(r, x) => r = b
  BY <1>3, <1>4, OneRow
<1>7. PICK c \in ValidatorRows : Answers(c, y) /\ \A r \in ValidatorRows : Answers(r, y) => r = c
  BY <1>3, <1>4, OneRow
<1>8. PICK d \in ValidatorRows : Answers(d, z) /\ \A r \in ValidatorRows : Answers(r, z) => r = d
  BY <1>3, <1>4, OneRow
<1>9. \A r \in ValidatorRows : \E e \in plan.changes : Answers(r, e)
  BY <1>2, <1>3, OnlyPlanned
<1>10. ValidatorRows = {a, b, c, d}
  BY ONLY <1>2, <1>5, <1>6, <1>7, <1>8, <1>9
<1>11. ClusterRows(a, b, c, d)
  BY ONLY <1>1, <1>5, <1>6, <1>7, <1>8, <1>10 DEF Answers, ClusterRows
<1> QED
  BY ONLY <1>10, <1>11

ClusterTold(k, line, amount, report) ==
  Told(k, Ago(31), report, line) /\ DOMAIN claims = {k} /\ claims[k].amount = amount

\* The claim of the cluster is in the tables.
LEMMA ClusterClaim ==
  ASSUME Built, NEW line, NEW amount, NEW report, ClusterStory(plan, line, amount, report)
  PROVE  \E k \in DOMAIN claims : ClusterTold(k, line, amount, report)
<1> USE ScenariosAssumption, HistoryAssumption
<1> DEFINE planted == Claim(Ago(31), report, line, amount)
<1>1. /\ planted.loss = Ago(31) /\ planted.report = report /\ planted.line = line
      /\ planted.amount = amount /\ planted.share = 0
  BY ONLY DEF Claim
<1>2. plan.claims = {planted} /\ report <= DAY_ANCHOR /\ plan.unclaimed = {Always}
  BY ONLY ClusterStory(plan, line, amount, report) DEF ClusterStory
<1> HIDE DEF planted
<1>3. PICK k \in DOMAIN claims :
        Told(k, planted.loss, planted.report, planted.line) /\ claims[k].amount = Settled(planted)
  BY <1>1, <1>2, StoryTold
<1>4. Told(k, Ago(31), report, line) /\ claims[k].amount = amount
  BY ONLY <1>1, <1>3 DEF Settled
<1>5. DOMAIN claims = {k}
  <2>1. Closed
    BY ONLY <1>2 DEF Closed
  <2> QED
    BY ONLY Built, <1>4, <2>1, StoryAlone
<1> QED
  BY ONLY <1>4, <1>5 DEF ClusterTold

\* The cluster has its shape (check_scenario_shapes).
LEMMA ClusterShape ==
  ASSUME NEW a, NEW b, NEW c, NEW d, ClusterRows(a, b, c, d)
  PROVE  /\ a # b /\ a # c /\ b # c /\ d \notin {a, b, c}
         /\ Cardinality({r \in ValidatorRows : \E i \in DOMAIN S4_CLUSTER_OFFSETS :
                           r.day = Ago(S4_CLUSTER_OFFSETS[i])}) = 4
<1> USE ScenariosAssumption, HistoryAssumption
<1>1. DAY_ANCHOR \in Nat /\ DAY_ANCHOR >= 400
  BY Dates
<1>2. Ago(82) < Ago(75) /\ Ago(75) < Ago(68) /\ Ago(68) < Ago(60)
  BY ONLY <1>1 DEF Ago
<1>3. a # b /\ a # c /\ b # c /\ d \notin {a, b, c}
  <2>1. /\ Ago(82) # Ago(75) /\ Ago(82) # Ago(68) /\ Ago(75) # Ago(68)
        /\ Ago(60) # Ago(82) /\ Ago(60) # Ago(75) /\ Ago(60) # Ago(68)
    BY ONLY <1>1 DEF Ago
  <2> QED
    BY ONLY <2>1, ClusterRows(a, b, c, d) DEF ClusterRows
<1>4. \A r \in ValidatorRows : \E i \in DOMAIN S4_CLUSTER_OFFSETS : r.day = Ago(S4_CLUSTER_OFFSETS[i])
  <2>1. DOMAIN S4_CLUSTER_OFFSETS = 1..4
    BY ONLY DEF S4_CLUSTER_OFFSETS
  <2>2. /\ S4_CLUSTER_OFFSETS[1] = 82 /\ S4_CLUSTER_OFFSETS[2] = 75
        /\ S4_CLUSTER_OFFSETS[3] = 68 /\ S4_CLUSTER_OFFSETS[4] = 60
    BY ONLY DEF S4_CLUSTER_OFFSETS
  <2>3. 1 \in 1..4 /\ 2 \in 1..4 /\ 3 \in 1..4 /\ 4 \in 1..4
    OBVIOUS
  <2> QED
    BY ONLY <2>1, <2>2, <2>3, ClusterRows(a, b, c, d) DEF ClusterRows
<1>5. {r \in ValidatorRows : \E i \in DOMAIN S4_CLUSTER_OFFSETS :
         r.day = Ago(S4_CLUSTER_OFFSETS[i])} = {a, b, c, d}
  BY ONLY <1>4, ClusterRows(a, b, c, d) DEF ClusterRows
<1>6. Cardinality({a, b, c, d}) = 4
  BY ONLY <1>3, FourOf
<1> QED
  BY ONLY <1>3, <1>5, <1>6

\* C1, C3 and C4: no row in the 130 days up to the loss, and no other claim.
QuietTables(k, loss, report, line) ==
  /\ Told(k, loss, report, line) /\ DOMAIN claims = {k}
  /\ \A r \in ValidatorRows : r.day < loss - 130 \/ loss < r.day

\* Rows on blocked days answer the plan, and the plan has none up to the loss.
LEMMA QuietBefore ==
  ASSUME Built,
         NEW loss \in Nat, plan.quiet = {<<loss - 130, loss>>}, \A c \in plan.changes : loss < c.day
  PROVE  \A r \in ValidatorRows : r.day < loss - 130 \/ loss < r.day
<1> USE ScenariosAssumption, HistoryAssumption
<1>1. RowsShown
  BY RowsTell
<1>2. ASSUME NEW r \in ValidatorRows
      PROVE  r.day < loss - 130 \/ loss < r.day
  <2>1. /\ r.day \in Nat
        /\ (\E c \in plan.changes : Answers(r, c)) \/ ~Blocked(plan.quiet, r.day)
    BY ONLY <1>1, r \in ValidatorRows DEF RowsShown
  <2>2. CASE \E c \in plan.changes : Answers(r, c)
    BY ONLY <2>2, \A c \in plan.changes : loss < c.day DEF Answers
  <2>3. CASE ~Blocked(plan.quiet, r.day)
    <3>1. ~(loss - 130 <= r.day /\ r.day <= loss)
      BY ONLY <2>3, plan.quiet = {<<loss - 130, loss>>} DEF Blocked
    <3> QED
      BY ONLY <2>1, <3>1, loss \in Nat
  <2> QED
    BY ONLY <2>1, <2>2, <2>3
<1> QED
  BY ONLY <1>2

\* The claim of C1 and C4 is alone, and nothing came before it.
LEMMA UnprovokedShown ==
  ASSUME Built, NEW s, NEW claim, UnprovokedStory(s, plan, claim)
  PROVE  \E k \in DOMAIN claims : /\ QuietTables(k, claim.loss, claim.report, claim.line)
                                  /\ claims[k].amount = Settled(claim)
<1> USE ScenariosAssumption, HistoryAssumption
<1>1. /\ claim.loss \in Nat /\ claim.report <= DAY_ANCHOR
      /\ plan.changes = {} /\ plan.claims = {claim} /\ plan.no_claims = TRUE
      /\ plan.quiet = {<<claim.loss - 130, claim.loss>>}
  BY ONLY UnprovokedStory(s, plan, claim) DEF UnprovokedStory
<1>2. PICK k \in DOMAIN claims :
        Told(k, claim.loss, claim.report, claim.line) /\ claims[k].amount = Settled(claim)
  BY <1>1, StoryTold
<1>3. DOMAIN claims = {k}
  <2>1. Closed
    BY ONLY <1>1 DEF Closed
  <2> QED
    BY ONLY Built, <1>2, <2>1, StoryAlone
<1>4. \A r \in ValidatorRows : r.day < claim.loss - 130 \/ claim.loss < r.day
  <2>1. \A c \in plan.changes : claim.loss < c.day
    BY ONLY <1>1
  <2> DEFINE loss == claim.loss
  <2> HIDE DEF loss
  <2>2. loss \in Nat /\ plan.quiet = {<<loss - 130, loss>>} /\ \A c \in plan.changes : loss < c.day
    BY ONLY <1>1, <2>1 DEF loss
  <2>3. \A r \in ValidatorRows : r.day < loss - 130 \/ loss < r.day
    BY <2>2, QuietBefore
  <2> QED
    BY ONLY <2>3 DEF loss
<1> QED
  BY ONLY <1>2, <1>3, <1>4 DEF QuietTables

\* The claim of C3 is alone, nothing came before it, and the move is in the gap.
LEMMA LateShown ==
  ASSUME Built, NEW loss \in Nat, NEW moved \in Nat, NEW report \in Nat, NEW amount \in Nat,
         LateStory(plan, loss, moved, report, amount)
  PROVE  \E k \in DOMAIN claims : \E row \in ValidatorRows :
           /\ QuietTables(k, loss, report, COMP)
           /\ row.category = "address" /\ loss < row.day /\ row.day <= report
<1> USE ScenariosAssumption, HistoryAssumption
<1> DEFINE c == Change(moved, "address")
           planted == Claim(loss, report, COMP, amount)
<1>1. c.day = moved /\ c.category = "address"
  BY ONLY DEF Change
<1>2. planted.loss = loss /\ planted.report = report /\ planted.line = COMP
  BY ONLY DEF Claim
<1>3. /\ loss < moved /\ moved <= report /\ report <= DAY_ANCHOR
      /\ plan.changes = {c} /\ plan.claims = {planted} /\ plan.no_claims = TRUE
      /\ plan.quiet = {<<loss - 130, loss>>}
  BY ONLY LateStory(plan, loss, moved, report, amount) DEF LateStory
<1> HIDE DEF c, planted
<1>4. PICK k \in DOMAIN claims : Told(k, planted.loss, planted.report, planted.line)
  BY <1>2, <1>3, StoryTold
<1>5. Told(k, loss, report, COMP)
  BY ONLY <1>2, <1>4
<1>6. DOMAIN claims = {k}
  <2>1. Closed
    BY ONLY <1>3 DEF Closed
  <2> QED
    BY ONLY Built, <1>5, <2>1, StoryAlone
<1>7. \A r \in ValidatorRows : r.day < loss - 130 \/ loss < r.day
  <2>1. \A d \in plan.changes : loss < d.day
    BY ONLY <1>1, <1>3
  <2> QED
    BY <1>3, <2>1, QuietBefore
<1>8. PICK row \in ValidatorRows : Answers(row, c)
  <2>1. RowsShown
    BY RowsTell
  <2> QED
    BY ONLY <1>3, <2>1 DEF RowsShown
<1>9. row.category = "address" /\ loss < row.day /\ row.day <= report
  BY ONLY <1>1, <1>3, <1>8 DEF Answers
<1> QED
  BY ONLY <1>5, <1>6, <1>7, <1>9 DEF QuietTables

\* A claim with nothing before it has the shape of a control.
LEMMA QuietShape ==
  ASSUME Built, NEW k, NEW loss, NEW report, NEW line, QuietTables(k, loss, report, line)
  PROVE  QuietFor(90, k) /\ Len(claims) = 1
<1> USE HistoryAssumption
<1>1. /\ loss \in Nat /\ claims[k].loss = loss /\ DOMAIN claims = {k}
      /\ \A r \in ValidatorRows : r.day < loss - 130 \/ loss < r.day
  BY ONLY QuietTables(k, loss, report, line) DEF QuietTables, Told
<1>2. DatasetTypeOK /\ BooksInv
  BY BuiltParts
<1>3. \A r \in ValidatorRows : r.day \in Nat
  <2>1. ValidatorRows = Material(ChangeRows)
    BY <1>2, RowsAgree
  <2>2. \A r \in ChangeRows : r.day \in Nat
    BY <1>2, RowTyped
  <2> QED
    BY ONLY <2>1, <2>2 DEF Material
<1>4. QuietFor(90, k)
  BY ONLY <1>1, <1>3 DEF QuietFor
<1>5. claims \in Seq(ClaimSet)
  BY <1>2, TablesTyped
<1>6. Len(claims) \in Nat /\ DOMAIN claims = 1..Len(claims)
  BY ONLY <1>5
<1>7. Len(claims) = 1
  <2>1. Len(claims) >= 1
    BY ONLY <1>1, <1>6
  <2>2. 1 \in DOMAIN claims /\ Len(claims) \in DOMAIN claims
    BY ONLY <1>6, <2>1
  <2> QED
    BY ONLY <1>1, <2>2
<1> QED
  BY ONLY <1>4, <1>7

\* C4: the share of the limit in force comes near it.
LEMMA ShareShape ==
  ASSUME Built, NEW k, NEW claim, UnprovokedStory("C4", plan, claim),
         QuietTables(k, claim.loss, claim.report, claim.line), claims[k].amount = Settled(claim)
  PROVE  NearLimit(k)
<1> USE ScenariosAssumption, HistoryAssumption
<1>1. /\ claim.share \in Nat /\ 90 <= claim.share
  BY ONLY UnprovokedStory("C4", plan, claim) DEF UnprovokedStory
<1>2. k \in DOMAIN claims /\ claims[k].line = claim.line /\ claims[k].loss = claim.loss
  BY ONLY QuietTables(k, claim.loss, claim.report, claim.line) DEF QuietTables, Told
<1>3. DatasetTypeOK /\ DatesInv
  BY BuiltParts
<1> DEFINE limit == LimitAt(claims[k].line, claims[k].loss)
<1>4. limit \in Nat /\ limit % 100 = 0
  <2>1. claims[k].line \in Lines /\ claims[k].loss \in Days
    BY <1>2, <1>3, ClaimTyped
  <2>2. \A l \in Lines : \A day \in Days : \E i \in DOMAIN coverage[l] :
          LimitAt(l, day) = coverage[l][i].limit
    BY <1>3, LimitInForce
  <2>3. \A l \in Lines : \A i \in DOMAIN coverage[l] : coverage[l][i].limit \in Limits
    <3>1. \A l \in Lines : coverage[l] \in Seq(CoverageVersions)
      BY <1>3, TablesTyped
    <3>2. \A l \in Lines : \A i \in DOMAIN coverage[l] : coverage[l][i] \in CoverageVersions
      BY ONLY <3>1
    <3> QED
      BY ONLY <3>2 DEF CoverageVersions
  <2>4. limit \in Limits
    BY ONLY <2>1, <2>2, <2>3
  <2>5. \A n \in Limits : n \in Nat /\ n % 100 = 0
    BY DEF HistoryAssumption, ScenariosAssumption
  <2> QED
    BY ONLY <2>4, <2>5
<1>5. claims[k].amount = (limit * claim.share) \div 100
  BY ONLY <1>1, <1>2, claims[k].amount = Settled(claim) DEF Settled
<1> HIDE DEF limit
<1>6. claims[k].amount * 100 >= 90 * limit
  <2>1. ((limit * claim.share) \div 100) * 100 >= 90 * limit
    BY ONLY <1>1, <1>4, NearShare
  <2> QED
    BY ONLY <1>5, <2>1
<1> QED
  BY <1>2, <1>3, <1>6, NearShows DEF limit

\* A policy of S1, S6 or the exemplar tells of a raise, in its plan and its tables.
RunOfRaise ==
  \E old \in Limits : \E new \in Limits : \E raise \in Nat : \E loss \in Nat :
    \E report \in Nat : \E k \in DOMAIN claims : \E row \in ValidatorRows :
      /\ RaisedStory(scenario, plan, old, new, raise, loss, report)
      /\ RaisedTables(k, row, new, raise, loss, report)

\* The three populations do.
LEMMA RaisedRun ==
  ASSUME Built, scenario \in {"demo", "S1", "S6"}
  PROVE  RunOfRaise
<1> USE ScenariosAssumption, HistoryAssumption
<1>1. plan \in Plans(scenario)
  BY BuiltParts
<1>2. PICK old \in Limits : \E new \in Limits : \E raise \in Nat : \E loss \in Nat :
        \E report \in Nat : RaisedStory(scenario, plan, old, new, raise, loss, report)
  <2>1. RaisedTale(scenario, plan)
    BY <1>1, RaisedTold
  <2> QED
    BY ONLY <2>1 DEF RaisedTale
<1>3. PICK new \in Limits : \E raise \in Nat : \E loss \in Nat :
        \E report \in Nat : RaisedStory(scenario, plan, old, new, raise, loss, report)
  BY ONLY <1>2
<1>4. PICK raise \in Nat : \E loss \in Nat :
        \E report \in Nat : RaisedStory(scenario, plan, old, new, raise, loss, report)
  BY ONLY <1>3
<1>5. PICK loss \in Nat : \E report \in Nat :
        RaisedStory(scenario, plan, old, new, raise, loss, report)
  BY ONLY <1>4
<1>6. PICK report \in Nat : RaisedStory(scenario, plan, old, new, raise, loss, report)
  BY ONLY <1>5
<1>7. PICK k \in DOMAIN claims : \E row \in ValidatorRows :
        RaisedTables(k, row, new, raise, loss, report)
  BY <1>6, RaisedShown
<1>8. PICK row \in ValidatorRows : RaisedTables(k, row, new, raise, loss, report)
  BY ONLY <1>7
<1> QED
  BY ONLY <1>6, <1>8 DEF RunOfRaise

\* S1, S6 and the exemplar have their shape.
LEMMA ShapeRaised ==
  ASSUME Built, scenario \in {"demo", "S1", "S6"}
  PROVE  Shape(scenario)
<1> USE ScenariosAssumption, HistoryAssumption
<1>1. PICK old \in Limits : \E new \in Limits : \E raise \in Nat : \E loss \in Nat :
        \E report \in Nat : \E k \in DOMAIN claims : \E row \in ValidatorRows :
          /\ RaisedStory(scenario, plan, old, new, raise, loss, report)
          /\ RaisedTables(k, row, new, raise, loss, report)
  <2>1. RunOfRaise
    BY ONLY Built, scenario \in {"demo", "S1", "S6"},
       RaisedRun
  <2> QED
    BY ONLY <2>1 DEF RunOfRaise
<1>2. PICK new \in Limits : \E raise \in Nat : \E loss \in Nat :
        \E report \in Nat : \E k \in DOMAIN claims : \E row \in ValidatorRows :
          /\ RaisedStory(scenario, plan, old, new, raise, loss, report)
          /\ RaisedTables(k, row, new, raise, loss, report)
  BY ONLY <1>1
<1>3. PICK raise \in Nat : \E loss \in Nat :
        \E report \in Nat : \E k \in DOMAIN claims : \E row \in ValidatorRows :
          /\ RaisedStory(scenario, plan, old, new, raise, loss, report)
          /\ RaisedTables(k, row, new, raise, loss, report)
  BY ONLY <1>2
<1>4. PICK loss \in Nat :
        \E report \in Nat : \E k \in DOMAIN claims : \E row \in ValidatorRows :
          /\ RaisedStory(scenario, plan, old, new, raise, loss, report)
          /\ RaisedTables(k, row, new, raise, loss, report)
  BY ONLY <1>3
<1>5. PICK report \in Nat : \E k \in DOMAIN claims : \E row \in ValidatorRows :
        /\ RaisedStory(scenario, plan, old, new, raise, loss, report)
        /\ RaisedTables(k, row, new, raise, loss, report)
  BY ONLY <1>4
<1>6. PICK k \in DOMAIN claims : \E row \in ValidatorRows :
        /\ RaisedStory(scenario, plan, old, new, raise, loss, report)
        /\ RaisedTables(k, row, new, raise, loss, report)
  BY ONLY <1>5
<1>7. PICK row \in ValidatorRows :
        /\ RaisedStory(scenario, plan, old, new, raise, loss, report)
        /\ RaisedTables(k, row, new, raise, loss, report)
  BY ONLY <1>6
<1>8. /\ OneClaim(loss) /\ At(loss) = {k} /\ claims[k].line = COLL
      /\ \E c \in MovesAt("coverage", raise) : c.line = COLL /\ c.direction = "increase"
  BY ONLY <1>7, RaisedShape
<1>9. CASE scenario = "S1"
  <2>1. raise = 41 /\ loss = 17
    BY ONLY <1>7, <1>9 DEF RaisedStory
  <2> QED
    BY ONLY <1>8, <1>9, <2>1 DEF Shape, S1_LOSS_OFFSET, S1_COVERAGE_RAISE_OFFSET
<1>10. CASE scenario = "demo"
  <2>1. raise = 41 /\ loss = 17
    BY ONLY <1>7, <1>10 DEF RaisedStory
  <2>2. RaisedStory("demo", plan, old, new, 41, 17, report)
    BY ONLY <1>7, <1>10, <2>1
  <2>3. PICK a \in ValidatorRows : \E b \in ValidatorRows : \E c \in ValidatorRows : DemoRows(a, b, c)
    BY <2>2, DemoShown
  <2>4. DemoWindow
    BY <2>3, DemoShape
  <2>5. /\ OneClaim(S1_LOSS_OFFSET) /\ \A j \in At(S1_LOSS_OFFSET) : claims[j].line = COLL
        /\ \E c \in MovesAt("coverage", S1_COVERAGE_RAISE_OFFSET) :
             c.line = COLL /\ c.direction = "increase"
    BY ONLY <1>8, <2>1 DEF S1_LOSS_OFFSET, S1_COVERAGE_RAISE_OFFSET
  <2> QED
    BY ONLY <1>10, <2>4, <2>5 DEF Shape, DemoWindow
<1>11. CASE scenario = "S6"
  <2>1. loss = 45 /\ new \in {8000, 10000}
    BY ONLY <1>7, <1>11 DEF RaisedStory
  <2>2. /\ claims[k].amount = Near(new) /\ claims[k].amount * 100 >= 90 * new
        /\ LimitAt(COLL, Ago(loss)) = new /\ claims[k].loss = Ago(loss)
    BY ONLY <1>7 DEF RaisedTables, Told
  <2>3. DatasetTypeOK /\ DatesInv
    BY BuiltParts
  <2>4. NearLimit(k)
    <3>1. claims[k].amount * 100 >= 90 * LimitAt(claims[k].line, claims[k].loss)
      BY ONLY <1>8, <2>2
    <3> QED
      BY <2>3, <3>1, k \in DOMAIN claims, NearShows
  <2>5. 2500 <= claims[k].amount /\ claims[k].amount < HIGH_SEVERITY
    <3>1. Near(8000) = 7760 /\ Near(10000) = 9700
      BY ONLY DEF Near, LIMIT_UTILISATION
    <3> QED
      BY ONLY <2>1, <2>2, <3>1 DEF HIGH_SEVERITY
  <2>6. At(S6_LOSS_OFFSET) = {k} /\ OneClaim(S6_LOSS_OFFSET)
    BY ONLY <1>8, <2>1 DEF S6_LOSS_OFFSET
  <2> QED
    BY ONLY <1>11, <2>4, <2>5, <2>6 DEF Shape
<1> QED
  BY ONLY <1>9, <1>10, <1>11, scenario \in {"demo", "S1", "S6"}

\* S2 has its shape: a deductible cut before a claim.
LEMMA ShapeS2 ==
  ASSUME Built, scenario = "S2"
  PROVE  Shape(scenario)
<1> USE ScenariosAssumption, HistoryAssumption
<1>1. plan \in Plans(scenario)
  BY BuiltParts
<1>2. PICK limit \in Limits : \E amount \in Nat : \E report \in Nat :
        CutStory(plan, limit, amount, report)
  BY <1>1, StoriesTold
<1>3. PICK amount \in Nat : \E report \in Nat : CutStory(plan, limit, amount, report)
  BY ONLY <1>2
<1>4. PICK report \in Nat : CutStory(plan, limit, amount, report)
  BY ONLY <1>3
<1>5. PICK k \in DOMAIN claims : \E row \in ValidatorRows : CutTables(k, row, amount, report)
  BY <1>4, CutShown
<1>6. PICK row \in ValidatorRows : CutTables(k, row, amount, report)
  BY ONLY <1>5
<1>7. /\ row \in MovesAt("deductible", S2_DEDUCTIBLE_CUT_OFFSET)
      /\ row.line = COMP /\ row.direction = "decrease"
  BY ONLY <1>6 DEF CutTables, MovesAt, Moves, S2_DEDUCTIBLE_CUT_OFFSET
<1> QED
  BY ONLY <1>7, scenario = "S2" DEF Shape

\* S3 has its shape: a move in the gap.
LEMMA ShapeS3 ==
  ASSUME Built, scenario = "S3"
  PROVE  Shape(scenario)
<1> USE ScenariosAssumption, HistoryAssumption
<1>1. plan \in Plans(scenario)
  BY BuiltParts
<1>2. PICK line \in Lines : \E amount \in Nat : GapStory(plan, line, amount)
  BY <1>1, StoriesTold
<1>3. PICK amount \in Nat : GapStory(plan, line, amount)
  BY ONLY <1>2
<1>4. PICK k \in DOMAIN claims : \E row \in ValidatorRows : GapTables(k, row, line)
  BY <1>3, GapShown
<1>5. PICK row \in ValidatorRows : GapTables(k, row, line)
  BY ONLY <1>4
<1>6. row \in MovesAt("address", S3_ADDRESS_CHANGE_OFFSET)
  BY ONLY <1>5 DEF GapTables, MovesAt, Moves, S3_ADDRESS_CHANGE_OFFSET
<1>7. Told(k, Ago(34), Ago(19), line)
  BY ONLY <1>5 DEF GapTables
<1>8. At(34) = {k} /\ OneClaim(34)
  BY ONLY <1>7, AtTold
<1>9. claims[k].report = Ago(19)
  BY ONLY <1>7 DEF Told
<1> QED
  BY ONLY <1>6, <1>8, <1>9, scenario = "S3" DEF Shape, S3_LOSS_OFFSET, S3_REPORT_OFFSET

\* S4 has its shape: a cluster, then a severe claim.
LEMMA ShapeS4 ==
  ASSUME Built, scenario = "S4"
  PROVE  Shape(scenario)
<1> USE ScenariosAssumption, HistoryAssumption
<1>1. plan \in Plans(scenario)
  BY BuiltParts
<1>2. PICK line \in Lines : \E amount \in Nat : \E report \in Nat :
        ClusterStory(plan, line, amount, report)
  BY <1>1, StoriesTold
<1>3. PICK amount \in Nat : \E report \in Nat : ClusterStory(plan, line, amount, report)
  BY ONLY <1>2
<1>4. PICK report \in Nat : ClusterStory(plan, line, amount, report)
  BY ONLY <1>3
<1>5. PICK a \in ValidatorRows : \E b \in ValidatorRows : \E c \in ValidatorRows :
        \E d \in ValidatorRows : ClusterRows(a, b, c, d)
  BY <1>4, ClusterShown
<1>6. Cardinality({r \in ValidatorRows : \E i \in DOMAIN S4_CLUSTER_OFFSETS :
                     r.day = Ago(S4_CLUSTER_OFFSETS[i])}) = 4
  BY <1>5, ClusterShape
<1>7. PICK k \in DOMAIN claims : ClusterTold(k, line, amount, report)
  BY <1>4, ClusterClaim
<1>8. At(31) = {k} /\ OneClaim(31)
  BY ONLY <1>7, AtTold DEF ClusterTold
<1>9. claims[k].amount >= HIGH_SEVERITY
  BY ONLY <1>7, <1>4, amount \in Nat DEF ClusterTold, ClusterStory, HIGH_SEVERITY
<1> QED
  BY ONLY <1>6, <1>8, <1>9, scenario = "S4" DEF Shape, S4_LOSS_OFFSET

\* S5 has its shape: a vehicle and an address.
LEMMA ShapeS5 ==
  ASSUME Built, scenario = "S5"
  PROVE  Shape(scenario)
<1> USE ScenariosAssumption, HistoryAssumption
<1>1. plan \in Plans(scenario)
  BY BuiltParts
<1>2. SpineStory(plan)
  BY <1>1, StoriesTold
<1>3. RowsShown
  BY RowsTell
<1>4. PICK a \in ValidatorRows : Answers(a, Change(Ago(73), "vehicle"))
  BY ONLY <1>2, <1>3 DEF SpineStory, RowsShown
<1>5. PICK b \in ValidatorRows : Answers(b, Change(Ago(48), "address"))
  BY ONLY <1>2, <1>3 DEF SpineStory, RowsShown
<1>6. a \in MovesAt("vehicle", S5_VEHICLE_OFFSET) /\ b \in MovesAt("address", S5_ADDRESS_OFFSET)
  BY ONLY <1>4, <1>5
  DEF Answers, Change, MovesAt, Moves, S5_VEHICLE_OFFSET, S5_ADDRESS_OFFSET
<1> QED
  BY ONLY <1>6, scenario = "S5" DEF Shape

\* C1 and C4 have the shape of a control.
LEMMA ShapeUnprovoked ==
  ASSUME Built, scenario \in {"C1", "C4"}
  PROVE  Shape(scenario)
<1> USE ScenariosAssumption, HistoryAssumption
<1>1. plan \in Plans(scenario)
  BY BuiltParts
<1>2. PICK claim : UnprovokedStory(scenario, plan, claim)
  BY <1>1, StoriesTold
<1>3. PICK k \in DOMAIN claims : /\ QuietTables(k, claim.loss, claim.report, claim.line)
                                 /\ claims[k].amount = Settled(claim)
  BY <1>2, UnprovokedShown
<1>4. QuietFor(90, k) /\ Len(claims) = 1 /\ DOMAIN claims = {k}
  <2>1. DOMAIN claims = {k}
    BY ONLY <1>3 DEF QuietTables
  <2> QED
    BY <1>3, <2>1, QuietShape
<1>5. CASE scenario = "C1"
  BY ONLY <1>4, <1>5 DEF Shape
<1>6. CASE scenario = "C4"
  <2>1. UnprovokedStory("C4", plan, claim)
    BY ONLY <1>2, <1>6
  <2>2. NearLimit(k)
    BY <1>3, <2>1, ShareShape
  <2> QED
    BY ONLY <1>4, <1>6, <2>2 DEF Shape
<1> QED
  BY ONLY <1>5, <1>6, scenario \in {"C1", "C4"}

\* C2 has no claim.
LEMMA ShapeC2 ==
  ASSUME Built, scenario = "C2"
  PROVE  Shape(scenario)
<1> USE ScenariosAssumption, HistoryAssumption
<1>1. plan \in Plans(scenario)
  BY BuiltParts
<1>2. UnclaimedStory(plan)
  BY <1>1, StoriesTold
<1>3. claims = <<>>
  BY <1>2, NoClaims
<1> QED
  BY ONLY <1>3, scenario = "C2" DEF Shape

\* The invariant gives every population its shape.
LEMMA ShapesFollow ==
  ASSUME ScenarioInv
  PROVE  ShapesHold
<1> USE ScenariosAssumption, HistoryAssumption
<1>1. stage \in {"assigned", "planted", "evolving", "built"} /\ scenario \in Scenario
  BY DEF ScenarioInv, Begun
<1>2. stage # "failed"
  BY ONLY <1>1
<1>3. ASSUME stage = "built"
      PROVE  Shape(scenario)
  <2>1. Built
    BY <1>3 DEF Built
  <2>2. CASE scenario \in {"demo", "S1", "S6"}
    BY <2>1, <2>2, ShapeRaised
  <2>3. CASE scenario = "S2"
    BY <2>1, <2>3, ShapeS2
  <2>4. CASE scenario = "S3"
    BY <2>1, <2>4, ShapeS3
  <2>5. CASE scenario = "S4"
    BY <2>1, <2>5, ShapeS4
  <2>6. CASE scenario = "S5"
    BY <2>1, <2>6, ShapeS5
  <2>7. CASE scenario \in {"C1", "C4"}
    BY <2>1, <2>7, ShapeUnprovoked
  <2>8. CASE scenario = "C2"
    BY <2>1, <2>8, ShapeC2
  <2>9. CASE scenario \in {"C3", "C5"}
    BY ONLY <2>9 DEF Shape
  <2> QED
    BY ONLY <1>1, <2>2, <2>3, <2>4, <2>5, <2>6, <2>7, <2>8, <2>9 DEF Scenario
<1> QED
  BY ONLY <1>2, <1>3 DEF ShapesHold

\* The catalogue is as the validator demands it (check_scenario_shapes), and
\* _assert_direction never fails: for any ladders, any draws, and whatever
\* ordinary changes and claims surround a story.
THEOREM ShapesAlwaysHold == ScenarioSpec => []ShapesHold
<1>1. ScenarioInv => ShapesHold
  BY ShapesFollow, ScenariosAssumption, HistoryAssumption
<1> QED
  BY <1>1, ScenarioHolds, PTL

-----------------------------------------------------------------------------
(* What the rules and the questions make of a story. *)

\* The only claim of a policy is the Linked Claim of every change up to its report.
LEMMA LinksToOnly ==
  ASSUME DatasetTypeOK, NEW k, DOMAIN claims = {k}, NEW c
  PROVE  /\ LinkedClaim(c) \subseteq {k}
         /\ c.day <= claims[k].report => LinkedClaim(c) = {k}
<1> USE HistoryAssumption
<1>1. LinkedClaim(c) \subseteq {k}
  BY ONLY DOMAIN claims = {k} DEF LinkedClaim, ReportedFrom
<1>2. ASSUME c.day <= claims[k].report
      PROVE  LinkedClaim(c) = {k}
  <2>1. claims[k].report \in Nat
    BY ClaimTyped, k \in DOMAIN claims
  <2>2. claims[k].report >= c.day
    BY ONLY <1>2
  <2>3. ReportedFrom(c.day) # {}
    BY ONLY <2>2, DOMAIN claims = {k} DEF ReportedFrom
  <2>4. PICK j \in ReportedFrom(c.day) : LinkedClaim(c) = {j}
    BY <2>3, LinkExists
  <2> QED
    BY ONLY <1>1, <2>4
<1> QED
  BY ONLY <1>1, <1>2

Tells(matches, code, k) == \E match \in matches : match.code = code /\ match.claim = {k}

\* A rule that some change hits shows in the claim the latest of them is linked to.
LEMMA HitShows ==
  ASSUME DatasetTypeOK, DatesInv, NEW code \in ClaimRules,
         NEW hits \in SUBSET ChangeRows, hits # {}, NEW k, LinkedClaim(LatestOf(hits)) = {k}
  PROVE  Tells(EmitLatest(code, hits), code, k)
<1>1. EmitLatest(code, hits) = {[code |-> code, on |-> LatestOf(hits).day,
                                 change |-> LatestOf(hits), claim |-> {k}]}
  BY ONLY hits # {}, code \in ClaimRules, LinkedClaim(LatestOf(hits)) = {k} DEF EmitLatest
<1> QED
  BY ONLY <1>1 DEF Tells

\* Of one claim, all that hit is linked to it.
LEMMA OnlyHitShows ==
  ASSUME DatasetTypeOK, DatesInv, NEW code \in ClaimRules,
         NEW hits \in SUBSET ChangeRows, hits # {}, NEW k,
         DOMAIN claims = {k}, \A c \in hits : LinkedClaim(c) # {}
  PROVE  Tells(EmitLatest(code, hits), code, k)
<1> USE HistoryAssumption
<1>1. LatestOf(hits) \in hits
  BY LatestExists
<1>2. LinkedClaim(LatestOf(hits)) \subseteq {k}
  BY LinksToOnly
<1>3. LinkedClaim(LatestOf(hits)) = {k}
  BY ONLY <1>1, <1>2, \A c \in hits : LinkedClaim(c) # {}
<1> QED
  BY <1>3, HitShows

\* A change linked to a claim at its loss or a while before it is linked before it.
LEMMA LinkedAgo ==
  ASSUME DatasetTypeOK, NEW c, NEW k \in DOMAIN claims, LinkedClaim(c) = {k},
         NEW window \in Nat, c.day \in Nat, c.day <= claims[k].loss, claims[k].loss <= c.day + window
  PROVE  LinkedBeforeLoss(c, window)
<1> USE HistoryAssumption
<1>1. claims[k].loss \in Nat
  BY ClaimTyped
<1> QED
  BY ONLY <1>1, LinkedClaim(c) = {k}, window \in Nat, c.day \in Nat, c.day <= claims[k].loss,
     claims[k].loss <= c.day + window
  DEF LinkedBeforeLoss, ChangeTiming, DaysToLoss

\* A match that names a claim is evidence of a change in its gap, or of one no
\* more than a window before its loss.
LEMMA MatchWithin ==
  ASSUME DatasetTypeOK, DatesInv, NEW match \in PatternMatches,
         NEW k \in match.claim, match.code # "change_in_loss_report_gap"
  PROVE  /\ k \in DOMAIN claims /\ match.change \in Material(ChangeRows)
         /\ claims[k].loss - 120 <= match.change.day /\ match.change.day <= claims[k].loss
<1> USE HistoryAssumption, StoriesAssumption
<1>0. /\ PATTERN_CLAIM_WINDOW_DAYS \in Nat /\ PATTERN_CLAIM_WINDOW_DAYS <= 120
      /\ PATTERN_LIMIT_RAISED_WINDOW_DAYS \in Nat /\ PATTERN_LIMIT_RAISED_WINDOW_DAYS <= 120
  BY ONLY StoriesAssumption DEF StoriesAssumption
<1>1. \A x \in ChangeRows : x.category \in {"coverage", "deductible"} => x \in Material(ChangeRows)
  BY ONLY DEF Material, MATERIAL_CATEGORIES
<1>2. CASE match \in R6
  <2>1. PICK j \in DOMAIN claims : match.claim = {j} /\ match.change \in Raises(j)
    BY <1>2, LastClaim
  <2>2. k = j
    BY ONLY <2>1, k \in match.claim
  <2>3. /\ match.change \in ChangeRows /\ match.change.category = "coverage"
        /\ claims[k].loss - PATTERN_LIMIT_RAISED_WINDOW_DAYS <= match.change.day
        /\ match.change.day <= claims[k].loss
    BY ONLY <2>1, <2>2 DEF Raises
  <2>4. claims[k].loss \in Nat /\ match.change.day \in Nat
    BY <2>1, <2>2, <2>3, ClaimTyped, RowTyped
  <2> QED
    BY ONLY <1>0, <1>1, <2>1, <2>2, <2>3, <2>4
<1>3. CASE /\ match.change \in ChangeRows /\ match.claim = LinkedClaim(match.change)
           /\ match.change.category \in {"coverage", "deductible"}
           /\ LinkedBeforeLoss(match.change, PATTERN_CLAIM_WINDOW_DAYS)
  <2> DEFINE c == match.change
  <2>1. c \in ChangeRows /\ k \in LinkedClaim(c) /\ c.category \in {"coverage", "deductible"}
    BY ONLY <1>3, k \in match.claim
  <2>2. LinkedBeforeLoss(c, PATTERN_CLAIM_WINDOW_DAYS)
    BY ONLY <1>3
  <2> HIDE DEF c
  <2>3. claims[k].loss - PATTERN_CLAIM_WINDOW_DAYS <= c.day /\ c.day <= claims[k].loss
    BY <1>0, <2>1, <2>2, LinkedWithin
  <2>4. k \in DOMAIN claims
    BY <2>1, LinkTyped
  <2>5. claims[k].loss \in Nat
    BY <2>4, ClaimTyped
  <2>6. c.day \in Nat
    BY <2>1, RowTyped
  <2>7. claims[k].loss - 120 <= c.day
    BY ONLY <1>0, <2>3, <2>5, <2>6
  <2> QED
    BY ONLY <1>1, <2>1, <2>3, <2>4, <2>7 DEF c
<1> QED
  <2>1. \/ match \in R6
        \/ /\ match.change \in ChangeRows /\ match.claim = LinkedClaim(match.change)
           /\ match.change.category \in {"coverage", "deductible"}
           /\ LinkedBeforeLoss(match.change, PATTERN_CLAIM_WINDOW_DAYS)
        \/ match.code = "change_in_loss_report_gap"
        \/ match.claim = {}
    BY MatchRule
  <2> QED
    BY ONLY <1>2, <1>3, <2>1, k \in match.claim, match.code # "change_in_loss_report_gap"

\* Three changes within twenty-five days are a cluster.
LEMMA ThreeNear ==
  ASSUME DatasetTypeOK, ChangesRoundTrip, DatesInv,
         NEW a \in Material(changes),
         NEW b \in Material(changes),
         NEW c \in Material(changes),
         a # b, a # c, b # c,
         NEW lo \in Nat,
         \A x \in {a, b, c} : x.day \in Nat /\ lo <= x.day /\ x.day <= lo + 25
  PROVE  "rapid_change_cluster" \in Flags
<1> USE HistoryAssumption, StoriesAssumption, WindowsAssumption
<1>1. PATTERN_CLUSTER_MIN_CHANGES \in Nat /\ PATTERN_CLUSTER_MIN_CHANGES <= 3
  BY ONLY WindowsAssumption, StoriesAssumption DEF WindowsAssumption, StoriesAssumption
<1>2. PATTERN_CLUSTER_SPAN_DAYS \in Nat /\ PATTERN_CLUSTER_SPAN_DAYS >= 25
  BY ONLY WindowsAssumption, StoriesAssumption DEF WindowsAssumption, StoriesAssumption
<1>3. IsFiniteSet({a, b, c}) /\ Cardinality({a, b, c}) = 3
  BY ONLY ThreeOf, a # b, a # c, b # c
<1> DEFINE T == {a, b, c}
<1>4. PICK S \in SUBSET T : Cardinality(S) = PATTERN_CLUSTER_MIN_CHANGES
  <2> HIDE DEF T
  <2>1. IsFiniteSet(T) /\ PATTERN_CLUSTER_MIN_CHANGES <= Cardinality(T)
    BY ONLY <1>1, <1>3 DEF T
  <2> QED
    BY ONLY <1>1, <2>1, SubsetOfSize
<1>5. S \subseteq Material(changes)
  BY ONLY <1>4
<1>6. \A x, y \in S : Distance(x.day, y.day) <= PATTERN_CLUSTER_SPAN_DAYS
  <2>1. ASSUME NEW x \in S, NEW y \in S
        PROVE  Distance(x.day, y.day) <= PATTERN_CLUSTER_SPAN_DAYS
    <3>1. /\ x.day \in Nat /\ lo <= x.day /\ x.day <= lo + 25
          /\ y.day \in Nat /\ lo <= y.day /\ y.day <= lo + 25
      BY ONLY <1>4, <2>1, \A z \in {a, b, c} : z.day \in Nat /\ lo <= z.day /\ z.day <= lo + 25
    <3> QED
      BY ONLY <1>2, <3>1, lo \in Nat DEF Distance
  <2> QED
    BY ONLY <2>1
<1> HIDE DEF T
<1> QED
  <2>1. \E cluster \in SUBSET Material(changes) :
          /\ Cardinality(cluster) = PATTERN_CLUSTER_MIN_CHANGES
          /\ \A x, y \in cluster : Distance(x.day, y.day) <= PATTERN_CLUSTER_SPAN_DAYS
    BY ONLY <1>4, <1>5, <1>6
  <2> QED
    BY <2>1, ClusterMeans

\* A vehicle and an address change within twenty-five days raise their flag.
LEMMA PairNear ==
  ASSUME DatasetTypeOK, ChangesRoundTrip, DatesInv, NEW v \in changes,
         NEW a \in changes,
         v.category = "vehicle", a.category = "address",
         NEW lo \in Nat, \A x \in {v, a} : x.day \in Nat /\ lo <= x.day /\ x.day <= lo + 25
  PROVE  "vehicle_and_address_within_60d" \in Flags
<1> USE HistoryAssumption, StoriesAssumption, WindowsAssumption
<1>1. PATTERN_VEHICLE_ADDRESS_DAYS \in Nat /\ PATTERN_VEHICLE_ADDRESS_DAYS >= 25
  BY ONLY WindowsAssumption, StoriesAssumption DEF WindowsAssumption, StoriesAssumption
<1>2. /\ v.day \in Nat /\ lo <= v.day /\ v.day <= lo + 25
      /\ a.day \in Nat /\ lo <= a.day /\ a.day <= lo + 25
  BY ONLY \A x \in {v, a} : x.day \in Nat /\ lo <= x.day /\ x.day <= lo + 25
<1>3. Distance(v.day, a.day) <= PATTERN_VEHICLE_ADDRESS_DAYS
  BY ONLY <1>1, <1>2, lo \in Nat DEF Distance
<1>4. \E c, d \in changes :
        /\ c.category = "vehicle" /\ d.category = "address"
        /\ Distance(c.day, d.day) <= PATTERN_VEHICLE_ADDRESS_DAYS
  BY ONLY <1>3, v.category = "vehicle", a.category = "address"
<1> QED
  BY <1>4, VehicleAddressMeans

-----------------------------------------------------------------------------
(* What the stories show (spec 01, section 9). *)

\* The rows of the validator are the material rows of both change tables.
LEMMA RowsAreMaterial ==
  ASSUME Built
  PROVE  /\ ValidatorRows = Material(ChangeRows) /\ ValidatorRows = Material(changes)
         /\ Material(ChangeRows) \subseteq ChangeRows /\ Material(changes) \subseteq changes
<1> USE ScenariosAssumption, HistoryAssumption
<1>1. RowsShown
  BY RowsTell
<1> QED
  BY ONLY <1>1 DEF RowsShown, Material

\* The raise is linked to the claim, and evidence of it.
RaiseLinks(k, row) ==
  /\ Shows("coverage_raised_then_claimed_same_line")
  /\ row \in ChangeRows /\ LinkedClaim(row) = {k} /\ RelatesToClaimed(row, k)
  /\ 0 <= DaysToLoss(row, k) /\ DaysToLoss(row, k) <= 24

\* The raise is matched by its rule, linked to its claim.
LEMMA RaiseEvident ==
  ASSUME Built, NEW k, NEW row, NEW new \in Limits, NEW raise \in Nat, NEW loss \in Nat,
         NEW report \in Nat,
         RaisedTables(k, row, new, raise, loss, report), loss < raise, raise <= 66, raise - loss <= 24
  PROVE  RaiseLinks(k, row)
<1> USE ScenariosAssumption, HistoryAssumption, StoriesAssumption
<1>0. DatasetTypeOK /\ DatesInv
  BY BuiltParts
<1>1. /\ k \in DOMAIN claims /\ DOMAIN claims = {k} /\ Story = {k}
      /\ claims[k].loss = Ago(loss) /\ claims[k].report = report /\ claims[k].line = COLL
      /\ Ago(loss) < report
      /\ row \in ValidatorRows /\ row.day = Ago(raise) /\ row.category = "coverage"
      /\ row.line = COLL /\ row.direction = "increase"
  BY ONLY RaisedTables(k, row, new, raise, loss, report) DEF RaisedTables, Told
<1>2. row \in ChangeRows
  BY <1>1, RowsAreMaterial
<1>3. DAY_ANCHOR \in Nat /\ DAY_ANCHOR >= 400 /\ COLL # NoLine
  <2>1. COLL \in Lines
    BY Dates
  <2> QED
    BY ONLY <2>1, ScenariosAssumption, HistoryAssumption DEF ScenariosAssumption, HistoryAssumption
<1>4. /\ row.day \in Nat /\ row.day <= claims[k].loss /\ claims[k].loss <= row.day + 24
      /\ row.day <= claims[k].report /\ claims[k].loss \in Nat
      /\ claims[k].loss - row.day = raise - loss
  BY ONLY <1>1, <1>3, loss < raise, raise <= 66, raise - loss <= 24, loss \in Nat, raise \in Nat,
     report \in Nat DEF Ago
<1>5. LinkedClaim(row) = {k}
  BY <1>0, <1>1, <1>4, LinksToOnly
<1>6. PATTERN_CLAIM_WINDOW_DAYS \in Nat /\ PATTERN_CLAIM_WINDOW_DAYS >= 24
  BY ONLY StoriesAssumption DEF StoriesAssumption
<1>7. LinkedBeforeLoss(row, PATTERN_CLAIM_WINDOW_DAYS)
  <2>1. claims[k].loss <= row.day + PATTERN_CLAIM_WINDOW_DAYS
    BY ONLY <1>4, <1>6
  <2> QED
    BY <1>0, <1>1, <1>4, <1>5, <1>6, <2>1, LinkedAgo
<1>8. RelatesToClaimed(row, k)
  BY ONLY <1>1, <1>3 DEF RelatesToClaimed
<1> DEFINE hits == {c \in ChangeRows :
                      /\ c.category = "coverage" /\ c.direction = "increase"
                      /\ LinkedBeforeLoss(c, PATTERN_CLAIM_WINDOW_DAYS)
                      /\ \E j \in LinkedClaim(c) : RelatesToClaimed(c, j)}
<1>9. row \in hits
  BY ONLY <1>1, <1>2, <1>5, <1>7, <1>8
<1>10. R1 = EmitLatest("coverage_raised_then_claimed_same_line", hits)
  BY ONLY DEF R1
<1>11. /\ hits \in SUBSET ChangeRows
       /\ \A c \in hits : LinkedClaim(c) # {}
  OBVIOUS
<1> HIDE DEF hits
<1>12. Tells(R1, "coverage_raised_then_claimed_same_line", k)
  <2>1. "coverage_raised_then_claimed_same_line" \in ClaimRules
    BY ONLY DEF ClaimRules
  <2>2. hits # {}
    BY ONLY <1>9
  <2>3. Tells(EmitLatest("coverage_raised_then_claimed_same_line", hits),
              "coverage_raised_then_claimed_same_line", k)
    BY ONLY <1>0, <1>1, <1>11, <2>1, <2>2, OnlyHitShows
  <2> QED
    BY ONLY <1>10, <2>3
<1>13. Shows("coverage_raised_then_claimed_same_line")
  BY ONLY <1>1, <1>12 DEF Tells, Shows, PatternMatches
<1> QED
  BY ONLY <1>2, <1>4, <1>5, <1>8, <1>13, raise \in Nat, loss \in Nat, raise - loss <= 24,
     loss < raise DEF DaysToLoss, RaiseLinks

\* The claim comes near the limit it was raised to.
LEMMA LimitEvident ==
  ASSUME Built, NEW k, NEW row, NEW new \in Limits, NEW raise \in Nat, NEW loss \in Nat,
         NEW report \in Nat,
         RaisedTables(k, row, new, raise, loss, report), loss < raise, raise <= 66, raise - loss <= 24
  PROVE  Shows("claim_near_new_limit")
<1> USE ScenariosAssumption, HistoryAssumption, StoriesAssumption
<1>0. DatasetTypeOK /\ DatesInv
  BY BuiltParts
<1>1. /\ k \in DOMAIN claims /\ DOMAIN claims = {k} /\ Story = {k}
      /\ claims[k].loss = Ago(loss) /\ claims[k].line = COLL
      /\ claims[k].amount * 100 >= 90 * new /\ LimitAt(COLL, Ago(loss)) = new
      /\ row \in ValidatorRows /\ row.day = Ago(raise) /\ row.category = "coverage"
      /\ row.line = COLL /\ row.direction = "increase"
  BY ONLY RaisedTables(k, row, new, raise, loss, report) DEF RaisedTables, Told
<1>2. row \in ChangeRows
  BY <1>1, RowsAreMaterial
<1>3. DAY_ANCHOR \in Nat /\ DAY_ANCHOR >= 400 /\ new # 0 /\ new \in Nat
  BY ONLY ScenariosAssumption, HistoryAssumption, new \in Limits
  DEF ScenariosAssumption, HistoryAssumption
<1>4. PATTERN_LIMIT_RAISED_WINDOW_DAYS \in Nat /\ PATTERN_LIMIT_RAISED_WINDOW_DAYS >= 24
  BY ONLY StoriesAssumption DEF StoriesAssumption
<1>5. row \in Raises(k)
  <2>1. /\ claims[k].loss - PATTERN_LIMIT_RAISED_WINDOW_DAYS <= row.day
        /\ row.day <= claims[k].loss
    BY ONLY <1>1, <1>3, <1>4, loss < raise, raise <= 66, raise - loss <= 24, loss \in Nat,
       raise \in Nat DEF Ago
  <2> QED
    BY ONLY <1>1, <1>2, <2>1 DEF Raises
<1>6. AtOrNearLimit(k)
  <2>1. ApplicableLimits(k) = {LimitAt(claims[k].line, claims[k].loss)}
    BY <1>0, <1>1, LimitsApply
  <2>2. ApplicableLimits(k) = {new}
    BY ONLY <1>1, <2>1
  <2> QED
    BY ONLY <1>1, <1>3, <2>2 DEF AtOrNearLimit, AT_OR_NEAR_LIMIT_PCT
<1> DEFINE hits == {j \in DOMAIN claims : AtOrNearLimit(j) /\ Raises(j) # {}}
           last == CHOOSE j \in hits : \A i \in hits :
                     \/ claims[i].loss < claims[j].loss
                     \/ claims[i].loss = claims[j].loss /\ i <= j
<1>7. hits = {k}
  BY ONLY <1>1, <1>5, <1>6
<1>8. R6 = {[code |-> "claim_near_new_limit", on |-> claims[last].loss,
             change |-> LatestOf(Raises(last)), claim |-> {last}]}
  BY ONLY <1>7 DEF R6
<1>9. last = k
  <2>1. k \in Nat
    BY <1>0, <1>1, ClaimTyped
  <2>2. \A i \in {k} : \/ claims[i].loss < claims[k].loss
                       \/ claims[i].loss = claims[k].loss /\ i <= k
    BY ONLY <2>1
  <2> QED
    BY ONLY <1>7, <2>2
<1> HIDE DEF hits, last
<1>10. \E match \in R6 : match.code = "claim_near_new_limit" /\ match.claim = {k}
  BY ONLY <1>8, <1>9
<1> QED
  BY ONLY <1>1, <1>10 DEF Shows, PatternMatches

\* Asked about a claim of which every relevant change is before its loss, a Run
\* takes the window of the nearest one.
LEMMA NearestWindow ==
  ASSUME NEW k, NEW c \in RelevantChanges(k), 0 <= DaysToLoss(c, k), DaysToLoss(c, k) <= 24,
         DaysToLoss(c, k) \in Int
  PROVE  WindowDays(k) = QUESTION_WINDOWS[1]
<1> USE StoriesAssumption, QuestionsAssumption
<1>1. QUESTION_WINDOWS[1] \in Nat /\ QUESTION_WINDOWS[1] >= 24
  <2>1. QUESTION_WINDOWS[1] \in Nat
    BY WindowsTyped
  <2> QED
    BY ONLY <2>1, StoriesAssumption DEF StoriesAssumption
<1> DEFINE covering == {i \in 1..3 : \E d \in RelevantChanges(k) :
                          0 <= DaysToLoss(d, k) /\ DaysToLoss(d, k) <= QUESTION_WINDOWS[i]}
           first == CHOOSE i \in covering \cup {3} : \A j \in covering : i <= j
<1>2. 1 \in covering
  <2>1. DaysToLoss(c, k) <= QUESTION_WINDOWS[1]
    BY ONLY <1>1, DaysToLoss(c, k) <= 24, DaysToLoss(c, k) \in Int
  <2> QED
    BY ONLY <2>1, c \in RelevantChanges(k), 0 <= DaysToLoss(c, k)
<1>3. covering \subseteq 1..3
  OBVIOUS
<1>4. WindowDays(k) = QUESTION_WINDOWS[first]
  BY ONLY DEF WindowDays
<1> HIDE DEF covering
<1>5. first = 1
  <2>1. 1 \in covering \cup {3} /\ \A j \in covering : 1 <= j
    BY ONLY <1>2, <1>3
  <2>2. first \in covering \cup {3} /\ \A j \in covering : first <= j
    BY ONLY <2>1
  <2> HIDE DEF first
  <2> QED
    BY ONLY <1>2, <1>3, <2>2
<1> QED
  BY ONLY <1>4, <1>5

\* Where no relevant change is within the second window the last one is taken.
LEMMA LastWindow ==
  ASSUME
         NEW k,
         \A i \in {1, 2} : \A d \in RelevantChanges(k) :
           ~(0 <= DaysToLoss(d, k) /\ DaysToLoss(d, k) <= QUESTION_WINDOWS[i])
  PROVE  WindowDays(k) = QUESTION_WINDOWS[3]
<1> DEFINE covering == {i \in 1..3 : \E d \in RelevantChanges(k) :
                          0 <= DaysToLoss(d, k) /\ DaysToLoss(d, k) <= QUESTION_WINDOWS[i]}
           first == CHOOSE i \in covering \cup {3} : \A j \in covering : i <= j
<1>1. covering \subseteq {3}
  <2>1. 1..3 = {1, 2, 3}
    BY ONLY Z3
  <2> QED
    BY ONLY <2>1, \A i \in {1, 2} : \A d \in RelevantChanges(k) :
           ~(0 <= DaysToLoss(d, k) /\ DaysToLoss(d, k) <= QUESTION_WINDOWS[i])
<1>2. WindowDays(k) = QUESTION_WINDOWS[first]
  BY ONLY DEF WindowDays
<1> HIDE DEF covering
<1>3. first = 3
  <2>1. covering \cup {3} = {3}
    BY ONLY <1>1
  <2>2. \A j \in covering : j = 3
    BY ONLY <1>1
  <2>3. \A j \in covering : 3 <= j
    BY ONLY <2>2
  <2> QED
    BY ONLY <2>1, <2>3
<1> QED
  BY ONLY <1>2, <1>3

\* A claim of ten thousand or more that is reported in the last month is routed.
LEMMA RoutedRecent ==
  ASSUME DatasetTypeOK, NEW k \in DOMAIN claims, claims[k].amount >= HIGH_SEVERITY,
         claims[k].report >= DAY_ANCHOR - 30
  PROVE  Routed(k)
<1>1. /\ SEVERITY_CUTS \in Seq(Nat \ {0}) /\ Len(SEVERITY_CUTS) = 3
      /\ SEVERITY_CUTS[1] < SEVERITY_CUTS[2]
  BY ONLY ExpectationsAssumption DEF ExpectationsAssumption
<1>2. /\ SEVERITY_CUTS[1] \in Nat /\ SEVERITY_CUTS[2] \in Nat
      /\ SEVERITY_CUTS[1] < SEVERITY_CUTS[2] /\ SEVERITY_CUTS[2] <= 10000
  <2>1. SEVERITY_CUTS[2] <= 10000
    BY ONLY StoriesAssumption DEF StoriesAssumption, HIGH_SEVERITY
  <2>2. SEVERITY_CUTS[1] \in Nat /\ SEVERITY_CUTS[2] \in Nat
    BY ONLY <1>1
  <2> QED
    BY ONLY <1>1, <2>1, <2>2
<1>3. /\ claims[k].amount \in Nat /\ claims[k].report \in Nat /\ DAY_ANCHOR \in Nat
      /\ claims[k].amount >= 10000
  <2>1. claims[k].amount \in Nat /\ claims[k].report \in Nat
    BY ClaimTyped, HistoryAssumption
  <2> QED
    BY ONLY <2>1, HistoryAssumption, claims[k].amount >= HIGH_SEVERITY
    DEF HistoryAssumption, HIGH_SEVERITY
<1>4. SEVERITY_CUTS[1] <= claims[k].amount /\ SEVERITY_CUTS[2] <= claims[k].amount
  BY ONLY <1>2, <1>3
<1>5. SeverityBand(claims[k].amount) \subseteq {"severe", "catastrophic"}
  <2>1. ASSUME NEW j \in 1..4, j > 1 => SEVERITY_CUTS[j - 1] <= claims[k].amount,
               j < 4 => claims[k].amount < SEVERITY_CUTS[j]
        PROVE  j = 3 \/ j = 4
    <3>1. j # 1
      BY ONLY <1>2, <1>3, <1>4, <2>1
    <3>2. j # 2
      BY ONLY <1>2, <1>3, <1>4, <2>1
    <3> QED
      BY ONLY <3>1, <3>2, j \in 1..4
  <2>2. SEVERITY_ORDER[3] = "severe" /\ SEVERITY_ORDER[4] = "catastrophic"
    BY ONLY DEF SEVERITY_ORDER
  <2> QED
    BY ONLY <2>1, <2>2 DEF SeverityBand
<1>6. claims[k].report >= DAY_ANCHOR - ROUTING_DAYS
  <2>1. ROUTING_DAYS \in Nat /\ ROUTING_DAYS >= 30
    BY ONLY QuestionsAssumption, StoriesAssumption DEF QuestionsAssumption, StoriesAssumption
  <2> QED
    BY ONLY <1>3, <2>1, claims[k].report >= DAY_ANCHOR - 30
<1> QED
  BY ONLY <1>5, <1>6 DEF Routed

\* What a Run is told of a story of a raised limit.
RaisedShows ==
  /\ Shows("coverage_raised_then_claimed_same_line") /\ Shows("claim_near_new_limit")
  /\ \A k \in Story : /\ DetectSituation(k) = "relevant_before_loss"
                      /\ WindowDays(k) = QUESTION_WINDOWS[1]

\* A raise shows as a match of two rules, in a question of the nearest window.
LEMMA RaisedTells ==
  ASSUME Built, NEW s, NEW old \in Limits, NEW new \in Limits, NEW raise \in Nat,
         NEW loss \in Nat, NEW report \in Nat, NEW k, NEW row,
         RaisedStory(s, plan, old, new, raise, loss, report),
         RaisedTables(k, row, new, raise, loss, report)
  PROVE  RaisedShows
<1>0. DatasetTypeOK /\ DatesInv
  BY ONLY Built, BuiltParts
<1>1. /\ loss < raise /\ raise <= 66 /\ raise - loss <= 24
      /\ plan.changes = {Move(Ago(raise), "coverage", COLL, new, "increase")}
                          \cup (IF s = "demo" THEN DemoSpine ELSE {})
      /\ plan.quiet = {Always}
  BY ONLY RaisedStory(s, plan, old, new, raise, loss, report) DEF RaisedStory
<1>2. /\ Shows("coverage_raised_then_claimed_same_line")
      /\ row \in ChangeRows /\ LinkedClaim(row) = {k} /\ RelatesToClaimed(row, k)
      /\ 0 <= DaysToLoss(row, k) /\ DaysToLoss(row, k) <= 24
  <2>1. RaiseLinks(k, row)
    BY ONLY <1>1, Built, new \in Limits,
       raise \in Nat, loss \in Nat, report \in Nat,
       RaisedTables(k, row, new, raise, loss, report), RaiseEvident
  <2> QED
    BY ONLY <2>1 DEF RaiseLinks
<1>3. Shows("claim_near_new_limit")
  BY ONLY <1>1, Built, new \in Limits,
     raise \in Nat, loss \in Nat, report \in Nat, RaisedTables(k, row, new, raise, loss, report),
     LimitEvident
<1>4. /\ Story = {k} /\ k \in DOMAIN claims /\ claims[k].loss = Ago(loss) /\ claims[k].line = COLL
      /\ row.day = Ago(raise)
  BY ONLY RaisedTables(k, row, new, raise, loss, report) DEF RaisedTables, Told
<1>5. row \in RelevantChanges(k)
  BY ONLY <1>2 DEF RelevantChanges
<1>6. \A c \in RelevantChanges(k) : ChangeTiming(c, k) # "after_loss_before_report"
  <2>1. ASSUME NEW c \in RelevantChanges(k)
        PROVE  ChangeTiming(c, k) = "before_loss"
    <3>1. c \in ChangeRows /\ c.line # NoLine /\ c.line = COLL
      BY ONLY <1>4, <2>1 DEF RelevantChanges, RelatesToClaimed
    <3>2. c \in ValidatorRows
      <4>1. c \in Material(ChangeRows)
        BY ONLY <1>0, <3>1, HistoryAssumption, LineRowsMaterial
      <4> QED
        BY ONLY <4>1, Built, RowsAreMaterial
    <3>3. PICK d \in plan.changes : Answers(c, d)
      <4>1. RowsShown
        BY ONLY Built, RowsTell
      <4> QED
        BY ONLY <1>1, <3>2, <4>1, OnlyPlanned
    <3>4. c.day = Ago(raise)
      BY ONLY <1>1, <3>1, <3>3 DEF Answers, Move, DemoSpine, Change
    <3>5. DaysToLoss(c, k) >= 0
      BY ONLY <1>2, <1>4, <3>4 DEF DaysToLoss
    <3> QED
      BY ONLY <3>5 DEF ChangeTiming
  <2> QED
    BY ONLY <2>1
<1>7. DetectSituation(k) = "relevant_before_loss"
  BY ONLY <1>5, <1>6 DEF DetectSituation
<1>8. WindowDays(k) = QUESTION_WINDOWS[1]
  <2>1. DaysToLoss(row, k) \in Int
    <3>1. claims[k].loss \in Nat /\ row.day \in Nat
      BY ONLY <1>0, <1>2, <1>4, HistoryAssumption, ClaimTyped, RowTyped
    <3> QED
      BY ONLY <3>1 DEF DaysToLoss
  <2> QED
    BY ONLY <1>2, <1>5, <2>1, NearestWindow
<1> QED
  BY ONLY <1>2, <1>3, <1>4, <1>7, <1>8 DEF RaisedShows

\* The exemplar raises both flags of a policy, and its claim is routed.
LEMMA DemoTells ==
  ASSUME Built, NEW old \in Limits, NEW report \in Nat, NEW k, NEW row,
         RaisedStory("demo", plan, old, 25000, 41, 17, report),
         RaisedTables(k, row, 25000, 41, 17, report)
  PROVE  /\ "rapid_change_cluster" \in Flags /\ "vehicle_and_address_within_60d" \in Flags
         /\ \A j \in Story : Routed(j)
<1>0. DatasetTypeOK /\ DatesInv /\ ChangesRoundTrip
  BY ONLY Built, BuiltParts
<1>1. PICK a \in ValidatorRows : \E b \in ValidatorRows : \E c \in ValidatorRows : DemoRows(a, b, c)
  BY ONLY Built, RaisedStory("demo", plan, old, 25000, 41, 17, report), DemoShown
<1>2. PICK b \in ValidatorRows : \E c \in ValidatorRows : DemoRows(a, b, c)
  BY ONLY <1>1
<1>3. PICK c \in ValidatorRows : DemoRows(a, b, c)
  BY ONLY <1>2
<1>4. /\ a.category = "address" /\ a.day = Ago(55) /\ b.category = "coverage" /\ b.day = Ago(41)
      /\ c.category = "vehicle" /\ c.day = Ago(30)
  BY ONLY <1>3 DEF DemoRows
<1>5. /\ a \in Material(changes) /\ b \in Material(changes) /\ c \in Material(changes)
      /\ a \in changes /\ c \in changes
  <2>1. /\ ValidatorRows = Material(changes) /\ Material(changes) \subseteq changes
    BY ONLY Built, RowsAreMaterial
  <2> QED
    BY ONLY <2>1
<1>6. DAY_ANCHOR \in Nat /\ DAY_ANCHOR >= 400
  BY ONLY Dates
<1>7. /\ Ago(55) \in Nat
      /\ a.day \in Nat /\ Ago(55) <= a.day /\ a.day <= Ago(55) + 25
      /\ b.day \in Nat /\ Ago(55) <= b.day /\ b.day <= Ago(55) + 25
      /\ c.day \in Nat /\ Ago(55) <= c.day /\ c.day <= Ago(55) + 25
  BY ONLY <1>4, <1>6 DEF Ago
<1>8. "rapid_change_cluster" \in Flags
  <2>1. a # b /\ a # c /\ b # c
    BY ONLY <1>4
  <2>2. \A x \in {a, b, c} : x.day \in Nat /\ Ago(55) <= x.day /\ x.day <= Ago(55) + 25
    BY ONLY <1>7
  <2> QED
    BY ONLY <1>0, <1>5, <1>7, <2>1, <2>2, ThreeNear
<1>9. "vehicle_and_address_within_60d" \in Flags
  <2>1. \A x \in {c, a} : x.day \in Nat /\ Ago(55) <= x.day /\ x.day <= Ago(55) + 25
    BY ONLY <1>7
  <2> QED
    BY ONLY <1>0, <1>4, <1>5, <1>7, <2>1, PairNear
<1>10. \A j \in Story : Routed(j)
  <2>1. /\ Story = {k} /\ k \in DOMAIN claims /\ claims[k].amount = Near(25000)
        /\ claims[k].report = report
    BY ONLY RaisedTables(k, row, 25000, 41, 17, report) DEF RaisedTables, Told
  <2>2. Near(25000) = 24250
    BY ONLY DEF Near, LIMIT_UTILISATION
  <2>3. Ago(17) + 1 <= report
    BY ONLY RaisedStory("demo", plan, old, 25000, 41, 17, report) DEF RaisedStory
  <2>4. claims[k].amount >= HIGH_SEVERITY /\ claims[k].report >= DAY_ANCHOR - 30
    BY ONLY <1>6, <2>1, <2>2, <2>3, report \in Nat DEF Ago, HIGH_SEVERITY
  <2>5. Routed(k)
    BY ONLY <1>0, <2>1, <2>4, RoutedRecent
  <2> QED
    BY ONLY <2>1, <2>5
<1> QED
  BY ONLY <1>8, <1>9, <1>10

\* A cut of a deductible that is linked a while before the loss of the only claim.
LEMMA CutEvident ==
  ASSUME Built, NEW k \in DOMAIN claims, DOMAIN claims = {k}, Story = {k},
         NEW row \in ValidatorRows, row.category = "deductible", row.direction = "decrease", row.day <= claims[k].loss, claims[k].loss <= row.day + 32, claims[k].loss <= claims[k].report
  PROVE  Shows("deductible_lowered_before_claim")
<1>0. DatasetTypeOK /\ DatesInv
  BY ONLY Built, BuiltParts
<1>1. row \in ChangeRows
  <2>1. ValidatorRows = Material(ChangeRows) /\ Material(ChangeRows) \subseteq ChangeRows
    BY ONLY Built, RowsAreMaterial
  <2> QED
    BY ONLY <2>1, row \in ValidatorRows
<1>2. row.day \in Nat /\ claims[k].loss \in Nat /\ claims[k].report \in Nat
  BY ONLY <1>0, <1>1, HistoryAssumption, k \in DOMAIN claims, ClaimTyped, RowTyped
<1>3. LinkedClaim(row) = {k}
  <2>1. row.day <= claims[k].report
    BY ONLY <1>2, row.day <= claims[k].loss, claims[k].loss <= claims[k].report
  <2> QED
    BY ONLY <1>0, <2>1, DOMAIN claims = {k}, LinksToOnly
<1>4. PATTERN_CLAIM_WINDOW_DAYS \in Nat /\ PATTERN_CLAIM_WINDOW_DAYS >= 32
  BY ONLY StoriesAssumption DEF StoriesAssumption
<1>5. LinkedBeforeLoss(row, PATTERN_CLAIM_WINDOW_DAYS)
  <2>1. claims[k].loss <= row.day + PATTERN_CLAIM_WINDOW_DAYS
    BY ONLY <1>2, <1>4, claims[k].loss <= row.day + 32
  <2> QED
    BY ONLY <1>0, <1>2, <1>3, <1>4, <2>1, k \in DOMAIN claims,
       row.day <= claims[k].loss, LinkedAgo
<1> DEFINE hits == {c \in ChangeRows : /\ c.category = "deductible" /\ c.direction = "decrease"
                                       /\ LinkedBeforeLoss(c, PATTERN_CLAIM_WINDOW_DAYS)}
<1>6. hits # {}
  BY ONLY <1>1, <1>5, row.category = "deductible", row.direction = "decrease"
<1>7. R2 = EmitLatest("deductible_lowered_before_claim", hits)
  BY ONLY DEF R2
<1>8. /\ hits \in SUBSET ChangeRows
      /\ \A c \in hits : LinkedClaim(c) # {}
  BY ONLY DEF LinkedBeforeLoss
<1> HIDE DEF hits
<1>9. Tells(EmitLatest("deductible_lowered_before_claim", hits),
            "deductible_lowered_before_claim", k)
  <2>1. "deductible_lowered_before_claim" \in ClaimRules
    BY ONLY DEF ClaimRules
  <2> QED
    BY ONLY <1>0, <1>6, <1>8, <2>1, DOMAIN claims = {k}, OnlyHitShows
<1> QED
  BY ONLY <1>7, <1>9, Story = {k} DEF Tells, Shows, PatternMatches

\* A material change in the gap of its Linked Claim, none after it in a gap.
LEMMA GapEvident ==
  ASSUME Built, NEW k \in DOMAIN claims, Story = {k}, NEW row \in ValidatorRows,
         LinkedClaim(row) = {k}, claims[k].loss < row.day, \A r \in ValidatorRows : r = row \/ r.day < row.day \/ LinkedClaim(r) \subseteq {k}
  PROVE  Shows("change_in_loss_report_gap")
<1>0. DatasetTypeOK /\ DatesInv
  BY ONLY Built, BuiltParts
<1>1. ValidatorRows = Material(ChangeRows) /\ Material(ChangeRows) \subseteq ChangeRows
  BY ONLY Built, RowsAreMaterial
<1>2. row.day \in Nat /\ claims[k].loss \in Nat
  BY ONLY <1>0, <1>1, HistoryAssumption, k \in DOMAIN claims, row \in ValidatorRows,
     ClaimTyped, RowTyped
<1> DEFINE hits == {c \in Material(ChangeRows) :
                      \E j \in LinkedClaim(c) : ChangeTiming(c, j) = "after_loss_before_report"}
<1>3. row \in hits
  <2>1. ChangeTiming(row, k) = "after_loss_before_report"
    BY ONLY <1>2, claims[k].loss < row.day DEF ChangeTiming, DaysToLoss
  <2> QED
    BY ONLY <1>1, <2>1, row \in ValidatorRows, LinkedClaim(row) = {k}
<1>4. R3 = EmitLatest("change_in_loss_report_gap", hits)
  BY ONLY DEF R3
<1>5. /\ hits \in SUBSET ChangeRows /\ hits \subseteq ValidatorRows
      /\ \A c \in hits : LinkedClaim(c) # {}
  BY ONLY <1>1
<1> HIDE DEF hits
<1>6. LinkedClaim(LatestOf(hits)) = {k}
  <2>1. /\ LatestOf(hits) \in hits
        /\ \A d \in hits : d # LatestOf(hits) => Before(d, LatestOf(hits))
    BY ONLY <1>0, <1>3, <1>5, HistoryAssumption, LatestExists
  <2> DEFINE latest == LatestOf(hits)
  <2>2. latest \in hits /\ (row # latest => Before(row, latest))
    BY ONLY <1>3, <2>1
  <2> HIDE DEF latest
  <2>3. CASE latest = row
    BY ONLY <2>3, LinkedClaim(row) = {k} DEF latest
  <2>4. CASE latest # row
    <3>1. latest.day \in Nat
      BY ONLY <1>0, <1>5, <2>2, HistoryAssumption, RowTyped
    <3>2. row.day <= latest.day
      BY ONLY <1>2, <2>2, <2>4, <3>1 DEF Before
    <3>3. ~(latest.day < row.day)
      BY ONLY <1>2, <3>1, <3>2
    <3>4. LinkedClaim(latest) \subseteq {k}
      BY ONLY <1>5, <2>2, <2>4, <3>3,
         \A r \in ValidatorRows : r = row \/ r.day < row.day \/ LinkedClaim(r) \subseteq {k}
    <3>5. LinkedClaim(latest) # {}
      BY ONLY <1>5, <2>2
    <3> QED
      BY ONLY <3>4, <3>5 DEF latest
  <2> QED
    BY ONLY <2>3, <2>4
<1>7. Tells(EmitLatest("change_in_loss_report_gap", hits), "change_in_loss_report_gap", k)
  <2>1. "change_in_loss_report_gap" \in ClaimRules
    BY ONLY DEF ClaimRules
  <2>2. hits # {}
    BY ONLY <1>3
  <2> QED
    BY ONLY <1>0, <1>5, <1>6, <2>1, <2>2, HitShows
<1> QED
  BY ONLY <1>4, <1>7, Story = {k} DEF Tells, Shows, PatternMatches

\* S2: the cut shows.
LEMMA CutTells ==
  ASSUME Built, NEW amount, NEW report, NEW k, NEW row, CutTables(k, row, amount, report)
  PROVE  Shows("deductible_lowered_before_claim")
<1>1. /\ k \in DOMAIN claims /\ DOMAIN claims = {k} /\ Story = {k}
      /\ claims[k].loss = Ago(20) /\ claims[k].report = report /\ Ago(20) < report
      /\ report \in Nat
      /\ row \in ValidatorRows /\ row.day = Ago(52) /\ row.category = "deductible"
      /\ row.direction = "decrease"
  BY ONLY CutTables(k, row, amount, report) DEF CutTables, Told
<1>2. DAY_ANCHOR \in Nat /\ DAY_ANCHOR >= 400
  BY ONLY Dates
<1>3. /\ row.day <= claims[k].loss /\ claims[k].loss <= row.day + 32
      /\ claims[k].loss <= claims[k].report
  BY ONLY <1>1, <1>2 DEF Ago
<1> QED
  BY ONLY <1>1, <1>3, Built, CutEvident

\* S3: the move shows.
LEMMA GapTells ==
  ASSUME Built, NEW k, NEW row, NEW line, GapTables(k, row, line)
  PROVE  Shows("change_in_loss_report_gap")
<1>0. DatasetTypeOK /\ DatesInv
  BY ONLY Built, BuiltParts
<1>1. /\ k \in DOMAIN claims /\ Story = {k}
      /\ claims[k].loss = Ago(34) /\ claims[k].report = Ago(19)
      /\ row \in ValidatorRows /\ row.day = Ago(28)
      /\ \A r \in ValidatorRows : r = row \/ r.day < Ago(164)
      /\ \A j \in DOMAIN claims : j = k \/ (claims[j].loss < Ago(164) /\ claims[j].report < Ago(104))
  BY ONLY GapTables(k, row, line) DEF GapTables, Told
<1>2. DAY_ANCHOR \in Nat /\ DAY_ANCHOR >= 400
  BY ONLY Dates
<1>3. LinkedClaim(row) = {k}
  <2>1. \A j \in DOMAIN claims : claims[j].report \in Nat
    BY ONLY <1>0, HistoryAssumption, ClaimTyped
  <2>2. ReportedFrom(row.day) = {k}
    <3>1. claims[k].report >= row.day
      BY ONLY <1>1, <1>2 DEF Ago
    <3>2. ASSUME NEW j \in DOMAIN claims, claims[j].report >= row.day PROVE j = k
      BY ONLY <1>1, <1>2, <2>1, <3>2, j \in DOMAIN claims DEF Ago
    <3> QED
      BY ONLY <1>1, <3>1, <3>2 DEF ReportedFrom
  <2>3. PICK j \in ReportedFrom(row.day) : LinkedClaim(row) = {j}
    BY ONLY <1>0, <2>2, HistoryAssumption, LinkExists
  <2> QED
    BY ONLY <2>2, <2>3
<1>4. claims[k].loss < row.day
  BY ONLY <1>1, <1>2 DEF Ago
<1>5. \A r \in ValidatorRows : r = row \/ r.day < row.day \/ LinkedClaim(r) \subseteq {k}
  <2>1. Ago(164) < row.day /\ Ago(164) \in Nat /\ row.day \in Nat
    BY ONLY <1>1, <1>2 DEF Ago
  <2>2. \A r \in ValidatorRows : r.day \in Nat
    <3>1. RowsShown
      BY ONLY Built, RowsTell
    <3> QED
      BY ONLY <3>1 DEF RowsShown
  <2> QED
    BY ONLY <1>1, <2>1, <2>2
<1> QED
  BY ONLY <1>1, <1>3, <1>4, <1>5, Built, GapEvident

\* S4: the cuts show, the four changes are a cluster and the claim is routed.
LEMMA ClusterTells ==
  ASSUME Built, NEW line, NEW amount \in Nat, NEW report, NEW k, NEW a, NEW b, NEW c, NEW d,
         ClusterStory(plan, line, amount, report), ClusterTold(k, line, amount, report),
         ClusterRows(a, b, c, d)
  PROVE  /\ Shows("deductible_lowered_before_claim") /\ "rapid_change_cluster" \in Flags
         /\ \A j \in Story : Routed(j)
<1>0. DatasetTypeOK /\ DatesInv /\ ChangesRoundTrip
  BY ONLY Built, BuiltParts
<1>1. /\ k \in DOMAIN claims /\ DOMAIN claims = {k} /\ Story = {k} /\ claims[k].amount = amount
      /\ claims[k].loss = Ago(31) /\ claims[k].report = report /\ Ago(31) < report
      /\ report \in Nat
  BY ONLY ClusterTold(k, line, amount, report) DEF ClusterTold, Told
<1>2. DAY_ANCHOR \in Nat /\ DAY_ANCHOR >= 400
  BY ONLY Dates
<1>3. /\ ValidatorRows = {a, b, c, d} /\ b.category = "coverage" /\ b.day = Ago(75)
      /\ c.category = "deductible" /\ c.day = Ago(68)
      /\ d.category = "deductible" /\ d.day = Ago(60) /\ d.direction = "decrease"
  BY ONLY ClusterRows(a, b, c, d) DEF ClusterRows
<1>4. Shows("deductible_lowered_before_claim")
  <2>1. /\ d.day <= claims[k].loss /\ claims[k].loss <= d.day + 32
        /\ claims[k].loss <= claims[k].report /\ d \in ValidatorRows
    BY ONLY <1>1, <1>2, <1>3 DEF Ago
  <2> QED
    BY ONLY <1>1, <1>3, <2>1, Built, CutEvident
<1>5. "rapid_change_cluster" \in Flags
  <2>1. b \in Material(changes) /\ c \in Material(changes) /\ d \in Material(changes)
    <3>1. ValidatorRows = Material(changes)
      BY ONLY Built, RowsAreMaterial
    <3> QED
      BY ONLY <1>3, <3>1
  <2>2. /\ Ago(75) \in Nat /\ b # c /\ b # d /\ c # d
        /\ \A x \in {b, c, d} : x.day \in Nat /\ Ago(75) <= x.day /\ x.day <= Ago(75) + 25
    BY ONLY <1>2, <1>3 DEF Ago
  <2> QED
    BY ONLY <1>0, <2>1, <2>2, ThreeNear
<1>6. Routed(k)
  <2>1. 11000 <= amount
    BY ONLY ClusterStory(plan, line, amount, report) DEF ClusterStory
  <2>2. claims[k].amount >= HIGH_SEVERITY
    BY ONLY <1>1, <2>1, amount \in Nat DEF HIGH_SEVERITY
  <2>3. claims[k].report >= DAY_ANCHOR - 30
    BY ONLY <1>1, <1>2 DEF Ago
  <2> QED
    BY ONLY <1>0, <1>1, <2>2, <2>3, RoutedRecent
<1> QED
  BY ONLY <1>1, <1>4, <1>5, <1>6

\* S5: the vehicle and the address raise their flag.
LEMMA SpineTells ==
  ASSUME Built, SpineStory(plan)
  PROVE  "vehicle_and_address_within_60d" \in Flags
<1>0. DatasetTypeOK /\ DatesInv /\ ChangesRoundTrip
  BY ONLY Built, BuiltParts
<1>1. RowsShown
  BY ONLY Built, RowsTell
<1>2. PICK v \in ValidatorRows : Answers(v, Change(Ago(73), "vehicle"))
  BY ONLY <1>1, SpineStory(plan) DEF SpineStory, RowsShown
<1>3. PICK a \in ValidatorRows : Answers(a, Change(Ago(48), "address"))
  BY ONLY <1>1, SpineStory(plan) DEF SpineStory, RowsShown
<1>4. v.category = "vehicle" /\ v.day = Ago(73) /\ a.category = "address" /\ a.day = Ago(48)
  BY ONLY <1>2, <1>3 DEF Answers, Change
<1>5. v \in changes /\ a \in changes
  <2>1. ValidatorRows = Material(changes) /\ Material(changes) \subseteq changes
    BY ONLY Built, RowsAreMaterial
  <2> QED
    BY ONLY <2>1
<1>6. /\ Ago(73) \in Nat
      /\ \A x \in {v, a} : x.day \in Nat /\ Ago(73) <= x.day /\ x.day <= Ago(73) + 25
  <2>1. DAY_ANCHOR \in Nat /\ DAY_ANCHOR >= 400
    BY ONLY Dates
  <2> QED
    BY ONLY <1>4, <2>1 DEF Ago
<1> QED
  BY ONLY <1>0, <1>4, <1>5, <1>6, PairNear

\* Nothing came before a claim: no pattern names it but that of its gap, and a
\* Run looks back the longest window.
LEMMA QuietTells ==
  ASSUME Built, NEW k, NEW loss, NEW report, NEW line, QuietTables(k, loss, report, line)
  PROVE  /\ CodesOn(k) \subseteq {"change_in_loss_report_gap"}
         /\ WindowDays(k) = QUESTION_WINDOWS[3]
<1>0. DatasetTypeOK /\ DatesInv
  BY ONLY Built, BuiltParts
<1>1. /\ k \in DOMAIN claims /\ claims[k].loss = loss /\ loss \in Nat
      /\ \A r \in ValidatorRows : r.day < loss - 130 \/ loss < r.day
  BY ONLY QuietTables(k, loss, report, line) DEF QuietTables, Told
<1>2. ValidatorRows = Material(ChangeRows) /\ Material(ChangeRows) \subseteq ChangeRows
  BY ONLY Built, RowsAreMaterial
<1>3. \A r \in Material(ChangeRows) : r.day \in Nat
  BY ONLY <1>0, <1>2, HistoryAssumption, RowTyped
<1>4. ASSUME NEW match \in PatternMatches, k \in match.claim
      PROVE  match.code = "change_in_loss_report_gap"
  <2>1. SUFFICES ASSUME match.code # "change_in_loss_report_gap" PROVE FALSE
    OBVIOUS
  <2>2. /\ match.change \in Material(ChangeRows)
        /\ claims[k].loss - 120 <= match.change.day /\ match.change.day <= claims[k].loss
    BY ONLY <1>0, <1>4, <2>1, MatchWithin
  <2>3. match.change.day \in Nat
    BY ONLY <1>3, <2>2
  <2> QED
    BY ONLY <1>1, <1>2, <2>2, <2>3
<1>5. WindowDays(k) = QUESTION_WINDOWS[3]
  <2>1. /\ QUESTION_WINDOWS[1] \in Nat /\ QUESTION_WINDOWS[2] \in Nat
        /\ QUESTION_WINDOWS[1] < QUESTION_WINDOWS[2] /\ QUESTION_WINDOWS[2] <= 130
    <3>1. QUESTION_WINDOWS[1] \in Nat /\ QUESTION_WINDOWS[2] \in Nat
      BY ONLY QuestionsAssumption, WindowsTyped, 1 \in 1..3, 2 \in 1..3
    <3> QED
      BY ONLY <3>1, QuestionsAssumption, StoriesAssumption
      DEF QuestionsAssumption, StoriesAssumption, C1_QUIET_WINDOW_DAYS
  <2>2. ASSUME NEW i \in {1, 2}, NEW d \in RelevantChanges(k),
               0 <= DaysToLoss(d, k), DaysToLoss(d, k) <= QUESTION_WINDOWS[i]
        PROVE  FALSE
    <3>1. d \in ChangeRows /\ d.line # NoLine
      BY ONLY <2>2 DEF RelevantChanges, RelatesToClaimed
    <3>2. d \in Material(ChangeRows)
      BY ONLY <1>0, <3>1, HistoryAssumption, LineRowsMaterial
    <3>3. d.day \in Nat /\ (d.day < loss - 130 \/ loss < d.day)
      BY ONLY <1>1, <1>2, <1>3, <3>2
    <3>4. QUESTION_WINDOWS[i] \in Nat /\ QUESTION_WINDOWS[i] <= 130
      BY ONLY <2>1, i \in {1, 2}
    <3>5. 0 <= loss - d.day /\ loss - d.day <= QUESTION_WINDOWS[i]
      BY ONLY <1>1, <2>2 DEF DaysToLoss
    <3> QED
      BY ONLY <1>1, <3>3, <3>4, <3>5
  <2>3. \A i \in {1, 2} : \A d \in RelevantChanges(k) :
          ~(0 <= DaysToLoss(d, k) /\ DaysToLoss(d, k) <= QUESTION_WINDOWS[i])
    BY ONLY <2>2
  <2> QED
    BY ONLY <2>3, LastWindow
<1> QED
  BY ONLY <1>4, <1>5 DEF CodesOn

\* C3: the move shows, in the gap.
LEMMA LateTells ==
  ASSUME Built, NEW k, NEW loss, NEW report, QuietTables(k, loss, report, COMP),
         NEW row \in ValidatorRows, loss < row.day, row.day <= report
  PROVE  Shows("change_in_loss_report_gap")
<1>0. DatasetTypeOK /\ DatesInv
  BY ONLY Built, BuiltParts
<1>1. /\ k \in DOMAIN claims /\ DOMAIN claims = {k} /\ Story = {k}
      /\ claims[k].loss = loss /\ claims[k].report = report
  BY ONLY QuietTables(k, loss, report, COMP) DEF QuietTables, Told
<1>2. LinkedClaim(row) = {k} /\ \A c : LinkedClaim(c) \subseteq {k}
  <2>1. \A c : /\ LinkedClaim(c) \subseteq {k}
               /\ c.day <= claims[k].report => LinkedClaim(c) = {k}
    BY ONLY <1>0, <1>1, LinksToOnly
  <2> QED
    BY ONLY <1>1, <2>1, row.day <= report
<1> QED
  BY ONLY <1>1, <1>2, Built, loss < row.day, GapEvident

\* C5: the cluster matches its rules, and is evidence of no claim but in a gap.
IdleShows ==
  /\ "rapid_change_cluster" \in Flags /\ "vehicle_and_address_within_60d" \in Flags
  /\ \A match \in PatternMatches : \A c \in plan.changes :
       match.claim # {} /\ match.change.day = c.day /\ match.change.category = c.category
         => match.code = "change_in_loss_report_gap"

\* The cluster of C5 raises both flags and is evidence of no claim but in a gap.
LEMMA IdleTells ==
  ASSUME Built, NEW last \in Nat, IdleStory(plan, last)
  PROVE  IdleShows
<1> USE ScenariosAssumption, HistoryAssumption, StoriesAssumption, WindowsAssumption
<1>0. DatasetTypeOK /\ DatesInv /\ ChangesRoundTrip /\ ClaimsLaid
  BY ONLY Built, BuiltParts
<1>1. /\ 140 <= last
      /\ plan.changes = {Change(last - 20, "address"), Change(last - 13, "vehicle"),
                         Move(last - 6, "coverage", COMP, 0, "any"),
                         Move(last, "deductible", COMP, 0, "any")}
      /\ plan.claims = {} /\ plan.unclaimed = {<<last - 50, last + 120>>}
  BY ONLY IdleStory(plan, last) DEF IdleStory
<1>2. RowsShown
  BY ONLY Built, RowsTell
<1>3. PICK a \in ValidatorRows : Answers(a, Change(last - 20, "address"))
  BY ONLY <1>1, <1>2 DEF RowsShown
<1>4. PICK v \in ValidatorRows : Answers(v, Change(last - 13, "vehicle"))
  BY ONLY <1>1, <1>2 DEF RowsShown
<1>5. PICK c \in ValidatorRows : Answers(c, Move(last - 6, "coverage", COMP, 0, "any"))
  BY ONLY <1>1, <1>2 DEF RowsShown
<1>6. /\ a.category = "address" /\ a.day = last - 20 /\ v.category = "vehicle"
      /\ v.day = last - 13 /\ c.category = "coverage" /\ c.day = last - 6
  BY ONLY <1>3, <1>4, <1>5 DEF Answers, Change, Move
<1>7. /\ a \in Material(changes) /\ v \in Material(changes) /\ c \in Material(changes)
      /\ a \in changes /\ v \in changes
  <2>1. ValidatorRows = Material(changes) /\ Material(changes) \subseteq changes
    BY ONLY Built, RowsAreMaterial
  <2> QED
    BY ONLY <2>1
<1>8. /\ last - 20 \in Nat /\ a # v /\ a # c /\ v # c
      /\ \A x \in {a, v, c} : x.day \in Nat /\ last - 20 <= x.day /\ x.day <= (last - 20) + 25
  BY ONLY <1>1, <1>6, last \in Nat
<1>9. "rapid_change_cluster" \in Flags
  BY ONLY <1>0, <1>7, <1>8, ThreeNear
<1>10. "vehicle_and_address_within_60d" \in Flags
  <2>1. \A x \in {v, a} : x.day \in Nat /\ last - 20 <= x.day /\ x.day <= (last - 20) + 25
    BY ONLY <1>8
  <2> QED
    BY ONLY <1>0, <1>6, <1>7, <1>8, <2>1, PairNear
<1>11. ASSUME NEW match \in PatternMatches, NEW d \in plan.changes, match.claim # {},
              match.change.day = d.day
       PROVE  match.code = "change_in_loss_report_gap"
  <2>1. SUFFICES ASSUME match.code # "change_in_loss_report_gap" PROVE FALSE
    OBVIOUS
  <2>2. PICK k \in match.claim : TRUE
    BY ONLY <1>11
  <2>3. /\ k \in DOMAIN claims
        /\ claims[k].loss - 120 <= match.change.day /\ match.change.day <= claims[k].loss
    BY ONLY <1>0, <2>1, <2>2, match \in PatternMatches, MatchWithin
  <2>4. claims[k].loss \in Nat
    BY ONLY <1>0, <2>3, HistoryAssumption, ClaimTyped
  <2>5. last - 20 <= d.day /\ d.day <= last /\ d.day \in Int
    BY ONLY <1>1, <1>11, last \in Nat DEF Change, Move
  <2>6. last - 50 <= claims[k].loss /\ claims[k].loss <= last + 120
    BY ONLY <1>11, <2>3, <2>4, <2>5, last \in Nat
  <2>7. Blocked(plan.unclaimed, claims[k].loss)
    BY ONLY <1>1, <2>6 DEF Blocked
  <2>8. FromPlan(k) \/ FromRest(k)
    BY ONLY <1>0, <2>3 DEF ClaimsLaid
  <2> QED
    BY ONLY <1>1, <2>7, <2>8 DEF FromPlan, FromRest
<1>12. \A match \in PatternMatches : \A d \in plan.changes :
         match.claim # {} /\ match.change.day = d.day /\ match.change.category = d.category
           => match.code = "change_in_loss_report_gap"
  BY ONLY <1>11
<1> QED
  BY ONLY <1>9, <1>10, <1>12 DEF IdleShows

-----------------------------------------------------------------------------
(* The catalogue tells what it was planted for. *)

\* S1, S6 and the exemplar show what they were planted for.
LEMMA RaisedCase ==
  ASSUME Built, scenario \in {"demo", "S1", "S6"}
  PROVE  ScenariosShow
<1>1. PICK old \in Limits : \E new \in Limits : \E raise \in Nat : \E loss \in Nat :
        \E report \in Nat : \E k \in DOMAIN claims : \E row \in ValidatorRows :
          /\ RaisedStory(scenario, plan, old, new, raise, loss, report)
          /\ RaisedTables(k, row, new, raise, loss, report)
  <2>1. RunOfRaise
    BY ONLY Built, scenario \in {"demo", "S1", "S6"},
       RaisedRun
  <2> QED
    BY ONLY <2>1 DEF RunOfRaise
<1>2. PICK new \in Limits : \E raise \in Nat : \E loss \in Nat :
        \E report \in Nat : \E k \in DOMAIN claims : \E row \in ValidatorRows :
          /\ RaisedStory(scenario, plan, old, new, raise, loss, report)
          /\ RaisedTables(k, row, new, raise, loss, report)
  BY ONLY <1>1
<1>3. PICK raise \in Nat : \E loss \in Nat :
        \E report \in Nat : \E k \in DOMAIN claims : \E row \in ValidatorRows :
          /\ RaisedStory(scenario, plan, old, new, raise, loss, report)
          /\ RaisedTables(k, row, new, raise, loss, report)
  BY ONLY <1>2
<1>4. PICK loss \in Nat :
        \E report \in Nat : \E k \in DOMAIN claims : \E row \in ValidatorRows :
          /\ RaisedStory(scenario, plan, old, new, raise, loss, report)
          /\ RaisedTables(k, row, new, raise, loss, report)
  BY ONLY <1>3
<1>5. PICK report \in Nat : \E k \in DOMAIN claims : \E row \in ValidatorRows :
        /\ RaisedStory(scenario, plan, old, new, raise, loss, report)
        /\ RaisedTables(k, row, new, raise, loss, report)
  BY ONLY <1>4
<1>6. PICK k \in DOMAIN claims : \E row \in ValidatorRows :
        /\ RaisedStory(scenario, plan, old, new, raise, loss, report)
        /\ RaisedTables(k, row, new, raise, loss, report)
  BY ONLY <1>5
<1>7. PICK row \in ValidatorRows :
        /\ RaisedStory(scenario, plan, old, new, raise, loss, report)
        /\ RaisedTables(k, row, new, raise, loss, report)
  BY ONLY <1>6
<1>8. RaisedShows
  BY ONLY <1>7, Built, old \in Limits, new \in Limits, raise \in Nat, loss \in Nat,
     report \in Nat, RaisedTells
<1>9. CASE scenario = "demo"
  <2>1. raise = 41 /\ loss = 17 /\ new = 25000
    BY ONLY <1>7, <1>9 DEF RaisedStory
  <2>2. /\ RaisedStory("demo", plan, old, 25000, 41, 17, report)
        /\ RaisedTables(k, row, 25000, 41, 17, report)
    BY ONLY <1>7, <1>9, <2>1
  <2>3. /\ "rapid_change_cluster" \in Flags /\ "vehicle_and_address_within_60d" \in Flags
        /\ \A j \in Story : Routed(j)
    BY ONLY <2>2, Built, old \in Limits,
       report \in Nat, DemoTells
  <2> QED
    BY ONLY <1>8, <1>9, <2>3 DEF ScenariosShow, RaisedShows
<1>10. CASE scenario \in {"S1", "S6"}
  BY ONLY <1>8, <1>10 DEF ScenariosShow, RaisedShows
<1> QED
  BY ONLY <1>9, <1>10, scenario \in {"demo", "S1", "S6"}

\* S2 shows what it was planted for.
LEMMA CutCase ==
  ASSUME Built, scenario = "S2"
  PROVE  ScenariosShow
<1>1. plan \in Plans("S2")
  BY ONLY Built, scenario = "S2", BuiltParts
<1>2. \E limit \in Limits : \E amount \in Nat : \E report \in Nat :
        CutStory(plan, limit, amount, report)
  BY ONLY <1>1, StoriesTold
<1>3. PICK limit \in Limits : \E amount \in Nat : \E report \in Nat :
        CutStory(plan, limit, amount, report)
  BY ONLY <1>2
<1>4. PICK amount \in Nat : \E report \in Nat : CutStory(plan, limit, amount, report)
  BY ONLY <1>3
<1>5. PICK report \in Nat : CutStory(plan, limit, amount, report)
  BY ONLY <1>4
<1>6. PICK k \in DOMAIN claims : \E row \in ValidatorRows : CutTables(k, row, amount, report)
  BY ONLY <1>5, Built, limit \in Limits, amount \in Nat,
     report \in Nat, CutShown
<1>7. PICK row \in ValidatorRows : CutTables(k, row, amount, report)
  BY ONLY <1>6
<1>8. Shows("deductible_lowered_before_claim")
  BY ONLY <1>7, Built, CutTells
<1> QED
  BY ONLY <1>8, scenario = "S2" DEF ScenariosShow

\* S3 shows what it was planted for.
LEMMA GapCase ==
  ASSUME Built, scenario = "S3"
  PROVE  ScenariosShow
<1>1. plan \in Plans("S3")
  BY ONLY Built, scenario = "S3", BuiltParts
<1>2. \E line \in Lines : \E amount \in Nat : GapStory(plan, line, amount)
  BY ONLY <1>1, StoriesTold
<1>3. PICK line \in Lines : \E amount \in Nat : GapStory(plan, line, amount)
  BY ONLY <1>2
<1>4. PICK amount \in Nat : GapStory(plan, line, amount)
  BY ONLY <1>3
<1>5. PICK k \in DOMAIN claims : \E row \in ValidatorRows : GapTables(k, row, line)
  BY ONLY <1>4, Built, line \in Lines, amount \in Nat,
     GapShown
<1>6. PICK row \in ValidatorRows : GapTables(k, row, line)
  BY ONLY <1>5
<1>7. Shows("change_in_loss_report_gap")
  BY ONLY <1>6, Built, GapTells
<1> QED
  BY ONLY <1>7, scenario = "S3" DEF ScenariosShow

\* S4 shows what it was planted for.
LEMMA ClusterCase ==
  ASSUME Built, scenario = "S4"
  PROVE  ScenariosShow
<1>1. plan \in Plans("S4")
  BY ONLY Built, scenario = "S4", BuiltParts
<1>2. \E line \in Lines : \E amount \in Nat : \E report \in Nat :
        ClusterStory(plan, line, amount, report)
  BY ONLY <1>1, StoriesTold
<1>3. PICK line \in Lines : \E amount \in Nat : \E report \in Nat :
        ClusterStory(plan, line, amount, report)
  BY ONLY <1>2
<1>4. PICK amount \in Nat : \E report \in Nat : ClusterStory(plan, line, amount, report)
  BY ONLY <1>3
<1>5. PICK report \in Nat : ClusterStory(plan, line, amount, report)
  BY ONLY <1>4
<1>6. PICK k \in DOMAIN claims : ClusterTold(k, line, amount, report)
  BY ONLY <1>5, Built, ClusterClaim
<1>7. PICK a \in ValidatorRows : \E b \in ValidatorRows : \E c \in ValidatorRows :
        \E d \in ValidatorRows : ClusterRows(a, b, c, d)
  BY ONLY <1>5, Built, ClusterShown
<1>8. PICK b \in ValidatorRows : \E c \in ValidatorRows :
        \E d \in ValidatorRows : ClusterRows(a, b, c, d)
  BY ONLY <1>7
<1>9. PICK c \in ValidatorRows : \E d \in ValidatorRows : ClusterRows(a, b, c, d)
  BY ONLY <1>8
<1>10. PICK d \in ValidatorRows : ClusterRows(a, b, c, d)
  BY ONLY <1>9
<1>11. /\ Shows("deductible_lowered_before_claim") /\ "rapid_change_cluster" \in Flags
       /\ \A j \in Story : Routed(j)
  BY ONLY <1>5, <1>6, <1>10, Built, amount \in Nat, ClusterTells
<1> QED
  BY ONLY <1>11, scenario = "S4" DEF ScenariosShow

\* S5 shows what it was planted for.
LEMMA SpineCase ==
  ASSUME Built, scenario = "S5"
  PROVE  ScenariosShow
<1>1. plan \in Plans("S5")
  BY ONLY Built, scenario = "S5", BuiltParts
<1>2. SpineStory(plan)
  BY ONLY <1>1, StoriesTold
<1>3. "vehicle_and_address_within_60d" \in Flags
  BY ONLY <1>2, Built, SpineTells
<1> QED
  BY ONLY <1>3, scenario = "S5" DEF ScenariosShow

\* C1 and C4 show nothing before their claim.
LEMMA UnprovokedCase ==
  ASSUME Built, scenario \in {"C1", "C4"}
  PROVE  ScenariosShow
<1>1. plan \in Plans(scenario)
  BY ONLY Built, BuiltParts
<1>2. \E claim : UnprovokedStory(scenario, plan, claim)
  BY ONLY <1>1, scenario \in {"C1", "C4"}, StoriesTold
<1>3. PICK claim : UnprovokedStory(scenario, plan, claim)
  BY ONLY <1>2
<1>4. PICK k \in DOMAIN claims : QuietTables(k, claim.loss, claim.report, claim.line)
  BY ONLY <1>3, Built, UnprovokedShown
<1>5. /\ CodesOn(k) \subseteq {"change_in_loss_report_gap"}
      /\ WindowDays(k) = QUESTION_WINDOWS[3]
  BY ONLY <1>4, Built, QuietTells
<1>6. DOMAIN claims = {k} /\ Story = {k}
  BY ONLY <1>4 DEF QuietTables, Told
<1> QED
  BY ONLY <1>5, <1>6, scenario \in {"C1", "C4"} DEF ScenariosShow

\* C2 has no claim for a match to name.
LEMMA UnclaimedCase ==
  ASSUME Built, scenario = "C2"
  PROVE  ScenariosShow
<1>1. plan \in Plans("C2")
  BY ONLY Built, scenario = "C2", BuiltParts
<1>2. UnclaimedStory(plan)
  BY ONLY <1>1, StoriesTold
<1>3. claims = <<>>
  BY ONLY <1>2, Built, NoClaims
<1>4. DOMAIN claims = {}
  BY <1>3
<1> QED
  BY ONLY <1>4, scenario = "C2" DEF ScenariosShow

\* C3 shows its move in the gap, and nothing before the claim.
LEMMA LateCase ==
  ASSUME Built, scenario = "C3"
  PROVE  ScenariosShow
<1>1. plan \in Plans("C3")
  BY ONLY Built, scenario = "C3", BuiltParts
<1>2. \E loss \in Nat : \E moved \in Nat : \E report \in Nat :
        \E amount \in Nat : LateStory(plan, loss, moved, report, amount)
  BY ONLY <1>1, StoriesTold
<1>3. PICK loss \in Nat : \E moved \in Nat : \E report \in Nat :
        \E amount \in Nat : LateStory(plan, loss, moved, report, amount)
  BY ONLY <1>2
<1>4. PICK moved \in Nat : \E report \in Nat :
        \E amount \in Nat : LateStory(plan, loss, moved, report, amount)
  BY ONLY <1>3
<1>5. PICK report \in Nat : \E amount \in Nat : LateStory(plan, loss, moved, report, amount)
  BY ONLY <1>4
<1>6. PICK amount \in Nat : LateStory(plan, loss, moved, report, amount)
  BY ONLY <1>5
<1>7. PICK k \in DOMAIN claims : \E row \in ValidatorRows :
        /\ QuietTables(k, loss, report, COMP)
        /\ row.category = "address" /\ loss < row.day /\ row.day <= report
  BY ONLY <1>6, Built, loss \in Nat, moved \in Nat,
     report \in Nat, amount \in Nat, LateShown
<1>8. PICK row \in ValidatorRows :
        /\ QuietTables(k, loss, report, COMP)
        /\ row.category = "address" /\ loss < row.day /\ row.day <= report
  BY ONLY <1>7
<1>9. Shows("change_in_loss_report_gap")
  BY ONLY <1>8, Built, LateTells
<1>10. CodesOn(k) \subseteq {"change_in_loss_report_gap"}
  BY ONLY <1>8, Built, QuietTells
<1>11. DOMAIN claims = {k}
  BY ONLY <1>8 DEF QuietTables
<1> QED
  BY ONLY <1>9, <1>10, <1>11, scenario = "C3" DEF ScenariosShow

\* C5 shows flags, and no evidence of a claim.
LEMMA IdleCase ==
  ASSUME Built, scenario = "C5"
  PROVE  ScenariosShow
<1>1. plan \in Plans("C5")
  BY ONLY Built, scenario = "C5", BuiltParts
<1>2. \E last \in Nat : IdleStory(plan, last)
  BY ONLY <1>1, StoriesTold
<1>3. PICK last \in Nat : IdleStory(plan, last)
  BY ONLY <1>2
<1>4. IdleShows
  BY ONLY <1>3, Built, last \in Nat, IdleTells
<1> QED
  BY ONLY <1>4, scenario = "C5" DEF ScenariosShow, IdleShows

\* The invariant gives every population what it shows.
LEMMA ShowsFollow ==
  ASSUME ScenarioInv
  PROVE  ScenariosShow
<1>1. CASE stage # "built"
  BY ONLY <1>1 DEF ScenariosShow
<1>2. CASE stage = "built"
  <2>1. Built
    BY ONLY <1>2, ScenarioInv DEF Built
  <2>2. scenario \in Scenario
    BY ONLY ScenarioInv DEF ScenarioInv, Begun
  <2>3. CASE scenario \in {"demo", "S1", "S6"}
    BY ONLY <2>1, <2>3, RaisedCase
  <2>4. CASE scenario = "S2"
    BY ONLY <2>1, <2>4, CutCase
  <2>5. CASE scenario = "S3"
    BY ONLY <2>1, <2>5, GapCase
  <2>6. CASE scenario = "S4"
    BY ONLY <2>1, <2>6, ClusterCase
  <2>7. CASE scenario = "S5"
    BY ONLY <2>1, <2>7, SpineCase
  <2>8. CASE scenario \in {"C1", "C4"}
    BY ONLY <2>1, <2>8, UnprovokedCase
  <2>9. CASE scenario = "C2"
    BY ONLY <2>1, <2>9, UnclaimedCase
  <2>10. CASE scenario = "C3"
    BY ONLY <2>1, <2>10, LateCase
  <2>11. CASE scenario = "C5"
    BY ONLY <2>1, <2>11, IdleCase
  <2> QED
    BY ONLY <2>2, <2>3, <2>4, <2>5, <2>6, <2>7, <2>8, <2>9, <2>10, <2>11 DEF Scenario
<1> QED
  BY ONLY <1>1, <1>2

\* The scenarios tell in the gold tables and the controls do not
\* (build_policy_pattern_match, routing.py, questions.py): for any windows that
\* hold the days of the stories and no day beyond what build.py keeps clear.
THEOREM ScenariosAlwaysShow == ScenarioSpec => []ScenariosShow
<1>1. ScenarioInv => ScenariosShow
  BY ShowsFollow
<1> QED
  BY <1>1, ScenarioHolds, PTL

\* A planted policy is a policy: all that holds of any history the generator may
\* draw holds of the histories it plants, too (build.py, _plant_scenarios).
THEOREM ScenariosAreHistories ==
  ScenarioSpec => [](/\ ChangesRoundTrip /\ GapsAgree /\ VersionsInForce /\ TimelineTells
                     /\ ValidatorAgrees /\ EvidenceAgrees /\ SnapshotsAgree
                     /\ PatternsMeanWhatTheySay /\ PipelinePasses)
<1>1. ScenarioInv => (/\ ChangesRoundTrip /\ GapsAgree /\ VersionsInForce /\ TimelineTells
                      /\ ValidatorAgrees /\ EvidenceAgrees /\ SnapshotsAgree
                      /\ PatternsMeanWhatTheySay /\ PipelinePasses)
  <2>1. ASSUME ScenarioInv PROVE GoldInv
    BY ONLY <2>1 DEF ScenarioInv
  <2> QED
    BY <2>1, GoldTells, HistoryAssumption, WindowsAssumption, ExpectationsAssumption,
       QuestionsAssumption
<1> QED
  BY <1>1, ScenarioHolds, PTL
=============================================================================
