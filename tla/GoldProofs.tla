----------------------------- MODULE GoldProofs -----------------------------
(***************************************************************************)
(* The gold tables of a policy, for any anchor, ladders, lines and windows *)
(* within the named assumptions, and for any number of changes and claims. *)
(*                                                                         *)
(* The tables choose: the version in force, the first claim reported, the  *)
(* latest change, the nearest one.  That there is one to choose is a least *)
(* element of a set of naturals, and the induction over a table that a     *)
(* proof needs is the least row that breaks what is to be shown.           *)
(***************************************************************************)
EXTENDS DatasetProofs, FiniteSetTheorems, WellFoundedInduction

(* Least and greatest elements. *)

LEMMA LeastNumber ==
  ASSUME NEW T \in SUBSET Nat, T # {}
  PROVE  \E n \in T : \A m \in T : n <= m
<1> DEFINE below == {0..(n - 1) : n \in T}
<1>1. below \subseteq FiniteSubsetsOf(Nat)
  <2>1. ASSUME NEW n \in T PROVE IsFiniteSet(0..(n - 1)) /\ 0..(n - 1) \in SUBSET Nat
    BY FS_Interval
  <2> QED
    BY <2>1 DEF FiniteSubsetsOf
<1>2. below # {}
  OBVIOUS
<1> HIDE DEF below
<1>3. PICK s \in below : \A t \in below : <<t, s>> \notin StrictSubsetOrdering(Nat)
  BY <1>1, <1>2, WFMin, FS_StrictSubsetOrderingWellFounded
<1>4. PICK n \in T : s = 0..(n - 1)
  BY DEF below
<1>5. ASSUME NEW m \in T, m < n PROVE FALSE
  <2>1. 0..(m - 1) \in below
    BY DEF below
  <2>2. /\ 0..(m - 1) \subseteq s /\ m \in s /\ m \notin 0..(m - 1)
        /\ s \in SUBSET Nat /\ 0..(m - 1) \in SUBSET Nat
    BY <1>4, <1>5
  <2>3. <<0..(m - 1), s>> \in StrictSubsetOrdering(Nat)
    BY <2>2 DEF StrictSubsetOrdering
  <2> QED
    BY <1>3, <2>1, <2>3
<1>6. \A m \in T : n <= m
  BY <1>5
<1> QED
  BY <1>6

LEMMA GreatestNumber ==
  ASSUME NEW b \in Nat, NEW T \in SUBSET (0..b), T # {}
  PROVE  \E n \in T : \A m \in T : m <= n
<1> DEFINE U == {u \in Nat : \A m \in T : m <= u}
<1>1. b \in U
  OBVIOUS
<1>2. PICK u \in U : \A v \in U : u <= v
  <2> HIDE DEF U
  <2> QED
    BY <1>1, LeastNumber DEF U
<1>3. u \in T
  <2>1. SUFFICES ASSUME u \notin T PROVE FALSE
    OBVIOUS
  <2>2. ASSUME NEW m \in T PROVE m <= u - 1 /\ u # 0
    <3>1. m \in Nat /\ m <= u /\ m # u /\ u \in Nat
      BY <2>1
    <3> QED
      BY <3>1
  <2>3. u \in Nat /\ u # 0 /\ u - 1 \in Nat
    <3>1. PICK m \in T : TRUE
      OBVIOUS
    <3>2. u # 0 /\ u \in Nat
      BY <2>2, <3>1
    <3> QED
      BY <3>2
  <2>4. u - 1 \in U
    BY <2>2, <2>3
  <2> HIDE DEF U
  <2>5. u <= u - 1
    BY <1>2, <2>4
  <2> QED
    BY <2>3, <2>5
<1> QED
  BY <1>3

\* A rank, and a second one among equals, has a least element.
LEMMA LeastBy ==
  ASSUME NEW T, T # {}, NEW f \in [T -> Nat]
  PROVE  \E x \in T : \A y \in T : f[x] <= f[y]
<1> DEFINE R == {f[x] : x \in T}
<1>1. R \in SUBSET Nat /\ R # {}
  OBVIOUS
<1>2. PICK n \in R : \A m \in R : n <= m
  <2> HIDE DEF R
  <2> QED
    BY <1>1, LeastNumber
<1> QED
  BY <1>2

LEMMA LeastByTwo ==
  ASSUME NEW T, T # {}, NEW f \in [T -> Nat], NEW g \in [T -> Nat]
  PROVE  \E x \in T : \A y \in T : f[x] < f[y] \/ (f[x] = f[y] /\ g[x] <= g[y])
<1>1. PICK a \in T : \A y \in T : f[a] <= f[y]
  BY LeastBy
<1> DEFINE U == {y \in T : f[y] = f[a]}
           h == [y \in U |-> g[y]]
<1>2. U # {} /\ h \in [U -> Nat]
  OBVIOUS
<1>3. PICK x \in U : \A y \in U : h[x] <= h[y]
  <2> HIDE DEF U, h
  <2> QED
    BY <1>2, LeastBy
<1>4. ASSUME NEW y \in T PROVE f[x] < f[y] \/ (f[x] = f[y] /\ g[x] <= g[y])
  <2>1. f[x] = f[a] /\ f[a] <= f[y] /\ f[a] \in Nat /\ f[y] \in Nat
    BY <1>1
  <2>2. f[y] = f[a] => g[x] <= g[y]
    BY <1>3
  <2> QED
    BY <2>1, <2>2
<1> QED
  BY <1>4

-----------------------------------------------------------------------------
(* Versions in force. *)

Ascends(rows) ==
  /\ rows # <<>> /\ rows[1].from = 0
  /\ \A i, j \in DOMAIN rows : i < j => rows[i].from < rows[j].from

\* The versions of a policy and of its lines start with it and follow each
\* other, none before the latest boundary day.
DatesInv ==
  /\ Ascends(history) /\ Current.from <= end_day
  /\ \A l \in Lines : Ascends(coverage[l]) /\ Latest(coverage[l]).from <= Current.from

LEMMA AppendAscends ==
  ASSUME NEW S, \A r \in S : r.from \in Nat, NEW rows \in Seq(S), NEW row \in S,
         Ascends(rows), Latest(rows).from < row.from
  PROVE  Ascends(Append(rows, row))
<1> DEFINE n == Len(rows)
           more == Append(rows, row)
<1>1. /\ n \in Nat \ {0} /\ Len(more) = n + 1 /\ more[n + 1] = row /\ DOMAIN more = 1..(n + 1)
      /\ \A i \in 1..n : more[i] = rows[i] /\ rows[i] \in S
      /\ DOMAIN rows = 1..n
  BY DEF Ascends
<1>2. more # <<>>
  BY <1>1
<1>3. Latest(rows) = rows[n]
  BY DEF Latest
<1> HIDE DEF n, more
<1>4. ASSUME NEW i \in 1..n PROVE rows[i].from < row.from /\ rows[i].from \in Nat
  <2>1. rows[i].from \in Nat /\ rows[n].from \in Nat /\ row.from \in Nat
    BY <1>1
  <2>2. i = n \/ (i < n /\ n \in 1..n)
    BY <1>1
  <2>3. i < n => rows[i].from < rows[n].from
    BY <1>1, <2>2 DEF Ascends
  <2> QED
    BY <1>3, <2>1, <2>2, <2>3
<1>5. ASSUME NEW i \in 1..(n + 1), NEW j \in 1..(n + 1), i < j PROVE more[i].from < more[j].from
  <2>1. i \in 1..n /\ (j \in 1..n \/ j = n + 1)
    BY <1>1, <1>5
  <2> QED
    BY <1>1, <1>4, <1>5, <2>1 DEF Ascends
<1>6. more[1].from = 0
  BY <1>1 DEF Ascends
<1> QED
  BY <1>1, <1>2, <1>5, <1>6 DEF Ascends, more

Covering(rows, day) ==
  {i \in DOMAIN rows : rows[i].from <= day /\ day < EffectiveTo(rows, i)}

\* On each day one version covers, the last one that started by then.
LEMMA OneCovers ==
  ASSUME NEW S, \A r \in S : r.from \in Nat, NEW rows \in Seq(S), Ascends(rows),
         HistoryAssumption, NEW day \in Days
  PROVE  \E i \in DOMAIN rows :
           /\ Covering(rows, day) = {i}
           /\ \A j \in DOMAIN rows : rows[j].from <= day <=> j <= i
<1> DEFINE n == Len(rows)
           started == {i \in DOMAIN rows : rows[i].from <= day}
<1>1. /\ n \in Nat \ {0} /\ DOMAIN rows = 1..n
      /\ \A i \in 1..n : rows[i].from \in Nat
      /\ rows[1].from = 0
      /\ \A i, j \in 1..n : i < j => rows[i].from < rows[j].from
  BY DEF Ascends
<1>2. day \in Nat /\ day < FAR_FUTURE
  BY DEF Days, FAR_FUTURE, HistoryAssumption
<1>3. \A i : EffectiveTo(rows, i) = IF i < n THEN rows[i + 1].from ELSE FAR_FUTURE
  BY DEF EffectiveTo
<1>4. started \in SUBSET (0..n) /\ 1 \in started
  BY <1>1, <1>2
<1> HIDE DEF n
<1>5. PICK i \in started : \A j \in started : j <= i
  <2> HIDE DEF started
  <2>1. n \in Nat /\ started # {}
    BY <1>1, <1>4
  <2> QED
    BY <1>4, <2>1, GreatestNumber
<1>6. i \in 1..n /\ rows[i].from <= day
  BY <1>1, <1>5
<1>7. ASSUME NEW j \in 1..n PROVE rows[j].from <= day <=> j <= i
  <2>1. rows[j].from <= day => j <= i
    BY <1>1, <1>5
  <2>2. j < i => rows[j].from < rows[i].from
    BY <1>1, <1>6
  <2>3. rows[i].from \in Nat /\ rows[j].from \in Nat
    BY <1>1, <1>6
  <2> QED
    BY <1>2, <1>6, <2>1, <2>2, <2>3
<1>8. ASSUME NEW j \in 1..n
      PROVE  (rows[j].from <= day /\ day < EffectiveTo(rows, j)) <=> j = i
  <2>1. CASE j < n
    <3>1. j + 1 \in 1..n /\ rows[j + 1].from \in Nat
      BY <1>1, <2>1
    <3>2. rows[j + 1].from <= day <=> j + 1 <= i
      BY <1>7, <3>1
    <3>3. EffectiveTo(rows, j) = rows[j + 1].from
      BY <1>3, <2>1
    <3>4. day < EffectiveTo(rows, j) <=> ~(j + 1 <= i)
      BY <1>2, <3>1, <3>2, <3>3
    <3> QED
      BY <1>6, <1>7, <3>4
  <2>2. CASE j = n
    BY <1>2, <1>3, <1>6, <1>7, <2>2
  <2> QED
    BY <1>1, <2>1, <2>2
<1>9. Covering(rows, day) = {i}
  BY <1>1, <1>6, <1>8 DEF Covering
<1> QED
  BY <1>1, <1>6, <1>7, <1>9

LEMMA AscendingTiles ==
  ASSUME NEW S, \A r \in S : r.from \in Nat, NEW rows \in Seq(S), Ascends(rows),
         HistoryAssumption
  PROVE  Tiles(rows)
<1>1. ASSUME NEW day \in Days PROVE Cardinality(Covering(rows, day)) = 1
  <2>1. PICK i : Covering(rows, day) = {i}
    BY OneCovers
  <2> QED
    BY <2>1, FS_Singleton
<1>2. ASSUME NEW i \in 1..(Len(rows) - 1) PROVE rows[i].from < rows[i + 1].from
  <2>1. i \in DOMAIN rows /\ i + 1 \in DOMAIN rows /\ i < i + 1
    OBVIOUS
  <2> QED
    BY <2>1 DEF Ascends
<1> QED
  BY <1>1, <1>2 DEF Tiles, Covering

\* What a boundary day writes, with the plan it realises.
Writes(day, today, location, agent, limit, deductible) ==
  /\ location # Current.location <=> Key("address", NoLine) \in today
  /\ agent # Current.agent <=> Key("agent", NoLine) \in today
  /\ \A l \in Lines : limit[l] # LimitOf(l) <=> Key("coverage", l) \in today
  /\ \A l \in DeductibleLines :
       deductible[l] # DeductibleOf(l) <=> Key("deductible", l) \in today
  /\ history' = Append(history, NewVersion(day, today, location, agent))
  /\ coverage' = [l \in Lines |->
       RecordCoverage(coverage[l], day, today, l, limit[l],
                      IF l \in DeductibleLines THEN deductible[l] ELSE NoDeductible)]
  /\ changes' = changes \cup Applied(day, today, limit, deductible)

LEMMA BoundaryWrites ==
  ASSUME NEW day, NEW today, Boundary(day, today)
  PROVE  \E location \in Locations, agent \in Agents,
            limit \in [Lines -> Limits], deductible \in [DeductibleLines -> Deductibles] :
           Writes(day, today, location, agent, limit, deductible)
  BY BoundaryPlan DEF Writes

\* The version a boundary day adds is the current one from then on.
LEMMA VersionAdded ==
  ASSUME DatasetTypeOK, HistoryAssumption, NEW day \in Days,
         NEW today \in SUBSET (PolicyKeys \cup LineKeys), Boundary(day, today),
         NEW location \in Locations, NEW agent \in Agents,
         history' = Append(history, NewVersion(day, today, location, agent))
  PROVE  /\ Current' = NewVersion(day, today, location, agent)
         /\ \E n \in Nat : /\ history \in Seq(Versions(n))
                           /\ NewVersion(day, today, location, agent) \in Versions(n)
<1> DEFINE v == NewVersion(day, today, location, agent)
           n == Len(vehicles) + 1
<1>1. n \in Nat /\ n >= Len(vehicles) /\ n >= Len(vehicles) + 1 /\ Len(vehicles) \in Nat
  BY TablesTyped
<1> HIDE DEF n
<1>2. v \in Versions(n)
  BY <1>1, NewVersionTyped
<1>3. history \in Seq(Versions(n))
  BY <1>1, TablesTyped, VersionsGrow
<1> HIDE DEF v
<1>4. Current' = v
  BY <1>2, <1>3, AppendLatest DEF Current, v
<1> QED
  BY <1>1, <1>2, <1>3, <1>4 DEF v

\* What a line's table gets: nothing, or one version of the day.
LineWrites(l, day, limit, deductible) ==
  \/ coverage'[l] = coverage[l]
  \/ \E row \in CoverageVersions :
       /\ row.from = day /\ row.limit = limit[l]
       /\ row.deductible = IF l \in DeductibleLines THEN deductible[l] ELSE NoDeductible
       /\ coverage'[l] = Append(coverage[l], row)

LEMMA LineAdded ==
  ASSUME DatasetTypeOK, HistoryAssumption, NEW day \in Days, NEW today,
         NEW location, NEW agent,
         NEW limit \in [Lines -> Limits], NEW deductible \in [DeductibleLines -> Deductibles],
         Writes(day, today, location, agent, limit, deductible), NEW l \in Lines
  PROVE  LineWrites(l, day, limit, deductible)
<1> DEFINE d == IF l \in DeductibleLines THEN deductible[l] ELSE NoDeductible
           row == [from |-> day, limit |-> limit[l], deductible |-> d]
<1>1. coverage'[l] = RecordCoverage(coverage[l], day, today, l, limit[l], d)
  BY DEF Writes
<1>2. d \in Deductibles \cup {NoDeductible}
  OBVIOUS
<1> HIDE DEF d
<1>3. row \in CoverageVersions /\ row.from = day /\ row.limit = limit[l] /\ row.deductible = d
  BY <1>2 DEF CoverageVersions
<1>4. coverage'[l] = coverage[l] \/ coverage'[l] = Append(coverage[l], row)
  BY <1>1 DEF RecordCoverage
<1> QED
  BY <1>3, <1>4 DEF d, LineWrites

LEMMA RowsDated ==
  ASSUME HistoryAssumption
  PROVE  /\ \A n : \A r \in Versions(n) : r.from \in Nat
         /\ \A r \in CoverageVersions : r.from \in Nat
  BY DEF Versions, CoverageVersions, Days

LEMMA DatesInit == ASSUME Inception(Limits, Deductibles), HistoryAssumption PROVE DatesInv
<1>1. Len(history) = 1 /\ history[1].from = 0 /\ history # <<>>
  BY DEF Inception
<1>2. \A l \in Lines : Len(coverage[l]) = 1 /\ coverage[l][1].from = 0 /\ coverage[l] # <<>>
  BY DEF Inception
<1>3. end_day \in Nat
  BY DEF Inception, HistoryAssumption
<1>4. Ascends(history) /\ Current.from = 0
  BY <1>1 DEF Inception, Ascends, Current, Latest
<1>5. \A l \in Lines : Ascends(coverage[l]) /\ Latest(coverage[l]).from = 0
  BY <1>2 DEF Inception, Ascends, Latest
<1> QED
  BY <1>3, <1>4, <1>5 DEF DatesInv

LEMMA DatesKept ==
  ASSUME DatasetTypeOK, HistoryAssumption, DatesInv, NEW day \in Days,
         NEW today \in SUBSET (PolicyKeys \cup LineKeys), Boundary(day, today)
  PROVE  DatesInv'
<1>1. PICK location \in Locations, agent \in Agents,
           limit \in [Lines -> Limits], deductible \in [DeductibleLines -> Deductibles] :
        Writes(day, today, location, agent, limit, deductible)
  BY BoundaryWrites
<1> DEFINE v == NewVersion(day, today, location, agent)
<1>2. history' = Append(history, v) /\ v.from = day
  BY <1>1 DEF Writes, NewVersion
<1> HIDE DEF v
<1>3. PICK n \in Nat : Current' = v /\ history \in Seq(Versions(n)) /\ v \in Versions(n)
  BY <1>2, VersionAdded DEF v
<1>4. Current.from < day /\ day <= end_day /\ end_day' = end_day /\ day \in Nat
      /\ Current.from \in Nat
  <2>1. Current.from \in Days
    BY CurrentTyped DEF Versions
  <2> QED
    BY <2>1 DEF Boundary, planVars, Days
<1>5. Ascends(history')
  BY <1>2, <1>3, <1>4, RowsDated, AppendAscends DEF DatesInv, Current
<1>6. ASSUME NEW l \in Lines
      PROVE  Ascends(coverage'[l]) /\ Latest(coverage'[l]).from <= day
  <2>1. /\ Ascends(coverage[l]) /\ Latest(coverage[l]).from <= Current.from
        /\ coverage[l] \in Seq(CoverageVersions)
    BY TablesTyped DEF DatesInv
  <2>2. Latest(coverage[l]).from \in Nat
    BY <2>1, LatestTyped, RowsDated DEF Ascends
  <2>3. CASE coverage'[l] = coverage[l]
    BY <1>4, <2>1, <2>2, <2>3 DEF Latest
  <2>4. ASSUME NEW row \in CoverageVersions, row.from = day,
               coverage'[l] = Append(coverage[l], row)
        PROVE  Ascends(coverage'[l]) /\ Latest(coverage'[l]).from <= day
    <3>1. Latest(coverage[l]).from < row.from
      BY <1>4, <2>1, <2>2, <2>4
    <3>2. Latest(Append(coverage[l], row)) = row
      BY <2>1, AppendLatest
    <3>3. Ascends(Append(coverage[l], row))
      BY <2>1, <3>1, RowsDated, AppendAscends
    <3> QED
      BY <1>4, <2>4, <3>2, <3>3
  <2>5. LineWrites(l, day, limit, deductible)
    BY <1>1, LineAdded
  <2> QED
    BY <2>3, <2>4, <2>5 DEF LineWrites
<1> QED
  BY <1>2, <1>3, <1>4, <1>5, <1>6 DEF DatesInv

\* The limit that is in force, by the generator's lookup and by the pipeline's.
LEMMA LimitInForce ==
  ASSUME DatasetTypeOK, HistoryAssumption, DatesInv, NEW l \in Lines, NEW day \in Days
  PROVE  \E i \in DOMAIN coverage[l] :
           /\ Covering(coverage[l], day) = {i}
           /\ \A j \in DOMAIN coverage[l] : coverage[l][j].from <= day <=> j <= i
           /\ LimitAt(l, day) = coverage[l][i].limit
<1>1. coverage[l] \in Seq(CoverageVersions) /\ Ascends(coverage[l])
  BY TablesTyped DEF DatesInv
<1>2. PICK i \in DOMAIN coverage[l] :
        /\ Covering(coverage[l], day) = {i}
        /\ \A j \in DOMAIN coverage[l] : coverage[l][j].from <= day <=> j <= i
  BY <1>1, RowsDated, OneCovers
<1> DEFINE upTo == {j \in DOMAIN coverage[l] : coverage[l][j].from <= day}
           Last(j) == \A k \in upTo : k <= j
<1>3. \A j \in DOMAIN coverage[l] : j \in Nat
  BY <1>1
<1>4. i \in upTo /\ Last(i) /\ \A j \in upTo : Last(j) => j = i
  BY <1>2, <1>3
<1>5. (CHOOSE j \in upTo : Last(j)) = i
  <2> HIDE DEF upTo, Last
  <2> QED
    BY <1>4
<1>6. LimitAt(l, day) = coverage[l][IF upTo = {} THEN 1 ELSE CHOOSE j \in upTo : Last(j)].limit
  BY DEF LimitAt
<1>7. upTo # {}
  BY <1>4
<1> HIDE DEF upTo, Last
<1>8. LimitAt(l, day) = coverage[l][i].limit
  BY <1>5, <1>6, <1>7
<1> QED
  BY <1>2, <1>8

LEMMA LimitsApply ==
  ASSUME DatasetTypeOK, HistoryAssumption, DatesInv, NEW k \in DOMAIN claims
  PROVE  ApplicableLimits(k) = {LimitAt(claims[k].line, claims[k].loss)}
<1> DEFINE l == claims[k].line
           rows == coverage[l]
<1>1. claims[k].line \in Lines /\ claims[k].loss \in Days
  <2>1. claims[k] \in ClaimSet
    BY TablesTyped
  <2> QED
    BY <2>1 DEF ClaimSet
<1>2. PICK i \in DOMAIN rows : /\ Covering(rows, claims[k].loss) = {i}
                               /\ LimitAt(l, claims[k].loss) = rows[i].limit
  BY <1>1, LimitInForce
<1>3. rows \in Seq(CoverageVersions)
  BY <1>1, TablesTyped
<1> HIDE DEF l
<1>4. ScdLookup(rows, claims[k].loss)
        = {j \in Covering(rows, claims[k].loss) :
             \A h \in Covering(rows, claims[k].loss) : j <= h}
  BY DEF ScdLookup, Covering
<1>5. i \in Int
  BY <1>3
<1>6. ScdLookup(rows, claims[k].loss) = {i}
  BY <1>2, <1>4, <1>5
<1>7. ApplicableLimits(k) = {rows[j].limit : j \in ScdLookup(rows, claims[k].loss)}
  BY DEF ApplicableLimits, l
<1> QED
  BY <1>2, <1>6, <1>7 DEF l

LEMMA VersionsCover ==
  ASSUME DatasetTypeOK, HistoryAssumption, DatesInv
  PROVE  VersionsInForce
<1>1. Tiles(history)
  <2>1. PICK n : history \in Seq(Versions(n))
    BY TablesTyped
  <2> QED
    BY <2>1, RowsDated, AscendingTiles DEF DatesInv
<1>2. \A l \in Lines : Tiles(coverage[l])
  BY TablesTyped, RowsDated, AscendingTiles DEF DatesInv
<1> QED
  BY <1>1, <1>2, LimitsApply DEF VersionsInForce

-----------------------------------------------------------------------------
(* Renewals. *)

LEMMA Multiples ==
  ASSUME NEW T \in Nat \ {0}, NEW a \in Nat, a % T = 0
  PROVE  \E q \in Nat : a = T * q
  OBVIOUS

LEMMA NextMultiple ==
  ASSUME NEW T \in Nat \ {0}, NEW a \in Nat, a % T = 0
  PROVE  /\ (a + T) % T = 0
         /\ \A d \in Nat : a < d /\ d < a + T => d % T # 0
<1>1. PICK q \in Nat : a = T * q
  BY Multiples
<1>2. (a + T) % T = 0
  <2>1. (T * q + T) % T = 0
    OBVIOUS
  <2> QED
    BY <1>1, <2>1
<1>3. ASSUME NEW d \in Nat, a < d, d < a + T, d % T = 0 PROVE FALSE
  <2>1. PICK p \in Nat : d = T * p
    BY <1>3, Multiples
  <2>2. T * q < T * p /\ T * p < T * q + T
    BY <1>1, <1>3, <2>1
  <2>3. q + 1 <= p
    BY <2>2
  <2>4. T * (q + 1) <= T * p
    BY <2>3
  <2>5. T * (q + 1) = T * q + T /\ T * q \in Nat /\ T * p \in Nat
    OBVIOUS
  <2> QED
    BY <2>2, <2>4, <2>5
<1> QED
  BY <1>2, <1>3

\* The current term started on the last renewal day, and the renewals shown are
\* the renewal days up to the latest version.
TermInv ==
  /\ Current.term_start % TERM_LENGTH_DAYS = 0
  /\ Current.term_start <= Current.from /\ Current.from < NextRenewal
  /\ Renewals = {day \in 1..Current.from : day % TERM_LENGTH_DAYS = 0}
  /\ phase = "built" => end_day < NextRenewal

LEMMA RenewalsGrow ==
  ASSUME NEW S, \A r \in S : r.term_start \in Nat, history \in Seq(S), history # <<>>,
         NEW v \in S, history' = Append(history, v), Current.term_start <= v.term_start
  PROVE  Renewals' = IF Current.term_start < v.term_start THEN Renewals \cup {v.term_start}
                     ELSE Renewals
<1> DEFINE n == Len(history)
           Starts(h, j) == j > 1 /\ h[j].term_start > h[j - 1].term_start
<1>1. /\ n \in Nat \ {0} /\ Len(history') = n + 1 /\ history'[n + 1] = v
      /\ DOMAIN history = 1..n /\ DOMAIN history' = 1..(n + 1)
      /\ \A i \in 1..n : history'[i] = history[i]
      /\ Current = history[n] /\ Current.term_start \in Nat /\ v.term_start \in Nat
  BY DEF Current, Latest
<1> HIDE DEF n
<1>2. \A j \in 1..n : Starts(history', j) <=> Starts(history, j)
  <2>1. \A j \in 1..n : j > 1 => j - 1 \in 1..n
    BY <1>1
  <2> QED
    BY <1>1, <2>1
<1>3. Starts(history', n + 1) <=> Current.term_start < v.term_start
  <2>1. n + 1 > 1 /\ (n + 1) - 1 = n /\ n \in 1..n
    BY <1>1
  <2> QED
    BY <1>1, <2>1
<1>4. \A d : d \in Renewals <=> \E j \in 1..n : Starts(history, j) /\ d = history[j].term_start
  BY <1>1 DEF Renewals
<1>5. \A d : d \in Renewals' <=>
               \E j \in 1..(n + 1) : Starts(history', j) /\ d = history'[j].term_start
  BY <1>1 DEF Renewals
<1>6. \A j : j \in 1..(n + 1) <=> j \in 1..n \/ j = n + 1
  BY <1>1
<1> HIDE DEF Starts
<1>7. \A d : d \in Renewals' <=>
               d \in Renewals \/ (Current.term_start < v.term_start /\ d = v.term_start)
  BY <1>1, <1>2, <1>3, <1>4, <1>5, <1>6
<1> QED
  BY <1>7

LEMMA TermInit == ASSUME Inception(Limits, Deductibles), HistoryAssumption PROVE TermInv
<1>1. Len(history) = 1 /\ Current.from = 0 /\ Current.term_start = 0
  BY DEF Inception, Current, Latest
<1>2. TERM_LENGTH_DAYS \in Nat \ {0}
  BY DEF HistoryAssumption
<1>3. 0 % TERM_LENGTH_DAYS = 0
  <2>1. (TERM_LENGTH_DAYS * 0) % TERM_LENGTH_DAYS = 0
    BY <1>2
  <2> QED
    BY <1>2, <2>1
<1>4. Renewals = {}
  BY <1>1 DEF Renewals
<1>5. phase = "evolving"
  BY DEF Inception
<1>6. {day \in 1..0 : day % TERM_LENGTH_DAYS = 0} = {}
  OBVIOUS
<1> QED
  BY <1>1, <1>2, <1>3, <1>4, <1>5, <1>6 DEF TermInv, NextRenewal

LEMMA TermKept ==
  ASSUME DatasetTypeOK, HistoryAssumption, TermInv, NEW day \in Days,
         NEW today \in SUBSET (PolicyKeys \cup LineKeys), Boundary(day, today)
  PROVE  TermInv'
<1>1. PICK location \in Locations, agent \in Agents,
           limit \in [Lines -> Limits], deductible \in [DeductibleLines -> Deductibles] :
        Writes(day, today, location, agent, limit, deductible)
  BY BoundaryWrites
<1> DEFINE v == NewVersion(day, today, location, agent)
           T == TERM_LENGTH_DAYS
           start == Current.term_start
<1>2. /\ history' = Append(history, v) /\ v.from = day
      /\ v.term_start = IF day = NextRenewal THEN day ELSE start
  BY <1>1 DEF Writes, NewVersion
<1> HIDE DEF v
<1>3. PICK n \in Nat : Current' = v /\ history \in Seq(Versions(n)) /\ v \in Versions(n)
  BY <1>2, VersionAdded DEF v
<1>4. /\ Current.from < day /\ day <= NextRenewal /\ NextRenewal = start + T
      /\ phase' = "evolving"
  BY DEF Boundary, NextRenewal
<1>5. Current.from \in Nat /\ start \in Nat /\ day \in Nat /\ T \in Nat \ {0}
  BY CurrentTyped DEF Versions, Days, HistoryAssumption
<1>6. start % T = 0 /\ start <= Current.from /\ Current.from < start + T
  BY <1>4 DEF TermInv
<1>7. (start + T) % T = 0 /\ \A d \in Nat : start < d /\ d < start + T => d % T # 0
  BY <1>5, <1>6, NextMultiple
<1>8. \A r \in Versions(n) : r.term_start \in Nat
  BY DEF Versions, Days
<1>9. start <= v.term_start
  BY <1>2, <1>4, <1>5, <1>6
<1>10. Renewals' = IF start < v.term_start THEN Renewals \cup {v.term_start} ELSE Renewals
  BY <1>2, <1>3, <1>8, <1>9, RenewalsGrow, CurrentTyped, TablesTyped
<1> HIDE DEF start, T
<1>11. Renewals = {d \in 1..Current.from : d % T = 0}
  BY DEF TermInv, T
<1>12. Renewals' = {d \in 1..day : d % T = 0}
  <2>1. CASE day = start + T
    <3>1. Renewals' = Renewals \cup {day}
      BY <1>2, <1>4, <1>5, <1>10, <2>1
    <3>2. ASSUME NEW d \in 1..day, d % T = 0 PROVE d \in 1..Current.from \/ d = day
      BY <1>5, <1>6, <1>7, <2>1, <3>2
    <3>3. ASSUME NEW d \in 1..Current.from PROVE d \in 1..day
      BY <1>4, <1>5, <3>3
    <3>4. day \in 1..day /\ day % T = 0
      BY <1>5, <1>7, <2>1
    <3> QED
      BY <1>11, <3>1, <3>2, <3>3, <3>4
  <2>2. CASE day < start + T
    <3>1. Renewals' = Renewals
      BY <1>2, <1>4, <1>5, <1>10, <2>2
    <3>2. ASSUME NEW d \in 1..day, d % T = 0 PROVE d \in 1..Current.from
      BY <1>5, <1>6, <1>7, <2>2, <3>2
    <3>3. ASSUME NEW d \in 1..Current.from PROVE d \in 1..day
      BY <1>4, <1>5, <3>3
    <3> QED
      BY <1>11, <3>1, <3>2, <3>3
  <2> QED
    BY <1>4, <1>5, <2>1, <2>2
<1>13. v.term_start % T = 0 /\ v.term_start <= day /\ day < v.term_start + T
  <2>1. CASE day = start + T
    <3>1. v.term_start = day /\ day < day + T
      BY <1>2, <1>4, <1>5, <2>1
    <3> QED
      BY <1>5, <1>7, <2>1, <3>1
  <2>2. CASE day < start + T
    <3>1. v.term_start = start
      BY <1>2, <1>4, <1>5, <2>2
    <3> QED
      BY <1>4, <1>5, <1>6, <2>2, <3>1
  <2> QED
    BY <1>4, <1>5, <2>1, <2>2
<1>14. Current'.from = day /\ Current'.term_start = v.term_start
  BY <1>2, <1>3
<1>15. NextRenewal' = v.term_start + T
  BY <1>14 DEF NextRenewal, T
<1>16. Renewals' = {d \in 1..Current'.from : d % TERM_LENGTH_DAYS = 0}
  BY <1>12, <1>14 DEF T
<1> QED
  BY <1>4, <1>13, <1>14, <1>15, <1>16 DEF TermInv, T

\* Claims are drawn last and change none of the versions.
LEMMA ClaimsLeaveVersions ==
  ASSUME DatesInv, TermInv,
         BuildClaims \/ UNCHANGED vars
  PROVE  DatesInv' /\ TermInv'
<1>1. UNCHANGED <<end_day, history, coverage>>
  BY DEF BuildClaims, vars, planVars
<1>2. phase' = "built" => end_day < NextRenewal
  <2>1. CASE BuildClaims
    <3>1. NextRenewal > end_day
      BY <2>1 DEF BuildClaims
    <3> QED
      BY <3>1
  <2>2. CASE UNCHANGED vars
    BY <2>2 DEF vars, TermInv
  <2> QED
    BY <2>1, <2>2
<1>3. Current' = Current /\ NextRenewal' = NextRenewal /\ Renewals' = Renewals
  BY <1>1 DEF Current, Latest, NextRenewal, Renewals
<1>4. DatesInv'
  BY <1>1, <1>3 DEF DatesInv, Ascends, Latest
<1>5. TermInv'
  BY <1>1, <1>2, <1>3 DEF TermInv
<1> QED
  BY <1>4, <1>5

LEMMA TimelineFollows ==
  ASSUME DatasetTypeOK, HistoryAssumption, DatesInv, TermInv
  PROVE  TimelineTells
<1>1. ASSUME NEW c \in Material(ChangeRows), NEW k \in LinkedClaim(c),
             ~(c.category = "status" /\ c.day = claims[k].report)
      PROVE  ShownBefore(ChangeEvent(c), ClaimEvent(k))
  <2>1. c \in ChangeRows /\ k \in DOMAIN claims /\ claims[k].report >= c.day
    BY DEF Material, LinkedClaim, ReportedFrom
  <2>2. c.day \in Int /\ claims[k].report \in Int
    BY <2>1, RowsAreDated, ClaimsAreDated
  <2>3. c.day < claims[k].report \/ (c.day = claims[k].report /\ c.category # "status")
    BY <1>1, <2>1, <2>2
  <2> QED
    BY <2>3 DEF ShownBefore, ChangeEvent, ClaimEvent, TypeRank
<1>2. ASSUME phase = "built"
      PROVE  Renewals = {day \in 1..end_day : day % TERM_LENGTH_DAYS = 0}
  <2> DEFINE T == TERM_LENGTH_DAYS
             start == Current.term_start
             now == Current.from
  <2>1. /\ now \in Nat /\ start \in Nat /\ end_day \in Nat /\ T \in Nat \ {0}
        /\ now <= end_day
    <3>1. now \in Nat /\ start \in Nat
      BY CurrentTyped DEF Versions, Days
    <3>2. end_day \in Nat /\ T \in Nat \ {0} /\ now <= end_day
      BY DEF DatasetTypeOK, Days, HistoryAssumption, DatesInv
    <3> QED
      BY <3>1, <3>2
  <2>2. /\ start % T = 0 /\ start <= now /\ end_day < start + T
        /\ Renewals = {d \in 1..now : d % T = 0}
    BY <1>2 DEF TermInv, NextRenewal
  <2>3. \A d \in Nat : start < d /\ d < start + T => d % T # 0
    BY <2>1, <2>2, NextMultiple
  <2> HIDE DEF T, start, now
  <2>4. ASSUME NEW d \in 1..end_day, d % T = 0 PROVE d \in 1..now
    <3>1. d \in Nat /\ d <= end_day /\ 1 <= d
      BY <2>1
    <3>2. ~(start < d /\ d < start + T)
      BY <2>3, <2>4, <3>1
    <3> QED
      BY <2>1, <2>2, <3>1, <3>2
  <2>5. ASSUME NEW d \in 1..now PROVE d \in 1..end_day
    BY <2>1
  <2>6. Renewals = {d \in 1..end_day : d % T = 0}
    BY <2>2, <2>4, <2>5
  <2> QED
    BY <2>6 DEF T
<1> QED
  BY <1>1, <1>2 DEF TimelineTells

HistoryInv == RoundTripInv /\ DatesInv /\ TermInv

LEMMA HistoryKept ==
  ASSUME HistoryInv, HistoryAssumption, [Next]_vars
  PROVE  HistoryInv'
<1>1. DatasetTypeOK /\ DatesInv /\ TermInv /\ RoundTripInv
  BY DEF HistoryInv, RoundTripInv
<1>2. RoundTripInv'
  BY <1>1, NextRoundTrip
<1>3. ASSUME NEW day \in Days, NEW today \in SUBSET (PolicyKeys \cup LineKeys),
             Boundary(day, today)
      PROVE  DatesInv' /\ TermInv'
  BY <1>1, <1>3, DatesKept, TermKept
<1>4. BuildClaims \/ UNCHANGED vars => DatesInv' /\ TermInv'
  BY <1>1, ClaimsLeaveVersions
<1>5. DatesInv' /\ TermInv'
  BY <1>3, <1>4 DEF Next
<1> QED
  BY <1>2, <1>5 DEF HistoryInv

\* The versions and the terms, in every state of every history.
THEOREM HistoryHolds == Spec => []HistoryInv
<1>1. Init => HistoryInv
  BY InitIsInception, InitRoundTrip, DatesInit, TermInit, HistoryAssumption DEF HistoryInv
<1>2. HistoryInv /\ [Next]_vars => HistoryInv'
  BY HistoryKept, HistoryAssumption
<1> QED
  BY <1>1, <1>2, PTL DEF Spec

\* On each day one version of the policy and one of each line is in force, and
\* the limit claim_event measures a claim against is the one the generator sized
\* it with (_scd_lookup, limit_at), for histories of any length.
THEOREM VersionsAlwaysInForce == Spec => []VersionsInForce
<1>1. HistoryInv => VersionsInForce
  BY VersionsCover, HistoryAssumption DEF HistoryInv, RoundTripInv
<1> QED
  BY <1>1, HistoryHolds, PTL

\* A gap change is shown before the marker of its claim, and the renewals shown
\* (build_policy_timeline_event reads them off term_start) are the multiples of
\* the term up to the last day, none lost by a change on the renewal day.
THEOREM TimelineAlwaysTells == Spec => []TimelineTells
<1>1. HistoryInv => TimelineTells
  BY TimelineFollows, HistoryAssumption DEF HistoryInv, RoundTripInv
<1> QED
  BY <1>1, HistoryHolds, PTL

-----------------------------------------------------------------------------
(* Links. *)

LEMMA ClaimTyped ==
  ASSUME DatasetTypeOK, HistoryAssumption, NEW k \in DOMAIN claims
  PROVE  /\ k \in Nat /\ claims[k].loss \in Nat /\ claims[k].report \in Nat
         /\ claims[k].loss \in Days /\ claims[k].report \in Days
         /\ claims[k].line \in Lines /\ claims[k].amount \in Nat
<1>1. claims \in Seq(ClaimSet)
  BY TablesTyped
<1>2. k \in Nat /\ claims[k] \in ClaimSet
  BY <1>1
<1>3. Days \subseteq Nat
  BY DEF Days
<1> QED
  BY <1>2, <1>3 DEF ClaimSet

\* Of the claims reported from a day on one is the Linked Claim.
LEMMA LinkExists ==
  ASSUME DatasetTypeOK, HistoryAssumption, NEW c, ReportedFrom(c.day) # {}
  PROVE  \E k \in ReportedFrom(c.day) :
           /\ LinkedClaim(c) = {k}
           /\ \A j \in ReportedFrom(c.day) : claims[k].report <= claims[j].report
<1> DEFINE from == ReportedFrom(c.day)
           f == [k \in from |-> claims[k].report]
           g == [k \in from |-> k]
<1>1. \A k \in from : k \in DOMAIN claims /\ k \in Nat /\ claims[k].report \in Nat
  BY ClaimTyped DEF ReportedFrom
<1>2. f \in [from -> Nat] /\ g \in [from -> Nat] /\ from # {}
  BY <1>1
<1>3. PICK k \in from : \A j \in from : f[k] < f[j] \/ (f[k] = f[j] /\ g[k] <= g[j])
  <2> HIDE DEF from, f, g
  <2> QED
    BY <1>2, LeastByTwo
<1>4. ReportedFirst(k, from)
  BY <1>3 DEF ReportedFirst
<1> HIDE DEF from
<1>5. \A j \in from : ReportedFirst(j, from) => j = k
  BY <1>1, <1>4 DEF ReportedFirst
<1>6. LinkedClaim(c) = {k}
  BY <1>4, <1>5 DEF LinkedClaim, from
<1>7. \A j \in from : claims[k].report <= claims[j].report
  BY <1>1, <1>4 DEF ReportedFirst
<1> QED
  BY <1>6, <1>7 DEF from

\* The validator links where the pipeline does, and to claims reported on one day.
LEMMA LinksShareReports ==
  ASSUME DatasetTypeOK, HistoryAssumption, NEW c
  PROVE  /\ ValidatorLink(c) \subseteq DOMAIN claims
         /\ ValidatorLink(c) = {} <=> LinkedClaim(c) = {}
         /\ \A k \in LinkedClaim(c) : \A j \in ValidatorLink(c) :
              claims[j].report = claims[k].report
<1> DEFINE from == ReportedFrom(c.day)
           First(k, j) == \/ claims[k].report < claims[j].report
                          \/ claims[k].report = claims[j].report /\ claims[k].loss <= claims[j].loss
<1>1. ValidatorLink(c) = {k \in from : \A j \in from : First(k, j)}
  BY DEF ValidatorLink
<1>2. ValidatorLink(c) \subseteq DOMAIN claims /\ LinkedClaim(c) \subseteq from
  BY <1>1 DEF ReportedFrom, LinkedClaim
<1>3. CASE from = {}
  BY <1>1, <1>2, <1>3
<1>4. CASE from # {}
  <2> DEFINE f == [k \in from |-> claims[k].report]
             g == [k \in from |-> claims[k].loss]
  <2>1. \A k \in from : claims[k].report \in Nat /\ claims[k].loss \in Nat
    BY ClaimTyped DEF ReportedFrom
  <2>2. f \in [from -> Nat] /\ g \in [from -> Nat]
    BY <2>1
  <2>3. PICK k \in from : \A j \in from : f[k] < f[j] \/ (f[k] = f[j] /\ g[k] <= g[j])
    <3> HIDE DEF from, f, g
    <3> QED
      BY <1>4, <2>2, LeastByTwo
  <2>4. k \in ValidatorLink(c)
    BY <1>1, <2>3
  <2>5. PICK h \in from : /\ LinkedClaim(c) = {h}
                          /\ \A j \in from : claims[h].report <= claims[j].report
    BY <1>4, LinkExists
  <2>6. ASSUME NEW j \in ValidatorLink(c) PROVE claims[j].report = claims[h].report
    <3>1. j \in from /\ First(j, h)
      BY <1>1, <2>5
    <3>2. claims[j].report <= claims[h].report /\ claims[h].report <= claims[j].report
      BY <2>1, <2>5, <3>1
    <3> QED
      BY <2>1, <2>5, <3>1, <3>2
  <2> HIDE DEF from, First
  <2> QED
    BY <1>2, <2>4, <2>5, <2>6
<1> QED
  BY <1>3, <1>4

\* The validator takes another claim only if it was reported on the same day.
LEMMA LinksAgree ==
  ASSUME DatasetTypeOK, HistoryAssumption, NEW c
  PROVE  \/ ValidatorLink(c) = LinkedClaim(c)
         \/ \E k \in LinkedClaim(c) : \E j \in ValidatorLink(c) :
              j # k /\ claims[j].report = claims[k].report
<1>1. ASSUME NEW k \in LinkedClaim(c) PROVE LinkedClaim(c) = {k}
  <2>1. ReportedFrom(c.day) # {}
    BY DEF LinkedClaim
  <2> QED
    BY <2>1, LinkExists
<1> QED
  BY <1>1, LinksShareReports

-----------------------------------------------------------------------------
(* The books: who leaves them when, and the deductibles no line has. *)

NoOtherDeductible ==
  \A l \in Lines \ DeductibleLines : \A i \in DOMAIN coverage[l] :
    coverage[l][i].deductible = NoDeductible

\* A policy that leaves has a terminal version on its last day, the other ones
\* stay to the anchor, and every claim lost before the last day.
BooksInv ==
  /\ NoOtherDeductible
  /\ population # "terminating" => end_day = DAY_ANCHOR
  /\ population = "terminating" /\ Current.from = end_day => Current.status \in Terminal
  /\ population = "terminating" /\ phase = "built" => Current.from = end_day
  /\ \A k \in DOMAIN claims : /\ claims[k].loss < end_day
                              /\ claims[k].loss + REPORT_LAG_MIN_DAYS <= claims[k].report

LEMMA BooksInit == ASSUME Inception(Limits, Deductibles), HistoryAssumption PROVE BooksInv
<1>1. NoOtherDeductible
  <2>1. PICK limit \in [Lines -> Limits], deductible \in [DeductibleLines -> Deductibles] :
          coverage = [l \in Lines |->
            <<[from |-> 0, limit |-> limit[l],
               deductible |-> IF l \in DeductibleLines THEN deductible[l] ELSE NoDeductible]>>]
    BY DEF Inception
  <2>2. ASSUME NEW l \in Lines, l \notin DeductibleLines, NEW i \in DOMAIN coverage[l]
        PROVE  coverage[l][i].deductible = NoDeductible
    <3>1. coverage[l] = <<[from |-> 0, limit |-> limit[l], deductible |-> NoDeductible]>>
      BY <2>1, <2>2
    <3>2. i = 1
      BY <3>1
    <3> QED
      BY <3>1, <3>2
  <2> QED
    BY <2>2 DEF NoOtherDeductible
<1>2. population # "terminating" => end_day = DAY_ANCHOR
  BY DEF Inception
<1>3. population = "terminating" => Current.from # end_day
  <2>1. Current.from = 0
    BY DEF Inception, Current, Latest
  <2>2. population = "terminating" => end_day \in 2..(DAY_ANCHOR - 1)
    BY DEF Inception
  <2> QED
    BY <2>1, <2>2
<1>4. phase # "built" /\ claims = <<>>
  BY DEF Inception
<1>5. DOMAIN claims = {}
  BY <1>4
<1> QED
  BY <1>1, <1>2, <1>3, <1>4, <1>5 DEF BooksInv

LEMMA BooksKept ==
  ASSUME DatasetTypeOK, HistoryAssumption, StatusInv, BooksInv, NEW day \in Days,
         NEW today \in SUBSET (PolicyKeys \cup LineKeys), Boundary(day, today)
  PROVE  BooksInv'
<1>1. PICK location \in Locations, agent \in Agents,
           limit \in [Lines -> Limits], deductible \in [DeductibleLines -> Deductibles] :
        Writes(day, today, location, agent, limit, deductible)
  BY BoundaryWrites
<1> DEFINE v == NewVersion(day, today, location, agent)
<1>2. /\ history' = Append(history, v) /\ v.from = day
      /\ v.status = IF Key("status", NoLine) \in today THEN NewStatus(day) ELSE Current.status
  BY <1>1 DEF Writes, NewVersion
<1> HIDE DEF v
<1>3. Current' = v
  BY <1>2, VersionAdded DEF v
<1>4. /\ population' = population /\ end_day' = end_day /\ claims' = claims
      /\ phase' = "evolving"
      /\ population = "terminating" /\ day = end_day => Key("status", NoLine) \in today
  BY DEF Boundary, planVars
<1>5. ASSUME population = "terminating", day = end_day PROVE v.status \in Terminal
  <2>1. terminal_status \in Terminal /\ terminal_status # "none"
    BY <1>5 DEF DatasetTypeOK, StatusInv
  <2> QED
    BY <1>2, <1>4, <1>5, <2>1 DEF NewStatus
<1>6. NoOtherDeductible'
  <2> SUFFICES ASSUME NEW l \in Lines, l \notin DeductibleLines, NEW i \in DOMAIN coverage'[l]
               PROVE  coverage'[l][i].deductible = NoDeductible
    BY DEF NoOtherDeductible
  <2>1. LineWrites(l, day, limit, deductible)
    BY <1>1, LineAdded
  <2>2. coverage[l] \in Seq(CoverageVersions)
    BY TablesTyped
  <2>3. \A j \in DOMAIN coverage[l] : coverage[l][j].deductible = NoDeductible
    BY DEF BooksInv, NoOtherDeductible
  <2>4. CASE coverage'[l] = coverage[l]
    BY <2>3, <2>4
  <2>5. ASSUME NEW row \in CoverageVersions, row.deductible = NoDeductible,
               coverage'[l] = Append(coverage[l], row)
        PROVE  coverage'[l][i].deductible = NoDeductible
    <3>1. \/ i \in DOMAIN coverage[l] /\ Append(coverage[l], row)[i] = coverage[l][i]
          \/ Append(coverage[l], row)[i] = row
      BY <2>2, <2>5
    <3> QED
      BY <2>3, <2>5, <3>1
  <2> QED
    BY <2>1, <2>4, <2>5 DEF LineWrites
<1> QED
  BY <1>2, <1>3, <1>4, <1>5, <1>6 DEF BooksInv

LEMMA BooksSettle ==
  ASSUME BooksInv, BuildClaims \/ UNCHANGED vars, HistoryAssumption
  PROVE  BooksInv'
<1>1. UNCHANGED <<population, end_day, history, coverage>>
  BY DEF BuildClaims, vars, planVars
<1>2. Current' = Current /\ NoOtherDeductible'
  BY <1>1 DEF Current, Latest, BooksInv, NoOtherDeductible
<1>3. population = "terminating" /\ phase' = "built" => Current.from = end_day
  BY DEF BuildClaims, vars, BooksInv
<1>4. ASSUME NEW k \in DOMAIN claims'
      PROVE  /\ claims'[k].loss < end_day
             /\ claims'[k].loss + REPORT_LAG_MIN_DAYS <= claims'[k].report
  <2>1. CASE BuildClaims
    <3>1. PICK n : claims' \in [1..n -> Placeable]
      BY <2>1 DEF BuildClaims
    <3>2. claims'[k] \in Placeable
      BY <3>1
    <3>3. Placeable \subseteq [line : Lines, loss : Days, report : Days, amount : Amounts]
      BY DEF Placeable
    <3>4. /\ claims'[k].loss < end_day
          /\ claims'[k].report >= claims'[k].loss + REPORT_LAG_MIN_DAYS
          /\ claims'[k].loss \in Nat /\ claims'[k].report \in Nat
          /\ REPORT_LAG_MIN_DAYS \in Nat
      BY <3>2, <3>3 DEF Placeable, Days, HistoryAssumption
    <3> QED
      BY <3>4
  <2>2. CASE UNCHANGED vars
    BY <2>2 DEF vars, BooksInv
  <2> QED
    BY <2>1, <2>2
<1> QED
  BY <1>1, <1>2, <1>3, <1>4 DEF BooksInv

\* A policy is exposed to its last day by the validator's reckoning, too.
LEMMA ExposureEnds ==
  ASSUME StatusInv, BooksInv, phase = "built"
  PROVE  ExposureEnd = end_day
<1>1. CASE population = "terminating"
  <2>1. Current.from = end_day /\ Current.status \in Terminal
    BY <1>1 DEF BooksInv
  <2> QED
    BY <2>1 DEF ExposureEnd
<1>2. CASE population # "terminating"
  <2>1. end_day = DAY_ANCHOR /\ Current.status \notin Terminal
    BY <1>2 DEF BooksInv, StatusInv, Terminal
  <2> QED
    BY <2>1 DEF ExposureEnd
<1> QED
  BY <1>1, <1>2

\* The validator's rows are the material change rows: a line without a
\* deductible never has one to move.
LEMMA RowsAgree ==
  ASSUME DatasetTypeOK, HistoryAssumption, BooksInv
  PROVE  ValidatorRows = Material(ChangeRows)
<1>1. ASSUME NEW c \in {"address", "vehicle", "status"}
      PROVE  MovedRows(c, Column[c]) = PolicyRows(history, c)
  <2>1. \A old, new : PolicyRow(c, old, new)
          = [day |-> new.from, category |-> c, line |-> NoLine, direction |-> "switch"]
    BY DEF PolicyRow, ChangeDirection
  <2> QED
    BY <2>1 DEF MovedRows, PolicyRows
<1>2. ASSUME NEW category \in {"coverage", "deductible"}, NEW column, NEW x
      PROVE  x \in MovedLineRows(category, column) <=>
               \E l \in Lines : x \in LineRows(coverage[l], category, column, l)
  <2>1. \A old, new, l : LineRow(category, column, l, old, new)
          = [day |-> new.from, category |-> category, line |-> l,
             direction |-> IF new[column] > old[column] THEN "increase" ELSE "decrease"]
    BY DEF LineRow, ChangeDirection, Direction
  <2> DEFINE Moved(l) == {j \in 1..(Len(coverage[l]) - 1) :
                            coverage[l][j][column] # coverage[l][j + 1][column]}
             Row(l, i) ==
               [day |-> coverage[l][i + 1].from, category |-> category, line |-> l,
                direction |-> IF coverage[l][i + 1][column] > coverage[l][i][column]
                              THEN "increase" ELSE "decrease"]
  <2>2. x \in MovedLineRows(category, column) <=>
          \E l \in Lines : \E i \in Moved(l) : x = Row(l, i)
    BY DEF MovedLineRows
  <2>3. \A l : x \in LineRows(coverage[l], category, column, l) <=>
                 \E i \in Moved(l) : x = Row(l, i)
    BY <2>1 DEF LineRows
  <2> HIDE DEF Moved, Row
  <2> QED
    BY <2>2, <2>3
<1>3. ASSUME NEW l \in Lines, l \notin DeductibleLines
      PROVE  LineRows(coverage[l], "deductible", "deductible", l) = {}
  <2>1. \A i \in DOMAIN coverage[l] : coverage[l][i]["deductible"] = NoDeductible
    BY <1>3 DEF BooksInv, NoOtherDeductible
  <2>2. coverage[l] \in Seq(CoverageVersions)
    BY TablesTyped
  <2>3. \A i \in 1..(Len(coverage[l]) - 1) : i \in DOMAIN coverage[l] /\ i + 1 \in DOMAIN coverage[l]
    BY <2>2
  <2> QED
    BY <2>1, <2>3 DEF LineRows
<1>4. ASSUME NEW x
      PROVE  x \in ValidatorRows <=>
               \/ \E c \in {"address", "vehicle", "status"} : x \in PolicyRows(history, c)
               \/ \E l \in Lines : x \in LineRows(coverage[l], "coverage", "limit", l)
               \/ \E l \in Lines : x \in LineRows(coverage[l], "deductible", "deductible", l)
  <2>1. /\ Column["address"] = "location" /\ Column["vehicle"] = "vehicle"
        /\ Column["status"] = "status"
    BY DEF Column
  <2>2. /\ MovedRows("address", "location") = PolicyRows(history, "address")
        /\ MovedRows("vehicle", "vehicle") = PolicyRows(history, "vehicle")
        /\ MovedRows("status", "status") = PolicyRows(history, "status")
    BY <1>1, <2>1
  <2> QED
    BY <1>2, <2>2 DEF ValidatorRows
<1>5. /\ \A c : \A x \in PolicyRows(history, c) : x.category = c
      /\ \A rows, category, column, l : \A x \in LineRows(rows, category, column, l) :
           x.category = category
  BY DEF PolicyRows, PolicyRow, LineRows, LineRow
<1>6. /\ \A c : c \in DOMAIN Column <=>
             c \in {"address", "vehicle", "status"} \/ c \in {"premium", "agent"}
      /\ MATERIAL_CATEGORIES = {"coverage", "deductible", "vehicle", "address", "status"}
      /\ DeductibleLines \subseteq Lines
  BY DEF Column, MATERIAL_CATEGORIES, HistoryAssumption
<1>7. ASSUME NEW x
      PROVE  x \in Material(ChangeRows) <=>
               \/ \E c \in {"address", "vehicle", "status"} : x \in PolicyRows(history, c)
               \/ \E l \in Lines : x \in LineRows(coverage[l], "coverage", "limit", l)
               \/ \E l \in DeductibleLines :
                    x \in LineRows(coverage[l], "deductible", "deductible", l)
  BY <1>5, <1>6, InChangeRows DEF Material
<1>8. ASSUME NEW x PROVE x \in ValidatorRows <=> x \in Material(ChangeRows)
  BY <1>3, <1>4, <1>6, <1>7
<1> QED
  BY <1>8

\* A material row is a change of the generator, and the other way round.
LEMMA MaterialChanges ==
  ASSUME ChangesRoundTrip
  PROVE  \A c : c.category \in MATERIAL_CATEGORIES => (c \in Material(ChangeRows) <=> c \in changes)
BY DEF ChangesRoundTrip, Material, MATERIAL_CATEGORIES

LEMMA ValidatorFollows ==
  ASSUME RoundTripInv, DatesInv, BooksInv, HistoryAssumption
  PROVE  ValidatorAgrees
<1>1. DatasetTypeOK /\ StatusInv /\ ChangesRoundTrip
  BY DEF RoundTripInv
<1> DEFINE rows == ValidatorRows
<1>2. rows = Material(ChangeRows)
  BY <1>1, RowsAgree
<1>3. \A c \in rows :
        \/ ValidatorLink(c) = LinkedClaim(c)
        \/ \E k \in LinkedClaim(c) : \E j \in ValidatorLink(c) :
             j # k /\ claims[j].report = claims[k].report
  BY <1>1, LinksAgree
<1> HIDE DEF rows
<1>4. ASSUME phase = "built"
      PROVE  /\ ClaimsOutside = {}
             /\ \A category \in MATERIAL_CATEGORIES : \A day \in Days : \A window \in 1..2 :
                  ValidatorWindow(rows, category, window, day)
                    <=> WindowFlag(category, window, day)
  <2>1. ExposureEnd = end_day
    BY <1>1, <1>4, ExposureEnds
  <2>2. end_day \in Int
    BY <1>1 DEF DatasetTypeOK, Days
  <2>3. ASSUME NEW k \in DOMAIN claims PROVE claims[k].loss \in history[1].from..ExposureEnd
    <3>1. claims[k].loss \in Nat /\ claims[k].loss < end_day
      BY <1>1, ClaimTyped DEF BooksInv
    <3>2. history[1].from = 0
      BY DEF DatesInv, Ascends
    <3> QED
      BY <2>1, <2>2, <3>1, <3>2
  <2>4. ASSUME NEW category \in MATERIAL_CATEGORIES, NEW day, NEW window
        PROVE  ValidatorWindow(rows, category, window, day) <=> WindowFlag(category, window, day)
    <3>1. \A c : c.category = category => (c \in rows <=> c \in changes)
      BY <1>1, <1>2, MaterialChanges
    <3> QED
      BY <2>1, <3>1 DEF ValidatorWindow, WindowFlag
  <2> QED
    BY <2>3, <2>4 DEF ClaimsOutside
<1>5. ASSUME NEW category, NEW window, NEW high,
             NEW k \in DOMAIN claims,
             k \in WindowedClaims(rows, category, window, high)
               <=> k \notin QueriedClaims(rows, category, window, high)
      PROVE  \E j \in DOMAIN claims \ {k} : claims[j].report = claims[k].report
  <2> DEFINE Near(c) == c.category = category /\ DaysToLoss(c, k) <= window
                          /\ ChangeTiming(c, k) = "before_loss"
  <2>1. k \in WindowedClaims(rows, category, window, high) <=>
          (high => HighSeverity(k)) /\ \E c \in rows : Near(c) /\ k \in ValidatorLink(c)
    BY DEF WindowedClaims, ChangeTiming
  <2>2. k \in QueriedClaims(rows, category, window, high) <=>
          (high => HighSeverity(k)) /\ \E c \in rows : Near(c) /\ k \in LinkedClaim(c)
    BY DEF QueriedClaims
  <2> HIDE DEF Near
  <2>3. PICK c \in rows : k \in ValidatorLink(c) <=> k \notin LinkedClaim(c)
    BY <1>5, <2>1, <2>2
  <2>4. LinkedClaim(c) \subseteq DOMAIN claims
    BY DEF LinkedClaim, ReportedFrom
  <2> QED
    BY <1>1, <2>3, <2>4, LinksShareReports
<1>6. rows = Material(ChangeRows)
      /\ (\A c \in rows : \/ ValidatorLink(c) = LinkedClaim(c)
                         \/ \E k \in LinkedClaim(c) : \E j \in ValidatorLink(c) :
                              j # k /\ claims[j].report = claims[k].report)
  BY <1>2, <1>3
<1>7. \A category, window, high :
        \A k \in (WindowedClaims(rows, category, window, high)
                   \ QueriedClaims(Material(ChangeRows), category, window, high))
                \cup (QueriedClaims(Material(ChangeRows), category, window, high)
                   \ WindowedClaims(rows, category, window, high)) :
          \E j \in DOMAIN claims \ {k} : claims[j].report = claims[k].report
  <2>1. \A category, window, high :
          /\ WindowedClaims(rows, category, window, high) \subseteq DOMAIN claims
          /\ QueriedClaims(rows, category, window, high) \subseteq DOMAIN claims
    BY DEF WindowedClaims, QueriedClaims
  <2> QED
    BY <1>2, <1>5, <2>1
<1> QED
  BY <1>4, <1>6, <1>7 DEF ValidatorAgrees, rows

PolicyInv == HistoryInv /\ BooksInv

LEMMA PolicyKept == ASSUME PolicyInv, HistoryAssumption, [Next]_vars PROVE PolicyInv'
<1>1. HistoryInv /\ BooksInv /\ DatasetTypeOK /\ StatusInv
  BY DEF PolicyInv, HistoryInv, RoundTripInv
<1>2. HistoryInv'
  BY <1>1, HistoryKept
<1>3. ASSUME NEW day \in Days, NEW today \in SUBSET (PolicyKeys \cup LineKeys),
             Boundary(day, today)
      PROVE  BooksInv'
  BY <1>1, <1>3, BooksKept
<1>4. BuildClaims \/ UNCHANGED vars => BooksInv'
  BY <1>1, BooksSettle
<1> QED
  BY <1>2, <1>3, <1>4 DEF PolicyInv, Next

\* The books as well, in every state of every history.
THEOREM PolicyHolds == Spec => []PolicyInv
<1>1. Init => PolicyInv
  BY InitIsInception, InitRoundTrip, DatesInit, TermInit, BooksInit, HistoryAssumption
  DEF HistoryInv, PolicyInv
<1>2. PolicyInv /\ [Next]_vars => PolicyInv'
  BY PolicyKept, HistoryAssumption
<1> QED
  BY <1>1, <1>2, PTL DEF Spec

\* The validator (validate.py: derive_material_changes, link_changes_to_claims,
\* policy_exposure, ExposureGrid.window) rebuilds from the bronze tables what the
\* pipeline publishes and the generator meant: the same material changes, the
\* same link unless two claims share a report date, the same exposed days with
\* every loss in them, and the same claims to rank the categories by as the query
\* Genie is given (windowed_claim_counts).
THEOREM ValidatorAlwaysAgrees == Spec => []ValidatorAgrees
<1>1. PolicyInv => ValidatorAgrees
  BY ValidatorFollows, HistoryAssumption DEF PolicyInv, HistoryInv
<1> QED
  BY <1>1, PolicyHolds, PTL

-----------------------------------------------------------------------------
(* The order of the change rows. *)

\* In a finite set no strict order goes on for ever.
LEMMA MaximalElement ==
  ASSUME NEW T, IsFiniteSet(T), T # {}, NEW R,
         \A x \in T : <<x, x>> \notin R,
         \A x, y, z \in T : <<x, y>> \in R /\ <<y, z>> \in R => <<x, z>> \in R
  PROVE  \E x \in T : \A y \in T : <<x, y>> \notin R
<1> DEFINE Above(x) == {y \in T : <<x, y>> \in R}
           aboves == {Above(x) : x \in T}
<1>1. aboves \subseteq FiniteSubsetsOf(T) /\ aboves # {}
  <2>1. ASSUME NEW x \in T PROVE Above(x) \in SUBSET T /\ IsFiniteSet(Above(x))
    <3>1. Above(x) \in SUBSET T
      OBVIOUS
    <3> HIDE DEF Above
    <3> QED
      BY <3>1, FS_Subset
  <2>2. PICK x \in T : TRUE
    OBVIOUS
  <2> HIDE DEF Above
  <2>3. Above(x) \in aboves
    OBVIOUS
  <2>4. aboves \subseteq FiniteSubsetsOf(T)
    BY <2>1 DEF FiniteSubsetsOf
  <2> QED
    BY <2>3, <2>4
<1>2. PICK s \in aboves : \A t \in aboves : <<t, s>> \notin StrictSubsetOrdering(T)
  <2> HIDE DEF aboves
  <2> QED
    BY <1>1, WFMin, FS_StrictSubsetOrderingWellFounded
<1>3. PICK x \in T : s = Above(x)
  OBVIOUS
<1>4. ASSUME NEW y \in T, <<x, y>> \in R PROVE FALSE
  <2>1. Above(y) \subseteq s /\ y \in s /\ y \notin Above(y)
    BY <1>3, <1>4
  <2>2. Above(y) \in SUBSET T /\ s \in SUBSET T /\ Above(y) \in aboves
    BY <1>3
  <2>3. <<Above(y), s>> \in StrictSubsetOrdering(T)
    BY <2>1, <2>2 DEF StrictSubsetOrdering
  <2> QED
    BY <1>2, <2>2, <2>3
<1> QED
  BY <1>4

\* A change row compares two versions that follow each other: of the policy, or
\* of a line that has the column.
ShowsPolicy(c) ==
  /\ c.category \in DOMAIN Column /\ c.line = NoLine
  /\ \E i \in 1..(Len(history) - 1) :
       /\ history[i][Column[c.category]] # history[i + 1][Column[c.category]]
       /\ c = PolicyRow(c.category, history[i], history[i + 1])
ShowsLine(c, category, column, lines) ==
  /\ c.category = category /\ c.line \in lines
  /\ \E i \in 1..(Len(coverage[c.line]) - 1) :
       /\ coverage[c.line][i][column] # coverage[c.line][i + 1][column]
       /\ c = LineRow(category, column, c.line, coverage[c.line][i], coverage[c.line][i + 1])

LEMMA RowShape ==
  ASSUME NEW c
  PROVE  c \in ChangeRows <=> \/ ShowsPolicy(c)
                              \/ ShowsLine(c, "coverage", "limit", Lines)
                              \/ ShowsLine(c, "deductible", "deductible", DeductibleLines)
<1>1. (\E category \in DOMAIN Column : c \in PolicyRows(history, category)) <=> ShowsPolicy(c)
  <2>1. ASSUME NEW category \in DOMAIN Column, c \in PolicyRows(history, category)
        PROVE  ShowsPolicy(c)
    BY <2>1 DEF PolicyRows, PolicyRow, ShowsPolicy
  <2>2. ASSUME ShowsPolicy(c)
        PROVE  \E category \in DOMAIN Column : c \in PolicyRows(history, category)
    BY <2>2 DEF PolicyRows, ShowsPolicy
  <2> QED
    BY <2>1, <2>2
<1>2. ASSUME NEW category, NEW column, NEW lines
      PROVE  (\E l \in lines : c \in LineRows(coverage[l], category, column, l))
               <=> ShowsLine(c, category, column, lines)
  <2>1. ASSUME NEW l \in lines, c \in LineRows(coverage[l], category, column, l)
        PROVE  ShowsLine(c, category, column, lines)
    BY <2>1 DEF LineRows, LineRow, ShowsLine
  <2>2. ASSUME ShowsLine(c, category, column, lines)
        PROVE  \E l \in lines : c \in LineRows(coverage[l], category, column, l)
    BY <2>2 DEF LineRows, ShowsLine
  <2> QED
    BY <2>1, <2>2
<1> QED
  BY <1>1, <1>2, InChangeRows

LEMMA RowTyped ==
  ASSUME DatasetTypeOK, HistoryAssumption, NEW c \in ChangeRows
  PROVE  /\ c.day \in Days /\ c.day \in Nat /\ c.line \in Lines \cup {NoLine} /\ c.line \in Nat
         /\ c.category \in DOMAIN CategoryRank
         /\ c.line # NoLine <=> c.category \in {"coverage", "deductible"}
         /\ c.category = "deductible" => c.line \in DeductibleLines
<1>1. \A l \in Lines : l \in Nat /\ l # NoLine
  BY DEF HistoryAssumption
<1>2. Days \subseteq Nat /\ NoLine \in Nat
  BY DEF Days, NoLine
<1>3. DOMAIN CategoryRank = DOMAIN Column \cup {"coverage", "deductible"}
      /\ "coverage" \notin DOMAIN Column /\ "deductible" \notin DOMAIN Column
  BY DEF CategoryRank, Column
<1>4. CASE ShowsPolicy(c)
  <2>1. PICK i \in 1..(Len(history) - 1) : c.day = history[i + 1].from
    BY <1>4 DEF ShowsPolicy, PolicyRow
  <2>2. i + 1 \in 1..Len(history)
    BY CurrentTyped
  <2>3. c.day \in Days
    BY <2>1, <2>2, CurrentTyped DEF Versions
  <2>4. c.category \in DOMAIN Column /\ c.line = NoLine
    BY <1>4 DEF ShowsPolicy
  <2> QED
    BY <1>2, <1>3, <2>3, <2>4
<1>5. ASSUME NEW category \in {"coverage", "deductible"}, NEW column, NEW lines \in SUBSET Lines,
             ShowsLine(c, category, column, lines)
      PROVE  /\ c.day \in Days /\ c.day \in Nat /\ c.line \in Lines /\ c.line \in Nat
             /\ c.line # NoLine /\ c.line \in lines /\ c.category = category
             /\ c.category \in DOMAIN CategoryRank
  <2>1. c.line \in Lines /\ c.line \in lines /\ c.category = category
    BY <1>5 DEF ShowsLine
  <2>2. PICK i \in 1..(Len(coverage[c.line]) - 1) : c.day = coverage[c.line][i + 1].from
    BY <1>5 DEF ShowsLine, LineRow
  <2>3. coverage[c.line] \in Seq(CoverageVersions)
    BY <2>1, TablesTyped
  <2>4. i + 1 \in 1..Len(coverage[c.line]) /\ coverage[c.line][i + 1] \in CoverageVersions
    BY <2>3
  <2>5. c.day \in Days
    BY <2>2, <2>4 DEF CoverageVersions
  <2> QED
    BY <1>1, <1>2, <1>3, <2>1, <2>5
<1>6. DeductibleLines \subseteq Lines
  BY DEF HistoryAssumption
<1>7. CASE ShowsLine(c, "coverage", "limit", Lines)
  BY <1>5, <1>7
<1>8. CASE ShowsLine(c, "deductible", "deductible", DeductibleLines)
  BY <1>5, <1>6, <1>8
<1> QED
  BY <1>4, <1>7, <1>8, RowShape

\* A day shows one row of a category, and of a line one.
LEMMA RowKey ==
  ASSUME DatasetTypeOK, HistoryAssumption, DatesInv, NEW c \in ChangeRows, NEW d \in ChangeRows,
         c.day = d.day, c.category = d.category, c.line = d.line
  PROVE  c = d
<1>1. ASSUME NEW S, \A r \in S : r.from \in Nat, NEW rows \in Seq(S), Ascends(rows),
             NEW i \in 1..(Len(rows) - 1), NEW j \in 1..(Len(rows) - 1),
             rows[i + 1].from = rows[j + 1].from
      PROVE  i = j
  <2>1. i + 1 \in DOMAIN rows /\ j + 1 \in DOMAIN rows
    OBVIOUS
  <2>2. rows[i + 1].from \in Nat
    BY <1>1, <2>1
  <2>3. ~(i + 1 < j + 1) /\ ~(j + 1 < i + 1)
    BY <1>1, <2>1, <2>2 DEF Ascends
  <2> QED
    BY <2>3
<1>2. ASSUME ShowsPolicy(c), ShowsPolicy(d) PROVE c = d
  <2>1. PICK i \in 1..(Len(history) - 1) : c = PolicyRow(c.category, history[i], history[i + 1])
    BY <1>2 DEF ShowsPolicy
  <2>2. PICK j \in 1..(Len(history) - 1) : d = PolicyRow(c.category, history[j], history[j + 1])
    BY <1>2 DEF ShowsPolicy
  <2>3. c.day = history[i + 1].from
    BY <2>1 DEF PolicyRow
  <2>4. d.day = history[j + 1].from
    BY <2>2 DEF PolicyRow
  <2>5. PICK n : history \in Seq(Versions(n))
    BY TablesTyped
  <2>6. Ascends(history) /\ \A r \in Versions(n) : r.from \in Nat
    BY RowsDated DEF DatesInv
  <2>7. i = j
    BY <1>1, <2>3, <2>4, <2>5, <2>6
  <2> QED
    BY <2>1, <2>2, <2>7
<1>3. ASSUME NEW category, NEW column, NEW lines \in SUBSET Lines,
             ShowsLine(c, category, column, lines), ShowsLine(d, category, column, lines)
      PROVE  c = d
  <2> DEFINE rows == coverage[c.line]
  <2>1. PICK i \in 1..(Len(rows) - 1) : c = LineRow(category, column, c.line, rows[i], rows[i + 1])
    BY <1>3 DEF ShowsLine
  <2>2. PICK j \in 1..(Len(rows) - 1) : d = LineRow(category, column, c.line, rows[j], rows[j + 1])
    BY <1>3 DEF ShowsLine
  <2>3. c.day = rows[i + 1].from
    BY <2>1 DEF LineRow
  <2>4. d.day = rows[j + 1].from
    BY <2>2 DEF LineRow
  <2>5. c.line \in Lines
    BY <1>3 DEF ShowsLine
  <2>6. rows \in Seq(CoverageVersions) /\ Ascends(rows) /\ \A r \in CoverageVersions : r.from \in Nat
    BY <2>5, TablesTyped, RowsDated DEF DatesInv
  <2> HIDE DEF rows
  <2>7. i = j
    BY <1>1, <2>3, <2>4, <2>6
  <2> QED
    BY <2>1, <2>2, <2>7
<1>4. DeductibleLines \subseteq Lines /\ "coverage" \notin DOMAIN Column
      /\ "deductible" \notin DOMAIN Column
  BY DEF HistoryAssumption, Column
<1>5. \/ ShowsPolicy(c) /\ ShowsPolicy(d)
      \/ ShowsLine(c, "coverage", "limit", Lines) /\ ShowsLine(d, "coverage", "limit", Lines)
      \/ /\ ShowsLine(c, "deductible", "deductible", DeductibleLines)
         /\ ShowsLine(d, "deductible", "deductible", DeductibleLines)
  <2>1. \A x : /\ ShowsPolicy(x) => x.category \in DOMAIN Column
               /\ \A category, column, lines :
                    ShowsLine(x, category, column, lines) => x.category = category
    BY DEF ShowsPolicy, ShowsLine
  <2> QED
    BY <1>4, <2>1, RowShape
<1> QED
  BY <1>2, <1>3, <1>4, <1>5

\* The order of change_event_id is strict and total on the change rows.
LEMMA BeforeOrders ==
  ASSUME DatasetTypeOK, HistoryAssumption, DatesInv
  PROVE  /\ \A c \in ChangeRows : ~Before(c, c)
         /\ \A c, d, e \in ChangeRows : Before(c, d) /\ Before(d, e) => Before(c, e)
         /\ \A c, d \in ChangeRows : c # d => Before(c, d) \/ Before(d, c)
         /\ \A c, d \in ChangeRows : Before(c, d) => c.day <= d.day
<1>1. /\ \A x \in DOMAIN CategoryRank : CategoryRank[x] \in Nat
      /\ \A x, y \in DOMAIN CategoryRank : CategoryRank[x] = CategoryRank[y] => x = y
  BY DEF CategoryRank
<1>2. ASSUME NEW c \in ChangeRows
      PROVE  c.day \in Nat /\ c.line \in Nat /\ c.category \in DOMAIN CategoryRank
  BY RowTyped
<1>3. \A c \in ChangeRows : CategoryRank[c.category] \in Nat
  BY <1>1, <1>2
<1>4. \A c \in ChangeRows : ~Before(c, c)
  BY <1>2, <1>3 DEF Before
<1>5. ASSUME NEW c \in ChangeRows, NEW d \in ChangeRows, NEW e \in ChangeRows,
             Before(c, d), Before(d, e)
      PROVE  Before(c, e)
  BY <1>2, <1>3, <1>5 DEF Before
<1>6. ASSUME NEW c \in ChangeRows, NEW d \in ChangeRows, c # d
      PROVE  Before(c, d) \/ Before(d, c)
  <2>1. c.day # d.day \/ c.category # d.category \/ c.line # d.line
    BY <1>6, RowKey
  <2>2. c.category # d.category => CategoryRank[c.category] # CategoryRank[d.category]
    BY <1>1, <1>2
  <2> QED
    BY <1>2, <1>3, <2>1, <2>2 DEF Before
<1>7. \A c, d \in ChangeRows : Before(c, d) => c.day <= d.day
  BY <1>2 DEF Before
<1> QED
  BY <1>4, <1>5, <1>6, <1>7

LEMMA RowsFinite ==
  ASSUME DatasetTypeOK, HistoryAssumption, DatesInv
  PROVE  IsFiniteSet(ChangeRows)
<1> DEFINE keys == (Days \X (1..7)) \X (Lines \cup {NoLine})
           f == [c \in ChangeRows |-> <<<<c.day, CategoryRank[c.category]>>, c.line>>]
<1>1. IsFiniteSet(Days)
  <2>1. 0 \in Int /\ DAY_ANCHOR \in Int
    BY DEF HistoryAssumption
  <2> QED
    BY <2>1, FS_Interval DEF Days
<1>2. IsFiniteSet(1..7)
  <2>1. 1 \in Int /\ 7 \in Int
    OBVIOUS
  <2> QED
    BY <2>1, FS_Interval
<1>3. IsFiniteSet(Lines \cup {NoLine})
  BY FS_AddElement DEF HistoryAssumption
<1>4. IsFiniteSet(keys)
  <2>1. IsFiniteSet(Days \X (1..7))
    BY <1>1, <1>2, FS_Product
  <2> QED
    BY <1>3, <2>1, FS_Product
<1>5. f \in Injection(ChangeRows, keys)
  <2>1. /\ \A x \in DOMAIN CategoryRank : CategoryRank[x] \in 1..7
        /\ \A x, y \in DOMAIN CategoryRank : CategoryRank[x] = CategoryRank[y] => x = y
    BY DEF CategoryRank
  <2>2. ASSUME NEW c \in ChangeRows PROVE f[c] \in keys
    <3>1. /\ c.day \in Days /\ CategoryRank[c.category] \in 1..7
          /\ c.line \in Lines \cup {NoLine}
      BY <2>1, RowTyped
    <3> QED
      BY <3>1
  <2>3. ASSUME NEW c \in ChangeRows, NEW d \in ChangeRows, f[c] = f[d] PROVE c = d
    <3>1. c.day = d.day /\ CategoryRank[c.category] = CategoryRank[d.category] /\ c.line = d.line
      BY <2>3
    <3>2. c.category = d.category
      BY <2>1, <3>1, RowTyped
    <3> QED
      BY <3>1, <3>2, RowKey
  <2> HIDE DEF keys
  <2> QED
    BY <2>2, <2>3 DEF Injection, IsInjective
<1> QED
  BY <1>4, <1>5, FS_Injection

\* Of some change rows one is the latest.
LEMMA LatestExists ==
  ASSUME DatasetTypeOK, HistoryAssumption, DatesInv, NEW rows \in SUBSET ChangeRows, rows # {}
  PROVE  /\ LatestOf(rows) \in rows
         /\ \A d \in rows : d # LatestOf(rows) => Before(d, LatestOf(rows))
<1> DEFINE R == {pair \in rows \X rows : Before(pair[1], pair[2])}
<1>1. IsFiniteSet(rows)
  BY RowsFinite, FS_Subset
<1>2. /\ \A x \in rows : <<x, x>> \notin R
      /\ \A x, y, z \in rows : <<x, y>> \in R /\ <<y, z>> \in R => <<x, z>> \in R
      /\ \A x, y \in rows : <<x, y>> \in R <=> Before(x, y)
  BY BeforeOrders
<1> HIDE DEF R
<1>3. PICK x \in rows : \A y \in rows : <<x, y>> \notin R
  BY <1>1, <1>2, MaximalElement
<1>4. \A d \in rows : d # x => Before(d, x)
  BY <1>2, <1>3, BeforeOrders
<1> QED
  BY <1>4 DEF LatestOf

\* The evidence of a match is the latest of the changes that hit.
LEMMA EmitsLatest ==
  ASSUME DatasetTypeOK, HistoryAssumption, DatesInv, NEW code,
         NEW hits \in SUBSET ChangeRows, NEW match \in EmitLatest(code, hits)
  PROVE  /\ match.code = code /\ match.change \in hits /\ match.on = match.change.day
         /\ match.claim = IF code \in ClaimRules THEN LinkedClaim(match.change) ELSE {}
<1>1. hits # {}
  BY DEF EmitLatest
<1>2. LatestOf(hits) \in hits
  BY <1>1, LatestExists
<1>3. match = [code |-> code, on |-> LatestOf(hits).day, change |-> LatestOf(hits),
               claim |-> IF code \in ClaimRules THEN LinkedClaim(LatestOf(hits)) ELSE {}]
  BY <1>1 DEF EmitLatest
<1> QED
  BY <1>2, <1>3

-----------------------------------------------------------------------------
(* Evidence. *)

\* A claim that reports a change is linked to it, or one reported no later is.
LEMMA LinkFollows ==
  ASSUME DatasetTypeOK, HistoryAssumption, NEW c, NEW k \in ReportedFrom(c.day)
  PROVE  \E j \in ReportedFrom(c.day) :
           /\ LinkedClaim(c) = {j}
           /\ claims[j].report <= claims[k].report
  BY LinkExists

\* What a Linked Claim is: one, reported from the day of the change on.
LEMMA LinkTyped ==
  ASSUME DatasetTypeOK, HistoryAssumption, NEW c \in ChangeRows, NEW k \in LinkedClaim(c)
  PROVE  /\ LinkedClaim(c) = {k} /\ k \in DOMAIN claims
         /\ c.day <= claims[k].report
         /\ \A j \in ReportedFrom(c.day) : claims[k].report <= claims[j].report
<1>1. k \in ReportedFrom(c.day)
  BY DEF LinkedClaim
<1>2. PICK j \in ReportedFrom(c.day) :
        /\ LinkedClaim(c) = {j}
        /\ \A h \in ReportedFrom(c.day) : claims[j].report <= claims[h].report
  BY <1>1, LinkExists
<1>3. k \in DOMAIN claims /\ claims[k].report >= c.day
  BY <1>1 DEF ReportedFrom
<1>4. claims[k].report \in Nat /\ c.day \in Nat
  BY <1>3, ClaimTyped, RowTyped
<1> QED
  BY <1>2, <1>3, <1>4

LEMMA LinksFollowTime ==
  ASSUME DatasetTypeOK, HistoryAssumption, NEW c \in ChangeRows, NEW d \in ChangeRows
  PROVE  /\ Cardinality(LinkedClaim(c)) <= 1
         /\ c.day <= d.day /\ LinkedClaim(d) # {}
              => \E k \in LinkedClaim(c) : \A j \in LinkedClaim(d) :
                   claims[k].report <= claims[j].report
<1>1. Cardinality(LinkedClaim(c)) <= 1
  <2>1. CASE LinkedClaim(c) = {}
    BY <2>1, FS_EmptySet
  <2>2. ASSUME NEW k \in LinkedClaim(c) PROVE Cardinality(LinkedClaim(c)) = 1
    <3>1. LinkedClaim(c) = {k}
      BY LinkTyped
    <3> QED
      BY <3>1, FS_Singleton
  <2> QED
    BY <2>1, <2>2
<1>2. ASSUME c.day <= d.day, NEW j \in LinkedClaim(d)
      PROVE  \E k \in LinkedClaim(c) : \A h \in LinkedClaim(d) :
               claims[k].report <= claims[h].report
  <2>1. LinkedClaim(d) = {j} /\ j \in DOMAIN claims /\ d.day <= claims[j].report
    BY LinkTyped
  <2>2. c.day \in Nat /\ d.day \in Nat /\ claims[j].report \in Nat
    BY <2>1, RowTyped, ClaimTyped
  <2>3. j \in ReportedFrom(c.day)
    BY <1>2, <2>1, <2>2 DEF ReportedFrom
  <2>4. PICK k : LinkedClaim(c) = {k} /\ claims[k].report <= claims[j].report
    BY <2>3, LinkFollows
  <2> QED
    BY <2>1, <2>4
<1> QED
  BY <1>1, <1>2

\* A material change on or before a loss is not after the last such change.
LEMMA CountedBack ==
  ASSUME DatasetTypeOK, HistoryAssumption, DatesInv, NEW k \in DOMAIN claims,
         NEW c \in Material(ChangeRows), c.day <= claims[k].loss
  PROVE  \E last \in LastBeforeLoss(k) : c.day <= last.day
<1> DEFINE before == {d \in Material(ChangeRows) : d.day <= claims[k].loss}
<1>1. before \in SUBSET ChangeRows /\ c \in before
  BY DEF Material
<1>2. LatestOf(before) \in before /\ \A d \in before : d # LatestOf(before) => Before(d, LatestOf(before))
  <2> HIDE DEF before
  <2> QED
    BY <1>1, LatestExists
<1>3. LatestOf(before) \in LastBeforeLoss(k)
  BY <1>2 DEF LastBeforeLoss
<1>4. c.day <= LatestOf(before).day
  <2>1. c \in ChangeRows /\ LatestOf(before) \in ChangeRows
    BY <1>1, <1>2
  <2> HIDE DEF before
  <2>2. CASE c = LatestOf(before)
    <3>1. c.day \in Nat
      BY <2>1, RowTyped
    <3> QED
      BY <2>2, <3>1
  <2>3. CASE c # LatestOf(before)
    BY <1>1, <1>2, <2>1, <2>3, BeforeOrders
  <2> QED
    BY <2>2, <2>3
<1> QED
  BY <1>3, <1>4

\* The claim R6 speaks of is one that hits.
LEMMA LastClaim ==
  ASSUME DatasetTypeOK, HistoryAssumption, DatesInv, NEW match \in R6
  PROVE  /\ match.code = "claim_near_new_limit"
         /\ \E k \in DOMAIN claims : /\ match.claim = {k} /\ AtOrNearLimit(k)
                                     /\ match.change \in Raises(k) /\ match.on = claims[k].loss
<1> DEFINE hits == {k \in DOMAIN claims : AtOrNearLimit(k) /\ Raises(k) # {}}
           Last(k) == \A j \in hits : \/ claims[j].loss < claims[k].loss
                                      \/ claims[j].loss = claims[k].loss /\ j <= k
           last == CHOOSE k \in hits : Last(k)
           f == [k \in hits |-> DAY_ANCHOR - claims[k].loss]
           g == [k \in hits |-> Len(claims) - k]
<1>1. hits # {} /\ match = [code |-> "claim_near_new_limit", on |-> claims[last].loss,
                            change |-> LatestOf(Raises(last)), claim |-> {last}]
  BY DEF R6
<1>2. ASSUME NEW k \in hits
      PROVE  /\ k \in DOMAIN claims /\ k \in Nat /\ claims[k].loss \in Nat
             /\ DAY_ANCHOR - claims[k].loss \in Nat /\ Len(claims) - k \in Nat
  <2>1. k \in DOMAIN claims /\ claims[k].loss \in Days
    BY ClaimTyped
  <2>2. k \in 1..Len(claims) /\ Len(claims) \in Nat
    <3>1. claims \in Seq(ClaimSet)
      BY TablesTyped
    <3> QED
      BY <2>1, <3>1
  <2>3. DAY_ANCHOR \in Nat
    BY DEF HistoryAssumption
  <2> QED
    BY <2>1, <2>2, <2>3 DEF Days
<1>3. f \in [hits -> Nat] /\ g \in [hits -> Nat]
  BY <1>2
<1>4. PICK k \in hits : \A j \in hits : f[k] < f[j] \/ (f[k] = f[j] /\ g[k] <= g[j])
  <2>1. hits # {}
    BY <1>1
  <2> HIDE DEF hits, f, g, last
  <2> QED
    BY <1>3, <2>1, LeastByTwo
<1>5. Last(k)
  <2> SUFFICES ASSUME NEW j \in hits
               PROVE  \/ claims[j].loss < claims[k].loss
                      \/ claims[j].loss = claims[k].loss /\ j <= k
    OBVIOUS
  <2>1. /\ f[k] = DAY_ANCHOR - claims[k].loss /\ f[j] = DAY_ANCHOR - claims[j].loss
        /\ g[k] = Len(claims) - k /\ g[j] = Len(claims) - j
    OBVIOUS
  <2>2. f[k] < f[j] \/ (f[k] = f[j] /\ g[k] <= g[j])
    BY <1>4
  <2>3. DAY_ANCHOR \in Nat /\ Len(claims) \in Nat
    <3>1. claims \in Seq(ClaimSet)
      BY TablesTyped
    <3> QED
      BY <3>1 DEF HistoryAssumption
  <2>4. k \in Nat /\ j \in Nat /\ claims[k].loss \in Nat /\ claims[j].loss \in Nat
    BY <1>2
  <2> HIDE DEF f, g
  <2> QED
    BY <2>1, <2>2, <2>3, <2>4
<1> HIDE DEF Last
<1>6. last \in hits
  BY <1>5
<1>7. Raises(last) \in SUBSET ChangeRows /\ Raises(last) # {}
  BY <1>6 DEF Raises
<1>8. LatestOf(Raises(last)) \in Raises(last)
  BY <1>7, LatestExists
<1> HIDE DEF last
<1> QED
  BY <1>1, <1>6, <1>8

\* A change on a line is one of its limit or of its deductible.
LEMMA LineRowsMaterial ==
  ASSUME DatasetTypeOK, HistoryAssumption, NEW c \in ChangeRows, c.line # NoLine
  PROVE  c \in Material(ChangeRows) /\ c.category \in {"coverage", "deductible"}
  BY RowTyped DEF Material, MATERIAL_CATEGORIES

\* The pipeline's own words for a match, rule by rule.
LEMMA MatchRule ==
  ASSUME DatasetTypeOK, HistoryAssumption, DatesInv, NEW match \in PatternMatches
  PROVE  \/ match \in R6 /\ match.code = "claim_near_new_limit"
         \/ /\ match.code = "coverage_raised_then_claimed_same_line"
            /\ match.change \in ChangeRows /\ match.claim = LinkedClaim(match.change)
            /\ match.change.category = "coverage" /\ match.change.direction = "increase"
            /\ LinkedBeforeLoss(match.change, PATTERN_CLAIM_WINDOW_DAYS)
            /\ \E k \in match.claim : RelatesToClaimed(match.change, k)
         \/ /\ match.code = "deductible_lowered_before_claim"
            /\ match.change \in ChangeRows /\ match.claim = LinkedClaim(match.change)
            /\ match.change.category = "deductible" /\ match.change.direction = "decrease"
            /\ LinkedBeforeLoss(match.change, PATTERN_CLAIM_WINDOW_DAYS)
         \/ /\ match.code = "change_in_loss_report_gap"
            /\ match.change \in Material(ChangeRows) /\ match.claim = LinkedClaim(match.change)
            /\ \E k \in match.claim : ChangeTiming(match.change, k) = "after_loss_before_report"
         \/ match.code \notin ClaimRules /\ match.claim = {} /\ match.change \in ChangeRows
<1>1. CASE match \in R1
  BY <1>1, EmitsLatest DEF R1, ClaimRules
<1>2. CASE match \in R2
  BY <1>2, EmitsLatest DEF R2, ClaimRules
<1>3. CASE match \in R3
  <2>1. Material(ChangeRows) \subseteq ChangeRows
    BY DEF Material
  <2> QED
    BY <1>3, <2>1, EmitsLatest DEF R3, ClaimRules
<1>4. CASE match \in R4
  <2> DEFINE span == DensestSpan(Material(ChangeRows))
             hits == IF Cardinality(span) >= PATTERN_CLUSTER_MIN_CHANGES THEN span ELSE {}
  <2>1. hits \in SUBSET ChangeRows
    BY DEF DensestSpan, SpanFrom, Material
  <2>2. match \in EmitLatest("rapid_change_cluster", hits)
    BY <1>4 DEF R4
  <2> HIDE DEF hits
  <2>3. match.code = "rapid_change_cluster" /\ match.change \in hits
        /\ match.claim = IF "rapid_change_cluster" \in ClaimRules THEN LinkedClaim(match.change) ELSE {}
    BY <2>1, <2>2, EmitsLatest
  <2> QED
    BY <2>1, <2>3 DEF ClaimRules
<1>5. CASE match \in R5
  BY <1>5, EmitsLatest DEF R5, ClaimRules
<1>6. CASE match \in R6
  BY <1>6, LastClaim
<1> QED
  BY <1>1, <1>2, <1>3, <1>4, <1>5, <1>6 DEF PatternMatches

\* A change linked before the loss of its claim is no more than the window before it.
LEMMA LinkedWithin ==
  ASSUME DatasetTypeOK, HistoryAssumption, NEW c \in ChangeRows, NEW k \in LinkedClaim(c),
         NEW window \in Nat, LinkedBeforeLoss(c, window)
  PROVE  claims[k].loss - window <= c.day /\ c.day <= claims[k].loss
<1>1. LinkedClaim(c) = {k} /\ k \in DOMAIN claims
  BY LinkTyped
<1>2. ChangeTiming(c, k) = "before_loss" /\ DaysToLoss(c, k) <= window
  BY <1>1 DEF LinkedBeforeLoss
<1>3. c.day \in Nat /\ claims[k].loss \in Nat
  BY <1>1, RowTyped, ClaimTyped
<1> QED
  BY <1>2, <1>3 DEF ChangeTiming, DaysToLoss

LEMMA InGap ==
  ASSUME DatasetTypeOK, HistoryAssumption, NEW c \in Material(ChangeRows), NEW k \in LinkedClaim(c),
         ChangeTiming(c, k) = "after_loss_before_report"
  PROVE  c \in MaterialInGap(k)
  BY GapsFollow, LinkTyped DEF GapsAgree, Material

LEMMA MatchesAgree ==
  ASSUME DatasetTypeOK, HistoryAssumption, WindowsAssumption, DatesInv,
         NEW match \in PatternMatches, NEW k \in match.claim
  PROVE  /\ match.code = "coverage_raised_then_claimed_same_line" => RelevantCoverageChange(k)
         /\ match.code = "change_in_loss_report_gap" => match.change \in MaterialInGap(k)
         /\ match.code # "change_in_loss_report_gap" =>
              \E last \in LastBeforeLoss(k) : match.change.day <= last.day
<1> DEFINE c == match.change
           Counted == \E last \in LastBeforeLoss(k) : c.day <= last.day
<1>1. CASE match \in R6 /\ match.code = "claim_near_new_limit"
  <2>1. k \in DOMAIN claims /\ c \in Raises(k)
    BY <1>1, LastClaim
  <2>2. c \in Material(ChangeRows) /\ c.day <= claims[k].loss
    BY <2>1 DEF Raises, Material, MATERIAL_CATEGORIES
  <2>3. Counted
    BY <2>1, <2>2, CountedBack
  <2> QED
    BY <1>1, <2>3
<1>2. PATTERN_CLAIM_WINDOW_DAYS \in Nat /\ RELEVANT_CHANGE_DAYS \in Nat
      /\ PATTERN_CLAIM_WINDOW_DAYS <= RELEVANT_CHANGE_DAYS
  BY DEF WindowsAssumption
<1>3. ASSUME c \in ChangeRows, match.claim = LinkedClaim(c),
             c.category \in {"coverage", "deductible"},
             LinkedBeforeLoss(c, PATTERN_CLAIM_WINDOW_DAYS)
      PROVE  /\ k \in DOMAIN claims /\ LinkedClaim(c) = {k} /\ Counted
             /\ claims[k].loss - RELEVANT_CHANGE_DAYS <= c.day /\ c.day <= claims[k].loss
  <2>1. LinkedClaim(c) = {k} /\ k \in DOMAIN claims
    BY <1>3, LinkTyped
  <2>2. claims[k].loss - PATTERN_CLAIM_WINDOW_DAYS <= c.day /\ c.day <= claims[k].loss
    BY <1>2, <1>3, LinkedWithin
  <2>3. c.day \in Nat /\ claims[k].loss \in Nat
    BY <1>3, <2>1, RowTyped, ClaimTyped
  <2>4. claims[k].loss - RELEVANT_CHANGE_DAYS <= c.day
    BY <1>2, <2>2, <2>3
  <2>5. c \in Material(ChangeRows)
    BY <1>3 DEF Material, MATERIAL_CATEGORIES
  <2>6. Counted
    BY <2>1, <2>2, <2>5, CountedBack
  <2> QED
    BY <2>1, <2>2, <2>4, <2>6
<1>4. CASE /\ match.code = "coverage_raised_then_claimed_same_line"
           /\ c \in ChangeRows /\ match.claim = LinkedClaim(c)
           /\ c.category = "coverage"
           /\ LinkedBeforeLoss(c, PATTERN_CLAIM_WINDOW_DAYS)
           /\ \E j \in match.claim : RelatesToClaimed(c, j)
  <2>1. /\ k \in DOMAIN claims /\ LinkedClaim(c) = {k} /\ Counted
        /\ claims[k].loss - RELEVANT_CHANGE_DAYS <= c.day /\ c.day <= claims[k].loss
    BY <1>3, <1>4
  <2>2. c.line = claims[k].line
    BY <1>4, <2>1 DEF RelatesToClaimed
  <2>3. RelevantCoverageChange(k)
    BY <1>4, <2>1, <2>2 DEF RelevantCoverageChange
  <2> QED
    BY <1>4, <2>1, <2>3
<1>5. CASE /\ match.code = "deductible_lowered_before_claim"
           /\ c \in ChangeRows /\ match.claim = LinkedClaim(c)
           /\ c.category = "deductible"
           /\ LinkedBeforeLoss(c, PATTERN_CLAIM_WINDOW_DAYS)
  BY <1>3, <1>5
<1>6. CASE /\ match.code = "change_in_loss_report_gap"
           /\ c \in Material(ChangeRows) /\ match.claim = LinkedClaim(c)
           /\ \E j \in match.claim : ChangeTiming(c, j) = "after_loss_before_report"
  <2>1. LinkedClaim(c) = {k}
    BY <1>6, LinkTyped DEF Material
  <2>2. c \in MaterialInGap(k)
    BY <1>6, <2>1, InGap
  <2> QED
    BY <1>6, <2>2
<1> HIDE DEF c
<1> QED
  BY <1>1, <1>4, <1>5, <1>6, MatchRule DEF c

\* The gap's flag is raised by a row of the gap.
LEMMA GapFlagged ==
  ASSUME DatasetTypeOK, HistoryAssumption, DatesInv, NEW c \in Material(ChangeRows),
         NEW k \in LinkedClaim(c), ChangeTiming(c, k) = "after_loss_before_report"
  PROVE  "change_in_loss_report_gap" \in Flags
<1> DEFINE hits == {d \in Material(ChangeRows) :
                      \E j \in LinkedClaim(d) : ChangeTiming(d, j) = "after_loss_before_report"}
<1>1. hits # {}
  OBVIOUS
<1>2. \E match \in EmitLatest("change_in_loss_report_gap", hits) :
        match.code = "change_in_loss_report_gap"
  <2> HIDE DEF hits
  <2> QED
    BY <1>1 DEF EmitLatest
<1>3. \E match \in PatternMatches : match.code = "change_in_loss_report_gap"
  BY <1>2 DEF R3, PatternMatches
<1> QED
  BY <1>3 DEF Flags

LEMMA WindowsTyped ==
  ASSUME QuestionsAssumption
  PROVE  \A i \in 1..3 : QUESTION_WINDOWS[i] \in Nat
<1>1. ASSUME NEW rows \in Seq(Nat) PROVE \A i \in 1..Len(rows) : rows[i] \in Nat
  OBVIOUS
<1>2. QUESTION_WINDOWS \in Seq(Nat) /\ Len(QUESTION_WINDOWS) = 3
  BY DEF QuestionsAssumption
<1>3. \A i \in 1..Len(QUESTION_WINDOWS) : QUESTION_WINDOWS[i] \in Nat
  BY <1>1, <1>2
<1> QED
  BY <1>2, <1>3

\* The window of a claim covers a Relevant Change before the loss unless it is the last.
LEMMA WindowCovers ==
  ASSUME QuestionsAssumption, NEW k
  PROVE  /\ WindowDays(k) \in Nat
         /\ WindowDays(k) < QUESTION_WINDOWS[3] =>
              \E c \in RelevantChanges(k) :
                0 <= DaysToLoss(c, k) /\ DaysToLoss(c, k) <= WindowDays(k)
<1> DEFINE covering == {i \in 1..3 : \E c \in RelevantChanges(k) :
                          0 <= DaysToLoss(c, k) /\ DaysToLoss(c, k) <= QUESTION_WINDOWS[i]}
           First(i) == \A j \in covering : i <= j
           first == CHOOSE i \in covering \cup {3} : First(i)
<1>1. WindowDays(k) = QUESTION_WINDOWS[first]
  BY DEF WindowDays
<1>2. \E i \in covering \cup {3} : First(i)
  <2>1. covering \in SUBSET Nat
    OBVIOUS
  <2> HIDE DEF covering
  <2>2. CASE covering = {}
    BY <2>2
  <2>3. CASE covering # {}
    BY <2>1, <2>3, LeastNumber
  <2> QED
    BY <2>2, <2>3
<1>3. first \in covering \cup {3}
  <2> HIDE DEF covering, First
  <2> QED
    BY <1>2
<1>4. \A i \in 1..3 : QUESTION_WINDOWS[i] \in Nat
  BY WindowsTyped
<1> HIDE DEF first
<1>5. first \in 1..3
  BY <1>3
<1>6. WindowDays(k) \in Nat
  BY <1>1, <1>4, <1>5
<1>7. ASSUME WindowDays(k) < QUESTION_WINDOWS[3] PROVE first \in covering
  BY <1>1, <1>3, <1>6, <1>7
<1> QED
  BY <1>1, <1>6, <1>7

LEMMA BriefFits ==
  ASSUME DatasetTypeOK, HistoryAssumption, WindowsAssumption, QuestionsAssumption,
         DatesInv, BooksInv
  PROVE  BriefFitsTables
<1> SUFFICES ASSUME NEW k \in DOMAIN claims
             PROVE  LET situation == DetectSituation(k)
                    IN /\ situation = "relevant_in_gap" =>
                            MaterialInGap(k) # {} /\ "change_in_loss_report_gap" \in Flags
                       /\ situation = "relevant_before_loss"
                            /\ WindowDays(k) <= RELEVANT_CHANGE_DAYS => RelevantCoverageChange(k)
                       /\ situation \in {"pattern_only", "nothing_before"}
                            /\ RelevantCoverageChange(k) =>
                            \E j \in DOMAIN claims \ {k} : claims[j].report <= claims[k].report
                       /\ situation = "pattern_only" =>
                            \A match \in MatchesOn(k) :
                              match.code # "coverage_raised_then_claimed_same_line"
                       /\ MaterialCounted(k)
                            = {c \in ClaimPrior(k, SEQUENCE_DAYS) : c.category # "status"}
  BY DEF BriefFitsTables
<1> DEFINE situation == DetectSituation(k)
<1>1. /\ situation = "relevant_in_gap" =>
           \E c \in RelevantChanges(k) : ChangeTiming(c, k) = "after_loss_before_report"
      /\ situation \in {"pattern_only", "nothing_before"} => RelevantChanges(k) = {}
  BY DEF DetectSituation
<1>2. ASSUME NEW c \in RelevantChanges(k)
      PROVE  /\ c \in ChangeRows /\ k \in LinkedClaim(c) /\ c \in Material(ChangeRows)
             /\ c.category \in {"coverage", "deductible"} /\ c.line = claims[k].line
  <2>1. c \in ChangeRows /\ k \in LinkedClaim(c) /\ c.line # NoLine /\ c.line = claims[k].line
    BY DEF RelevantChanges, RelatesToClaimed
  <2> QED
    BY <2>1, LineRowsMaterial
<1>3. ASSUME situation = "relevant_in_gap"
      PROVE  MaterialInGap(k) # {} /\ "change_in_loss_report_gap" \in Flags
  <2>1. PICK c \in RelevantChanges(k) : ChangeTiming(c, k) = "after_loss_before_report"
    BY <1>1, <1>3
  <2>2. c \in Material(ChangeRows) /\ k \in LinkedClaim(c)
    BY <1>2
  <2> QED
    BY <2>1, <2>2, InGap, GapFlagged
<1>4. ASSUME WindowDays(k) <= RELEVANT_CHANGE_DAYS PROVE RelevantCoverageChange(k)
  <2>1. RELEVANT_CHANGE_DAYS \in Nat
    BY DEF WindowsAssumption
  <2>2. WindowDays(k) \in Nat /\ WindowDays(k) < QUESTION_WINDOWS[3]
    <3>1. RELEVANT_CHANGE_DAYS < QUESTION_WINDOWS[3] /\ QUESTION_WINDOWS[3] \in Nat
      <4>1. QUESTION_WINDOWS[3] \in Nat
        BY WindowsTyped
      <4> QED
        BY <4>1 DEF QuestionsAssumption
    <3>2. WindowDays(k) \in Nat
      BY WindowCovers
    <3> QED
      BY <1>4, <2>1, <3>1, <3>2
  <2>3. PICK c \in RelevantChanges(k) :
          0 <= DaysToLoss(c, k) /\ DaysToLoss(c, k) <= WindowDays(k)
    BY <2>2, WindowCovers
  <2>4. c \in ChangeRows
    BY <1>2
  <2>5. c.day \in Nat /\ claims[k].loss \in Nat
    BY <2>4, RowTyped, ClaimTyped
  <2>6. 0 <= claims[k].loss - c.day /\ claims[k].loss - c.day <= WindowDays(k)
    BY <2>3 DEF DaysToLoss
  <2>7. claims[k].loss - RELEVANT_CHANGE_DAYS <= c.day /\ c.day <= claims[k].loss
    BY <1>4, <2>1, <2>2, <2>5, <2>6, SMTT(30)
  <2> QED
    BY <1>2, <2>7 DEF RelevantCoverageChange
<1>5. ASSUME RelevantChanges(k) = {}, RelevantCoverageChange(k)
      PROVE  \E j \in DOMAIN claims \ {k} : claims[j].report <= claims[k].report
  <2>1. PICK c \in ChangeRows : c.line = claims[k].line /\ c.day <= claims[k].loss
    BY <1>5 DEF RelevantCoverageChange
  <2>2. /\ claims[k].loss + REPORT_LAG_MIN_DAYS <= claims[k].report
        /\ REPORT_LAG_MIN_DAYS \in Nat /\ claims[k].loss \in Nat /\ claims[k].report \in Nat
        /\ c.day \in Nat /\ claims[k].line \in Lines /\ claims[k].line # NoLine
    <3>1. claims[k].loss + REPORT_LAG_MIN_DAYS <= claims[k].report
      BY DEF BooksInv
    <3>2. REPORT_LAG_MIN_DAYS \in Nat /\ NoLine \notin Lines
      BY DEF HistoryAssumption
    <3>3. claims[k].loss \in Nat /\ claims[k].report \in Nat /\ claims[k].line \in Lines
      BY ClaimTyped
    <3>4. c.day \in Nat
      BY RowTyped
    <3> HIDE DEF situation
    <3> QED
      BY <3>1, <3>2, <3>3, <3>4
  <2>3. k \in ReportedFrom(c.day)
    <3>1. claims[k].report >= c.day
      BY <2>1, <2>2, SMTT(30)
    <3> QED
      BY <3>1 DEF ReportedFrom
  <2>4. PICK j \in ReportedFrom(c.day) :
          LinkedClaim(c) = {j} /\ claims[j].report <= claims[k].report
    BY <2>3, LinkFollows
  <2>5. k \notin LinkedClaim(c)
    BY <1>5, <2>1, <2>2 DEF RelevantChanges, RelatesToClaimed
  <2> QED
    BY <2>4, <2>5 DEF ReportedFrom
<1>6. ASSUME RelevantChanges(k) = {}, NEW match \in MatchesOn(k)
      PROVE  match.code # "coverage_raised_then_claimed_same_line"
  <2>1. match \in PatternMatches /\ k \in match.claim
    BY DEF MatchesOn
  <2>2. SUFFICES ASSUME match.code = "coverage_raised_then_claimed_same_line" PROVE FALSE
    OBVIOUS
  <2>3. /\ match.change \in ChangeRows /\ match.claim = LinkedClaim(match.change)
        /\ \E j \in match.claim : RelatesToClaimed(match.change, j)
    BY <2>1, <2>2, MatchRule DEF ClaimRules
  <2>4. match.claim = {k}
    BY <2>1, <2>3, LinkTyped
  <2>5. match.change \in RelevantChanges(k)
    BY <2>3, <2>4 DEF RelevantChanges
  <2> QED
    BY <1>6, <2>5
<1>7. MaterialCounted(k) = {c \in ClaimPrior(k, SEQUENCE_DAYS) : c.category # "status"}
  BY DEF MaterialCounted, SequenceChanges, ClaimPrior, PriorMaterial, Material, ChangeEvent
<1> HIDE DEF situation
<1> QED
  BY <1>1, <1>3, <1>4, <1>5, <1>6, <1>7 DEF situation

LEMMA EvidenceFollows ==
  ASSUME DatasetTypeOK, HistoryAssumption, WindowsAssumption, QuestionsAssumption,
         DatesInv, BooksInv
  PROVE  EvidenceAgrees
  BY LinksFollowTime, MatchesAgree, BriefFits DEF EvidenceAgrees

\* A match, the claim it names, the claim's own columns and the Brief that is
\* built from them speak of the same changes (_link_claim, build_claim_event,
\* build_policy_pattern_match, questions.py), whichever policies, claims and
\* windows there are.
THEOREM EvidenceAlwaysAgrees == Spec => []EvidenceAgrees
<1>1. PolicyInv => EvidenceAgrees
  BY EvidenceFollows, HistoryAssumption, WindowsAssumption, QuestionsAssumption
  DEF PolicyInv, HistoryInv, RoundTripInv
<1> QED
  BY <1>1, PolicyHolds, PTL

-----------------------------------------------------------------------------
(* Snapshots. *)

\* Every vehicle but the first came with a vehicle change, and a policy starts active.
StartInv ==
  /\ history[1].status = "active"
  /\ {day \in {vehicles[i].added : i \in DOMAIN vehicles} : day > 0}
       = {c.day : c \in {d \in changes : d.category = "vehicle"}}

LEMMA StartInit == ASSUME Inception(Limits, Deductibles) PROVE StartInv
<1>1. history[1].status = "active"
  BY DEF Inception
<1>2. {vehicles[i].added : i \in DOMAIN vehicles} = {0}
  BY DEF Inception
<1>3. changes = {}
  BY DEF Inception
<1> QED
  BY <1>1, <1>2, <1>3 DEF StartInv

\* A vehicle change of the day adds a vehicle with that day, and nothing else does.
LEMMA VehicleAdded ==
  ASSUME DatasetTypeOK, NEW day, NEW today, Boundary(day, today)
  PROVE  {vehicles'[i].added : i \in DOMAIN vehicles'}
           = {vehicles[i].added : i \in DOMAIN vehicles}
               \cup (IF Key("vehicle", NoLine) \in today THEN {day} ELSE {})
<1> DEFINE V == [added : Days, removed : Days \cup {FAR_FUTURE}]
           n == Len(vehicles)
<1>1. vehicles \in Seq(V) /\ n \in Nat
  BY DEF DatasetTypeOK
<1>2. CASE Key("vehicle", NoLine) \notin today
  BY <1>2 DEF Boundary
<1>3. CASE Key("vehicle", NoLine) \in today
  <2> DEFINE closed == [vehicles EXCEPT ![n].removed = day]
             new    == [added |-> day, removed |-> FAR_FUTURE]
  <2>1. vehicles' = Append(closed, new)
    BY <1>3 DEF Boundary
  <2>2. vehicles \in [1..n -> V] /\ DOMAIN vehicles = 1..n
    <3> HIDE DEF V
    <3> QED
      BY <1>1
  <2>3. DOMAIN closed = 1..n /\ \A i \in 1..n : closed[i].added = vehicles[i].added
    <3>1. \A v \in V : [v EXCEPT !.removed = day].added = v.added
      OBVIOUS
    <3> QED
      BY <2>2, <3>1
  <2>4. Len(closed) = n
    BY <1>1, <2>3
  <2> HIDE DEF closed, n, V
  <2>5. /\ DOMAIN vehicles' = 1..(n + 1) /\ vehicles'[n + 1] = new
        /\ \A i \in 1..n : vehicles'[i] = closed[i]
    <3>1. vehicles' = [i \in 1..(n + 1) |-> IF i <= n THEN closed[i] ELSE new]
      BY <1>1, <2>1, <2>4
    <3> HIDE DEF new
    <3> QED
      BY <1>1, <3>1
  <2>6. \A i \in 1..n : vehicles'[i].added = vehicles[i].added
    BY <2>3, <2>5
  <2>7. vehicles'[n + 1].added = day
    BY <2>5
  <2>8. \A i : i \in 1..(n + 1) <=> i \in 1..n \/ i = n + 1
    BY <1>1
  <2> QED
    BY <1>3, <2>2, <2>5, <2>6, <2>7, <2>8
<1> QED
  BY <1>2, <1>3

LEMMA StartKept ==
  ASSUME DatasetTypeOK, HistoryAssumption, StartInv, NEW day \in Days,
         NEW today \in SUBSET (PolicyKeys \cup LineKeys), Boundary(day, today)
  PROVE  StartInv'
<1>1. PICK location \in Locations, agent \in Agents,
           limit \in [Lines -> Limits], deductible \in [DeductibleLines -> Deductibles] :
        Writes(day, today, location, agent, limit, deductible)
  BY BoundaryWrites
<1>2. history'[1] = history[1]
  <2>1. history' = Append(history, NewVersion(day, today, location, agent))
    BY <1>1 DEF Writes
  <2>2. PICK n : history \in Seq(Versions(n)) /\ history # <<>>
    BY TablesTyped
  <2> QED
    BY <2>1, <2>2
<1>3. day > 0 /\ day \in Nat
  <2>1. Current.from \in Nat /\ day \in Nat
    BY CurrentTyped DEF Versions, Days
  <2> QED
    BY <2>1 DEF Boundary
<1> DEFINE added == {vehicles[i].added : i \in DOMAIN vehicles}
           of(set) == {d \in set : d.category = "vehicle"}
           made == Applied(day, today, limit, deductible)
<1>4. added' = added \cup (IF Key("vehicle", NoLine) \in today THEN {day} ELSE {})
  BY VehicleAdded
<1>5. ASSUME NEW x PROVE x \in of(made) <=>
        /\ Key("vehicle", NoLine) \in today
        /\ x = [day |-> day, category |-> "vehicle", line |-> NoLine, direction |-> "switch"]
  BY InApplied DEF Switched
<1>6. of(changes') = of(changes) \cup of(made)
  BY <1>1 DEF Writes
<1>7. {c.day : c \in of(changes')}
        = {c.day : c \in of(changes)}
            \cup (IF Key("vehicle", NoLine) \in today THEN {day} ELSE {})
  <2> DEFINE row == [day |-> day, category |-> "vehicle", line |-> NoLine, direction |-> "switch"]
  <2>1. row.day = day
    OBVIOUS
  <2> HIDE DEF of, made, row
  <2>2. CASE Key("vehicle", NoLine) \in today
    <3>1. of(changes') = of(changes) \cup {row}
      BY <1>5, <1>6, <2>2 DEF row
    <3> QED
      BY <2>1, <2>2, <3>1
  <2>3. CASE Key("vehicle", NoLine) \notin today
    <3>1. of(changes') = of(changes)
      BY <1>5, <1>6, <2>3
    <3> QED
      BY <2>3, <3>1
  <2> QED
    BY <2>2, <2>3
<1>8. {d \in added : d > 0} = {c.day : c \in of(changes)}
  BY DEF StartInv
<1>9. {d \in added' : d > 0} = {c.day : c \in of(changes')}
  <2> HIDE DEF of, added
  <2> QED
    BY <1>3, <1>4, <1>7, <1>8
<1> QED
  BY <1>2, <1>9 DEF StartInv

LEMMA StartSettles == ASSUME StartInv, BuildClaims \/ UNCHANGED vars PROVE StartInv'
<1>1. UNCHANGED <<history, vehicles, changes>>
  BY DEF BuildClaims, vars
<1> QED
  BY <1>1 DEF StartInv

LEMMA VehicleRows ==
  ASSUME ChangesRoundTrip, StartInv, DatesInv
  PROVE  AddedOn = {c.day : c \in {d \in Material(ChangeRows) : d.category = "vehicle"}}
<1>1. {d \in changes : d.category = "vehicle"} = {d \in Material(ChangeRows) : d.category = "vehicle"}
  <2>1. "vehicle" \in MATERIAL_CATEGORIES
    BY DEF MATERIAL_CATEGORIES
  <2> QED
    BY <2>1, MaterialChanges
<1>2. history[1].from = 0
  BY DEF DatesInv, Ascends
<1> QED
  BY <1>1, <1>2 DEF StartInv, AddedOn

LEMMA ReinstatementShows ==
  ASSUME DatasetTypeOK, HistoryAssumption, StartInv, NEW day \in ReinstatedOn
  PROVE  \E c \in Material(ChangeRows) : c.category = "status" /\ c.day = day
<1>1. PICK j \in DOMAIN history : /\ day = history[j].from /\ history[j].status = "reinstated"
                                  /\ j > 1 => history[j - 1].status # "reinstated"
  BY DEF ReinstatedOn
<1>2. history[1].status # "reinstated"
  BY DEF StartInv
<1>3. j \in 1..Len(history) /\ Len(history) \in Nat
  <2>1. PICK n : history \in Seq(Versions(n))
    BY TablesTyped
  <2> QED
    BY <2>1
<1>4. j # 1 /\ j > 1
  BY <1>1, <1>2, <1>3
<1>5. j - 1 \in 1..(Len(history) - 1) /\ (j - 1) + 1 = j
  BY <1>3, <1>4
<1> DEFINE c == PolicyRow("status", history[j - 1], history[j])
<1>6. c.category = "status" /\ c.day = day /\ c.line = NoLine
  BY <1>1 DEF PolicyRow
<1>7. Column["status"] = "status" /\ "status" \in DOMAIN Column
  BY DEF Column
<1>8. history[j - 1]["status"] # history[j]["status"]
  BY <1>1, <1>4
<1> HIDE DEF c
<1>9. ShowsPolicy(c)
  BY <1>5, <1>6, <1>7, <1>8 DEF ShowsPolicy, c
<1>10. c \in Material(ChangeRows)
  BY <1>6, <1>9, RowShape DEF Material, MATERIAL_CATEGORIES
<1> QED
  BY <1>6, <1>10

LEMMA PriorWindowsTyped ==
  ASSUME ExpectationsAssumption
  PROVE  /\ DOMAIN PRIOR_WINDOWS = 1..3 /\ \A i \in 1..3 : PRIOR_WINDOWS[i] \in Nat
         /\ PRIOR_WINDOWS[1] < PRIOR_WINDOWS[2] /\ PRIOR_WINDOWS[2] < PRIOR_WINDOWS[3]
<1>1. ASSUME NEW rows \in Seq(Nat)
      PROVE  DOMAIN rows = 1..Len(rows) /\ \A i \in 1..Len(rows) : rows[i] \in Nat
  OBVIOUS
<1>2. PRIOR_WINDOWS \in Seq(Nat) /\ Len(PRIOR_WINDOWS) = 3
  BY DEF ExpectationsAssumption
<1>3. PRIOR_WINDOWS[1] < PRIOR_WINDOWS[2] /\ PRIOR_WINDOWS[2] < PRIOR_WINDOWS[3]
  BY DEF ExpectationsAssumption
<1> QED
  BY <1>1, <1>2, <1>3

LEMMA ContextFollows ==
  ASSUME DatasetTypeOK, ChangesRoundTrip, HistoryAssumption, ExpectationsAssumption,
         DatesInv, StartInv
  PROVE  ContextAgrees
<1> DEFINE rows == Material(ChangeRows)
<1>1. ASSUME NEW k \in DOMAIN claims
      PROVE  /\ VehicleAddedRecently(k) <=>
                  \E c \in rows : c.category = "vehicle" /\ WithinBefore(claims[k].loss, c.day)
             /\ ReinstatedRecently(k) =>
                  \E c \in rows : c.category = "status" /\ WithinBefore(claims[k].loss, c.day)
  <2>1. VehicleAddedRecently(k) <=>
          \E c \in rows : c.category = "vehicle" /\ WithinBefore(claims[k].loss, c.day)
    BY VehicleRows DEF VehicleAddedRecently
  <2>2. ReinstatedRecently(k) =>
          \E c \in rows : c.category = "status" /\ WithinBefore(claims[k].loss, c.day)
    BY ReinstatementShows DEF ReinstatedRecently
  <2> QED
    BY <2>1, <2>2
<1>2. ASSUME NEW k \in DOMAIN claims, PriorClaims(k) = {}, NEW c \in ChangeRows,
             c.day <= claims[k].report
      PROVE  \E j \in LinkedClaim(c) : claims[j].report = claims[k].report
  <2>1. c.day \in Nat /\ claims[k].report \in Nat
    BY RowTyped, ClaimTyped
  <2>2. k \in ReportedFrom(c.day)
    BY <1>2, <2>1 DEF ReportedFrom
  <2>3. PICK j \in ReportedFrom(c.day) :
          LinkedClaim(c) = {j} /\ claims[j].report <= claims[k].report
    BY <2>2, LinkFollows
  <2>4. j \in DOMAIN claims /\ ~(claims[j].report < claims[k].report)
    BY <1>2, <2>3 DEF PriorClaims, ReportedFrom
  <2>5. claims[j].report = claims[k].report
    BY <2>1, <2>3, <2>4, ClaimTyped
  <2> QED
    BY <2>3, <2>5
<1>3. ASSUME NEW k \in DOMAIN claims, NEW i \in DOMAIN PRIOR_WINDOWS, NEW c \in rows,
             k \in LinkedClaim(c)
      PROVE  c \in ClaimPrior(k, PRIOR_WINDOWS[i])
               <=> /\ ChangeTiming(c, k) = "before_loss"
                   /\ DaysToLoss(c, k) <= PRIOR_WINDOWS[i]
  <2>1. c.day \in Nat /\ claims[k].loss \in Nat /\ PRIOR_WINDOWS[i] \in Nat
    <3>1. c \in ChangeRows
      BY DEF Material
    <3> QED
      BY <3>1, RowTyped, ClaimTyped, PriorWindowsTyped
  <2>2. c \in ClaimPrior(k, PRIOR_WINDOWS[i])
          <=> claims[k].loss - PRIOR_WINDOWS[i] <= c.day /\ c.day <= claims[k].loss
    BY DEF ClaimPrior, PriorMaterial
  <2> QED
    BY <2>1, <2>2 DEF ChangeTiming, DaysToLoss
<1> HIDE DEF rows
<1> QED
  BY <1>1, <1>2, <1>3 DEF ContextAgrees, rows

\* The row marked current is the one in force on the anchor day.
LEMMA CurrentIsInForce ==
  ASSUME DatasetTypeOK, HistoryAssumption, DatesInv, NEW l \in Lines
  PROVE  CurrentLimits(l) = {LimitAt(l, DAY_ANCHOR)}
<1> DEFINE rows == coverage[l]
           n == Len(rows)
<1>1. rows \in Seq(CoverageVersions) /\ rows # <<>>
  BY TablesTyped DEF DatesInv, Ascends
<1>2. n \in Nat \ {0} /\ DOMAIN rows = 1..n /\ n \in 1..n
  BY <1>1
<1>3. DAY_ANCHOR \in Days /\ DAY_ANCHOR \in Nat
  BY DEF Days, HistoryAssumption
<1>4. PICK i \in DOMAIN rows :
        /\ \A j \in DOMAIN rows : rows[j].from <= DAY_ANCHOR <=> j <= i
        /\ LimitAt(l, DAY_ANCHOR) = rows[i].limit
  BY <1>3, LimitInForce
<1>5. rows[n].from <= DAY_ANCHOR
  <2>1. rows[n] \in CoverageVersions
    BY <1>1, <1>2
  <2> QED
    BY <1>3, <2>1 DEF CoverageVersions, Days
<1> HIDE DEF n
<1>6. i = n
  BY <1>2, <1>4, <1>5
<1>7. {j \in DOMAIN rows : IsCurrent(rows, j)} = {n}
  BY <1>2 DEF IsCurrent, n
<1> QED
  BY <1>4, <1>6, <1>7 DEF CurrentLimits

LEMMA EmptyNone == Cardinality({}) = 0
  BY FS_EmptySet

\* A rule raises the flag of its own name when and only when it emits.
LEMMA FlagRaised ==
  ASSUME NEW code, NEW hits
  PROVE  /\ \A match \in EmitLatest(code, hits) : match.code = code
         /\ hits # {} <=> \E match \in EmitLatest(code, hits) : match.code = code
<1>1. CASE hits = {}
  BY <1>1 DEF EmitLatest
<1>2. CASE hits # {}
  <2> DEFINE row == [code |-> code, on |-> LatestOf(hits).day, change |-> LatestOf(hits),
                     claim |-> IF code \in ClaimRules THEN LinkedClaim(LatestOf(hits)) ELSE {}]
  <2>1. EmitLatest(code, hits) = {row}
    BY <1>2 DEF EmitLatest
  <2>2. row.code = code
    OBVIOUS
  <2> HIDE DEF row
  <2> QED
    BY <1>2, <2>1, <2>2
<1> QED
  BY <1>1, <1>2

\* The codes of the rules.
LEMMA RuleCodes ==
  ASSUME DatasetTypeOK, HistoryAssumption, DatesInv
  PROVE  /\ \A match \in R1 : match.code = "coverage_raised_then_claimed_same_line"
         /\ \A match \in R2 : match.code = "deductible_lowered_before_claim"
         /\ \A match \in R3 : match.code = "change_in_loss_report_gap"
         /\ \A match \in R4 : match.code = "rapid_change_cluster"
         /\ \A match \in R5 : match.code = "vehicle_and_address_within_60d"
         /\ \A match \in R6 : match.code = "claim_near_new_limit"
<1>1. \A match \in R1 : match.code = "coverage_raised_then_claimed_same_line"
  BY FlagRaised DEF R1
<1>2. \A match \in R2 : match.code = "deductible_lowered_before_claim"
  BY FlagRaised DEF R2
<1>3. \A match \in R3 : match.code = "change_in_loss_report_gap"
  BY FlagRaised DEF R3
<1>4. \A match \in R4 : match.code = "rapid_change_cluster"
  BY FlagRaised DEF R4
<1>5. \A match \in R5 : match.code = "vehicle_and_address_within_60d"
  BY FlagRaised DEF R5
<1> QED
  BY <1>1, <1>2, <1>3, <1>4, <1>5, LastClaim

LEMMA ClusterFlag ==
  ASSUME DatasetTypeOK, HistoryAssumption, WindowsAssumption, DatesInv
  PROVE  "rapid_change_cluster" \in Flags <=> Peak >= PATTERN_CLUSTER_MIN_CHANGES
<1> DEFINE span == DensestSpan(Material(ChangeRows))
           hits == IF Cardinality(span) >= PATTERN_CLUSTER_MIN_CHANGES THEN span ELSE {}
<1>1. "rapid_change_cluster" \in Flags <=> \E match \in R4 : match.code = "rapid_change_cluster"
  BY RuleCodes DEF Flags, PatternMatches
<1>2. (\E match \in R4 : match.code = "rapid_change_cluster") <=> hits # {}
  <2>1. R4 = EmitLatest("rapid_change_cluster", hits)
    BY DEF R4
  <2> HIDE DEF hits
  <2> QED
    BY <2>1, FlagRaised
<1>3. hits # {} <=> Peak >= PATTERN_CLUSTER_MIN_CHANGES
  <2>1. PATTERN_CLUSTER_MIN_CHANGES \in Nat \ {0} /\ Peak = Cardinality(span)
    BY DEF WindowsAssumption, Peak
  <2> HIDE DEF span
  <2>2. span = {} => Cardinality(span) = 0
    BY EmptyNone
  <2> QED
    BY <2>1, <2>2
<1> QED
  BY <1>1, <1>2, <1>3

\* "none" is said of the coverage when no limit ever moved.
LEMMA NoneMoved ==
  ASSUME DatasetTypeOK, HistoryAssumption, DatesInv
  PROVE  NetCoverageDirection = "none" <=>
           \A l \in Lines : \A i \in DOMAIN coverage[l] : coverage[l][i].limit = coverage[l][1].limit
<1> DEFINE Moves(direction) == {c \in ChangeRows : c.category = "coverage" /\ c.direction = direction}
           up == CoverageMoves("increase")
           down == CoverageMoves("decrease")
<1>1. ASSUME NEW direction
      PROVE  CoverageMoves(direction) \in Nat /\ (CoverageMoves(direction) = 0 <=> Moves(direction) = {})
  <2>1. IsFiniteSet(Moves(direction))
    <3>1. Moves(direction) \in SUBSET ChangeRows
      OBVIOUS
    <3> QED
      BY <3>1, RowsFinite, FS_Subset
  <2>2. CoverageMoves(direction) = Cardinality(Moves(direction))
    BY DEF CoverageMoves
  <2> HIDE DEF Moves
  <2> QED
    BY <2>1, <2>2, FS_EmptySet, FS_CardinalityType
<1>2. NetCoverageDirection = "none" <=> up = 0 /\ down = 0
  <2>1. NetCoverageDirection = CASE up = 0 /\ down = 0 -> "none" [] up > down -> "increase"
                                 [] down > up -> "decrease" [] OTHER -> "net_zero"
    BY DEF NetCoverageDirection
  <2>2. up \in Nat /\ down \in Nat
    BY <1>1
  <2> HIDE DEF up, down
  <2> QED
    BY <2>1, <2>2
<1>3. ASSUME NEW c \in ChangeRows, c.category = "coverage"
      PROVE  c.direction = "increase" \/ c.direction = "decrease"
  <2>1. ShowsLine(c, "coverage", "limit", Lines)
    BY <1>3, RowShape DEF ShowsPolicy, ShowsLine, Column
  <2> QED
    BY <2>1 DEF ShowsLine, LineRow, ChangeDirection, Direction
<1>4. NetCoverageDirection = "none" <=> \A c \in ChangeRows : c.category # "coverage"
  BY <1>1, <1>2, <1>3
<1>5. ASSUME NEW c \in ChangeRows, c.category = "coverage"
      PROVE  \E l \in Lines : \E i \in DOMAIN coverage[l] : coverage[l][i].limit # coverage[l][1].limit
  <2>1. ShowsLine(c, "coverage", "limit", Lines)
    BY <1>5, RowShape DEF ShowsPolicy, ShowsLine, Column
  <2>2. c.line \in Lines
    BY <2>1 DEF ShowsLine
  <2>3. PICK i \in 1..(Len(coverage[c.line]) - 1) :
          coverage[c.line][i]["limit"] # coverage[c.line][i + 1]["limit"]
    BY <2>1 DEF ShowsLine
  <2>4. i \in DOMAIN coverage[c.line] /\ i + 1 \in DOMAIN coverage[c.line]
    BY <2>2, TablesTyped
  <2> QED
    BY <2>2, <2>3, <2>4
<1>6. ASSUME NEW l \in Lines, NEW h \in DOMAIN coverage[l],
             coverage[l][h].limit # coverage[l][1].limit
      PROVE  \E c \in ChangeRows : c.category = "coverage"
  <2> DEFINE rows == coverage[l]
             moved == {j \in DOMAIN rows : rows[j].limit # rows[1].limit}
  <2>1. rows \in Seq(CoverageVersions) /\ h \in moved
    BY <1>6, TablesTyped
  <2>2. DOMAIN rows = 1..Len(rows) /\ Len(rows) \in Nat
    BY <2>1
  <2>3. moved \in SUBSET Nat /\ moved # {}
    BY <2>1, <2>2
  <2>4. PICK i \in moved : \A j \in moved : i <= j
    <3> HIDE DEF moved
    <3> QED
      BY <2>3, LeastNumber
  <2>5. i \in 1..Len(rows) /\ i # 1
    BY <2>2
  <2>6. i - 1 \in 1..(Len(rows) - 1) /\ i - 1 \in DOMAIN rows /\ (i - 1) + 1 = i /\ ~(i <= i - 1)
    BY <2>2, <2>5
  <2>7. rows[i - 1].limit = rows[1].limit
    BY <2>4, <2>6
  <2>8. rows[i - 1]["limit"] # rows[i]["limit"]
    BY <2>7
  <2> DEFINE c == LineRow("coverage", "limit", l, rows[i - 1], rows[i])
  <2>9. c.category = "coverage" /\ c.line = l
    BY DEF LineRow
  <2> HIDE DEF c
  <2>10. ShowsLine(c, "coverage", "limit", Lines)
    BY <2>6, <2>8, <2>9 DEF ShowsLine, c
  <2> QED
    BY <2>9, <2>10, RowShape
<1> QED
  BY <1>4, <1>5, <1>6

LEMMA ProfileFollows ==
  ASSUME DatasetTypeOK, HistoryAssumption, WindowsAssumption, ExpectationsAssumption, DatesInv
  PROVE  ProfileAgrees
<1>1. ASSUME NEW k \in DOMAIN claims, RelevantCoverageChange(k) PROVE BeforeSomeLoss # {}
  <2>1. PICK c \in ChangeRows : /\ c.category \in {"coverage", "deductible"}
                                /\ claims[k].loss - RELEVANT_CHANGE_DAYS <= c.day
                                /\ c.day <= claims[k].loss
    BY <1>1 DEF RelevantCoverageChange
  <2>2. c \in Material(ChangeRows)
    BY <2>1 DEF Material, MATERIAL_CATEGORIES
  <2> DEFINE w == PRIOR_WINDOWS[2]
  <2>3. c.day \in Nat /\ claims[k].loss \in Nat /\ RELEVANT_CHANGE_DAYS \in Nat
    BY RowTyped, ClaimTyped DEF WindowsAssumption
  <2>4. w \in Nat
    BY PriorWindowsTyped
  <2>5. RELEVANT_CHANGE_DAYS <= w
    BY DEF ExpectationsAssumption
  <2> HIDE DEF w
  <2>6. claims[k].loss - w <= c.day
    BY <2>1, <2>3, <2>4, <2>5, SMTT(30)
  <2>7. c \in ClaimPrior(k, w)
    BY <2>1, <2>2, <2>6 DEF ClaimPrior, PriorMaterial
  <2> QED
    BY <2>7 DEF BeforeSomeLoss, w
<1> QED
  BY <1>1, CurrentIsInForce, ClusterFlag, NoneMoved DEF ProfileAgrees

GoldInv == PolicyInv /\ StartInv

LEMMA GoldStarts ==
  ASSUME Inception(Limits, Deductibles), HistoryAssumption
  PROVE  GoldInv
BY InitRoundTrip, DatesInit, TermInit, BooksInit, StartInit
DEF HistoryInv, PolicyInv, GoldInv

LEMMA GoldKept == ASSUME GoldInv, HistoryAssumption, [Next]_vars PROVE GoldInv'
<1>1. PolicyInv /\ StartInv /\ DatasetTypeOK
  BY DEF GoldInv, PolicyInv, HistoryInv, RoundTripInv
<1>2. PolicyInv'
  BY <1>1, PolicyKept
<1>3. ASSUME NEW day \in Days, NEW today \in SUBSET (PolicyKeys \cup LineKeys),
             Boundary(day, today)
      PROVE  StartInv'
  BY <1>1, <1>3, StartKept
<1>4. BuildClaims \/ UNCHANGED vars => StartInv'
  BY <1>1, StartSettles
<1> QED
  BY <1>2, <1>3, <1>4 DEF Next, GoldInv

\* The start as well, in every state of every history.
THEOREM GoldHolds == Spec => []GoldInv
<1>1. Init => GoldInv
  BY InitIsInception, GoldStarts, HistoryAssumption
<1>2. GoldInv /\ [Next]_vars => GoldInv'
  BY GoldKept, HistoryAssumption
<1> QED
  BY <1>1, <1>2, PTL DEF Spec

\* The claim context and the profile agree with the change rows
\* (build_claim_context, build_policy_profile): a vehicle added after inception
\* is a vehicle change, the current limit is the one of the anchor day, the
\* cluster flag is the peak, and "none" means that no limit ever moved.
THEOREM SnapshotsAlwaysAgree == Spec => []SnapshotsAgree
<1>1. GoldInv => SnapshotsAgree
  BY ContextFollows, ProfileFollows, HistoryAssumption, WindowsAssumption, ExpectationsAssumption
  DEF SnapshotsAgree, GoldInv, PolicyInv, HistoryInv, RoundTripInv
<1> QED
  BY <1>1, GoldHolds, PTL

-----------------------------------------------------------------------------
(* Patterns. *)

LEMMA SubsetOfSize ==
  ASSUME NEW T, IsFiniteSet(T), NEW n \in Nat, n <= Cardinality(T)
  PROVE  \E S \in SUBSET T : Cardinality(S) = n
<1> DEFINE sizes == {m \in Nat : n <= m /\ \E S \in SUBSET T : Cardinality(S) = m}
<1>1. Cardinality(T) \in sizes
  BY FS_CardinalityType
<1>2. PICK m \in sizes : \A h \in sizes : m <= h
  <2>1. sizes \in SUBSET Nat /\ sizes # {}
    BY <1>1
  <2> HIDE DEF sizes
  <2> QED
    BY <2>1, LeastNumber
<1>3. m \in Nat /\ n <= m
  OBVIOUS
<1>4. PICK S \in SUBSET T : Cardinality(S) = m
  OBVIOUS
<1>5. ASSUME n < m PROVE FALSE
  <2>1. IsFiniteSet(S)
    BY FS_Subset
  <2>2. S # {}
    BY <1>3, <1>4, <1>5, EmptyNone
  <2>3. PICK x \in S : TRUE
    BY <2>2
  <2>4. Cardinality(S \ {x}) = m - 1
    BY <1>4, <2>1, <2>3, FS_RemoveElement
  <2>5. m - 1 \in sizes
    BY <1>3, <1>5, <2>4
  <2> HIDE DEF sizes
  <2>6. m <= m - 1
    BY <1>2, <2>5
  <2> QED
    BY <1>3, <2>6
<1>6. n = m
  BY <1>3, <1>5
<1> QED
  BY <1>4, <1>6

\* Of the spans that hold the most one is the first, and it is the densest.
LEMMA DensestExists ==
  ASSUME DatasetTypeOK, HistoryAssumption, DatesInv, NEW rows \in SUBSET ChangeRows, rows # {}
  PROVE  \E s \in rows :
           /\ DensestSpan(rows) = SpanFrom(rows, s)
           /\ \A t \in rows : Cardinality(SpanFrom(rows, t)) <= Cardinality(SpanFrom(rows, s))
<1> DEFINE size == [s \in rows |-> Cardinality(SpanFrom(rows, s))]
           First(s) == \A t \in rows : \/ size[t] < size[s]
                                       \/ size[t] = size[s] /\ ~Before(t, s)
           R == {pair \in rows \X rows : \/ size[pair[1]] < size[pair[2]]
                                         \/ /\ size[pair[1]] = size[pair[2]]
                                            /\ Before(pair[2], pair[1])}
<1>1. IsFiniteSet(rows)
  BY RowsFinite, FS_Subset
<1>2. size \in [rows -> Nat]
  <2>1. ASSUME NEW s \in rows PROVE Cardinality(SpanFrom(rows, s)) \in Nat
    <3>1. SpanFrom(rows, s) \in SUBSET rows
      BY DEF SpanFrom
    <3> QED
      BY <1>1, <3>1, FS_Subset, FS_CardinalityType
  <2> QED
    BY <2>1
<1>3. \A x, y \in rows : <<x, y>> \in R <=> \/ size[x] < size[y]
                                            \/ size[x] = size[y] /\ Before(y, x)
  OBVIOUS
<1>4. /\ \A x \in rows : ~Before(x, x)
      /\ \A x, y, z \in rows : Before(x, y) /\ Before(y, z) => Before(x, z)
      /\ \A x, y \in rows : x # y => Before(x, y) \/ Before(y, x)
  BY BeforeOrders
<1>5. \A s \in rows : size[s] = Cardinality(SpanFrom(rows, s))
  OBVIOUS
<1>6. DensestSpan(rows) = UNION {SpanFrom(rows, s) : s \in {t \in rows : First(t)}}
  BY DEF DensestSpan
<1> HIDE DEF size, R
<1>7. \A x \in rows : <<x, x>> \notin R
  BY <1>2, <1>3, <1>4
<1>8. ASSUME NEW x \in rows, NEW y \in rows, NEW z \in rows, <<x, y>> \in R, <<y, z>> \in R
      PROVE  <<x, z>> \in R
  <2>1. size[x] \in Nat /\ size[y] \in Nat /\ size[z] \in Nat
    BY <1>2
  <2>2. /\ size[x] < size[y] \/ (size[x] = size[y] /\ Before(y, x))
        /\ size[y] < size[z] \/ (size[y] = size[z] /\ Before(z, y))
    BY <1>3, <1>8
  <2>3. size[x] < size[z] \/ (size[x] = size[z] /\ Before(z, y) /\ Before(y, x))
    BY <2>1, <2>2
  <2> QED
    BY <1>3, <1>4, <2>3
<1>9. PICK s \in rows : \A y \in rows : <<s, y>> \notin R
  BY <1>1, <1>7, <1>8, MaximalElement
<1>10. ASSUME NEW t \in rows PROVE size[t] <= size[s] /\ (size[t] = size[s] => ~Before(t, s))
  <2>1. size[t] \in Nat /\ size[s] \in Nat
    BY <1>2
  <2>2. ~(size[s] < size[t]) /\ ~(size[s] = size[t] /\ Before(t, s))
    BY <1>3, <1>9
  <2> QED
    BY <2>1, <2>2
<1>11. First(s)
  BY <1>2, <1>10
<1>12. ASSUME NEW t \in rows, First(t) PROVE t = s
  <2>1. size[t] \in Nat /\ size[s] \in Nat
    BY <1>2
  <2>2. size[s] < size[t] \/ (size[s] = size[t] /\ ~Before(s, t))
    BY <1>12
  <2>3. size[t] <= size[s] /\ (size[t] = size[s] => ~Before(t, s))
    BY <1>10
  <2>4. ~Before(s, t) /\ ~Before(t, s)
    BY <2>1, <2>2, <2>3
  <2> QED
    BY <1>4, <2>4
<1> HIDE DEF First
<1>13. {t \in rows : First(t)} = {s}
  BY <1>11, <1>12
<1>14. DensestSpan(rows) = SpanFrom(rows, s)
  BY <1>6, <1>13
<1>15. \A t \in rows : Cardinality(SpanFrom(rows, t)) <= Cardinality(SpanFrom(rows, s))
  BY <1>5, <1>10
<1> QED
  BY <1>14, <1>15

\* A rapid cluster is that many changes close to each other.
LEMMA ClusterMeans ==
  ASSUME DatasetTypeOK, ChangesRoundTrip, HistoryAssumption, WindowsAssumption, DatesInv
  PROVE  "rapid_change_cluster" \in Flags <=>
           \E cluster \in SUBSET Material(changes) :
             /\ Cardinality(cluster) = PATTERN_CLUSTER_MIN_CHANGES
             /\ \A c, d \in cluster : Distance(c.day, d.day) <= PATTERN_CLUSTER_SPAN_DAYS
<1> DEFINE rows == Material(ChangeRows)
           N == PATTERN_CLUSTER_MIN_CHANGES
           W == PATTERN_CLUSTER_SPAN_DAYS
<1>1. rows = Material(changes)
  BY MaterialChanges DEF Material
<1>2. rows \in SUBSET ChangeRows /\ IsFiniteSet(rows)
  <2>1. rows \in SUBSET ChangeRows
    BY DEF Material
  <2> QED
    BY <2>1, RowsFinite, FS_Subset
<1>3. N \in Nat \ {0} /\ W \in Nat
  BY DEF WindowsAssumption
<1>4. "rapid_change_cluster" \in Flags <=> Peak >= N
  BY ClusterFlag
<1>5. \A c \in rows : c.day \in Nat
  BY <1>2, RowTyped
<1>6. Peak = Cardinality(DensestSpan(rows))
  BY DEF Peak
<1> HIDE DEF rows, N, W
<1>7. ASSUME Peak >= N
      PROVE  \E cluster \in SUBSET rows :
               Cardinality(cluster) = N /\ \A c, d \in cluster : Distance(c.day, d.day) <= W
  <2>1. rows # {}
    <3>1. ASSUME rows = {} PROVE DensestSpan(rows) = {}
      BY <3>1 DEF DensestSpan
    <3>2. ASSUME rows = {} PROVE Peak = 0
      BY <1>6, <3>1, <3>2, EmptyNone
    <3>3. Peak # 0
      BY <1>3, <1>7
    <3> QED
      BY <3>2, <3>3
  <2>2. PICK s \in rows : DensestSpan(rows) = SpanFrom(rows, s)
    BY <1>2, <2>1, DensestExists
  <2>3. SpanFrom(rows, s) \in SUBSET rows
    BY DEF SpanFrom
  <2>4. IsFiniteSet(SpanFrom(rows, s)) /\ Cardinality(SpanFrom(rows, s)) \in Nat
    BY <1>2, <2>3, FS_Subset, FS_CardinalityType
  <2>5. N <= Cardinality(SpanFrom(rows, s)) /\ N \in Nat
    BY <1>3, <1>6, <1>7, <2>2, <2>4
  <2>6. PICK cluster \in SUBSET SpanFrom(rows, s) : Cardinality(cluster) = N
    BY <2>4, <2>5, SubsetOfSize
  <2>7. ASSUME NEW c \in cluster, NEW d \in cluster PROVE Distance(c.day, d.day) <= W
    <3>1. \A x \in cluster : x \in rows /\ (x = s \/ Before(s, x)) /\ x.day - s.day <= W
      BY <2>6 DEF SpanFrom, W
    <3>2. \A x \in cluster : x.day \in Nat /\ s.day <= x.day /\ x.day - s.day <= W
      BY <1>2, <1>5, <3>1, BeforeOrders
    <3>3. c.day \in Nat /\ d.day \in Nat /\ s.day \in Nat
      BY <1>5, <3>2
    <3> QED
      BY <1>3, <3>2, <3>3 DEF Distance
  <2> QED
    BY <2>3, <2>6, <2>7
<1>8. ASSUME NEW cluster \in SUBSET rows, Cardinality(cluster) = N,
             \A c, d \in cluster : Distance(c.day, d.day) <= W
      PROVE  Peak >= N
  <2>1. cluster # {} /\ IsFiniteSet(cluster)
    BY <1>2, <1>3, <1>8, EmptyNone, FS_Subset
  <2> DEFINE R == {pair \in cluster \X cluster : Before(pair[2], pair[1])}
  <2>2. /\ \A x \in cluster : ~Before(x, x)
        /\ \A x, y, z \in cluster : Before(x, y) /\ Before(y, z) => Before(x, z)
        /\ \A x, y \in cluster : x # y => Before(x, y) \/ Before(y, x)
        /\ \A x, y \in cluster : Before(x, y) => x.day <= y.day
    BY <1>2, BeforeOrders
  <2>3. \A x, y \in cluster : <<x, y>> \in R <=> Before(y, x)
    OBVIOUS
  <2> HIDE DEF R
  <2>4. /\ \A x \in cluster : <<x, x>> \notin R
        /\ \A x, y, z \in cluster : <<x, y>> \in R /\ <<y, z>> \in R => <<x, z>> \in R
    BY <2>2, <2>3
  <2>5. PICK s \in cluster : \A y \in cluster : <<s, y>> \notin R
    BY <2>1, <2>4, MaximalElement
  <2>6. ASSUME NEW c \in cluster PROVE c \in SpanFrom(rows, s)
    <3>1. c = s \/ Before(s, c)
      BY <2>2, <2>3, <2>5
    <3>2. c.day \in Nat /\ s.day \in Nat /\ Distance(s.day, c.day) <= W
      BY <1>5, <1>8
    <3>3. s.day <= c.day
      BY <2>2, <3>1, <3>2
    <3>4. c.day - s.day <= W
      BY <1>3, <3>2, <3>3 DEF Distance
    <3> QED
      BY <3>1, <3>4 DEF SpanFrom, W
  <2>7. SpanFrom(rows, s) \in SUBSET rows
    BY DEF SpanFrom
  <2>8. IsFiniteSet(SpanFrom(rows, s))
    BY <1>2, <2>7, FS_Subset
  <2>9. cluster \in SUBSET SpanFrom(rows, s)
    BY <2>6
  <2>10. N <= Cardinality(SpanFrom(rows, s))
    BY <1>8, <2>8, <2>9, FS_Subset
  <2>11. PICK t \in rows : /\ DensestSpan(rows) = SpanFrom(rows, t)
                           /\ Cardinality(SpanFrom(rows, s)) <= Cardinality(SpanFrom(rows, t))
    BY <1>2, DensestExists
  <2>12. SpanFrom(rows, t) \in SUBSET rows
    BY DEF SpanFrom
  <2>13. Cardinality(SpanFrom(rows, t)) \in Nat /\ Cardinality(SpanFrom(rows, s)) \in Nat
    BY <1>2, <2>7, <2>12, FS_Subset, FS_CardinalityType
  <2> QED
    BY <1>3, <1>6, <2>10, <2>11, <2>13
<1> QED
  BY <1>1, <1>4, <1>7, <1>8 DEF N, W

\* Of the rows of another category one is the nearest peer, and none is nearer.
LEMMA NearestExists ==
  ASSUME DatasetTypeOK, HistoryAssumption, DatesInv, NEW c \in ChangeRows, NEW category,
         category # c.category, NEW e \in ChangeRows, e.category = category
  PROVE  \E d \in NearestPeer(c, category) : Distance(d.day, c.day) <= Distance(e.day, c.day)
<1> DEFINE peers == {d \in ChangeRows : d.category = category /\ d # c}
           far == [d \in ChangeRows |-> Distance(d.day, c.day)]
           Nearer(d, f) == far[d] < far[f] \/ (far[d] = far[f] /\ Before(d, f))
           R == {pair \in peers \X peers : Nearer(pair[2], pair[1])}
<1>1. IsFiniteSet(peers) /\ peers \in SUBSET ChangeRows /\ e \in peers
  BY RowsFinite, FS_Subset
<1>2. \A d \in ChangeRows : far[d] = Distance(d.day, c.day)
  OBVIOUS
<1>3. \A d \in ChangeRows : far[d] \in Nat
  BY <1>2, RowTyped DEF Distance
<1>4. /\ \A x \in ChangeRows : ~Before(x, x)
      /\ \A x, y, z \in ChangeRows : Before(x, y) /\ Before(y, z) => Before(x, z)
      /\ \A x, y \in ChangeRows : x # y => Before(x, y) \/ Before(y, x)
  BY BeforeOrders
<1>5. NearestPeer(c, category) = {d \in peers : \A f \in peers : f # d => Nearer(d, f)}
  BY DEF NearestPeer
<1>6. \A x, y \in peers : <<x, y>> \in R <=> Nearer(y, x)
  OBVIOUS
<1> HIDE DEF R, peers, far
<1>7. \A x \in peers : <<x, x>> \notin R
  BY <1>1, <1>3, <1>4, <1>6
<1>8. ASSUME NEW x \in peers, NEW y \in peers, NEW z \in peers, <<x, y>> \in R, <<y, z>> \in R
      PROVE  <<x, z>> \in R
  <2>1. far[x] \in Nat /\ far[y] \in Nat /\ far[z] \in Nat
    BY <1>1, <1>3
  <2>2. Nearer(y, x) /\ Nearer(z, y)
    BY <1>6, <1>8
  <2>3. far[z] < far[x] \/ (far[z] = far[x] /\ Before(z, y) /\ Before(y, x))
    BY <2>1, <2>2
  <2> QED
    BY <1>1, <1>4, <1>6, <2>3
<1>9. peers # {}
  BY <1>1
<1>10. PICK s \in peers : \A y \in peers : <<s, y>> \notin R
  BY <1>1, <1>7, <1>8, <1>9, MaximalElement
<1>11. ASSUME NEW f \in peers, f # s PROVE Nearer(s, f)
  <2>1. far[f] \in Nat /\ far[s] \in Nat
    BY <1>1, <1>3
  <2>2. ~Nearer(f, s)
    BY <1>6, <1>10
  <2>3. Before(f, s) \/ Before(s, f)
    BY <1>1, <1>4, <1>11
  <2> QED
    BY <2>1, <2>2, <2>3
<1>12. s \in NearestPeer(c, category)
  BY <1>5, <1>11
<1>13. far[s] <= far[e]
  <2>1. far[e] \in Nat /\ far[s] \in Nat
    BY <1>1, <1>3
  <2>2. s # e => Nearer(s, e)
    BY <1>1, <1>11
  <2> QED
    BY <2>1, <2>2
<1> QED
  BY <1>1, <1>2, <1>12, <1>13

\* A vehicle and an address change near each other raise the flag, whatever
\* other changes lie between them.
LEMMA VehicleAddressMeans ==
  ASSUME DatasetTypeOK, ChangesRoundTrip, HistoryAssumption, WindowsAssumption, DatesInv
  PROVE  "vehicle_and_address_within_60d" \in Flags <=>
           \E c, d \in changes :
             /\ c.category = "vehicle" /\ d.category = "address"
             /\ Distance(c.day, d.day) <= PATTERN_VEHICLE_ADDRESS_DAYS
<1> DEFINE code == "vehicle_and_address_within_60d"
           W == PATTERN_VEHICLE_ADDRESS_DAYS
           Hit(c) == /\ c.category = "vehicle"
                     /\ \E d \in NearestPeer(c, "address") : Distance(d.day, c.day) <= W
           hits == {c \in ChangeRows : Hit(c)}
<1>1. R5 = EmitLatest(code, hits)
  BY DEF R5
<1>2. hits # {} <=> \E match \in R5 : match.code = code
  <2> HIDE DEF hits
  <2> QED
    BY <1>1, FlagRaised
<1>3. code \in Flags <=> \E match \in R5 : match.code = code
  BY RuleCodes DEF Flags, PatternMatches
<1>4. W \in Nat
  BY DEF WindowsAssumption
<1>5. \A c \in ChangeRows : c.day \in Nat
  BY RowTyped
<1>6. \A c : c.category \in {"vehicle", "address"} => (c \in ChangeRows <=> c \in changes)
  BY MaterialChanges DEF Material, MATERIAL_CATEGORIES
<1> HIDE DEF W
<1>7. ASSUME NEW c \in ChangeRows, Hit(c)
      PROVE  \E d \in changes : d.category = "address" /\ Distance(c.day, d.day) <= W
  <2>1. PICK d \in NearestPeer(c, "address") : Distance(d.day, c.day) <= W
    BY <1>7
  <2>2. d \in ChangeRows /\ d.category = "address"
    BY <1>7, <2>1 DEF NearestPeer
  <2>3. c.day \in Nat /\ d.day \in Nat
    BY <1>5, <2>2
  <2>4. Distance(c.day, d.day) <= W
    BY <1>4, <2>1, <2>3 DEF Distance
  <2> QED
    BY <1>6, <2>2, <2>4
<1>8. ASSUME NEW c \in changes, NEW d \in changes, c.category = "vehicle",
             d.category = "address", Distance(c.day, d.day) <= W
      PROVE  c \in hits
  <2>1. c \in ChangeRows /\ d \in ChangeRows
    BY <1>6, <1>8
  <2>2. c.day \in Nat /\ d.day \in Nat /\ Distance(d.day, c.day) <= W
    BY <1>4, <1>5, <1>8, <2>1 DEF Distance
  <2>3. PICK e \in NearestPeer(c, "address") :
          Distance(e.day, c.day) <= Distance(d.day, c.day)
    BY <1>8, <2>1, NearestExists
  <2>4. e \in ChangeRows
    BY <1>8, <2>3 DEF NearestPeer
  <2>5. e.day \in Nat
    BY <1>5, <2>4
  <2>6. Distance(e.day, c.day) <= W
    BY <1>4, <2>2, <2>3, <2>5 DEF Distance
  <2> QED
    BY <1>8, <2>1, <2>3, <2>6
<1>9. hits # {} => \E c, d \in changes : /\ c.category = "vehicle" /\ d.category = "address"
                                         /\ Distance(c.day, d.day) <= W
  BY <1>6, <1>7
<1> QED
  BY <1>2, <1>3, <1>8, <1>9 DEF W

\* A raise of a line on a day is a limit in force higher than the day before.
LEMMA RaiseShows ==
  ASSUME DatasetTypeOK, HistoryAssumption, DatesInv, NEW l \in Lines, NEW day \in Days
  PROVE  (\E c \in ChangeRows : /\ c.category = "coverage" /\ c.direction = "increase"
                                /\ c.line = l /\ c.day = day)
           <=> day # 0 /\ LimitAt(l, day) > LimitAt(l, day - 1)
<1> DEFINE rows == coverage[l]
<1>1. rows \in Seq(CoverageVersions) /\ Ascends(rows)
  BY TablesTyped DEF DatesInv
<1>2. /\ DOMAIN rows = 1..Len(rows) /\ Len(rows) \in Nat
      /\ \A i \in DOMAIN rows : rows[i].from \in Nat /\ rows[i].limit \in Nat
  <2>1. \A r \in CoverageVersions : r.limit \in Nat
    BY DEF CoverageVersions, HistoryAssumption
  <2> HIDE DEF rows
  <2> QED
    BY <1>1, <2>1, RowsDated
<1>3. rows[1].from = 0 /\ \A i, j \in DOMAIN rows : i < j => rows[i].from < rows[j].from
  BY <1>1 DEF Ascends
<1>4. day \in Nat /\ (day # 0 => day - 1 \in Days)
  BY DEF Days, HistoryAssumption
<1>5. PICK p \in DOMAIN rows : /\ \A j \in DOMAIN rows : rows[j].from <= day <=> j <= p
                               /\ LimitAt(l, day) = rows[p].limit
  BY LimitInForce
<1>6. day # 0 => \E q \in DOMAIN rows : /\ \A j \in DOMAIN rows : rows[j].from <= day - 1 <=> j <= q
                                        /\ LimitAt(l, day - 1) = rows[q].limit
  BY <1>4, LimitInForce
<1>7. ASSUME NEW i \in 1..(Len(rows) - 1), rows[i + 1].from = day
      PROVE  /\ day # 0 /\ LimitAt(l, day) = rows[i + 1].limit
             /\ LimitAt(l, day - 1) = rows[i].limit
  <2> HIDE DEF rows
  <2>1. i \in DOMAIN rows /\ i + 1 \in DOMAIN rows /\ 1 \in DOMAIN rows /\ i \in Nat
    BY <1>2
  <2>2. i + 1 <= p
    BY <1>4, <1>5, <1>7, <2>1
  <2>3. ~(i + 1 < p)
    <3>1. rows[p].from \in Nat /\ rows[p].from <= day /\ p \in Nat
      BY <1>2, <1>5
    <3> QED
      BY <1>3, <1>4, <1>7, <2>1, <3>1
  <2>4. p = i + 1
    BY <1>2, <1>5, <2>2, <2>3
  <2>5. day # 0
    BY <1>2, <1>3, <1>7, <2>1
  <2>6. PICK q \in DOMAIN rows : /\ \A j \in DOMAIN rows : rows[j].from <= day - 1 <=> j <= q
                                 /\ LimitAt(l, day - 1) = rows[q].limit
    BY <1>6, <2>5
  <2>7. rows[i].from < day /\ rows[i].from \in Nat
    BY <1>2, <1>3, <1>7, <2>1, SMTT(30)
  <2>8. i <= q
    BY <1>4, <2>1, <2>6, <2>7
  <2>9. ~(i + 1 <= q)
    BY <1>4, <1>7, <2>1, <2>6
  <2>10. q = i
    BY <1>2, <2>1, <2>8, <2>9
  <2> QED
    BY <1>5, <2>4, <2>5, <2>6, <2>10
<1>8. ASSUME NEW c \in ChangeRows, c.category = "coverage", c.direction = "increase",
             c.line = l, c.day = day
      PROVE  day # 0 /\ LimitAt(l, day) > LimitAt(l, day - 1)
  <2>1. ShowsLine(c, "coverage", "limit", Lines)
    <3>1. "coverage" \notin DOMAIN Column
      BY DEF Column
    <3>2. ~ShowsPolicy(c) /\ ~ShowsLine(c, "deductible", "deductible", DeductibleLines)
      BY <1>8, <3>1 DEF ShowsPolicy, ShowsLine
    <3> QED
      BY <3>2, RowShape
  <2>2. PICK i \in 1..(Len(rows) - 1) :
          /\ rows[i]["limit"] # rows[i + 1]["limit"]
          /\ c = LineRow("coverage", "limit", l, rows[i], rows[i + 1])
    BY <1>8, <2>1 DEF ShowsLine
  <2>3. /\ c.day = rows[i + 1].from
        /\ c.direction = Direction(rows[i].limit, rows[i + 1].limit)
    BY <2>2 DEF LineRow, ChangeDirection
  <2>4. rows[i + 1].limit > rows[i].limit
    BY <1>8, <2>3 DEF Direction
  <2> QED
    BY <1>7, <1>8, <2>3, <2>4
<1>9. ASSUME day # 0, LimitAt(l, day) > LimitAt(l, day - 1)
      PROVE  \E c \in ChangeRows : /\ c.category = "coverage" /\ c.direction = "increase"
                                   /\ c.line = l /\ c.day = day
  <2>1. PICK q \in DOMAIN rows : /\ \A j \in DOMAIN rows : rows[j].from <= day - 1 <=> j <= q
                                 /\ LimitAt(l, day - 1) = rows[q].limit
    BY <1>6, <1>9
  <2>2. rows[p].limit > rows[q].limit
    BY <1>5, <1>9, <2>1
  <2> HIDE DEF rows
  <2>3. p \in 1..Len(rows) /\ q \in 1..Len(rows) /\ rows[p].limit \in Nat /\ rows[q].limit \in Nat
    BY <1>2
  <2>4. q # p
    BY <2>2, <2>3
  <2>5. q <= p
    <3>1. rows[q].from \in Nat /\ rows[q].from <= day - 1
      BY <1>2, <2>1, <2>3
    <3> QED
      BY <1>4, <1>5, <3>1
  <2>6. q + 1 \in 1..Len(rows) /\ q + 1 <= p /\ q \in 1..(Len(rows) - 1)
    BY <1>2, <2>3, <2>4, <2>5
  <2>7. rows[q + 1].from \in Nat /\ rows[q + 1].from <= day
    BY <1>2, <1>5, <2>6
  <2>8. ~(rows[q + 1].from <= day - 1)
    BY <1>2, <2>1, <2>3, <2>6
  <2>9. rows[q + 1].from = day
    BY <1>4, <2>7, <2>8
  <2>10. LimitAt(l, day) = rows[q + 1].limit
    BY <1>7, <2>6, <2>9
  <2>11. rows[q + 1].limit > rows[q].limit /\ rows[q + 1].limit \in Nat
    BY <1>2, <1>9, <2>1, <2>6, <2>10
  <2>12. rows[q]["limit"] # rows[q + 1]["limit"]
    BY <2>3, <2>11
  <2> DEFINE c == LineRow("coverage", "limit", l, rows[q], rows[q + 1])
  <2>13. /\ c.category = "coverage" /\ c.line = l /\ c.day = day
         /\ c.direction = Direction(rows[q].limit, rows[q + 1].limit)
    BY <2>9 DEF LineRow, ChangeDirection
  <2> HIDE DEF c
  <2>14. c.direction = "increase"
    BY <2>11, <2>13 DEF Direction
  <2>15. ShowsLine(c, "coverage", "limit", Lines)
    BY <2>6, <2>12, <2>13 DEF ShowsLine, c, rows
  <2> QED
    BY <2>13, <2>14, <2>15, RowShape
<1> QED
  BY <1>8, <1>9

\* A limit higher than the day before, within the window of a claim that comes
\* near it.
LEMMA NearLimitMeans ==
  ASSUME DatasetTypeOK, HistoryAssumption, WindowsAssumption, DatesInv
  PROVE  "claim_near_new_limit" \in Flags <=>
           \E k \in DOMAIN claims :
             LET At(day) == LimitAt(claims[k].line, day)
             IN /\ claims[k].amount * 100 >= AT_OR_NEAR_LIMIT_PCT * At(claims[k].loss)
                /\ \E day \in 1..claims[k].loss :
                     /\ claims[k].loss - PATTERN_LIMIT_RAISED_WINDOW_DAYS <= day
                     /\ At(day) > At(day - 1)
<1> DEFINE W == PATTERN_LIMIT_RAISED_WINDOW_DAYS
           At(k, day) == LimitAt(claims[k].line, day)
           hits == {k \in DOMAIN claims : AtOrNearLimit(k) /\ Raises(k) # {}}
           Near(k) == claims[k].amount * 100 >= AT_OR_NEAR_LIMIT_PCT * At(k, claims[k].loss)
           Raised(k) == \E day \in 1..claims[k].loss : /\ claims[k].loss - W <= day
                                                       /\ At(k, day) > At(k, day - 1)
<1>1. "claim_near_new_limit" \in Flags <=> \E match \in R6 : match.code = "claim_near_new_limit"
  BY RuleCodes DEF Flags, PatternMatches
<1>2. (\E match \in R6 : match.code = "claim_near_new_limit") <=> hits # {}
  <2>1. hits = {} => R6 = {}
    BY DEF R6
  <2>2. hits # {} => R6 # {}
    BY DEF R6
  <2> QED
    BY <2>1, <2>2, RuleCodes
<1>3. ASSUME NEW k \in DOMAIN claims PROVE AtOrNearLimit(k) <=> Near(k)
  <2>1. ApplicableLimits(k) = {At(k, claims[k].loss)}
    BY LimitsApply
  <2>2. PICK i \in DOMAIN coverage[claims[k].line] :
          At(k, claims[k].loss) = coverage[claims[k].line][i].limit
    BY ClaimTyped, LimitInForce
  <2>3. coverage[claims[k].line] \in Seq(CoverageVersions)
    BY ClaimTyped, TablesTyped
  <2>4. coverage[claims[k].line][i].limit \in Limits
    <3> DEFINE rows == coverage[claims[k].line]
    <3> HIDE DEF rows
    <3>1. rows \in Seq(CoverageVersions) /\ i \in DOMAIN rows
      BY <2>2, <2>3 DEF rows
    <3>2. rows[i] \in CoverageVersions
      BY <3>1
    <3>3. rows[i].limit \in Limits
      BY <3>2 DEF CoverageVersions
    <3> QED
      BY <3>3 DEF rows
  <2>5. At(k, claims[k].loss) # 0
    BY <2>2, <2>4 DEF HistoryAssumption
  <2> QED
    BY <2>1, <2>5 DEF AtOrNearLimit
<1>4. ASSUME NEW k \in DOMAIN claims PROVE Raises(k) # {} <=> Raised(k)
  <2>1. claims[k].line \in Lines /\ claims[k].loss \in Nat /\ claims[k].loss \in Days
    BY ClaimTyped
  <2>2. W \in Nat
    BY DEF WindowsAssumption
  <2>3. ASSUME NEW c \in Raises(k) PROVE Raised(k)
    <3>1. /\ c \in ChangeRows /\ c.category = "coverage" /\ c.direction = "increase"
          /\ c.line = claims[k].line /\ claims[k].loss - W <= c.day /\ c.day <= claims[k].loss
      BY DEF Raises
    <3>2. c.day \in Nat /\ c.day \in Days
      BY <3>1, RowTyped
    <3>3. c.day # 0 /\ At(k, c.day) > At(k, c.day - 1)
      BY <2>1, <3>1, <3>2, RaiseShows
    <3>4. c.day \in 1..claims[k].loss
      BY <2>1, <3>1, <3>2, <3>3
    <3> QED
      BY <3>1, <3>3, <3>4
  <2>4. ASSUME NEW day \in 1..claims[k].loss, claims[k].loss - W <= day,
               At(k, day) > At(k, day - 1)
        PROVE  Raises(k) # {}
    <3> DEFINE l == claims[k].line
    <3>1. day \in Days /\ day # 0 /\ day <= claims[k].loss
      BY <2>1 DEF Days, HistoryAssumption
    <3>2. l \in Lines /\ LimitAt(l, day) > LimitAt(l, day - 1)
      BY <2>1, <2>4
    <3> HIDE DEF l
    <3>3. PICK c \in ChangeRows : /\ c.category = "coverage" /\ c.direction = "increase"
                                  /\ c.line = l /\ c.day = day
      <4>1. day # 0 /\ LimitAt(l, day) > LimitAt(l, day - 1)
        BY <3>1, <3>2
      <4> QED
        BY <3>1, <3>2, <4>1, RaiseShows
    <3>4. c \in Raises(k)
      BY <2>4, <3>1, <3>3 DEF Raises, l
    <3> QED
      BY <3>4
  <2> QED
    BY <2>3, <2>4
<1>5. hits # {} <=> \E k \in DOMAIN claims : Near(k) /\ Raised(k)
  BY <1>3, <1>4
<1> QED
  BY <1>1, <1>2, <1>5

\* Three of the patterns mean what their names say, told from what the generator
\* did (ADR-0009): a cluster is that many changes close together, a vehicle and
\* an address change were made close together, a claim came near a limit that
\* was raised within the window before it.
THEOREM PatternsAlwaysMean == Spec => []PatternsMeanWhatTheySay
<1>1. HistoryInv => PatternsMeanWhatTheySay
  BY ClusterMeans, VehicleAddressMeans, NearLimitMeans, HistoryAssumption, WindowsAssumption
  DEF PatternsMeanWhatTheySay, HistoryInv, RoundTripInv
<1> QED
  BY <1>1, HistoryHolds, PTL

-----------------------------------------------------------------------------
(* The expectations: no row of the gold tables breaks one. *)

\* The half-open bands are the first branch of the CASE that is true.
LEMMA BandsAreCases ==
  ASSUME ExpectationsAssumption, NEW amount \in Nat
  PROVE  SeverityBand(amount) = {SeverityCase(amount)}
<1> DEFINE a == SEVERITY_CUTS[1]
           b == SEVERITY_CUTS[2]
           c == SEVERITY_CUTS[3]
           In(j) == /\ j > 1 => SEVERITY_CUTS[j - 1] <= amount
                    /\ j < 4 => amount < SEVERITY_CUTS[j]
<1>1. a \in Nat /\ b \in Nat /\ c \in Nat /\ a < b /\ b < c
  BY DEF ExpectationsAssumption
<1>2. SeverityBand(amount) = {SEVERITY_ORDER[i] : i \in {j \in 1..4 : In(j)}}
  BY DEF SeverityBand
<1>3. /\ In(1) <=> amount < a
      /\ In(2) <=> a <= amount /\ amount < b
      /\ In(3) <=> b <= amount /\ amount < c
      /\ In(4) <=> c <= amount
  OBVIOUS
<1>4. SeverityCase(amount) = IF amount < a THEN "minor" ELSE IF amount < b THEN "moderate"
                             ELSE IF amount < c THEN "severe" ELSE "catastrophic"
  BY DEF SeverityCase
<1>5. /\ SEVERITY_ORDER[1] = "minor" /\ SEVERITY_ORDER[2] = "moderate"
      /\ SEVERITY_ORDER[3] = "severe" /\ SEVERITY_ORDER[4] = "catastrophic"
  BY DEF SEVERITY_ORDER
<1>6. \A j \in 1..4 : j = 1 \/ j = 2 \/ j = 3 \/ j = 4
  OBVIOUS
<1> HIDE DEF a, b, c, In
<1>7. CASE amount < a
  <2>1. {j \in 1..4 : In(j)} = {1}
    BY <1>1, <1>3, <1>6, <1>7
  <2> QED
    BY <1>2, <1>4, <1>5, <1>7, <2>1
<1>8. CASE a <= amount /\ amount < b
  <2>1. {j \in 1..4 : In(j)} = {2}
    BY <1>1, <1>3, <1>6, <1>8
  <2>2. ~(amount < a)
    BY <1>1, <1>8
  <2> QED
    BY <1>2, <1>4, <1>5, <1>8, <2>1, <2>2
<1>9. CASE b <= amount /\ amount < c
  <2>1. {j \in 1..4 : In(j)} = {3}
    BY <1>1, <1>3, <1>6, <1>9
  <2>2. ~(amount < a) /\ ~(amount < b)
    BY <1>1, <1>9
  <2> QED
    BY <1>2, <1>4, <1>5, <1>9, <2>1, <2>2
<1>10. CASE c <= amount
  <2>1. {j \in 1..4 : In(j)} = {4}
    BY <1>1, <1>3, <1>6, <1>10
  <2>2. ~(amount < a) /\ ~(amount < b) /\ ~(amount < c)
    BY <1>1, <1>10
  <2> QED
    BY <1>2, <1>4, <1>5, <2>1, <2>2
<1> QED
  BY <1>1, <1>7, <1>8, <1>9, <1>10

\* A row has old and new numbers exactly when its category has.
LEMMA NumbersShow ==
  ASSUME DatasetTypeOK, HistoryAssumption, NEW c \in ChangeRows
  PROVE  /\ NumericPair(c) = {} <=> c.category \in CATEGORICAL_CATEGORIES
         /\ c.direction \in IF c.category \in CATEGORICAL_CATEGORIES THEN {"switch"}
                            ELSE {"increase", "decrease"}
<1> DEFINE Moved(rows, column) == {<<rows[i][column], rows[i + 1][column]>> :
                                     i \in {j \in 1..(Len(rows) - 1) : rows[j + 1].from = c.day}}
<1>1. \A rows, column : (\E i \in 1..(Len(rows) - 1) : rows[i + 1].from = c.day)
                           => Moved(rows, column) # {}
  OBVIOUS
<1>2. /\ c.category \in CATEGORICAL_CATEGORIES => NumericPair(c) = {}
      /\ c.category = "coverage" => NumericPair(c) = Moved(coverage[c.line], "limit")
      /\ c.category = "deductible" => NumericPair(c) = Moved(coverage[c.line], "deductible")
      /\ c.category = "premium" => NumericPair(c) = Moved(history, "premium")
  BY DEF NumericPair, CATEGORICAL_CATEGORIES
<1> HIDE DEF Moved
<1>3. \A old, new : Direction(old, new) \in {"increase", "decrease"}
  BY DEF Direction
<1>4. CASE ShowsPolicy(c)
  <2>1. PICK i \in 1..(Len(history) - 1) : c = PolicyRow(c.category, history[i], history[i + 1])
    BY <1>4 DEF ShowsPolicy
  <2>2. c.day = history[i + 1].from
    BY <2>1 DEF PolicyRow
  <2>3. \E old, new : c.direction = ChangeDirection(c.category, old, new)
    BY <2>1 DEF PolicyRow
  <2>4. c.category \in CATEGORICAL_CATEGORIES \/ c.category = "premium"
    BY <1>4 DEF ShowsPolicy, Column, CATEGORICAL_CATEGORIES
  <2>5. Moved(history, "premium") # {}
    BY <1>1, <2>2
  <2> QED
    BY <1>2, <1>3, <2>3, <2>4, <2>5 DEF ChangeDirection, CATEGORICAL_CATEGORIES
<1>5. ASSUME NEW category \in {"coverage", "deductible"}, NEW column, NEW lines,
             ShowsLine(c, category, column, lines),
             NumericPair(c) = Moved(coverage[c.line], column)
      PROVE  NumericPair(c) # {} /\ c.direction \in {"increase", "decrease"}
  <2>1. PICK i \in 1..(Len(coverage[c.line]) - 1) :
          c = LineRow(category, column, c.line, coverage[c.line][i], coverage[c.line][i + 1])
    BY <1>5 DEF ShowsLine
  <2>2. c.day = coverage[c.line][i + 1].from
    BY <2>1 DEF LineRow
  <2>3. \E old, new : c.direction = Direction(old, new)
    BY <2>1 DEF LineRow, ChangeDirection
  <2> QED
    BY <1>1, <1>3, <1>5, <2>2, <2>3
<1>6. CASE ShowsLine(c, "coverage", "limit", Lines)
  <2>1. c.category = "coverage"
    BY <1>6 DEF ShowsLine
  <2> QED
    BY <1>2, <1>5, <1>6, <2>1 DEF CATEGORICAL_CATEGORIES
<1>7. CASE ShowsLine(c, "deductible", "deductible", DeductibleLines)
  <2>1. c.category = "deductible"
    BY <1>7 DEF ShowsLine
  <2> QED
    BY <1>2, <1>5, <1>7, <2>1 DEF CATEGORICAL_CATEGORIES
<1> QED
  BY <1>4, <1>6, <1>7, RowShape

\* The seven linkage columns are those of one claim, or all NULL.
LEMMA LinkageOfOne ==
  ASSUME DatasetTypeOK, HistoryAssumption, ExpectationsAssumption,
         NEW c \in ChangeRows, NEW k \in LinkedClaim(c)
  PROVE  Linkage(c) = [next_claim_id             |-> {k},
                       days_to_next_claim_loss   |-> {DaysToLoss(c, k)},
                       days_to_next_claim_report |-> {claims[k].report - c.day},
                       change_timing             |-> {ChangeTiming(c, k)},
                       next_claim_amount         |-> {claims[k].amount},
                       next_claim_severity       |-> {SeverityCase(claims[k].amount)},
                       next_claim_coverage_line  |-> {claims[k].line}]
<1>1. LinkedClaim(c) = {k} /\ k \in DOMAIN claims
  BY LinkTyped
<1>2. SeverityBand(claims[k].amount) = {SeverityCase(claims[k].amount)}
  BY <1>1, ClaimTyped, BandsAreCases
<1> DEFINE Of(column) == {claims[j][column] : j \in {k}}
<1>3. /\ Of("report") = {claims[k].report} /\ Of("amount") = {claims[k].amount}
      /\ Of("line") = {claims[k].line}
  OBVIOUS
<1>4. Linkage(c) = [next_claim_id             |-> {k},
                    days_to_next_claim_loss   |-> {DaysToLoss(c, j) : j \in {k}},
                    days_to_next_claim_report |-> {report - c.day : report \in Of("report")},
                    change_timing             |-> {ChangeTiming(c, j) : j \in {k}},
                    next_claim_amount         |-> Of("amount"),
                    next_claim_severity       |-> UNION {SeverityBand(amount) : amount \in Of("amount")},
                    next_claim_coverage_line  |-> Of("line")]
  BY <1>1 DEF Linkage
<1> HIDE DEF Of
<1>5. /\ {DaysToLoss(c, j) : j \in {k}} = {DaysToLoss(c, k)}
      /\ {ChangeTiming(c, j) : j \in {k}} = {ChangeTiming(c, k)}
  OBVIOUS
<1>6. {report - c.day : report \in Of("report")} = {claims[k].report - c.day}
  BY <1>3
<1>7. UNION {SeverityBand(amount) : amount \in Of("amount")} = {SeverityCase(claims[k].amount)}
  BY <1>2, <1>3
<1> QED
  BY <1>3, <1>4, <1>5, <1>6, <1>7

LEMMA LinkageOfNone ==
  ASSUME NEW c, LinkedClaim(c) = {}
  PROVE  Linkage(c) = [next_claim_id             |-> {},
                       days_to_next_claim_loss   |-> {},
                       days_to_next_claim_report |-> {},
                       change_timing             |-> {},
                       next_claim_amount         |-> {},
                       next_claim_severity       |-> {},
                       next_claim_coverage_line  |-> {}]
  BY DEF Linkage

LEMMA ContextPasses ==
  ASSUME DatasetTypeOK, HistoryAssumption, DatesInv, NEW k \in DOMAIN claims
  PROVE  Broken(ContextExpectations(ClaimContextRow(k))) = {}
<1> DEFINE prior == PriorClaims(k)
           since == DaysSincePriorClaim(k)
<1>1. PolicyAgeAtLoss(k) >= 0
  <2>1. history[1].from = 0
    BY DEF DatesInv, Ascends
  <2>2. claims[k].loss \in Nat
    BY ClaimTyped
  <2> QED
    BY <2>1, <2>2 DEF PolicyAgeAtLoss
<1>2. claims[k].report \in Nat /\ \A j \in prior : /\ j \in DOMAIN claims
                                                   /\ claims[j].report \in Nat
                                                   /\ claims[j].report < claims[k].report
  BY ClaimTyped DEF PriorClaims
<1>3. since = {claims[k].report - claims[j].report :
                 j \in {i \in prior : \A h \in prior : claims[h].report <= claims[i].report}}
  BY DEF DaysSincePriorClaim
<1> HIDE DEF prior, since
<1>4. \A days \in since : days >= 0
  BY <1>2, <1>3
<1>5. ASSUME prior # {} PROVE since # {}
  <2> DEFINE dates == {claims[j].report : j \in prior}
  <2>1. dates \in SUBSET (0..claims[k].report) /\ dates # {}
    BY <1>2, <1>5
  <2>2. PICK n \in dates : \A m \in dates : m <= n
    <3> HIDE DEF dates
    <3> QED
      BY <1>2, <2>1, GreatestNumber
  <2> QED
    BY <1>3, <2>2
<1>6. prior = {} <=> since = {}
  BY <1>3, <1>5
<1>7. IsFiniteSet(prior)
  <2>1. prior \in SUBSET (1..Len(claims)) /\ Len(claims) \in Nat
    BY TablesTyped DEF prior, PriorClaims
  <2>2. IsFiniteSet(1..Len(claims))
    BY <2>1, FS_Interval
  <2> QED
    BY <2>1, <2>2, FS_Subset
<1>8. Cardinality(prior) \in Nat /\ (Cardinality(prior) = 0 <=> prior = {})
  BY <1>7, FS_CardinalityType, FS_EmptySet
<1> DEFINE row == ClaimContextRow(k)
           e23 == /\ row.prior_claims_count >= 0 /\ row.policy_age_at_loss_days >= 0
                  /\ \A days \in row.days_since_prior_claim : days >= 0
           gap == row.prior_claims_count = 0 <=> row.days_since_prior_claim = {}
<1>9. /\ row.prior_claims_count = Cardinality(prior)
      /\ row.policy_age_at_loss_days = PolicyAgeAtLoss(k)
      /\ row.days_since_prior_claim = since
  BY DEF ClaimContextRow, prior, since
<1> HIDE DEF row
<1>10. ContextExpectations(row) = [E23 |-> e23,
         prior_claim_gap_is_null_exactly_when_there_is_no_prior_claim |-> gap]
  BY DEF ContextExpectations
<1>11. e23 /\ gap
  BY <1>1, <1>4, <1>6, <1>8, <1>9
<1> HIDE DEF e23, gap
<1> QED
  BY <1>10, <1>11 DEF Broken, row

LEMMA ChangePasses ==
  ASSUME DatasetTypeOK, HistoryAssumption, ExpectationsAssumption, NEW c \in ChangeRows
  PROVE  Broken(ChangeExpectations(ChangeEventRow(c))) = {}
<1> DEFINE row == Linkage(c)
           categorical == c.category \in CATEGORICAL_CATEGORIES
           e1 == /\ categorical => ChangePct(c) = {}
                 /\ (\A pair \in NumericPair(c) : pair[1] = 0) => ChangePct(c) = {}
           e2 == IF categorical THEN c.direction = "switch"
                 ELSE c.direction \in {"increase", "decrease"}
           e3 == categorical <=> NumericPair(c) = {}
           e4 == \/ \A column \in DOMAIN row : row[column] = {}
                 \/ \A column \in DOMAIN row : row[column] # {}
           e5 == row.change_timing \subseteq {"before_loss", "after_loss_before_report"}
           e6 == \A days \in row.days_to_next_claim_report : days >= 0
           e7 == \A days \in row.days_to_next_claim_loss :
                   row.change_timing = {IF days >= 0 THEN "before_loss"
                                        ELSE "after_loss_before_report"}
           e8 == row.next_claim_severity = {SeverityCase(amount) : amount \in row.next_claim_amount}
           e12 == c.category = "deductible" => c.line \in DeductibleLines
           e17 == c.day <= DAY_ANCHOR
           marked == (c.category \in MATERIAL_CATEGORIES) <=> c.category \in MATERIAL_CATEGORIES
<1>1. ChangeExpectations(ChangeEventRow(c)) =
        [E1 |-> e1, E2 |-> e2, E3 |-> e3, E4 |-> e4, E5 |-> e5, E6 |-> e6,
         E7 |-> e7, E8 |-> e8, E12 |-> e12, E17 |-> e17,
         is_material_matches_the_five_decision_categories |-> marked]
  <2> DEFINE changed == ChangeEventRow(c)
  <2>1. /\ changed.change_date = c.day /\ changed.change_category = c.category
        /\ changed.is_material = (c.category \in MATERIAL_CATEGORIES)
        /\ changed.coverage_line = c.line /\ changed.value_num = NumericPair(c)
        /\ changed.direction = c.direction /\ changed.change_pct = ChangePct(c)
        /\ changed.linkage = row
    BY DEF ChangeEventRow
  <2> HIDE DEF changed, row
  <2>2. ChangeExpectations(changed) =
          [E1 |-> e1, E2 |-> e2, E3 |-> e3, E4 |-> e4, E5 |-> e5, E6 |-> e6,
           E7 |-> e7, E8 |-> e8, E12 |-> e12, E17 |-> e17,
           is_material_matches_the_five_decision_categories |-> marked]
    BY <2>1, ZenonT(40) DEF ChangeExpectations
  <2> QED
    BY <2>2 DEF changed
<1>2. e1
  BY NumbersShow DEF ChangePct
<1>3. e2 /\ e3
  BY NumbersShow
<1>4. e12 /\ e17
  BY RowTyped DEF Days, HistoryAssumption
<1>5. e4 /\ e5 /\ e6 /\ e7 /\ e8
  <2>1. CASE LinkedClaim(c) = {}
    <3> HIDE DEF row
    <3>1. row = [next_claim_id |-> {}, days_to_next_claim_loss |-> {},
                 days_to_next_claim_report |-> {}, change_timing |-> {},
                 next_claim_amount |-> {}, next_claim_severity |-> {},
                 next_claim_coverage_line |-> {}]
      BY <2>1, LinkageOfNone DEF row
    <3>2. \A column \in DOMAIN row : row[column] = {}
      BY <3>1
    <3>3. /\ row.change_timing = {} /\ row.days_to_next_claim_report = {}
          /\ row.days_to_next_claim_loss = {} /\ row.next_claim_severity = {}
          /\ row.next_claim_amount = {}
      BY <3>1
    <3> QED
      BY <3>2, <3>3
  <2>2. ASSUME NEW k \in LinkedClaim(c) PROVE e4 /\ e5 /\ e6 /\ e7 /\ e8
    <3>1. k \in DOMAIN claims /\ c.day <= claims[k].report
      BY LinkTyped
    <3>2. c.day \in Nat /\ claims[k].report \in Nat
      BY <3>1, RowTyped, ClaimTyped
    <3>3. row = [next_claim_id             |-> {k},
                 days_to_next_claim_loss   |-> {DaysToLoss(c, k)},
                 days_to_next_claim_report |-> {claims[k].report - c.day},
                 change_timing             |-> {ChangeTiming(c, k)},
                 next_claim_amount         |-> {claims[k].amount},
                 next_claim_severity       |-> {SeverityCase(claims[k].amount)},
                 next_claim_coverage_line  |-> {claims[k].line}]
      BY LinkageOfOne
    <3> HIDE DEF row
    <3>4. \A column \in DOMAIN row : row[column] # {}
      <4>1. DOMAIN row = {"next_claim_id", "days_to_next_claim_loss", "days_to_next_claim_report",
                          "change_timing", "next_claim_amount", "next_claim_severity",
                          "next_claim_coverage_line"}
        BY <3>3
      <4>2. row["next_claim_id"] = {k} /\ row["next_claim_coverage_line"] = {claims[k].line}
        BY <3>3
      <4>3. /\ row["days_to_next_claim_loss"] = {DaysToLoss(c, k)}
            /\ row["days_to_next_claim_report"] = {claims[k].report - c.day}
        BY <3>3
      <4>4. /\ row["change_timing"] = {ChangeTiming(c, k)}
            /\ row["next_claim_amount"] = {claims[k].amount}
            /\ row["next_claim_severity"] = {SeverityCase(claims[k].amount)}
        BY <3>3
      <4>5. \A x : {x} # {}
        OBVIOUS
      <4> QED
        BY <4>1, <4>2, <4>3, <4>4, <4>5
    <3>5. /\ row.change_timing = {ChangeTiming(c, k)}
          /\ row.days_to_next_claim_report = {claims[k].report - c.day}
          /\ row.days_to_next_claim_loss = {DaysToLoss(c, k)}
          /\ row.next_claim_severity = {SeverityCase(claims[k].amount)}
          /\ row.next_claim_amount = {claims[k].amount}
      BY <3>3
    <3>6. e5 /\ e7
      BY <3>5 DEF ChangeTiming
    <3>7. e6
      BY <3>1, <3>2, <3>5
    <3>8. e8
      BY <3>5
    <3> QED
      BY <3>4, <3>6, <3>7, <3>8
  <2> QED
    BY <2>1, <2>2
<1>6. marked
  OBVIOUS
<1> HIDE DEF e1, e2, e3, e4, e5, e6, e7, e8, e12, e17, marked
<1> QED
  BY <1>1, <1>2, <1>3, <1>4, <1>5, <1>6 DEF Broken

\* A share of at least 90 percent, in whole percents, is a share of at least 90.
LEMMA WholePercents ==
  ASSUME NEW amount \in Nat, NEW limit \in Nat \ {0}, NEW pct \in Nat
  PROVE  (amount * 100) \div limit >= pct <=> amount * 100 >= pct * limit
<1> DEFINE a == amount * 100
           q == a \div limit
           r == a % limit
<1>1. a \in Nat
  OBVIOUS
<1> HIDE DEF a
<1>2. q \in Nat /\ r \in Nat /\ r < limit /\ a = limit * q + r
  BY <1>1, SMTT(30)
<1> HIDE DEF q, r
<1>3. ASSUME q >= pct PROVE a >= pct * limit
  <2>1. limit * q >= pct * limit
    BY <1>2, <1>3, SMTT(30)
  <2>2. limit * q \in Nat /\ pct * limit \in Nat
    BY <1>2
  <2> QED
    BY <1>2, <2>1, <2>2
<1>4. ASSUME q < pct PROVE a < pct * limit
  <2>1. pct >= q + 1
    BY <1>2, <1>4
  <2>2. pct * limit >= (q + 1) * limit
    BY <1>2, <2>1, SMTT(30)
  <2>3. (q + 1) * limit = limit * q + limit
    BY <1>2
  <2>4. limit * q \in Nat /\ pct * limit \in Nat
    BY <1>2
  <2> QED
    BY <1>1, <1>2, <2>2, <2>3, <2>4
<1> QED
  BY <1>1, <1>2, <1>3, <1>4 DEF a, q

LEMMA ClaimPasses ==
  ASSUME DatasetTypeOK, HistoryAssumption, ExpectationsAssumption, DatesInv, BooksInv,
         NEW k \in DOMAIN claims
  PROVE  Broken(ClaimExpectations(ClaimEventRow(k))) = {}
<1> DEFINE claim == claims[k]
           pcts  == Utilization(k)
           near  == {AtOrNearLimit(k) : pct \in pcts}
           prior == [i \in 1..3 |-> Cardinality(ClaimPrior(k, PRIOR_WINDOWS[i]))]
           gap   == Cardinality(MaterialInGap(k))
           e9 == claim.amount >= 0 /\ SeverityBand(claim.amount) = {SeverityCase(claim.amount)}
           e10 == /\ ApplicableLimits(k) \subseteq {0} <=> pcts = {}
                  /\ \A pct \in pcts : /\ pct \in {(claim.amount * 100) \div limit :
                                                     limit \in ApplicableLimits(k) \ {0}}
                                       /\ near = {pct >= AT_OR_NEAR_LIMIT_PCT}
           e11 == claim.report >= claim.loss
           e17 == claim.loss <= DAY_ANCHOR /\ claim.report <= DAY_ANCHOR
           widen == prior[1] <= prior[2] /\ prior[2] <= prior[3]
           counted == gap >= 0
<1> DEFINE row == ClaimEventRow(k)
           r9  == row.settled_amount >= 0 /\ row.severity_band = {SeverityCase(row.settled_amount)}
           r10 == /\ row.applicable_limit \subseteq {0} <=> row.limit_utilization_pct = {}
                  /\ \A pct \in row.limit_utilization_pct :
                       /\ pct \in {(row.settled_amount * 100) \div limit :
                                     limit \in row.applicable_limit \ {0}}
                       /\ row.at_or_near_limit = {pct >= AT_OR_NEAR_LIMIT_PCT}
           r11 == /\ row.report_date >= row.loss_date
                  /\ row.loss_to_report_days = row.report_date - row.loss_date
           r17 == row.loss_date <= DAY_ANCHOR /\ row.report_date <= DAY_ANCHOR
           wider == /\ row.material_changes_prior[1] <= row.material_changes_prior[2]
                    /\ row.material_changes_prior[2] <= row.material_changes_prior[3]
           inGap == row.material_changes_in_gap >= 0
<1>1. /\ ClaimExpectations(row) =
           [E9 |-> r9, E10 |-> r10, E11 |-> r11, E17 |-> r17,
            prior_windows_widen_monotonically |-> wider, gap_count_is_never_negative |-> inGap]
      /\ (e9 => r9) /\ (e10 => r10) /\ (e11 => r11) /\ (e17 => r17) /\ (widen => wider)
      /\ counted => inGap
  <2>1. /\ row.loss_date = claim.loss /\ row.report_date = claim.report
        /\ row.loss_to_report_days = claim.report - claim.loss
        /\ row.settled_amount = claim.amount /\ row.severity_band = SeverityBand(claim.amount)
        /\ row.applicable_limit = ApplicableLimits(k)
    BY DEF ClaimEventRow
  <2>2. /\ row.limit_utilization_pct = pcts /\ row.at_or_near_limit = near
        /\ row.material_changes_prior = PriorCounts(claim.loss, TRUE)
        /\ row.material_changes_in_gap = gap
    BY DEF ClaimEventRow
  <2>3. PriorCounts(claim.loss, TRUE) = prior
    BY DEF PriorCounts, ClaimPrior
  <2> HIDE DEF row, pcts, near, prior, gap
  <2>4. ClaimExpectations(row) =
           [E9 |-> r9, E10 |-> r10, E11 |-> r11, E17 |-> r17,
            prior_windows_widen_monotonically |-> wider, gap_count_is_never_negative |-> inGap]
    BY DEF ClaimExpectations
  <2>5. (e9 => r9) /\ (e10 => r10)
    BY <2>1, <2>2
  <2>6. (e11 => r11) /\ (e17 => r17)
    BY <2>1
  <2>7. (widen => wider) /\ (counted => inGap)
    BY <2>2, <2>3
  <2> QED
    BY <2>4, <2>5, <2>6, <2>7
<1> HIDE DEF row, r9, r10, r11, r17, wider, inGap
<1>2. e9
  BY ClaimTyped, BandsAreCases
<1>3. e10
  <2> DEFINE limit == LimitAt(claims[k].line, claims[k].loss)
  <2>1. ApplicableLimits(k) = {limit}
    BY LimitsApply
  <2>2. limit \in Nat \ {0}
    <3>1. PICK i \in DOMAIN coverage[claims[k].line] :
            limit = coverage[claims[k].line][i].limit
      BY ClaimTyped, LimitInForce
    <3> DEFINE rows == coverage[claims[k].line]
    <3>2. rows \in Seq(CoverageVersions) /\ i \in DOMAIN rows
      BY ClaimTyped, TablesTyped
    <3>3. limit = rows[i].limit
      BY <3>1
    <3> HIDE DEF rows, limit
    <3>4. rows[i] \in CoverageVersions
      BY <3>2
    <3>5. rows[i].limit \in Limits
      BY <3>4 DEF CoverageVersions
    <3> QED
      BY <3>3, <3>5 DEF HistoryAssumption
  <2> HIDE DEF limit
  <2>3. Utilization(k) = {(claims[k].amount * 100) \div limit}
    BY <2>1, <2>2 DEF Utilization
  <2>4. claims[k].amount \in Nat /\ AT_OR_NEAR_LIMIT_PCT \in Nat
    BY ClaimTyped DEF AT_OR_NEAR_LIMIT_PCT
  <2>5. AtOrNearLimit(k) <=> claims[k].amount * 100 >= AT_OR_NEAR_LIMIT_PCT * limit
    BY <2>1, <2>2 DEF AtOrNearLimit
  <2> DEFINE used == (claims[k].amount * 100) \div limit
  <2>6. used >= AT_OR_NEAR_LIMIT_PCT <=> claims[k].amount * 100 >= AT_OR_NEAR_LIMIT_PCT * limit
    BY <2>2, <2>4, WholePercents
  <2>7. AtOrNearLimit(k) = (used >= AT_OR_NEAR_LIMIT_PCT)
    <3>1. AtOrNearLimit(k) <=> used >= AT_OR_NEAR_LIMIT_PCT
      BY <2>5, <2>6
    <3>2. AtOrNearLimit(k) \in BOOLEAN
      BY DEF AtOrNearLimit
    <3> HIDE DEF used
    <3> QED
      BY <3>1, <3>2
  <2>8. near = {used >= AT_OR_NEAR_LIMIT_PCT}
    <3>1. near = {AtOrNearLimit(k)}
      BY <2>3
    <3> QED
      BY <2>7, <3>1
  <2>9. {(claim.amount * 100) \div l : l \in ApplicableLimits(k) \ {0}} = {used}
    BY <2>1, <2>2
  <2>10. ~(ApplicableLimits(k) \subseteq {0}) /\ pcts = {used}
    BY <2>1, <2>2, <2>3
  <2> HIDE DEF used, near, pcts
  <2> QED
    BY <2>8, <2>9, <2>10
<1>4. e11
  <2>1. claims[k].loss \in Nat /\ claims[k].report \in Nat /\ REPORT_LAG_MIN_DAYS \in Nat
    BY ClaimTyped DEF HistoryAssumption
  <2>2. claims[k].loss + REPORT_LAG_MIN_DAYS <= claims[k].report
    BY DEF BooksInv
  <2> QED
    BY <2>1, <2>2
<1>5. e17
  BY ClaimTyped DEF Days, HistoryAssumption
<1>6. widen
  <2> DEFINE loss == claims[k].loss
  <2>1. ASSUME NEW v \in Nat, NEW w \in Nat, v < w
        PROVE  Cardinality(ClaimPrior(k, v)) <= Cardinality(ClaimPrior(k, w))
    <3>1. ClaimPrior(k, w) \in SUBSET ChangeRows
      BY DEF ClaimPrior, PriorMaterial, Material
    <3>2. IsFiniteSet(ClaimPrior(k, w))
      BY <3>1, RowsFinite, FS_Subset
    <3>3. loss \in Nat /\ \A c \in Material(ChangeRows) : c.day \in Nat
      BY ClaimTyped, RowTyped DEF Material
    <3>4. ASSUME NEW c \in ClaimPrior(k, v) PROVE c \in ClaimPrior(k, w)
      <4>1. c \in Material(ChangeRows) /\ loss - v <= c.day /\ c.day <= loss
        BY <3>4 DEF ClaimPrior, PriorMaterial
      <4>2. loss - w <= c.day
        BY <2>1, <3>3, <4>1
      <4> QED
        BY <4>1, <4>2 DEF ClaimPrior, PriorMaterial
    <3>5. ClaimPrior(k, v) \in SUBSET ClaimPrior(k, w)
      BY <3>4
    <3> QED
      BY <3>2, <3>5, FS_Subset
  <2>2. prior[1] = Cardinality(ClaimPrior(k, PRIOR_WINDOWS[1]))
        /\ prior[2] = Cardinality(ClaimPrior(k, PRIOR_WINDOWS[2]))
        /\ prior[3] = Cardinality(ClaimPrior(k, PRIOR_WINDOWS[3]))
    OBVIOUS
  <2> HIDE DEF prior
  <2> QED
    BY <2>1, <2>2, PriorWindowsTyped
<1>7. counted
  <2>1. MaterialInGap(k) \in SUBSET ChangeRows
    BY DEF MaterialInGap, Material
  <2> QED
    BY <2>1, RowsFinite, FS_Subset, FS_CardinalityType
<1> HIDE DEF e9, e10, e11, e17, widen, counted
<1> QED
  BY <1>1, <1>2, <1>3, <1>4, <1>5, <1>6, <1>7 DEF Broken, row

LEMMA MatchPasses ==
  ASSUME DatasetTypeOK, HistoryAssumption, DatesInv, NEW match \in PatternMatches
  PROVE  Broken(MatchExpectations(match)) = {}
<1> DEFINE e17 == match.on <= DAY_ANCHOR
           domain   == match.code \in PATTERN_CODES
           evidence == match.change \in ChangeRows \/ match.claim # {}
<1>1. ASSUME match \in R6 PROVE e17 /\ evidence
  <2>1. PICK k \in DOMAIN claims : match.claim = {k} /\ match.on = claims[k].loss
    BY <1>1, LastClaim
  <2>2. match.on <= DAY_ANCHOR
    BY <2>1, ClaimTyped DEF Days, HistoryAssumption
  <2> QED
    BY <2>1, <2>2
<1>2. ASSUME NEW code, NEW hits \in SUBSET ChangeRows, match \in EmitLatest(code, hits)
      PROVE  e17 /\ evidence
  <2>1. match.change \in ChangeRows /\ match.on = match.change.day
    BY <1>2, EmitsLatest
  <2> QED
    BY <2>1, RowTyped DEF Days, HistoryAssumption
<1> HIDE DEF e17, evidence
<1>3. ASSUME match \in R1 PROVE e17 /\ evidence
  BY <1>2, <1>3 DEF R1
<1>4. ASSUME match \in R2 PROVE e17 /\ evidence
  BY <1>2, <1>4 DEF R2
<1>5. ASSUME match \in R3 PROVE e17 /\ evidence
  <2>1. Material(ChangeRows) \subseteq ChangeRows
    BY DEF Material
  <2> QED
    BY <1>2, <1>5, <2>1 DEF R3
<1>6. ASSUME match \in R4 PROVE e17 /\ evidence
  <2> DEFINE span == DensestSpan(Material(ChangeRows))
             hits == IF Cardinality(span) >= PATTERN_CLUSTER_MIN_CHANGES THEN span ELSE {}
  <2>1. hits \in SUBSET ChangeRows
    BY DEF DensestSpan, SpanFrom, Material
  <2>2. match \in EmitLatest("rapid_change_cluster", hits)
    BY <1>6 DEF R4
  <2> HIDE DEF hits
  <2> QED
    BY <1>2, <2>1, <2>2
<1>7. ASSUME match \in R5 PROVE e17 /\ evidence
  BY <1>2, <1>7 DEF R5
<1>8. e17 /\ evidence
  BY <1>1, <1>3, <1>4, <1>5, <1>6, <1>7 DEF PatternMatches
<1>9. domain
  BY RuleCodes DEF PatternMatches, PATTERN_CODES, ClaimRules
<1> HIDE DEF domain
<1>10. MatchExpectations(match) = [E17 |-> e17, pattern_code_domain |-> domain,
                                   every_match_carries_evidence |-> evidence]
  BY DEF MatchExpectations, e17, domain, evidence
<1> QED
  BY <1>8, <1>9, <1>10 DEF Broken

LEMMA TimelinePasses ==
  ASSUME DatasetTypeOK, HistoryAssumption, ExpectationsAssumption, NEW e \in TimelineEvents
  PROVE  Broken(TimelineExpectations(e)) = {}
<1> DEFINE e17 == e.day <= DAY_ANCHOR
           domain == e.type \in DOMAIN TypeRank
           amount == e.amount = {} \/ e.type \in {"claim_filed", "claim_payment"}
<1>1. DOMAIN TypeRank = {"policy_created", "policy_change", "claim_filed", "claim_payment",
                         "renewal", "status_change"}
  BY DEF TypeRank
<1>2. DAY_ANCHOR \in Nat /\ \A day \in Days : day <= DAY_ANCHOR
  BY DEF Days, HistoryAssumption
<1>3. ASSUME NEW day \in Days, NEW type \in DOMAIN TypeRank, NEW paid,
             paid = {} \/ type \in {"claim_filed", "claim_payment"}, e = Event(day, type, paid)
      PROVE  e17 /\ domain /\ amount
  BY <1>2, <1>3 DEF Event
<1> HIDE DEF e17, domain, amount
<1>4. ASSUME e = Event(history[1].from, "policy_created", {}) PROVE e17 /\ domain /\ amount
  <2>1. history[1].from \in Days
    BY CurrentTyped DEF Versions
  <2> QED
    BY <1>1, <1>3, <1>4, <2>1
<1>5. ASSUME NEW day \in Renewals, e = Event(day, "renewal", {})
      PROVE  e17 /\ domain /\ amount
  <2>1. PICK i \in DOMAIN history : day = history[i].term_start
    BY DEF Renewals
  <2>2. DOMAIN history = 1..Len(history)
    BY TablesTyped
  <2>3. day \in Days
    BY <2>1, <2>2, CurrentTyped DEF Versions
  <2> QED
    BY <1>1, <1>3, <1>5, <2>3
<1>6. ASSUME NEW c \in ChangeRows, e = Event(c.day, ChangeEvent(c).type, {})
      PROVE  e17 /\ domain /\ amount
  <2>1. ChangeEvent(c).type \in DOMAIN TypeRank
    BY <1>1 DEF ChangeEvent
  <2> QED
    BY <1>3, <1>6, <2>1, RowTyped
<1>7. ASSUME NEW k \in DOMAIN claims, e = Event(claims[k].report, "claim_filed", {claims[k].amount})
      PROVE  e17 /\ domain /\ amount
  BY <1>1, <1>3, <1>7, ClaimTyped
<1>8. ASSUME NEW k \in DOMAIN claims, NEW lag \in SettleLags, NEW day \in Payments(k, lag),
             e = Event(day, "claim_payment", {claims[k].amount})
      PROVE  e17 /\ domain /\ amount
  <2> DEFINE report == claims[k].report
  <2>1. report \in Nat /\ lag \in Nat
    BY ClaimTyped DEF ExpectationsAssumption
  <2>2. day \in IF report + lag <= DAY_ANCHOR THEN {report + lag \div 3, report + lag}
                ELSE {report + lag \div 3} \cap Days
    BY DEF Payments
  <2> HIDE DEF report
  <2>3. lag \div 3 \in Nat /\ lag \div 3 <= lag
    BY <2>1
  <2>4. day \in Days
    BY <1>2, <2>1, <2>2, <2>3 DEF Days
  <2> QED
    BY <1>1, <1>3, <1>8, <2>4
<1>9. e17 /\ domain /\ amount
  <2> DEFINE paid(k) == UNION {Payments(k, lag) : lag \in SettleLags}
             filed(k) == Event(claims[k].report, "claim_filed", {claims[k].amount})
             payment(k, day) == Event(day, "claim_payment", {claims[k].amount})
             OfClaim(k) == {filed(k)} \cup {payment(k, day) : day \in paid(k)}
             changed(c) == Event(c.day, ChangeEvent(c).type, {})
             renewed(day) == Event(day, "renewal", {})
             created == Event(history[1].from, "policy_created", {})
  <2>1. e \in {created} \cup {renewed(day) : day \in Renewals}
               \cup {changed(c) : c \in ChangeRows} \cup UNION {OfClaim(k) : k \in DOMAIN claims}
    BY DEF TimelineEvents
  <2>2. \A k \in DOMAIN claims : \A day \in paid(k) :
          e = payment(k, day) => e17 /\ domain /\ amount
    BY <1>8
  <2> HIDE DEF paid, filed, payment, OfClaim, changed, renewed, created
  <2>3. ASSUME NEW k \in DOMAIN claims, e \in OfClaim(k) PROVE e17 /\ domain /\ amount
    BY <1>7, <2>2, <2>3 DEF OfClaim, filed
  <2>4. \/ e = created
        \/ \E day \in Renewals : e = renewed(day)
        \/ \E c \in ChangeRows : e = changed(c)
        \/ \E k \in DOMAIN claims : e \in OfClaim(k)
    BY <2>1
  <2>5. e = created => e17 /\ domain /\ amount
    BY <1>4 DEF created
  <2>6. \A day \in Renewals : e = renewed(day) => e17 /\ domain /\ amount
    BY <1>5 DEF renewed
  <2>7. \A c \in ChangeRows : e = changed(c) => e17 /\ domain /\ amount
    BY <1>6 DEF changed
  <2> QED
    BY <2>3, <2>4, <2>5, <2>6, <2>7
<1>10. TimelineExpectations(e) = [E17 |-> e17, event_type_domain |-> domain,
                                  amount_is_a_claim_or_payment_amount |-> amount]
  BY DEF TimelineExpectations, e17, domain, amount
<1> QED
  BY <1>9, <1>10 DEF Broken

\* The patterns that are matched are the ones the profile has flags for.
LEMMA MatchedCodes ==
  ASSUME DatasetTypeOK, HistoryAssumption, DatesInv
  PROVE  {match.code : match \in PatternMatches} =
           {code \in PATTERN_CODES : code \in {match.code : match \in PatternMatches}}
BY RuleCodes DEF PatternMatches, PATTERN_CODES, ClaimRules

LEMMA ProfilePasses ==
  ASSUME DatasetTypeOK, HistoryAssumption, ExpectationsAssumption, DatesInv
  PROVE  Broken(ProfileExpectations(PolicyProfile(PatternMatches))) = {}
<1> DEFINE row == PolicyProfile(PatternMatches)
           material == Material(ChangeRows)
           matched  == {match.code : match \in PatternMatches}
           flags    == [code \in PATTERN_CODES |-> code \in matched]
           Of(category) == {c \in material : c.category = category}
           Count(category) == Cardinality(Of(category))
           count == [category \in MATERIAL_CATEGORIES |-> Count(category)]
           shares == IF material = {} THEN {}
                     ELSE {<<Cardinality(BeforeSomeLoss), Cardinality(material)>>}
           e20 == \A day \in LatestDay({c.day : c \in material}) : day <= DAY_ANCHOR
           e17 == \A day \in LatestDay({claims[k].loss : k \in DOMAIN claims}) : day <= DAY_ANCHOR
           sum == count["coverage"] + count["deductible"] + count["vehicle"] + count["address"]
                    + count["status"] = Cardinality(material)
           e13 == Cardinality(matched) = Cardinality({code \in PATTERN_CODES : flags[code]})
           worst == MaxSeverity \subseteq {SEVERITY_ORDER[i] : i \in 1..4}
           net == NetCoverageDirection \in {"increase", "decrease", "net_zero", "none"}
           share == \A of \in shares : 0 <= of[1] /\ of[1] <= of[2]
<1>1. ProfileExpectations(row) = [E20 |-> e20, E17 |-> e17,
        category_counts_sum_to_the_material_count |-> sum, E13 |-> e13,
        max_severity_band_domain |-> worst, net_coverage_direction_domain |-> net,
        share_is_a_fraction |-> share]
  <2>1. /\ row.material_change_count = Cardinality(material) /\ row.category_count = count
        /\ row.net_coverage_direction = NetCoverageDirection
        /\ row.max_severity_band = MaxSeverity /\ row.share_before_loss = shares
    BY DEF PolicyProfile
  <2>2. /\ row.last_material_change_date = LatestDay({c.day : c \in material})
        /\ row.last_claim_date = LatestDay({claims[k].loss : k \in DOMAIN claims})
        /\ row.noteworthy_pattern_count = Cardinality(matched) /\ row.pattern = flags
    BY DEF PolicyProfile
  <2> HIDE DEF row, material, matched, flags, count, shares
  <2> QED
    BY <2>1, <2>2 DEF ProfileExpectations
<1>2. e20
  BY RowTyped DEF LatestDay, Material, Days, HistoryAssumption
<1>3. e17
  BY ClaimTyped DEF LatestDay, Days, HistoryAssumption
<1>4. sum
  <2>1. IsFiniteSet(material) /\ \A category : IsFiniteSet(Of(category))
    <3>1. material \in SUBSET ChangeRows
      BY DEF Material
    <3>2. \A category : Of(category) \in SUBSET ChangeRows
      BY <3>1
    <3> HIDE DEF material, Of
    <3> QED
      BY <3>1, <3>2, RowsFinite, FS_Subset
  <2>2. material = Of("coverage") \cup (Of("deductible") \cup (Of("vehicle")
                     \cup (Of("address") \cup Of("status"))))
    BY DEF Material, MATERIAL_CATEGORIES
  <2>3. \A a, b : a # b => Of(a) \cap Of(b) = {}
    OBVIOUS
  <2> HIDE DEF material, Of
  <2>4. ASSUME NEW S, NEW T, IsFiniteSet(S), IsFiniteSet(T), S \cap T = {}
        PROVE  IsFiniteSet(S \cup T) /\ Cardinality(S \cup T) = Cardinality(S) + Cardinality(T)
    <3>1. /\ IsFiniteSet(S \cup T)
          /\ Cardinality(S \cup T) = Cardinality(S) + Cardinality(T) - Cardinality(S \cap T)
      BY <2>4, FS_Union
    <3>2. Cardinality(S \cap T) = 0
      BY <2>4, EmptyNone
    <3>3. Cardinality(S) \in Nat /\ Cardinality(T) \in Nat
      BY <2>4, FS_CardinalityType
    <3> QED
      BY <3>1, <3>2, <3>3
  <2> DEFINE A == Of("address") \cup Of("status")
             V == Of("vehicle") \cup A
             D == Of("deductible") \cup V
  <2>5. IsFiniteSet(A) /\ Cardinality(A) = Count("address") + Count("status")
    BY <2>1, <2>3, <2>4
  <2>6. IsFiniteSet(V) /\ Cardinality(V) = Count("vehicle") + Cardinality(A)
    <3>1. Of("vehicle") \cap A = {}
      BY <2>3
    <3> QED
      BY <2>1, <2>4, <2>5, <3>1
  <2>7. IsFiniteSet(D) /\ Cardinality(D) = Count("deductible") + Cardinality(V)
    <3>1. Of("deductible") \cap V = {}
      BY <2>3
    <3> QED
      BY <2>1, <2>4, <2>6, <3>1
  <2>8. Cardinality(material) = Count("coverage") + Cardinality(D)
    <3>1. Of("coverage") \cap D = {}
      BY <2>3
    <3> QED
      BY <2>1, <2>2, <2>4, <2>7, <3>1
  <2>9. /\ Count("coverage") \in Nat /\ Count("deductible") \in Nat /\ Count("vehicle") \in Nat
        /\ Count("address") \in Nat /\ Count("status") \in Nat
    BY <2>1, FS_CardinalityType
  <2>10. /\ count["coverage"] = Count("coverage") /\ count["deductible"] = Count("deductible")
         /\ count["vehicle"] = Count("vehicle") /\ count["address"] = Count("address")
         /\ count["status"] = Count("status")
    BY DEF MATERIAL_CATEGORIES
  <2> HIDE DEF A, V, D, Count, count
  <2> QED
    BY <2>5, <2>6, <2>7, <2>8, <2>9, <2>10 DEF sum
<1>5. worst
  BY DEF MaxSeverity
<1>6. net
  <2> DEFINE up   == CoverageMoves("increase")
             down == CoverageMoves("decrease")
  <2>1. NetCoverageDirection = CASE up = 0 /\ down = 0 -> "none" [] up > down -> "increase"
                                 [] down > up -> "decrease" [] OTHER -> "net_zero"
    BY DEF NetCoverageDirection
  <2>2. up \in Nat /\ down \in Nat
    <3>1. ASSUME NEW direction
          PROVE  {c \in ChangeRows : c.category = "coverage" /\ c.direction = direction}
                   \in SUBSET ChangeRows
      OBVIOUS
    <3> QED
      BY <3>1, RowsFinite, FS_Subset, FS_CardinalityType DEF CoverageMoves
  <2> HIDE DEF up, down
  <2> QED
    BY <2>1, <2>2
<1>7. share
  <2>1. BeforeSomeLoss \subseteq material
    BY DEF BeforeSomeLoss, ClaimPrior, PriorMaterial
  <2>2. IsFiniteSet(material)
    <3>1. material \in SUBSET ChangeRows
      BY DEF Material
    <3> QED
      BY <3>1, RowsFinite, FS_Subset
  <2> HIDE DEF material
  <2>3. IsFiniteSet(BeforeSomeLoss) /\ Cardinality(BeforeSomeLoss) <= Cardinality(material)
    BY <2>1, <2>2, FS_Subset
  <2>4. Cardinality(BeforeSomeLoss) \in Nat
    BY <2>3, FS_CardinalityType
  <2> QED
    BY <2>3, <2>4
<1>8. e13
  <2>1. {code \in PATTERN_CODES : flags[code]} = {code \in PATTERN_CODES : code \in matched}
    OBVIOUS
  <2> QED
    BY <2>1, MatchedCodes
<1> HIDE DEF e20, e17, sum, e13, worst, net, share
<1> QED
  BY <1>1, <1>2, <1>3, <1>4, <1>5, <1>6, <1>7, <1>8 DEF Broken, row

LEMMA AgreementPasses ==
  ASSUME DatasetTypeOK, HistoryAssumption, ExpectationsAssumption,
         NEW c \in ChangeRows, NEW k \in LinkedClaim(c)
  PROVE  Broken(SeverityAgreement(Linkage(c), ClaimEventRow(k))) = {}
<1> DEFINE linkage == Linkage(c)
           row == ClaimEventRow(k)
           e8 == /\ linkage.next_claim_severity = row.severity_band
                 /\ linkage.next_claim_amount = {row.settled_amount}
                 /\ linkage.next_claim_coverage_line = {row.coverage_line}
<1>1. SeverityAgreement(linkage, row) = [E8 |-> e8]
  BY DEF SeverityAgreement
<1>2. k \in DOMAIN claims
  BY LinkTyped
<1>3. SeverityBand(claims[k].amount) = {SeverityCase(claims[k].amount)}
  BY <1>2, ClaimTyped, BandsAreCases
<1>4. /\ row.severity_band = SeverityBand(claims[k].amount)
      /\ row.settled_amount = claims[k].amount /\ row.coverage_line = claims[k].line
  BY DEF ClaimEventRow
<1> HIDE DEF row
<1>5. e8
  BY <1>3, <1>4, LinkageOfOne
<1> HIDE DEF e8
<1> QED
  BY <1>1, <1>5 DEF Broken, row

LEMMA ConsistencyPasses ==
  ASSUME NEW matches
  PROVE  Broken(PatternConsistency(PolicyProfile(matches), matches)) = {}
<1> DEFINE row == PolicyProfile(matches)
           matched == {match.code : match \in matches}
           flags == [code \in PATTERN_CODES |-> code \in matched]
           e13 == row.noteworthy_pattern_count = Cardinality(matched)
           e14 == \A code \in PATTERN_CODES : row.pattern[code] <=> code \in matched
<1>1. PatternConsistency(row, matches) = [E13 |-> e13, E14 |-> e14]
  BY DEF PatternConsistency
<1>2. row.noteworthy_pattern_count = Cardinality(matched) /\ row.pattern = flags
  BY DEF PolicyProfile
<1> HIDE DEF row
<1>3. e13 /\ e14
  BY <1>2
<1> HIDE DEF e13, e14
<1> QED
  BY <1>1, <1>3 DEF Broken, row

LEMMA PipelineFollows == ASSUME PolicyInv PROVE PipelinePasses
<1>1. FailedExpectations = {}
  <2>1. DatasetTypeOK /\ DatesInv /\ BooksInv
    BY DEF PolicyInv, HistoryInv, RoundTripInv
  <2>2. \A c \in ChangeRows : Broken(ChangeExpectations(ChangeEventRow(c))) = {}
    BY <2>1, ChangePasses, HistoryAssumption, ExpectationsAssumption
  <2>3. \A k \in DOMAIN claims : /\ Broken(ClaimExpectations(ClaimEventRow(k))) = {}
                                 /\ Broken(ContextExpectations(ClaimContextRow(k))) = {}
    BY <2>1, ClaimPasses, ContextPasses, HistoryAssumption, ExpectationsAssumption
  <2>4. /\ Broken(ProfileExpectations(PolicyProfile(PatternMatches))) = {}
        /\ Broken(PatternConsistency(PolicyProfile(PatternMatches), PatternMatches)) = {}
    BY <2>1, ProfilePasses, ConsistencyPasses, HistoryAssumption, ExpectationsAssumption
  <2>5. \A match \in PatternMatches : Broken(MatchExpectations(match)) = {}
    BY <2>1, MatchPasses, HistoryAssumption
  <2>6. \A e \in TimelineEvents : Broken(TimelineExpectations(e)) = {}
    BY <2>1, TimelinePasses, HistoryAssumption, ExpectationsAssumption
  <2>7. \A c \in ChangeRows : \A k \in LinkedClaim(c) : Broken(SeverityAgreement(Linkage(c), ClaimEventRow(k))) = {}
    BY <2>1, AgreementPasses, HistoryAssumption, ExpectationsAssumption
  <2> DEFINE results == {Broken(ChangeExpectations(ChangeEventRow(c))) : c \in ChangeRows}
                 \cup {Broken(ClaimExpectations(ClaimEventRow(k))) : k \in DOMAIN claims}
                 \cup {Broken(ContextExpectations(ClaimContextRow(k))) : k \in DOMAIN claims}
                 \cup {Broken(ProfileExpectations(PolicyProfile(PatternMatches))),
                       Broken(PatternConsistency(PolicyProfile(PatternMatches), PatternMatches))}
                 \cup {Broken(MatchExpectations(match)) : match \in PatternMatches}
                 \cup {Broken(TimelineExpectations(e)) : e \in TimelineEvents}
                 \cup UNION {{Broken(SeverityAgreement(Linkage(c), ClaimEventRow(k))) : k \in LinkedClaim(c)} :
                               c \in ChangeRows}
  <2>8. FailedExpectations = UNION results
    BY DEF FailedExpectations
  <2>9. \A result \in results : result = {}
    BY <2>2, <2>3, <2>4, <2>5, <2>6, <2>7
  <2> HIDE DEF results
  <2> QED
    BY <2>8, <2>9
<1> QED
  BY <1>1 DEF PipelinePasses

\* No history the generator may emit fails the update: no row of a gold table
\* breaks one expectation of its catalogue (expect_all_or_fail).
THEOREM PipelineAlwaysPasses == Spec => []PipelinePasses
  BY PipelineFollows, PolicyHolds, PTL

\* What is in these theorems of a policy rests on the invariant alone, whatever
\* specification keeps it.
LEMMA GoldTells ==
  ASSUME GoldInv, HistoryAssumption, WindowsAssumption, ExpectationsAssumption,
         QuestionsAssumption
  PROVE  /\ ChangesRoundTrip /\ GapsAgree
         /\ VersionsInForce /\ TimelineTells /\ ValidatorAgrees
         /\ EvidenceAgrees /\ SnapshotsAgree
         /\ PatternsMeanWhatTheySay /\ PipelinePasses
<1>1. PolicyInv /\ HistoryInv /\ RoundTripInv /\ StartInv
  BY DEF GoldInv, PolicyInv, HistoryInv
<1>2. ChangesRoundTrip /\ GapsAgree
  BY <1>1, GapsFollow DEF RoundTripInv
<1>3. VersionsInForce /\ TimelineTells
  BY <1>1, VersionsCover, TimelineFollows DEF HistoryInv, RoundTripInv
<1>4. ValidatorAgrees
  BY <1>1, ValidatorFollows DEF PolicyInv, HistoryInv
<1>5. EvidenceAgrees
  BY <1>1, EvidenceFollows DEF PolicyInv, HistoryInv, RoundTripInv
<1>6. SnapshotsAgree
  BY <1>1, ContextFollows, ProfileFollows
  DEF SnapshotsAgree, PolicyInv, HistoryInv, RoundTripInv
<1>7. PatternsMeanWhatTheySay
  BY <1>1, ClusterMeans, VehicleAddressMeans, NearLimitMeans
  DEF PatternsMeanWhatTheySay, HistoryInv, RoundTripInv
<1>8. PipelinePasses
  BY <1>1, PipelineFollows
<1> QED
  BY <1>2, <1>3, <1>4, <1>5, <1>6, <1>7, <1>8
=============================================================================
