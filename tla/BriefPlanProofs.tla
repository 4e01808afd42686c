--------------------------- MODULE BriefPlanProofs ---------------------------
(***************************************************************************)
(* The plan of a Run keeps its budgets and its deadline's slack, for every *)
(* timeout, every length of a call and every size of the sentence and      *)
(* scratch budgets.                                                        *)
(***************************************************************************)
EXTENDS BriefPlan, Integers, TLAPS

BeforeQuestion == {"lookup", "fork", "sequence", "relevant"}
BeforeAnswer   == BeforeQuestion \cup {"question", "ask"}
BeforeSentence == BeforeAnswer \cup {"followup", "askagain", "similar"}

\* The turns of the sections before the current one.
TurnsBefore == (section - 1) * MaxSentenceTurns

\* Before the clock is read for the first time, where it has just been read, and
\* one call after that.
ClockInv ==
  /\ pc = "lookup" => elapsed = 0
  /\ pc = "fork" => elapsed <= 2 * MaxCall
  /\ pc \in {"sequence", "relevant", "ask", "followup", "sentence", "built"}
       => elapsed <= RunTimeout
  /\ pc = "question" /\ attempts = 0 => elapsed <= RunTimeout
  /\ pc \in {"question", "askagain", "similar"} => elapsed <= RunTimeout + MaxCall
  /\ OverrunIsBounded

\* The frequency section: one proposal at a time, then one or two answers.
QuestionInv ==
  /\ pc \in BeforeQuestion => attempts = 0
  /\ pc = "question" => attempts < QuestionAttempts
  /\ pc \in BeforeAnswer => genieTurns = 0 /\ answer = "none" /\ ~followUp
  /\ pc \in {"followup", "askagain"} => genieTurns = 1 /\ answer = "first" /\ ~followUp
  /\ pc \in {"similar", "sentence", "built"} =>
       answer # "none" /\ (followUp <=> answer = "second")

\* The sentences: the sections before the current one are settled, and the
\* scratch statements fit in the turns taken so far.
SentenceInv ==
  /\ pc \in BeforeSentence => section = 1 /\ turn = 0 /\ scratch = 0
  /\ pc = "sentence" => section \in SECTIONS
  /\ pc = "built" => section = 5
  /\ section = 5 => turn = 0
  /\ pc \in BeforeSentence => \A s \in SECTIONS : outcome[s] = "pending"
  /\ \A s \in SECTIONS : s < section => outcome[s] # "pending"
  /\ scratch <= TurnsBefore + turn

\* The model is called once per proposal, once for the follow-up, and once per turn.
CallsInv ==
  /\ pc \in BeforeAnswer \cup {"followup"} => modelCalls <= attempts
  /\ modelCalls <= attempts + 1 + TurnsBefore + turn

PlanInv == PlanTypeOK /\ ClockInv /\ QuestionInv /\ SentenceInv /\ CallsInv /\ ScratchIsShared

\* Their arithmetic, kept apart from the state.
LEMMA TurnsArithmetic ==
  ASSUME NEW s \in 1..5, NEW M \in Nat
  PROVE  /\ (s - 1) * M \in Nat /\ s * M \in Nat
         /\ s * M = (s - 1) * M + M
         /\ (s - 1) * M <= 4 * M
         /\ s < 5 => (s - 1) * M + M <= 4 * M
  OBVIOUS

LEMMA TurnsBeforeNat == ASSUME PlanTypeOK PROVE TurnsBefore \in Nat
<1>1. section \in 1..5 /\ MaxSentenceTurns \in Nat
  BY PlanAssumption DEF PlanTypeOK
<1>2. QED
  BY <1>1, TurnsArithmetic DEF TurnsBefore

\* The counts that the actions name.
LEMMA CallCounts ==
  /\ StepCalls = 2 /\ CallsAt.lookup = 2 /\ CallsAt.fork = 6 /\ CallsAt.sequence = 4
  /\ CallsAt.relevant = 6 /\ CallsAt.question = 3 /\ CallsAt.ask = 3 /\ CallsAt.followup = 1
  /\ CallsAt.askagain = 3 /\ CallsAt.similar = 5 /\ CallsAt.sentence = 4
  BY DEF CallsAt, StepCalls

LEMMA CallsTaken ==
  ASSUME elapsed \in Nat, NEW n \in Nat, Calls(n)
  PROVE  /\ elapsed' \in Nat /\ elapsed' >= elapsed /\ elapsed' <= elapsed + n * MaxCall
         /\ n * MaxCall \in Nat
<1>1. MaxCall \in Nat /\ n * MaxCall \in Nat
  BY PlanAssumption
<1>2. PICK d \in 0..(n * MaxCall) : elapsed' = elapsed + d
  BY DEF Calls
<1>3. QED
  BY <1>1, <1>2

LEMMA PlanInvInit == PlanInit => PlanInv
<1> SUFFICES ASSUME PlanInit PROVE PlanInv
  OBVIOUS
<1>2. /\ pc = "lookup" /\ elapsed = 0 /\ attempts = 0 /\ genieTurns = 0 /\ section = 1
      /\ turn = 0 /\ scratch = 0 /\ modelCalls = 0 /\ answer = "none" /\ followUp = FALSE
      /\ \A s \in SECTIONS : outcome[s] = "pending"
  BY DEF PlanInit
<1>1. PlanTypeOK
  <2>1. 0 \in 0..MaxSentenceTurns /\ 0 \in 0..MaxScratch
    BY PlanAssumption
  <2>2. outcome \in [SECTIONS -> {"pending", "kept"} \cup SENTENCE_DROPPED_REASONS]
    BY DEF PlanInit
  <2>3. pc \in Places /\ followUp \in BOOLEAN /\ answer \in {"none", "first", "second"}
    BY <1>2 DEF Places
  <2>4. /\ elapsed \in Nat /\ modelCalls \in Nat /\ section \in 1..5
        /\ attempts \in 0..QuestionAttempts /\ genieTurns \in 0..MaxGenieTurns
        /\ turn \in 0..MaxSentenceTurns /\ scratch \in 0..MaxScratch
    BY <1>2, <2>1 DEF QuestionAttempts, MaxGenieTurns
  <2>5. QED
    BY <2>2, <2>3, <2>4 DEF PlanTypeOK
<1>3. TurnsBefore \in Nat
  BY <1>1, TurnsBeforeNat
<1>4. ClockInv
  BY <1>2, PlanAssumption DEF ClockInv, OverrunIsBounded
<1>5. QuestionInv
  BY <1>2 DEF QuestionInv, QuestionAttempts
<1>6. SentenceInv
  BY <1>2, <1>3 DEF SentenceInv, SECTIONS
<1>7. CallsInv
  BY <1>2, <1>3 DEF CallsInv
<1>8. QED
  BY <1>1, <1>2, <1>4, <1>5, <1>6, <1>7 DEF PlanInv, ScratchIsShared

\* Every step up to the sentences leaves the sentence budgets alone.
LEMMA QuestionStep ==
  ASSUME PlanInv,
         \/ LookUpClaim \/ CreateBranch \/ Sequence \/ Relevant \/ ChooseQuestion
         \/ AskGenie \/ ChooseFollowUp \/ AskFollowUp \/ Similar \/ Raise
  PROVE  PlanInv'
<1>s. UNCHANGED <<sentenceVars, TurnsBefore>> /\ TurnsBefore \in Nat
  BY TurnsBeforeNat
  DEF PlanInv, sentenceVars, TurnsBefore, LookUpClaim, CreateBranch, Sequence, Relevant,
      ChooseQuestion, AskGenie, ChooseFollowUp, AskFollowUp, Similar, Raise
<1>b. ScratchIsShared'
  BY <1>s DEF PlanInv, ScratchIsShared, sentenceVars
<1>t. elapsed \in Nat /\ MaxCall \in Nat /\ RunTimeout \in Nat
  BY PlanAssumption DEF PlanInv, PlanTypeOK
<1>n. \A n \in Nat : Calls(n) => elapsed' \in Nat /\ elapsed' >= elapsed /\ elapsed' <= elapsed + n * MaxCall
  BY <1>t, CallsTaken
<1> USE <1>s, <1>b, <1>t, CallCounts
    DEF PlanInv, PlanTypeOK, ClockInv, OverrunIsBounded, QuestionInv, SentenceInv, CallsInv,
        Places, QuestionAttempts, MaxGenieTurns, SECTIONS,
        BeforeAnswer, BeforeQuestion, BeforeSentence, Checked,
        ModelCall, questionVars, sentenceVars
<1>1. CASE LookUpClaim
  <2>1. elapsed' \in Nat /\ elapsed' <= elapsed + 2 * MaxCall
    BY <1>1, <1>n DEF LookUpClaim
  <2>2. QED
    BY <1>1, <2>1 DEF LookUpClaim
<1>2. CASE CreateBranch
  <2>1. elapsed' \in Nat /\ elapsed' <= elapsed + 6 * MaxCall
    BY <1>2, <1>n DEF CreateBranch
  <2>2. QED
    BY <1>2, <2>1 DEF CreateBranch
<1>3. CASE Sequence
  <2>1. elapsed' \in Nat /\ elapsed' <= elapsed + 4 * MaxCall
    BY <1>3, <1>n DEF Sequence
  <2>2. QED
    BY <1>3, <2>1 DEF Sequence
<1>4. CASE Relevant
  <2>1. elapsed' \in Nat /\ elapsed' <= elapsed + 6 * MaxCall
    BY <1>4, <1>n DEF Relevant
  <2>2. QED
    BY <1>4, <2>1 DEF Relevant
<1>5. CASE ChooseQuestion
  <2>1. CASE Calls(CallsAt.question) /\ Checked("ask")
    <3>1. elapsed' \in Nat /\ elapsed' <= elapsed + 3 * MaxCall
      BY <2>1, <1>n
    <3>2. QED
      BY <1>5, <2>1, <3>1 DEF ChooseQuestion
  <2>2. CASE attempts' < QuestionAttempts /\ Calls(1) /\ pc' = "question"
    <3>1. elapsed' \in Nat /\ elapsed' <= elapsed + 1 * MaxCall
      BY <2>2, <1>n
    <3>2. QED
      BY <1>5, <2>2, <3>1 DEF ChooseQuestion
  <2>3. QED
    BY <1>5, <2>1, <2>2 DEF ChooseQuestion
<1>6. CASE AskGenie
  <2>1. elapsed' \in Nat /\ elapsed' <= elapsed + 3 * MaxCall
    BY <1>6, <1>n DEF AskGenie
  <2>2. QED
    BY <1>6, <2>1 DEF AskGenie
<1>7. CASE ChooseFollowUp
  <2>1. elapsed' \in Nat /\ elapsed' <= elapsed + 1 * MaxCall
    BY <1>7, <1>n DEF ChooseFollowUp
  <2>2. QED
    BY <1>7, <2>1 DEF ChooseFollowUp
<1>8. CASE AskFollowUp
  <2>1. elapsed' \in Nat /\ elapsed' <= elapsed + 3 * MaxCall
    BY <1>8, <1>n DEF AskFollowUp
  <2>2. CASE answer' = "second" /\ followUp' = TRUE
    BY <1>8, <2>1, <2>2 DEF AskFollowUp
  <2>3. CASE UNCHANGED <<answer, followUp>>
    BY <1>8, <2>1, <2>3 DEF AskFollowUp
  <2>4. QED
    BY <1>8, <2>2, <2>3 DEF AskFollowUp
<1>9. CASE Similar
  <2>1. elapsed' \in Nat /\ elapsed' <= elapsed + 5 * MaxCall
    BY <1>9, <1>n DEF Similar
  <2>2. QED
    BY <1>9, <2>1 DEF Similar
<1>10. CASE Raise
  \* At each place the calls made there fit in what is left of the bound.
  <2>1. CallsAt[pc] \in 1..6 /\ Calls(CallsAt[pc])
    BY <1>10 DEF Raise, CallsAt, StepCalls
  <2>2. elapsed' \in Nat /\ elapsed' <= elapsed + CallsAt[pc] * MaxCall
    BY <2>1, <1>n
  <2>3. OverrunIsBounded'
    <3>1. CASE pc \in {"lookup", "fork"}
      BY <2>2, <3>1
    <3>2. CASE pc \in {"question", "askagain", "similar"}
      BY <2>2, <3>2
    <3>3. CASE pc \in {"sequence", "relevant", "ask", "followup", "sentence"}
      <4>1. elapsed <= RunTimeout /\ CallsAt[pc] * MaxCall <= 6 * MaxCall
        BY <2>1, <3>3 DEF CallsAt, StepCalls
      <4>2. QED
        BY <2>1, <2>2, <4>1
    <3>4. QED
      BY <1>10, <3>1, <3>2, <3>3 DEF Raise
  <2>4. QED
    BY <1>10, <2>2, <2>3 DEF Raise
<1>11. QED
  BY <1>1, <1>2, <1>3, <1>4, <1>5, <1>6, <1>7, <1>8, <1>9, <1>10

\* What a step that settles a section does, and one that goes on with it.
TimePasses == \E n \in 0..4 : Calls(n)
Settles(what) ==
  /\ pc = "sentence" /\ UNCHANGED <<scratch, questionVars>> /\ Close(what)
  /\ \/ turn < MaxSentenceTurns /\ modelCalls' = modelCalls + 1
     \/ modelCalls' = modelCalls
  /\ TimePasses
  /\ what = "scratch SQL budget" => MaxScratch <= scratch /\ turn < MaxSentenceTurns
GoesOn ==
  /\ pc = "sentence" /\ turn < MaxSentenceTurns /\ ModelCall /\ ~BudgetSpent
  /\ scratch' = scratch + 1 /\ turn' = turn + 1
  /\ TimePasses
  /\ Checked("sentence") /\ UNCHANGED <<section, outcome, questionVars>>

LEMMA TimeTyped ==
  ASSUME PlanTypeOK, TimePasses
  PROVE  /\ elapsed \in Nat /\ elapsed' \in Nat /\ elapsed' <= elapsed + 4 * MaxCall
         /\ MaxCall \in Nat /\ RunTimeout \in Nat
<1>1. elapsed \in Nat
  BY DEF PlanTypeOK
<1>2. PICK n \in 0..4 : Calls(n)
  BY DEF TimePasses
<1>3. n \in Nat /\ MaxCall \in Nat /\ n * MaxCall <= 4 * MaxCall
  BY PlanAssumption
<1>4. QED
  BY <1>1, <1>2, <1>3, CallsTaken, PlanAssumption

\* Settling a section uses up at most the turns it has.
LEMMA CloseStep ==
  ASSUME PlanInv, NEW what \in {"kept"} \cup SENTENCE_DROPPED_REASONS, Settles(what)
  PROVE  PlanInv'
<1>1. section' = section + 1 /\ section \in 1..4 /\ turn' = 0
  BY DEF Settles, PlanInv, SentenceInv, SECTIONS, Close
<1>2. /\ TurnsBefore' = TurnsBefore + MaxSentenceTurns
      /\ TurnsBefore' = section * MaxSentenceTurns
      /\ TurnsBefore \in Nat
  <2>1. MaxSentenceTurns \in Nat /\ (section + 1) - 1 = section
    BY <1>1, PlanAssumption
  <2>2. section * MaxSentenceTurns = (section - 1) * MaxSentenceTurns + MaxSentenceTurns
    BY <1>1, <2>1, TurnsArithmetic
  <2>3. TurnsBefore' = section * MaxSentenceTurns
    BY <1>1, <2>1 DEF TurnsBefore
  <2>4. TurnsBefore \in Nat
    BY TurnsBeforeNat DEF PlanInv
  <2>5. QED
    BY <2>2, <2>3, <2>4 DEF TurnsBefore
<1>3. /\ elapsed \in Nat /\ elapsed' \in Nat /\ elapsed' <= elapsed + 4 * MaxCall
      /\ MaxCall \in Nat /\ RunTimeout \in Nat /\ MaxSentenceTurns \in Nat
  BY PlanAssumption, TimeTyped DEF PlanInv, Settles
<1>4. /\ scratch \in Nat /\ turn \in Nat /\ turn <= MaxSentenceTurns
      /\ modelCalls \in Nat /\ attempts \in Nat
  BY PlanAssumption DEF PlanInv, PlanTypeOK, QuestionAttempts
<1>p. pc' = IF elapsed' > RunTimeout THEN "failed"
            ELSE IF section = 4 THEN "built" ELSE "sentence"
  BY DEF Settles, Close, Checked
<1>5. pc' \in {"built", "failed", "sentence"} /\ (pc' # "failed" => elapsed' <= RunTimeout)
  BY <1>3, <1>p
<1>6. /\ pc = "sentence" /\ elapsed <= RunTimeout
      /\ scratch <= TurnsBefore + turn
      /\ modelCalls <= attempts + 1 + TurnsBefore + turn
  BY DEF Settles, PlanInv, ClockInv, SentenceInv, CallsInv
<1>7. /\ scratch' = scratch /\ attempts' = attempts /\ genieTurns' = genieTurns
      /\ followUp' = followUp /\ answer' = answer
      /\ outcome' = [outcome EXCEPT ![section] = what]
  BY DEF Settles, Close, questionVars
<1>8. modelCalls' = modelCalls \/ (turn < MaxSentenceTurns /\ modelCalls' = modelCalls + 1)
  BY DEF Settles
<1>9. PlanTypeOK'
  <2>1. modelCalls' \in Nat
    BY <1>4, <1>8
  <2>2. section' \in 1..5 /\ turn' \in 0..MaxSentenceTurns
    BY <1>1, <1>3
  <2>3. outcome' \in [SECTIONS -> {"pending", "kept"} \cup SENTENCE_DROPPED_REASONS]
    BY <1>7 DEF PlanInv, PlanTypeOK
  <2>4. QED
    BY <1>3, <1>5, <1>7, <2>1, <2>2, <2>3 DEF PlanInv, PlanTypeOK, Places
<1>10. ClockInv'
  BY <1>3, <1>5, <1>6 DEF ClockInv, OverrunIsBounded
<1>11. QuestionInv'
  BY <1>5, <1>6, <1>7 DEF PlanInv, QuestionInv, BeforeAnswer, BeforeQuestion
<1>12. pc' \notin BeforeSentence
  BY <1>5 DEF BeforeSentence, BeforeAnswer, BeforeQuestion
<1>13. SentenceInv'
  <2>1. scratch' <= TurnsBefore' + turn'
    BY <1>1, <1>2, <1>3, <1>4, <1>6, <1>7
  <2>2. \A s \in SECTIONS : outcome'[s] = IF s = section THEN what ELSE outcome[s]
    BY <1>7 DEF PlanInv, PlanTypeOK
  <2>3. \A s \in SECTIONS : s < section => outcome[s] # "pending"
    BY DEF PlanInv, SentenceInv
  <2>4. \A s \in SECTIONS : s < section' => s = section \/ s < section
    BY <1>1 DEF SECTIONS
  <2>5. what # "pending"
    BY DEF SENTENCE_DROPPED_REASONS
  <2>6. \A s \in SECTIONS : s < section' => outcome'[s] # "pending"
    BY <2>2, <2>3, <2>4, <2>5
  <2>7. (pc' = "built" => section' = 5) /\ (pc' = "sentence" => section' \in SECTIONS)
    BY <1>1, <1>p DEF SECTIONS
  <2>8. QED
    BY <1>1, <1>12, <2>1, <2>6, <2>7 DEF SentenceInv
<1>14. CallsInv'
  <2>1. modelCalls' <= attempts' + 1 + TurnsBefore' + turn'
    BY <1>1, <1>2, <1>3, <1>4, <1>6, <1>7, <1>8
  <2>2. QED
    BY <1>12, <1>5, <2>1 DEF CallsInv, BeforeSentence
<1>15. ScratchIsShared'
  <2>1. what = "scratch SQL budget" => MaxScratch <= scratch /\ turn < MaxSentenceTurns
    BY DEF Settles
  <2>2. what = "scratch SQL budget" => MaxScratch < section * MaxSentenceTurns
    <3>1. MaxScratch \in Nat /\ section * MaxSentenceTurns = TurnsBefore + MaxSentenceTurns
      BY <1>2, PlanAssumption
    <3>2. ASSUME what = "scratch SQL budget" PROVE MaxScratch < TurnsBefore + MaxSentenceTurns
      <4>1. MaxScratch <= scratch /\ turn < MaxSentenceTurns /\ scratch <= TurnsBefore + turn
        BY <1>6, <2>1, <3>2
      <4>2. QED
        BY <1>2, <1>3, <1>4, <3>1, <4>1
    <3>3. QED
      BY <3>1, <3>2
  <2>3. \A s \in SECTIONS : outcome'[s] = IF s = section THEN what ELSE outcome[s]
    BY <1>7 DEF PlanInv, PlanTypeOK
  <2>4. QED
    BY <2>2, <2>3 DEF PlanInv, ScratchIsShared
<1>16. QED
  BY <1>9, <1>10, <1>11, <1>13, <1>14, <1>15 DEF PlanInv

LEMMA ScratchStep ==
  ASSUME PlanInv, GoesOn
  PROVE  PlanInv'
<1>1. section' = section /\ TurnsBefore' = TurnsBefore /\ TurnsBefore \in Nat
  BY TurnsBeforeNat DEF GoesOn, TurnsBefore, PlanInv
<1>2. /\ elapsed \in Nat /\ elapsed' \in Nat /\ elapsed' <= elapsed + 4 * MaxCall
      /\ MaxCall \in Nat /\ RunTimeout \in Nat
  BY PlanAssumption, TimeTyped DEF PlanInv, GoesOn
<1>3. pc' \in {"failed", "sentence"} /\ (pc' # "failed" => elapsed' <= RunTimeout)
  BY <1>2 DEF GoesOn, Checked
<1>4. PlanTypeOK'
  BY <1>2, <1>3, PlanAssumption
  DEF GoesOn, PlanInv, PlanTypeOK, Places, BudgetSpent, ModelCall, questionVars
<1>5. ClockInv'
  BY <1>2, <1>3 DEF GoesOn, PlanInv, ClockInv, OverrunIsBounded
<1>6. QuestionInv'
  BY <1>3 DEF GoesOn, PlanInv, QuestionInv, BeforeAnswer, BeforeQuestion, questionVars
<1>7. SentenceInv'
  <2>1. section \in 1..4
    BY DEF GoesOn, PlanInv, SentenceInv, SECTIONS
  <2>2. pc' \notin BeforeSentence
    BY <1>3 DEF BeforeSentence, BeforeAnswer, BeforeQuestion
  <2>3. scratch \in Nat /\ turn \in Nat
    BY PlanAssumption DEF PlanInv, PlanTypeOK
  <2>4. QED
    BY <1>1, <1>3, <2>1, <2>2, <2>3 DEF GoesOn, PlanInv, SentenceInv, SECTIONS
<1>8. CallsInv'
  <2>1. pc' \notin BeforeAnswer \cup {"followup"}
    BY <1>3 DEF BeforeAnswer, BeforeQuestion
  <2>2. modelCalls \in Nat /\ turn \in Nat /\ attempts \in Nat
    BY PlanAssumption DEF PlanInv, PlanTypeOK, QuestionAttempts
  <2>3. QED
    BY <1>1, <2>1, <2>2 DEF GoesOn, PlanInv, CallsInv, ModelCall, questionVars
<1>9. QED
  BY <1>4, <1>5, <1>6, <1>7, <1>8 DEF GoesOn, PlanInv, ScratchIsShared

LEMMA PlanInvStep == PlanInv /\ [PlanNext]_planVars => PlanInv'
<1> SUFFICES ASSUME PlanInv, [PlanNext]_planVars PROVE PlanInv'
  OBVIOUS
<1>1. CASE \/ LookUpClaim \/ CreateBranch \/ Sequence \/ Relevant \/ ChooseQuestion
           \/ AskGenie \/ ChooseFollowUp \/ AskFollowUp \/ Similar \/ Raise
  BY <1>1, QuestionStep
<1>t. 1 + StepCalls \in 0..4 /\ CallsAt.sentence \in 0..4 /\ StepCalls \in 0..4
  BY CallCounts
<1>2. CASE Sentence
  <2>1. PICK what \in {"kept", "vocabulary check", "model output", "no sentence returned"} : Close(what)
    BY <1>2 DEF Sentence
  <2>2. what \in {"kept"} \cup SENTENCE_DROPPED_REASONS /\ what # "scratch SQL budget"
    BY DEF SENTENCE_DROPPED_REASONS
  <2>3. TimePasses
    BY <1>t, <1>2 DEF Sentence, TimePasses
  <2>4. Settles(what)
    BY <1>2, <2>1, <2>2, <2>3 DEF Sentence, Settles, ModelCall
  <2>5. QED
    BY <2>2, <2>4, CloseStep
<1>3. CASE ScratchTurn
  <2>1. CASE BudgetSpent
    <3>1. TimePasses
      BY <1>t, <1>3, <2>1 DEF ScratchTurn, TimePasses
    <3>2. "scratch SQL budget" \in {"kept"} \cup SENTENCE_DROPPED_REASONS
      BY DEF SENTENCE_DROPPED_REASONS
    <3>3. MaxScratch <= scratch
      BY <2>1, PlanAssumption DEF BudgetSpent, PlanInv, PlanTypeOK
    <3>4. Settles("scratch SQL budget")
      BY <1>3, <2>1, <3>1, <3>3 DEF ScratchTurn, ModelCall, Settles
    <3>5. QED
      BY <3>2, <3>4, CloseStep
  <2>2. CASE ~BudgetSpent
    BY <1>t, <1>3, <2>2, ScratchStep DEF ScratchTurn, GoesOn, TimePasses
  <2>3. QED
    BY <2>1, <2>2
<1>4. CASE ExhaustTurns
  <2>2. TimePasses
    BY <1>t, <1>4 DEF ExhaustTurns, TimePasses
  <2>3. Settles("sentence turns exhausted")
    BY <1>4, <2>2 DEF ExhaustTurns, Settles
  <2>4. "sentence turns exhausted" \in {"kept"} \cup SENTENCE_DROPPED_REASONS
    BY DEF SENTENCE_DROPPED_REASONS
  <2>5. QED
    BY <2>3, <2>4, CloseStep
<1>5. CASE UNCHANGED planVars
  <2>1. PlanTypeOK' /\ ScratchIsShared'
    BY <1>5 DEF planVars, PlanInv, PlanTypeOK, ScratchIsShared
  <2>2. ClockInv'
    BY <1>5 DEF planVars, PlanInv, ClockInv, OverrunIsBounded
  <2>3. QuestionInv'
    BY <1>5 DEF planVars, PlanInv, QuestionInv
  <2>4. SentenceInv' /\ CallsInv'
    BY <1>5 DEF planVars, PlanInv, SentenceInv, CallsInv, TurnsBefore
  <2>5. QED
    BY <2>1, <2>2, <2>3, <2>4 DEF PlanInv
<1>6. QED
  BY <1>1, <1>2, <1>3, <1>4, <1>5 DEF PlanNext

LEMMA PlanInvHolds == PlanSpec => []PlanInv
  BY PlanInvInit, PlanInvStep, PTL DEF PlanSpec

\* Type correctness of the plan; in particular a dropped sentence's reason is
\* one of SENTENCE_DROPPED_REASONS (harness.py:31-32, 261-267).
THEOREM PlanTypeCorrect == PlanSpec => []PlanTypeOK
<1>1. PlanInv => PlanTypeOK
  BY DEF PlanInv
<1>2. QED
  BY <1>1, PlanInvHolds, PTL

\* A Run costs at most 3 model calls and MaxSentenceTurns per section, two Genie
\* questions and MaxScratch statements (harness.py:35-37, 171, 195, 231).
THEOREM BudgetsAlwaysHold == PlanSpec => []BudgetsHold
<1>1. PlanInv => BudgetsHold
  <2> SUFFICES ASSUME PlanInv PROVE BudgetsHold
    OBVIOUS
  <2>1. /\ section \in 1..5 /\ turn \in Nat /\ turn <= MaxSentenceTurns
        /\ MaxSentenceTurns \in Nat /\ modelCalls \in Nat /\ attempts \in 0..2
    BY PlanAssumption DEF PlanInv, PlanTypeOK, QuestionAttempts
  <2>2. /\ TurnsBefore \in Nat /\ TurnsBefore <= 4 * MaxSentenceTurns
        /\ section < 5 => TurnsBefore + MaxSentenceTurns <= 4 * MaxSentenceTurns
    BY <2>1, TurnsArithmetic DEF TurnsBefore
  <2>3. TurnsBefore + turn <= 4 * MaxSentenceTurns
    BY <2>1, <2>2 DEF PlanInv, SentenceInv
  <2>4. modelCalls <= QuestionAttempts + 1 + 4 * MaxSentenceTurns
    BY <2>1, <2>2, <2>3 DEF PlanInv, CallsInv, QuestionAttempts
  <2>5. QED
    BY <2>4, PlanAssumption DEF BudgetsHold, PlanInv, PlanTypeOK
<1>2. QED
  BY <1>1, PlanInvHolds, PTL

\* A Run reads its clock before its ninth call, and a late one stops within six
\* calls of its deadline, for any timeout and any length of a call (harness.py:130-134).
THEOREM OverrunAlwaysBounded == PlanSpec => []OverrunIsBounded
<1>1. PlanInv => OverrunIsBounded
  BY DEF PlanInv, ClockInv, OverrunIsBounded
<1>2. QED
  BY <1>1, PlanInvHolds, PTL

\* The Brief execute returns is whole and in time (harness.py:207-211, 300-304).
THEOREM BriefAlwaysWhole == PlanSpec => []BriefIsWhole
<1>1. PlanInv => BriefIsWhole
  BY DEF PlanInv, PlanTypeOK, ClockInv, QuestionInv, SentenceInv, SECTIONS, BriefIsWhole
<1>2. QED
  BY <1>1, PlanInvHolds, PTL

\* A section loses its sentence to the scratch budget only when the sections up
\* to it could have spent it (harness.py:231-247, tools.py:127-129).
THEOREM ScratchAlwaysShared == PlanSpec => []ScratchIsShared
<1>1. PlanInv => ScratchIsShared
  BY DEF PlanInv
<1>2. QED
  BY <1>1, PlanInvHolds, PTL
=============================================================================
