--------------------------- MODULE WorkspaceProofs ---------------------------
(***************************************************************************)
(* The investigation tab and its back end, for any policies and any        *)
(* numbers of questions, page refreshes and restarts.                      *)
(***************************************************************************)
EXTENDS Workspace, FiniteSetTheorems, TLAPS

Abouts == Policies \cup {NoPolicy}

\* The phases before a handler asks Genie, and the questions beyond them.
Early == {"unsent", "sent", "read"}
Begun == {i \in Questions : messages[i].phase \notin Early}

StoreOK ==
  /\ backend \in {"lakebase", "memory"}
  /\ lakebase \in Rows /\ memory \in Rows
  /\ carried \in [Investigation -> SUBSET Questions]
  /\ restarts \in 0..MaxRestarts

\* A message in flight is of an Investigation that was created, and a question
\* that was asked.
MessagesOK ==
  /\ messages \in [Questions -> Message]
  /\ \A i \in Questions : /\ InFlight(i) => messages[i].inv \in 1..created
                          /\ messages[i].phase # "unsent" => i <= asked

\* A question starts one thread at most.
ThreadsOK == threads \in Nat /\ threads <= Cardinality(Begun)

\* An Investigation is created by a question, which is then awaited.
CountsOK ==
  /\ asked \in 0..MaxQuestions
  /\ created \in 0..asked
  /\ call.at = "create" => created < asked
  /\ investigationId \in 0..created

\* What is awaited is the last question asked; until its Investigation is there
\* its message is not sent, and then it is about the policy of the call.
CallOK ==
  /\ call \in Calls \cup {NoCall}
  /\ genieLoading = (call # NoCall)
  /\ call # NoCall => call.question = asked
  /\ call.at = "create" => messages[asked].phase = "unsent"
  /\ call.at = "answer" => /\ messages[asked].phase # "unsent"
                           /\ InFlight(asked) => messages[asked].about = call.about
  /\ call.answered => call.at = "answer" /\ messages[asked].phase = "over"

TrailOK ==
  /\ trail \in Seq(Node)
  /\ activeIndex \in 0..Len(trail) /\ (activeIndex = 0 => trail = <<>>)
  /\ liveTimelineId \in Abouts
  /\ bootError \in BOOLEAN
  /\ restored \in 0..Len(trail)

PageOK ==
  /\ manualTimelineId \in Abouts
  /\ fetches \in [Policies -> FetchStates] /\ timelines \in [Policies -> Snapshots]
  /\ seeded \in BOOLEAN
  /\ reloads \in 0..MaxReloads

WorkspaceInv ==
  StoreOK /\ MessagesOK /\ ThreadsOK /\ CountsOK /\ CallOK /\ TrailOK /\ PageOK

-----------------------------------------------------------------------------
LEMMA ConstantFacts ==
  /\ MaxQuestions \in Nat /\ MaxRestarts \in Nat /\ MaxReloads \in Nat
  /\ NoPolicy \notin Policies /\ NoSeed \notin Abouts
  /\ Seed # NoSeed => Seed \in Abouts
BY InvestigationsAssumption, WorkspaceAssumption DEF Abouts

LEMMA AtIsMessage ==
  ASSUME NEW phase \in Phases, NEW inv \in Investigation \cup {NoInvestigation},
         NEW about \in Abouts
  PROVE  /\ At(phase, inv, about) \in Message /\ At(phase, inv, about).phase = phase
         /\ At(phase, inv, about).inv = inv /\ At(phase, inv, about).about = about
BY ConstantFacts DEF At, Message, NoThread, Handles, Abouts

LEMMA UnsentIsMessage ==
  /\ Unsent \in Message /\ Unsent.phase = "unsent"
  /\ Over \in Message /\ Over.phase = "over"
BY AtIsMessage DEF Unsent, Over, Phases, Abouts

LEMMA NoCallFacts == NoCall.at = "nowhere" /\ ~NoCall.answered /\ NoCall.question = 0
                     /\ NoCall.about = NoPolicy /\ NoCall.kind = "typed"
BY DEF NoCall

\* The questions that have begun are finitely many, and no more than there are.
LEMMA BegunBounded ==
  ASSUME NEW B \in SUBSET Questions
  PROVE  IsFiniteSet(B) /\ Cardinality(B) \in Nat /\ Cardinality(B) <= MaxQuestions
<1>1. IsFiniteSet(1..MaxQuestions) /\ Cardinality(1..MaxQuestions) = MaxQuestions
  BY FS_Interval, ConstantFacts
<1>2. QED
  BY <1>1, FS_Subset, FS_CardinalityType DEF Questions

LEMMA BegunGrows ==
  ASSUME NEW B \in SUBSET Questions, NEW C \in SUBSET Questions, B \subseteq C
  PROVE  Cardinality(B) <= Cardinality(C)
BY BegunBounded, FS_Subset

LEMMA OneMoreBegun ==
  ASSUME NEW B \in SUBSET Questions, NEW i \in Questions, i \notin B
  PROVE  Cardinality(B \cup {i}) = Cardinality(B) + 1 /\ Cardinality(B) < MaxQuestions
<1>1. Cardinality(B \cup {i}) = Cardinality(B) + 1
  BY BegunBounded, FS_AddElement
<1>2. Cardinality(B \cup {i}) <= MaxQuestions
  BY BegunBounded
<1>3. QED
  BY <1>1, <1>2, BegunBounded, ConstantFacts

LEMMA ThreadsBounded ==
  ASSUME ThreadsOK
  PROVE  threads \in 0..MaxQuestions
BY BegunBounded, ConstantFacts DEF ThreadsOK, Begun

-----------------------------------------------------------------------------
(* What a step of the back end may do to a message. *)

Keeps(i) ==
  /\ messages'[i] \in Message
  /\ messages[i].phase \notin Early => messages'[i].phase \notin Early
  /\ IF InFlight(i)
     THEN /\ InFlight(i)'
          /\ messages'[i].inv = messages[i].inv /\ messages'[i].about = messages[i].about
     ELSE messages'[i] = messages[i]

MessagesKeep == messages' = [i \in Questions |-> messages'[i]] /\ \A i \in Questions : Keeps(i)

\* One handler's move, the others being left alone.
LEMMA OneMoves ==
  ASSUME messages \in [Questions -> Message], NEW i \in Questions, InFlight(i),
         NEW phase \in Phases, NEW handle \in Handles, NEW thread \in Handles,
         phase \notin {"unsent", "over"}, messages[i].phase \notin Early => phase \notin Early,
         Move(i, phase, handle, thread)
  PROVE  MessagesKeep /\ messages'[i].phase = phase /\ messages'[i].handle = handle
         /\ messages'[i].thread = thread
<1> DEFINE m == [phase |-> phase, inv |-> messages[i].inv, about |-> messages[i].about,
                 handle |-> handle, thread |-> thread]
<1>1. m \in Message
  BY DEF Message
<1>2. messages' = [messages EXCEPT ![i] = m]
  BY DEF Move
<1>3. /\ m.phase = phase /\ m.inv = messages[i].inv /\ m.about = messages[i].about
      /\ m.handle = handle /\ m.thread = thread
  OBVIOUS
<1> HIDE DEF m
<1>4. QED
  BY <1>1, <1>2, <1>3 DEF MessagesKeep, Keeps, InFlight

LEMMA FallenFacts ==
  ASSUME NEW m \in Message
  PROVE  /\ Fallen(m) \in Message /\ Fallen(m).phase = "failed"
         /\ Fallen(m).inv = m.inv /\ Fallen(m).about = m.about
BY AtIsMessage DEF Fallen, Message, Phases, Abouts

LEMMA StoredTypes ==
  ASSUME StoreOK, NEW inv \in Investigation
  PROVE  Stored(inv) \in Handles \cup {Missing}
BY DEF StoreOK, Stored, Rows

LEMMA HandleKeeps ==
  ASSUME messages \in [Questions -> Message], StoreOK, ThreadsOK, NEW i \in Questions, Handle(i),
         InFlight(i) => messages[i].inv \in Investigation
  PROVE  MessagesKeep
<1> DEFINE m == messages[i]
<1>0. m.handle \in Handles /\ m.thread \in Handles /\ NoThread \in Handles
  BY ConstantFacts DEF Message, Handles, NoThread
<1>1. CASE ReadHandle(i)
  <2>1. Stored(m.inv) \in Handles \cup {Missing}
    <3>1. m.inv \in Investigation
      BY <1>1 DEF ReadHandle, InFlight
    <3>2. QED
      BY <3>1, StoredTypes
  <2>2. m.phase = "sent" /\ InFlight(i)
    BY <1>1 DEF ReadHandle, InFlight
  <2>3. CASE Stored(m.inv) = Missing
    <3>1. Move(i, "failed", NoThread, NoThread)
      BY <1>1, <2>3 DEF ReadHandle
    <3>2. QED
      BY <1>0, <2>2, <3>1, OneMoves DEF Early, Phases
  <2>4. CASE Stored(m.inv) # Missing
    <3>1. Move(i, "read", Stored(m.inv), NoThread)
      BY <1>1, <2>4 DEF ReadHandle
    <3>2. QED
      <4>1. Stored(m.inv) \in Handles /\ m.phase \in Early /\ "read" \in Phases
        BY <2>1, <2>2, <2>4 DEF Early, Phases
      <4> DEFINE h == Stored(m.inv)
      <4> HIDE DEF h
      <4>2. h \in Handles /\ Move(i, "read", h, NoThread)
        BY <3>1, <4>1 DEF h
      <4>3. QED
        BY <1>0, <2>2, <4>1, <4>2, OneMoves DEF Early, Phases
  <2>5. QED
    BY <2>3, <2>4
<1>2. CASE AskGenie(i)
  <2>1. i \notin Begun
    BY <1>2 DEF AskGenie, Begun, Early
  <2>2. threads + 1 \in Handles
    <3>1. Begun \in SUBSET Questions
      BY DEF Begun
    <3>2. Cardinality(Begun) \in Nat /\ Cardinality(Begun) < MaxQuestions
      BY <2>1, <3>1, OneMoreBegun, BegunBounded
    <3>3. QED
      BY <3>2, ConstantFacts DEF ThreadsOK, Handles
  <2>3. PICK thread \in Handles : Move(i, "asked", m.handle, thread)
    BY <1>0, <1>2, <2>2 DEF AskGenie
  <2>4. InFlight(i) /\ "asked" \in Phases
    BY <1>2 DEF AskGenie, InFlight, Phases
  <2>5. QED
    BY <1>0, <2>3, <2>4, OneMoves DEF Early
<1>3. CASE AskRefused(i) \/ GenieAnswers(i) \/ GenieTimesOut(i) \/ SaveHandle(i) \/ StoreFails(i)
  BY <1>0, <1>3, OneMoves
  DEF AskRefused, GenieAnswers, GenieTimesOut, SaveHandle, StoreFails, InFlight, Early, Phases
<1>4. QED
  BY <1>1, <1>2, <1>3 DEF Handle

LEMMA RestartKeeps ==
  ASSUME messages \in [Questions -> Message], RestartServer
  PROVE  MessagesKeep
<1>1. messages' = [i \in Questions |-> IF InFlight(i) THEN Fallen(messages[i]) ELSE messages[i]]
  BY DEF RestartServer
<1>2. ASSUME NEW i \in Questions PROVE Keeps(i)
  <2>1. CASE InFlight(i)
    <3>1. messages'[i] = Fallen(messages[i])
      BY <1>1, <2>1
    <3>2. QED
      BY <2>1, <3>1, FallenFacts DEF Keeps, InFlight, Early
  <2>2. CASE ~InFlight(i)
    BY <1>1, <2>2 DEF Keeps
  <2>3. QED
    BY <2>1, <2>2
<1>3. QED
  BY <1>1, <1>2 DEF MessagesKeep

\* What the back end leaves alone, and its types.
LEMMA HandleStores ==
  ASSUME WorkspaceInv, NEW i \in Questions, Handle(i)
  PROVE  StoreOK' /\ ThreadsOK' /\ created' = created
<1>1. MessagesKeep
  <2>1. InFlight(i) => messages[i].inv \in Investigation
    BY ConstantFacts DEF WorkspaceInv, MessagesOK, CountsOK, Investigation
  <2>2. QED
    BY <2>1, HandleKeeps DEF WorkspaceInv, MessagesOK
<1>2. Begun \in SUBSET Questions /\ Begun' \in SUBSET Questions /\ Begun \subseteq Begun'
  BY <1>1 DEF Begun, MessagesKeep, Keeps
<1>3. Cardinality(Begun) <= Cardinality(Begun') /\ Cardinality(Begun) \in Nat
      /\ Cardinality(Begun') \in Nat
  BY <1>2, BegunGrows, BegunBounded
<1>4. CASE AskGenie(i)
  <2>1. i \notin Begun /\ i \in Begun'
    <3>1. messages'[i].phase = "asked"
      BY <1>4 DEF AskGenie, Move, WorkspaceInv, MessagesOK
    <3>2. QED
      BY <1>4, <3>1 DEF AskGenie, Begun, Early
  <2>2. Cardinality(Begun \cup {i}) <= Cardinality(Begun')
    BY <1>2, <2>1, BegunGrows
  <2>3. Cardinality(Begun) + 1 <= Cardinality(Begun')
    BY <1>2, <2>1, <2>2, OneMoreBegun
  <2>4. threads' = threads \/ threads' = threads + 1
    BY <1>4 DEF AskGenie
  <2>5. ThreadsOK'
    BY <1>3, <2>3, <2>4 DEF WorkspaceInv, ThreadsOK
  <2>6. QED
    BY <1>4, <2>5 DEF AskGenie, WorkspaceInv, StoreOK
<1>5. CASE SaveHandle(i)
  <2>1. messages[i].handle \in Handles /\ messages[i].inv \in Investigation
    BY <1>5, ConstantFacts
    DEF SaveHandle, InFlight, WorkspaceInv, MessagesOK, CountsOK, Investigation, Message
  <2>2. lakebase' \in Rows /\ memory' \in Rows
    BY <1>5, <2>1 DEF SaveHandle, WriteHandle, WorkspaceInv, StoreOK, Rows
  <2>3. messages[i].handle \notin {NoThread} => messages[i].handle \in Questions
    BY <2>1, ConstantFacts DEF Handles, Questions, NoThread
  <2>4. carried' \in [Investigation -> SUBSET Questions]
    BY <1>5, <2>1, <2>3 DEF SaveHandle, WorkspaceInv, StoreOK
  <2>5. UNCHANGED <<backend, created, threads, restarts>>
    BY <1>5 DEF SaveHandle
  <2>6. QED
    BY <1>3, <2>2, <2>4, <2>5 DEF WorkspaceInv, StoreOK, ThreadsOK
<1>6. CASE ReadHandle(i) \/ AskRefused(i) \/ GenieAnswers(i) \/ GenieTimesOut(i) \/ StoreFails(i)
  <2>1. UNCHANGED <<backend, lakebase, memory, created, threads, carried, restarts>>
    BY <1>6 DEF ReadHandle, AskRefused, GenieAnswers, GenieTimesOut, StoreFails
  <2>2. QED
    BY <1>3, <2>1 DEF WorkspaceInv, StoreOK, ThreadsOK
<1>7. QED
  BY <1>4, <1>5, <1>6 DEF Handle

LEMMA RestartStores ==
  ASSUME WorkspaceInv, RestartServer
  PROVE  StoreOK' /\ ThreadsOK' /\ created' = created
<1>1. MessagesKeep
  BY RestartKeeps DEF WorkspaceInv, MessagesOK
<1>2. Begun \in SUBSET Questions /\ Begun' \in SUBSET Questions /\ Begun \subseteq Begun'
  BY <1>1 DEF Begun, MessagesKeep, Keeps
<1>3. Cardinality(Begun) <= Cardinality(Begun') /\ Cardinality(Begun) \in Nat
      /\ Cardinality(Begun') \in Nat
  BY <1>2, BegunGrows, BegunBounded
<1>4. ThreadsOK'
  BY <1>3 DEF RestartServer, WorkspaceInv, ThreadsOK
<1>5. StoreOK'
  BY ConstantFacts DEF RestartServer, WorkspaceInv, StoreOK, Rows
<1>6. QED
  BY <1>4, <1>5 DEF RestartServer

LEMMA ServerMoves ==
  ASSUME WorkspaceInv, Server
  PROVE  MessagesKeep /\ StoreOK' /\ ThreadsOK' /\ created' = created /\ UNCHANGED clientVars
<1>1. CASE RestartServer
  BY <1>1, RestartKeeps, RestartStores DEF WorkspaceInv, MessagesOK, Server
<1>2. ASSUME NEW i \in Questions, Handle(i) PROVE MessagesKeep /\ created' = created
                                                 /\ StoreOK' /\ ThreadsOK'
  <2>1. InFlight(i) => messages[i].inv \in Investigation
    BY ConstantFacts DEF WorkspaceInv, MessagesOK, CountsOK, Investigation
  <2>2. QED
    BY <1>2, <2>1, HandleKeeps, HandleStores DEF WorkspaceInv, MessagesOK
<1>3. QED
  BY <1>1, <1>2 DEF Server

LEMMA ServerKeepsInv ==
  ASSUME WorkspaceInv, Server
  PROVE  WorkspaceInv'
<1> USE ServerMoves
<1>1. UNCHANGED <<trail, activeIndex, manualTimelineId, liveTimelineId, genieLoading, call,
                  bootError, investigationId, fetches, timelines, asked, seeded, restored,
                  reloads>>
  BY DEF clientVars, timelineVars, pageVars
<1>2. MessagesOK'
  <2>1. messages' \in [Questions -> Message]
    BY DEF MessagesKeep, Keeps
  <2>2. ASSUME NEW i \in Questions
        PROVE  /\ InFlight(i)' => messages'[i].inv \in 1..created'
               /\ messages'[i].phase # "unsent" => i <= asked'
    BY <1>1 DEF MessagesKeep, Keeps, WorkspaceInv, MessagesOK, InFlight
  <2>3. QED
    BY <2>1, <2>2 DEF MessagesOK, InFlight
<1>3. CountsOK'
  BY <1>1 DEF WorkspaceInv, CountsOK
<1>4. CallOK'
  <2>1. CASE call = NoCall
    BY <1>1, <2>1, NoCallFacts DEF WorkspaceInv, CallOK
  <2>2. CASE call # NoCall
    <3>1. call.question \in Questions /\ call.question = asked /\ asked \in Questions
      BY <2>2 DEF WorkspaceInv, CallOK, Calls
    <3>2. Keeps(asked)
      BY <3>1 DEF MessagesKeep
    <3>3. QED
      BY <1>1, <3>1, <3>2 DEF Keeps, WorkspaceInv, CallOK, InFlight
  <2>3. QED
    BY <2>1, <2>2
<1>5. TrailOK' /\ PageOK'
  BY <1>1 DEF WorkspaceInv, TrailOK, PageOK
<1>6. QED
  BY <1>2, <1>3, <1>4, <1>5 DEF WorkspaceInv

-----------------------------------------------------------------------------
(* The steps of the page. *)

StoreUnchanged == UNCHANGED <<backend, lakebase, memory, created, threads, carried, restarts>>

\* A response is taken from the wire.
LEMMA DeliveredKeeps ==
  ASSUME WorkspaceInv, NEW i \in Questions, InFlight(i), messages[i].phase \notin Early,
         Delivered(i), StoreUnchanged, asked' = asked
  PROVE  /\ StoreOK' /\ MessagesOK' /\ ThreadsOK'
         /\ messages'[i].phase = "over" /\ ~InFlight(i)'
         /\ \A j \in Questions \ {i} : messages'[j] = messages[j]
<1>1. StoreOK'
  BY DEF StoreUnchanged, WorkspaceInv, StoreOK
<1>2. /\ messages' \in [Questions -> Message] /\ messages'[i] = Over
      /\ \A j \in Questions \ {i} : messages'[j] = messages[j]
  BY UnsentIsMessage DEF Delivered, WorkspaceInv, MessagesOK
<1>3. messages'[i].phase = "over" /\ ~InFlight(i)'
  BY <1>2, UnsentIsMessage DEF InFlight
<1>4. ASSUME NEW j \in Questions
      PROVE  /\ InFlight(j)' => messages'[j].inv \in 1..created'
             /\ messages'[j].phase # "unsent" => j <= asked'
  <2>1. CASE j = i
    BY <1>3, <2>1 DEF WorkspaceInv, MessagesOK, InFlight
  <2>2. CASE j # i
    BY <1>2, <2>2 DEF WorkspaceInv, MessagesOK, InFlight, StoreUnchanged
  <2>3. QED
    BY <2>1, <2>2
<1>5. MessagesOK'
  BY <1>2, <1>4 DEF MessagesOK, InFlight
<1>6. Begun' = Begun
  BY <1>2, <1>3 DEF Begun, Early
<1>7. ThreadsOK'
  BY <1>6 DEF WorkspaceInv, ThreadsOK, StoreUnchanged
<1>8. QED
  BY <1>1, <1>2, <1>3, <1>5, <1>7

\* A message is posted, for a question that had none.
LEMMA SentKeeps ==
  ASSUME WorkspaceInv, NEW q \in Questions, messages[q].phase = "unsent",
         NEW inv \in 1..created', NEW about \in Abouts,
         messages' = [messages EXCEPT ![q] = At("sent", inv, about)],
         created' \in Nat, created <= created', asked' \in 0..MaxQuestions, asked <= asked',
         created' <= asked', q <= asked', threads' = threads
  PROVE  /\ MessagesOK' /\ ThreadsOK'
         /\ messages'[q].phase = "sent" /\ messages'[q].inv = inv /\ messages'[q].about = about
         /\ \A j \in Questions \ {q} : messages'[j] = messages[j]
<1>1. inv \in Investigation
  BY ConstantFacts DEF Investigation
<1>2. /\ At("sent", inv, about) \in Message /\ At("sent", inv, about).phase = "sent"
      /\ At("sent", inv, about).inv = inv /\ At("sent", inv, about).about = about
  BY <1>1, AtIsMessage DEF Phases
<1>3. /\ messages' \in [Questions -> Message] /\ messages'[q] = At("sent", inv, about)
      /\ \A j \in Questions \ {q} : messages'[j] = messages[j]
  BY <1>2 DEF WorkspaceInv, MessagesOK
<1>4. ASSUME NEW j \in Questions
      PROVE  /\ InFlight(j)' => messages'[j].inv \in 1..created'
             /\ messages'[j].phase # "unsent" => j <= asked'
  <2>1. CASE j = q
    BY <1>2, <1>3, <2>1
  <2>2. CASE j # q
    BY <1>3, <2>2 DEF WorkspaceInv, MessagesOK, CountsOK, InFlight, Questions
  <2>3. QED
    BY <2>1, <2>2
<1>5. MessagesOK'
  BY <1>3, <1>4 DEF MessagesOK, InFlight
<1>6. Begun' = Begun
  BY <1>2, <1>3 DEF Begun, Early
<1>7. ThreadsOK'
  BY <1>6 DEF WorkspaceInv, ThreadsOK
<1>8. QED
  BY <1>2, <1>3, <1>5, <1>7

LEMMA QuietKeeps ==
  ASSUME WorkspaceInv, StoreUnchanged, messages' = messages, asked' \in 0..MaxQuestions,
         asked <= asked'
  PROVE  StoreOK' /\ MessagesOK' /\ ThreadsOK'
<1>1. Begun' = Begun
  BY DEF Begun
<1>2. StoreOK' /\ ThreadsOK'
  BY <1>1 DEF StoreUnchanged, WorkspaceInv, StoreOK, ThreadsOK
<1>3. MessagesOK'
  BY DEF StoreUnchanged, WorkspaceInv, MessagesOK, CountsOK, InFlight, Questions
<1>4. QED
  BY <1>2, <1>3

\* The ends of a call.
LEMMA AppendedNode ==
  ASSUME NEW s \in Seq(Node), NEW x \in Node
  PROVE  /\ Append(s, x) \in Seq(Node) /\ Len(Append(s, x)) = Len(s) + 1
         /\ Len(s) \in Nat /\ Append(s, x)[Len(s) + 1] = x
         /\ \A n \in 1..Len(s) : Append(s, x)[n] = s[n]
OBVIOUS

LEMMA CallNode ==
  ASSUME WorkspaceInv, call # NoCall
  PROVE  /\ [question |-> call.question, about |-> call.about, kind |-> call.kind] \in Node
         /\ call.about \in Abouts
BY DEF WorkspaceInv, CallOK, Calls, Node, Abouts

LEMMA AnsweredKeeps ==
  ASSUME WorkspaceInv, call # NoCall, EndAnswered, restored' = restored
  PROVE  TrailOK' /\ CallOK'
<1> DEFINE x == [question |-> call.question, about |-> call.about, kind |-> call.kind]
<1>1. x \in Node /\ trail \in Seq(Node)
  BY CallNode DEF WorkspaceInv, TrailOK
<1> HIDE DEF x
<1>2. trail' \in Seq(Node) /\ Len(trail') = Len(trail) + 1 /\ Len(trail) \in Nat
  BY <1>1, AppendedNode DEF EndAnswered, x
<1>3. TrailOK'
  BY <1>2 DEF EndAnswered, WorkspaceInv, TrailOK, Abouts
<1>4. CallOK'
  BY NoCallFacts DEF EndAnswered, CallOK
<1>5. QED
  BY <1>3, <1>4

LEMMA BrokenKeeps ==
  ASSUME WorkspaceInv, EndBroken, restored' = restored
  PROVE  TrailOK' /\ CallOK'
<1>1. TrailOK'
  BY DEF EndBroken, WorkspaceInv, TrailOK, Abouts
<1>2. CallOK'
  BY NoCallFacts DEF EndBroken, CallOK
<1>3. QED
  BY <1>1, <1>2

LEMMA AwaitKeeps ==
  ASSUME WorkspaceInv, NEW c \in Calls, Await(c), bootError' \in BOOLEAN, restored' = restored,
         c.question = asked', c.at = "create" => messages'[asked'].phase = "unsent",
         c.at = "answer" => /\ messages'[asked'].phase # "unsent"
                            /\ InFlight(asked)' => messages'[asked'].about = c.about,
         c.answered => c.at = "answer" /\ messages'[asked'].phase = "over"
  PROVE  TrailOK' /\ CallOK'
<1>1. c # NoCall
  BY NoCallFacts DEF Calls
<1>2. TrailOK'
  BY DEF Await, WorkspaceInv, TrailOK, Calls, Abouts
<1>3. CallOK'
  BY <1>1 DEF Await, CallOK
<1>4. QED
  BY <1>2, <1>3

LEMMA SendKeeps ==
  ASSUME WorkspaceInv, NEW c \in Calls, NEW inv \in 1..created', Send(inv, c), ~c.answered,
         asked' \in Questions, asked <= asked', c.question = asked',
         messages[asked'].phase = "unsent",
         created' \in Nat, created <= created', created' <= asked',
         threads' = threads, restored' = restored
  PROVE  /\ MessagesOK' /\ ThreadsOK' /\ TrailOK' /\ CallOK'
         /\ call'.at # "create"
<1>0. PICK q \in Questions : q = asked'
  OBVIOUS
<1>1. /\ MessagesOK' /\ ThreadsOK' /\ messages'[q].phase = "sent"
      /\ messages'[q].about = c.about
  <2>1. c.about \in Abouts /\ asked' \in 0..MaxQuestions /\ q <= asked'
    BY <1>0 DEF Calls, Abouts, Questions
  <2>2. messages' = [messages EXCEPT ![q] = At("sent", inv, c.about)]
    BY <1>0 DEF Send
  <2>3. messages[q].phase = "unsent"
    BY <1>0
  <2> DEFINE about == c.about
  <2> HIDE DEF about
  <2>4. about \in Abouts /\ messages' = [messages EXCEPT ![q] = At("sent", inv, about)]
    BY <2>1, <2>2 DEF about
  <2>5. messages'[q].about = about /\ MessagesOK' /\ ThreadsOK' /\ messages'[q].phase = "sent"
    BY <2>1, <2>3, <2>4, SentKeeps, ZenonT(40)
  <2>6. QED
    BY <2>5 DEF about
<1>2. CASE TimelineLost(c)
  BY <1>1, <1>2, BrokenKeeps, NoCallFacts DEF Send, EndBroken
<1>3. CASE ~TimelineLost(c)
  <2> DEFINE d == [c EXCEPT !.at = "answer"]
  <2>1. d \in Calls /\ d.at = "answer" /\ d.question = q /\ d.about = c.about /\ ~d.answered
    BY <1>0 DEF Calls
  <2>2. Await(d) /\ bootError' = FALSE
    BY <1>3 DEF Send
  <2> HIDE DEF d
  <2>3. TrailOK' /\ CallOK'
    BY <1>0, <1>1, <2>1, <2>2, AwaitKeeps
  <2>4. call' = d
    BY <2>2 DEF Await
  <2>5. QED
    BY <1>1, <2>1, <2>3, <2>4
<1>4. QED
  BY <1>2, <1>3

LEMMA FetchingType ==
  ASSUME fetches \in [Policies -> FetchStates], NEW p \in Abouts
  PROVE  Fetching(p) \in [Policies -> FetchStates]
BY DEF Fetching, FetchStates, Abouts

LEMMA NewCallType ==
  ASSUME asked + 1 \in Questions, NEW about \in Abouts, NEW kind \in Kinds
  PROVE  /\ NewCall(about, kind) \in Calls /\ NewCall(about, kind).at = "create"
         /\ NewCall(about, kind).question = asked + 1 /\ ~NewCall(about, kind).answered
         /\ NewCall(about, kind).about = about /\ NewCall(about, kind).kind = kind
BY DEF NewCall, Calls, Abouts

LEMMA SubmitKeeps ==
  ASSUME WorkspaceInv, NEW about \in Abouts, NEW kind \in Kinds, SubmitQuestion(about, kind),
         seeded' \in BOOLEAN
  PROVE  WorkspaceInv'
<1> DEFINE c == NewCall(about, kind)
<1>1. /\ asked' = asked + 1 /\ asked + 1 \in Questions /\ asked \in Nat
      /\ messages[asked + 1].phase = "unsent"
  BY ConstantFacts DEF SubmitQuestion, WorkspaceInv, CountsOK, MessagesOK, Questions
<1>2. /\ c \in Calls /\ c.at = "create" /\ c.question = asked' /\ ~c.answered
  BY <1>1, NewCallType
<1>3. /\ StoreUnchanged /\ investigationId' = investigationId /\ timelines' = timelines
      /\ UNCHANGED pageVars /\ manualTimelineId' = NoPolicy /\ fetches' = Fetching(about)
  BY DEF SubmitQuestion, StoreUnchanged
<1>4. PageOK'
  BY <1>3, FetchingType DEF WorkspaceInv, PageOK, pageVars, Abouts
<1>5. StoreOK'
  BY <1>3 DEF StoreUnchanged, WorkspaceInv, StoreOK
<1> HIDE DEF c
<1>6. CASE investigationId = NoInvestigation
  <2>1. Await(c) /\ bootError' = FALSE /\ messages' = messages
    BY <1>6 DEF SubmitQuestion, c
  <2>2. MessagesOK' /\ ThreadsOK'
    BY <1>1, <1>3, <2>1, QuietKeeps DEF Questions
  <2>3. TrailOK' /\ CallOK'
    <3>1. restored' = restored /\ messages'[asked'].phase = "unsent" /\ c.at # "answer"
          /\ c.answered = FALSE
      BY <1>1, <1>2, <1>3, <2>1 DEF pageVars, Calls
    <3>2. QED
      BY <1>2, <2>1, <3>1, AwaitKeeps
  <2>4. CountsOK'
    BY <1>1, <1>3, ConstantFacts DEF WorkspaceInv, CountsOK, StoreUnchanged, Questions
  <2>5. QED
    BY <1>4, <1>5, <2>2, <2>3, <2>4 DEF WorkspaceInv
<1>7. CASE investigationId # NoInvestigation
  <2>1. Send(investigationId, c)
    BY <1>7 DEF SubmitQuestion, c
  <2>2. /\ investigationId \in 1..created' /\ created' \in Nat /\ created' <= asked'
        /\ created <= created' /\ asked <= asked' /\ threads' = threads
        /\ restored' = restored /\ messages[asked'].phase = "unsent" /\ asked' \in Questions
    BY <1>1, <1>3, <1>7
    DEF WorkspaceInv, CountsOK, StoreUnchanged, NoInvestigation, pageVars
  <2>3. MessagesOK' /\ ThreadsOK' /\ TrailOK' /\ CallOK' /\ call'.at # "create"
    BY <1>2, <2>1, <2>2, SendKeeps
  <2>4. CountsOK'
    BY <1>1, <1>3, <2>2, <2>3, ConstantFacts DEF WorkspaceInv, CountsOK, StoreUnchanged, Questions
  <2>5. QED
    BY <1>4, <1>5, <2>3, <2>4 DEF WorkspaceInv
<1>8. QED
  BY <1>6, <1>7

LEMMA FindSimilarKeeps ==
  ASSUME WorkspaceInv, NEW p \in Policies, FindSimilar(p)
  PROVE  WorkspaceInv'
<1> DEFINE c == [NewCall(p, "similar") EXCEPT
                   !.at = IF investigationId = NoInvestigation THEN "create" ELSE "similar"]
<1>1. /\ asked' = asked + 1 /\ asked + 1 \in Questions /\ asked \in Nat
      /\ messages[asked + 1].phase = "unsent"
  BY ConstantFacts DEF FindSimilar, WorkspaceInv, CountsOK, MessagesOK, Questions
<1>2. /\ c \in Calls /\ c.question = asked' /\ ~c.answered
      /\ c.at = IF investigationId = NoInvestigation THEN "create" ELSE "similar"
  <2>1. /\ NewCall(p, "similar") \in Calls /\ NewCall(p, "similar").question = asked + 1
        /\ ~NewCall(p, "similar").answered
    BY <1>1, NewCallType DEF Kinds, Abouts
  <2>2. QED
    BY <1>1, <2>1 DEF Calls
<1>3. Await(c) /\ bootError' = FALSE
  BY DEF FindSimilar
<1>4. /\ StoreUnchanged /\ messages' = messages /\ investigationId' = investigationId
      /\ UNCHANGED <<fetches, timelines, seeded, restored, reloads>>
      /\ manualTimelineId' = NoPolicy
  BY DEF FindSimilar, StoreUnchanged, serverVars, timelineVars, pageVars
<1> HIDE DEF c
<1>5. StoreOK' /\ MessagesOK' /\ ThreadsOK'
  BY <1>1, <1>4, QuietKeeps DEF Questions
<1>6. TrailOK' /\ CallOK'
  <2>1. messages'[asked'].phase = "unsent" /\ c.at # "answer"
    BY <1>1, <1>2, <1>4
  <2>2. QED
    BY <1>2, <1>3, <1>4, <2>1, AwaitKeeps
<1>7. CountsOK'
  <2>1. call' = c
    BY <1>3 DEF Await
  <2>2. QED
    BY <1>1, <1>4, <2>1, ConstantFacts DEF WorkspaceInv, CountsOK, StoreUnchanged, Questions
<1>8. PageOK'
  BY <1>4 DEF WorkspaceInv, PageOK, Abouts
<1>9. QED
  BY <1>5, <1>6, <1>7, <1>8 DEF WorkspaceInv

LEMMA CreatedKeeps ==
  ASSUME WorkspaceInv, Created
  PROVE  WorkspaceInv'
<1>1. /\ call \in Calls /\ call.at = "create" /\ call.question = asked /\ asked \in Questions
      /\ messages[asked].phase = "unsent" /\ created < asked /\ created \in Nat
      /\ ~call.answered
  BY NoCallFacts DEF Created, WorkspaceInv, CallOK, CountsOK, Calls
<1>2. /\ created' = created + 1 /\ investigationId' = created + 1 /\ asked' = asked
      /\ UNCHANGED <<backend, threads, carried, restarts>>
      /\ UNCHANGED <<manualTimelineId, fetches, timelines, seeded, restored, reloads>>
  BY DEF Created, CreateInvestigation, timelineVars, pageVars
<1>3. created + 1 \in Investigation /\ created + 1 \in 1..created' /\ created' <= asked'
  BY <1>1, <1>2, ConstantFacts DEF WorkspaceInv, CountsOK, Investigation
<1>4. StoreOK'
  <2>1. NoThread \in Handles
    BY ConstantFacts DEF NoThread, Handles
  <2>2. lakebase' \in Rows /\ memory' \in Rows
    BY <1>3, <2>1 DEF Created, CreateInvestigation, WorkspaceInv, StoreOK, Rows
  <2>3. QED
    BY <1>2, <2>2 DEF WorkspaceInv, StoreOK
<1>5. PageOK'
  BY <1>2 DEF WorkspaceInv, PageOK
<1>6. CASE call.kind = "similar"
  <2> DEFINE c == [call EXCEPT !.at = "similar"]
  <2>1. c \in Calls /\ c.at = "similar" /\ c.question = asked' /\ ~c.answered
    BY <1>1, <1>2 DEF Calls
  <2>2. Await(c) /\ messages' = messages /\ bootError' = bootError
    BY <1>6 DEF Created
  <2> HIDE DEF c
  <2>3. TrailOK' /\ CallOK'
    BY <1>2, <2>1, <2>2, AwaitKeeps DEF WorkspaceInv, TrailOK
  <2>4. MessagesOK' /\ ThreadsOK'
    BY <1>1, <1>2, <2>2 DEF WorkspaceInv, MessagesOK, ThreadsOK, Begun, InFlight
  <2>5. CountsOK'
    BY <1>1, <1>2, <1>3, <2>1, <2>2 DEF Await, WorkspaceInv, CountsOK
  <2>6. QED
    BY <1>4, <1>5, <2>3, <2>4, <2>5 DEF WorkspaceInv
<1>7. CASE call.kind # "similar"
  <2>1. Send(created + 1, call)
    BY <1>7 DEF Created
  <2>2. MessagesOK' /\ ThreadsOK' /\ TrailOK' /\ CallOK' /\ call'.at # "create"
    <3>1. /\ created' \in Nat /\ created <= created' /\ asked <= asked' /\ asked' \in Questions
          /\ call.question = asked' /\ messages[asked'].phase = "unsent"
          /\ threads' = threads /\ restored' = restored
      BY <1>1, <1>2, <1>3 DEF Questions
    <3>2. QED
      BY <1>1, <1>3, <2>1, <3>1, SendKeeps
  <2>3. CountsOK'
    BY <1>1, <1>2, <1>3, <2>2 DEF WorkspaceInv, CountsOK
  <2>4. QED
    BY <1>4, <1>5, <2>2, <2>3 DEF WorkspaceInv
<1>8. QED
  BY <1>6, <1>7

\* A call that ends, while nothing happens at the back end.
LEMMA EndsKeep ==
  ASSUME WorkspaceInv, call # NoCall, EndAnswered \/ EndBroken,
         UNCHANGED <<serverVars, manualTimelineId, investigationId, timelineVars, asked,
                     seeded, pageVars>>
  PROVE  WorkspaceInv'
<1>1. /\ StoreUnchanged /\ messages' = messages /\ asked' = asked
      /\ investigationId' = investigationId
      /\ UNCHANGED <<manualTimelineId, fetches, timelines, seeded, restored, reloads>>
  BY DEF StoreUnchanged, serverVars, timelineVars, pageVars
<1>2. StoreOK' /\ MessagesOK' /\ ThreadsOK'
  BY <1>1, QuietKeeps DEF WorkspaceInv, CountsOK
<1>3. TrailOK' /\ CallOK'
  BY <1>1, AnsweredKeeps, BrokenKeeps
<1>4. CountsOK'
  BY <1>1, NoCallFacts DEF EndAnswered, EndBroken, WorkspaceInv, CountsOK, StoreUnchanged
<1>5. PageOK'
  BY <1>1 DEF WorkspaceInv, PageOK
<1>6. QED
  BY <1>2, <1>3, <1>4, <1>5 DEF WorkspaceInv

LEMMA CallEndsKeep ==
  ASSUME WorkspaceInv, CallFails \/ SimilarArrives
  PROVE  WorkspaceInv'
BY EndsKeep, NoCallFacts DEF CallFails, SimilarArrives

LEMMA ResponseKeeps ==
  ASSUME WorkspaceInv, NEW i \in Questions, AnswerArrives(i) \/ FailureArrives(i)
  PROVE  WorkspaceInv'
<1>1. /\ InFlight(i) /\ messages[i].phase \notin Early /\ Delivered(i) /\ StoreUnchanged
      /\ UNCHANGED <<manualTimelineId, investigationId, fetches, timelines, asked, seeded,
                     restored, reloads>>
  BY DEF AnswerArrives, FailureArrives, InFlight, Early, StoreUnchanged, timelineVars, pageVars
<1>2. /\ StoreOK' /\ MessagesOK' /\ ThreadsOK'
      /\ messages'[i].phase = "over" /\ ~InFlight(i)'
      /\ \A j \in Questions \ {i} : messages'[j] = messages[j]
  BY <1>1, DeliveredKeeps
<1>3. PageOK'
  BY <1>1 DEF WorkspaceInv, PageOK
<1>4. CASE UNCHANGED <<trail, activeIndex, call, genieLoading, liveTimelineId, bootError>>
  <2>1. TrailOK' /\ CountsOK'
    BY <1>1, <1>4 DEF WorkspaceInv, TrailOK, CountsOK, StoreUnchanged
  <2>2. CallOK'
    <3>1. CASE call = NoCall
      BY <1>1, <1>4, <3>1, NoCallFacts DEF WorkspaceInv, CallOK
    <3>2. CASE call # NoCall
      <4>1. asked \in Questions
        BY <3>2 DEF WorkspaceInv, CallOK, Calls
      <4>2. messages'[asked] = messages[asked] \/ asked = i
        BY <1>2, <4>1
      <4>3. QED
        BY <1>1, <1>2, <1>4, <4>2 DEF WorkspaceInv, CallOK, InFlight, Early
    <3>3. QED
      BY <3>1, <3>2
  <2>3. QED
    BY <1>2, <1>3, <2>1, <2>2 DEF WorkspaceInv
<1>5. CASE call # NoCall /\ (EndAnswered \/ EndBroken)
  <2>1. TrailOK' /\ CallOK'
    BY <1>1, <1>5, AnsweredKeeps, BrokenKeeps
  <2>2. CountsOK'
    BY <1>1, <1>5, NoCallFacts
    DEF EndAnswered, EndBroken, WorkspaceInv, CountsOK, StoreUnchanged
  <2>3. QED
    BY <1>2, <1>3, <2>1, <2>2 DEF WorkspaceInv
<1>6. CASE Awaits(i) /\ Await([call EXCEPT !.answered = TRUE]) /\ bootError' = bootError
  <2> DEFINE c == [call EXCEPT !.answered = TRUE]
  <2>1. /\ call \in Calls /\ call.at = "answer" /\ call.question = asked /\ asked = i
    BY <1>6, NoCallFacts DEF Awaits, WorkspaceInv, CallOK
  <2>2. /\ c \in Calls /\ c.at = "answer" /\ c.question = asked'
    BY <1>1, <2>1 DEF Calls
  <2> HIDE DEF c
  <2>3. Await(c)
    BY <1>6 DEF c
  <2>4. TrailOK' /\ CallOK'
    <3>1. messages'[asked'].phase = "over" /\ ~InFlight(asked)'
      BY <1>1, <1>2, <2>1 DEF InFlight
    <3>2. restored' = restored /\ bootError' \in BOOLEAN
      BY <1>1, <1>6 DEF WorkspaceInv, TrailOK
    <3>3. QED
      BY <2>2, <2>3, <3>1, <3>2, AwaitKeeps
  <2>5. CountsOK'
    BY <1>1, <2>2, <2>3 DEF Await, WorkspaceInv, CountsOK, StoreUnchanged
  <2>6. QED
    BY <1>2, <1>3, <2>4, <2>5 DEF WorkspaceInv
<1>7. Awaits(i) => call # NoCall
  BY NoCallFacts DEF Awaits
<1>8. QED
  BY <1>4, <1>5, <1>6, <1>7 DEF AnswerArrives, FailureArrives

LEMMA TimelineKeeps ==
  ASSUME WorkspaceInv, NEW p \in Policies, TimelineStep(p)
  PROVE  WorkspaceInv'
<1>1. /\ StoreUnchanged /\ messages' = messages /\ asked' = asked
      /\ UNCHANGED <<manualTimelineId, investigationId, seeded, restored, reloads>>
  BY DEF TimelineStep, StoreUnchanged, serverVars, pageVars
<1>2. StoreOK' /\ MessagesOK' /\ ThreadsOK'
  BY <1>1, QuietKeeps DEF WorkspaceInv, CountsOK
<1>3. PageOK'
  BY <1>1 DEF TimelineStep, TimelineRead, TimelineArrives, TimelineFails, Snapshot,
              WorkspaceInv, PageOK, FetchStates, Snapshots
<1>4. \/ UNCHANGED <<trail, activeIndex, call, genieLoading, liveTimelineId, bootError>>
      \/ call # NoCall /\ (EndAnswered \/ EndBroken)
  BY NoCallFacts DEF TimelineStep, TimelineRead, TimelineArrives, TimelineFails
<1>5. TrailOK' /\ CallOK' /\ CountsOK'
  <2>1. CASE UNCHANGED <<trail, activeIndex, call, genieLoading, liveTimelineId, bootError>>
    BY <1>1, <2>1 DEF WorkspaceInv, TrailOK, CallOK, CountsOK, InFlight, StoreUnchanged
  <2>2. CASE call # NoCall /\ (EndAnswered \/ EndBroken)
    <3>1. TrailOK' /\ CallOK'
      BY <1>1, <2>2, AnsweredKeeps, BrokenKeeps
    <3>2. CountsOK'
      BY <1>1, <2>2, NoCallFacts
      DEF EndAnswered, EndBroken, WorkspaceInv, CountsOK, StoreUnchanged
    <3>3. QED
      BY <3>1, <3>2
  <2>3. QED
    BY <1>4, <2>1, <2>2
<1>6. QED
  BY <1>2, <1>3, <1>5 DEF WorkspaceInv

\* The steps that leave the call and the back end alone.
LEMMA LookingKeeps ==
  ASSUME WorkspaceInv,
         \/ \E p \in Policies : OpenPolicyTimeline(p)
         \/ \E index \in DOMAIN trail : GoToNode(index)
         \/ FetchDisplayed
  PROVE  WorkspaceInv'
<1>1. /\ StoreUnchanged /\ messages' = messages /\ asked' = asked
      /\ UNCHANGED <<trail, liveTimelineId, genieLoading, call, bootError, investigationId,
                     timelines, seeded, restored, reloads>>
  BY DEF OpenPolicyTimeline, GoToNode, FetchDisplayed, StoreUnchanged, serverVars,
         timelineVars, pageVars
<1>2. StoreOK' /\ MessagesOK' /\ ThreadsOK'
  BY <1>1, QuietKeeps DEF WorkspaceInv, CountsOK
<1>3. CallOK' /\ CountsOK'
  BY <1>1 DEF WorkspaceInv, CallOK, CountsOK, InFlight, StoreUnchanged
<1>4. activeIndex' \in 0..Len(trail) /\ (activeIndex' = 0 => trail = <<>>)
  <2>1. CASE \E index \in DOMAIN trail : GoToNode(index)
    BY <2>1 DEF GoToNode, WorkspaceInv, TrailOK
  <2>2. CASE activeIndex' = activeIndex
    BY <2>2 DEF WorkspaceInv, TrailOK
  <2>3. QED
    BY <2>1, <2>2 DEF OpenPolicyTimeline, FetchDisplayed
<1>5. TrailOK'
  BY <1>1, <1>4 DEF WorkspaceInv, TrailOK
<1>6. Displayed \in Abouts
  <2>1. activeIndex # 0 => trail[activeIndex] \in Node
    BY DEF WorkspaceInv, TrailOK
  <2>2. QED
    BY <2>1 DEF Displayed, WorkspaceInv, TrailOK, PageOK, Node, Abouts
<1>7. fetches' \in [Policies -> FetchStates] /\ manualTimelineId' \in Abouts
  <2>1. fetches' = fetches \/ \E p \in Abouts : fetches' = Fetching(p)
    BY <1>6 DEF OpenPolicyTimeline, GoToNode, FetchDisplayed, timelineVars, Abouts
  <2>2. QED
    BY <2>1, FetchingType
    DEF OpenPolicyTimeline, GoToNode, FetchDisplayed, WorkspaceInv, PageOK, Abouts
<1>8. PageOK'
  BY <1>1, <1>7 DEF WorkspaceInv, PageOK
<1>9. QED
  BY <1>2, <1>3, <1>5, <1>8 DEF WorkspaceInv

LEMMA ReloadKeeps ==
  ASSUME WorkspaceInv, Reload
  PROVE  WorkspaceInv'
<1>1. /\ StoreUnchanged /\ messages' = messages /\ asked' = asked /\ trail' = trail
      /\ activeIndex' = activeIndex /\ restored' = Len(trail) /\ seeded' = FALSE
      /\ manualTimelineId' = NoPolicy /\ liveTimelineId' = NoPolicy /\ genieLoading' = FALSE
      /\ call' = NoCall /\ bootError' = FALSE /\ investigationId' = NoInvestigation
      /\ reloads' = reloads + 1 /\ reloads < MaxReloads
      /\ fetches' = [p \in Policies |-> "none"] /\ timelines' = [p \in Policies |-> "none"]
  BY DEF Reload, StoreUnchanged, serverVars
<1>2. StoreOK' /\ MessagesOK' /\ ThreadsOK'
  BY <1>1, QuietKeeps DEF WorkspaceInv, CountsOK
<1>3. bootError' \in BOOLEAN /\ seeded' \in BOOLEAN /\ genieLoading' = (call' # NoCall)
  BY <1>1, Zenon
<1>4. CallOK' /\ CountsOK'
  BY <1>1, <1>3, NoCallFacts
  DEF WorkspaceInv, CallOK, CountsOK, StoreUnchanged, NoInvestigation
<1>5. TrailOK'
  <2>1. Len(trail) \in Nat
    BY DEF WorkspaceInv, TrailOK
  <2>2. QED
    BY <1>1, <1>3, <2>1 DEF WorkspaceInv, TrailOK, Abouts
<1>6. PageOK'
  BY <1>1, <1>3, ConstantFacts DEF WorkspaceInv, PageOK, Abouts, FetchStates, Snapshots
<1>7. QED
  BY <1>2, <1>4, <1>5, <1>6 DEF WorkspaceInv

LEMMA WorkspaceInvStarts ==
  ASSUME Init
  PROVE  WorkspaceInv
<1>1. StoreOK /\ MessagesOK
  BY ConstantFacts, UnsentIsMessage
  DEF Init, ServerInit, StoreOK, MessagesOK, InFlight, Rows
<1>2. ThreadsOK
  BY BegunBounded DEF Init, ServerInit, ThreadsOK, Begun
<1>3. bootError \in BOOLEAN /\ seeded \in BOOLEAN /\ genieLoading = (call # NoCall)
  BY Zenon DEF Init
<1>4. CountsOK /\ CallOK
  BY <1>3, ConstantFacts, NoCallFacts DEF Init, ServerInit, CountsOK, CallOK, NoInvestigation
<1>5. TrailOK /\ PageOK
  BY <1>3, ConstantFacts DEF Init, TrailOK, PageOK, Abouts, FetchStates, Snapshots
<1>6. QED
  BY <1>1, <1>2, <1>4, <1>5 DEF WorkspaceInv

LEMMA AskKeeps ==
  ASSUME WorkspaceInv, AskSeed \/ \E about \in Abouts : Ask(about)
  PROVE  WorkspaceInv'
<1>1. CASE AskSeed
  BY <1>1, SubmitKeeps, ConstantFacts DEF AskSeed, Kinds
<1>2. ASSUME NEW about \in Abouts, Ask(about) PROVE WorkspaceInv'
  <2>1. seeded' \in BOOLEAN
    BY <1>2 DEF Ask, WorkspaceInv, PageOK
  <2>2. QED
    BY <1>2, <2>1, SubmitKeeps DEF Ask, Kinds
<1>3. QED
  BY <1>1, <1>2

LEMMA WorkspaceInvKept == WorkspaceInv /\ [Next]_vars => WorkspaceInv'
<1> SUFFICES ASSUME WorkspaceInv, [Next]_vars PROVE WorkspaceInv'
  OBVIOUS
<1>1. CASE Server
  BY <1>1, ServerKeepsInv
<1>2. CASE Page
  BY <1>2, AskKeeps, FindSimilarKeeps, TimelineKeeps, LookingKeeps, CreatedKeeps, CallEndsKeep,
     ResponseKeeps, ReloadKeeps DEF Page, Abouts
<1>3. CASE UNCHANGED vars
  <2>1. /\ StoreUnchanged /\ messages' = messages /\ asked' = asked
        /\ UNCHANGED <<trail, activeIndex, manualTimelineId, liveTimelineId, genieLoading,
                       call, bootError, investigationId, fetches, timelines, seeded,
                       restored, reloads>>
    BY <1>3 DEF vars, serverVars, clientVars, timelineVars, pageVars, StoreUnchanged
  <2>2. StoreOK' /\ MessagesOK' /\ ThreadsOK'
    BY <2>1, QuietKeeps DEF WorkspaceInv, CountsOK
  <2>3. CallOK' /\ CountsOK' /\ TrailOK' /\ PageOK'
    BY <2>1
    DEF WorkspaceInv, CallOK, CountsOK, TrailOK, PageOK, InFlight, StoreUnchanged
  <2>4. QED
    BY <2>2, <2>3 DEF WorkspaceInv
<1>4. QED
  BY <1>1, <1>2, <1>3 DEF Next

LEMMA WorkspaceInvHolds == Spec => []WorkspaceInv
<1>1. Init => WorkspaceInv
  BY WorkspaceInvStarts
<1>2. QED
  BY <1>1, WorkspaceInvKept, PTL DEF Spec

LEMMA WorkspaceInvTypes == WorkspaceInv => TypeOK
<1> SUFFICES ASSUME WorkspaceInv PROVE TypeOK
  OBVIOUS
<1>1. threads \in 0..MaxQuestions
  BY ThreadsBounded DEF WorkspaceInv
<1>2. created \in 0..MaxQuestions /\ asked \in 0..MaxQuestions
      /\ investigationId \in Investigation \cup {NoInvestigation}
  BY ConstantFacts DEF WorkspaceInv, CountsOK, Investigation, NoInvestigation
<1>3. QED
  BY <1>1, <1>2
  DEF WorkspaceInv, TypeOK, StoreOK, MessagesOK, CallOK, TrailOK, PageOK, Abouts

\* The tab and its back end keep their types: no handle, thread or Investigation
\* is out of range however questions, refreshes and restarts interleave, and the
\* node on show is one of the trail (useInvestigation.js, main.py).
THEOREM WorkspaceTypeCorrect == Spec => []TypeOK
BY WorkspaceInvHolds, WorkspaceInvTypes, PTL

-----------------------------------------------------------------------------
(* Overlaps *)

\* What OverlapsFollowFailures says of one question.
Attended(i) ==
  InFlight(i) /\ messages[i].inv = investigationId /\ investigationId # NoInvestigation
    => \/ Awaits(i)
       \/ messages[i].about # NoPolicy /\ fetches[messages[i].about] = "failed"

LEMMA OverlapsAreAttended == OverlapsFollowFailures <=> \A i \in Questions : Attended(i)
BY DEF OverlapsFollowFailures, Attended

LEMMA FailedStays ==
  ASSUME fetches \in [Policies -> FetchStates], NEW p \in Abouts,
         NEW q \in Policies, fetches[q] = "failed"
  PROVE  Fetching(p)[q] = "failed"
BY DEF Fetching, Abouts

\* A question that keeps its message, its Investigation and its wait.
LEMMA StillAttended ==
  ASSUME NEW i \in Questions, Attended(i), messages[i] \in Message,
         InFlight(i)' => /\ InFlight(i) /\ messages'[i].inv = messages[i].inv
                         /\ messages'[i].about = messages[i].about,
         investigationId' = investigationId, InFlight(i) /\ Awaits(i) => Awaits(i)',
         \A p \in Policies : fetches[p] = "failed" => fetches'[p] = "failed"
  PROVE  Attended(i)'
<1>1. messages[i].about # NoPolicy => messages[i].about \in Policies
  BY DEF Message
<1>2. QED
  BY <1>1 DEF Attended

\* A message that was just sent is awaited, or its timeline is lost.
LEMMA SentIsAttended ==
  ASSUME WorkspaceInv, NEW c \in Calls, NEW inv \in Investigation, Send(inv, c),
         c.question \in Questions,
         \A p \in Policies : fetches[p] = "failed" => fetches'[p] = "failed"
  PROVE  /\ \A i \in Questions : c.question = i => Attended(i)'
         /\ \A i \in Questions : c.question # i => messages'[i] = messages[i]
<1> DEFINE m == At("sent", inv, c.about)
<1>1. c.about \in Abouts /\ m.about = c.about
  BY AtIsMessage DEF Calls, Phases, Abouts
<1>2. messages' = [messages EXCEPT ![c.question] = m]
  BY DEF Send
<1> HIDE DEF m
<1>3. \A i \in Questions : messages'[i] = IF i = c.question THEN m ELSE messages[i]
  BY <1>2 DEF WorkspaceInv, MessagesOK
<1>4. CASE TimelineLost(c)
  <2>1. c.about \in Policies /\ fetches'[c.about] = "failed"
    BY <1>1, <1>4 DEF TimelineLost, Abouts
  <2>2. \A i \in Questions : c.question = i => messages'[i].about = c.about
    BY <1>1, <1>3
  <2>3. QED
    BY <1>3, <2>1, <2>2, ConstantFacts DEF Attended
<1>5. CASE ~TimelineLost(c)
  <2>1. call' = [c EXCEPT !.at = "answer"]
    BY <1>5 DEF Send, Await
  <2>2. call'.at = "answer" /\ call'.question = c.question
    BY <2>1 DEF Calls
  <2>3. QED
    BY <1>3, <2>2 DEF Attended, Awaits
<1>6. QED
  BY <1>4, <1>5

LEMMA SubmitAttended ==
  ASSUME WorkspaceInv, OverlapsFollowFailures, NEW about \in Abouts, NEW kind \in Kinds,
         SubmitQuestion(about, kind)
  PROVE  OverlapsFollowFailures'
<1> DEFINE c == NewCall(about, kind)
<1>1. /\ asked + 1 \in Questions /\ investigationId' = investigationId
      /\ fetches' = Fetching(about) /\ call = NoCall /\ investigationId \in Nat
  <2>1. asked \in 0..MaxQuestions /\ asked < MaxQuestions /\ created \in 0..asked
        /\ investigationId \in 0..created
    BY DEF SubmitQuestion, WorkspaceInv, CountsOK
  <2>2. asked + 1 \in Questions /\ investigationId \in Nat
    BY <2>1, ConstantFacts DEF Questions
  <2>3. call = NoCall
    BY Zenon DEF SubmitQuestion, WorkspaceInv, CallOK
  <2>4. QED
    BY <2>2, <2>3 DEF SubmitQuestion
<1>2. c \in Calls /\ c.question = asked + 1
  BY <1>1, NewCallType
<1>3. \A p \in Policies : fetches[p] = "failed" => fetches'[p] = "failed"
  BY <1>1, FailedStays DEF WorkspaceInv, PageOK
<1> HIDE DEF c
<1>4. CASE investigationId = NoInvestigation
  BY <1>1, <1>4 DEF OverlapsFollowFailures
<1>5. CASE investigationId # NoInvestigation
  <2>1. Send(investigationId, c) /\ investigationId \in Investigation
    BY <1>1, <1>5, ConstantFacts
    DEF SubmitQuestion, WorkspaceInv, CountsOK, Investigation, NoInvestigation, c
  <2>2. /\ \A i \in Questions : c.question = i => Attended(i)'
        /\ \A i \in Questions : c.question # i => messages'[i] = messages[i]
    BY <1>1, <1>2, <1>3, <2>1, SentIsAttended
  <2>3. ASSUME NEW i \in Questions, c.question # i PROVE Attended(i)'
    <3>1. Attended(i) /\ ~Awaits(i) /\ messages[i] \in Message
      BY <1>1, OverlapsAreAttended, NoCallFacts DEF Awaits, WorkspaceInv, MessagesOK
    <3>2. messages'[i] = messages[i]
      BY <2>2, <2>3
    <3>3. InFlight(i)' => InFlight(i)
      BY <3>2 DEF InFlight
    <3>4. QED
      BY <1>1, <1>3, <3>1, <3>2, <3>3, StillAttended
  <2>4. \A i \in Questions : Attended(i)'
    BY <2>2, <2>3
  <2>5. QED
    BY <2>4 DEF OverlapsFollowFailures, Attended
<1>6. QED
  BY <1>4, <1>5

LEMMA CreatedAttended ==
  ASSUME WorkspaceInv, Created
  PROVE  OverlapsFollowFailures'
<1>1. /\ call \in Calls /\ call.at = "create" /\ call.question = asked /\ asked \in Questions
      /\ messages[asked].phase = "unsent" /\ created < asked /\ created \in Nat
  BY NoCallFacts DEF Created, WorkspaceInv, CallOK, CountsOK, Calls
<1>2. investigationId' = created + 1 /\ fetches' = fetches
  BY DEF Created, timelineVars
<1>3. created + 1 \in Investigation
  BY <1>1, ConstantFacts DEF WorkspaceInv, CountsOK, Investigation
<1>4. ASSUME NEW i \in Questions, messages'[i] = messages[i] PROVE Attended(i)'
  <2>1. InFlight(i)' => messages'[i].inv \in 1..created
    BY <1>4 DEF InFlight, WorkspaceInv, MessagesOK
  <2>2. QED
    BY <1>1, <1>2, <2>1 DEF Attended
<1>5. CASE call.kind = "similar"
  <2>1. messages' = messages
    BY <1>5 DEF Created
  <2>2. QED
    BY <1>4, <2>1 DEF OverlapsFollowFailures, Attended
<1>6. CASE call.kind # "similar"
  <2>1. Send(created + 1, call)
    BY <1>6 DEF Created
  <2>2. /\ \A i \in Questions : call.question = i => Attended(i)'
        /\ \A i \in Questions : call.question # i => messages'[i] = messages[i]
    BY <1>1, <1>2, <1>3, <2>1, SentIsAttended
  <2>3. \A i \in Questions : Attended(i)'
    BY <1>4, <2>2
  <2>4. QED
    BY <2>3 DEF OverlapsFollowFailures, Attended
<1>7. QED
  BY <1>5, <1>6

LEMMA FindSimilarAttended ==
  ASSUME WorkspaceInv, OverlapsFollowFailures, NEW p \in Policies, FindSimilar(p)
  PROVE  OverlapsFollowFailures'
<1>1. call = NoCall /\ messages' = messages /\ fetches' = fetches
      /\ investigationId' = investigationId
  BY DEF FindSimilar, serverVars, timelineVars, WorkspaceInv, CallOK
<1>2. \A i \in Questions : ~Awaits(i)
  BY <1>1, NoCallFacts DEF Awaits
<1>3. QED
  BY <1>1, <1>2 DEF OverlapsFollowFailures, InFlight

LEMMA CallEndsAttended ==
  ASSUME OverlapsFollowFailures, CallFails \/ SimilarArrives
  PROVE  OverlapsFollowFailures'
<1>1. messages' = messages /\ fetches' = fetches /\ investigationId' = investigationId
      /\ \A i \in Questions : ~Awaits(i)
  BY DEF CallFails, SimilarArrives, serverVars, timelineVars, Awaits
<1>2. QED
  BY <1>1 DEF OverlapsFollowFailures, InFlight

LEMMA ResponseAttended ==
  ASSUME WorkspaceInv, OverlapsFollowFailures, NEW i \in Questions,
         AnswerArrives(i) \/ FailureArrives(i)
  PROVE  OverlapsFollowFailures'
<1>1. /\ InFlight(i) /\ messages[i].phase \notin Early /\ Delivered(i) /\ StoreUnchanged
      /\ fetches' = fetches /\ investigationId' = investigationId /\ asked' = asked
  BY DEF AnswerArrives, FailureArrives, InFlight, Early, StoreUnchanged, timelineVars
<1>2. ~InFlight(i)' /\ \A j \in Questions \ {i} : messages'[j] = messages[j]
  BY <1>1, DeliveredKeeps
<1>3. ASSUME NEW j \in Questions, j # i PROVE Awaits(j) => Awaits(j)'
  <2>1. CASE call' = call
    BY <2>1 DEF Awaits
  <2>2. CASE Awaits(i)
    BY <1>3, <2>2 DEF Awaits
  <2>3. QED
    BY <2>1, <2>2 DEF AnswerArrives, FailureArrives
<1>4. ASSUME NEW j \in Questions PROVE Attended(j)'
  <2>1. CASE j = i
    BY <1>2, <2>1 DEF Attended
  <2>2. CASE j # i
    <3>1. messages'[j] = messages[j] /\ messages[j] \in Message /\ Attended(j)
      BY <1>2, <2>2, OverlapsAreAttended DEF WorkspaceInv, MessagesOK
    <3>2. InFlight(j)' => InFlight(j)
      BY <3>1 DEF InFlight
    <3>3. QED
      BY <1>1, <1>3, <2>2, <3>1, <3>2, StillAttended
  <2>3. QED
    BY <2>1, <2>2
<1>5. QED
  BY <1>4 DEF OverlapsFollowFailures, Attended

LEMMA TimelineAttended ==
  ASSUME WorkspaceInv, OverlapsFollowFailures, NEW p \in Policies, TimelineStep(p)
  PROVE  OverlapsFollowFailures'
<1>1. messages' = messages /\ investigationId' = investigationId
  BY DEF TimelineStep, serverVars
<1>2. \A q \in Policies : fetches[q] = "failed" => fetches'[q] = "failed"
  BY DEF TimelineStep, TimelineRead, TimelineArrives, TimelineFails, WorkspaceInv, PageOK
<1>3. ASSUME NEW i \in Questions PROVE Attended(i)'
  <2>1. messages[i] \in Message /\ Attended(i) /\ (InFlight(i)' => InFlight(i))
    BY <1>1, OverlapsAreAttended DEF WorkspaceInv, MessagesOK, InFlight
  <2>2. CASE call' = call
    BY <1>1, <1>2, <2>1, <2>2, StillAttended DEF Awaits
  <2>3. CASE call.at = "answer" /\ call.answered
    <3>1. Awaits(i) => ~InFlight(i)
      BY <2>3, NoCallFacts DEF Awaits, WorkspaceInv, CallOK, InFlight
    <3>2. QED
      BY <1>1, <1>2, <2>1, <3>1, StillAttended
  <2>4. CASE call.at = "answer" /\ call.about = p /\ TimelineFails(p)
    <3>1. fetches'[p] = "failed"
      BY <2>4 DEF TimelineFails, WorkspaceInv, PageOK
    <3>2. InFlight(i) /\ Awaits(i) => messages[i].about = p
      BY <2>4, NoCallFacts DEF Awaits, WorkspaceInv, CallOK
    <3>3. CASE InFlight(i) /\ Awaits(i)
      BY <1>1, <3>1, <3>2, <3>3, ConstantFacts DEF Attended
    <3>4. CASE ~(InFlight(i) /\ Awaits(i))
      BY <1>1, <1>2, <2>1, <3>4, StillAttended
    <3>5. QED
      BY <3>3, <3>4
  <2>5. QED
    BY <2>2, <2>3, <2>4 DEF TimelineStep, TimelineRead, TimelineArrives, TimelineFails
<1>4. QED
  BY <1>3 DEF OverlapsFollowFailures, Attended

LEMMA LookingAttended ==
  ASSUME WorkspaceInv, OverlapsFollowFailures,
         \/ \E p \in Policies : OpenPolicyTimeline(p)
         \/ \E index \in DOMAIN trail : GoToNode(index)
         \/ FetchDisplayed
  PROVE  OverlapsFollowFailures'
<1>1. messages' = messages /\ call' = call /\ investigationId' = investigationId
  BY DEF OpenPolicyTimeline, GoToNode, FetchDisplayed, serverVars
<1>2. Displayed \in Abouts
  <2>1. activeIndex # 0 => trail[activeIndex] \in Node
    BY DEF WorkspaceInv, TrailOK
  <2>2. QED
    BY <2>1 DEF Displayed, WorkspaceInv, TrailOK, PageOK, Node, Abouts
<1>3. fetches' = fetches \/ \E p \in Abouts : fetches' = Fetching(p)
  BY <1>2 DEF OpenPolicyTimeline, GoToNode, FetchDisplayed, timelineVars, Abouts
<1>4. \A q \in Policies : fetches[q] = "failed" => fetches'[q] = "failed"
  BY <1>3, FailedStays DEF WorkspaceInv, PageOK
<1>5. ASSUME NEW i \in Questions PROVE Attended(i)'
  BY <1>1, <1>4, StillAttended, OverlapsAreAttended
  DEF WorkspaceInv, MessagesOK, Awaits, InFlight
<1>6. QED
  BY <1>5 DEF OverlapsFollowFailures, Attended

LEMMA ServerAttended ==
  ASSUME WorkspaceInv, OverlapsFollowFailures, Server
  PROVE  OverlapsFollowFailures'
<1>1. MessagesKeep /\ call' = call /\ fetches' = fetches /\ investigationId' = investigationId
  BY ServerMoves DEF clientVars, timelineVars
<1>2. ASSUME NEW i \in Questions PROVE Attended(i)'
  <2>1. messages[i] \in Message /\ Attended(i) /\ Keeps(i)
    BY <1>1, OverlapsAreAttended DEF MessagesKeep, WorkspaceInv, MessagesOK
  <2>2. InFlight(i)' => /\ InFlight(i) /\ messages'[i].inv = messages[i].inv
                        /\ messages'[i].about = messages[i].about
    BY <2>1 DEF Keeps, InFlight
  <2>3. QED
    BY <1>1, <2>1, <2>2, StillAttended DEF Awaits
<1>3. QED
  BY <1>2 DEF OverlapsFollowFailures, Attended

\* Within a page, a message in flight that nobody waits for is about a policy
\* whose timeline was lost: submitQuestion frees the page before its message is
\* answered only when Promise.all fails (useInvestigation.js:140-166).
THEOREM OverlapsAlwaysFollowFailures == Spec => []OverlapsFollowFailures
<1>1. Init => OverlapsFollowFailures
  BY DEF Init, OverlapsFollowFailures
<1>2. WorkspaceInv /\ OverlapsFollowFailures /\ [Next]_vars => OverlapsFollowFailures'
  <2> SUFFICES ASSUME WorkspaceInv, OverlapsFollowFailures, [Next]_vars
               PROVE  OverlapsFollowFailures'
    OBVIOUS
  <2>1. CASE Server
    BY <2>1, ServerAttended
  <2>2. CASE AskSeed \/ \E about \in Abouts : Ask(about)
    BY <2>2, SubmitAttended, ConstantFacts DEF AskSeed, Ask, Kinds
  <2>3. CASE Reload
    BY <2>3 DEF Reload, OverlapsFollowFailures
  <2>4. CASE \/ \E p \in Policies : OpenPolicyTimeline(p)
             \/ \E index \in DOMAIN trail : GoToNode(index)
             \/ FetchDisplayed
    BY <2>4, LookingAttended
  <2>5. CASE \E p \in Policies : FindSimilar(p) \/ TimelineStep(p)
    BY <2>5, FindSimilarAttended, TimelineAttended
  <2>6. CASE \E i \in Questions : AnswerArrives(i) \/ FailureArrives(i)
    BY <2>6, ResponseAttended
  <2>7. CASE Created \/ CallFails \/ SimilarArrives
    BY <2>7, CreatedAttended, CallEndsAttended
  <2>8. CASE UNCHANGED vars
    BY <2>8 DEF vars, serverVars, clientVars, timelineVars, OverlapsFollowFailures,
                InFlight, Awaits
  <2>9. QED
    BY <2>1, <2>2, <2>3, <2>4, <2>5, <2>6, <2>7, <2>8 DEF Next, Page, Abouts
<1>3. QED
  BY <1>1, <1>2, WorkspaceInvHolds, PTL DEF Spec

-----------------------------------------------------------------------------
(* The trail *)

\* What keeps the trail in order: its questions were asked before the one that
\* is awaited, and a seed question is awaited before there is a node.
TrailInv ==
  /\ TrailInOrder
  /\ \A n \in DOMAIN trail : /\ trail[n].question <= asked
                             /\ call # NoCall => trail[n].question < asked
  /\ call.kind = "seed" => trail = <<>>

\* What a step does to the trail: nothing while a call goes on or ends, nothing
\* when one begins, or the node of the call that is answered.
CallGoesOn ==
  /\ trail' = trail /\ asked' = asked
  /\ call' = NoCall \/ (call # NoCall /\ call'.kind = call.kind) \/ call' = call
CallBegins ==
  /\ trail' = trail /\ call = NoCall /\ asked' = asked + 1
  /\ call'.kind = "seed" => trail = <<>>
CallAnswered == EndAnswered /\ asked' = asked /\ call # NoCall

LEMMA TrailInvKept ==
  ASSUME WorkspaceInv, TrailInv, CallGoesOn \/ CallBegins \/ CallAnswered
  PROVE  TrailInv'
<1>1. /\ asked \in Nat /\ trail \in Seq(Node)
      /\ \A n \in DOMAIN trail : trail[n] \in Node /\ trail[n].question \in Nat
  <2>1. asked \in Nat /\ trail \in Seq(Node)
    BY ConstantFacts DEF WorkspaceInv, CountsOK, TrailOK
  <2>2. \A n \in DOMAIN trail : trail[n] \in Node
    BY <2>1
  <2>3. QED
    BY <2>1, <2>2 DEF Node, Questions
<1>2. CASE CallGoesOn
  BY <1>2, NoCallFacts DEF CallGoesOn, TrailInv, TrailInOrder
<1>3. CASE CallBegins
  BY <1>1, <1>3 DEF CallBegins, TrailInv, TrailInOrder
<1>4. CASE CallAnswered
  <2> DEFINE n1 == [question |-> call.question, about |-> call.about, kind |-> call.kind]
  <2>1. trail' = Append(trail, n1) /\ call' = NoCall /\ asked' = asked
        /\ call.question = asked
    BY <1>4 DEF CallAnswered, EndAnswered, WorkspaceInv, CallOK
  <2>2. /\ DOMAIN trail' = 1..(Len(trail) + 1) /\ DOMAIN trail = 1..Len(trail)
        /\ Len(trail) \in Nat
        /\ \A n \in DOMAIN trail : trail'[n] = trail[n]
        /\ trail'[Len(trail) + 1] = n1
    <3>1. n1 \in Node
      BY <1>4, CallNode DEF CallAnswered, WorkspaceInv
    <3> HIDE DEF n1
    <3>2. QED
      BY <1>1, <2>1, <3>1
  <2>3. n1.question = asked /\ n1.kind = call.kind
    BY <2>1
  <2> HIDE DEF n1
  <2>4. \A n \in DOMAIN trail : trail[n].question < asked
    BY <1>4 DEF CallAnswered, TrailInv
  <2>5. ASSUME NEW m \in DOMAIN trail', NEW n \in DOMAIN trail', m < n
        PROVE  trail'[m].question < trail'[n].question
    <3>1. m \in DOMAIN trail
      BY <2>2, <2>5
    <3>2. n \in DOMAIN trail \/ n = Len(trail) + 1
      BY <2>2
    <3>3. QED
      BY <2>2, <2>3, <2>4, <2>5, <3>1, <3>2 DEF TrailInv, TrailInOrder
  <2>6. ASSUME NEW n \in DOMAIN trail', trail'[n].kind = "seed"
        PROVE  n = 1
    <3>1. CASE n \in DOMAIN trail
      BY <2>2, <2>6, <3>1 DEF TrailInv, TrailInOrder
    <3>2. CASE n = Len(trail) + 1
      <4>1. trail = <<>>
        BY <2>2, <2>3, <2>6, <3>2 DEF TrailInv
      <4>2. QED
        BY <3>2, <4>1
    <3>3. QED
      BY <2>2, <3>1, <3>2
  <2>7. \A n \in DOMAIN trail' : trail'[n].question <= asked
    BY <1>1, <2>2, <2>3, <2>4
  <2>8. QED
    BY <2>1, <2>5, <2>6, <2>7, NoCallFacts DEF TrailInv, TrailInOrder
<1>5. QED
  BY <1>2, <1>3, <1>4

LEMMA SendGoesOn ==
  ASSUME NEW c \in Calls, NEW inv \in Investigation, Send(inv, c)
  PROVE  trail' = trail /\ (call' = NoCall \/ (call' \in Calls /\ call'.kind = c.kind))
<1>1. CASE TimelineLost(c)
  BY <1>1 DEF Send, EndBroken
<1>2. CASE ~TimelineLost(c)
  BY <1>2 DEF Send, Await, Calls
<1>3. QED
  BY <1>1, <1>2

LEMMA SubmitBegins ==
  ASSUME WorkspaceInv, NEW about \in Abouts, NEW kind \in Kinds,
         kind = "seed" => trail = <<>>, SubmitQuestion(about, kind)
  PROVE  CallBegins
<1>1. call = NoCall
  BY Zenon DEF SubmitQuestion, WorkspaceInv, CallOK
<1>2. asked + 1 \in Questions /\ asked' = asked + 1
  BY ConstantFacts DEF SubmitQuestion, WorkspaceInv, CountsOK, Questions
<1>3. NewCall(about, kind) \in Calls /\ NewCall(about, kind).kind = kind
  BY <1>2, NewCallType DEF NewCall
<1>4. CASE investigationId = NoInvestigation
  BY <1>1, <1>2, <1>3, <1>4 DEF SubmitQuestion, Await, CallBegins
<1>5. CASE investigationId # NoInvestigation
  <2>1. Send(investigationId, NewCall(about, kind)) /\ investigationId \in Investigation
    BY <1>5, ConstantFacts
    DEF SubmitQuestion, WorkspaceInv, CountsOK, Investigation, NoInvestigation
  <2>2. QED
    BY <1>1, <1>2, <1>3, <2>1, SendGoesOn, NoCallFacts DEF CallBegins
<1>6. QED
  BY <1>4, <1>5

LEMMA FindSimilarBegins ==
  ASSUME WorkspaceInv, NEW p \in Policies, FindSimilar(p)
  PROVE  CallBegins
<1>1. call = NoCall
  BY Zenon DEF FindSimilar, WorkspaceInv, CallOK
<1>2. trail' = trail /\ asked' = asked + 1 /\ call'.kind = "similar"
  BY DEF FindSimilar, Await, NewCall
<1>3. QED
  BY <1>1, <1>2 DEF CallBegins

LEMMA CreatedGoesOn ==
  ASSUME WorkspaceInv, Created
  PROVE  CallGoesOn
<1>1. call \in Calls /\ call # NoCall /\ asked' = asked /\ created + 1 \in Investigation
  BY NoCallFacts, ConstantFacts
  DEF Created, WorkspaceInv, CallOK, CountsOK, Investigation
<1>2. CASE call.kind = "similar"
  BY <1>1, <1>2 DEF Created, Await, CallGoesOn, Calls
<1>3. CASE call.kind # "similar"
  BY <1>1, <1>3, SendGoesOn DEF Created, CallGoesOn
<1>4. QED
  BY <1>2, <1>3

LEMMA ResponseEnds ==
  ASSUME WorkspaceInv, NEW i \in Questions, AnswerArrives(i) \/ FailureArrives(i)
  PROVE  CallGoesOn \/ CallAnswered
<1>1. asked' = asked
  BY DEF AnswerArrives, FailureArrives
<1>2. CASE Awaits(i)
  <2>1. call \in Calls /\ call # NoCall
    BY <1>2, NoCallFacts DEF Awaits, WorkspaceInv, CallOK
  <2>2. QED
    BY <1>1, <1>2, <2>1
    DEF AnswerArrives, FailureArrives, EndBroken, Await, CallGoesOn, CallAnswered, Calls
<1>3. CASE ~Awaits(i)
  BY <1>1, <1>3 DEF AnswerArrives, FailureArrives, CallGoesOn
<1>4. QED
  BY <1>2, <1>3

LEMMA TimelineEnds ==
  ASSUME NEW p \in Policies, TimelineStep(p)
  PROVE  CallGoesOn \/ CallAnswered
BY NoCallFacts
DEF TimelineStep, TimelineRead, TimelineArrives, TimelineFails, EndBroken, CallGoesOn,
    CallAnswered

LEMMA OthersGoOn ==
  ASSUME \/ Server \/ CallFails \/ Reload \/ FetchDisplayed \/ UNCHANGED vars
         \/ \E p \in Policies : OpenPolicyTimeline(p)
         \/ \E index \in DOMAIN trail : GoToNode(index)
  PROVE  CallGoesOn
BY DEF Server, CallFails, Reload, FetchDisplayed, OpenPolicyTimeline, GoToNode, EndBroken,
       vars, clientVars, CallGoesOn

\* A trail tells its investigation in order, each question once and the seed
\* first, whatever page refreshes, late answers and failures come between
\* (useInvestigation.js:133-190, the seed's effect at :241-249).
THEOREM TrailAlwaysInOrder == Spec => []TrailInOrder
<1>1. Init => TrailInv
  BY NoCallFacts DEF Init, TrailInv, TrailInOrder
<1>2. WorkspaceInv /\ TrailInv /\ [Next]_vars => TrailInv'
  <2> SUFFICES ASSUME WorkspaceInv, TrailInv, [Next]_vars
               PROVE  TrailInv'
    OBVIOUS
  <2>1. CASE AskSeed \/ \E about \in Abouts : Ask(about)
    BY <2>1, SubmitBegins, TrailInvKept, ConstantFacts DEF AskSeed, Ask, Kinds
  <2>2. CASE \E p \in Policies : FindSimilar(p) \/ TimelineStep(p)
    BY <2>2, FindSimilarBegins, TimelineEnds, TrailInvKept
  <2>3. CASE Created
    BY <2>3, CreatedGoesOn, TrailInvKept
  <2>4. CASE SimilarArrives
    <3>1. CallAnswered
      BY <2>4, NoCallFacts DEF SimilarArrives, CallAnswered
    <3>2. QED
      BY <3>1, TrailInvKept
  <2>5. CASE \E i \in Questions : AnswerArrives(i) \/ FailureArrives(i)
    BY <2>5, ResponseEnds, TrailInvKept
  <2>6. CASE \/ Server \/ CallFails \/ Reload \/ FetchDisplayed \/ UNCHANGED vars
             \/ \E p \in Policies : OpenPolicyTimeline(p)
             \/ \E index \in DOMAIN trail : GoToNode(index)
    BY <2>6, OthersGoOn, TrailInvKept
  <2>7. QED
    BY <2>1, <2>2, <2>3, <2>4, <2>5, <2>6 DEF Next, Page, Abouts
<1>3. TrailInv => TrailInOrder
  BY DEF TrailInv
<1>4. QED
  BY <1>1, <1>2, <1>3, WorkspaceInvHolds, PTL DEF Spec

-----------------------------------------------------------------------------
(* Timelines of the nodes *)

\* A fetch that is done left its snapshot, and similar policies are looked for
\* beside a timeline that is there.
WarmInv ==
  /\ NodesAreWarm
  /\ \A p \in Policies : fetches[p] = "done" => timelines[p] # "none"
  /\ call.kind = "similar" \/ call.at = "similar"
       => call.about \in Policies /\ timelines[call.about] # "none"

\* A timeline that is there stays there.
WarmStays ==
  /\ restored' = restored
  /\ \A p \in Policies : /\ timelines[p] # "none" => timelines'[p] # "none"
                         /\ fetches'[p] = "done" => \/ fetches[p] = "done"
                                                    \/ timelines'[p] # "none"

\* What a step does to the trail and the call: no node, and a call that is new
\* or what it was; or the node of a call whose timeline is there.
CallStaysWarm ==
  /\ trail' = trail
  /\ \/ call' = NoCall \/ call' = call
     \/ call'.kind \in {"typed", "seed"} /\ call'.at # "similar"
     \/ /\ call.kind = "similar" \/ call.at = "similar"
        /\ call'.about = call.about
     \/ call'.about \in Policies /\ timelines[call'.about] # "none"
     \/ call'.kind = call.kind /\ call'.at # "similar" /\ call'.about = call.about
NodeIsWarm ==
  EndAnswered /\ call # NoCall /\ (call.about # NoPolicy => timelines'[call.about] # "none")

LEMMA WarmInvKept ==
  ASSUME WorkspaceInv, WarmInv, WarmStays, CallStaysWarm \/ NodeIsWarm
  PROVE  WarmInv'
<1>1. \A p \in Policies : fetches'[p] = "done" => timelines'[p] # "none"
  BY DEF WarmInv, WarmStays
<1>2. \A n \in DOMAIN trail : n > restored /\ trail[n].about # NoPolicy
                                => timelines'[trail[n].about] # "none"
  <2>1. \A n \in DOMAIN trail : trail[n] \in Node
    BY DEF WorkspaceInv, TrailOK
  <2>2. \A n \in DOMAIN trail : trail[n].about \in Abouts
    BY <2>1 DEF Node, Abouts
  <2>3. QED
    BY <2>2 DEF WarmInv, WarmStays, NodesAreWarm, Abouts
<1>3. CASE CallStaysWarm
  BY <1>1, <1>2, <1>3, NoCallFacts DEF CallStaysWarm, WarmInv, WarmStays, NodesAreWarm
<1>4. CASE NodeIsWarm
  <2> DEFINE n1 == [question |-> call.question, about |-> call.about, kind |-> call.kind]
  <2>1. trail' = Append(trail, n1) /\ call' = NoCall
    BY <1>4 DEF NodeIsWarm, EndAnswered
  <2>2. n1 \in Node /\ n1.about = call.about
    BY <1>4, CallNode DEF NodeIsWarm, WorkspaceInv
  <2> HIDE DEF n1
  <2>3. /\ DOMAIN trail' = 1..(Len(trail) + 1) /\ DOMAIN trail = 1..Len(trail)
        /\ Len(trail) \in Nat
        /\ \A n \in DOMAIN trail : trail'[n] = trail[n]
        /\ trail'[Len(trail) + 1] = n1
    BY <2>1, <2>2 DEF WorkspaceInv, TrailOK
  <2>4. NodesAreWarm'
    BY <1>2, <1>4, <2>2, <2>3 DEF NodesAreWarm, NodeIsWarm, WarmStays
  <2>5. QED
    BY <1>1, <2>1, <2>4, NoCallFacts DEF WarmInv
<1>5. QED
  BY <1>3, <1>4

LEMMA FetchingWarms ==
  ASSUME WorkspaceInv, NEW p \in Abouts, fetches' = Fetching(p) \/ fetches' = fetches,
         timelines' = timelines, restored' = restored
  PROVE  WarmStays
BY DEF Fetching, WarmStays, WorkspaceInv, PageOK, Abouts

LEMMA SubmitWarm ==
  ASSUME WorkspaceInv, NEW about \in Abouts, NEW kind \in {"typed", "seed"},
         SubmitQuestion(about, kind)
  PROVE  WarmStays /\ CallStaysWarm
<1>1. WarmStays
  BY FetchingWarms DEF SubmitQuestion, pageVars
<1>2. asked + 1 \in Questions
  BY ConstantFacts DEF SubmitQuestion, WorkspaceInv, CountsOK, Questions
<1>3. NewCall(about, kind) \in Calls /\ NewCall(about, kind).kind = kind
      /\ NewCall(about, kind).at = "create"
  BY <1>2, NewCallType DEF NewCall, Kinds
<1>4. CASE investigationId = NoInvestigation
  BY <1>1, <1>3, <1>4 DEF SubmitQuestion, Await, CallStaysWarm
<1>5. CASE investigationId # NoInvestigation
  BY <1>1, <1>3, <1>5
  DEF SubmitQuestion, Send, Await, EndBroken, CallStaysWarm, Calls
<1>6. QED
  BY <1>1, <1>4, <1>5

LEMMA FindSimilarWarm ==
  ASSUME WorkspaceInv, NEW p \in Policies, FindSimilar(p)
  PROVE  WarmStays /\ CallStaysWarm
<1>1. WarmStays
  BY DEF FindSimilar, timelineVars, pageVars, WarmStays
<1>2. trail' = trail /\ call'.about = p /\ timelines[p] # "none"
  BY DEF FindSimilar, Await, NewCall
<1>3. QED
  BY <1>1, <1>2 DEF CallStaysWarm

LEMMA CreatedWarm ==
  ASSUME WorkspaceInv, Created
  PROVE  WarmStays /\ CallStaysWarm
<1>1. WarmStays
  BY DEF Created, timelineVars, pageVars, WarmStays
<1>2. call \in Calls
  BY NoCallFacts DEF Created, WorkspaceInv, CallOK
<1>3. CASE call.kind = "similar"
  BY <1>1, <1>2, <1>3 DEF Created, Await, CallStaysWarm, Calls
<1>4. CASE call.kind # "similar"
  BY <1>1, <1>2, <1>4 DEF Created, Send, Await, EndBroken, CallStaysWarm, Calls
<1>5. QED
  BY <1>1, <1>3, <1>4

LEMMA ResponseWarm ==
  ASSUME WorkspaceInv, WarmInv, NEW i \in Questions, AnswerArrives(i) \/ FailureArrives(i)
  PROVE  WarmStays /\ (CallStaysWarm \/ NodeIsWarm)
<1>1. WarmStays /\ timelines' = timelines
  BY DEF AnswerArrives, FailureArrives, timelineVars, pageVars, WarmStays
<1>2. CASE Awaits(i)
  <2>1. call \in Calls /\ call # NoCall /\ call.at = "answer"
    BY <1>2, NoCallFacts DEF Awaits, WorkspaceInv, CallOK
  <2>2. CASE AnswerArrives(i) /\ TimelineReady(call)
    <3>1. call.about # NoPolicy => timelines[call.about] # "none"
      BY <2>1, <2>2 DEF TimelineReady, WarmInv, Calls
    <3>2. QED
      BY <1>1, <1>2, <2>1, <2>2, <3>1 DEF AnswerArrives, NodeIsWarm
  <2>3. CASE AnswerArrives(i) /\ ~TimelineReady(call)
    BY <1>1, <1>2, <2>1, <2>3 DEF AnswerArrives, Await, CallStaysWarm, Calls
  <2>4. CASE FailureArrives(i)
    BY <1>1, <1>2, <2>4 DEF FailureArrives, EndBroken, CallStaysWarm
  <2>5. QED
    BY <2>2, <2>3, <2>4
<1>3. CASE ~Awaits(i)
  BY <1>1, <1>3 DEF AnswerArrives, FailureArrives, CallStaysWarm
<1>4. QED
  BY <1>2, <1>3

LEMMA TimelineWarm ==
  ASSUME WorkspaceInv, NEW p \in Policies, TimelineStep(p)
  PROVE  WarmStays /\ (CallStaysWarm \/ NodeIsWarm)
<1>1. CASE TimelineRead(p) \/ TimelineFails(p)
  BY <1>1 DEF TimelineStep, TimelineRead, TimelineFails, pageVars, WarmStays, EndBroken,
              CallStaysWarm, WorkspaceInv, PageOK
<1>2. ASSUME NEW outcome \in {"rows", "no_rows", "no_access"}, TimelineArrives(p, outcome)
      PROVE  WarmStays /\ (CallStaysWarm \/ NodeIsWarm)
  <2>1. timelines'[p] # "none" /\ \A q \in Policies \ {p} : timelines'[q] = timelines[q]
        /\ fetches'[q] = fetches[q]
    BY <1>2 DEF TimelineArrives, Snapshot, WorkspaceInv, PageOK
  <2>2. WarmStays
    BY <2>1 DEF TimelineStep, pageVars, WarmStays
  <2>3. CallStaysWarm \/ NodeIsWarm
    BY <1>2, <2>1, NoCallFacts DEF TimelineArrives, CallStaysWarm, NodeIsWarm
  <2>4. QED
    BY <2>2, <2>3
<1>3. QED
  BY <1>1, <1>2 DEF TimelineStep

LEMMA LookingWarm ==
  ASSUME WorkspaceInv,
         \/ Server \/ CallFails \/ FetchDisplayed \/ UNCHANGED vars
         \/ \E p \in Policies : OpenPolicyTimeline(p)
         \/ \E index \in DOMAIN trail : GoToNode(index)
  PROVE  WarmStays /\ CallStaysWarm
<1>1. Displayed \in Abouts
  <2>1. activeIndex # 0 => trail[activeIndex] \in Node
    BY DEF WorkspaceInv, TrailOK
  <2>2. QED
    BY <2>1 DEF Displayed, WorkspaceInv, TrailOK, PageOK, Node, Abouts
<1>2. /\ fetches' = fetches \/ \E p \in Abouts : fetches' = Fetching(p)
      /\ timelines' = timelines /\ restored' = restored
  BY <1>1 DEF Server, CallFails, FetchDisplayed, OpenPolicyTimeline, GoToNode, vars,
              clientVars, timelineVars, pageVars, Abouts
<1>3. WarmStays
  BY <1>2, FetchingWarms DEF Abouts
<1>4. CallStaysWarm
  BY DEF Server, CallFails, FetchDisplayed, OpenPolicyTimeline, GoToNode, EndBroken, vars,
         clientVars, CallStaysWarm
<1>5. QED
  BY <1>3, <1>4

LEMMA ReloadWarm ==
  ASSUME WorkspaceInv, Reload
  PROVE  WarmInv'
<1>1. restored' = Len(trail) /\ trail' = trail /\ trail \in Seq(Node)
  BY DEF Reload, WorkspaceInv, TrailOK
<1>2. NodesAreWarm'
  BY <1>1 DEF NodesAreWarm
<1>3. QED
  BY <1>2, NoCallFacts DEF Reload, WarmInv

\* Going to a node made since the page was loaded fetches nothing: its timeline
\* came with its answer (useInvestigation.js:251-253).
THEOREM NodesAlwaysWarm == Spec => []NodesAreWarm
<1>1. Init => WarmInv
  BY NoCallFacts DEF Init, WarmInv, NodesAreWarm
<1>2. WorkspaceInv /\ WarmInv /\ [Next]_vars => WarmInv'
  <2> SUFFICES ASSUME WorkspaceInv, WarmInv, [Next]_vars
               PROVE  WarmInv'
    OBVIOUS
  <2>1. CASE AskSeed \/ \E about \in Abouts : Ask(about)
    BY <2>1, SubmitWarm, WarmInvKept, ConstantFacts DEF AskSeed, Ask
  <2>2. CASE \E p \in Policies : FindSimilar(p) \/ TimelineStep(p)
    BY <2>2, FindSimilarWarm, TimelineWarm, WarmInvKept
  <2>3. CASE Created
    BY <2>3, CreatedWarm, WarmInvKept
  <2>4. CASE SimilarArrives
    <3>1. WarmStays
      BY <2>4 DEF SimilarArrives, timelineVars, pageVars, WarmStays
    <3>2. NodeIsWarm
      BY <2>4, NoCallFacts DEF SimilarArrives, timelineVars, NodeIsWarm, WarmInv
    <3>3. QED
      BY <3>1, <3>2, WarmInvKept
  <2>5. CASE \E i \in Questions : AnswerArrives(i) \/ FailureArrives(i)
    BY <2>5, ResponseWarm, WarmInvKept
  <2>6. CASE Reload
    BY <2>6, ReloadWarm
  <2>7. CASE \/ Server \/ CallFails \/ FetchDisplayed \/ UNCHANGED vars
             \/ \E p \in Policies : OpenPolicyTimeline(p)
             \/ \E index \in DOMAIN trail : GoToNode(index)
    BY <2>7, LookingWarm, WarmInvKept
  <2>8. QED
    BY <2>1, <2>2, <2>3, <2>4, <2>5, <2>6, <2>7 DEF Next, Page, Abouts
<1>3. WarmInv => NodesAreWarm
  BY DEF WarmInv
<1>4. QED
  BY <1>1, <1>2, <1>3, WorkspaceInvHolds, PTL DEF Spec

-----------------------------------------------------------------------------
(* Conversations *)

Clean == \A p \in Policies : fetches[p] # "failed"

\* Of an Investigation that is not created yet nothing is stored.
Fresh == \A inv \in Investigation :
           inv > created => lakebase[inv] = Missing /\ memory[inv] = Missing /\ carried[inv] = {}

\* A row holds the one thread that was ever saved, and a handler that has read
\* it carries what it still holds, or what it lacked.
Agrees(row, saved) == row = Missing \/ saved = {row} \ {NoThread}
Matches(m, row) ==
  /\ m.phase \in {"read", "asked", "told"} => row # Missing
  /\ m.phase \in {"read", "asked"} => m.handle = row
  /\ row # NoThread => /\ m.phase = "asked" => m.thread = row
                       /\ m.phase = "told" => m.handle = row

OneThread(inv) ==
  /\ lakebase[inv] = Missing \/ memory[inv] = Missing
  /\ Agrees(lakebase[inv], carried[inv]) /\ Agrees(memory[inv], carried[inv])
  /\ \E h \in Handles : carried[inv] \subseteq {h}
  /\ \A i \in Questions : messages[i].inv = inv => Matches(messages[i], Stored(inv))

ConversationInv ==
  Fresh /\ (Clean /\ investigationId # NoInvestigation => OneThread(investigationId))

LEMMA OneInFlight ==
  ASSUME OverlapsFollowFailures, Clean, investigationId # NoInvestigation,
         NEW i \in Questions, NEW j \in Questions,
         InFlight(i), messages[i].inv = investigationId,
         InFlight(j), messages[j].inv = investigationId,
         messages \in [Questions -> Message]
  PROVE  i = j
<1>1. ASSUME NEW k \in Questions, InFlight(k), messages[k].inv = investigationId
      PROVE  call.question = k
  <2>1. messages[k].about # NoPolicy => messages[k].about \in Policies
    BY DEF Message
  <2>2. QED
    BY <1>1, <2>1 DEF OverlapsFollowFailures, Clean, Awaits
<1>2. QED
  BY <1>1

LEMMA MoveFacts ==
  ASSUME messages \in [Questions -> Message], NEW i \in Questions,
         NEW phase, NEW handle, NEW thread, Move(i, phase, handle, thread)
  PROVE  /\ messages'[i].phase = phase /\ messages'[i].inv = messages[i].inv
         /\ messages'[i].handle = handle /\ messages'[i].thread = thread
         /\ \A j \in Questions \ {i} : messages'[j] = messages[j]
BY DEF Move

\* Messages that are idle or that stay, over a store that stays.
Idle(m) == m.phase \notin {"read", "asked", "told"}
StoreStays == UNCHANGED <<backend, lakebase, memory, carried, created>>

LEMMA IdleMatches ==
  ASSUME NEW m, NEW row, Idle(m)
  PROVE  Matches(m, row)
BY DEF Idle, Matches

LEMMA ConversationStays ==
  ASSUME ConversationInv, StoreStays, investigationId' = investigationId,
         \A p \in Policies : fetches[p] = "failed" => fetches'[p] = "failed",
         \A i \in Questions : \/ messages'[i] = messages[i] \/ Idle(messages'[i])
                              \/ /\ messages'[i].inv = messages[i].inv
                                 /\ messages[i].inv = investigationId
                                    /\ Matches(messages[i], Stored(investigationId))
                                    => Matches(messages'[i], Stored(investigationId))
  PROVE  ConversationInv'
<1>1. Fresh'
  BY DEF StoreStays, Fresh, ConversationInv
<1>2. SUFFICES ASSUME Clean', investigationId # NoInvestigation
               PROVE  OneThread(investigationId)'
  BY <1>1 DEF ConversationInv
<1>3. OneThread(investigationId) /\ Stored(investigationId)' = Stored(investigationId)
  BY <1>2 DEF ConversationInv, Clean, StoreStays, Stored
<1>4. ASSUME NEW i \in Questions, messages'[i].inv = investigationId
      PROVE  Matches(messages'[i], Stored(investigationId))
  <2>1. CASE messages'[i] = messages[i]
    BY <1>3, <1>4, <2>1 DEF OneThread
  <2>2. CASE Idle(messages'[i])
    BY <2>2, IdleMatches
  <2>3. CASE ~(messages'[i] = messages[i] \/ Idle(messages'[i]))
    BY <1>3, <1>4, <2>3 DEF OneThread
  <2>4. QED
    BY <2>1, <2>2, <2>3
<1>5. QED
  BY <1>3, <1>4 DEF OneThread, StoreStays

LEMMA HandlerMatches ==
  ASSUME WorkspaceInv, NEW i \in Questions,
         \/ ReadHandle(i) \/ AskGenie(i) \/ AskRefused(i) \/ GenieAnswers(i)
         \/ GenieTimesOut(i) \/ StoreFails(i)
  PROVE  /\ StoreStays
         /\ messages'[i].inv = messages[i].inv
         /\ Matches(messages[i], Stored(messages[i].inv))
            => Matches(messages'[i], Stored(messages[i].inv))
         /\ \A j \in Questions \ {i} : messages'[j] = messages[j]
<1> DEFINE m == messages[i]
           row == Stored(m.inv)
<1>0. messages \in [Questions -> Message]
  BY DEF WorkspaceInv, MessagesOK
<1> HIDE DEF row
<1>1. CASE ReadHandle(i)
  <2>1. StoreStays /\ (IF row = Missing THEN Move(i, "failed", NoThread, NoThread)
                       ELSE Move(i, "read", row, NoThread))
    BY <1>1 DEF ReadHandle, StoreStays, row
  <2>2. CASE row = Missing
    BY <1>0, <2>1, <2>2, MoveFacts DEF Matches, row
  <2>3. CASE row # Missing
    <3>1. Move(i, "read", row, NoThread)
      BY <2>1, <2>3
    <3>2. messages'[i].phase = "read" /\ messages'[i].handle = row
          /\ messages'[i].inv = messages[i].inv
          /\ \A j \in Questions \ {i} : messages'[j] = messages[j]
      BY <1>0, <3>1, MoveFacts
    <3>3. QED
      BY <2>1, <2>3, <3>2 DEF Matches, row
  <2>4. QED
    BY <2>2, <2>3
<1>2. CASE AskGenie(i)
  <2>1. StoreStays /\ m.phase = "read"
    BY <1>2 DEF AskGenie, StoreStays
  <2>2. CASE m.handle = NoThread
    <3>1. Move(i, "asked", m.handle, threads + 1)
      BY <1>2, <2>2 DEF AskGenie
    <3>2. messages'[i].phase = "asked" /\ messages'[i].handle = m.handle
          /\ messages'[i].inv = m.inv
          /\ \A j \in Questions \ {i} : messages'[j] = messages[j]
      BY <1>0, <3>1, MoveFacts
    <3>3. QED
      BY <2>1, <2>2, <3>2 DEF Matches
  <2>3. CASE m.handle # NoThread
    <3>1. Move(i, "asked", m.handle, m.handle)
      BY <1>2, <2>3 DEF AskGenie
    <3>2. messages'[i].phase = "asked" /\ messages'[i].handle = m.handle
          /\ messages'[i].inv = m.inv /\ messages'[i].thread = m.handle
          /\ \A j \in Questions \ {i} : messages'[j] = messages[j]
      BY <1>0, <3>1, MoveFacts
    <3>3. QED
      BY <2>1, <3>2 DEF Matches
  <2>4. QED
    BY <2>2, <2>3
<1>3. CASE AskRefused(i) \/ GenieTimesOut(i)
  <2>1. StoreStays /\ m.phase \in {"read", "asked"} /\ Move(i, "told", m.handle, NoThread)
    BY <1>3 DEF AskRefused, GenieTimesOut, StoreStays
  <2>2. messages'[i].phase = "told" /\ messages'[i].handle = m.handle
        /\ messages'[i].inv = m.inv
        /\ \A j \in Questions \ {i} : messages'[j] = messages[j]
    BY <1>0, <2>1, MoveFacts
  <2>3. QED
    BY <2>1, <2>2 DEF Matches
<1>4. CASE GenieAnswers(i)
  <2>1. StoreStays /\ m.phase = "asked" /\ Move(i, "told", m.thread, NoThread)
    BY <1>4 DEF GenieAnswers, StoreStays
  <2>2. messages'[i].phase = "told" /\ messages'[i].handle = m.thread
        /\ messages'[i].inv = m.inv
        /\ \A j \in Questions \ {i} : messages'[j] = messages[j]
    BY <1>0, <2>1, MoveFacts
  <2>3. QED
    BY <2>1, <2>2 DEF Matches
<1>5. CASE StoreFails(i)
  <2>1. StoreStays /\ Move(i, "failed", NoThread, NoThread)
    BY <1>5 DEF StoreFails, StoreStays
  <2>2. messages'[i].phase = "failed" /\ messages'[i].inv = m.inv
        /\ \A j \in Questions \ {i} : messages'[j] = messages[j]
    BY <1>0, <2>1, MoveFacts
  <2>3. QED
    BY <2>1, <2>2 DEF Matches
<1>6. QED
  BY <1>1, <1>2, <1>3, <1>4, <1>5

\* Writing the handle back: the only one in flight, over the row it read.
LEMMA SaveKeepsOneThread ==
  ASSUME WorkspaceInv, OverlapsFollowFailures, ConversationInv, NEW i \in Questions,
         SaveHandle(i), fetches' = fetches, investigationId' = investigationId
  PROVE  ConversationInv'
<1> DEFINE m == messages[i]
           J == investigationId
<1>0. /\ messages \in [Questions -> Message] /\ m.phase = "told" /\ InFlight(i)
      /\ m.inv \in 1..created /\ m.inv \in Investigation /\ m.handle \in Handles
      /\ lakebase \in Rows /\ memory \in Rows /\ carried \in [Investigation -> SUBSET Questions]
      /\ Missing \notin Handles
  BY ConstantFacts
  DEF SaveHandle, InFlight, WorkspaceInv, MessagesOK, CountsOK, StoreOK, Message, Investigation,
      Missing, Handles
<1>1. /\ messages'[i].phase = "replied" /\ messages'[i].inv = m.inv
      /\ \A j \in Questions \ {i} : messages'[j] = messages[j]
  BY <1>0, MoveFacts DEF SaveHandle
<1>2. /\ \A inv \in Investigation \ {m.inv} : /\ lakebase'[inv] = lakebase[inv]
                                              /\ memory'[inv] = memory[inv]
                                              /\ carried'[inv] = carried[inv]
      /\ lakebase'[m.inv] = IF backend = "lakebase" /\ lakebase[m.inv] # Missing
                            THEN m.handle ELSE lakebase[m.inv]
      /\ memory'[m.inv] = IF backend = "memory" THEN m.handle ELSE memory[m.inv]
      /\ carried'[m.inv] = carried[m.inv] \cup ({m.handle} \ {NoThread})
      /\ backend' = backend /\ created' = created
  BY <1>0 DEF SaveHandle, WriteHandle, Rows
<1>3. Fresh'
  BY <1>0, <1>2, ConstantFacts DEF ConversationInv, Fresh, WorkspaceInv, CountsOK, Investigation
<1>4. SUFFICES ASSUME Clean, J # NoInvestigation
               PROVE  OneThread(J)'
  BY <1>3 DEF ConversationInv, Clean
<1>5. OneThread(J) /\ J \in Investigation
  BY <1>4, ConstantFacts
  DEF ConversationInv, WorkspaceInv, CountsOK, Investigation, NoInvestigation
<1>6. CASE m.inv # J
  <2>1. Stored(J)' = Stored(J)
    BY <1>2, <1>5, <1>6 DEF Stored
  <2>2. \A j \in Questions : messages'[j].inv = J => messages'[j] = messages[j]
    BY <1>1, <1>6
  <2>3. \A j \in Questions : messages'[j].inv = J => Matches(messages'[j], Stored(J)')
    BY <1>5, <2>1, <2>2 DEF OneThread
  <2>4. QED
    BY <1>2, <1>5, <1>6, <2>3 DEF OneThread
<1>7. CASE m.inv = J
  <2>1. ASSUME NEW j \in Questions, messages'[j].inv = J PROVE Idle(messages'[j])
    <3>1. CASE j = i
      BY <1>1, <3>1 DEF Idle
    <3>2. CASE j # i
      <4>1. messages'[j] = messages[j] /\ ~InFlight(j)
        BY <1>0, <1>1, <1>4, <1>7, <2>1, <3>2, OneInFlight
      <4>2. QED
        BY <4>1 DEF Idle, InFlight
    <3>3. QED
      BY <3>1, <3>2
  <2>2. \A j \in Questions : messages'[j].inv = J => Matches(messages'[j], Stored(J)')
    BY <2>1, IdleMatches
  <2>3. Stored(J) # Missing /\ (Stored(J) # NoThread => m.handle = Stored(J))
    BY <1>0, <1>5, <1>7 DEF OneThread, Matches
  <2>4. carried[J] = {Stored(J)} \ {NoThread}
    BY <1>5, <2>3 DEF OneThread, Agrees, Stored
  <2>5. carried'[J] = {m.handle} \ {NoThread}
    BY <1>2, <1>7, <2>3, <2>4
  <2>6. /\ lakebase'[J] = IF backend = "lakebase" THEN m.handle ELSE lakebase[J]
        /\ memory'[J] = IF backend = "memory" THEN m.handle ELSE memory[J]
        /\ backend \in {"lakebase", "memory"}
    BY <1>2, <1>7, <2>3 DEF Stored, WorkspaceInv, StoreOK
  <2>7. backend = "lakebase" => memory[J] = Missing
    BY <1>5, <2>3 DEF OneThread, Stored
  <2>8. backend = "memory" => lakebase[J] = Missing
    BY <1>5, <2>3 DEF OneThread, Stored
  <2>9. /\ lakebase'[J] = Missing \/ memory'[J] = Missing
        /\ Agrees(lakebase'[J], carried'[J]) /\ Agrees(memory'[J], carried'[J])
    BY <2>5, <2>6, <2>7, <2>8 DEF Agrees
  <2>10. \E h \in Handles : carried'[J] \subseteq {h}
    BY <1>0, <2>5
  <2>11. QED
    BY <1>4, <2>2, <2>9, <2>10 DEF OneThread
<1>8. QED
  BY <1>6, <1>7

LEMMA ServerConverses ==
  ASSUME WorkspaceInv, OverlapsFollowFailures, ConversationInv, Server
  PROVE  ConversationInv'
<1>1. fetches' = fetches /\ investigationId' = investigationId
  BY DEF Server, clientVars, timelineVars
<1>2. ASSUME NEW i \in Questions, Handle(i) PROVE ConversationInv'
  <2>1. CASE SaveHandle(i)
    BY <1>1, <2>1, SaveKeepsOneThread
  <2>2. CASE ~SaveHandle(i)
    <3>1. /\ StoreStays
          /\ messages'[i].inv = messages[i].inv
          /\ Matches(messages[i], Stored(messages[i].inv))
             => Matches(messages'[i], Stored(messages[i].inv))
          /\ \A j \in Questions \ {i} : messages'[j] = messages[j]
      BY <1>2, <2>2, HandlerMatches DEF Handle
    <3>2. QED
      BY <1>1, <3>1, ConversationStays
  <2>3. QED
    BY <2>1, <2>2
<1>3. CASE RestartServer
  <2>1. /\ lakebase' = lakebase /\ carried' = carried /\ created' = created
        /\ \A inv \in Investigation : memory'[inv] = Missing
    BY <1>3 DEF RestartServer
  <2>2. \A i \in Questions : Idle(messages'[i])
    <3>1. ASSUME NEW i \in Questions, InFlight(i) PROVE Idle(messages'[i])
      BY <1>3, <3>1, FallenFacts DEF RestartServer, Idle, WorkspaceInv, MessagesOK
    <3>2. ASSUME NEW i \in Questions, ~InFlight(i) PROVE Idle(messages'[i])
      BY <1>3, <3>2 DEF RestartServer, Idle, InFlight
    <3>3. QED
      BY <3>1, <3>2
  <2>3. Fresh'
    BY <2>1 DEF Fresh, ConversationInv
  <2>4. investigationId # NoInvestigation => investigationId \in Investigation
    BY ConstantFacts DEF WorkspaceInv, CountsOK, Investigation, NoInvestigation
  <2>5. ASSUME Clean, investigationId # NoInvestigation PROVE OneThread(investigationId)'
    BY <1>1, <2>1, <2>2, <2>4, <2>5, IdleMatches DEF ConversationInv, OneThread, Agrees
  <2>6. QED
    BY <1>1, <2>3, <2>5 DEF ConversationInv, Clean
<1>4. QED
  BY <1>2, <1>3 DEF Server

LEMMA SendIdles ==
  ASSUME WorkspaceInv, NEW c \in Calls, NEW inv \in Investigation, Send(inv, c)
  PROVE  \A i \in Questions : messages'[i] = messages[i] \/ Idle(messages'[i])
<1> DEFINE m == At("sent", inv, c.about)
<1>1. m.phase = "sent"
  BY DEF At
<1>2. messages' = [messages EXCEPT ![c.question] = m]
  BY DEF Send
<1> HIDE DEF m
<1>3. QED
  BY <1>1, <1>2 DEF Idle, WorkspaceInv, MessagesOK

LEMMA SubmitConverses ==
  ASSUME WorkspaceInv, ConversationInv, NEW about \in Abouts, NEW kind \in Kinds,
         SubmitQuestion(about, kind)
  PROVE  ConversationInv'
<1>1. StoreStays /\ investigationId' = investigationId /\ fetches' = Fetching(about)
  BY DEF SubmitQuestion, StoreStays
<1>2. \A p \in Policies : fetches[p] = "failed" => fetches'[p] = "failed"
  BY <1>1, FailedStays DEF WorkspaceInv, PageOK
<1>3. \A i \in Questions : messages'[i] = messages[i] \/ Idle(messages'[i])
  <2>1. CASE investigationId = NoInvestigation
    BY <2>1 DEF SubmitQuestion
  <2>2. CASE investigationId # NoInvestigation
    <3>1. Send(investigationId, NewCall(about, kind)) /\ investigationId \in Investigation
      BY <2>2, ConstantFacts
      DEF SubmitQuestion, WorkspaceInv, CountsOK, Investigation, NoInvestigation
    <3>2. NewCall(about, kind) \in Calls
      <4>1. asked + 1 \in Questions
        BY ConstantFacts DEF SubmitQuestion, WorkspaceInv, CountsOK, Questions
      <4>2. QED
        BY <4>1, NewCallType
    <3>3. QED
      BY <3>1, <3>2, SendIdles
  <2>3. QED
    BY <2>1, <2>2
<1>4. QED
  BY <1>1, <1>2, <1>3, ConversationStays

\* A new Investigation has no thread, and no message but the one just sent.
LEMMA CreatedConverses ==
  ASSUME WorkspaceInv, ConversationInv, Created
  PROVE  ConversationInv'
<1>0. PICK J \in Investigation : J = created + 1
  BY NoCallFacts, ConstantFacts DEF Created, WorkspaceInv, CallOK, CountsOK, Investigation
<1>1. /\ call \in Calls /\ created \in Nat /\ J \in Investigation /\ J > created
      /\ investigationId' = J /\ created' = J /\ backend' = backend /\ carried' = carried
      /\ lakebase \in Rows /\ memory \in Rows /\ backend \in {"lakebase", "memory"}
      /\ NoThread # Missing /\ NoThread \in Handles
  BY <1>0, NoCallFacts, ConstantFacts
  DEF Created, CreateInvestigation, WorkspaceInv, CallOK, CountsOK, StoreOK,
      NoThread, Missing, Handles
<1>2. /\ lakebase'[J] = IF backend = "lakebase" THEN NoThread ELSE lakebase[J]
      /\ memory'[J] = IF backend = "memory" THEN NoThread ELSE memory[J]
      /\ \A inv \in Investigation \ {J} : /\ lakebase'[inv] = lakebase[inv]
                                          /\ memory'[inv] = memory[inv]
  BY <1>0, <1>1 DEF Created, CreateInvestigation, Rows
<1>3. lakebase[J] = Missing /\ memory[J] = Missing /\ carried[J] = {}
  BY <1>1 DEF ConversationInv, Fresh
<1>4. Fresh'
  BY <1>1, <1>2 DEF ConversationInv, Fresh, Investigation
<1>5. ASSUME NEW i \in Questions, messages'[i].inv = J PROVE Idle(messages'[i])
  <2>1. CASE messages'[i] = messages[i]
    <3>1. ~InFlight(i)
      BY <1>1, <1>5, <2>1 DEF WorkspaceInv, MessagesOK
    <3>2. QED
      BY <2>1, <3>1 DEF InFlight, Idle
  <2>2. CASE messages'[i] # messages[i]
    BY <1>0, <1>1, <2>2, SendIdles DEF Created
  <2>3. QED
    BY <2>1, <2>2
<1>6. OneThread(J)'
  <2>1. /\ lakebase'[J] = Missing \/ memory'[J] = Missing
        /\ Agrees(lakebase'[J], carried'[J]) /\ Agrees(memory'[J], carried'[J])
        /\ carried'[J] \subseteq {NoThread}
    BY <1>1, <1>2, <1>3 DEF Agrees
  <2>2. \A i \in Questions : messages'[i].inv = J => Matches(messages'[i], Stored(J)')
    BY <1>5, IdleMatches
  <2>3. QED
    BY <1>1, <2>1, <2>2 DEF OneThread
<1>7. QED
  BY <1>1, <1>4, <1>6 DEF ConversationInv

LEMMA ResponseConverses ==
  ASSUME WorkspaceInv, ConversationInv, NEW i \in Questions,
         AnswerArrives(i) \/ FailureArrives(i)
  PROVE  ConversationInv'
<1>1. /\ InFlight(i) /\ messages[i].phase \notin Early /\ Delivered(i) /\ StoreUnchanged
      /\ fetches' = fetches /\ investigationId' = investigationId /\ asked' = asked
  BY DEF AnswerArrives, FailureArrives, InFlight, Early, StoreUnchanged, timelineVars
<1>2. messages'[i].phase = "over" /\ \A j \in Questions \ {i} : messages'[j] = messages[j]
  BY <1>1, DeliveredKeeps
<1>3. StoreStays
  BY <1>1 DEF StoreUnchanged, StoreStays
<1>4. QED
  BY <1>1, <1>2, <1>3, ConversationStays DEF Idle

LEMMA OthersConverse ==
  ASSUME WorkspaceInv, ConversationInv,
         \/ CallFails \/ SimilarArrives \/ FetchDisplayed \/ UNCHANGED vars
         \/ \E p \in Policies : FindSimilar(p) \/ TimelineStep(p) \/ OpenPolicyTimeline(p)
         \/ \E index \in DOMAIN trail : GoToNode(index)
  PROVE  ConversationInv'
<1>1. StoreStays /\ messages' = messages /\ investigationId' = investigationId
  BY DEF CallFails, SimilarArrives, FetchDisplayed, FindSimilar, TimelineStep,
         OpenPolicyTimeline, GoToNode, vars, serverVars, clientVars, StoreStays
<1>2. Displayed \in Abouts
  <2>1. activeIndex # 0 => trail[activeIndex] \in Node
    BY DEF WorkspaceInv, TrailOK
  <2>2. QED
    BY <2>1 DEF Displayed, WorkspaceInv, TrailOK, PageOK, Node, Abouts
<1>3. CASE ~\E p \in Policies : TimelineStep(p)
  <2>1. fetches' = fetches \/ \E p \in Abouts : fetches' = Fetching(p)
    BY <1>2, <1>3 DEF CallFails, SimilarArrives, FetchDisplayed, FindSimilar,
       OpenPolicyTimeline, GoToNode, vars, clientVars, timelineVars, Abouts
  <2>2. \A p \in Policies : fetches[p] = "failed" => fetches'[p] = "failed"
    BY <2>1, FailedStays DEF WorkspaceInv, PageOK
  <2>3. QED
    BY <1>1, <2>2, ConversationStays
<1>4. ASSUME NEW p \in Policies, TimelineStep(p) PROVE ConversationInv'
  <2>1. \A q \in Policies : fetches[q] = "failed" => fetches'[q] = "failed"
    BY <1>4 DEF TimelineStep, TimelineRead, TimelineArrives, TimelineFails, WorkspaceInv, PageOK
  <2>2. QED
    BY <1>1, <2>1, ConversationStays
<1>5. QED
  BY <1>3, <1>4

LEMMA ConversationIsOne ==
  ASSUME WorkspaceInv, ConversationInv
  PROVE  OneCarriedConversation
<1>1. SUFFICES ASSUME Clean, investigationId # NoInvestigation
               PROVE  Cardinality(carried[investigationId]) <= 1
  BY DEF OneCarriedConversation, Clean
<1>2. PICK h \in Handles : carried[investigationId] \subseteq {h}
  BY <1>1 DEF ConversationInv, OneThread
<1>3. IsFiniteSet({h}) /\ Cardinality({h}) = 1
  BY FS_Singleton
<1>4. QED
  BY <1>2, <1>3, FS_Subset

\* An Investigation carries one Genie conversation, through refusals, timeouts,
\* failing stores and restarts, for as long as none of the page's timelines
\* failed (genie.py:3, main.py:68-85).
THEOREM OneConversationCarried == Spec => []OneCarriedConversation
<1>1. Init => ConversationInv
  BY DEF Init, ServerInit, ConversationInv, Fresh
<1>2. WorkspaceInv /\ OverlapsFollowFailures /\ ConversationInv /\ [Next]_vars
        => ConversationInv'
  <2> SUFFICES ASSUME WorkspaceInv, OverlapsFollowFailures, ConversationInv, [Next]_vars
               PROVE  ConversationInv'
    OBVIOUS
  <2>1. CASE Server
    BY <2>1, ServerConverses
  <2>2. CASE AskSeed \/ \E about \in Abouts : Ask(about)
    BY <2>2, SubmitConverses, ConstantFacts DEF AskSeed, Ask, Kinds
  <2>3. CASE Created
    BY <2>3, CreatedConverses
  <2>4. CASE \E i \in Questions : AnswerArrives(i) \/ FailureArrives(i)
    BY <2>4, ResponseConverses
  <2>5. CASE Reload
    BY <2>5 DEF Reload, serverVars, ConversationInv, Fresh
  <2>6. CASE \/ CallFails \/ SimilarArrives \/ FetchDisplayed \/ UNCHANGED vars
             \/ \E p \in Policies : FindSimilar(p) \/ TimelineStep(p) \/ OpenPolicyTimeline(p)
             \/ \E index \in DOMAIN trail : GoToNode(index)
    BY <2>6, OthersConverse
  <2>7. QED
    BY <2>1, <2>2, <2>3, <2>4, <2>5, <2>6 DEF Next, Page, Abouts
<1>3. QED
  BY <1>1, <1>2, WorkspaceInvHolds, OverlapsAlwaysFollowFailures, ConversationIsOne, PTL
  DEF Spec

=============================================================================
