---------------------------- MODULE Investigations ----------------------------
(***************************************************************************)
(* The back end of an Investigation (app/backend main.py, genie.py,        *)
(* investigations.py and review/context.py): which Genie conversation an   *)
(* Investigation carries, and one request handler per question posted.     *)
(*                                                                         *)
(* A handler reads the conversation handle, asks Genie for up to a minute  *)
(* and writes a handle back, whatever happened meanwhile.  The handles are *)
(* kept in Lakebase, or in memory for as long as the process lives when    *)
(* Lakebase did not answer at its start.  Genie is external: it opens and  *)
(* continues threads, and it may do so for a caller that has given up.     *)
(***************************************************************************)
EXTENDS Naturals, Sequences, FiniteSets

CONSTANTS Policies,      \* policy ids a question may name
          NoPolicy,      \* no single one named
          MaxQuestions,  \* bound: the questions of the tab
          MaxRestarts    \* bound: restarts of the app

ASSUME InvestigationsAssumption ==
  NoPolicy \notin Policies /\ {MaxQuestions, MaxRestarts} \subseteq Nat

VARIABLES
  backend,   \* _store: "lakebase", or the in-memory twin
  lakebase,  \* review.investigation: the handle of each Investigation
  memory,    \* InMemoryReviewStore.investigations
  created,   \* the Investigations created so far
  threads,   \* the threads Genie has started
  carried,   \* history: the threads whose handle was ever saved
  messages,  \* the handler of each question posted
  restarts

serverVars == <<backend, lakebase, memory, created, threads, carried, messages, restarts>>

Questions      == 1..MaxQuestions
Investigation  == 1..MaxQuestions   \* a question creates one at most
NoInvestigation == 0
NoThread       == 0                 \* conversation_id is None
Missing        == MaxQuestions + 1  \* MISSING: there is no such row
Handles        == 0..MaxQuestions
Rows           == [Investigation -> Handles \cup {Missing}]

\* One handler: where it is, its arguments, the handle it would write back and
\* the thread it waits on.
Phases  == {"unsent", "sent", "read", "asked", "told", "replied", "failed", "over"}
Message == [phase : Phases, inv : Investigation \cup {NoInvestigation},
            about : Policies \cup {NoPolicy}, handle : Handles, thread : Handles]
At(phase, inv, about) == [phase |-> phase, inv |-> inv, about |-> about,
                          handle |-> NoThread, thread |-> NoThread]
Unsent    == At("unsent", NoInvestigation, NoPolicy)
Over      == At("over", NoInvestigation, NoPolicy)
Fallen(m) == At("failed", m.inv, m.about)
Move(i, phase, handle, thread) ==
  messages' = [messages EXCEPT ![i] = [phase |-> phase, inv |-> @.inv, about |-> @.about,
                                       handle |-> handle, thread |-> thread]]
InFlight(i) == messages[i].phase \notin {"unsent", "over"}

-----------------------------------------------------------------------------
(* The store. *)

Stored(inv) == IF backend = "lakebase" THEN lakebase[inv] ELSE memory[inv]

\* create_investigation, set_conversation: an UPDATE of a row that is not
\* there changes nothing; the twin's assignment creates it.
WriteHandle(inv, handle) ==
  /\ lakebase' = IF backend = "lakebase" /\ lakebase[inv] # Missing
                 THEN [lakebase EXCEPT ![inv] = handle] ELSE lakebase
  /\ memory' = IF backend = "memory" THEN [memory EXCEPT ![inv] = handle] ELSE memory

ServerInit ==
  /\ backend \in {"lakebase", "memory"}
  /\ lakebase = [inv \in Investigation |-> Missing]
  /\ memory = [inv \in Investigation |-> Missing]
  /\ created = 0
  /\ threads = 0
  /\ carried = [inv \in Investigation |-> {}]
  /\ messages = [i \in Questions |-> Unsent]
  /\ restarts = 0

\* create_investigation of main.py: a fresh id with no conversation yet.
CreateInvestigation ==
  /\ created' = created + 1
  /\ lakebase' = IF backend = "lakebase" THEN [lakebase EXCEPT ![created + 1] = NoThread]
                 ELSE lakebase
  /\ memory' = IF backend = "memory" THEN [memory EXCEPT ![created + 1] = NoThread]
               ELSE memory
  /\ UNCHANGED <<backend, threads, carried, restarts>>

-----------------------------------------------------------------------------
(* The handler of question i: post_message and ask_genie. *)

\* The handle is read; of an Investigation the store does not know the answer
\* is 404, and a store that raises answers 500.
ReadHandle(i) ==
  /\ messages[i].phase = "sent"
  /\ LET handle == Stored(messages[i].inv)
     IN IF handle = Missing THEN Move(i, "failed", NoThread, NoThread)
        ELSE Move(i, "read", handle, NoThread)
  /\ UNCHANGED <<backend, lakebase, memory, created, threads, carried, restarts>>

\* Mutant: every question starts a thread of its own.
AskAfresh(i) ==
  /\ messages[i].phase = "read"
  /\ threads' = threads + 1
  /\ Move(i, "asked", messages[i].handle, threads + 1)
  /\ UNCHANGED <<backend, lakebase, memory, created, carried, restarts>>

\* Genie takes the question: in a new thread if there is none to continue.
AskGenie(i) ==
  /\ messages[i].phase = "read"
  /\ LET handle == messages[i].handle
     IN IF handle = NoThread
        THEN threads' = threads + 1 /\ Move(i, "asked", handle, threads + 1)
        ELSE threads' = threads /\ Move(i, "asked", handle, handle)
  /\ UNCHANGED <<backend, lakebase, memory, created, carried, restarts>>

\* Genie refuses or is not configured: the handle stays what it was.
AskRefused(i) ==
  /\ messages[i].phase = "read"
  /\ Move(i, "told", messages[i].handle, NoThread)
  /\ UNCHANGED <<backend, lakebase, memory, created, threads, carried, restarts>>

\* Genie answers within GENIE_TIMEOUT_SECONDS.  _interpret_message makes a
\* status of every shape of message, of a result that cannot be fetched and of
\* one that has to be run again, and never raises; which one is not told apart.
GenieAnswers(i) ==
  /\ messages[i].phase = "asked"
  /\ Move(i, "told", messages[i].thread, NoThread)
  /\ UNCHANGED <<backend, lakebase, memory, created, threads, carried, restarts>>

\* The wait ends in an exception with the question already in the thread: a
\* thread that was started for it is known to nobody.
GenieTimesOut(i) ==
  /\ messages[i].phase = "asked"
  /\ Move(i, "told", messages[i].handle, NoThread)
  /\ UNCHANGED <<backend, lakebase, memory, created, threads, carried, restarts>>

\* store.set_conversation_id, unconditional, and the response.
SaveHandle(i) ==
  /\ messages[i].phase = "told"
  /\ WriteHandle(messages[i].inv, messages[i].handle)
  /\ carried' = [carried EXCEPT ![messages[i].inv] =
                   @ \cup ({messages[i].handle} \ {NoThread})]
  /\ Move(i, "replied", NoThread, NoThread)
  /\ UNCHANGED <<backend, created, threads, restarts>>

\* The store raises: 500, at the read or at the write.
StoreFails(i) ==
  /\ messages[i].phase \in {"sent", "told"}
  /\ backend = "lakebase"
  /\ Move(i, "failed", NoThread, NoThread)
  /\ UNCHANGED <<backend, lakebase, memory, created, threads, carried, restarts>>

\* A handler sees its question through.
Handle(i) == \/ ReadHandle(i) \/ AskGenie(i) \/ AskRefused(i)
             \/ GenieAnswers(i) \/ GenieTimesOut(i) \/ SaveHandle(i) \/ StoreFails(i)

\* The app restarts: its handlers are gone and their connections break; the
\* store is built anew (_build_store), in memory if Lakebase does not answer.
RestartServer ==
  /\ restarts < MaxRestarts
  /\ restarts' = restarts + 1
  /\ backend' \in {"lakebase", "memory"}
  /\ memory' = [inv \in Investigation |-> Missing]
  /\ messages' = [i \in Questions |->
                    IF InFlight(i) THEN Fallen(messages[i]) ELSE messages[i]]
  /\ UNCHANGED <<lakebase, created, threads, carried>>
=============================================================================
