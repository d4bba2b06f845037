------------------------ MODULE PersistentTargetProofs ------------------------
(***************************************************************************)
(* What TLAPS proves of a worker process and the client that drives it     *)
(* (PersistentTarget), for any number of concurrent calls, any size of the *)
(* pipe and every fault.  The steps are those of PersistentClientProofs.   *)
(***************************************************************************)
EXTENDS PersistentTarget, PersistentClientProofs

USE DEF processVars, clientVars, callVars, workerVars

\* One step, one lemma; a direct call is made on the first client.
LEMMA StepTyped == Typed /\ [Next]_vars => Typed'
<1> SUFFICES ASSUME Typed, [Next]_vars PROVE Typed'
  OBVIOUS
<1>1. CASE UNCHANGED vars
  BY <1>1 DEF vars, Typed, ClientTypeOK, Live, Writers
<1>2. CASE Machine
  BY <1>2, ActsTyped DEF Machine, Acts
<1>3. ASSUME NEW c \in Calls, Call(c) PROVE Typed'
  BY <1>3, RegisterTyped, ClientAssumption DEF Call
<1>4. ASSUME NEW c \in Calls, CallStep(c) PROVE Typed'
  BY <1>4, CallStepTyped
<1>5. ASSUME NEW c \in Calls, CleanupKills(c) PROVE Typed'
  <2>1. on[c] \in Clients
    BY DEF Typed, ClientTypeOK
  <2> QED
    BY <1>5, <2>1, KillTyped DEF CleanupKills
<1>6. ASSUME NEW c \in Calls, ContextEnds(c) PROVE Typed'
  BY <1>6, ContextEndsTyped
<1> QED
  BY <1>1, <1>2, <1>3, <1>4, <1>5, <1>6 DEF Next

LEMMA AlwaysTyped == Spec => []Typed
<1>1. Init => Typed
  BY InitTyped DEF Init
<1> QED
  BY <1>1, StepTyped, PTL DEF Spec

\* The state of the processes, the clients and the calls is of the expected form.
THEOREM TypeCorrect == Spec => []TypeOK
<1>1. Typed => TypeOK
  BY DEF Typed, TypeOK
<1> QED
  BY AlwaysTyped, <1>1, PTL

-----------------------------------------------------------------------------
\* The direct client is the first, and no other is ever started.
FirstOnly ==
    /\ \A c \in Calls : on[c] = 1
    /\ \A g \in Clients \ {1} : Unstarted(g)

\* Only a shutdown awaits the exit of the process.
Outlived ==
    /\ InferenceNeverOutlived
    /\ \A c \in Calls : at[c] = "exiting" => c \in Stops

\* A call has a result when it has ended.
Concluded == \A c \in Calls : result[c] # Nobody => at[c] = "ended"

Sound == Typed /\ FirstOnly /\ Placed /\ Concluded

LEMMA InitInvariants == Init => Sound /\ Outlived
<1> SUFFICES ASSUME Init PROVE Sound /\ Outlived
  OBVIOUS
<1>1. Typed /\ Placed
  BY InitTyped, InitPlaced DEF Init
<1>2. FirstOnly
  BY DEF Init, ClientInit, FirstOnly, Unstarted, Empty
<1>3. Outlived /\ Concluded
  <2>1. \A c \in Calls : at[c] = "idle" /\ result[c] = Nobody
    BY DEF Init, ClientInit
  <2>2. Nobody \notin {"canceled", "expired"} /\ Inferences \subseteq Calls
    BY NobodyAssumption, ClientAssumption DEF Results
  <2> QED
    BY <2>1, <2>2 DEF Outlived, InferenceNeverOutlived, Concluded
<1> QED
  BY <1>1, <1>2, <1>3 DEF Sound

\* Nothing moves at a client that was not started.
LEMMA FirstActs ==
    ASSUME Typed, FirstOnly, NEW g \in Clients,
           Acts(g)
    PROVE  g = 1
BY UnstartedRests DEF FirstOnly

LEMMA FirstOnlyKept == Typed /\ FirstOnly /\ [Next]_vars => FirstOnly'
<1> SUFFICES ASSUME Typed, FirstOnly, [Next]_vars PROVE FirstOnly'
  OBVIOUS
<1>1. CASE UNCHANGED vars
  BY <1>1 DEF vars, FirstOnly, Unstarted, Empty
<1>2. CASE Machine
  <2>1. Acts(1) /\ 1 \in Clients
    BY <1>2, FirstActs, ClientAssumption DEF Machine, Acts
  <2> QED
    BY <2>1, ActsLocal DEF FirstOnly, Unstarted, Empty
<1>3. ASSUME NEW c \in Calls, Call(c) PROVE FirstOnly'
  <2>1. /\ on' = [on EXCEPT ![c] = 1]
        /\ UNCHANGED <<processVars, done, writer>>
    BY <1>3 DEF Call, Register
  <2> QED
    BY <2>1 DEF FirstOnly, Unstarted, Empty, Typed, ClientTypeOK
<1>4. ASSUME NEW c \in Calls, CallStep(c) PROVE FirstOnly'
  <2>1. on[c] = 1
    BY DEF FirstOnly
  <2>2. /\ writer' = writer \/ writer' = [writer EXCEPT ![1] = [step |-> "holding", frame |-> FrameOf(c)]]
        /\ process' = process \/ process' = Killed(1)
        /\ UNCHANGED <<stdin, working, stdout, done, on>>
    BY <1>4, <2>1, CallSteps
  <2> QED
    BY <2>2 DEF FirstOnly, Unstarted, Empty, Killed, Typed, ClientTypeOK
<1>5. ASSUME NEW c \in Calls, CleanupKills(c) PROVE FirstOnly'
  <2>1. on[c] = 1
    BY DEF FirstOnly
  <2>2. /\ process' = process \/ process' = Killed(1)
        /\ UNCHANGED <<stdin, working, stdout, done, writer, on>>
    BY <1>5, <2>1 DEF CleanupKills, Kills
  <2> QED
    BY <2>2 DEF FirstOnly, Unstarted, Empty, Killed, Typed, ClientTypeOK
<1>6. ASSUME NEW c \in Calls, ContextEnds(c) PROVE FirstOnly'
  BY <1>6 DEF ContextEnds, FirstOnly, Unstarted, Empty
<1> QED
  BY <1>1, <1>2, <1>3, <1>4, <1>5, <1>6 DEF Next

-----------------------------------------------------------------------------
(***************************************************************************)
(* No inference is outlived where kills succeed: whoever gives one up      *)
(* kills its process, and a process that is gone does not come back.       *)
(***************************************************************************)

LEMMA DeadStaysDead ==
    ASSUME Typed, FirstOnly, [Next]_vars, ~Alive(1)
    PROVE  ~Alive(1)'
<1>1. CASE Machine
  BY <1>1, ActsLocal, ClientAssumption DEF Machine, Acts
<1>2. CASE process' = process \/ process' = Killed(1)
  BY <1>2, Types, ClientAssumption DEF Alive, Killed
<1>3. ASSUME NEW c \in Calls, Call(c) PROVE process' = process
  BY <1>3 DEF Call, Register
<1>4. ASSUME NEW c \in Calls, CallStep(c) PROVE process' = process \/ process' = Killed(1)
  BY <1>4, CallSteps DEF FirstOnly
<1>5. ASSUME NEW c \in Calls, CleanupKills(c) PROVE process' = process \/ process' = Killed(1)
  BY <1>5 DEF CleanupKills, Kills, FirstOnly
<1>6. ASSUME NEW c \in Calls, ContextEnds(c) PROVE process' = process
  BY <1>6 DEF ContextEnds
<1> QED
  BY <1>1, <1>2, <1>3, <1>4, <1>5, <1>6 DEF Next, vars

LEMMA OutlivedKept ==
    ASSUME Unkillable = {}
    PROVE  Sound /\ Outlived /\ [Next]_vars => Outlived'
<1> SUFFICES ASSUME Sound, Outlived, [Next]_vars PROVE Outlived'
  OBVIOUS
<1>1. /\ \A c \in Calls : on[c] = 1 /\ on'[c] = 1
      /\ Inferences \subseteq Calls /\ Stops \cap Inferences = {}
      /\ result \in [Calls -> Results \cup {Nobody}] /\ at \in [Calls -> Places]
  BY FirstOnlyKept, ClientAssumption DEF Sound, FirstOnly, Typed, ClientTypeOK
<1>2. ASSUME \A c \in Calls :
               /\ \/ result'[c] = result[c]
                  \/ result'[c] \notin {"canceled", "expired"}
                  \/ c \in Inferences => process' = Killed(1)
               /\ at'[c] = at[c] \/ at'[c] # "exiting" \/ c \in Stops
      PROVE  Outlived'
  <2>1. ASSUME NEW c \in Inferences, result'[c] \in {"canceled", "expired"}
        PROVE  ~Alive(1)'
    <3>1. CASE result'[c] = result[c]
      <4>1. ~Alive(1)
        BY <1>1, <2>1, <3>1 DEF Outlived, InferenceNeverOutlived
      <4> QED
        BY <4>1, DeadStaysDead DEF Sound
    <3>2. CASE process' = Killed(1)
      BY <3>2, Types, ClientAssumption DEF Killed, Alive, Sound
    <3> QED
      BY <1>1, <1>2, <2>1, <3>1, <3>2
  <2>2. \A c \in Calls : at'[c] = "exiting" => c \in Stops
    BY <1>2 DEF Outlived
  <2>3. InferenceNeverOutlived'
    BY <1>1, <2>1 DEF InferenceNeverOutlived, Alive
  <2> QED
    BY <2>2, <2>3 DEF Outlived
<1>3. CASE UNCHANGED <<at, result>>
  BY <1>2, <1>3
<1>4. ASSUME NEW c \in Calls, Call(c) PROVE Outlived'
  <2>1. /\ \/ result' = result
           \/ \E r \in {"not_dispatched", "gone", "duplicate"} : result' = [result EXCEPT ![c] = r]
        /\ \E p \in {"ended", "handing"} : at' = [at EXCEPT ![c] = p]
    BY <1>4 DEF Call, Register, Ends
  <2> QED
    BY <1>1, <1>2, <2>1
<1>5. ASSUME NEW c \in Calls, CallStep(c) PROVE Outlived'
  <2>1. Proceeding(c, 1)
    BY <1>1, <1>5, CallStepPlaced, ClientAssumption DEF Sound
  <2>2. CASE HandsOver(c, 1)
    BY <1>1, <1>2, <2>2 DEF HandsOver
  <2>3. CASE Declines(c)
    BY <1>1, <1>2, <2>3 DEF Declines, Ends
  <2>4. ASSUME NEW r \in Results, EndsFor(c, r) PROVE Outlived'
    <3>1. at' = [at EXCEPT ![c] = "ended"] /\ result' = [result EXCEPT ![c] = r]
      BY <2>4 DEF EndsFor, Ends
    <3>2. r \in {"canceled", "expired"} /\ c \in Inferences => process' = Killed(1)
      BY <1>1, <2>4 DEF EndsFor, Outlived, Kills
    <3> QED
      BY <1>1, <1>2, <3>1, <3>2
  <2>5. CASE \E p \in Places : GoesOn(c, p)
    BY <1>1, <1>2, <2>5 DEF GoesOn
  <2> QED
    BY <2>1, <2>2, <2>3, <2>4, <2>5 DEF Proceeding
<1>6. CASE UNCHANGED vars
  BY <1>3, <1>6 DEF vars
<1>7. CASE Machine
  <2>1. UNCHANGED <<at, result>>
    BY <1>7, ActsLocal DEF Machine, Acts, Sound
  <2> QED
    BY <1>3, <2>1
<1>8. ASSUME NEW c \in Calls, CleanupKills(c) \/ ContextEnds(c) PROVE Outlived'
  BY <1>3, <1>8 DEF CleanupKills, ContextEnds
<1> QED
  BY <1>4, <1>5, <1>6, <1>7, <1>8 DEF Next

-----------------------------------------------------------------------------
(***************************************************************************)
(* Where the requests are: whatever happens, happens on the first client.  *)
(***************************************************************************)

LEMMA ConcludedKept == Sound /\ [Next]_vars => Concluded'
<1> SUFFICES ASSUME Sound, [Next]_vars PROVE Concluded'
  OBVIOUS
<1>1. /\ result \in [Calls -> Results \cup {Nobody}] /\ at \in [Calls -> Places]
      /\ Typed /\ Placed /\ \A c \in Calls : on[c] = 1
      /\ 1 \in Clients
  BY ClientAssumption DEF Sound, FirstOnly, Typed, ClientTypeOK
<1>2. CASE UNCHANGED <<at, result>>
  BY <1>2 DEF Sound, Concluded
<1>3. ASSUME NEW c \in Calls, Call(c) PROVE Concluded'
  <2>1. \/ at' = [at EXCEPT ![c] = "ended"] /\ \E r : result' = [result EXCEPT ![c] = r]
        \/ result' = result /\ at[c] = "idle" /\ at' = [at EXCEPT ![c] = "handing"]
    BY <1>3 DEF Call, Register, Ends
  <2> QED
    BY <1>1, <2>1 DEF Sound, Concluded
<1>4. ASSUME NEW c \in Calls, CallStep(c) PROVE Concluded'
  <2>1. at[c] # "ended" /\ Proceeding(c, 1)
    BY <1>1, <1>4, CallSteps, CallStepPlaced
  <2>2. \/ at' = [at EXCEPT ![c] = "ended"] /\ \E r : result' = [result EXCEPT ![c] = r]
        \/ result' = result /\ \E p : at' = [at EXCEPT ![c] = p]
    BY <2>1 DEF Proceeding, HandsOver, Declines, EndsFor, GoesOn, Ends
  <2> QED
    BY <1>1, <2>1, <2>2 DEF Sound, Concluded
<1>5. CASE UNCHANGED vars
  BY <1>2, <1>5 DEF vars
<1>6. CASE Machine
  BY <1>1, <1>2, <1>6, ActsLocal DEF Machine, Acts
<1>7. ASSUME NEW c \in Calls, CleanupKills(c) \/ ContextEnds(c) PROVE Concluded'
  BY <1>2, <1>7 DEF CleanupKills, ContextEnds
<1> QED
  BY <1>3, <1>4, <1>5, <1>6, <1>7 DEF Next

LEMMA SoundKept == Sound /\ [Next]_vars => Sound'
<1> SUFFICES ASSUME Sound, [Next]_vars PROVE Placed'
  BY StepTyped, FirstOnlyKept, ConcludedKept DEF Sound
<1>1. 1 \in Clients /\ Typed /\ Placed /\ \A c \in Calls : on[c] = 1
  BY ClientAssumption DEF Sound, FirstOnly
<1>2. ASSUME UNCHANGED <<stdin, working, stdout, done, writer, pending,
                         at, on, id, written, answer, result, executed>>
      PROVE  Placed'
  BY <1>1, <1>2, QuietPlaced
<1>3. CASE UNCHANGED vars
  BY <1>2, <1>3 DEF vars
<1>4. ASSUME NEW c \in Calls, CleanupKills(c) \/ ContextEnds(c) PROVE Placed'
  BY <1>2, <1>4 DEF CleanupKills, ContextEnds
<1>5. CASE Machine
  <2>1. Acts(1)
    BY <1>5, FirstActs DEF Machine, Acts, Sound
  <2> QED
    BY <1>1, <2>1, ActsPlaced
<1>6. ASSUME NEW c \in Calls, Call(c) PROVE Placed'
  BY <1>1, <1>6, RegisterPlaced DEF Call
<1>7. ASSUME NEW c \in Calls, CallStep(c) PROVE Placed'
  BY <1>1, <1>7, CallStepPlaced
<1> QED
  BY <1>3, <1>4, <1>5, <1>6, <1>7 DEF Next

LEMMA AlwaysSound == Spec => []Sound
BY InitInvariants, SoundKept, PTL DEF Spec

-----------------------------------------------------------------------------
(***************************************************************************)
(* The properties.                                                         *)
(***************************************************************************)

\* "Not dispatched" is a promise, for any number of callers that end while the
\* writer has their frames, and a full pipe behind it (writeLoop,
\* src/internal/workerproc/persistent.go).
THEOREM NeverDispatched == Spec => []NotDispatchedMeansNever
<1>1. Sound => NotDispatchedMeansNever
  <2> SUFFICES ASSUME Sound, NEW c \in Calls, result[c] \in {"not_dispatched", "duplicate"}
               PROVE  Unsent(c)
    BY DEF NotDispatchedMeansNever
  <2>1. Refused(c) /\ on[c] = 1 /\ 1 \in Clients
    BY NobodyAssumption, ClientAssumption DEF Sound, Concluded, Refused, FirstOnly, Results
  <2>2. ASSUME NEW g \in Clients PROVE NowhereOn(g, c) /\ RunOn(g, c) \notin Ran
    <3>1. CASE g = 1
      BY <2>1, <3>1 DEF Sound, Placed, Located, Untouched, FreshOn
    <3>2. CASE g # 1
      <4>1. NotYet(g, c)
        BY <2>1, <3>2, ClientAssumption DEF NotYet
      <4> QED
        BY <4>1 DEF Sound, Placed, Located, Untouched, FreshOn
    <3> QED
      BY <3>1, <3>2
  <2>3. Executions(c) = 0
    BY <2>2, NeverExecuted DEF Sound
  <2> QED
    BY <2>2, <2>3 DEF Unsent, NowhereOn, OnTheWay, Sent, Held
<1> QED
  BY <1>1, AlwaysSound, PTL

\* A call gets the answer to its own request, whatever IDs the callers chose and
\* however many requests were given up (readLoop).
THEOREM AnswersOwn == Spec => []AnswerIsOwn
<1>1. Sound => AnswerIsOwn
  BY DEF Sound, Placed, Settled, AnswerIsOwn
<1> QED
  BY <1>1, AlwaysSound, PTL

\* A caller that gives up never makes the reader end the process: the answer to
\* whatever was sent finds its ID reserved.
THEOREM AnswersFound == Spec => []AnswersExpected
<1>1. Sound => AnswersExpected
  <2> SUFFICES ASSUME Sound, NEW g \in Clients, ~done[g]
               PROVE  /\ \A n \in DOMAIN stdin[g] : stdin[g][n] \in pending[g]
                      /\ working[g] # Nobody => working[g].frame \in pending[g]
                      /\ \A n \in DOMAIN stdout[g] :
                           stdout[g][n] # Garbled => stdout[g][n].frame \in pending[g]
    BY DEF AnswersExpected
  <2>1. \A f \in OnTheWay(g) : f.call \in Calls => f \in pending[g]
    BY DEF Sound, Placed, Located, Expected
  <2>2. \A f \in Sent(g) \cup Worked(g) : f \in pending[g]
    BY <2>1, PlaceTypes DEF Sound, OnTheWay
  <2>3. ASSUME NEW n \in DOMAIN stdout[g], stdout[g][n] # Garbled
        PROVE  stdout[g][n].frame \in pending[g]
    <3>1. stdout[g] \in Seq(Outcome \cup {Garbled})
      BY Types DEF Sound
    <3>2. stdout[g][n] \in Outcome
      BY <2>3, <3>1
    <3>3. stdout[g][n].frame \in OnTheWay(g) /\ stdout[g][n].frame.call \in Calls
      BY <3>2 DEF Answered, OnTheWay, Outcome, Frame
    <3> QED
      BY <2>1, <3>3
  <2> QED
    BY <2>2, <2>3 DEF Sent, Worked
<1> QED
  BY <1>1, AlwaysSound, PTL

\* Once an inference was given up, its process executes nothing more, where kills
\* succeed (Call, src/internal/workerproc/persistent.go).
THEOREM NeverOutlived ==
    ASSUME Unkillable = {}
    PROVE  Spec => []InferenceNeverOutlived
<1>1. Outlived => InferenceNeverOutlived
  BY DEF Outlived
<1> QED
  BY <1>1, InitInvariants, OutlivedKept, AlwaysSound, PTL DEF Spec
=============================================================================
