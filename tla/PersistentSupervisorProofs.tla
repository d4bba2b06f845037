---------------------- MODULE PersistentSupervisorProofs ----------------------
(***************************************************************************)
(* What TLAPS proves of the supervisor of a worker (PersistentSupervisor), *)
(* for any number of calls and of workers started one after the other, any *)
(* size of the pipe and every fault, and although a process may survive    *)
(* being killed and go on beside its successors.                           *)
(*                                                                         *)
(* The clients are those of PersistentClientProofs.  What the supervisor   *)
(* adds is that only the current one has anything to say: the earlier ones *)
(* have finished before the next is started (Succession), the gate lets    *)
(* one call at a time onto it (Gated), and a call leaves its traces on the *)
(* clients it was made on (Traced).                                        *)
(***************************************************************************)
EXTENDS PersistentSupervisor, PersistentClientProofs

USE DEF processVars, clientVars, callVars, workerVars

Supervision ==
    /\ gate \in Calls \cup {Nobody}
    /\ client \in Clients
    /\ closed \in BOOLEAN
    /\ observed \in Nat
    /\ stage \in [Calls -> Stages]
    /\ outcome \in [Calls -> Outcomes \cup {Nobody}]
    /\ sequence \in [Calls -> Nat]

Formed == Typed /\ Supervision

\* What happens to the clients while the supervisor looks on.
Unsupervised ==
    \/ \E g \in Clients : Acts(g)
    \/ \E c \in Calls : CallStep(c) \/ ContextEnds(c)
    \/ UNCHANGED workerVars

\* A step of the supervisor that makes a call on the current client.
Registers(c) ==
    /\ Register(c, client)
    /\ \/ stage[c] = "queued" /\ gate = Nobody /\ stage' = [stage EXCEPT ![c] = "calling"]
          /\ gate' = c /\ ~closed
       \/ stage[c] = "replaced" /\ stage' = [stage EXCEPT ![c] = "retrying"]
          /\ gate' = gate /\ c \in Probes
    /\ UNCHANGED <<client, closed, observed, outcome, sequence>>

\* One that returns a call which has not been made, or whose failure stands.
Quits(c) ==
    /\ stage' = [stage EXCEPT ![c] = "returned"]
    /\ \/ stage[c] = "queued" /\ outcome' = [outcome EXCEPT ![c] = "turned_away"]
          /\ gate' = gate
       \/ /\ stage[c] = "queued" /\ gate = Nobody /\ gate' = Nobody
          /\ \E how \in {"ok", "stopped"} : outcome' = [outcome EXCEPT ![c] = how]
       \/ stage[c] = "reaping" /\ outcome' = [outcome EXCEPT ![c] = "unreplaced"]
          /\ gate' = Nobody
       \/ stage[c] = "replaced" /\ outcome' = [outcome EXCEPT ![c] = result[c]]
          /\ gate' = Nobody
    /\ UNCHANGED <<workerVars, client, closed, observed, sequence>>

\* One that starts the next client.
Renews(c) ==
    /\ stage[c] = "reaping" /\ done[on[c]] /\ client + 1 \in Clients
    /\ client' = client + 1
    /\ process' = [process EXCEPT ![client + 1] = "running"]
    /\ stage' = [stage EXCEPT ![c] = "replaced"]
    /\ UNCHANGED <<stdin, working, stdout, clientVars, callVars, executed,
                   gate, closed, observed, outcome, sequence>>

\* One step of the supervisor, one case.
Supervises(c) ==
    Registers(c) \/ Quits(c) \/ Return(c) \/ KillWorker(c) \/ Renews(c) \/ KillFallback(c)

LEMMA Steps ==
    ASSUME [Next]_vars
    PROVE  \/ Unsupervised /\ UNCHANGED supervisorVars
           \/ \E c \in Calls : Supervises(c)
<1>1. CASE UNCHANGED vars
  BY <1>1 DEF vars, Unsupervised
<1>2. CASE Machine /\ UNCHANGED supervisorVars
  BY <1>2 DEF Machine, Unsupervised, Acts
<1>3. ASSUME NEW c \in Calls, SupervisorStep(c)
      PROVE  Supervises(c)
  <2>1. TurnedAway(c) => Quits(c)
    BY DEF TurnedAway, Quits, Moves
  <2>2. Acquire(c) => Quits(c) \/ Registers(c)
    BY DEF Acquire, Quits, Registers, Moves, Returns
  <2>3. Replace(c) => Quits(c) \/ Renews(c)
    BY DEF Replace, Quits, Renews, Moves, Returns
  <2>4. Retry(c) => Quits(c) \/ Registers(c)
    BY DEF Retry, Quits, Registers, Moves, Returns
  <2> QED
    BY <1>3, <2>1, <2>2, <2>3, <2>4 DEF SupervisorStep, Supervises
<1> QED
  BY <1>1, <1>2, <1>3 DEF Next, Unsupervised, Supervises

LEMMA UnsupervisedTyped == Typed /\ Unsupervised => Typed'
<1>1. CASE UNCHANGED workerVars
  BY <1>1 DEF Typed, ClientTypeOK, Live
<1> QED
  BY <1>1, ActsTyped, CallStepTyped, ContextEndsTyped DEF Unsupervised

LEMMA StartTyped ==
    ASSUME Typed, NEW g \in Clients, process' = [process EXCEPT ![g] = "running"],
           UNCHANGED <<stdin, working, stdout, clientVars, callVars, executed>>
    PROVE  Typed'
<1>1. process' \in [Clients -> Processes]
  BY Types DEF Processes
<1> QED
  BY <1>1 DEF Typed, ClientTypeOK, Live

LEMMA SupervisesTyped ==
    ASSUME Formed, NEW c \in Calls, Supervises(c)
    PROVE  Formed'
<1> USE DEF Supervision
<1>1. Typed /\ Supervision /\ client \in Clients /\ on[c] \in Clients
  BY DEF Formed, Typed, ClientTypeOK
<1>2. result[c] \in Results \cup {Nobody}
  BY <1>1 DEF Typed, ClientTypeOK
<1>3. CASE Registers(c)
  <2>1. Supervision'
    BY <1>1, <1>3 DEF Registers, Stages
  <2> QED
    BY <1>1, <1>3, <2>1, RegisterTyped DEF Registers, Formed
<1>4. CASE Quits(c)
  <2>1. Typed'
    BY <1>1, <1>4 DEF Quits, Typed, ClientTypeOK, Live
  <2>2. Supervision'
    BY <1>1, <1>2, <1>4 DEF Quits, Stages, Outcomes, Results
  <2> QED
    BY <2>1, <2>2 DEF Formed
<1>5. CASE Return(c)
  <2>1. Typed'
    BY <1>1, <1>5 DEF Return, Typed, ClientTypeOK, Live
  <2>2. closed' \in BOOLEAN
    BY <1>1, <1>5 DEF Return, Closes
  <2>3. /\ gate' = Nobody /\ stage' = [stage EXCEPT ![c] = "returned"]
        /\ outcome' = [outcome EXCEPT ![c] = result[c]] /\ client' = client
        /\ \/ observed' = observed + 1 /\ sequence' = [sequence EXCEPT ![c] = observed + 1]
           \/ UNCHANGED <<observed, sequence>>
    BY <1>5 DEF Return, Returns, Moves
  <2>4. Supervision'
    BY <1>1, <1>2, <2>2, <2>3 DEF Stages, Outcomes
  <2> QED
    BY <2>1, <2>4 DEF Formed
<1>6. CASE KillWorker(c)
  BY <1>1, <1>6, KillTyped DEF KillWorker, Moves, Stages, Formed
<1>7. CASE Renews(c)
  BY <1>1, <1>7, StartTyped DEF Renews, Stages, Formed
<1>8. CASE KillFallback(c)
  BY <1>1, <1>8, KillTyped DEF KillFallback, Moves, Stages, Formed
<1> QED
  BY <1>3, <1>4, <1>5, <1>6, <1>7, <1>8 DEF Supervises

LEMMA StepFormed == Formed /\ [Next]_vars => Formed'
<1>1. ASSUME Formed, Unsupervised, UNCHANGED supervisorVars PROVE Formed'
  BY <1>1, UnsupervisedTyped DEF Formed, Supervision, supervisorVars
<1> QED
  BY <1>1, Steps, SupervisesTyped

LEMMA InitFormed == Init => Formed
<1> SUFFICES ASSUME Init PROVE Formed
  OBVIOUS
<1>1. Typed
  BY InitTyped DEF Init
<1> QED
  BY <1>1, ClientAssumption DEF Init, Formed, Supervision, Stages

\* The state of the supervisor, its clients, its processes and its calls is of the
\* expected form.
THEOREM SupervisorTypeCorrect == Spec => []TypeOK
<1>1. Formed => TypeOK
  BY DEF Formed, Supervision, Typed, TypeOK
<1> QED
  BY <1>1, InitFormed, StepFormed, PTL DEF Spec

-----------------------------------------------------------------------------
(***************************************************************************)
(* One call at a time, on one client at a time.                            *)
(***************************************************************************)
Active == {"calling", "reaping", "replaced", "retrying"}

\* The call behind the gate, and it alone, is made on the current client.
GatedFor(c) ==
    /\ stage[c] \in Active <=> gate = c
    /\ stage[c] = "queued" => at[c] = "idle"
    /\ stage[c] \in Active => at[c] # "idle"
    /\ at[c] \notin {"idle", "ended"} => stage[c] \in {"calling", "retrying"}
    /\ on[c] <= client
    /\ stage[c] \in {"calling", "reaping", "retrying"} => on[c] = client
    /\ stage[c] = "replaced" => on[c] < client
    /\ stage[c] = "retrying" => c \in Probes

Gated == \A c \in Calls : GatedFor(c)

\* The clients before the current one have finished and are not read any more,
\* and those after it are not started.
Succession ==
    \A g \in Clients :
      /\ g < client => done[g]
      /\ done[g] => stdout[g] = <<>>
      /\ g > client => Unstarted(g)

LEMMA Numbers ==
    ASSUME Formed
    PROVE  /\ Clients \subseteq Nat /\ client \in Clients
           /\ \A c \in Calls : on[c] \in Clients /\ c # Nobody
           /\ on \in [Calls -> Clients] /\ at \in [Calls -> Places]
           /\ stage \in [Calls -> Stages] /\ result \in [Calls -> Results \cup {Nobody}]
           /\ outcome \in [Calls -> Outcomes \cup {Nobody}]
BY ClientAssumption DEF Formed, Supervision, Typed, ClientTypeOK

LEMMA UnsupervisedGated ==
    ASSUME Formed, Gated, Unsupervised, UNCHANGED supervisorVars
    PROVE  Gated'
<1>1. CASE UNCHANGED <<at, on>>
  BY <1>1 DEF Gated, GatedFor, supervisorVars
<1>2. ASSUME NEW c \in Calls, CallStep(c) PROVE Gated'
  <2>1. /\ at[c] \notin {"idle", "ended"} /\ on' = on
        /\ \E place \in Places \ {"idle", "handing"} : at' = [at EXCEPT ![c] = place]
    BY <1>2, CallSteps DEF Goes, Proceeds, Formed
  <2>2. stage[c] \in {"calling", "retrying"}
    BY <2>1 DEF Gated, GatedFor
  <2> QED
    BY <2>1, <2>2, Numbers DEF Gated, GatedFor, supervisorVars
<1> QED
  BY <1>1, <1>2, ActsLocal DEF Unsupervised, ContextEnds, Formed

LEMMA SupervisesGated ==
    ASSUME Formed, Gated, NEW c \in Calls, Supervises(c)
    PROVE  Gated'
<1> USE Numbers DEF Gated, GatedFor, Active, Stages
<1>1. CASE Registers(c)
  <2>1. /\ on' = [on EXCEPT ![c] = client]
        /\ \E place \in {"handing", "ended"} : at' = [at EXCEPT ![c] = place]
    BY <1>1 DEF Registers, Register, Ends
  <2> QED
    BY <1>1, <2>1 DEF Registers
<1>2. CASE Quits(c)
  BY <1>2 DEF Quits
<1>3. CASE Return(c)
  BY <1>3 DEF Return, Returns, Moves
<1>4. CASE KillWorker(c)
  BY <1>4 DEF KillWorker, Moves
<1>5. CASE Renews(c)
  BY <1>5 DEF Renews
<1>6. CASE KillFallback(c)
  BY <1>6 DEF KillFallback, Moves
<1> QED
  BY <1>1, <1>2, <1>3, <1>4, <1>5, <1>6 DEF Supervises

LEMMA UnsupervisedSuccession ==
    ASSUME Formed, Gated, Succession, Unsupervised, UNCHANGED supervisorVars
    PROVE  Succession'
<1> USE Numbers DEF Succession, supervisorVars
<1>1. CASE UNCHANGED <<process, stdin, working, stdout, done, writer>>
  BY <1>1 DEF Unstarted, Empty
<1>2. ASSUME NEW g \in Clients, Acts(g) PROVE Succession'
  <2>1. g <= client
    BY <1>2, UnstartedRests
  <2>2. /\ done[g] => done'[g]
        /\ done'[g] => stdout'[g] = <<>>
    BY <1>2, ActsLocal, ActsFinished DEF Formed
  <2>3. ASSUME NEW h \in Clients \ {g}
        PROVE  /\ done'[h] = done[h] /\ stdout'[h] = stdout[h]
               /\ Unstarted(h)' = Unstarted(h)
    BY <1>2, ActsLocal DEF Formed, Unstarted, Empty
  <2> QED
    BY <2>1, <2>2, <2>3
<1>3. ASSUME NEW c \in Calls, CallStep(c) PROVE Succession'
  <2>1. on[c] \in Clients /\ on[c] <= client
    BY DEF Gated, GatedFor
  <2>2. /\ \/ writer' = writer
           \/ writer' = [writer EXCEPT ![on[c]] = [step |-> "holding", frame |-> FrameOf(c)]]
        /\ process' = process \/ process' = Killed(on[c])
        /\ UNCHANGED <<stdin, working, stdout, done>>
    BY <1>3, CallSteps DEF Formed
  <2>3. \A g \in Clients : g # on[c] /\ Unstarted(g) => Unstarted(g)'
    BY <2>2 DEF Unstarted, Killed, Empty, Formed, Typed, ClientTypeOK
  <2> QED
    BY <2>1, <2>2, <2>3
<1>4. ASSUME NEW c \in Calls, ContextEnds(c)
      PROVE  UNCHANGED <<process, stdin, working, stdout, done, writer>>
  BY <1>4 DEF ContextEnds
<1> QED
  BY <1>1, <1>2, <1>3, <1>4 DEF Unsupervised

LEMMA SupervisesSuccession ==
    ASSUME Formed, Gated, Succession, NEW c \in Calls, Supervises(c)
    PROVE  Succession'
<1> USE Numbers DEF Succession
<1>1. CASE UNCHANGED <<process, stdin, working, stdout, done, writer, client>>
  BY <1>1 DEF Unstarted, Empty
<1>2. CASE Kills(client) /\ UNCHANGED <<stdin, working, stdout, done, writer, client>>
  <2>1. process' = process \/ process' = Killed(client)
    BY <1>2 DEF Kills
  <2>2. \A g \in Clients : g # client /\ Unstarted(g) => Unstarted(g)'
    BY <1>2, <2>1 DEF Unstarted, Killed, Empty, Formed, Typed, ClientTypeOK
  <2> QED
    BY <1>2, <2>2
<1>3. CASE Renews(c)
  <2>1. /\ on[c] = client /\ done[client]
        /\ client' = client + 1 /\ client + 1 \in Clients
        /\ process' = [process EXCEPT ![client + 1] = "running"]
        /\ UNCHANGED <<stdin, working, stdout, done, writer>>
    BY <1>3 DEF Renews, Gated, GatedFor
  <2>2. \A g \in Clients \ {client + 1} : Unstarted(g) => Unstarted(g)'
    BY <2>1, Types DEF Formed, Unstarted, Empty
  <2> QED
    BY <2>1, <2>2
<1>4. CASE KillWorker(c)
  BY <1>2, <1>4 DEF KillWorker, Gated, GatedFor
<1>5. CASE KillFallback(c)
  BY <1>2, <1>5 DEF KillFallback
<1>6. CASE Registers(c) \/ Quits(c) \/ Return(c)
  BY <1>1, <1>6 DEF Registers, Register, Quits, Return
<1> QED
  BY <1>3, <1>4, <1>5, <1>6 DEF Supervises

Ordered == Formed /\ Gated /\ Succession

LEMMA OrderedKept == Ordered /\ [Next]_vars => Ordered'
BY StepFormed, Steps, UnsupervisedGated, SupervisesGated, UnsupervisedSuccession,
   SupervisesSuccession DEF Ordered

LEMMA InitOrdered == Init => Ordered
<1> SUFFICES ASSUME Init PROVE Gated /\ Succession
  BY InitFormed DEF Ordered
<1>1. Formed /\ Gated
  BY InitFormed, Numbers DEF Init, ClientInit, Gated, GatedFor, Active
<1>2. Succession
  <2>1. \A g \in Clients : ~(g < client) /\ ~done[g] /\ (g # 1 => Unstarted(g))
    BY <1>1, Numbers, ClientAssumption DEF Init, ClientInit, Unstarted, Empty
  <2> QED
    BY <2>1, <1>1, Numbers DEF Succession, Init
<1> QED
  BY <1>1, <1>2

LEMMA AlwaysOrdered == Spec => []Ordered
BY InitOrdered, OrderedKept, PTL DEF Spec

-----------------------------------------------------------------------------
(***************************************************************************)
(* Where the requests are.                                                 *)
(***************************************************************************)
Sane == Ordered /\ Placed

\* A call is on its way on the client it was made on, or an earlier one.
LEMMA Whereabouts ==
    ASSUME Sane, NEW g \in Clients, NEW c \in Calls
    PROVE  /\ ~NowhereOn(g, c) => g <= on[c] /\ g <= client
           /\ at[c] \in {"idle", "handing"} => NowhereOn(g, c) \/ g < client
           /\ at[c] = "idle" => NowhereOn(g, c)
           /\ c \in MayRun(g) => ~NowhereOn(g, c)
           /\ (\E f \in Answered(g) : f.call = c) => ~NowhereOn(g, c)
           /\ g > client => MayRun(g) = {}
<1> USE Numbers DEF Sane, Ordered
<1>1. on[c] \in Nat /\ g \in Nat /\ client \in Nat /\ on[c] <= client
  BY DEF Gated, GatedFor
<1>2. NotYet(g, c) => NowhereOn(g, c)
  BY DEF Placed, Located, Untouched
<1>3. ~NowhereOn(g, c) => g <= on[c] /\ g <= client
  BY <1>1, <1>2 DEF NotYet
<1>4. at[c] = "handing" => on[c] = client
  BY DEF Gated, GatedFor
<1>5. at[c] \in {"idle", "handing"} => NowhereOn(g, c) \/ g < client
  BY <1>1, <1>2, <1>4 DEF NotYet
<1>6. /\ c \in MayRun(g) => ~NowhereOn(g, c)
      /\ (\E f \in Answered(g) : f.call = c) => ~NowhereOn(g, c)
  BY DEF MayRun, OnTheWay, NowhereOn
<1>7. ASSUME g > client PROVE MayRun(g) = {}
  <2>1. Unstarted(g)
    BY <1>1, <1>7 DEF Succession
  <2>2. Held(g) = {} /\ Sent(g) = {}
    BY <2>1 DEF Unstarted, Empty, Held, Sent, Idle
  <2> QED
    BY <2>2 DEF MayRun
<1> QED
  BY <1>2, <1>3, <1>5, <1>6, <1>7 DEF NotYet

\* Only the current client has anything to say.
LEMMA CurrentActs ==
    ASSUME Sane, NEW g \in Clients, Acts(g)
    PROVE  /\ g <= client
           /\ g # client => answer' = answer
           /\ \A f \in Answered(g) : f.call \in Calls => on[f.call] = g
           /\ Placed'
           /\ \A h \in Clients \ {g} : OnTheWay(h)' = OnTheWay(h) /\ MayRun(h)' = MayRun(h)
<1> USE Numbers DEF Sane, Ordered
<1>1. ~(g > client)
  BY UnstartedRests DEF Succession
<1>2. g # client => done[g] /\ stdout[g] = <<>>
  BY <1>1 DEF Succession
<1>3. ASSUME NEW f \in Answered(g), f.call \in Calls PROVE on[f.call] = g
  <2>1. ~NowhereOn(g, f.call)
    BY <1>3 DEF NowhereOn, OnTheWay
  <2>2. g <= on[f.call] /\ on[f.call] <= client
    BY <1>3, <2>1, Whereabouts DEF Gated, GatedFor
  <2>3. g = client
    BY <1>2 DEF Answered
  <2>4. on[f.call] \in Nat /\ g \in Nat
    BY <1>3
  <2> QED
    BY <2>2, <2>3, <2>4
<1>4. Typed /\ (done[g] => stdout[g] = <<>>)
  BY DEF Formed, Succession
<1>5. g # client => answer' = answer
  BY <1>2, <1>4, ActsFinished
<1>6. /\ Placed'
      /\ \A h \in Clients \ {g} : OnTheWay(h)' = OnTheWay(h) /\ MayRun(h)' = MayRun(h)
  BY <1>3, <1>4, ActsPlaced
<1> QED
  BY <1>1, <1>3, <1>5, <1>6

\* A call in progress is made on the current client.
LEMMA CurrentCalls ==
    ASSUME Sane, NEW c \in Calls, CallStep(c)
    PROVE  /\ on[c] = client /\ stage[c] \in {"calling", "retrying"} /\ gate = c
           /\ at[c] \notin {"idle", "ended"}
           /\ \A g \in Clients : g = client => Proceeding(c, g)
           /\ Placed'
           /\ UNCHANGED <<on, written, answer, executed, done>>
<1> USE Numbers DEF Sane, Ordered
<1>1. Typed
  BY DEF Formed
<1>2. at[c] \notin {"idle", "ended"} /\ UNCHANGED <<on, written, answer, executed, done>>
  BY <1>1, CallSteps
<1>3. on[c] = client /\ stage[c] \in {"calling", "retrying"} /\ gate = c
  BY <1>2 DEF Gated, GatedFor, Active
<1> QED
  BY <1>1, <1>2, <1>3, CallStepPlaced

\* A call is registered when the client has nothing of it.
LEMMA CurrentRegisters ==
    ASSUME Sane, NEW c \in Calls, Registers(c)
    PROVE  /\ at[c] = "idle" \/ on[c] < client
           /\ Placed'
           /\ \A h \in Clients : OnTheWay(h)' = OnTheWay(h) /\ MayRun(h)' = MayRun(h)
<1> USE Numbers DEF Sane, Ordered
<1>1. at[c] = "idle" \/ on[c] < client
  BY DEF Registers, Gated, GatedFor
<1> QED
  BY <1>1, RegisterPlaced DEF Registers, Formed

\* What the supervisor does besides touches no request.
Aside == UNCHANGED <<stdin, working, stdout, done, writer, pending,
                     at, on, id, written, answer, result, executed>>

LEMMA Asides ==
    ASSUME NEW c \in Calls,
           \/ Quits(c) \/ Return(c) \/ KillWorker(c) \/ Renews(c) \/ KillFallback(c)
           \/ ContextEnds(c) \/ UNCHANGED workerVars
    PROVE  Aside
BY DEF Quits, Return, KillWorker, Renews, KillFallback, ContextEnds, Aside

LEMMA SaneKept == Sane /\ [Next]_vars => Sane'
<1> SUFFICES ASSUME Sane, [Next]_vars PROVE Placed'
  BY OrderedKept DEF Sane
<1>1. ASSUME Aside PROVE Placed'
  BY <1>1, QuietPlaced DEF Aside, Sane
<1>2. CASE Unsupervised
  <2>1. CASE UNCHANGED workerVars
    BY <1>1, <2>1 DEF Aside
  <2> QED
    BY <1>1, <1>2, <2>1, Asides, CurrentActs, CurrentCalls DEF Unsupervised
<1>3. ASSUME NEW c \in Calls, Supervises(c) PROVE Placed'
  BY <1>1, <1>3, Asides, CurrentRegisters DEF Supervises
<1> QED
  BY <1>2, <1>3, Steps

LEMMA InitSane == Init => Sane
BY InitOrdered, InitPlaced DEF Init, Sane

-----------------------------------------------------------------------------
(***************************************************************************)
(* How often a call is executed: a process executes it once, and it leaves *)
(* its traces on the clients it was made on, one or two.                   *)
(***************************************************************************)
Final == {"returned", "killed"}

\* Nothing of the call was executed by the process of g, or ever will be.
Clean(g, c) == NowhereOn(g, c) /\ RunOn(g, c) \notin Ran

\* Before it is made once more a call has traces on its own client only, and then on
\* the one before.
TracedFor(c) ==
    /\ \E h \in Clients : \A g \in Clients : g < on[c] /\ g # h => Clean(g, c)
    /\ c \notin Probes \/ stage[c] \notin {"retrying"} \cup Final
         => \A g \in Clients : g < on[c] => Clean(g, c)

Traced == \A c \in Calls : TracedFor(c)

\* Clients a call was not made on yet are clean of it.
LEMMA NotYetClean ==
    ASSUME Sane, NEW g \in Clients, NEW c \in Calls, NotYet(g, c)
    PROVE  Clean(g, c)
BY DEF Sane, Placed, FreshOn, Located, Untouched, Clean

\* A clean client stays so, unless the call is made on it.
LEMMA CleanStays ==
    ASSUME Sane, [Next]_vars, NEW g \in Clients, NEW c \in Calls, Clean(g, c), g # on[c]
    PROVE  Clean(g, c)'
<1> USE Numbers DEF Sane, Ordered
<1>1. CASE OnTheWay(g)' = OnTheWay(g) /\ executed' = executed
  BY <1>1 DEF Clean, NowhereOn, Ran
<1>2. ASSUME Aside PROVE Clean(g, c)'
  BY <1>1, <1>2, QuietPlaced DEF Aside
<1>3. ASSUME NEW h \in Clients, Acts(h) PROVE Clean(g, c)'
  <2>1. Typed /\ Located(h)
    BY DEF Formed, Placed
  <2>2. \A r \in Ran' \ Ran : \E d \in MayRun(h) : r = RunOn(h, d)
    BY <1>3, <2>1, ActsRan
  <2>3. RunOn(g, c) \notin Ran'
    <3>1. c \notin MayRun(g)
      BY Whereabouts DEF Clean
    <3> QED
      BY <2>2, <3>1 DEF Clean, RunOn
  <2>4. OnTheWay(g)' \subseteq OnTheWay(g) \cup {Garbled.frame}
    BY <1>3, <2>1, ActsLocated, CurrentActs DEF MovesOn
  <2>5. Garbled.frame.call # c
    BY <2>1, PlaceTypes
  <2> QED
    BY <2>3, <2>4, <2>5 DEF Clean, NowhereOn
<1>4. ASSUME NEW d \in Calls, CallStep(d) PROVE Clean(g, c)'
  <2>1. PICK h \in Clients : h = client
    OBVIOUS
  <2>2. Proceeding(d, h) /\ on[d] = h /\ executed' = executed
    BY <1>4, <2>1, CurrentCalls
  <2>3. CASE HandsOver(d, h) /\ g = h
    <3>1. d # c
      BY <2>2, <2>3
    <3> QED
      BY <2>2, <2>3, <3>1 DEF HandsOver, Clean, NowhereOn, Ran, FrameOf
  <2>4. (HandsOver(d, h) /\ g = h) \/ OnTheWay(g)' = OnTheWay(g)
    BY <2>2 DEF Proceeding, HandsOver
  <2> QED
    BY <1>1, <2>2, <2>3, <2>4
<1>5. ASSUME NEW d \in Calls, Registers(d) PROVE Clean(g, c)'
  BY <1>1, <1>5, CurrentRegisters DEF Registers, Register
<1> QED
  BY <1>2, <1>3, <1>4, <1>5, Steps, Asides DEF Unsupervised, Supervises

\* A call is made once more on a later client than before.
LEMMA RegistersTraced ==
    ASSUME Sane, NEW d \in Calls, Registers(d), TracedFor(d)
    PROVE  TracedFor(d)'
<1> USE Numbers DEF Sane, Ordered
<1>1. /\ on'[d] = client /\ client \in Nat /\ on[d] \in Clients /\ on[d] \in Nat
      /\ at[d] = "idle" \/ on[d] < client
  BY CurrentRegisters DEF Registers, Register
<1>2. \A g \in Clients : Clean(g, d) => Clean(g, d)'
  BY CurrentRegisters DEF Registers, Register, Clean, NowhereOn, Ran
<1>3. CASE stage[d] = "queued"
  <2>1. at[d] = "idle"
    BY <1>3 DEF Gated, GatedFor
  <2>2. \A g \in Clients : Clean(g, d)'
    BY <1>2, <2>1, NotYetClean DEF NotYet
  <2> QED
    BY <2>2 DEF TracedFor
<1>4. CASE stage[d] = "replaced" /\ stage' = [stage EXCEPT ![d] = "retrying"]
  <2>1. ASSUME NEW g \in Clients, g # on[d] PROVE Clean(g, d)'
    <3>1. CASE g < on[d]
      BY <1>2, <1>4, <3>1 DEF TracedFor, Final
    <3>2. CASE on[d] < g
      BY <1>2, <3>2, NotYetClean DEF NotYet
    <3> QED
      BY <1>1, <2>1, <3>1, <3>2
  <2>2. stage'[d] = "retrying" /\ d \in Probes
    BY <1>4 DEF Registers
  <2> QED
    BY <1>1, <2>1, <2>2 DEF TracedFor
<1> QED
  BY <1>3, <1>4 DEF Registers

LEMMA TracedKept == Sane /\ Traced /\ [Next]_vars => Traced'
<1> SUFFICES ASSUME Sane, Traced, [Next]_vars, NEW c \in Calls PROVE TracedFor(c)'
  BY DEF Traced
<1> USE Numbers DEF Sane, Ordered
<1>1. TracedFor(c) /\ on[c] \in Nat /\ Formed
  BY DEF Traced
<1>2. \A g \in Clients : g < on[c] /\ Clean(g, c) => Clean(g, c)'
  BY <1>1, CleanStays
<1>3. ASSUME on'[c] = on[c],
             stage'[c] \notin {"retrying"} \cup Final => stage[c] \notin {"retrying"} \cup Final
      PROVE  TracedFor(c)'
  BY <1>1, <1>2, <1>3 DEF TracedFor
<1>4. CASE Unsupervised /\ UNCHANGED supervisorVars
  <2>1. on' = on
    BY <1>1, <1>4, ActsLocal, CurrentCalls DEF Unsupervised, ContextEnds, Formed
  <2> QED
    BY <1>3, <1>4, <2>1 DEF supervisorVars
<1>5. ASSUME NEW d \in Calls, Supervises(d), ~Registers(d) PROVE TracedFor(c)'
  <2>1. on' = on
    BY <1>5, Asides DEF Supervises, Aside
  <2>2. \/ stage'[c] = stage[c]
        \/ stage'[c] \in Final
        \/ stage[c] \in {"calling", "reaping"}
    BY <1>5 DEF Supervises, Quits, Return, Returns, Moves, KillWorker, Renews, KillFallback,
                Final
  <2> QED
    BY <1>3, <2>1, <2>2 DEF Final
<1>6. ASSUME NEW d \in Calls, Registers(d) PROVE TracedFor(c)'
  <2>1. CASE c = d
    BY <1>1, <1>6, <2>1, RegistersTraced
  <2>2. CASE c # d
    BY <1>3, <1>6, <2>2 DEF Registers, Register
  <2> QED
    BY <2>1, <2>2
<1> QED
  BY <1>4, <1>5, <1>6, Steps

LEMMA InitTraced == Init => Traced
<1> SUFFICES ASSUME Init, NEW c \in Calls PROVE TracedFor(c)
  BY DEF Traced
<1>1. Sane /\ at[c] = "idle"
  BY InitSane DEF Init, ClientInit
<1>2. \A g \in Clients : Clean(g, c)
  BY <1>1, NotYetClean DEF NotYet
<1> QED
  BY <1>2, ClientAssumption DEF TracedFor

LEMMA PairSize ==
    ASSUME NEW a, NEW b
    PROVE  /\ IsFiniteSet({a}) /\ Cardinality({a}) = 1
           /\ IsFiniteSet({a, b}) /\ Cardinality({a, b}) <= 2
<1>1. IsFiniteSet({a}) /\ Cardinality({a}) = 1
  BY FS_Singleton
<1>2. {a, b} = {a} \cup {b}
  OBVIOUS
<1>3. /\ IsFiniteSet({a} \cup {b})
      /\ Cardinality({a} \cup {b}) = IF b \in {a} THEN Cardinality({a}) ELSE Cardinality({a}) + 1
  BY <1>1, FS_AddElement
<1> QED
  BY <1>1, <1>2, <1>3

\* No command is executed more than once, and no probe more than twice, whatever
\* became of the workers it was given to, and although one that was given up may
\* still execute what it was told (Call, src/internal/workerproc/supervisor.go).
THEOREM CommandsAtMostOnce == Spec => []AtMostOnce
<1>1. Sane /\ Traced => AtMostOnce
  <2> SUFFICES ASSUME Sane, Traced, NEW c \in Calls
               PROVE  Executions(c) <= IF c \in Probes THEN 2 ELSE 1
    BY DEF AtMostOnce
  <2> USE Numbers DEF Sane, Ordered
  <2>1. TracedFor(c) /\ Typed /\ Single /\ on[c] \in Clients /\ on[c] \in Nat
        /\ Clients \subseteq Nat
    BY DEF Traced, Placed, Formed
  <2>2. ASSUME NEW g \in Clients, RunOn(g, c) \in Ran
        PROVE  ~Clean(g, c) /\ (g = on[c] \/ g < on[c])
    BY <2>1, <2>2, NotYetClean DEF Clean, NotYet
  <2>3. CASE c \in Probes
    <3>1. PICK h \in Clients : \A g \in Clients : g < on[c] /\ g # h => Clean(g, c)
      BY <2>1 DEF TracedFor
    <3>2. \A g \in Clients : RunOn(g, c) \in Ran => g \in {h, on[c]}
      BY <2>2, <3>1
    <3>3. Executions(c) \in Nat /\ Executions(c) <= Cardinality({h, on[c]})
      BY <2>1, <3>2, PairSize, ExecutionsCounted
    <3>4. Cardinality({h, on[c]}) <= 2 /\ Cardinality({h, on[c]}) \in Nat
      BY PairSize, FS_CardinalityType
    <3> QED
      BY <2>3, <3>3, <3>4
  <2>4. CASE c \notin Probes
    <3>1. \A g \in Clients : RunOn(g, c) \in Ran => g \in {on[c]}
      BY <2>1, <2>2, <2>4 DEF TracedFor
    <3>2. Executions(c) \in Nat /\ Executions(c) <= Cardinality({on[c]})
      BY <2>1, <3>1, PairSize, ExecutionsCounted
    <3> QED
      BY <2>4, <3>2, PairSize
  <2> QED
    BY <2>3, <2>4
<1> QED
  BY <1>1, InitSane, SaneKept, InitTraced, TracedKept, PTL DEF Spec

-----------------------------------------------------------------------------
(***************************************************************************)
(* What was refused stays refused: a call that is returned is not made     *)
(* again, and a command that was given to no process is given to none.     *)
(***************************************************************************)
ReturnedFor(c) ==
    /\ at[c] = "ended" => result[c] \in Results
    /\ outcome[c] # Nobody => stage[c] \in Final
    /\ outcome[c] \in {"turned_away", "stopped"} => at[c] = "idle"
    /\ outcome[c] = "not_dispatched" => at[c] = "ended" /\ result[c] = "not_dispatched"

Concluded == \A c \in Calls : ReturnedFor(c)

LEMMA UnsupervisedReturned ==
    ASSUME Sane, Concluded, Unsupervised, UNCHANGED supervisorVars, NEW c \in Calls
    PROVE  ReturnedFor(c)'
<1> USE Numbers DEF Sane, Ordered
<1>1. ReturnedFor(c)
  BY DEF Concluded
<1>2. CASE UNCHANGED <<at, result>>
  BY <1>1, <1>2 DEF ReturnedFor, supervisorVars
<1>3. ASSUME NEW d \in Calls, CallStep(d) PROVE ReturnedFor(c)'
  <2>1. /\ at[d] \notin {"idle", "ended"}
        /\ \E place \in Places \ {"idle", "handing"}, r \in Results :
             /\ at' = [at EXCEPT ![d] = place]
             /\ result' = IF place = "ended" THEN [result EXCEPT ![d] = r] ELSE result
    BY <1>3, CallSteps DEF Goes, Proceeds, Formed
  <2>2. outcome[d] = Nobody
    BY <2>1, OutcomeAssumption, CurrentCalls, <1>3 DEF Concluded, ReturnedFor, Final
  <2> QED
    BY <1>1, <2>1, <2>2, OutcomeAssumption DEF ReturnedFor, supervisorVars, Outcomes, Results
<1> QED
  BY <1>2, <1>3, ActsLocal DEF Unsupervised, ContextEnds, Formed

LEMMA SupervisesReturned ==
    ASSUME Sane, Concluded, NEW d \in Calls, Supervises(d), NEW c \in Calls
    PROVE  ReturnedFor(c)'
<1> USE Numbers, OutcomeAssumption DEF Sane, Ordered, ReturnedFor, Final
<1>1. ReturnedFor(c) /\ ReturnedFor(d)
  BY DEF Concluded
<1>2. CASE Registers(d)
  <2>1. /\ outcome' = outcome /\ outcome[d] = Nobody
        /\ stage'[c] = stage[c] \/ c = d
    BY <1>1, <1>2 DEF Registers
  <2>2. \/ result' = result /\ at' = [at EXCEPT ![d] = "handing"]
        \/ at' = [at EXCEPT ![d] = "ended"] /\ \E r \in Results : result' = [result EXCEPT ![d] = r]
    BY <1>2 DEF Registers, Register, Ends, Results
  <2> QED
    BY <1>1, <2>1, <2>2 DEF Outcomes, Results
<1>3. CASE Quits(d)
  <2>1. /\ UNCHANGED <<at, result>> /\ stage' = [stage EXCEPT ![d] = "returned"]
        /\ \/ /\ at[d] = "idle"
              /\ \E how \in {"turned_away", "ok", "stopped"} : outcome' = [outcome EXCEPT ![d] = how]
           \/ outcome' = [outcome EXCEPT ![d] = "unreplaced"]
           \/ outcome' = [outcome EXCEPT ![d] = result[d]] /\ at[d] = "ended"
    BY <1>3 DEF Quits, Gated, GatedFor, Active
  <2> QED
    BY <1>1, <2>1 DEF Outcomes, Results
<1>4. CASE Return(d)
  <2>1. /\ UNCHANGED <<at, result>> /\ stage' = [stage EXCEPT ![d] = "returned"]
        /\ outcome' = [outcome EXCEPT ![d] = result[d]] /\ at[d] = "ended"
    BY <1>4 DEF Return, Returns, Moves
  <2> QED
    BY <1>1, <2>1 DEF Outcomes, Results
<1>5. CASE KillWorker(d) \/ Renews(d) \/ KillFallback(d)
  <2>1. /\ UNCHANGED <<at, result, outcome>>
        /\ \/ stage[d] \in {"calling", "reaping"}
           \/ stage' = [stage EXCEPT ![d] = "killed"]
        /\ c # d => stage'[c] = stage[c]
    BY <1>5 DEF KillWorker, Renews, KillFallback, Moves
  <2> QED
    BY <1>1, <2>1
<1> QED
  BY <1>2, <1>3, <1>4, <1>5 DEF Supervises

LEMMA ConcludedKept == Sane /\ Concluded /\ [Next]_vars => Concluded'
BY Steps, UnsupervisedReturned, SupervisesReturned DEF Concluded

LEMMA InitConcluded == Init => Concluded
<1> SUFFICES ASSUME Init, NEW c \in Calls PROVE ReturnedFor(c)
  BY DEF Concluded
<1> QED
  BY OutcomeAssumption DEF Init, ClientInit, ReturnedFor, Outcomes, Results

\* A command that was turned away, refused or not dispatched reaches no worker, so
\* that its caller may make it again elsewhere (Call and Shutdown,
\* src/internal/workerproc/supervisor.go).
THEOREM RefusedCommandsNever == Spec => []RefusedMeansNever
<1>1. Sane /\ Traced /\ Concluded => RefusedMeansNever
  <2> SUFFICES ASSUME Sane, Traced, Concluded, NEW c \in Calls \ Probes,
                      outcome[c] \in {"turned_away", "stopped", "not_dispatched"}
               PROVE  Unsent(c)
    BY DEF RefusedMeansNever
  <2>1. c \in Calls /\ ReturnedFor(c) /\ TracedFor(c) /\ Typed /\ on[c] \in Clients
        /\ on[c] \in Nat /\ Clients \subseteq Nat
    BY Numbers DEF Concluded, Traced, Sane, Ordered, Formed
  <2>2. at[c] = "idle" \/ Refused(c)
    BY <2>1 DEF ReturnedFor, Refused
  <2>3. ASSUME NEW g \in Clients PROVE Clean(g, c)
    <3>1. CASE at[c] = "idle" \/ on[c] < g
      BY <2>1, <3>1, NotYetClean DEF NotYet
    <3>2. CASE Refused(c) /\ g = on[c]
      BY <2>1, <3>2 DEF Sane, Placed, Located, Untouched, FreshOn, Clean
    <3>3. CASE g < on[c]
      BY <2>1, <3>3 DEF TracedFor
    <3> QED
      BY <2>1, <2>2, <3>1, <3>2, <3>3
  <2>4. Executions(c) = 0
    BY <2>1, <2>3, NeverExecuted DEF Clean
  <2> QED
    BY <2>3, <2>4 DEF Unsent, Clean, NowhereOn, OnTheWay, Sent, Held
<1> QED
  BY <1>1, InitSane, SaneKept, InitTraced, TracedKept, InitConcluded, ConcludedKept, PTL
     DEF Spec

-----------------------------------------------------------------------------
(***************************************************************************)
(* The order of the responses: a call behind the gate is executed after    *)
(* everything that was returned before it was let in.                      *)
(***************************************************************************)
Precedes(c, d) ==
    \A m, n \in DOMAIN executed : executed[m] = RunOf(c) /\ executed[n] = RunOf(d) => m < n

\* The execution of d is later than that of c.
Follows(c, d) ==
    \E n \in DOMAIN executed :
      executed[n] = RunOf(d) /\ \A m \in DOMAIN executed : executed[m] = RunOf(c) => m < n

Responded(c) == at[c] = "ended" /\ answer[c] # Nobody /\ RunOf(c) \in Ran

NumberedFor(c) ==
    /\ sequence[c] # 0 =>
         /\ stage[c] \in Final /\ Responded(c) /\ sequence[c] <= observed
         /\ \A d \in Calls : gate = d => Precedes(c, d)
         /\ \A d \in Calls : sequence[c] < sequence[d] => Follows(c, d)
    /\ at[c] = "ended" /\ result[c] = "ok" /\ c \notin Stops => Responded(c)
    /\ at[c] = "exiting" => c \in Stops

Numbered == \A c \in Calls : NumberedFor(c)

\* The call is not executed any more where it was executed last.
Rests(c) ==
    executed' = executed \/ \E r \in Run \ {RunOf(c)} : executed' = Append(executed, r)

LEMMA OrderStays ==
    ASSUME Typed, NEW c \in Calls, NEW d \in Calls, Rests(c), on'[c] = on[c], on'[d] = on[d]
    PROVE  /\ Precedes(c, d) => Precedes(c, d)'
           /\ Follows(c, d) => Follows(c, d)'
<1> DEFINE a == RunOf(c)
           b == RunOf(d)
<1>1. RunOf(c)' = a /\ RunOf(d)' = b
  BY DEF RunOf
<1>2. CASE executed' = executed
  BY <1>1, <1>2 DEF Precedes, Follows
<1>3. ASSUME NEW x \in Run \ {a}, executed' = Append(executed, x)
      PROVE  /\ Precedes(c, d) => Precedes(c, d)'
             /\ Follows(c, d) => Follows(c, d)'
  <2>1. executed \in Seq(Run) /\ x \in Run
    BY <1>3 DEF Typed, ClientTypeOK
  <2>2. \A n \in DOMAIN executed' :
          \/ n \in DOMAIN executed /\ executed'[n] = executed[n]
          \/ n = Len(executed) + 1 /\ executed'[n] = x
    BY <1>3, <2>1
  <2>3. /\ DOMAIN executed = 1 .. Len(executed) /\ Len(executed) \in Nat
        /\ \A n \in DOMAIN executed : n \in DOMAIN executed' /\ executed'[n] = executed[n]
    BY <1>3, <2>1
  <2> HIDE DEF a, b
  <2>4. /\ Precedes(c, d) <=> \A m, n \in DOMAIN executed :
                                executed[m] = a /\ executed[n] = b => m < n
        /\ Precedes(c, d)' <=> \A m, n \in DOMAIN executed' :
                                 executed'[m] = a /\ executed'[n] = b => m < n
        /\ Follows(c, d) <=> \E n \in DOMAIN executed :
             executed[n] = b /\ \A m \in DOMAIN executed : executed[m] = a => m < n
        /\ Follows(c, d)' <=> \E n \in DOMAIN executed' :
             executed'[n] = b /\ \A m \in DOMAIN executed' : executed'[m] = a => m < n
    BY <1>1 DEF Precedes, Follows, a, b
  <2>5. ASSUME Precedes(c, d) PROVE Precedes(c, d)'
    BY <1>3, <2>2, <2>3, <2>4, <2>5
  <2>6. ASSUME Follows(c, d) PROVE Follows(c, d)'
    BY <1>3, <2>2, <2>3, <2>4, <2>6
  <2> QED
    BY <2>5, <2>6
<1> QED
  BY <1>2, <1>3 DEF Rests

\* An answer is final: nothing more is executed or said of its call on its client.
LEMMA AnsweredRests ==
    ASSUME Sane, NEW c \in Calls, answer[c] # Nobody, NEW g \in Clients, Acts(g)
    PROVE  answer'[c] = answer[c] /\ Rests(c)
<1> USE Numbers DEF Sane, Ordered
<1>1. Typed /\ Located(g)
  BY DEF Formed, Placed
<1>2. MovesOn(g) /\ (answer' = answer \/ Delivers(g))
  BY <1>1, ActsLocated
<1>3. on[c] = g => NowhereOn(g, c)
  BY DEF Placed, Settled
<1>4. answer'[c] = answer[c]
  <2>1. CASE g # client
    BY <2>1, CurrentActs
  <2>2. CASE g = client
    <3>1. ~NowhereOn(g, c) => g <= on[c]
      BY Whereabouts
    <3>2. NowhereOn(g, c)
      BY <1>3, <2>2, <3>1 DEF Gated, GatedFor
    <3>3. \A d \in Calls : ~NowhereOn(g, d) => d # c
      BY <3>2
    <3> QED
      BY <1>1, <1>2, <3>3 DEF Delivers, Typed, ClientTypeOK
  <2> QED
    BY <2>1, <2>2
<1>5. \A d \in MayRun(g) : RunOn(g, d) \in Run \ {RunOf(c)}
  <2>1. Held(g) \subseteq Frame /\ Sent(g) \subseteq Frame
    BY <1>1, PlaceTypes
  <2>2. \A f \in Held(g) \cup Sent(g) : f.call \in Calls /\ (on[c] = g => f.call # c)
    BY <1>3, <2>1 DEF NowhereOn, OnTheWay, Frame
  <2>3. \A d \in MayRun(g) : d \in Calls /\ (on[c] = g => d # c)
    BY <2>2 DEF MayRun
  <2> QED
    BY <2>3 DEF RunOn, RunOf, Run
<1>6. Rests(c)
  BY <1>2, <1>5 DEF MovesOn, Rests
<1> QED
  BY <1>4, <1>6

LEMMA RespondedStays ==
    ASSUME Typed, NEW c \in Calls, Responded(c), at'[c] = at[c], answer'[c] = answer[c],
           on'[c] = on[c], Rests(c)
    PROVE  Responded(c)'
<1>1. Ran \subseteq Ran'
  <2>1. \A r \in Run : executed' = Append(executed, r) => Ran' = Ran \cup {r}
    BY RanAfter
  <2> QED
    BY <2>1 DEF Rests, Ran
<1> QED
  BY <1>1 DEF Responded, RunOf

\* What neither lets a call in nor numbers a response disturbs no order.
LEMMA NumberedStays ==
    ASSUME Sane, Numbered, NEW c \in Calls, on' = on,
           observed' = observed, sequence' = sequence, gate' = gate \/ gate' = Nobody,
           stage[c] \in Final => stage'[c] \in Final,
           Responded(c) => Rests(c) /\ answer'[c] = answer[c] /\ at'[c] = at[c],
           at'[c] = "ended" /\ result'[c] = "ok" /\ c \notin Stops =>
             Responded(c)' \/ (at[c] = "ended" /\ result[c] = "ok"),
           at'[c] = "exiting" => at[c] = "exiting" \/ c \in Stops
    PROVE  NumberedFor(c)'
<1> USE Numbers DEF Sane, Ordered
<1>1. Typed /\ NumberedFor(c)
  BY DEF Formed, Numbered
<1>2. Responded(c) => Responded(c)'
  BY <1>1, RespondedStays
<1>3. ASSUME sequence'[c] # 0
      PROVE  /\ stage'[c] \in Final /\ Responded(c)' /\ sequence'[c] <= observed'
             /\ \A d \in Calls : gate' = d => Precedes(c, d)'
             /\ \A d \in Calls : sequence'[c] < sequence'[d] => Follows(c, d)'
  <2>1. /\ stage[c] \in Final /\ Responded(c) /\ sequence[c] <= observed
        /\ \A d \in Calls : gate = d => Precedes(c, d)
        /\ \A d \in Calls : sequence[c] < sequence[d] => Follows(c, d)
    BY <1>1, <1>3 DEF NumberedFor
  <2>2. \A d \in Calls : /\ Precedes(c, d) => Precedes(c, d)'
                         /\ Follows(c, d) => Follows(c, d)'
    BY <1>1, <2>1, OrderStays
  <2> QED
    BY <1>2, <2>1, <2>2
<1> QED
  BY <1>1, <1>2, <1>3 DEF NumberedFor

LEMMA UnsupervisedNumbered ==
    ASSUME Sane, Numbered, Unsupervised, UNCHANGED supervisorVars, NEW c \in Calls
    PROVE  NumberedFor(c)'
<1> USE Numbers DEF Sane, Ordered
<1>1. UNCHANGED <<observed, sequence, gate, stage>> /\ Typed /\ NumberedFor(c)
  BY DEF supervisorVars, Formed, Numbered
<1>2. CASE Aside
  BY <1>1, <1>2, NumberedStays DEF Aside, Rests
<1>3. ASSUME NEW g \in Clients, Acts(g) PROVE NumberedFor(c)'
  <2>1. UNCHANGED <<at, on, result>>
    BY <1>1, <1>3, ActsLocal
  <2>2. Responded(c) => Rests(c) /\ answer'[c] = answer[c]
    BY <1>3, AnsweredRests DEF Responded
  <2> QED
    BY <1>1, <2>1, <2>2, NumberedStays
<1>4. ASSUME NEW d \in Calls, CallStep(d) PROVE NumberedFor(c)'
  <2>1. /\ at[d] \notin {"idle", "ended"}
        /\ UNCHANGED <<on, answer, executed>>
        /\ \E g \in Clients : Proceeding(d, g)
    BY <1>4, CurrentCalls
  <2>2. Responded(c) => Rests(c) /\ answer'[c] = answer[c] /\ c # d
    BY <2>1 DEF Responded, Rests
  <2>3. Ran' = Ran
    BY <2>1 DEF Ran
  <2>4. \/ \E p \in Places \ {"ended"} : at' = [at EXCEPT ![d] = p] /\ result' = result
                                         /\ (p = "exiting" => d \in Stops)
        \/ \E r \in Results : /\ at' = [at EXCEPT ![d] = "ended"]
                              /\ result' = [result EXCEPT ![d] = r]
                              /\ r = "ok" => (answer[d] # Nobody /\ answer[d].ok)
                                             \/ at[d] = "exiting"
    <3>1. ASSUME NEW g \in Clients, HandsOver(d, g)
          PROVE  at' = [at EXCEPT ![d] = "writing"] /\ result' = result
      BY <3>1 DEF HandsOver
    <3>2. ASSUME Declines(d)
          PROVE  \E r \in {"not_dispatched", "gone"} :
                   at' = [at EXCEPT ![d] = "ended"] /\ result' = [result EXCEPT ![d] = r]
      BY <3>2 DEF Declines, Ends
    <3>3. ASSUME NEW r \in Results, EndsFor(d, r)
          PROVE  /\ at' = [at EXCEPT ![d] = "ended"]
                 /\ result' = [result EXCEPT ![d] = r]
                 /\ r = "ok" => (answer[d] # Nobody /\ answer[d].ok) \/ at[d] = "exiting"
      BY <3>3 DEF EndsFor, Ends
    <3>4. ASSUME NEW p \in Places, GoesOn(d, p)
          PROVE  /\ at' = [at EXCEPT ![d] = p] /\ result' = result /\ p # "ended"
                 /\ p = "exiting" => d \in Stops
      BY <3>4 DEF GoesOn
    <3>5. {"not_dispatched", "gone"} \subseteq Results /\ "writing" \in Places \ {"ended"}
      BY DEF Results, Places
    <3> QED
      BY <2>1, <3>1, <3>2, <3>3, <3>4, <3>5 DEF Proceeding
  <2>5. answer[d] # Nobody /\ answer[d].ok => RunOf(d) \in Ran
    BY DEF Placed, Settled, RunOf, RunOn
  <2>6. at[d] = "exiting" => d \in Stops
    BY DEF Numbered, NumberedFor
  <2>7. at'[c] = "ended" /\ result'[c] = "ok" /\ c \notin Stops =>
          Responded(c)' \/ (at[c] = "ended" /\ result[c] = "ok")
    BY <2>1, <2>3, <2>4, <2>5, <2>6 DEF Responded, RunOf
  <2>8. at'[c] = "exiting" => at[c] = "exiting" \/ c \in Stops
    BY <2>4
  <2>9. Responded(c) => at'[c] = at[c]
    BY <2>2, <2>4
  <2> QED
    BY <1>1, <2>1, <2>2, <2>7, <2>8, <2>9, NumberedStays
<1>5. CASE UNCHANGED workerVars
  BY <1>2, <1>5 DEF Aside
<1> QED
  BY <1>2, <1>3, <1>4, <1>5, Asides DEF Unsupervised

LEMMA QuietNumbered ==
    ASSUME Sane, Numbered, NEW d \in Calls,
           Quits(d) \/ KillWorker(d) \/ Renews(d) \/ KillFallback(d), NEW c \in Calls
    PROVE  NumberedFor(c)'
<1> USE Numbers DEF Sane, Ordered
<1>1. UNCHANGED <<answer, at, on, result, executed>>
  BY Asides DEF Aside
<1>2. /\ UNCHANGED <<observed, sequence>> /\ (gate' = gate \/ gate' = Nobody)
      /\ \E p \in Stages : stage' = [stage EXCEPT ![d] = p]
      /\ stage[d] \notin Final \/ stage' = [stage EXCEPT ![d] = "killed"]
  BY DEF Quits, KillWorker, Renews, KillFallback, Moves, Stages, Final
<1>3. stage[c] \in Final => stage'[c] \in Final
  BY <1>2 DEF Final
<1>4. Responded(c) => Rests(c)
  BY <1>1 DEF Rests
<1> QED
  BY <1>1, <1>2, <1>3, <1>4, NumberedStays

LEMMA RegistersNumbered ==
    ASSUME Sane, Numbered, NEW d \in Calls, Registers(d), NEW c \in Calls
    PROVE  NumberedFor(c)'
<1> USE Numbers DEF Sane, Ordered
<1>1. /\ UNCHANGED <<executed, observed, sequence>>
      /\ \/ at' = [at EXCEPT ![d] = "handing"] /\ result' = result
         \/ /\ at' = [at EXCEPT ![d] = "ended"]
            /\ \E r \in Results \ {"ok"} : result' = [result EXCEPT ![d] = r]
      /\ answer' = [answer EXCEPT ![d] = Nobody]
      /\ stage[d] \notin Final /\ gate' = d
      /\ on' = [on EXCEPT ![d] = client]
      /\ c # d => stage'[c] = stage[c]
  BY DEF Registers, Register, Ends, Final, Results, Gated, GatedFor, Active
<1>2. NumberedFor(c) /\ Typed /\ answer \in [Calls -> Outcome \cup {Nobody}]
  BY DEF Numbered, Formed, Typed, ClientTypeOK
<1>3. CASE c = d
  BY <1>1, <1>2, <1>3 DEF NumberedFor
<1>4. CASE c # d
  <2>1. RunOf(c)' = RunOf(c)
    BY <1>1, <1>4 DEF RunOf
  <2>2. Responded(c)' = Responded(c)
    BY <1>1, <1>2, <1>4, <2>1 DEF Responded, Ran
  <2>3. ASSUME sequence[c] # 0, NEW e \in Calls, sequence[c] < sequence[e]
        PROVE  Follows(c, e)'
    <3>1. e # d /\ Follows(c, e)
      <4>1. sequence[c] \in Nat /\ sequence[e] \in Nat
        BY DEF Formed, Supervision
      <4>2. sequence[e] # 0
        BY <2>3, <4>1
      <4> QED
        BY <1>1, <1>2, <2>3, <4>2 DEF Numbered, NumberedFor
    <3>2. RunOf(e)' = RunOf(e)
      BY <1>1, <3>1 DEF RunOf
    <3> QED
      BY <1>1, <2>1, <3>1, <3>2 DEF Follows
  <2>4. Precedes(c, d)'
    <3>1. PICK g \in Clients : g = client
      OBVIOUS
    <3>2. NotYet(g, d)
      BY <3>1, CurrentRegisters DEF NotYet
    <3>3. RunOn(g, d) \notin Ran
      BY <3>2, NotYetClean DEF Clean
    <3>4. RunOf(d)' = RunOn(g, d)
      BY <1>1, <3>1 DEF RunOf, RunOn
    <3> QED
      BY <1>1, <3>3, <3>4 DEF Precedes, Ran
  <2>5. at'[c] = at[c] /\ result'[c] = result[c] /\ stage'[c] = stage[c]
    BY <1>1, <1>4
  <2> QED
    BY <1>1, <1>2, <2>2, <2>3, <2>4, <2>5 DEF NumberedFor
<1> QED
  BY <1>3, <1>4

LEMMA ReturnNumbered ==
    ASSUME Sane, Numbered, NEW d \in Calls, Return(d), NEW c \in Calls
    PROVE  NumberedFor(c)'
<1> USE Numbers DEF Sane, Ordered
<1>1. /\ UNCHANGED <<answer, at, on, result, executed>> /\ gate' = Nobody
      /\ stage' = [stage EXCEPT ![d] = "returned"]
      /\ stage[d] \in {"calling", "retrying"} /\ at[d] = "ended"
  BY DEF Return, Returns, Moves
<1>2. \/ UNCHANGED <<observed, sequence>>
      \/ /\ result[d] = "ok" /\ d \notin Stops
         /\ observed' = observed + 1 /\ sequence' = [sequence EXCEPT ![d] = observed + 1]
  BY DEF Return
<1>3. /\ observed \in Nat /\ sequence \in [Calls -> Nat]
      /\ \A e \in Calls : NumberedFor(e) /\ sequence[e] <= observed
  BY DEF Numbered, NumberedFor, Formed, Supervision
<1>4. CASE UNCHANGED <<observed, sequence>>
  <2>1. Rests(c) /\ (stage[c] \in Final => stage'[c] \in Final)
    BY <1>1 DEF Rests, Final
  <2> QED
    BY <1>1, <1>4, <2>1, NumberedStays
<1>5. CASE /\ result[d] = "ok" /\ d \notin Stops
           /\ observed' = observed + 1 /\ sequence' = [sequence EXCEPT ![d] = observed + 1]
  <2>1. /\ Responded(c)' = Responded(c)
        /\ \A e \in Calls : Follows(c, e)' = Follows(c, e)
    BY <1>1 DEF Responded, Ran, Follows, RunOf
  <2>2. Responded(d) /\ gate = d
    BY <1>1, <1>3, <1>5 DEF NumberedFor, Gated, GatedFor, Active
  <2>3. ASSUME sequence'[c] # 0
        PROVE  /\ stage'[c] \in Final /\ Responded(c) /\ sequence'[c] <= observed'
               /\ \A e \in Calls : sequence'[c] < sequence'[e] => Follows(c, e)
    <3>1. CASE c = d
      BY <1>1, <1>3, <1>5, <2>2, <3>1 DEF Final
    <3>2. CASE c # d
      <4>1. /\ stage[c] \in Final /\ Responded(c) /\ sequence[c] <= observed
            /\ sequence'[c] = sequence[c]
            /\ Precedes(c, d)
            /\ \A e \in Calls : sequence[c] < sequence[e] => Follows(c, e)
        BY <1>3, <1>5, <2>2, <2>3, <3>2 DEF NumberedFor
      <4>2. Follows(c, d)
        <5>1. PICK n \in DOMAIN executed : executed[n] = RunOf(d)
          BY <2>2 DEF Responded, Ran
        <5> QED
          BY <4>1, <5>1 DEF Precedes, Follows
      <4>3. ASSUME NEW e \in Calls, sequence'[c] < sequence'[e] PROVE Follows(c, e)
        BY <1>3, <1>5, <4>1, <4>2, <4>3
      <4> QED
        BY <1>1, <1>3, <1>5, <3>2, <4>1, <4>3
    <3> QED
      BY <3>1, <3>2
  <2>4. /\ at[c] = "ended" /\ result[c] = "ok" /\ c \notin Stops => Responded(c)
        /\ at[c] = "exiting" => c \in Stops
    BY <1>3 DEF NumberedFor
  <2>5. \A e \in Calls : gate' # e
    BY <1>1
  <2> QED
    BY <1>1, <2>1, <2>3, <2>4, <2>5 DEF NumberedFor
<1> QED
  BY <1>2, <1>4, <1>5

LEMMA NumberedKept == Sane /\ Numbered /\ [Next]_vars => Numbered'
BY Steps, UnsupervisedNumbered, QuietNumbered, RegistersNumbered, ReturnNumbered
   DEF Numbered, Supervises

LEMMA InitNumbered == Init => Numbered
BY DEF Init, ClientInit, Numbered, NumberedFor

\* A response with a higher number was executed later: the numbers the supervisor
\* gives out are what the mesh scheduler tells a younger snapshot by
\* (observationSequence, src/internal/workerproc/supervisor.go).
THEOREM ResponsesOrdered == Spec => []ObservationsOrdered
<1>1. Sane /\ Numbered => ObservationsOrdered
  <2> SUFFICES ASSUME Sane, Numbered, NEW c \in Calls, NEW d \in Calls,
                      sequence[c] # 0, sequence[c] < sequence[d]
               PROVE  \E m, n \in DOMAIN executed :
                        /\ m < n /\ executed[m] = RunOf(c) /\ executed[n] = RunOf(d)
                        /\ \A k \in DOMAIN executed :
                             executed[k] \in {RunOf(c), RunOf(d)} => k \in {m, n}
    BY DEF ObservationsOrdered
  <2>1. Follows(c, d) /\ Responded(c) /\ Single
    BY DEF Numbered, NumberedFor, Sane, Placed
  <2>2. PICK n \in DOMAIN executed :
          executed[n] = RunOf(d) /\ \A k \in DOMAIN executed : executed[k] = RunOf(c) => k < n
    BY <2>1 DEF Follows
  <2>3. PICK m \in DOMAIN executed : executed[m] = RunOf(c)
    BY <2>1 DEF Responded, Ran
  <2>4. \A k \in DOMAIN executed : executed[k] \in {RunOf(c), RunOf(d)} => k \in {m, n}
    BY <2>1, <2>2, <2>3 DEF Single
  <2> QED
    BY <2>2, <2>3, <2>4
<1> QED
  BY <1>1, InitSane, SaneKept, InitNumbered, NumberedKept, PTL DEF Spec

-----------------------------------------------------------------------------
(***************************************************************************)
(* Whom the worker dies for: a call that ends with the worker at fault was *)
(* taken up by its writer, or the worker serves no more.  With generated   *)
(* IDs no call ends as a duplicate; swarmd takes the callers' IDs off the  *)
(* requests (callWorker, src/cmd/swarmd/main.go).                          *)
(***************************************************************************)
IDsGenerated == \A c \in Calls : GivenID[c] = 0

\* What a call that ended tells of its client g.
BlamedOn(c, g) ==
    /\ at[c] = "awaiting" => written[g][c] = "ok"
    /\ at[c] = "ended" /\ c \notin Stops =>
         /\ result[c] = "write_failed" => written[g][c] = "failed"
         /\ result[c] = "gone" => done[g]
         /\ result[c] # "duplicate"
         /\ result[c] \in {"canceled", "expired"} =>
              written[g][c] \in {"started", "ok", "failed"}

BlamedFor(c) ==
    \A g \in Clients :
      /\ on[c] = g => BlamedOn(c, g)
      /\ written[g][c] = "failed" => ~Serving(g)

Blamed == \A c \in Calls : BlamedFor(c)

\* What a writer reported stands: "started" is all that is taken back, for the end
\* of the write.
LEMMA ReportsStand ==
    ASSUME Sane, NEW g \in Clients, Acts(g), NEW c \in Calls, NEW h \in Clients
    PROVE  /\ written[h][c] \in {"ok", "failed"} => written'[h][c] = written[h][c]
           /\ written[h][c] = "started" => written'[h][c] \in {"started", "ok", "failed"}
           /\ written'[h][c] = "failed" => written[h][c] = "failed" \/ ~Serving(h)
<1> USE Numbers DEF Sane, Ordered
<1>1. Typed /\ Reported(g) /\ written \in [Clients -> [Calls -> Reports]]
  BY Types DEF Formed, Placed
<1>2. CASE written' = written
  BY <1>2
<1>3. ASSUME NEW f \in Held(g), NEW what \in Reports,
             written' = [written EXCEPT ![g][f.call] = what],
             \/ writer[g].step = "holding" /\ what \in {"started", "discarded"}
             \/ writer[g].step = "writing" /\ what \in {"ok", "failed"},
             what = "failed" => ~Serving(g)
      PROVE  /\ written[h][c] \in {"ok", "failed"} => written'[h][c] = written[h][c]
             /\ written[h][c] = "started" => written'[h][c] \in {"started", "ok", "failed"}
             /\ written'[h][c] = "failed" => written[h][c] = "failed" \/ ~Serving(h)
  <2>1. f.call \in Calls
    BY <1>1, PlaceTypes
  <2>2. \/ what \in {"started", "discarded"} /\ written[g][f.call] = "no"
        \/ what \in {"ok", "failed"} /\ written[g][f.call] = "started"
    BY <1>1, <1>3 DEF Reported, Held
  <2>3. h = g /\ c = f.call => written'[h][c] = what
    BY <1>1, <1>3, <2>1
  <2>4. ~(h = g /\ c = f.call) => written'[h][c] = written[h][c]
    BY <1>1, <1>3, <2>1
  <2> QED
    BY <1>3, <2>2, <2>3, <2>4
<1> QED
  BY <1>1, <1>2, <1>3, ActsReport

LEMMA UnsupervisedBlamed ==
    ASSUME Sane, Concluded, Numbered, Blamed, Unsupervised, NEW c \in Calls
    PROVE  BlamedFor(c)'
<1> USE Numbers DEF Sane, Ordered
<1>1. BlamedFor(c) /\ Typed
  BY DEF Blamed, Formed
<1>2. CASE Aside /\ UNCHANGED process
  BY <1>1, <1>2 DEF Aside, BlamedFor, BlamedOn, Serving, Alive
<1>3. ASSUME NEW g \in Clients, Acts(g) PROVE BlamedFor(c)'
  <2>1. /\ UNCHANGED <<at, on, result>>
        /\ \A h \in Clients : done[h] => done'[h]
    BY <1>1, <1>3, ActsLocal
  <2>2. \A h \in Clients : Serving(h)' => Serving(h)
    BY <1>1, <1>3, ActsLocal DEF Serving
  <2>3. SUFFICES ASSUME NEW h \in Clients
                 PROVE  /\ on'[c] = h => BlamedOn(c, h)'
                        /\ written'[h][c] = "failed" => ~Serving(h)'
    BY DEF BlamedFor
  <2>4. /\ written[h][c] \in {"ok", "failed"} => written'[h][c] = written[h][c]
        /\ written[h][c] = "started" => written'[h][c] \in {"started", "ok", "failed"}
        /\ written'[h][c] = "failed" => written[h][c] = "failed" \/ ~Serving(h)
    BY <1>3, ReportsStand
  <2>5. on[c] = h => BlamedOn(c, h)'
    BY <1>1, <2>1, <2>4 DEF BlamedFor, BlamedOn
  <2> QED
    BY <1>1, <2>1, <2>2, <2>4, <2>5 DEF BlamedFor
<1>4. ASSUME NEW d \in Calls, CallStep(d) PROVE BlamedFor(c)'
  <2>1. /\ UNCHANGED <<on, written, done>>
        /\ at[d] \notin {"idle", "ended"}
        /\ process' = process \/ process' = Killed(on[d])
    BY <1>1, <1>4, CurrentCalls, CallSteps
  <2>2. \A h \in Clients : Serving(h)' => Serving(h)
    BY <1>1, <2>1, Types DEF Serving, Alive, Killed
  <2>3. PICK g \in Clients : g = on[d]
    OBVIOUS
  <2>4. Proceeding(d, g)
    BY <1>4, <2>3, CurrentCalls
  <2>5. \/ c # d /\ at'[c] = at[c] /\ result'[c] = result[c]
        \/ c = d /\ (on'[c] = g => BlamedOn(c, g)')
    <3>1. ASSUME HandsOver(d, g) \/ Declines(d)
          PROVE  /\ c # d => at'[c] = at[c] /\ result'[c] = result[c]
                 /\ c = d => BlamedOn(c, g)'
      BY <2>1, <2>3, <3>1 DEF HandsOver, Declines, Ends, BlamedOn
    <3>2. ASSUME NEW r \in Results, EndsFor(d, r)
          PROVE  /\ c # d => at'[c] = at[c] /\ result'[c] = result[c]
                 /\ c = d => BlamedOn(c, g)'
      <4>1. /\ at' = [at EXCEPT ![d] = "ended"] /\ result' = [result EXCEPT ![d] = r]
            /\ r # "duplicate"
            /\ r = "write_failed" => written[g][d] = "failed"
            /\ r = "gone" => done[g]
            /\ r \in {"canceled", "expired"} /\ at[d] # "exiting" =>
                 at[d] = "awaiting" \/ written[g][d] \in {"started", "ok", "failed"}
        BY <2>3, <3>2 DEF EndsFor, Ends
      <4>2. at[d] = "awaiting" => written[g][d] = "ok"
        BY <2>3 DEF Blamed, BlamedFor, BlamedOn
      <4>3. at[d] = "exiting" => d \in Stops
        BY DEF Numbered, NumberedFor
      <4> QED
        BY <2>1, <4>1, <4>2, <4>3 DEF BlamedOn
    <3>3. ASSUME NEW p \in Places, GoesOn(d, p)
          PROVE  /\ c # d => at'[c] = at[c] /\ result'[c] = result[c]
                 /\ c = d => BlamedOn(c, g)'
      BY <2>1, <2>3, <3>3 DEF GoesOn, BlamedOn
    <3> QED
      BY <2>4, <3>1, <3>2, <3>3 DEF Proceeding
  <2>6. ASSUME NEW h \in Clients, on'[c] = h PROVE BlamedOn(c, h)'
    <3>1. CASE c = d
      BY <2>1, <2>3, <2>5, <2>6, <3>1
    <3>2. CASE c # d
      BY <1>1, <2>1, <2>5, <2>6, <3>2 DEF BlamedFor, BlamedOn
    <3> QED
      BY <3>1, <3>2
  <2> QED
    BY <1>1, <2>1, <2>2, <2>6 DEF BlamedFor
<1>5. CASE UNCHANGED workerVars
  BY <1>2, <1>5 DEF Aside
<1>6. ASSUME NEW d \in Calls, ContextEnds(d) PROVE BlamedFor(c)'
  BY <1>2, <1>6 DEF ContextEnds, Aside
<1> QED
  BY <1>3, <1>4, <1>5, <1>6 DEF Unsupervised

LEMMA SupervisesBlamed ==
    ASSUME IDsGenerated, Sane, Blamed, NEW d \in Calls, Supervises(d), NEW c \in Calls
    PROVE  BlamedFor(c)'
<1> USE Numbers DEF Sane, Ordered
<1>1. BlamedFor(c) /\ Typed
  BY DEF Blamed, Formed
<1>2. CASE /\ UNCHANGED <<at, on, result, written, done>>
           /\ \A h \in Clients : written[h][c] = "failed" /\ Serving(h)' => Serving(h)
  BY <1>1, <1>2 DEF BlamedFor, BlamedOn
<1>3. CASE Registers(d)
  <2>1. /\ UNCHANGED <<process, written, done>>
        /\ on' = [on EXCEPT ![d] = client]
        /\ \/ at' = [at EXCEPT ![d] = "handing"] /\ result' = result
           \/ /\ at' = [at EXCEPT ![d] = "ended"]
              /\ \/ result' = [result EXCEPT ![d] = "not_dispatched"]
                 \/ result' = [result EXCEPT ![d] = "gone"] /\ done[client]
    <3>1. GivenID[d] = 0 /\ FreshID(client) \notin ReservedIDs(client)
      BY <1>1, FreshIDExists DEF IDsGenerated, Typed, ClientTypeOK
    <3> QED
      BY <1>3, <3>1 DEF Registers, Register, Ends
  <2>2. ASSUME NEW h \in Clients, on'[c] = h PROVE BlamedOn(c, h)'
    <3>1. CASE c = d
      BY <2>1, <2>2, <3>1 DEF BlamedOn
    <3>2. CASE c # d
      BY <1>1, <2>1, <2>2, <3>2 DEF BlamedFor, BlamedOn
    <3> QED
      BY <3>1, <3>2
  <2> QED
    BY <1>1, <2>1, <2>2 DEF BlamedFor, Serving, Alive
<1>4. CASE Quits(d) \/ Return(d)
  BY <1>2, <1>4 DEF Quits, Return, Serving, Alive
<1>5. CASE KillWorker(d) \/ KillFallback(d)
  <2>1. done' = done /\ (process' = process \/ \E h \in Clients : process' = Killed(h))
    BY <1>5 DEF KillWorker, KillFallback, Kills
  <2>2. \A h \in Clients : Serving(h)' => Serving(h)
    BY <1>1, <2>1, Types DEF Serving, Alive, Killed
  <2> QED
    BY <1>2, <1>5, <2>2 DEF KillWorker, KillFallback
<1>6. CASE Renews(d)
  <2>1. /\ client + 1 \in Clients /\ process' = [process EXCEPT ![client + 1] = "running"]
        /\ done' = done
    BY <1>6 DEF Renews
  <2>2. \A h \in Clients \ {client + 1} : Serving(h)' => Serving(h)
    BY <1>1, <2>1, Types DEF Serving, Alive
  <2>3. written[client + 1][c] = "no"
    <3>1. on[c] < client + 1
      BY DEF Gated, GatedFor
    <3> QED
      BY <2>1, <3>1 DEF Placed, Located, Untouched, NotYet
  <2> QED
    BY <1>2, <1>6, <2>2, <2>3 DEF Renews
<1> QED
  BY <1>3, <1>4, <1>5, <1>6 DEF Supervises

LEMMA InitBlamed == Init => Blamed
BY DEF Init, ClientInit, Blamed, BlamedFor, BlamedOn

\* A worker that serves is killed for a call its writer had taken up, never for one
\* that waited behind another: a caller without patience cannot cost others the
\* worker (workerSuspect, src/internal/workerproc/supervisor.go).
THEOREM KilledForItsOwn ==
    ASSUME IDsGenerated
    PROVE  Spec => KilledForItsCalls
<1> DEFINE Inv == Sane /\ Concluded /\ Numbered /\ Blamed
<1>1. Init => Inv
  BY InitSane, InitConcluded, InitNumbered, InitBlamed
<1>2. Inv /\ [Next]_vars => Inv'
  <2>1. Sane /\ Concluded /\ Numbered /\ Blamed /\ [Next]_vars => Blamed'
    BY Steps, UnsupervisedBlamed, SupervisesBlamed DEF Blamed
  <2> QED
    BY <2>1, SaneKept, ConcludedKept, NumberedKept
<1>3. ASSUME Inv, [Next]_vars, NEW c \in Calls,
             stage[c] = "calling", stage'[c] = "reaping", Serving(on[c])
      PROVE  written[on[c]][c] \in {"started", "ok"}
  <2>1. WorkerSuspect(c) /\ at[c] = "ended"
    <3>1. stage \in [Calls -> Stages]
      BY <1>3 DEF Sane, Ordered, Formed, Supervision
    <3>2. PICK d \in Calls : Supervises(d)
      BY <1>3, Steps DEF supervisorVars
    <3>3. KillWorker(c)
      BY <1>3, <3>1, <3>2 DEF Supervises, Registers, Quits, Return, Returns, Moves,
                              KillWorker, Renews, KillFallback
    <3> QED
      BY <3>3 DEF KillWorker
  <2>2. on[c] \in Clients /\ BlamedOn(c, on[c]) /\ result[c] \in Results
    BY <1>3, <2>1, Numbers DEF Sane, Ordered, Blamed, BlamedFor, Concluded, ReturnedFor
  <2>3. /\ written[on[c]][c] = "failed" => ~Serving(on[c])
        /\ done[on[c]] => ~Serving(on[c])
    BY <1>3, <2>2 DEF Blamed, BlamedFor, Serving
  <2> QED
    BY <1>3, <2>1, <2>2, <2>3 DEF WorkerSuspect, BlamedOn, Results
<1>4. Inv /\ [Next]_vars =>
        [\A c \in Calls : stage[c] = "calling" /\ stage'[c] = "reaping" /\ Serving(on[c])
           => written[on[c]][c] \in {"started", "ok"}]_vars
  BY <1>3
<1> QED
  BY <1>1, <1>2, <1>4, PTL DEF Spec, KilledForItsCalls
=============================================================================
