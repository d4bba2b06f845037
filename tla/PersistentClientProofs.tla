----------------------- MODULE PersistentClientProofs -----------------------
(***************************************************************************)
(* What TLAPS proves of the actions of a worker process and its client     *)
(* (PersistentClient), whoever composes them: they keep the types, and     *)
(* they keep the places a request can be in apart.  The proofs about a     *)
(* client used directly (PersistentTargetProofs) and about the supervisor  *)
(* (PersistentSupervisorProofs) rest on these lemmas.                      *)
(***************************************************************************)
EXTENDS PersistentClient, FiniteSetTheorems, SequenceTheorems,
        WellFoundedInduction, TLAPS

----------------------------------------------------------------------------
(***************************************************************************)
(* Type correctness.  A generated ID exists: the requests that are pending *)
(* are finite in number and cannot reserve all of one ID more.             *)
(***************************************************************************)

LEMMA LeastExists ==
    ASSUME NEW T \in SUBSET Nat, T # {}
    PROVE  \E x \in T : \A y \in T : ~(y < x)
<1>1. PICK x \in T : \A y \in T : ~(<<y, x>> \in OpToRel(<, Nat))
  BY NatLessThanWellFounded, WFMin, ZenonT(30)
<1>2. \A y \in T : y < x => <<y, x>> \in OpToRel(<, Nat)
  BY Zenon DEF OpToRel
<1> QED
  BY <1>1, <1>2, Zenon

LEMMA FreshIDExists ==
    ASSUME NEW g \in Clients, nextID[g] \in Nat, pending[g] \subseteq Frame,
           IsFiniteSet(pending[g])
    PROVE  FreshID(g) \in IDs /\ FreshID(g) \notin ReservedIDs(g)
<1> DEFINE m == nextID[g]
           k == Cardinality(pending[g])
           range == (m + 1)..(m + k + 1)
           free == range \ ReservedIDs(g)
<1>1. m \in Nat /\ k \in Nat
  BY FS_CardinalityType
<1>2. free # {}
  <2>1. SUFFICES ASSUME range \subseteq ReservedIDs(g) PROVE FALSE
    OBVIOUS
  <2> DEFINE IDOf == [f \in pending[g] |-> f.id]
  <2>2. IDOf \in Surjection(pending[g], ReservedIDs(g))
    BY DEF Surjection, ReservedIDs
  <2> HIDE DEF IDOf
  <2>3. IsFiniteSet(ReservedIDs(g)) /\ Cardinality(ReservedIDs(g)) <= k
    BY <2>2, FS_Surjection
  <2>4. Cardinality(range) <= Cardinality(ReservedIDs(g))
    BY <2>1, <2>3, FS_Subset
  <2>5. Cardinality(range) = k + 1
    <3>1. m + 1 \in Int /\ m + k + 1 \in Int /\ ~(m + 1 > m + k + 1)
      BY <1>1
    <3>2. Cardinality(range) = (m + k + 1) - (m + 1) + 1
      BY <3>1, FS_Interval
    <3> QED
      BY <1>1, <3>2
  <2>6. Cardinality(ReservedIDs(g)) \in Nat
    BY <2>3, FS_CardinalityType
  <2> QED
    BY <1>1, <2>3, <2>4, <2>5, <2>6
<1>3. PICK n \in free : \A y \in free : ~(y < n)
  <2>1. free \in SUBSET Nat
    BY <1>1
  <2> HIDE DEF free
  <2> QED
    BY <1>2, <2>1, LeastExists
<1>4. \A y \in (m + 1)..(n - 1) : y \in ReservedIDs(g)
  BY <1>1, <1>3
<1>5. FreshID(g) \in range /\ FreshID(g) \notin ReservedIDs(g)
  BY <1>3, <1>4 DEF FreshID
<1> QED
  BY <1>1, <1>5 DEF IDs

\* Together with TypeOK: finitely many requests are pending, a request has an ID
\* before it is handed over, and a call leaves because its context ended.
Typed ==
    /\ ClientTypeOK
    /\ \A g \in Clients : IsFiniteSet(pending[g])
    /\ \A c \in Calls :
         /\ at[c] = "handing" => id[c] \in IDs
         /\ at[c] = "leaving" => ~Live(c)

USE DEF processVars, clientVars, callVars, workerVars

Writers == [step : {"idle", "stopped"}] \cup [step : {"holding", "writing"}, frame : Frame]
Reports == {"no", "started", "ok", "failed", "discarded"}

LEMMA Types ==
    ASSUME Typed
    PROVE  /\ process \in [Clients -> Processes]
           /\ writer \in [Clients -> Writers]
           /\ written \in [Clients -> [Calls -> Reports]]
           /\ pending \in [Clients -> SUBSET Frame]
           /\ stdin \in [Clients -> Seq(Frame)]
           /\ stdout \in [Clients -> Seq(Outcome \cup {Garbled})]
BY DEF Typed, ClientTypeOK, Writers, Reports

LEMMA WriterStates ==
    /\ Idle \in Writers /\ Stopped \in Writers
    /\ \A f \in Frame : /\ [step |-> "holding", frame |-> f] \in Writers
                         /\ [step |-> "writing", frame |-> f] \in Writers
    /\ \A w \in Writers : w.step \in {"holding", "writing"} => w.frame \in Frame
BY DEF Writers, Idle, Stopped

LEMMA InitTyped == ClientInit => Typed
<1>1. 1 \in Clients /\ Faults \subseteq FaultKinds
  BY ClientAssumption
<1> QED
  BY <1>1, FS_EmptySet DEF ClientInit, Typed, ClientTypeOK, Live, Idle, Processes, Contexts,
     Places, Live

LEMMA ExecuteTyped ==
    ASSUME Typed, NEW g \in Clients, Execute(g)
    PROVE  Typed'
<1>1. Head(stdin[g]) \in Frame /\ Tail(stdin[g]) \in Seq(Frame)
  BY DEF Execute, Typed, ClientTypeOK
<1>2. Head(stdin[g]).call \in Calls
  BY <1>1 DEF Frame
<1>3. stdin' \in [Clients -> Seq(Frame)]
  BY <1>1 DEF Execute, Typed, ClientTypeOK
<1>4. working' \in [Clients -> Outcome \cup {Nobody}]
  BY <1>1 DEF Execute, Typed, ClientTypeOK, Outcome
<1>5. executed' \in Seq(Run)
  <2>1. [on |-> g, call |-> Head(stdin[g]).call] \in Run
    BY <1>2 DEF Run
  <2> QED
    BY <2>1 DEF Execute, Typed, ClientTypeOK
<1> QED
  BY <1>3, <1>4, <1>5 DEF Execute, Typed, ClientTypeOK, Live

LEMMA AnswerTyped ==
    ASSUME Typed, NEW g \in Clients, AnswerFrame(g)
    PROVE  Typed'
<1>1. working[g] \in Outcome
  BY DEF AnswerFrame, Typed, ClientTypeOK
<1>2. stdout' \in [Clients -> Seq(Outcome \cup {Garbled})]
  BY <1>1 DEF AnswerFrame, Typed, ClientTypeOK
<1>3. working' \in [Clients -> Outcome \cup {Nobody}]
  BY DEF AnswerFrame, Typed, ClientTypeOK
<1>4. process' \in [Clients -> Processes]
  <2>1. process' = process \/ \E end \in Processes : process' = [process EXCEPT ![g] = end]
    BY DEF AnswerFrame, Processes
  <2> QED
    BY <2>1, Types
<1> QED
  BY <1>2, <1>3, <1>4 DEF AnswerFrame, Typed, ClientTypeOK, Live

LEMMA EndOfInputTyped ==
    ASSUME Typed, NEW g \in Clients, EndOfInput(g)
    PROVE  Typed'
<1>1. process' \in [Clients -> Processes]
  BY Types DEF EndOfInput, Processes
<1> QED
  BY <1>1 DEF EndOfInput, Typed, ClientTypeOK, Live

LEMMA FailsTyped ==
    ASSUME Typed, NEW g \in Clients, ProcessFails(g)
    PROVE  Typed'
<1>1. process' \in [Clients -> Processes]
  <2>1. \E how \in Processes : process' = [process EXCEPT ![g] = how]
    <3>1. \/ process' = [process EXCEPT ![g] = "dead"]
          \/ process' = [process EXCEPT ![g] = "hung"]
          \/ process' = [process EXCEPT ![g] = "muted"]
          \/ process' = process
      BY DEF ProcessFails
    <3>2. process = [process EXCEPT ![g] = process[g]] /\ process[g] \in Processes
      BY Types
    <3> QED
      BY <3>1, <3>2 DEF Processes
  <2> QED
    BY <2>1, Types
<1>2. stdout' \in [Clients -> Seq(Outcome \cup {Garbled})]
  <2>1. \/ stdout' = stdout
        \/ stdout' = [stdout EXCEPT ![g] = Append(stdout[g], Garbled)]
    BY Types DEF ProcessFails
  <2>2. Append(stdout[g], Garbled) \in Seq(Outcome \cup {Garbled})
    BY Types
  <2> QED
    BY <2>1, <2>2, Types
<1> QED
  BY <1>1, <1>2 DEF ProcessFails, Typed, ClientTypeOK, Live

LEMMA WriteStartsTyped ==
    ASSUME Typed, NEW g \in Clients, WriteStarts(g)
    PROVE  Typed'
<1>1. writer[g].frame \in Frame
  BY Types, WriterStates DEF WriteStarts
<1>2. writer[g].frame.call \in Calls
  BY <1>1 DEF Frame
<1>3. writer' \in [Clients -> Writers]
  BY <1>1, Types, WriterStates DEF WriteStarts
<1>4. \A h \in Clients : pending'[h] \subseteq pending[h]
  BY Types DEF WriteStarts, Unreserved
<1>5. pending' \in [Clients -> SUBSET Frame]
  BY Types, ZenonT(30) DEF WriteStarts, Unreserved
<1>6. \A h \in Clients : IsFiniteSet(pending'[h])
  BY <1>4, FS_Subset DEF Typed
<1>7. written' \in [Clients -> [Calls -> Reports]]
  <2>1. \E what \in Reports : written' = [written EXCEPT ![g][writer[g].frame.call] = what]
    BY DEF WriteStarts, Report, Reports
  <2> QED
    BY <1>2, <2>1, Types
<1> QED
  BY <1>3, <1>5, <1>6, <1>7 DEF WriteStarts, Typed, ClientTypeOK, Live, Writers, Reports

\* Kill changes nothing but the process it kills, if that.
LEMMA KillsOne ==
    ASSUME Typed, NEW g \in Clients, Kills(g)
    PROVE  /\ process' = process \/ process' = Killed(g)
           /\ process' \in [Clients -> Processes]
<1>1. process' = process \/ process' = Killed(g)
  BY DEF Kills
<1> QED
  BY <1>1, Types DEF Killed, Alive, Processes

LEMMA WriteEndsTyped ==
    ASSUME Typed, NEW g \in Clients, WriteEnds(g)
    PROVE  Typed'
<1>1. writer[g].frame \in Frame
  BY Types, WriterStates DEF WriteEnds
<1>2. writer[g].frame.call \in Calls
  BY <1>1 DEF Frame
<1>3. writer' \in [Clients -> Writers]
  <2>1. writer' = [writer EXCEPT ![g] = Idle] \/ writer' = [writer EXCEPT ![g] = Stopped]
    BY DEF WriteEnds
  <2> QED
    BY <2>1, Types, WriterStates
<1>4. stdin' \in [Clients -> Seq(Frame)]
  <2>1. stdin' = stdin \/ stdin' = [stdin EXCEPT ![g] = Append(stdin[g], writer[g].frame)]
    BY Types DEF WriteEnds
  <2>2. Append(stdin[g], writer[g].frame) \in Seq(Frame)
    BY <1>1, Types
  <2> QED
    BY <2>1, <2>2, Types
<1>5. written' \in [Clients -> [Calls -> Reports]]
  <2>1. \E what \in Reports : written' = [written EXCEPT ![g][writer[g].frame.call] = what]
    BY DEF WriteEnds, Report, Reports
  <2> QED
    BY <1>2, <2>1, Types
<1>6. process' \in [Clients -> Processes]
  BY Types, KillsOne DEF WriteEnds
<1> QED
  BY <1>3, <1>4, <1>5, <1>6 DEF WriteEnds, Typed, ClientTypeOK, Live, Writers, Reports

LEMMA WriterStopsTyped ==
    ASSUME Typed, NEW g \in Clients, WriterStops(g)
    PROVE  Typed'
<1>1. writer' \in [Clients -> Writers]
  BY Types, WriterStates DEF WriterStops
<1> QED
  BY <1>1 DEF WriterStops, Typed, ClientTypeOK, Writers, Live

LEMMA FinishesTyped ==
    ASSUME Typed, NEW g \in Clients, Finishes(g)
    PROVE  /\ process' \in [Clients -> Processes]
           /\ stdin' \in [Clients -> Seq(Frame)]
           /\ working' \in [Clients -> Outcome \cup {Nobody}]
           /\ stdout' \in [Clients -> Seq(Outcome \cup {Garbled})]
           /\ done' \in [Clients -> BOOLEAN]
           /\ pending' \in [Clients -> SUBSET Frame]
           /\ \A h \in Clients : IsFiniteSet(pending'[h])
<1>1. process' \in [Clients -> Processes]
  <2>1. process' = process \/ process' = Killed(g)
    BY DEF Finishes
  <2> QED
    BY <2>1, Types DEF Killed, Alive, Processes
<1>2. /\ pending' \in [Clients -> SUBSET Frame]
      /\ \A h \in Clients : IsFiniteSet(pending'[h])
  BY FS_EmptySet DEF Finishes, Typed, ClientTypeOK
<1>3. stdin' \in [Clients -> Seq(Frame)] /\ stdout' \in [Clients -> Seq(Outcome \cup {Garbled})]
  <2>1. stdin' = stdin \/ stdin' = [stdin EXCEPT ![g] = <<>>]
    BY DEF Finishes
  <2>2. stdin' \in [Clients -> Seq(Frame)]
    <3>1. <<>> \in Seq(Frame)
      OBVIOUS
    <3> QED
      BY <2>1, <3>1, Types
  <2>3. stdout' \in [Clients -> Seq(Outcome \cup {Garbled})]
    BY DEF Finishes, Typed, ClientTypeOK
  <2> QED
    BY <2>2, <2>3
<1>4. working' \in [Clients -> Outcome \cup {Nobody}]
  BY DEF Finishes, Typed, ClientTypeOK
<1>5. done' \in [Clients -> BOOLEAN]
  BY DEF Finishes, Typed, ClientTypeOK
<1> QED
  BY <1>1, <1>2, <1>3, <1>4, <1>5

\* What matches no request is no outcome of one.
LEMMA DeliverTyped ==
    ASSUME Typed, NEW g \in Clients, Deliver(g)
    PROVE  Typed'
<1>1. /\ Head(stdout[g]) \in Outcome \cup {Garbled}
      /\ Tail(stdout[g]) \in Seq(Outcome \cup {Garbled})
  BY DEF Deliver, Typed, ClientTypeOK
<1>2. ASSUME NEW f \in pending[g], f.id = Head(stdout[g]).frame.id,
             pending' = Unreserved(g, f),
             answer' = [answer EXCEPT ![f.call] = Head(stdout[g])],
             stdout' = [stdout EXCEPT ![g] = Tail(@)],
             UNCHANGED <<process, stdin, working, done>>
      PROVE  Typed'
  <2>1. f \in Frame /\ f.id \in Nat \ {0} /\ f.call \in Calls
    <3>1. f \in Frame
      BY Types
    <3> QED
      BY <3>1 DEF Frame, IDs
  <2>2. Garbled.frame.id = 0
    BY DEF Garbled
  <2>3. Head(stdout[g]) \in Outcome
    <3>1. Head(stdout[g]) # Garbled
      BY <1>2, <2>1, <2>2
    <3> QED
      BY <1>1, <3>1
  <2>4. answer' \in [Calls -> Outcome \cup {Nobody}]
    BY <1>2, <2>1, <2>3 DEF Typed, ClientTypeOK
  <2>5. stdout' \in [Clients -> Seq(Outcome \cup {Garbled})]
    BY <1>1, <1>2 DEF Typed, ClientTypeOK
  <2>6. /\ pending' \in [Clients -> SUBSET Frame]
        /\ \A h \in Clients : IsFiniteSet(pending'[h])
    BY <1>2, FS_Subset DEF Typed, ClientTypeOK, Unreserved
  <2> QED
    BY <1>2, <2>4, <2>5, <2>6 DEF Deliver, Typed, ClientTypeOK, Live
<1>3. CASE Finishes(g) /\ UNCHANGED answer
  BY <1>3, FinishesTyped DEF Deliver, Typed, ClientTypeOK, Live
<1> QED
  BY <1>2, <1>3 DEF Deliver

LEMMA EndOfOutputTyped ==
    ASSUME Typed, NEW g \in Clients, EndOfOutput(g)
    PROVE  Typed'
<1>1. Finishes(g)
  BY DEF EndOfOutput
<1> QED
  BY <1>1, FinishesTyped DEF EndOfOutput, Typed, ClientTypeOK, Live

LEMMA RegisterTyped ==
    ASSUME Typed, NEW c \in Calls, NEW g \in Clients, Register(c, g)
    PROVE  Typed'
<1> DEFINE n == IF GivenID[c] # 0 THEN GivenID[c] ELSE FreshID(g)
<1>1. n \in IDs
  <2>1. GivenID[c] \in Nat
    BY ClientAssumption
  <2>2. FreshID(g) \in IDs
    BY FreshIDExists DEF Typed, ClientTypeOK
  <2> QED
    BY <2>1, <2>2 DEF IDs
<1> DEFINE f == [id |-> n, call |-> c]
<1>2. f \in Frame /\ n \in Nat
  BY <1>1 DEF Frame, IDs
<1>3. \/ UNCHANGED <<id, pending, nextID>>
      \/ /\ id' = [id EXCEPT ![c] = n]
         /\ pending' = [pending EXCEPT ![g] = pending[g] \cup {f}]
         /\ nextID' = [nextID EXCEPT ![g] = IF GivenID[c] = 0 THEN n ELSE nextID[g]]
  <2>1. pending[g] = pending[g] /\ g \in DOMAIN pending /\ g \in DOMAIN nextID
    BY DEF Typed, ClientTypeOK
  <2> QED
    BY <2>1 DEF Register
<1>4. \/ at' = [at EXCEPT ![c] = "ended"] \/ at' = [at EXCEPT ![c] = "handing"]
  BY DEF Register, Ends
<1>5. \/ result' = result
      \/ \E r \in {"not_dispatched", "gone", "duplicate"} : result' = [result EXCEPT ![c] = r]
  BY DEF Register, Ends
<1>6. /\ on' = [on EXCEPT ![c] = g] /\ answer' = [answer EXCEPT ![c] = Nobody]
      /\ UNCHANGED <<processVars, done, writer, expectedExit, ctx, written, executed>>
  BY DEF Register
<1> HIDE DEF f, n
<1>7. /\ id' \in [Calls -> Nat] /\ nextID' \in [Clients -> Nat]
  <2>1. id \in [Calls -> Nat] /\ nextID \in [Clients -> Nat]
    BY DEF Typed, ClientTypeOK
  <2>2. (IF GivenID[c] = 0 THEN n ELSE nextID[g]) \in Nat
    BY <1>2, <2>1
  <2> QED
    BY <1>2, <1>3, <2>1, <2>2
<1>8. pending' \in [Clients -> SUBSET Frame] /\ \A h \in Clients : IsFiniteSet(pending'[h])
  <2>1. CASE pending' = pending
    BY <2>1, Types DEF Typed
  <2>2. CASE pending' = [pending EXCEPT ![g] = pending[g] \cup {f}]
    <3>1. IsFiniteSet(pending[g] \cup {f})
      BY FS_AddElement DEF Typed
    <3> QED
      BY <1>2, <2>2, <3>1, Types DEF Typed
  <2> QED
    BY <1>3, <2>1, <2>2
<1>9. at' \in [Calls -> Places]
  BY <1>4 DEF Typed, ClientTypeOK, Places
<1>10. result' \in [Calls -> Results \cup {Nobody}]
  BY <1>5 DEF Typed, ClientTypeOK, Results
<1>11. on' \in [Calls -> Clients] /\ answer' \in [Calls -> Outcome \cup {Nobody}]
  BY <1>6 DEF Typed, ClientTypeOK
<1>12. \A d \in Calls : at'[d] = "leaving" => ctx'[d] # "live"
  BY <1>4, <1>6 DEF Typed, ClientTypeOK, Live
<1>13. \A d \in Calls : at'[d] = "handing" => id'[d] \in IDs
  <2>1. \/ at' = [at EXCEPT ![c] = "ended"] /\ id' = id
        \/ at' = [at EXCEPT ![c] = "handing"] /\ id' = [id EXCEPT ![c] = n]
    BY DEF Register, Ends, n
  <2> QED
    BY <1>1, <2>1 DEF Typed, ClientTypeOK
<1> QED
  BY <1>6, <1>7, <1>8, <1>9, <1>10, <1>11, <1>12, <1>13 DEF Typed, ClientTypeOK, Live

\* A call that goes to another select, or ends.
Proceeds(c, place, r) ==
    /\ at' = [at EXCEPT ![c] = place]
    /\ result' = IF place = "ended" THEN [result EXCEPT ![c] = r] ELSE result

Goes(c) ==
    \E place \in Places \ {"idle", "handing"}, r \in Results :
       Proceeds(c, place, r) /\ (place = "leaving" => ~Live(c))

LEMMA GoesSomewhere ==
    ASSUME NEW c \in Calls
    PROVE  /\ \A r \in Results : Proceeds(c, "ended", r) => Goes(c)
           /\ Proceeds(c, "writing", "ok") => Goes(c)
           /\ Proceeds(c, "awaiting", "ok") => Goes(c)
           /\ Proceeds(c, "exiting", "ok") => Goes(c)
           /\ ~Live(c) /\ Proceeds(c, "leaving", "ok") => Goes(c)
<1>1. /\ {"ended", "writing", "awaiting", "exiting", "leaving"} \subseteq Places \ {"idle", "handing"}
      /\ "ok" \in Results /\ \A s \in {"ended", "writing", "awaiting", "exiting"} : s # "leaving"
  BY DEF Places, Results
<1> QED
  BY <1>1 DEF Goes

LEMMA EndsGoes ==
    ASSUME NEW c \in Calls, NEW r \in Results, Ends(c, r)
    PROVE  Goes(c)
<1>1. Proceeds(c, "ended", r)
  BY DEF Ends, Proceeds
<1> QED
  BY <1>1, GoesSomewhere

LEMMA ResultNames ==
    /\ {"ok", "rejected", "not_dispatched", "write_failed", "gone"} \subseteq Results
    /\ \A c \in Calls : Typed /\ ~Live(c) => ctx[c] \in Results
BY DEF Results, Typed, ClientTypeOK, Contexts, Live

LEMMA GiveUpGoes ==
    ASSUME Typed, NEW c \in Calls, GiveUp(c), ~Live(c)
    PROVE  /\ Goes(c)
           /\ pending' = pending
           /\ process' = process \/ process' = Killed(on[c])
<1>1. Goes(c)
  BY EndsGoes, ResultNames DEF GiveUp
<1>2. pending' = pending
  BY DEF GiveUp
<1>3. process' = process \/ process' = Killed(on[c])
  BY DEF GiveUp, Kills
<1> QED
  BY <1>1, <1>2, <1>3

\* What a call in progress does is to proceed, to hand over or take back its own
\* frame, and to kill its process.
LEMMA CallSteps ==
    ASSUME Typed, NEW c \in Calls, CallStep(c)
    PROVE  /\ at[c] \notin {"idle", "ended"}
           /\ Goes(c)
           /\ \/ writer' = writer
              \/ /\ at[c] = "handing" /\ writer[on[c]] = Idle
                 /\ writer' = [writer EXCEPT
                                 ![on[c]] = [step |-> "holding", frame |-> FrameOf(c)]]
                 /\ pending' = pending
           /\ \/ pending' = pending
              \/ at[c] = "handing" /\ pending' = Unreserved(on[c], FrameOf(c))
           /\ process' = process \/ process' = Killed(on[c])
           /\ expectedExit' \in [Clients -> BOOLEAN]
           /\ UNCHANGED <<stdin, working, stdout, done, nextID, ctx, on, id, written,
                          answer, executed>>
<1>1. /\ expectedExit \in [Clients -> BOOLEAN]
      /\ at[c] = "leaving" => ~Live(c)
  BY DEF Typed, ClientTypeOK
<1>2. CASE Hand(c)
  <2>1. Goes(c)
    <3>1. \/ Proceeds(c, "writing", "ok") \/ Ends(c, "not_dispatched") \/ Ends(c, "gone")
      BY <1>2 DEF Hand, Proceeds
    <3> QED
      BY <3>1, GoesSomewhere, EndsGoes, ResultNames
  <2>2. at[c] = "handing"
    BY <1>2 DEF Hand
  <2>3. \/ /\ writer[on[c]] = Idle
           /\ writer' = [writer EXCEPT ![on[c]] = [step |-> "holding", frame |-> FrameOf(c)]]
           /\ pending' = pending
        \/ writer' = writer /\ pending' = Unreserved(on[c], FrameOf(c))
        \/ writer' = writer /\ pending' = pending
    BY <1>2 DEF Hand
  <2>4. UNCHANGED <<process, stdin, working, stdout, done, nextID, expectedExit, ctx, on, id,
                    written, answer, executed>>
    BY <1>2 DEF Hand
  <2> QED
    BY <1>1, <2>1, <2>2, <2>3, <2>4
<1>3. CASE AwaitWrite(c)
  <2>1. Goes(c)
    <3>1. \/ Proceeds(c, "awaiting", "ok") \/ Ends(c, "write_failed")
          \/ Ends(c, "not_dispatched") \/ Ends(c, "gone")
          \/ (~Live(c) /\ Proceeds(c, "leaving", "ok"))
      BY <1>3 DEF AwaitWrite, Proceeds
    <3> QED
      BY <3>1, GoesSomewhere, EndsGoes, ResultNames
  <2>2. at[c] = "writing"
    BY <1>3 DEF AwaitWrite
  <2>3. UNCHANGED <<processVars, clientVars, ctx, on, id, written, answer, executed>>
    BY <1>3 DEF AwaitWrite
  <2> QED
    BY <1>1, <2>1, <2>2, <2>3
<1>4. CASE Leave(c)
  <2>1. at[c] = "leaving" /\ ~Live(c)
    BY <1>1, <1>4 DEF Leave
  <2>2. \/ /\ Ends(c, "write_failed") \/ Ends(c, "not_dispatched") \/ Ends(c, "gone")
           /\ UNCHANGED <<process, pending>>
        \/ GiveUp(c)
    BY <1>4 DEF Leave
  <2>3. /\ Goes(c)
        /\ pending' = pending
        /\ process' = process \/ process' = Killed(on[c])
    BY <2>1, <2>2, EndsGoes, ResultNames, GiveUpGoes
  <2>4. UNCHANGED <<stdin, working, stdout, done, writer, nextID, expectedExit,
                    ctx, on, id, written, answer, executed>>
    BY <1>4 DEF Leave
  <2> QED
    BY <1>1, <2>1, <2>3, <2>4
<1>5. CASE AwaitAnswer(c)
  <2>1. \/ /\ \/ Proceeds(c, "exiting", "ok") \/ Ends(c, "ok") \/ Ends(c, "rejected")
              \/ Ends(c, "gone")
           /\ UNCHANGED <<process, pending>>
        \/ (~Live(c) /\ GiveUp(c))
    BY <1>5 DEF AwaitAnswer, Proceeds
  <2>2. /\ Goes(c)
        /\ pending' = pending
        /\ process' = process \/ process' = Killed(on[c])
    BY <2>1, GoesSomewhere, EndsGoes, ResultNames, GiveUpGoes
  <2>3. expectedExit' \in [Clients -> BOOLEAN]
    <3>1. expectedExit' = expectedExit \/ expectedExit' = [expectedExit EXCEPT ![on[c]] = TRUE]
      BY <1>5 DEF AwaitAnswer
    <3> QED
      BY <1>1, <3>1
  <2>4. /\ at[c] = "awaiting"
        /\ UNCHANGED <<stdin, working, stdout, done, writer, nextID,
                       ctx, on, id, written, answer, executed>>
    BY <1>5 DEF AwaitAnswer
  <2> QED
    BY <2>2, <2>3, <2>4
<1>6. CASE AwaitExit(c)
  <2>1. Ends(c, "ok") \/ Ends(c, "gone") \/ (~Live(c) /\ Ends(c, ctx[c]))
    BY <1>6 DEF AwaitExit
  <2>2. Goes(c)
    BY <2>1, EndsGoes, ResultNames
  <2>3. /\ at[c] = "exiting"
        /\ UNCHANGED <<processVars, clientVars, ctx, on, id, written, answer, executed>>
    BY <1>6 DEF AwaitExit
  <2> QED
    BY <1>1, <2>2, <2>3
<1> QED
  BY <1>2, <1>3, <1>4, <1>5, <1>6 DEF CallStep

LEMMA CallStepTyped ==
    ASSUME Typed, NEW c \in Calls, CallStep(c)
    PROVE  Typed'
<1>1. on[c] \in Clients /\ id[c] \in Nat
  BY DEF Typed, ClientTypeOK
<1>2. process' \in [Clients -> Processes]
  <2>1. process' = process \/ process' = Killed(on[c])
    BY CallSteps
  <2> QED
    BY <1>1, <2>1, Types DEF Killed, Alive, Processes
<1>3. pending' \in [Clients -> SUBSET Frame] /\ \A h \in Clients : IsFiniteSet(pending'[h])
  <2>1. pending' = pending \/ pending' = Unreserved(on[c], FrameOf(c))
    BY CallSteps
  <2>2. /\ pending' \in [Clients -> SUBSET Frame]
        /\ \A h \in Clients : pending'[h] \subseteq pending[h]
    BY <1>1, <2>1, Types DEF Unreserved
  <2> QED
    BY <2>2, FS_Subset DEF Typed
<1>4. PICK place \in Places \ {"idle", "handing"}, r \in Results :
         Proceeds(c, place, r) /\ (place = "leaving" => ~Live(c))
  BY CallSteps DEF Goes
<1>5. /\ at' \in [Calls -> Places] /\ result' \in [Calls -> Results \cup {Nobody}]
      /\ \A d \in Calls : /\ at'[d] = "leaving" => ~Live(d)
                          /\ at'[d] = "handing" => id[d] \in IDs
  BY <1>4 DEF Proceeds, Typed, ClientTypeOK
<1>6. writer' \in [Clients -> Writers]
  <2> DEFINE given == [step |-> "holding", frame |-> FrameOf(c)]
  <2>1. \/ writer' = writer
        \/ writer' = [writer EXCEPT ![on[c]] = given] /\ at[c] = "handing"
    BY CallSteps
  <2>2. CASE at[c] = "handing"
    <3>1. FrameOf(c) \in Frame
      BY <1>1, <2>2 DEF FrameOf, Frame, Typed
    <3>2. given \in Writers
      BY <3>1, WriterStates
    <3> HIDE DEF given
    <3> QED
      BY <1>1, <2>1, <3>2, Types
  <2>3. CASE at[c] # "handing"
    BY <2>1, <2>3, Types
  <2> QED
    BY <2>2, <2>3
<1>7. expectedExit' \in [Clients -> BOOLEAN]
      /\ UNCHANGED <<stdin, working, stdout, done, nextID, ctx, on, id, written, answer, executed>>
  BY CallSteps
<1> QED
  BY <1>2, <1>3, <1>5, <1>6, <1>7 DEF Typed, ClientTypeOK, Writers, Live

LEMMA ContextEndsTyped ==
    ASSUME Typed, NEW c \in Calls, ContextEnds(c)
    PROVE  Typed'
<1>1. /\ ctx' \in [Calls -> Contexts]
      /\ \A d \in Calls : ctx[d] # "live" => ctx'[d] # "live"
  BY DEF ContextEnds, Typed, ClientTypeOK, Contexts, Live
<1> QED
  BY <1>1 DEF ContextEnds, Typed, ClientTypeOK, Live

\* Whoever kills the process of a client.
LEMMA KillTyped ==
    ASSUME Typed, NEW g \in Clients, Kills(g),
           UNCHANGED <<stdin, working, stdout, clientVars, callVars, executed>>
    PROVE  Typed'
<1>1. process' \in [Clients -> Processes]
  BY KillsOne
<1> QED
  BY <1>1 DEF Typed, ClientTypeOK, Live

\* What a client and its process do of themselves.
Acts(g) == Reader(g) \/ Writer(g) \/ Process(g) \/ ProcessFails(g)

LEMMA ActsTyped ==
    ASSUME Typed, NEW g \in Clients, Acts(g)
    PROVE  Typed'
BY DeliverTyped, EndOfOutputTyped, WriteStartsTyped, WriteEndsTyped, WriterStopsTyped,
   ExecuteTyped, AnswerTyped, EndOfInputTyped, FailsTyped DEF Acts, Reader, Writer, Process, ReadsInput

-----------------------------------------------------------------------------
(***************************************************************************)
(* Where the requests are.  A request goes through the writer, the pipe,   *)
(* the process and its output, and is in one of these places at most,      *)
(* whoever still waits for it.                                             *)
(***************************************************************************)

Held(g) == IF writer[g].step \in {"holding", "writing"} THEN {writer[g].frame} ELSE {}
Sent(g) == {stdin[g][n] : n \in DOMAIN stdin[g]}
Worked(g) == IF working[g] = Nobody THEN {} ELSE {working[g].frame}
Answered(g) == {stdout[g][n].frame : n \in DOMAIN stdout[g]}
OnTheWay(g) == Held(g) \cup Sent(g) \cup Worked(g) \cup Answered(g)

\* What the processes executed, and what the process of g may still execute.
Ran == {executed[n] : n \in DOMAIN executed}
RunOn(g, c) == [on |-> g, call |-> c]
MayRun(g) == {f.call : f \in Held(g) \cup Sent(g)}

Apart(A, B) == \A f \in A, h \in B : f.call # h.call

NowhereOn(g, c) == \A f \in OnTheWay(g) : f.call # c

Refused(c) == at[c] = "ended" /\ result[c] \in {"not_dispatched", "duplicate"}

\* No frame of the call was given to the writer of g yet.
NotYet(g, c) == at[c] = "idle" \/ on[c] < g \/ (on[c] = g /\ at[c] = "handing")

Untouched(g) ==
    \A c \in Calls :
      /\ NotYet(g, c) => NowhereOn(g, c) /\ written[g][c] = "no"
      /\ written[g][c] = "discarded" => NowhereOn(g, c)
      /\ on[c] = g /\ Refused(c) => NowhereOn(g, c)

Separate(g) ==
    /\ Apart(Held(g), Sent(g) \cup Worked(g) \cup Answered(g))
    /\ Apart(Sent(g), Worked(g) \cup Answered(g))
    /\ Apart(Worked(g), Answered(g))

Distinct(g) ==
    /\ \A m, n \in DOMAIN stdin[g] : stdin[g][m].call = stdin[g][n].call => m = n
    /\ \A m, n \in DOMAIN stdout[g] :
         stdout[g][m].frame.call = stdout[g][n].frame.call => m = n

Expected(g) ==
    /\ ~done[g] =>
         /\ \A f \in OnTheWay(g) : f.call \in Calls => f \in pending[g]
         /\ \A c \in Calls : on[c] = g /\ at[c] = "handing" => FrameOf(c) \in pending[g]
    /\ \A f, h \in pending[g] : f.id = h.id => f = h

Located(g) == Untouched(g) /\ Separate(g) /\ Distinct(g) /\ Expected(g)

LEMMA TailElements ==
    ASSUME NEW S, NEW s \in Seq(S), s # <<>>
    PROVE  /\ 1 \in DOMAIN s /\ Head(s) = s[1]
           /\ \A n \in DOMAIN Tail(s) :
                /\ n \in Nat /\ n + 1 \in DOMAIN s /\ n + 1 # 1
                /\ Tail(s)[n] = s[n + 1]
OBVIOUS

LEMMA AppendElements ==
    ASSUME NEW S, NEW s \in Seq(S), NEW x \in S
    PROVE  \A n \in DOMAIN Append(s, x) :
             \/ n \in DOMAIN s /\ Append(s, x)[n] = s[n]
             \/ n = Len(s) + 1 /\ n \notin DOMAIN s /\ Append(s, x)[n] = x
OBVIOUS

LEMMA PlaceTypes ==
    ASSUME Typed, NEW g \in Clients
    PROVE  /\ Held(g) \subseteq Frame /\ Sent(g) \subseteq Frame /\ Worked(g) \subseteq Frame
           /\ Answered(g) \subseteq Frame \cup {Garbled.frame}
           /\ Ran \subseteq Run
           /\ \A f \in Frame : f.call \in Calls /\ f.id # 0
           /\ Garbled.frame.call \notin Calls /\ Garbled.frame.id = 0
<1>1. Nobody \notin Calls
  BY ClientAssumption
<1>2. Held(g) \subseteq Frame
  <2>1. writer[g] \in Writers
    BY Types
  <2> QED
    BY <2>1, WriterStates DEF Held
<1>3. Sent(g) \subseteq Frame
  BY Types DEF Sent
<1>4. Worked(g) \subseteq Frame
  <2>1. working[g] \in Outcome \cup {Nobody}
    BY DEF Typed, ClientTypeOK
  <2> QED
    BY <2>1 DEF Worked, Outcome
<1>5. Answered(g) \subseteq Frame \cup {Garbled.frame}
  <2>1. stdout[g] \in Seq(Outcome \cup {Garbled})
    BY Types
  <2>2. \A n \in DOMAIN stdout[g] : stdout[g][n] \in Outcome \cup {Garbled}
    BY <2>1
  <2> QED
    BY <2>2 DEF Answered, Outcome
<1>6. Ran \subseteq Run
  BY DEF Ran, Typed, ClientTypeOK
<1>7. \A f \in Frame : f.call \in Calls /\ f.id # 0
  BY DEF Frame, IDs
<1>8. Garbled.frame.call \notin Calls /\ Garbled.frame.id = 0
  BY <1>1 DEF Garbled
<1> QED
  BY <1>2, <1>3, <1>4, <1>5, <1>6, <1>7, <1>8

LEMMA InitLocated ==
    ASSUME ClientInit, NEW g \in Clients
    PROVE  /\ Located(g)
           /\ OnTheWay(g) = {} /\ Ran = {}
<1>1. Held(g) = {} /\ Sent(g) = {} /\ Worked(g) = {} /\ Answered(g) = {} /\ Ran = {}
  BY DEF ClientInit, Held, Sent, Worked, Answered, Ran, Idle
<1>2. /\ \A c \in Calls : at[c] = "idle" /\ written[g][c] = "no"
      /\ stdin[g] = <<>> /\ stdout[g] = <<>> /\ pending[g] = {}
  BY DEF ClientInit
<1>3. OnTheWay(g) = {} /\ \A c \in Calls : NowhereOn(g, c)
  BY <1>1 DEF OnTheWay, NowhereOn
<1>4. Untouched(g)
  BY <1>2, <1>3 DEF Untouched
<1>5. Separate(g)
  BY <1>1 DEF Separate, Apart
<1>6. Distinct(g)
  BY <1>2 DEF Distinct
<1>7. Expected(g)
  BY <1>2, <1>3 DEF Expected
<1> QED
  BY <1>1, <1>3, <1>4, <1>5, <1>6, <1>7 DEF Located

\* Nothing new is on its way, and what is reserved stays so.
LEMMA ExpectedStays ==
    ASSUME Typed, NEW g \in Clients, Expected(g),
           OnTheWay(g)' \subseteq OnTheWay(g) \cup {Garbled.frame},
           done'[g] = done[g], pending'[g] = pending[g], UNCHANGED <<at, on, id>>
    PROVE  Expected(g)'
<1>1. Garbled.frame.call \notin Calls
  BY PlaceTypes
<1>2. \A c \in Calls : FrameOf(c)' = FrameOf(c)
  BY DEF FrameOf
<1> QED
  BY <1>1, <1>2 DEF Expected

\* What leaves the places of a client leaves nothing of a call behind.
LEMMA UntouchedStays ==
    ASSUME Typed, NEW g \in Clients, Untouched(g),
           OnTheWay(g)' \subseteq OnTheWay(g) \cup {Garbled.frame},
           written'[g] = written[g], UNCHANGED <<at, on, result>>
    PROVE  Untouched(g)'
<1>1. Garbled.frame.call \notin Calls
  BY PlaceTypes
<1>2. \A c \in Calls : NowhereOn(g, c) => NowhereOn(g, c)'
  BY <1>1 DEF NowhereOn
<1> QED
  BY <1>2 DEF Untouched, NotYet, Refused

\* A client that is left alone keeps everything in its place, whatever the calls do
\* that have none of its frames to hand over.
LEMMA LocatedStays ==
    ASSUME NEW g \in Clients, Located(g),
           writer'[g] = writer[g], stdin'[g] = stdin[g], working'[g] = working[g],
           stdout'[g] = stdout[g], done'[g] = done[g], pending'[g] = pending[g],
           written'[g] = written[g],
           \A c \in Calls :
             /\ NotYet(g, c)' => NotYet(g, c)
             /\ on'[c] = g /\ Refused(c)' =>
                  NotYet(g, c) \/ written[g][c] = "discarded" \/ (on[c] = g /\ Refused(c))
             /\ on'[c] = g /\ at'[c] = "handing" =>
                  on[c] = g /\ at[c] = "handing" /\ FrameOf(c)' = FrameOf(c)
    PROVE  /\ Located(g)'
           /\ OnTheWay(g)' = OnTheWay(g) /\ MayRun(g)' = MayRun(g)
<1>1. /\ Held(g)' = Held(g) /\ Sent(g)' = Sent(g) /\ Worked(g)' = Worked(g)
      /\ Answered(g)' = Answered(g)
  BY DEF Held, Sent, Worked, Answered
<1>2. OnTheWay(g)' = OnTheWay(g) /\ MayRun(g)' = MayRun(g)
  BY <1>1 DEF OnTheWay, MayRun
<1>3. \A c \in Calls : NowhereOn(g, c)' = NowhereOn(g, c)
  BY <1>2 DEF NowhereOn
<1>4. Untouched(g)'
  BY <1>3 DEF Located, Untouched
<1>5. Separate(g)' /\ Distinct(g)'
  BY <1>1 DEF Located, Separate, Distinct
<1>6. Expected(g)'
  BY <1>2 DEF Located, Expected
<1> QED
  BY <1>2, <1>4, <1>5, <1>6 DEF Located

-----------------------------------------------------------------------------
(***************************************************************************)
(* What the process, the writer and the reader of a client do.  One lemma  *)
(* per step says how the places change; that each request stays in one of  *)
(* them follows by looking at the places alone.                            *)
(***************************************************************************)

\* Requests only move on, and are executed as they leave the pipe.
MovesOn(g) ==
    /\ Located(g)'
    /\ OnTheWay(g)' \subseteq OnTheWay(g) \cup {Garbled.frame}
    /\ MayRun(g)' \subseteq MayRun(g)
    /\ \/ executed' = executed
       \/ \E c \in MayRun(g) \ MayRun(g)' : executed' = Append(executed, RunOn(g, c))

LEMMA ExecuteMoves ==
    ASSUME Typed, NEW g \in Clients, Located(g), Execute(g)
    PROVE  /\ Distinct(g)'
           /\ Held(g)' = Held(g) /\ Answered(g)' = Answered(g)
           /\ \E f \in Sent(g) :
                /\ Sent(g)' \subseteq Sent(g) /\ \A h \in Sent(g)' : h.call # f.call
                /\ Worked(g)' \subseteq {f}
                /\ executed' = executed \/ executed' = Append(executed, RunOn(g, f.call))
<1> DEFINE s == stdin[g]
           f == Head(s)
<1>1. /\ s \in Seq(Frame) /\ s # <<>>
      /\ stdin \in [Clients -> Seq(Frame)]
      /\ working \in [Clients -> Outcome \cup {Nobody}]
  BY DEF Execute, Typed, ClientTypeOK
<1>2. /\ stdin'[g] = Tail(s)
      /\ \E ok \in BOOLEAN : working'[g] = [frame |-> f, ok |-> ok]
      /\ executed' = executed \/ executed' = Append(executed, RunOn(g, f.call))
      /\ UNCHANGED <<writer, stdout>>
  BY <1>1 DEF Execute, RunOn
<1>3. /\ 1 \in DOMAIN s /\ f = s[1]
      /\ \A n \in DOMAIN Tail(s) : /\ n \in Nat /\ n + 1 \in DOMAIN s /\ n + 1 # 1
                                   /\ Tail(s)[n] = s[n + 1]
  BY <1>1, TailElements
<1>4. \A m, n \in DOMAIN s : s[m].call = s[n].call => m = n
  BY DEF Located, Distinct
<1> HIDE DEF s, f
<1>5. f \in Sent(g)
  BY <1>3 DEF Sent, s
<1>6. Sent(g)' \subseteq Sent(g) /\ \A h \in Sent(g)' : h.call # f.call
  <2>1. Sent(g)' = {Tail(s)[n] : n \in DOMAIN Tail(s)}
    BY <1>2 DEF Sent
  <2>2. Sent(g) = {s[n] : n \in DOMAIN s}
    BY DEF Sent, s
  <2> QED
    BY <1>3, <1>4, <2>1, <2>2
<1>7. Worked(g)' \subseteq {f}
  BY <1>2 DEF Worked
<1>8. Distinct(g)'
  <2>1. \A m, n \in DOMAIN Tail(s) : Tail(s)[m].call = Tail(s)[n].call => m = n
    BY <1>3, <1>4
  <2>2. \A m, n \in DOMAIN stdin'[g] : stdin'[g][m].call = stdin'[g][n].call => m = n
    BY <1>2, <2>1
  <2> QED
    BY <1>2, <2>2 DEF Located, Distinct
<1>9. Held(g)' = Held(g) /\ Answered(g)' = Answered(g)
  BY <1>2 DEF Held, Answered
<1> QED
  BY <1>2, <1>5, <1>6, <1>7, <1>8, <1>9

LEMMA ExecuteLocated ==
    ASSUME Typed, NEW g \in Clients, Located(g), Execute(g)
    PROVE  MovesOn(g)
<1>1. /\ Distinct(g)'
      /\ Held(g)' = Held(g) /\ Answered(g)' = Answered(g)
  BY ExecuteMoves
<1>2. PICK f \in Sent(g) :
         /\ Sent(g)' \subseteq Sent(g) /\ \A h \in Sent(g)' : h.call # f.call
         /\ Worked(g)' \subseteq {f}
         /\ executed' = executed \/ executed' = Append(executed, RunOn(g, f.call))
  BY ExecuteMoves
<1>3. UNCHANGED <<done, pending, at, on, id, written, result>>
  BY DEF Execute
<1>4. Separate(g)'
  BY <1>1, <1>2 DEF Located, Separate, Apart
<1>5. OnTheWay(g)' \subseteq OnTheWay(g)
  BY <1>1, <1>2 DEF OnTheWay
<1>6. Untouched(g)' /\ Expected(g)'
  BY <1>3, <1>5, UntouchedStays, ExpectedStays DEF Located
<1>7. MayRun(g)' \subseteq MayRun(g) /\ f.call \in MayRun(g) \ MayRun(g)'
  BY <1>1, <1>2 DEF MayRun, Located, Separate, Apart
<1> QED
  BY <1>1, <1>2, <1>4, <1>5, <1>6, <1>7 DEF MovesOn, Located

LEMMA AnswerMoves ==
    ASSUME Typed, NEW g \in Clients, Located(g), AnswerFrame(g)
    PROVE  /\ Distinct(g)'
           /\ Held(g)' = Held(g) /\ Sent(g)' = Sent(g)
           /\ \E f \in Worked(g) : Worked(g)' = {} /\ Answered(g)' \subseteq Answered(g) \cup {f}
<1> DEFINE w == working[g]
           s == stdout[g]
<1>1. /\ stdout \in [Clients -> Seq(Outcome \cup {Garbled})]
      /\ working \in [Clients -> Outcome \cup {Nobody}]
  BY DEF Typed, ClientTypeOK
<1>2. /\ w # Nobody /\ w \in Outcome \cup {Garbled} /\ s \in Seq(Outcome \cup {Garbled})
      /\ working'[g] = Nobody
      /\ stdout'[g] = s \/ stdout'[g] = Append(s, w)
      /\ UNCHANGED <<writer, stdin>>
  BY <1>1 DEF AnswerFrame
<1> HIDE DEF w, s
<1>3. w.frame \in Worked(g) /\ Worked(g)' = {}
  BY <1>2 DEF Worked, w
<1>4. \A n \in DOMAIN stdout'[g] :
         \/ n \in DOMAIN s /\ stdout'[g][n] = s[n]
         \/ n = Len(s) + 1 /\ n \notin DOMAIN s /\ stdout'[g][n] = w
  BY <1>2, AppendElements
<1>5. Answered(g)' \subseteq Answered(g) \cup {w.frame}
  BY <1>4 DEF Answered, s
<1>6. Distinct(g)'
  <2>1. \A n \in DOMAIN s : s[n].frame.call # w.frame.call
    BY <1>3 DEF Located, Separate, Apart, Answered, s
  <2>2. \A m, n \in DOMAIN s : s[m].frame.call = s[n].frame.call => m = n
    BY DEF Located, Distinct, s
  <2>3. \A m, n \in DOMAIN stdout'[g] :
           stdout'[g][m].frame.call = stdout'[g][n].frame.call => m = n
    BY <1>4, <2>1, <2>2
  <2> QED
    BY <1>2, <2>3 DEF Located, Distinct
<1>7. Held(g)' = Held(g) /\ Sent(g)' = Sent(g)
  BY <1>2 DEF Held, Sent
<1> QED
  BY <1>3, <1>5, <1>6, <1>7

LEMMA AnswerLocated ==
    ASSUME Typed, NEW g \in Clients, Located(g), AnswerFrame(g)
    PROVE  MovesOn(g)
<1>1. Distinct(g)' /\ Held(g)' = Held(g) /\ Sent(g)' = Sent(g)
  BY AnswerMoves
<1>2. PICK f \in Worked(g) : Worked(g)' = {} /\ Answered(g)' \subseteq Answered(g) \cup {f}
  BY AnswerMoves
<1>3. UNCHANGED <<done, pending, at, on, id, written, result, executed>>
  BY DEF AnswerFrame
<1>4. Separate(g)'
  BY <1>1, <1>2 DEF Located, Separate, Apart
<1>5. OnTheWay(g)' \subseteq OnTheWay(g) /\ MayRun(g)' = MayRun(g)
  BY <1>1, <1>2 DEF OnTheWay, MayRun
<1>6. Untouched(g)' /\ Expected(g)'
  BY <1>3, <1>5, UntouchedStays, ExpectedStays DEF Located
<1> QED
  BY <1>1, <1>3, <1>4, <1>5, <1>6 DEF MovesOn, Located

LEMMA EndOfInputLocated ==
    ASSUME Typed, NEW g \in Clients, Located(g), EndOfInput(g)
    PROVE  MovesOn(g)
<1>1. UNCHANGED <<writer, stdin, working, stdout, executed, done, pending,
                  at, on, id, written, result>>
  BY DEF EndOfInput
<1>2. \A c \in Calls : /\ NotYet(g, c)' = NotYet(g, c) /\ Refused(c)' = Refused(c)
                       /\ FrameOf(c)' = FrameOf(c)
  BY <1>1 DEF NotYet, Refused, FrameOf
<1>3. Located(g)' /\ OnTheWay(g)' = OnTheWay(g) /\ MayRun(g)' = MayRun(g)
  BY <1>1, <1>2, LocatedStays
<1> QED
  BY <1>1, <1>3 DEF MovesOn

\* The process garbles its output, or merely fails.
LEMMA FailsLocated ==
    ASSUME Typed, NEW g \in Clients, Located(g), ProcessFails(g)
    PROVE  MovesOn(g)
<1> DEFINE s == stdout[g]
<1>1. /\ stdout \in [Clients -> Seq(Outcome \cup {Garbled})]
      /\ s \in Seq(Outcome \cup {Garbled})
  BY DEF Typed, ClientTypeOK
<1>2. /\ \/ stdout'[g] = s
         \/ stdout'[g] = Append(s, Garbled) /\ \A n \in DOMAIN s : s[n] # Garbled
      /\ UNCHANGED <<writer, stdin, working, executed,
                     done, pending, at, on, id, written, result>>
  BY <1>1 DEF ProcessFails
<1>3. \A n \in DOMAIN s : s[n] # Garbled => s[n].frame.call \in Calls
  <2>1. \A n \in DOMAIN s : s[n] \in Outcome \cup {Garbled}
    BY <1>1
  <2> QED
    BY <2>1 DEF Outcome, Frame
<1>4. Garbled.frame.call \notin Calls
  BY PlaceTypes
<1> HIDE DEF s
<1>5. \A n \in DOMAIN stdout'[g] :
         \/ n \in DOMAIN s /\ stdout'[g][n] = s[n]
         \/ /\ n = Len(s) + 1 /\ n \notin DOMAIN s /\ stdout'[g][n] = Garbled
            /\ \A m \in DOMAIN s : s[m] # Garbled
  <2>1. s \in Seq(Outcome \cup {Garbled}) /\ Garbled \in Outcome \cup {Garbled}
    BY <1>1
  <2>2. \A n \in DOMAIN Append(s, Garbled) :
           \/ n \in DOMAIN s /\ Append(s, Garbled)[n] = s[n]
           \/ n = Len(s) + 1 /\ n \notin DOMAIN s /\ Append(s, Garbled)[n] = Garbled
    BY <2>1, AppendElements
  <2> QED
    BY <1>2, <2>2
<1>6. Answered(g)' \subseteq Answered(g) \cup {Garbled.frame}
  BY <1>5 DEF Answered, s
<1>7. Distinct(g)'
  <2>1. \A m, n \in DOMAIN s : s[m].frame.call = s[n].frame.call => m = n
    BY DEF Located, Distinct, s
  <2>2. \A m, n \in DOMAIN stdout'[g] :
           stdout'[g][m].frame.call = stdout'[g][n].frame.call => m = n
    BY <1>3, <1>4, <1>5, <2>1
  <2> QED
    BY <1>2, <2>2 DEF Located, Distinct
<1>8. Held(g)' = Held(g) /\ Sent(g)' = Sent(g) /\ Worked(g)' = Worked(g)
  BY <1>2 DEF Held, Sent, Worked
<1>9. \A f \in Held(g) \cup Sent(g) \cup Worked(g) : f.call \in Calls
  BY PlaceTypes
<1>10. Separate(g)'
  BY <1>4, <1>6, <1>8, <1>9 DEF Located, Separate, Apart
<1>11. OnTheWay(g)' \subseteq OnTheWay(g) \cup {Garbled.frame} /\ MayRun(g)' = MayRun(g)
  BY <1>6, <1>8 DEF OnTheWay, MayRun
<1>12. Untouched(g)' /\ Expected(g)'
  BY <1>2, <1>11, UntouchedStays, ExpectedStays DEF Located
<1> QED
  BY <1>2, <1>7, <1>10, <1>11, <1>12 DEF MovesOn, Located

\* A frame that is taken back leaves nothing of its call behind: what is still on
\* its way belongs to other calls, and stays reserved.
LEMMA ExpectedWithout ==
    ASSUME NEW g \in Clients, Expected(g), NEW f \in Frame,
           OnTheWay(g)' \subseteq OnTheWay(g), \A h \in OnTheWay(g)' : h.call # f.call,
           \A c \in Calls : on'[c] = g /\ at'[c] = "handing" =>
             on[c] = g /\ at[c] = "handing" /\ c # f.call,
           pending'[g] = pending[g] \ {f}, done'[g] = done[g], UNCHANGED id
    PROVE  Expected(g)'
<1>1. \A c \in Calls : FrameOf(c)' = FrameOf(c) /\ FrameOf(c).call = c
  BY DEF FrameOf
<1> QED
  BY <1>1 DEF Expected

LEMMA WriteStartsLocated ==
    ASSUME Typed, NEW g \in Clients, Located(g), WriteStarts(g)
    PROVE  MovesOn(g)
<1> DEFINE f == writer[g].frame
<1>1. /\ writer \in [Clients -> Writers] /\ pending \in [Clients -> SUBSET Frame]
      /\ written \in [Clients -> [Calls -> Reports]]
  BY Types
<1>2. Held(g) = {f}
  BY DEF WriteStarts, Held
<1>3. f \in Frame /\ f.call \in Calls
  BY <1>2, PlaceTypes
<1>4. /\ UNCHANGED <<stdin, working, stdout, executed, done, at, on, id, result>>
      /\ \/ /\ writer'[g] = Idle /\ pending'[g] = pending[g] \ {f}
            /\ written'[g] = [written[g] EXCEPT ![f.call] = "discarded"]
         \/ /\ writer'[g] = [step |-> "writing", frame |-> f] /\ pending' = pending
            /\ written'[g] = [written[g] EXCEPT ![f.call] = "started"]
  BY <1>1 DEF WriteStarts, Unreserved, Report
<1> HIDE DEF f
<1>5. Sent(g)' = Sent(g) /\ Worked(g)' = Worked(g) /\ Answered(g)' = Answered(g)
  BY <1>4 DEF Sent, Worked, Answered
<1>6. Distinct(g)'
  BY <1>4 DEF Located, Distinct
<1>7. /\ ~NowhereOn(g, f.call)
      /\ \A h \in Sent(g) \cup Worked(g) \cup Answered(g) : h.call # f.call
  BY <1>2 DEF Located, Separate, Apart, NowhereOn, OnTheWay
<1>8. ~NotYet(g, f.call) /\ ~(on[f.call] = g /\ Refused(f.call))
  BY <1>3, <1>7 DEF Located, Untouched
<1>9. written[g] \in [Calls -> Reports]
  BY <1>1
<1>10. \A c \in Calls : /\ NotYet(g, c)' = NotYet(g, c) /\ Refused(c)' = Refused(c)
                        /\ on'[c] = on[c]
  BY <1>4 DEF NotYet, Refused
<1>11. CASE /\ writer'[g] = Idle /\ pending'[g] = pending[g] \ {f}
            /\ written'[g] = [written[g] EXCEPT ![f.call] = "discarded"]
  <2>1. Held(g)' = {}
    BY <1>11 DEF Held, Idle
  <2>2. Separate(g)'
    BY <1>5, <2>1 DEF Located, Separate, Apart
  <2>3. OnTheWay(g)' \subseteq OnTheWay(g) /\ \A h \in OnTheWay(g)' : h.call # f.call
    BY <1>5, <1>7, <2>1 DEF OnTheWay
  <2>4. \A c \in Calls : NowhereOn(g, c) \/ c = f.call => NowhereOn(g, c)'
    BY <2>3 DEF NowhereOn
  <2>5. Untouched(g)'
    <3>1. \A c \in Calls \ {f.call} : written'[g][c] = written[g][c]
      BY <1>9, <1>11
    <3> QED
      BY <1>8, <1>10, <2>4, <3>1 DEF Located, Untouched
  <2>6. Expected(g)'
    <3>1. ~(on[f.call] = g /\ at[f.call] = "handing")
      BY <1>8 DEF NotYet
    <3> QED
      BY <1>3, <1>4, <1>11, <2>3, <3>1, ExpectedWithout DEF Located
  <2>7. MayRun(g)' \subseteq MayRun(g)
    BY <1>5, <2>1 DEF MayRun
  <2> QED
    BY <1>4, <1>6, <2>2, <2>3, <2>5, <2>6, <2>7 DEF MovesOn, Located
<1>12. CASE /\ writer'[g] = [step |-> "writing", frame |-> f] /\ pending' = pending
            /\ written'[g] = [written[g] EXCEPT ![f.call] = "started"]
  <2>1. Held(g)' = Held(g)
    BY <1>2, <1>12 DEF Held
  <2>2. Separate(g)'
    BY <1>5, <2>1 DEF Located, Separate, Apart
  <2>3. OnTheWay(g)' = OnTheWay(g) /\ MayRun(g)' = MayRun(g)
    BY <1>5, <2>1 DEF OnTheWay, MayRun
  <2>4. \A c \in Calls : NowhereOn(g, c)' = NowhereOn(g, c)
    BY <2>3 DEF NowhereOn
  <2>5. Untouched(g)'
    <3>1. /\ \A c \in Calls \ {f.call} : written'[g][c] = written[g][c]
          /\ written'[g][f.call] = "started"
      BY <1>3, <1>9, <1>12
    <3> QED
      BY <1>8, <1>10, <2>4, <3>1 DEF Located, Untouched
  <2>6. Expected(g)'
    BY <1>4, <1>12, <2>3, ExpectedStays DEF Located
  <2> QED
    BY <1>4, <1>6, <2>2, <2>3, <2>5, <2>6 DEF MovesOn, Located
<1> QED
  BY <1>4, <1>11, <1>12

LEMMA WriteEndsLocated ==
    ASSUME Typed, NEW g \in Clients, Located(g), WriteEnds(g)
    PROVE  MovesOn(g)
<1> DEFINE f == writer[g].frame
           s == stdin[g]
<1>1. /\ writer \in [Clients -> Writers]
      /\ stdin \in [Clients -> Seq(Frame)] /\ s \in Seq(Frame)
      /\ written \in [Clients -> [Calls -> Reports]] /\ written[g] \in [Calls -> Reports]
  BY Types
<1>2. Held(g) = {f}
  BY DEF WriteEnds, Held
<1>3. f \in Frame /\ f.call \in Calls
  BY <1>2, PlaceTypes
<1>4. /\ UNCHANGED <<working, stdout, executed, done, pending, at, on, id, result>>
      /\ writer'[g] \in {Idle, Stopped}
      /\ stdin'[g] = s \/ stdin'[g] = Append(s, f)
      /\ \E what \in {"ok", "failed"} : written'[g] = [written[g] EXCEPT ![f.call] = what]
  BY <1>1 DEF WriteEnds, Report
<1> HIDE DEF f, s
<1>5. Held(g)' = {} /\ Worked(g)' = Worked(g) /\ Answered(g)' = Answered(g)
  BY <1>4 DEF Held, Worked, Answered, Idle, Stopped
<1>6. \A n \in DOMAIN stdin'[g] :
         \/ n \in DOMAIN s /\ stdin'[g][n] = s[n]
         \/ n = Len(s) + 1 /\ n \notin DOMAIN s /\ stdin'[g][n] = f
  <2>1. s \in Seq(Frame)
    BY <1>1
  <2>2. \A n \in DOMAIN Append(s, f) :
           \/ n \in DOMAIN s /\ Append(s, f)[n] = s[n]
           \/ n = Len(s) + 1 /\ n \notin DOMAIN s /\ Append(s, f)[n] = f
    BY <1>3, <2>1, AppendElements
  <2> QED
    BY <1>4, <2>2
<1>7. Sent(g)' \subseteq Sent(g) \cup {f}
  BY <1>6 DEF Sent, s
<1>8. /\ ~NowhereOn(g, f.call)
      /\ \A h \in Sent(g) \cup Worked(g) \cup Answered(g) : h.call # f.call
  BY <1>2 DEF Located, Separate, Apart, NowhereOn, OnTheWay
<1>9. Distinct(g)'
  <2>1. \A n \in DOMAIN s : s[n].call # f.call
    BY <1>8 DEF Sent, s
  <2>2. \A m, n \in DOMAIN s : s[m].call = s[n].call => m = n
    BY DEF Located, Distinct, s
  <2>3. \A m, n \in DOMAIN stdin'[g] : stdin'[g][m].call = stdin'[g][n].call => m = n
    BY <1>6, <2>1, <2>2
  <2> QED
    BY <1>4, <2>3 DEF Located, Distinct
<1>10. Separate(g)'
  BY <1>5, <1>7, <1>8 DEF Located, Separate, Apart
<1>11. OnTheWay(g)' \subseteq OnTheWay(g) /\ MayRun(g)' \subseteq MayRun(g)
  BY <1>2, <1>5, <1>7 DEF OnTheWay, MayRun
<1>12. Untouched(g)'
  <2>1. \A c \in Calls : NowhereOn(g, c) => NowhereOn(g, c)'
    BY <1>11 DEF NowhereOn
  <2>2. ~NotYet(g, f.call) /\ ~(on[f.call] = g /\ Refused(f.call))
    BY <1>3, <1>8 DEF Located, Untouched
  <2>3. /\ \A c \in Calls \ {f.call} : written'[g][c] = written[g][c]
        /\ written'[g][f.call] \in {"ok", "failed"}
    BY <1>1, <1>3, <1>4
  <2>4. \A c \in Calls : /\ NotYet(g, c)' = NotYet(g, c) /\ Refused(c)' = Refused(c)
                         /\ on'[c] = on[c]
    BY <1>4 DEF NotYet, Refused
  <2> QED
    BY <2>1, <2>2, <2>3, <2>4 DEF Located, Untouched
<1>13. Expected(g)'
  BY <1>4, <1>11, ExpectedStays DEF Located
<1> QED
  BY <1>4, <1>9, <1>10, <1>11, <1>12, <1>13 DEF MovesOn, Located

LEMMA WriterStopsLocated ==
    ASSUME Typed, NEW g \in Clients, Located(g), WriterStops(g)
    PROVE  MovesOn(g)
<1>1. /\ writer[g] = Idle
      /\ writer'[g] = Stopped
      /\ UNCHANGED <<stdin, working, stdout, executed, done, pending,
                     at, on, id, written, result>>
  BY Types DEF WriterStops
<1>2. /\ Held(g)' = Held(g) /\ Sent(g)' = Sent(g) /\ Worked(g)' = Worked(g)
      /\ Answered(g)' = Answered(g)
  BY <1>1 DEF Held, Sent, Worked, Answered, Idle, Stopped
<1>3. OnTheWay(g)' = OnTheWay(g) /\ MayRun(g)' = MayRun(g)
  BY <1>2 DEF OnTheWay, MayRun
<1>4. Separate(g)' /\ Distinct(g)'
  BY <1>1, <1>2 DEF Located, Separate, Distinct
<1>5. Untouched(g)' /\ Expected(g)'
  BY <1>1, <1>3, UntouchedStays, ExpectedStays DEF Located
<1> QED
  BY <1>1, <1>3, <1>4, <1>5 DEF MovesOn, Located

\* The process is gone with all that was on its way, or survives with what it was
\* told, and the client serves no more.
LEMMA FinishesLocated ==
    ASSUME Typed, NEW g \in Clients, Located(g), Finishes(g),
           UNCHANGED <<writer, executed, at, on, id, written, result>>
    PROVE  MovesOn(g)
<1>1. /\ \/ stdin'[g] = <<>> /\ working'[g] = Nobody
         \/ stdin'[g] = stdin[g] /\ working'[g] = working[g]
      /\ stdout'[g] = <<>> /\ done'[g] /\ pending'[g] = {}
  BY DEF Typed, ClientTypeOK, Finishes
<1>2. /\ Held(g)' = Held(g) /\ Answered(g)' = {}
      /\ \/ Sent(g)' = {} /\ Worked(g)' = {}
         \/ Sent(g)' = Sent(g) /\ Worked(g)' = Worked(g)
  BY <1>1 DEF Held, Sent, Worked, Answered
<1>3. OnTheWay(g)' \subseteq OnTheWay(g) /\ MayRun(g)' \subseteq MayRun(g)
  BY <1>2 DEF OnTheWay, MayRun
<1>4. Separate(g)' /\ Distinct(g)'
  BY <1>1, <1>2 DEF Located, Separate, Apart, Distinct
<1>5. Untouched(g)'
  BY <1>3, UntouchedStays DEF Located
<1>6. Expected(g)'
  BY <1>1 DEF Expected
<1> QED
  BY <1>3, <1>4, <1>5, <1>6 DEF MovesOn, Located

\* The reader gives the call that reserved the ID the answer to its own frame, and
\* the last thing that was on its way.
Delivers(g) ==
    \E c \in Calls, got \in {stdout[g][n] : n \in DOMAIN stdout[g]} :
      /\ got \in Outcome /\ got.frame.call = c /\ ~NotYet(g, c)
      /\ answer' = [answer EXCEPT ![c] = got]
      /\ ~NowhereOn(g, c) /\ NowhereOn(g, c)'

LEMMA DeliverLocated ==
    ASSUME Typed, NEW g \in Clients, Located(g), Deliver(g)
    PROVE  MovesOn(g) /\ (answer' = answer \/ Delivers(g))
<1> DEFINE s == stdout[g]
           got == Head(s)
<1>1. /\ stdout \in [Clients -> Seq(Outcome \cup {Garbled})]
      /\ pending \in [Clients -> SUBSET Frame]
      /\ s \in Seq(Outcome \cup {Garbled}) /\ s # <<>>
      /\ ~done[g]
      /\ UNCHANGED <<writer, executed, at, on, id, written, result>>
  BY Types DEF Deliver
<1>2. CASE Finishes(g) /\ UNCHANGED answer
  BY <1>1, <1>2, FinishesLocated
<1>3. ASSUME NEW f \in pending[g], f.id = got.frame.id,
             pending' = Unreserved(g, f),
             answer' = [answer EXCEPT ![f.call] = got],
             stdout' = [stdout EXCEPT ![g] = Tail(s)],
             UNCHANGED <<stdin, working, done>>
      PROVE  MovesOn(g) /\ Delivers(g)
  <2>1. /\ 1 \in DOMAIN s /\ got = s[1]
        /\ \A n \in DOMAIN Tail(s) : /\ n \in Nat /\ n + 1 \in DOMAIN s /\ n + 1 # 1
                                     /\ Tail(s)[n] = s[n + 1]
    BY <1>1, TailElements
  <2>2. /\ stdout'[g] = Tail(s) /\ pending'[g] = pending[g] \ {f}
    BY <1>1, <1>3 DEF Unreserved
  <2>3. \A m, n \in DOMAIN s : s[m].frame.call = s[n].frame.call => m = n
    BY DEF Located, Distinct
  <2>4. f \in Frame /\ f.call \in Calls /\ f.id # 0
    BY <1>1, PlaceTypes
  <2>5. got \in Outcome \cup {Garbled}
    BY <1>1, <2>1
  <2> HIDE DEF s, got
  <2>6. got.frame \in Answered(g)
    BY <2>1 DEF Answered, s
  <2>7. f = got.frame
    <3>1. got.frame.id # 0
      BY <1>3, <2>4
    <3>2. got.frame \in Frame
      BY <2>6, <3>1, PlaceTypes
    <3>3. got.frame \in pending[g]
      <4>1. got.frame.call \in Calls /\ got.frame \in OnTheWay(g)
        BY <2>6, <3>2, PlaceTypes DEF OnTheWay
      <4> QED
        BY <1>1, <4>1 DEF Located, Expected
    <3> QED
      BY <1>3, <3>3 DEF Located, Expected
  <2>8. Answered(g)' \subseteq Answered(g) /\ \A h \in Answered(g)' : h.call # f.call
    <3>1. Answered(g)' = {Tail(s)[n].frame : n \in DOMAIN Tail(s)}
      BY <2>2 DEF Answered
    <3>2. Answered(g) = {s[n].frame : n \in DOMAIN s}
      BY DEF Answered, s
    <3> QED
      BY <2>1, <2>3, <2>7, <3>1, <3>2
  <2>9. Held(g)' = Held(g) /\ Sent(g)' = Sent(g) /\ Worked(g)' = Worked(g)
    BY <1>1, <1>3 DEF Held, Sent, Worked
  <2>10. Distinct(g)'
    <3>1. \A m, n \in DOMAIN Tail(s) : Tail(s)[m].frame.call = Tail(s)[n].frame.call => m = n
      BY <2>1, <2>3
    <3>2. \A m, n \in DOMAIN stdout'[g] :
             stdout'[g][m].frame.call = stdout'[g][n].frame.call => m = n
      BY <2>2, <3>1
    <3> QED
      BY <1>3, <3>2 DEF Located, Distinct
  <2>11. Separate(g)'
    BY <2>8, <2>9 DEF Located, Separate, Apart
  <2>12. OnTheWay(g)' \subseteq OnTheWay(g) /\ MayRun(g)' = MayRun(g)
    BY <2>8, <2>9 DEF OnTheWay, MayRun
  <2>13. Untouched(g)'
    BY <1>1, <2>12, UntouchedStays DEF Located
  <2>14. /\ \A h \in OnTheWay(g)' : h.call # f.call
         /\ ~NowhereOn(g, f.call) /\ NowhereOn(g, f.call)'
    BY <2>6, <2>7, <2>8, <2>9 DEF OnTheWay, NowhereOn, Located, Separate, Apart
  <2>15. ~NotYet(g, f.call)
    BY <2>4, <2>14 DEF Located, Untouched
  <2>16. Expected(g)'
    <3>1. ~(on[f.call] = g /\ at[f.call] = "handing")
      BY <2>15 DEF NotYet
    <3> QED
      BY <1>1, <1>3, <2>2, <2>4, <2>12, <2>14, <3>1, ExpectedWithout DEF Located
  <2>17. Delivers(g)
    <3>1. got \in Outcome
      BY <1>3, <2>4, <2>5 DEF Garbled
    <3>2. got \in {stdout[g][n] : n \in DOMAIN stdout[g]}
      BY <2>1 DEF s
    <3> QED
      BY <1>3, <2>4, <2>7, <2>14, <2>15, <3>1, <3>2 DEF Delivers
  <2> QED
    BY <1>1, <2>10, <2>11, <2>12, <2>13, <2>16, <2>17 DEF MovesOn, Located
<1> QED
  BY <1>1, <1>2, <1>3 DEF Deliver

\* What a step of client g leaves alone: the calls, and the other clients.
LEMMA ActsLocal ==
    ASSUME Typed, NEW g \in Clients, Acts(g)
    PROVE  /\ UNCHANGED <<nextID, expectedExit, ctx, at, on, id, result>>
           /\ \A h \in Clients \ {g} :
                /\ process'[h] = process[h] /\ stdin'[h] = stdin[h]
                /\ working'[h] = working[h] /\ stdout'[h] = stdout[h]
                /\ done'[h] = done[h] /\ writer'[h] = writer[h]
                /\ pending'[h] = pending[h] /\ written'[h] = written[h]
           /\ \A h \in Clients : (Alive(h)' => Alive(h)) /\ (done[h] => done'[h])
<1> USE DEF Typed, ClientTypeOK
<1>1. ASSUME Finishes(g)
      PROVE  /\ \A h \in Clients \ {g} :
                  /\ process'[h] = process[h] /\ stdin'[h] = stdin[h]
                  /\ working'[h] = working[h] /\ stdout'[h] = stdout[h]
                  /\ done'[h] = done[h] /\ pending'[h] = pending[h]
             /\ \A h \in Clients : (Alive(h)' => Alive(h)) /\ (done[h] => done'[h])
  BY <1>1 DEF Finishes, Killed, Alive
<1>2. CASE Deliver(g)
  BY <1>1, <1>2 DEF Deliver, Unreserved, Alive
<1>3. CASE EndOfOutput(g)
  BY <1>1, <1>3 DEF EndOfOutput
<1>4. CASE WriteStarts(g)
  BY <1>4 DEF WriteStarts, Unreserved, Report, Alive
<1>5. CASE WriteEnds(g)
  <2>1. process' = process \/ process' = Killed(g)
    BY <1>5, KillsOne DEF WriteEnds
  <2>2. \A h \in Clients : Alive(h)' => Alive(h)
    BY <2>1 DEF Alive, Killed
  <2>3. \A h \in Clients \ {g} : process'[h] = process[h]
    BY <2>1 DEF Killed
  <2> QED
    BY <1>5, <2>2, <2>3 DEF WriteEnds, Report
<1>6. CASE WriterStops(g)
  BY <1>6 DEF WriterStops, Alive
<1>7. CASE Execute(g) \/ EndOfInput(g)
  BY <1>7 DEF Execute, EndOfInput, Alive
<1>8. CASE AnswerFrame(g)
  <2>1. \/ process' = process
        \/ \E end \in Processes : Alive(g) /\ process' = [process EXCEPT ![g] = end]
    BY <1>8 DEF AnswerFrame, Processes, Alive
  <2>2. \A h \in Clients : Alive(h)' => Alive(h)
    BY <2>1 DEF Alive
  <2> QED
    BY <1>8, <2>1, <2>2 DEF AnswerFrame
<1>9. CASE ProcessFails(g)
  BY <1>9 DEF ProcessFails, Alive
<1> QED
  BY <1>2, <1>3, <1>4, <1>5, <1>6, <1>7, <1>8, <1>9 DEF Acts, Reader, Writer, Process, ReadsInput

\* Any step of a client, seen from that client and from the others.
LEMMA ActsLocated ==
    ASSUME Typed, NEW g \in Clients, Located(g), Acts(g)
    PROVE  MovesOn(g) /\ (answer' = answer \/ Delivers(g))
<1>1. CASE EndOfOutput(g)
  BY <1>1, FinishesLocated DEF EndOfOutput
<1>2. CASE Writer(g) \/ Process(g) \/ ProcessFails(g)
  <2>1. answer' = answer
    BY <1>2 DEF Writer, WriteStarts, WriteEnds, WriterStops, Process, ReadsInput, Execute, AnswerFrame,
       EndOfInput, ProcessFails
  <2> QED
    BY <1>2, <2>1, WriteStartsLocated, WriteEndsLocated, WriterStopsLocated,
       ExecuteLocated, AnswerLocated, EndOfInputLocated, FailsLocated DEF Writer, Process, ReadsInput
<1>3. CASE EndOfOutput(g) => answer' = answer
  BY <1>1, <1>2, <1>3, DeliverLocated DEF Acts, Reader
<1> QED
  BY <1>3 DEF EndOfOutput

LEMMA ActsElsewhere ==
    ASSUME Typed, NEW g \in Clients, Acts(g), NEW h \in Clients \ {g}, Located(h)
    PROVE  Located(h)' /\ OnTheWay(h)' = OnTheWay(h) /\ MayRun(h)' = MayRun(h)
<1>1. \A c \in Calls : /\ NotYet(h, c)' = NotYet(h, c) /\ Refused(c)' = Refused(c)
                       /\ FrameOf(c)' = FrameOf(c) /\ on'[c] = on[c] /\ at'[c] = at[c]
  BY ActsLocal DEF NotYet, Refused, FrameOf
<1> QED
  BY <1>1, ActsLocal, LocatedStays

-----------------------------------------------------------------------------
(***************************************************************************)
(* What the callers do.                                                    *)
(***************************************************************************)

\* Whether the request is registered or the call ends, no frame moves.
LEMMA RegisterLocated ==
    ASSUME Typed, NEW c \in Calls, NEW g \in Clients, Register(c, g),
           at[c] = "idle" \/ on[c] < g, NEW h \in Clients, Located(h)
    PROVE  Located(h)' /\ OnTheWay(h)' = OnTheWay(h) /\ MayRun(h)' = MayRun(h)
<1> DEFINE n == IF GivenID[c] # 0 THEN GivenID[c] ELSE FreshID(g)
           f == [id |-> n, call |-> c]
<1>1. /\ at \in [Calls -> Places] /\ result \in [Calls -> Results \cup {Nobody}]
      /\ id \in [Calls -> Nat] /\ on \in [Calls -> Clients]
      /\ pending \in [Clients -> SUBSET Frame]
      /\ g \in Nat /\ h \in Nat /\ on[c] \in Nat
  BY ClientAssumption DEF Typed, ClientTypeOK
<1>2. /\ on' = [on EXCEPT ![c] = g]
      /\ UNCHANGED <<writer, stdin, working, stdout, executed, done, written>>
      /\ \/ /\ at' = [at EXCEPT ![c] = "ended"]
            /\ \E r \in Results : result' = [result EXCEPT ![c] = r]
            /\ UNCHANGED <<id, pending>>
         \/ /\ n \notin ReservedIDs(g) /\ result' = result
            /\ id' = [id EXCEPT ![c] = n]
            /\ pending' = [pending EXCEPT ![g] = pending[g] \cup {f}]
            /\ at' = [at EXCEPT ![c] = "handing"]
  <2>1. {"not_dispatched", "gone", "duplicate"} \subseteq Results
    BY DEF Results
  <2> QED
    BY <1>1, <2>1 DEF Register, Ends
<1> HIDE DEF n
<1>3. /\ on'[c] = g /\ at'[c] \in {"ended", "handing"}
      /\ \A d \in Calls \ {c} :
           at'[d] = at[d] /\ on'[d] = on[d] /\ result'[d] = result[d] /\ id'[d] = id[d]
  BY <1>1, <1>2
<1>4. NotYet(g, c) /\ (NotYet(h, c)' => NotYet(h, c))
  BY <1>1, <1>3 DEF NotYet
<1>5. \A d \in Calls \ {c} : /\ NotYet(h, d)' = NotYet(h, d) /\ Refused(d)' = Refused(d)
                             /\ FrameOf(d)' = FrameOf(d)
  BY <1>3 DEF NotYet, Refused, FrameOf
<1>6. CASE h # g \/ (at' = [at EXCEPT ![c] = "ended"] /\ UNCHANGED <<id, pending>>)
  <2>1. pending'[h] = pending[h]
    BY <1>1, <1>2, <1>6
  <2>2. on'[c] = h => at'[c] = "ended" /\ h = g
    BY <1>1, <1>3, <1>6
  <2> QED
    BY <1>2, <1>3, <1>4, <1>5, <2>1, <2>2, LocatedStays
<1>7. CASE /\ h = g
           /\ n \notin ReservedIDs(g) /\ result' = result
           /\ id' = [id EXCEPT ![c] = n]
           /\ pending' = [pending EXCEPT ![g] = pending[g] \cup {f}]
           /\ at' = [at EXCEPT ![c] = "handing"]
  <2>1. /\ Held(g)' = Held(g) /\ Sent(g)' = Sent(g) /\ Worked(g)' = Worked(g)
        /\ Answered(g)' = Answered(g)
    BY <1>2 DEF Held, Sent, Worked, Answered
  <2>2. OnTheWay(g)' = OnTheWay(g) /\ MayRun(g)' = MayRun(g)
    BY <2>1 DEF OnTheWay, MayRun
  <2>3. \A d \in Calls : NowhereOn(g, d)' = NowhereOn(g, d)
    BY <2>2 DEF NowhereOn
  <2>4. Separate(g)' /\ Distinct(g)'
    BY <1>2, <1>7, <2>1 DEF Located, Separate, Distinct
  <2>5. Untouched(g)'
    BY <1>2, <1>3, <1>4, <1>5, <1>7, <2>3 DEF Located, Untouched
  <2>6. Expected(g)'
    <3>1. pending'[g] = pending[g] \cup {f}
      BY <1>1, <1>7
    <3>2. FrameOf(c)' = f
      BY <1>1, <1>7 DEF FrameOf
    <3>3. f.id = n /\ \A k \in pending[g] : k.id # n
      BY <1>7 DEF ReservedIDs
    <3>4. \A j, k \in pending'[g] : j.id = k.id => j = k
      BY <1>7, <3>1, <3>3 DEF Located, Expected
    <3> HIDE DEF f
    <3> QED
      BY <1>2, <1>3, <1>5, <1>7, <2>2, <3>1, <3>2, <3>4 DEF Located, Expected
  <2> QED
    BY <1>7, <2>2, <2>4, <2>5, <2>6 DEF Located
<1> QED
  BY <1>2, <1>6, <1>7

\* A frame goes to the writer, or its call ends and it goes nowhere.
HandsOver(c, g) ==
    /\ at[c] = "handing" /\ at' = [at EXCEPT ![c] = "writing"] /\ result' = result
    /\ MayRun(g)' = MayRun(g) \cup {c}
    /\ OnTheWay(g)' = OnTheWay(g) \cup {FrameOf(c)}
    /\ \A h \in Clients \ {g} : OnTheWay(h)' = OnTheWay(h) /\ MayRun(h)' = MayRun(h)

LEMMA HandLocated ==
    ASSUME Typed, NEW c \in Calls, NEW g \in Clients, on[c] = g, Hand(c),
           \A h \in Clients : Located(h)
    PROVE  /\ \A h \in Clients : Located(h)'
           /\ \/ HandsOver(c, g)
              \/ /\ Ends(c, "not_dispatched") \/ (Ends(c, "gone") /\ done[g])
                 /\ \A h \in Clients : OnTheWay(h)' = OnTheWay(h) /\ MayRun(h)' = MayRun(h)
<1> DEFINE f == FrameOf(c)
<1>1. /\ writer \in [Clients -> Writers]
      /\ at \in [Calls -> Places] /\ result \in [Calls -> Results \cup {Nobody}]
      /\ pending \in [Clients -> SUBSET Frame]
  BY Types DEF Typed, ClientTypeOK
<1>2. /\ at[c] = "handing"
      /\ UNCHANGED <<stdin, working, stdout, executed, done, on, id, written>>
  BY DEF Hand
<1>3. \/ /\ writer[g] = Idle
         /\ writer' = [writer EXCEPT ![g] = [step |-> "holding", frame |-> f]]
         /\ at' = [at EXCEPT ![c] = "writing"]
         /\ UNCHANGED <<pending, result>>
      \/ /\ Ends(c, "not_dispatched") \/ (Ends(c, "gone") /\ done[g])
         /\ pending' = pending \/ pending' = [pending EXCEPT ![g] = pending[g] \ {f}]
         /\ writer' = writer
  BY <1>1 DEF Hand, Unreserved
<1>4. \A h \in Clients \ {g} : writer'[h] = writer[h] /\ pending'[h] = pending[h]
  BY <1>1, <1>3
<1>5. /\ at'[c] \in {"writing", "ended"}
      /\ \A d \in Calls \ {c} : at'[d] = at[d] /\ result'[d] = result[d]
  BY <1>1, <1>3 DEF Ends
<1>6. /\ \A d \in Calls \ {c}, h \in Clients :
           NotYet(h, d)' = NotYet(h, d) /\ Refused(d)' = Refused(d) /\ FrameOf(d)' = FrameOf(d)
      /\ \A h \in Clients : NotYet(h, c)' => NotYet(h, c)
      /\ NotYet(g, c) /\ FrameOf(c)' = FrameOf(c)
  BY <1>1, <1>2, <1>5 DEF NotYet, Refused, FrameOf
<1>7. NowhereOn(g, c) /\ written[g][c] = "no"
  BY <1>1, <1>6 DEF Located, Untouched
<1>8. f \in Frame /\ f.call = c
  BY <1>1, <1>2 DEF FrameOf, Typed, ClientTypeOK, Frame
<1>9. \A h \in Clients \ {g} :
         Located(h)' /\ OnTheWay(h)' = OnTheWay(h) /\ MayRun(h)' = MayRun(h)
  <2> TAKE h \in Clients \ {g}
  <2>1. on'[c] # h
    BY <1>2
  <2>2. /\ Located(h) /\ writer'[h] = writer[h] /\ pending'[h] = pending[h]
        /\ stdin'[h] = stdin[h] /\ working'[h] = working[h] /\ stdout'[h] = stdout[h]
        /\ done'[h] = done[h] /\ written'[h] = written[h]
    BY <1>2, <1>4
  <2>3. \A d \in Calls :
          /\ NotYet(h, d)' => NotYet(h, d)
          /\ on'[d] = h /\ Refused(d)' =>
               NotYet(h, d) \/ written[h][d] = "discarded" \/ (on[d] = h /\ Refused(d))
          /\ on'[d] = h /\ at'[d] = "handing" =>
               on[d] = h /\ at[d] = "handing" /\ FrameOf(d)' = FrameOf(d)
    BY <1>2, <1>5, <1>6, <2>1
  <2> QED
    BY <2>2, <2>3, LocatedStays
<1>10. /\ ~done[g] => f \in pending[g]
       /\ \A j, k \in pending[g] : j.id = k.id => j = k
  BY <1>1, <1>2 DEF Located, Expected
<1>11. Sent(g)' = Sent(g) /\ Worked(g)' = Worked(g) /\ Answered(g)' = Answered(g)
  BY <1>2 DEF Sent, Worked, Answered
<1>12. Distinct(g)'
  BY <1>1, <1>2 DEF Located, Distinct
<1> HIDE DEF f
<1>13. CASE /\ writer[g] = Idle
            /\ writer' = [writer EXCEPT ![g] = [step |-> "holding", frame |-> f]]
            /\ at' = [at EXCEPT ![c] = "writing"]
            /\ UNCHANGED <<pending, result>>
  <2>1. Held(g) = {} /\ Held(g)' = {f}
    BY <1>1, <1>13 DEF Held, Idle
  <2>2. Separate(g)'
    BY <1>1, <1>7, <1>8, <1>11, <2>1 DEF Located, Separate, Apart, NowhereOn, OnTheWay
  <2>3. OnTheWay(g)' = OnTheWay(g) \cup {f} /\ MayRun(g)' = MayRun(g) \cup {c}
    BY <1>8, <1>11, <2>1 DEF OnTheWay, MayRun
  <2>4. \A d \in Calls \ {c} : NowhereOn(g, d)' = NowhereOn(g, d)
    BY <1>8, <2>3 DEF NowhereOn
  <2>5. at'[c] = "writing" /\ on'[c] = g /\ ~NotYet(g, c)' /\ ~Refused(c)'
    BY <1>1, <1>2, <1>13, ClientAssumption DEF NotYet, Refused
  <2>6. Untouched(g)'
    BY <1>1, <1>2, <1>6, <1>7, <2>4, <2>5 DEF Located, Untouched
  <2>7. Expected(g)'
    <3>1. \A d \in Calls : on'[d] = g /\ at'[d] = "handing" =>
             on[d] = g /\ at[d] = "handing" /\ FrameOf(d)' = FrameOf(d)
      BY <1>2, <1>5, <1>6, <2>5
    <3> QED
      BY <1>1, <1>2, <1>10, <1>13, <2>3, <3>1 DEF Located, Expected
  <2>8. HandsOver(c, g)
    <3>1. \A h \in Clients \ {g} : OnTheWay(h)' = OnTheWay(h) /\ MayRun(h)' = MayRun(h)
      BY <1>9
    <3> QED
      BY <1>2, <1>13, <2>3, <3>1 DEF HandsOver, f
  <2> QED
    BY <1>9, <1>12, <2>2, <2>6, <2>7, <2>8 DEF Located
<1>14. CASE /\ Ends(c, "not_dispatched") \/ (Ends(c, "gone") /\ done[g])
            /\ pending' = pending \/ pending' = [pending EXCEPT ![g] = pending[g] \ {f}]
            /\ writer' = writer
  <2>1. Held(g)' = Held(g)
    BY <1>14 DEF Held
  <2>2. Separate(g)'
    BY <1>1, <1>11, <2>1 DEF Located, Separate, Apart
  <2>3. OnTheWay(g)' = OnTheWay(g) /\ MayRun(g)' = MayRun(g)
    BY <1>11, <2>1 DEF OnTheWay, MayRun
  <2>4. \A d \in Calls : NowhereOn(g, d)' = NowhereOn(g, d)
    BY <2>3 DEF NowhereOn
  <2>5. at'[c] = "ended"
    BY <1>1, <1>14 DEF Ends
  <2>6. Untouched(g)'
    BY <1>1, <1>2, <1>6, <1>7, <2>4 DEF Located, Untouched
  <2>7. Expected(g)'
    <3>1. \A d \in Calls : on'[d] = g /\ at'[d] = "handing" =>
             on[d] = g /\ at[d] = "handing" /\ FrameOf(d)' = FrameOf(d) /\ d # c
      BY <1>2, <1>5, <1>6, <2>5
    <3>2. ASSUME pending' = pending PROVE Expected(g)'
      BY <1>1, <1>2, <1>10, <2>3, <3>1, <3>2 DEF Located, Expected
    <3>3. ASSUME pending' = [pending EXCEPT ![g] = pending[g] \ {f}] PROVE Expected(g)'
      <4>1. pending'[g] = pending[g] \ {f} /\ done'[g] = done[g] /\ id' = id
        BY <1>1, <1>2, <3>3
      <4>2. \A k \in OnTheWay(g)' : k.call # f.call
        BY <1>7, <1>8, <2>3 DEF NowhereOn
      <4>3. Expected(g)
        BY <1>1 DEF Located
      <4> QED
        BY <1>8, <2>3, <3>1, <4>1, <4>2, <4>3, ExpectedWithout
    <3> QED
      BY <1>14, <3>2, <3>3
  <2> QED
    BY <1>9, <1>12, <1>14, <2>2, <2>3, <2>6, <2>7 DEF Located
<1> QED
  BY <1>3, <1>13, <1>14

\* A call that was handed over ends for a reason: it is refused only if the writer
\* discarded its frame, and gives up only what the writer had taken up.
EndsFor(c, r) ==
    /\ Ends(c, r) /\ r \in Results \ {"duplicate"}
    /\ r = "ok" => (answer[c] # Nobody /\ answer[c].ok) \/ at[c] = "exiting"
    /\ r = "not_dispatched" => written[on[c]][c] = "discarded"
    /\ r = "write_failed" => written[on[c]][c] = "failed"
    /\ r = "gone" => done[on[c]]
    /\ r \in {"canceled", "expired"} /\ at[c] # "exiting" =>
         /\ at[c] = "awaiting" \/ written[on[c]][c] \in {"started", "ok", "failed"}
         /\ c \in Inferences => Kills(on[c])

\* Or it goes on to what it waits for next.
GoesOn(c, p) ==
    /\ at' = [at EXCEPT ![c] = p] /\ result' = result
    /\ p \in {"awaiting", "leaving", "exiting"}
    /\ p = "awaiting" => written[on[c]][c] = "ok"
    /\ p = "exiting" => c \in Stops

LEMMA WaitsAndEnds ==
    ASSUME Typed, NEW c \in Calls, CallStep(c), ~Hand(c)
    PROVE  /\ at[c] \notin {"idle", "handing", "ended"}
           /\ (\E r \in Results : EndsFor(c, r)) \/ (\E p \in Places : GoesOn(c, p))
<1>1. /\ {"awaiting", "leaving", "exiting"} \subseteq Places
      /\ {"ok", "rejected", "not_dispatched", "write_failed", "gone"} \subseteq Results \ {"duplicate"}
      /\ ctx[c] # "live" => ctx[c] \in Results /\ ctx[c] \in {"canceled", "expired"}
  BY DEF Places, Results, Typed, ClientTypeOK, Contexts
<1>2. CASE AwaitWrite(c)
  <2>1. at[c] = "writing"
    BY <1>2 DEF AwaitWrite
  <2>2. \/ GoesOn(c, "awaiting") \/ GoesOn(c, "leaving") \/ EndsFor(c, "write_failed")
        \/ EndsFor(c, "not_dispatched") \/ EndsFor(c, "gone")
    BY <1>1, <1>2 DEF AwaitWrite, GoesOn, EndsFor
  <2> QED
    BY <1>1, <2>1, <2>2
<1>3. CASE Leave(c)
  <2>1. at[c] = "leaving" /\ ctx[c] # "live"
    BY <1>3 DEF Leave, Typed, Live
  <2>2. \/ EndsFor(c, ctx[c]) \/ EndsFor(c, "write_failed")
        \/ EndsFor(c, "not_dispatched") \/ EndsFor(c, "gone")
    BY <1>1, <1>3, <2>1 DEF Leave, GiveUp, EndsFor
  <2> QED
    BY <1>1, <2>1, <2>2
<1>4. CASE AwaitAnswer(c)
  <2>1. at[c] = "awaiting"
    BY <1>4 DEF AwaitAnswer
  <2>2. \/ GoesOn(c, "exiting") \/ EndsFor(c, "ok") \/ EndsFor(c, "rejected")
        \/ EndsFor(c, "gone") \/ (ctx[c] # "live" /\ EndsFor(c, ctx[c]))
    BY <1>1, <1>4, <2>1 DEF AwaitAnswer, GiveUp, GoesOn, EndsFor, Live
  <2> QED
    BY <1>1, <2>1, <2>2
<1>5. CASE AwaitExit(c)
  <2>1. at[c] = "exiting"
    BY <1>5 DEF AwaitExit
  <2>2. EndsFor(c, "ok") \/ EndsFor(c, "gone") \/ (ctx[c] # "live" /\ EndsFor(c, ctx[c]))
    BY <1>1, <1>5, <2>1 DEF AwaitExit, EndsFor, Live
  <2> QED
    BY <1>1, <2>1, <2>2
<1> QED
  BY <1>2, <1>3, <1>4, <1>5 DEF CallStep

LEMMA WaitLocated ==
    ASSUME Typed, NEW c \in Calls, CallStep(c), ~Hand(c), NEW h \in Clients, Located(h)
    PROVE  Located(h)' /\ OnTheWay(h)' = OnTheWay(h) /\ MayRun(h)' = MayRun(h)
<1>1. /\ at \in [Calls -> Places] /\ result \in [Calls -> Results \cup {Nobody}]
  BY DEF Typed, ClientTypeOK
<1>2. at[c] \notin {"idle", "handing", "ended"}
  BY WaitsAndEnds
<1>3. /\ at'[c] \notin {"idle", "handing"}
      /\ Refused(c)' => written[on[c]][c] = "discarded"
      /\ \A d \in Calls \ {c} : at'[d] = at[d] /\ result'[d] = result[d]
  <2>1. CASE \E r \in Results : EndsFor(c, r)
    BY <1>1, <2>1 DEF EndsFor, Ends, Refused
  <2>2. CASE \E p \in Places : GoesOn(c, p)
    BY <1>1, <2>2 DEF GoesOn, Refused
  <2> QED
    BY <2>1, <2>2, WaitsAndEnds
<1>4. UNCHANGED <<writer, pending, stdin, working, stdout, done, on, id, written>>
  BY <1>2, CallSteps
<1>5. \A d \in Calls \ {c} : NotYet(h, d)' = NotYet(h, d) /\ Refused(d)' = Refused(d)
  BY <1>3, <1>4 DEF NotYet, Refused
<1>6. NotYet(h, c)' => NotYet(h, c)
  BY <1>3, <1>4 DEF NotYet
<1>7. \A d \in Calls : FrameOf(d)' = FrameOf(d)
  BY <1>4 DEF FrameOf
<1> QED
  BY <1>3, <1>4, <1>5, <1>6, <1>7, LocatedStays

-----------------------------------------------------------------------------
(***************************************************************************)
(* What a request leaves behind: its traces in the history of executions.  *)
(***************************************************************************)

\* What was not handed over to a client, is still to be executed by its process, was
\* discarded or refused was not executed by it.
FreshOn(g, c) ==
    \/ NotYet(g, c) \/ c \in MayRun(g)
    \/ written[g][c] = "discarded" \/ (on[c] = g /\ Refused(c))
    => RunOn(g, c) \notin Ran

\* A process executes a call once.
Single == \A m, n \in DOMAIN executed : executed[m] = executed[n] => m = n

LEMMA RanAfter ==
    ASSUME Typed, NEW r \in Run, executed' = Append(executed, r)
    PROVE  /\ Ran' = Ran \cup {r}
           /\ Single /\ r \notin Ran => Single'
<1>1. executed \in Seq(Run)
  BY DEF Typed, ClientTypeOK
<1>2. /\ \A n \in DOMAIN executed : n \in DOMAIN executed' /\ executed'[n] = executed[n]
      /\ Len(executed) + 1 \in DOMAIN executed' /\ executed'[Len(executed) + 1] = r
      /\ \A n \in DOMAIN executed' : n \in DOMAIN executed \/ n = Len(executed) + 1
  BY <1>1
<1> QED
  BY <1>2 DEF Ran, Single

LEMMA ActsRan ==
    ASSUME Typed, NEW g \in Clients, Located(g), Acts(g)
    PROVE  /\ Ran \subseteq Ran'
           /\ \A r \in Ran' \ Ran : \E c \in MayRun(g) \ MayRun(g)' : r = RunOn(g, c)
           /\ Single /\ (\A c \in MayRun(g) : RunOn(g, c) \notin Ran) => Single'
<1>1. CASE executed' = executed
  BY <1>1 DEF Ran, Single
<1>2. ASSUME NEW c \in MayRun(g) \ MayRun(g)', executed' = Append(executed, RunOn(g, c))
      PROVE  /\ Ran' = Ran \cup {RunOn(g, c)}
             /\ Single /\ RunOn(g, c) \notin Ran => Single'
  <2>1. c \in Calls
    BY PlaceTypes DEF MayRun
  <2>2. RunOn(g, c) \in Run
    BY <2>1 DEF RunOn, Run
  <2> QED
    BY <1>2, <2>2, RanAfter
<1> QED
  BY <1>1, <1>2, ActsLocated DEF MovesOn

\* The writer reports a frame that it holds, and only the writer.
LEMMA ActsReport ==
    ASSUME Typed, NEW g \in Clients, Acts(g)
    PROVE  \/ written' = written
           \/ /\ executed' = executed
              /\ \E f \in Held(g), what \in Reports :
                   /\ written' = [written EXCEPT ![g][f.call] = what]
                   /\ \/ writer[g].step = "holding" /\ what \in {"started", "discarded"}
                      \/ writer[g].step = "writing" /\ what \in {"ok", "failed"}
                   /\ what = "failed" => ~Serving(g)
<1>1. CASE Reader(g) \/ Process(g) \/ ProcessFails(g) \/ WriterStops(g)
  BY <1>1 DEF Reader, Deliver, EndOfOutput, Process, ReadsInput, Execute, AnswerFrame, EndOfInput,
     ProcessFails, WriterStops
<1>2. CASE WriteStarts(g)
  <2>1. /\ writer[g].frame \in Held(g) /\ writer[g].step = "holding" /\ executed' = executed
        /\ \E what \in {"started", "discarded"} : Report(g, writer[g].frame.call, what)
    BY <1>2 DEF WriteStarts, Held
  <2> QED
    BY <2>1 DEF Report, Reports
<1>3. CASE WriteEnds(g)
  <2>1. /\ writer[g].frame \in Held(g) /\ writer[g].step = "writing" /\ executed' = executed
        /\ \E what \in {"ok", "failed"} : /\ Report(g, writer[g].frame.call, what)
                                          /\ what = "failed" => ~Serving(g)
    BY <1>3 DEF WriteEnds, Held
  <2> QED
    BY <2>1 DEF Report, Reports
<1> QED
  BY <1>1, <1>2, <1>3 DEF Acts, Writer

\* No process executes a call behind its back.
LEMMA ActsFresh ==
    ASSUME Typed, NEW g \in Clients, Located(g), Acts(g),
           NEW h \in Clients, NEW c \in Calls, FreshOn(h, c),
           h # g => MayRun(h)' = MayRun(h)
    PROVE  FreshOn(h, c)'
<1>1. /\ NotYet(h, c)' = NotYet(h, c) /\ Refused(c)' = Refused(c) /\ on'[c] = on[c]
      /\ h # g => written'[h] = written[h]
  BY ActsLocal DEF Refused, NotYet
<1>2. MayRun(h)' \subseteq MayRun(h)
  BY ActsLocated DEF MovesOn
<1>3. CASE h # g
  <2>1. \A d : RunOn(h, c) # RunOn(g, d)
    BY <1>3 DEF RunOn
  <2>2. RunOn(h, c) \in Ran' => RunOn(h, c) \in Ran
    BY <2>1, ActsRan
  <2> QED
    BY <1>1, <1>2, <1>3, <2>2 DEF FreshOn
<1>4. \A d : RunOn(g, c) = RunOn(g, d) => c = d
  BY DEF RunOn
<1>5. /\ c \in MayRun(g) => ~NowhereOn(g, c)
      /\ \A f \in Held(g) : f.call \in MayRun(g)
  BY DEF MayRun, NowhereOn, OnTheWay
<1>6. CASE h = g /\ c \notin MayRun(g)
  <2>1. RunOn(g, c) \in Ran' => RunOn(g, c) \in Ran
    BY <1>4, <1>6, ActsRan
  <2>2. written'[g][c] = "discarded" => written[g][c] = "discarded"
    <3>1. ASSUME NEW f \in Held(g), NEW what \in Reports,
                 written' = [written EXCEPT ![g][f.call] = what]
          PROVE  written'[g][c] = written[g][c]
      <4>1. f.call # c
        BY <1>5, <1>6
      <4>2. written \in [Clients -> [Calls -> Reports]]
        BY Types
      <4> QED
        BY <3>1, <4>1, <4>2
    <3> QED
      BY <3>1, ActsReport
  <2> QED
    BY <1>1, <1>2, <1>6, <2>1, <2>2 DEF FreshOn
<1>7. CASE h = g /\ c \in MayRun(g) /\ executed' = executed
  BY <1>7 DEF FreshOn, Ran
<1>8. CASE h = g /\ c \in MayRun(g) /\ executed' # executed
  <2>1. written' = written
    BY <1>8, ActsReport
  <2>2. ~NotYet(g, c) /\ written[g][c] # "discarded" /\ ~(on[c] = g /\ Refused(c))
    BY <1>5, <1>8 DEF Located, Untouched
  <2>3. RunOn(g, c) \notin Ran
    BY <1>8 DEF FreshOn
  <2>4. c \in MayRun(g)' => RunOn(g, c) \notin Ran'
    BY <1>4, <2>3, ActsRan
  <2> QED
    BY <1>1, <1>8, <2>1, <2>2, <2>4 DEF FreshOn
<1> QED
  BY <1>3, <1>6, <1>7, <1>8

\* What the writer has is not yet, or just, reported.
Reported(g) ==
    /\ writer[g].step = "holding" => written[g][writer[g].frame.call] = "no"
    /\ writer[g].step = "writing" => written[g][writer[g].frame.call] = "started"

LEMMA ActsReported ==
    ASSUME Typed, NEW g \in Clients, Acts(g), NEW h \in Clients, Reported(h)
    PROVE  Reported(h)'
<1>1. CASE h # g
  BY <1>1, ActsLocal DEF Reported
<1>2. CASE h = g
  <2>1. CASE writer' = writer /\ written' = written
    BY <1>2, <2>1 DEF Reported
  <2>2. CASE Reader(g) \/ Process(g) \/ ProcessFails(g)
    BY <2>1, <2>2 DEF Reader, Deliver, EndOfOutput, Process, ReadsInput, Execute, AnswerFrame,
       EndOfInput, ProcessFails
  <2>3. CASE WriterStops(g)
    <3>1. writer'[g] = Stopped
      BY <2>3, Types DEF WriterStops
    <3> QED
      BY <1>2, <3>1 DEF Reported, Stopped
  <2>4. CASE WriteEnds(g)
    <3>1. writer'[g] \in {Idle, Stopped}
      BY <2>4, Types DEF WriteEnds
    <3> QED
      BY <1>2, <3>1 DEF Reported, Stopped, Idle
  <2>5. CASE WriteStarts(g)
    <3> DEFINE f == writer[g].frame
    <3>1. f.call \in Calls
      <4>1. f \in Frame
        BY <2>5, Types, WriterStates DEF WriteStarts
      <4> QED
        BY <4>1 DEF Frame
    <3>2. \/ writer'[g] = Idle
          \/ /\ writer'[g] = [step |-> "writing", frame |-> f]
             /\ written'[g][f.call] = "started"
      BY <2>5, <3>1, Types DEF WriteStarts, Report
    <3> QED
      BY <1>2, <3>2 DEF Reported, Idle
  <2> QED
    BY <2>2, <2>3, <2>4, <2>5 DEF Acts, Writer
<1> QED
  BY <1>1, <1>2

\* A successful outcome is that of an execution.
Truthful(g) ==
    /\ working[g] # Nobody /\ working[g].ok => RunOn(g, working[g].frame.call) \in Ran
    /\ \A n \in DOMAIN stdout[g] : stdout[g][n].ok => RunOn(g, stdout[g][n].frame.call) \in Ran

LEMMA ActsTruthful ==
    ASSUME Typed, NEW g \in Clients, Located(g), Acts(g), NEW h \in Clients, Truthful(h)
    PROVE  Truthful(h)'
<1>1. Ran \subseteq Ran'
  BY ActsRan
<1>2. CASE working'[h] = working[h] /\ stdout'[h] = stdout[h]
  BY <1>1, <1>2 DEF Truthful
<1>3. CASE h # g
  BY <1>2, <1>3, ActsLocal
<1>4. CASE h = g
  <2>1. stdout[g] \in Seq(Outcome \cup {Garbled}) /\ working[g] \in Outcome \cup {Nobody}
    BY DEF Typed, ClientTypeOK
  <2>2. CASE Writer(g)
    BY <1>2, <1>4, <2>2 DEF Writer, WriteStarts, WriteEnds, WriterStops
  <2>3. ASSUME Finishes(g) PROVE Truthful(h)'
    <3>1. (working'[g] = Nobody \/ working' = working) /\ stdout'[g] = <<>>
      BY <2>3 DEF Finishes, Typed, ClientTypeOK
    <3> QED
      BY <1>1, <1>4, <3>1 DEF Truthful
  <2>4. CASE Deliver(g)
    <3>1. ASSUME working' = working, stdout' = [stdout EXCEPT ![g] = Tail(@)], stdout[g] # <<>>
          PROVE  Truthful(h)'
      <4>1. \A n \in DOMAIN stdout'[g] : n + 1 \in DOMAIN stdout[g]
                                         /\ stdout'[g][n] = stdout[g][n + 1]
        BY <2>1, <3>1, TailElements DEF Typed, ClientTypeOK
      <4> QED
        BY <1>1, <1>4, <3>1, <4>1 DEF Truthful
    <3> QED
      BY <2>3, <2>4, <3>1 DEF Deliver
  <2>5. CASE EndOfOutput(g)
    BY <2>3, <2>5 DEF EndOfOutput
  <2>6. CASE Execute(g)
    <3>1. /\ stdout' = stdout
          /\ \E ok \in BOOLEAN :
               /\ working'[g] = [frame |-> Head(stdin[g]), ok |-> ok]
               /\ ok => executed' = Append(executed, RunOn(g, Head(stdin[g]).call))
      BY <2>6 DEF Execute, Typed, ClientTypeOK, RunOn
    <3>2. RunOn(g, Head(stdin[g]).call) \in Run
      <4>1. Head(stdin[g]) \in Frame
        BY <2>6 DEF Execute, Typed, ClientTypeOK
      <4> QED
        BY <4>1 DEF Frame, RunOn, Run
    <3> QED
      BY <1>1, <1>4, <3>1, <3>2, RanAfter DEF Truthful
  <2>7. CASE AnswerFrame(g)
    <3>1. /\ working'[g] = Nobody /\ working[g] # Nobody
          /\ stdout'[g] = stdout[g] \/ stdout'[g] = Append(stdout[g], working[g])
      BY <2>7 DEF AnswerFrame, Typed, ClientTypeOK
    <3>2. \A n \in DOMAIN stdout'[g] : \/ n \in DOMAIN stdout[g] /\ stdout'[g][n] = stdout[g][n]
                                       \/ stdout'[g][n] = working[g]
      <4>1. working[g] \in Outcome \cup {Garbled}
        BY <2>1, <3>1
      <4> QED
        BY <2>1, <3>1, <4>1, AppendElements
    <3> QED
      BY <1>1, <1>4, <3>1, <3>2 DEF Truthful
  <2>8. CASE ProcessFails(g)
    <3>1. /\ working' = working
          /\ stdout'[g] = stdout[g] \/ stdout'[g] = Append(stdout[g], Garbled)
      BY <2>8 DEF ProcessFails, Typed, ClientTypeOK
    <3>2. \A n \in DOMAIN stdout'[g] : \/ n \in DOMAIN stdout[g] /\ stdout'[g][n] = stdout[g][n]
                                       \/ stdout'[g][n] = Garbled
      <4>1. Garbled \in Outcome \cup {Garbled}
        OBVIOUS
      <4> QED
        BY <2>1, <3>1, <4>1, AppendElements
    <3> QED
      BY <1>1, <1>4, <3>1, <3>2 DEF Truthful, Garbled
  <2>9. CASE EndOfInput(g)
    BY <1>2, <1>4, <2>9 DEF EndOfInput
  <2> QED
    BY <2>2, <2>4, <2>5, <2>6, <2>7, <2>8, <2>9 DEF Acts, Reader, Process, ReadsInput
<1> QED
  BY <1>3, <1>4

\* An answer is the last a process has to say to a request.
Settled(c) ==
    answer[c] # Nobody =>
      /\ answer[c].frame.call = c
      /\ at[c] \notin {"idle", "handing"}
      /\ \A g \in Clients : on[c] = g => NowhereOn(g, c)
      /\ answer[c].ok => RunOn(on[c], c) \in Ran

LEMMA ActsSettled ==
    ASSUME Typed, NEW g \in Clients, Located(g), Acts(g), Truthful(g),
           NEW c \in Calls, Settled(c), (\E f \in Answered(g) : f.call = c) => on[c] = g,
           \A h \in Clients \ {g} : OnTheWay(h)' = OnTheWay(h)
    PROVE  Settled(c)'
<1>1. /\ on[c] \in Clients /\ on'[c] = on[c] /\ at'[c] = at[c] /\ Ran \subseteq Ran'
      /\ answer \in [Calls -> Outcome \cup {Nobody}]
  BY ActsLocal, ActsRan DEF Typed, ClientTypeOK
<1>2. \A h \in Clients : NowhereOn(h, c) => NowhereOn(h, c)'
  <2>1. Garbled.frame.call # c
    BY PlaceTypes
  <2>2. \A h \in Clients : OnTheWay(h)' \subseteq OnTheWay(h) \cup {Garbled.frame}
    BY ActsLocated DEF MovesOn
  <2> QED
    BY <2>1, <2>2 DEF NowhereOn
<1>3. CASE answer'[c] = answer[c]
  BY <1>1, <1>2, <1>3 DEF Settled
<1>4. ASSUME NEW got \in {stdout[g][n] : n \in DOMAIN stdout[g]},
             got.frame.call = c, ~NotYet(g, c), answer' = [answer EXCEPT ![c] = got],
             ~NowhereOn(g, c), NowhereOn(g, c)'
      PROVE  Settled(c)'
  <2>1. on[c] = g /\ answer'[c] = got
    BY <1>1, <1>4 DEF Answered
  <2>2. got.ok => RunOn(g, c) \in Ran
    BY <1>4 DEF Truthful
  <2> QED
    BY <1>1, <1>4, <2>1, <2>2 DEF Settled, NotYet
<1>5. CASE Delivers(g)
  <2>1. PICK d \in Calls, got \in {stdout[g][n] : n \in DOMAIN stdout[g]} :
           /\ got \in Outcome /\ got.frame.call = d /\ ~NotYet(g, d)
           /\ answer' = [answer EXCEPT ![d] = got]
           /\ ~NowhereOn(g, d) /\ NowhereOn(g, d)'
    BY <1>5 DEF Delivers
  <2>2. CASE d = c
    BY <1>4, <2>1, <2>2
  <2>3. CASE d # c
    BY <1>1, <1>3, <2>1, <2>3
  <2> QED
    BY <2>2, <2>3
<1> QED
  BY <1>3, <1>5, ActsLocated

-----------------------------------------------------------------------------
(***************************************************************************)
(* All of it together, step by step.                                       *)
(***************************************************************************)
Placed ==
    /\ \A g \in Clients : Located(g) /\ Truthful(g) /\ Reported(g)
    /\ \A c \in Calls : Settled(c)
    /\ \A g \in Clients, c \in Calls : FreshOn(g, c)
    /\ Single

LEMMA InitPlaced ==
    ASSUME ClientInit
    PROVE  Placed
<1>1. \A g \in Clients : Located(g) /\ Ran = {}
  BY InitLocated
<1>2. \A g \in Clients : Truthful(g) /\ Reported(g)
  BY DEF ClientInit, Truthful, Reported, Idle
<1>3. Single /\ \A c \in Calls : answer[c] = Nobody
  BY DEF ClientInit, Single
<1>4. \A g \in Clients, c \in Calls : FreshOn(g, c)
  BY <1>1 DEF FreshOn
<1> QED
  BY <1>1, <1>2, <1>3, <1>4 DEF Placed, Settled

LEMMA QuietPlaced ==
    ASSUME Placed, UNCHANGED <<stdin, working, stdout, done, writer, pending,
                               at, on, id, written, answer, result, executed>>
    PROVE  /\ Placed'
           /\ \A g \in Clients : OnTheWay(g)' = OnTheWay(g) /\ MayRun(g)' = MayRun(g)
<1>1. \A c \in Calls, g \in Clients :
         NotYet(g, c)' = NotYet(g, c) /\ Refused(c)' = Refused(c) /\ FrameOf(c)' = FrameOf(c)
  BY DEF NotYet, Refused, FrameOf
<1>2. ASSUME NEW g \in Clients
      PROVE  /\ Located(g)' /\ Truthful(g)' /\ Reported(g)'
             /\ OnTheWay(g)' = OnTheWay(g) /\ MayRun(g)' = MayRun(g)
  <2>1. Located(g)' /\ OnTheWay(g)' = OnTheWay(g) /\ MayRun(g)' = MayRun(g)
    BY <1>1, LocatedStays DEF Placed
  <2>2. Truthful(g)' /\ Reported(g)'
    BY DEF Placed, Truthful, Reported, Ran
  <2> QED
    BY <2>1, <2>2
<1>3. \A c \in Calls : Settled(c)'
  BY <1>2 DEF Placed, Settled, Ran, NowhereOn
<1>4. Single' /\ \A g \in Clients, c \in Calls : FreshOn(g, c)'
  BY <1>1, <1>2 DEF Placed, FreshOn, Ran, Single
<1> QED
  BY <1>2, <1>3, <1>4 DEF Placed

\* The answers in the output of a client are for calls that were made on it.
LEMMA ActsPlaced ==
    ASSUME Typed, Placed, NEW g \in Clients, Acts(g),
           \A f \in Answered(g) : f.call \in Calls => on[f.call] = g
    PROVE  /\ Placed'
           /\ \A h \in Clients \ {g} : OnTheWay(h)' = OnTheWay(h) /\ MayRun(h)' = MayRun(h)
<1>1. ASSUME NEW h \in Clients \ {g}
      PROVE  Located(h)' /\ OnTheWay(h)' = OnTheWay(h) /\ MayRun(h)' = MayRun(h)
  BY ActsElsewhere DEF Placed
<1>2. \A h \in Clients : Located(h)' /\ Truthful(h)' /\ Reported(h)'
  BY <1>1, ActsLocated, ActsTruthful, ActsReported DEF Placed, MovesOn
<1>3. ASSUME NEW c \in Calls
      PROVE  Settled(c)'
  BY <1>1, ActsSettled DEF Placed
<1>4. \A h \in Clients, c \in Calls : FreshOn(h, c)'
  BY <1>1, ActsFresh DEF Placed
<1>5. Single'
  <2>1. MayRun(g) \subseteq Calls
    BY PlaceTypes DEF MayRun
  <2> QED
    BY <2>1, ActsRan DEF Placed, FreshOn
<1> QED
  BY <1>1, <1>2, <1>3, <1>4, <1>5 DEF Placed

\* A call that is made, or made again on a later client.
LEMMA RegisterPlaced ==
    ASSUME Typed, Placed, NEW c \in Calls, NEW g \in Clients, Register(c, g),
           at[c] = "idle" \/ on[c] < g
    PROVE  /\ Placed'
           /\ \A h \in Clients : OnTheWay(h)' = OnTheWay(h) /\ MayRun(h)' = MayRun(h)
<1>1. /\ UNCHANGED <<writer, stdin, working, stdout, executed, done, written>>
      /\ at \in [Calls -> Places] /\ result \in [Calls -> Results \cup {Nobody}]
      /\ on \in [Calls -> Clients] /\ answer \in [Calls -> Outcome \cup {Nobody}]
      /\ answer' = [answer EXCEPT ![c] = Nobody]
      /\ \A d \in Calls \ {c} : at'[d] = at[d] /\ result'[d] = result[d] /\ on'[d] = on[d]
  BY DEF Register, Ends, Typed, ClientTypeOK
<1>2. \A h \in Clients :
         Located(h)' /\ OnTheWay(h)' = OnTheWay(h) /\ MayRun(h)' = MayRun(h)
  BY RegisterLocated DEF Placed
<1>3. \A h \in Clients : Truthful(h)' /\ Reported(h)'
  BY <1>1 DEF Placed, Truthful, Reported, Ran
<1>4. ASSUME NEW d \in Calls
      PROVE  Settled(d)'
  <2>1. CASE d = c
    BY <1>1, <2>1 DEF Settled
  <2>2. CASE d # c
    BY <1>1, <1>2, <2>2 DEF Placed, Settled, Ran, NowhereOn
  <2> QED
    BY <2>1, <2>2
<1>5. ASSUME NEW d \in Calls, NEW h \in Clients
      PROVE  FreshOn(h, d)'
  <2>1. CASE d = c
    <3>1. on'[c] = g /\ at'[c] # "idle" /\ g \in Nat /\ h \in Nat /\ on[c] \in Nat
      BY <1>1, ClientAssumption DEF Register, Ends
    <3>2. NotYet(h, c)' \/ on'[c] = h => NotYet(h, c)
      BY <3>1 DEF NotYet
    <3> QED
      BY <1>1, <1>2, <2>1, <3>2 DEF Placed, FreshOn, Ran
  <2>2. CASE d # c
    BY <1>1, <1>2, <2>2 DEF Placed, FreshOn, Ran, Refused, NotYet
  <2> QED
    BY <2>1, <2>2
<1>6. Single'
  BY <1>1 DEF Placed, Single
<1> QED
  BY <1>2, <1>3, <1>4, <1>5, <1>6 DEF Placed

\* A call that ends before its frame is handed over.
Declines(c) ==
    /\ at[c] = "handing"
    /\ Ends(c, "not_dispatched") \/ (Ends(c, "gone") /\ done[on[c]])

\* Whatever a call does, it hands over its frame or moves none.
Proceeding(c, g) ==
    \/ HandsOver(c, g)
    \/ /\ \A h \in Clients : OnTheWay(h)' = OnTheWay(h) /\ MayRun(h)' = MayRun(h)
       /\ \/ Declines(c)
          \/ /\ at[c] \notin {"idle", "handing", "ended"}
             /\ (\E r \in Results : EndsFor(c, r)) \/ (\E p \in Places : GoesOn(c, p))

LEMMA CallStepProceeds ==
    ASSUME Typed, Placed, NEW c \in Calls, NEW g \in Clients, on[c] = g, CallStep(c)
    PROVE  Proceeding(c, g) /\ \A h \in Clients : Located(h)'
<1>1. CASE Hand(c)
  <2>1. at[c] = "handing"
    BY <1>1 DEF Hand
  <2> QED
    BY <1>1, <2>1, HandLocated DEF Placed, Proceeding, Declines
<1>2. CASE ~Hand(c)
  <2>1. \A h \in Clients :
          Located(h)' /\ OnTheWay(h)' = OnTheWay(h) /\ MayRun(h)' = MayRun(h)
    BY <1>2, WaitLocated DEF Placed
  <2> QED
    BY <1>2, <2>1, WaitsAndEnds DEF Proceeding
<1> QED
  BY <1>1, <1>2

LEMMA CallStepPlaced ==
    ASSUME Typed, Placed, NEW c \in Calls, NEW g \in Clients, on[c] = g, CallStep(c)
    PROVE  Placed' /\ Proceeding(c, g)
<1>1. /\ UNCHANGED <<stdin, working, stdout, executed, on, written, answer>>
      /\ at \in [Calls -> Places] /\ result \in [Calls -> Results \cup {Nobody}]
      /\ at[c] \notin {"idle", "ended"}
  BY CallSteps DEF Typed, ClientTypeOK
<1>2. Proceeding(c, g) /\ \A h \in Clients : Located(h)'
  BY CallStepProceeds
<1>3. /\ at'[c] \notin {"idle", "handing"}
      /\ \A d \in Calls \ {c} : at'[d] = at[d] /\ result'[d] = result[d]
      /\ Refused(c)' => at[c] = "handing" \/ written[g][c] = "discarded"
  <2>1. CASE HandsOver(c, g)
    BY <1>1, <2>1 DEF HandsOver, Refused
  <2>2. CASE Declines(c)
    BY <1>1, <2>2 DEF Declines, Ends, Refused
  <2>3. CASE \E r \in Results : EndsFor(c, r)
    BY <1>1, <2>3 DEF EndsFor, Ends, Refused
  <2>4. CASE \E p \in Places : GoesOn(c, p)
    BY <1>1, <2>4 DEF GoesOn, Refused
  <2> QED
    BY <1>2, <2>1, <2>2, <2>3, <2>4 DEF Proceeding
<1>4. ASSUME NEW h \in Clients
      PROVE  /\ MayRun(h)' = MayRun(h) \/ (h = g /\ at[c] = "handing"
                                            /\ MayRun(h)' = MayRun(h) \cup {c})
             /\ \A d \in Calls : NowhereOn(h, d) /\ (d # c \/ at[c] # "handing")
                  => NowhereOn(h, d)'
  <2>1. \/ OnTheWay(h)' = OnTheWay(h) /\ MayRun(h)' = MayRun(h)
        \/ /\ h = g /\ at[c] = "handing" /\ MayRun(h)' = MayRun(h) \cup {c}
           /\ OnTheWay(h)' = OnTheWay(h) \cup {FrameOf(c)}
    BY <1>2 DEF Proceeding, HandsOver
  <2> QED
    BY <2>1 DEF NowhereOn, FrameOf
<1>5. \A h \in Clients : Truthful(h)'
  BY <1>1 DEF Placed, Truthful, Ran
<1>6. ASSUME NEW h \in Clients
      PROVE  Reported(h)'
  <2>1. CASE writer'[h] = writer[h]
    BY <1>1, <2>1 DEF Placed, Reported
  <2>2. CASE writer' = [writer EXCEPT ![g] = [step |-> "holding", frame |-> FrameOf(c)]]
             /\ at[c] = "handing"
    <3>1. CASE h = g
      <4>1. writer'[h] = [step |-> "holding", frame |-> FrameOf(c)]
        BY <2>2, <3>1, Types
      <4>2. written[g][c] = "no"
        BY <2>2 DEF Placed, Located, Untouched, NotYet
      <4> QED
        BY <1>1, <3>1, <4>1, <4>2 DEF Reported, FrameOf
    <3>2. CASE h # g
      BY <2>1, <2>2, <3>2, Types
    <3> QED
      BY <3>1, <3>2
  <2> QED
    BY <2>1, <2>2, CallSteps
<1>7. ASSUME NEW d \in Calls
      PROVE  Settled(d)'
  <2>1. SUFFICES ASSUME answer[d] # Nobody PROVE Settled(d)'
    BY <1>1 DEF Settled
  <2>2. /\ answer[d].frame.call = d /\ at[d] \notin {"idle", "handing"}
        /\ \A h \in Clients : on[d] = h => NowhereOn(h, d)
        /\ answer[d].ok => RunOn(on[d], d) \in Ran
    BY <2>1 DEF Placed, Settled
  <2>3. \A h \in Clients : NowhereOn(h, d) => NowhereOn(h, d)'
    BY <1>4, <2>2
  <2>4. at'[d] \notin {"idle", "handing"}
    BY <1>3, <2>2
  <2> QED
    BY <1>1, <2>2, <2>3, <2>4 DEF Settled, Ran
<1>8. ASSUME NEW h \in Clients, NEW d \in Calls
      PROVE  FreshOn(h, d)'
  <2>1. NotYet(h, d)' => NotYet(h, d)
    BY <1>1, <1>3 DEF NotYet
  <2>2. d \in MayRun(h)' => d \in MayRun(h) \/ NotYet(h, d)
    BY <1>4 DEF NotYet
  <2>3. on[d] = h /\ Refused(d)' =>
          NotYet(h, d) \/ written[h][d] = "discarded" \/ Refused(d)
    BY <1>3 DEF NotYet, Refused
  <2> QED
    BY <1>1, <2>1, <2>2, <2>3 DEF Placed, FreshOn, Ran
<1>9. Single'
  BY <1>1 DEF Placed, Single
<1> QED
  BY <1>2, <1>5, <1>6, <1>7, <1>8, <1>9 DEF Placed

-----------------------------------------------------------------------------
(***************************************************************************)
(* The clients that serve no more, and those that do not serve yet.        *)
(***************************************************************************)
Empty(g) == stdin[g] = <<>> /\ working[g] = Nobody /\ stdout[g] = <<>>

Unstarted(g) == process[g] = "none" /\ ~done[g] /\ Empty(g) /\ writer[g] = Idle

LEMMA UnstartedRests ==
    ASSUME NEW g \in Clients, Unstarted(g)
    PROVE  ~Acts(g)
<1>1. /\ process[g] = "none" /\ ~done[g] /\ stdin[g] = <<>> /\ working[g] = Nobody
      /\ stdout[g] = <<>> /\ writer[g] = Idle
  BY DEF Unstarted, Empty
<1>2. ~Deliver(g) /\ ~EndOfOutput(g)
  BY <1>1 DEF Deliver, EndOfOutput
<1>3. ~WriteStarts(g) /\ ~WriteEnds(g) /\ ~WriterStops(g)
  BY <1>1 DEF WriteStarts, WriteEnds, WriterStops, Idle
<1>4. ~Execute(g) /\ ~AnswerFrame(g) /\ ~EndOfInput(g) /\ ~ProcessFails(g)
  BY <1>1 DEF Execute, AnswerFrame, EndOfInput, ProcessFails
<1> QED
  BY <1>2, <1>3, <1>4 DEF Acts, Reader, Writer, Process, ReadsInput

\* The reader ends with nothing left to read, and nothing comes back, although
\* the process may go on.
LEMMA ActsFinished ==
    ASSUME Typed, NEW g \in Clients, Acts(g), done[g] => stdout[g] = <<>>
    PROVE  /\ done'[g] => stdout'[g] = <<>>
           /\ done[g] => answer' = answer
<1> USE DEF Typed, ClientTypeOK
<1>1. ASSUME Finishes(g) PROVE stdout'[g] = <<>>
  BY <1>1 DEF Finishes
<1>2. CASE Deliver(g)
  BY <1>1, <1>2 DEF Deliver
<1>3. CASE EndOfOutput(g)
  BY <1>1, <1>3 DEF EndOfOutput
<1>4. CASE WriteStarts(g) \/ WriteEnds(g) \/ WriterStops(g)
  BY <1>4 DEF WriteStarts, WriteEnds, WriterStops
<1>5. CASE Execute(g) \/ EndOfInput(g)
  BY <1>5 DEF Execute, EndOfInput
<1>6. CASE AnswerFrame(g)
  BY <1>6 DEF AnswerFrame
<1>7. CASE ProcessFails(g)
  BY <1>7 DEF ProcessFails
<1> QED
  BY <1>2, <1>3, <1>4, <1>5, <1>6, <1>7 DEF Acts, Reader, Writer, Process, ReadsInput

\* A call was executed by at most as many processes as may have executed it, each of
\* them once.
LEMMA ExecutionsCounted ==
    ASSUME Typed, Single, NEW c \in Calls, NEW S, IsFiniteSet(S),
           \A g \in Clients : RunOn(g, c) \in Ran => g \in S
    PROVE  Executions(c) \in Nat /\ Executions(c) <= Cardinality(S)
<1> DEFINE runs == {n \in DOMAIN executed : executed[n].call = c}
           process_of == [n \in runs |-> executed[n].on]
<1>1. \A n \in DOMAIN executed : executed[n] \in Run
  BY DEF Typed, ClientTypeOK
<1>2. \A n \in runs : /\ executed[n] = RunOn(executed[n].on, c)
                      /\ executed[n].on \in Clients /\ executed[n] \in Ran
  BY <1>1 DEF Run, RunOn, Ran
<1>3. process_of \in [runs -> S]
  BY <1>2
<1>4. \A m, n \in runs : process_of[m] = process_of[n] => m = n
  BY <1>2 DEF Single
<1>5. process_of \in Injection(runs, S)
  BY <1>3, <1>4 DEF Injection, IsInjective
<1> HIDE DEF process_of, runs
<1>6. IsFiniteSet(runs) /\ Cardinality(runs) <= Cardinality(S)
  BY <1>5, FS_Injection
<1> QED
  BY <1>6, FS_CardinalityType DEF Executions, runs

LEMMA NeverExecuted ==
    ASSUME Typed, NEW c \in Calls, \A g \in Clients : RunOn(g, c) \notin Ran
    PROVE  Executions(c) = 0
<1>1. \A n \in DOMAIN executed : executed[n] \in Run
  BY DEF Typed, ClientTypeOK
<1>2. {n \in DOMAIN executed : executed[n].call = c} = {}
  BY <1>1 DEF Run, RunOn, Ran
<1> QED
  BY <1>2, FS_EmptySet DEF Executions
=============================================================================
