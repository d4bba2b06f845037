-------------------------- MODULE PersistentClient --------------------------
(***************************************************************************)
(* A worker process and the client that drives it                          *)
(* (src/internal/workerproc/persistent.go): callers register a request     *)
(* under an ID, hand its frame to one writer goroutine, and wait for what  *)
(* one reader goroutine delivers.  Any context may end at any step, the    *)
(* process may die, hang, close its output or garble it, and a kill may    *)
(* fail: the client then finishes without its process.                     *)
(*                                                                         *)
(* State is kept per client, because a supervisor starts a new one for     *)
(* every process.  PersistentTarget and PersistentSupervisor compose the   *)
(* actions of this module into the two ways the client is used.            *)
(***************************************************************************)
EXTENDS Integers, Sequences, FiniteSets

CONSTANTS
    Calls,         \* calls of PersistentClient.Call
    Probes,        \* of these: health and state, which change nothing
    Inferences,    \* of these: forward, prefill and decode
    Stops,         \* of these: shutdown
    GivenID,       \* the ID a caller chose for its request, or 0
    Clients,       \* clients, in the order they are started
    Nobody,        \* no call, no answer, no result
    PipeFrames,    \* bound: frames the pipe to the process holds
    Impatient,     \* bound: calls whose context may end
    Faults,        \* what may go wrong in a run, a subset of FaultKinds
    Unkillable     \* clients whose process may survive being killed

FaultKinds == {"crash",      \* the process dies
               "hang",       \* the process does nothing any more
               "mute",       \* the process closes its output
               "garble",     \* the process sends what answers no request
               "canceled",   \* a caller cancels its context
               "expired"}    \* a deadline passes

ASSUME ClientAssumption ==
    /\ Probes \subseteq Calls /\ Inferences \subseteq Calls /\ Stops \subseteq Calls
    /\ Probes \cap Inferences = {} /\ Stops \cap (Probes \cup Inferences) = {}
    /\ GivenID \in [Calls -> Nat]
    /\ Clients \subseteq Nat \ {0} /\ 1 \in Clients
    /\ Nobody \notin Calls
    /\ PipeFrames \in Nat \ {0}
    /\ Impatient \subseteq Calls
    /\ Faults \subseteq FaultKinds
    /\ Unkillable \subseteq Clients

VARIABLES
    process,       \* what the process does
    stdin,         \* frames written and not read
    working,       \* the frame being executed, with its outcome, or Nobody
    stdout,        \* answers that are not read
    done,          \* PersistentClient.done is closed
    writer,        \* what writeLoop does
    pending,       \* PersistentClient.pending
    nextID,        \* PersistentClient.nextID
    expectedExit,  \* PersistentClient.expectedExit
    ctx,           \* the context of a call
    at,            \* where a call stands in Call
    on,            \* the client a call was made on
    id,            \* the ID of its request
    written,       \* what the writer reported of a call on a client
    answer,        \* the response channel of a call
    result,        \* how Call returned
    executed       \* history: what the processes executed, in that order

processVars == <<process, stdin, working, stdout>>
clientVars == <<done, writer, pending, nextID, expectedExit>>
callVars == <<ctx, at, on, id, written, answer, result>>
workerVars == <<processVars, clientVars, callVars, executed>>

\* A process that left by itself with status zero has exited; one that crashed or
\* was killed is dead.  Whether a dead process is reaped yet is not told apart: it
\* executes nothing.
Processes == {"none", "running", "hung", "muted", "exited", "dead"}
Places == {"idle", "handing", "writing", "leaving", "awaiting", "exiting", "ended"}
Contexts == {"live", "canceled", "expired"}
Results == {"ok", "rejected", "not_dispatched", "duplicate", "write_failed", "gone",
            "canceled", "expired"}

\* A call that has not returned is told from every way of returning.
ASSUME NobodyAssumption == Nobody \notin Results

IDs == Nat \ {0}
Frame == [id : IDs, call : Calls]
Outcome == [frame : Frame, ok : BOOLEAN]
Run == [on : Clients, call : Calls]

\* Output that does not parse or matches no request.
Garbled == [frame |-> [id |-> 0, call |-> Nobody], ok |-> FALSE]

ClientTypeOK ==
    /\ process \in [Clients -> Processes]
    /\ stdin \in [Clients -> Seq(Frame)]
    /\ working \in [Clients -> Outcome \cup {Nobody}]
    /\ stdout \in [Clients -> Seq(Outcome \cup {Garbled})]
    /\ done \in [Clients -> BOOLEAN]
    /\ writer \in [Clients -> [step : {"idle", "stopped"}]
                              \cup [step : {"holding", "writing"}, frame : Frame]]
    /\ pending \in [Clients -> SUBSET Frame]
    /\ nextID \in [Clients -> Nat]
    /\ expectedExit \in [Clients -> BOOLEAN]
    /\ ctx \in [Calls -> Contexts]
    /\ at \in [Calls -> Places]
    /\ on \in [Calls -> Clients]
    /\ id \in [Calls -> Nat]
    /\ written \in [Clients -> [Calls -> {"no", "started", "ok", "failed", "discarded"}]]
    /\ answer \in [Calls -> Outcome \cup {Nobody}]
    /\ result \in [Calls -> Results \cup {Nobody}]
    /\ executed \in Seq(Run)

Fault(kind) == kind \in Faults

Idle == [step |-> "idle"]
Stopped == [step |-> "stopped"]

\* The first client is started; the others are not.
ClientInit ==
    /\ process = [g \in Clients |-> IF g = 1 THEN "running" ELSE "none"]
    /\ stdin = [g \in Clients |-> <<>>]
    /\ working = [g \in Clients |-> Nobody]
    /\ stdout = [g \in Clients |-> <<>>]
    /\ done = [g \in Clients |-> FALSE]
    /\ writer = [g \in Clients |-> Idle]
    /\ pending = [g \in Clients |-> {}]
    /\ nextID = [g \in Clients |-> 0]
    /\ expectedExit = [g \in Clients |-> FALSE]
    /\ ctx = [c \in Calls |-> "live"]
    /\ at = [c \in Calls |-> "idle"]
    /\ on = [c \in Calls |-> 1]
    /\ id = [c \in Calls |-> 0]
    /\ written = [g \in Clients |-> [c \in Calls |-> "no"]]
    /\ answer = [c \in Calls |-> Nobody]
    /\ result = [c \in Calls |-> Nobody]
    /\ executed = <<>>

-----------------------------------------------------------------------------
(***************************************************************************)
(* The process executes one frame after the other.  What it was told and   *)
(* has not read is lost with it; what it has written can still be read.    *)
(* One that outlived its client executes what is left in the pipe.         *)
(***************************************************************************)
Alive(g) == process[g] \in {"running", "hung", "muted"}

Killed(g) == [process EXCEPT ![g] = IF Alive(g) THEN "dead" ELSE @]

\* Kill: SIGKILL to the process group of this client.  Its callers ignore an error.
Kills(g) == process' = Killed(g) \/ (g \in Unkillable /\ process' = process)

Execute(g) ==
    /\ stdin[g] # <<>>
    /\ \E ok \in BOOLEAN :
         /\ working' = [working EXCEPT ![g] = [frame |-> Head(stdin[g]), ok |-> ok]]
         /\ executed' = IF ok THEN Append(executed, [on |-> g, call |-> Head(stdin[g]).call])
                              ELSE executed
    /\ stdin' = [stdin EXCEPT ![g] = Tail(@)]
    /\ UNCHANGED <<process, stdout, clientVars, callVars>>

\* The client closed its end of the pipe when it finished: a process that outlived
\* it reads what is left, and leaves.
EndOfInput(g) ==
    /\ stdin[g] = <<>> /\ done[g]
    /\ process' = [process EXCEPT ![g] = "exited"]
    /\ UNCHANGED <<stdin, working, stdout, clientVars, callVars, executed>>

\* The loop of the process waits for the next frame, or for the end of its input.
ReadsInput(g) ==
    /\ process[g] \in {"running", "muted"} /\ working[g] = Nobody
    /\ Execute(g) \/ EndOfInput(g)

\* The answer to a shutdown is the last one; the process may still fail to exit.
\* Nobody reads an answer once the client has finished.
AnswerFrame(g) ==
    /\ process[g] \in {"running", "muted"} /\ working[g] # Nobody
    /\ stdout' = [stdout EXCEPT ![g] =
         IF process[g] = "running" /\ ~done[g] THEN Append(@, working[g]) ELSE @]
    /\ working' = [working EXCEPT ![g] = Nobody]
    /\ IF working[g].ok /\ working[g].frame.call \in Stops
       THEN \E end \in {"exited", "dead", "hung"} :
              /\ end = "dead" => Fault("crash")
              /\ end = "hung" => Fault("hang")
              /\ process' = [process EXCEPT ![g] = end]
       ELSE UNCHANGED process
    /\ UNCHANGED <<stdin, clientVars, callVars, executed>>

ProcessFails(g) ==
    /\ process[g] = "running"
    /\ \/ Fault("crash") /\ process' = [process EXCEPT ![g] = "dead"] /\ UNCHANGED stdout
       \/ Fault("hang") /\ process' = [process EXCEPT ![g] = "hung"] /\ UNCHANGED stdout
       \/ Fault("mute") /\ process' = [process EXCEPT ![g] = "muted"] /\ UNCHANGED stdout
       \/ /\ Fault("garble") /\ ~done[g]
          /\ Garbled \notin {stdout[g][n] : n \in DOMAIN stdout[g]}
          /\ stdout' = [stdout EXCEPT ![g] = Append(@, Garbled)] /\ UNCHANGED process
    /\ UNCHANGED <<stdin, working, clientVars, callVars, executed>>

-----------------------------------------------------------------------------
(***************************************************************************)
(* The writer and the reader of a client.                                  *)
(***************************************************************************)
ReservedIDs(g) == {f.id : f \in pending[g]}

Unreserved(g, f) == [pending EXCEPT ![g] = @ \ {f}]

Report(g, c, what) == written' = [written EXCEPT ![g][c] = what]

\* writeLoop takes up a frame: a request nobody waits for is not written.
WriteStarts(g) ==
    /\ writer[g].step = "holding"
    /\ LET f == writer[g].frame IN
       \/ /\ ctx[f.call] # "live"
          /\ writer' = [writer EXCEPT ![g] = Idle]
          /\ pending' = Unreserved(g, f)
          /\ Report(g, f.call, "discarded")
       \/ /\ ctx[f.call] = "live"
          /\ writer' = [writer EXCEPT ![g] = [step |-> "writing", frame |-> f]]
          /\ Report(g, f.call, "started")
          /\ UNCHANGED pending
    /\ UNCHANGED <<processVars, done, nextID, expectedExit, ctx, at, on, id,
                   answer, result, executed>>

\* The process reads what its client writes.
Serving(g) == Alive(g) /\ ~done[g]

\* The write blocks while the pipe is full, and fails once the process is gone or
\* the client finished and closed its end of the pipe.
WriteEnds(g) ==
    /\ writer[g].step = "writing"
    /\ \/ /\ Serving(g) /\ Len(stdin[g]) < PipeFrames
          /\ stdin' = [stdin EXCEPT ![g] = Append(@, writer[g].frame)]
          /\ writer' = [writer EXCEPT ![g] = Idle]
          /\ Report(g, writer[g].frame.call, "ok")
          /\ UNCHANGED process
       \/ /\ ~Serving(g)
          /\ writer' = [writer EXCEPT ![g] = Stopped]
          /\ Report(g, writer[g].frame.call, "failed")
          /\ Kills(g)
          /\ UNCHANGED stdin
    /\ UNCHANGED <<working, stdout, done, pending, nextID, expectedExit,
                   ctx, at, on, id, answer, result, executed>>

WriterStops(g) ==
    /\ writer[g] = Idle /\ done[g]
    /\ writer' = [writer EXCEPT ![g] = Stopped]
    /\ UNCHANGED <<processVars, done, pending, nextID, expectedExit, callVars, executed>>

\* finish, after failRead or finishEOF killed what was left of the process, or
\* tried to: then the process still has what was written to it.
Finishes(g) ==
    /\ \/ /\ process' = Killed(g)
          /\ stdin' = [stdin EXCEPT ![g] = <<>>]
          /\ working' = [working EXCEPT ![g] = Nobody]
       \/ /\ g \in Unkillable /\ Alive(g)
          /\ UNCHANGED <<process, stdin, working>>
    /\ stdout' = [stdout EXCEPT ![g] = <<>>]
    /\ done' = [done EXCEPT ![g] = TRUE]
    /\ pending' = [pending EXCEPT ![g] = {}]

\* readLoop, one answer: the call that reserved its ID gets it; an answer that
\* nobody reserved, or none at all, ends the process.
Deliver(g) ==
    /\ ~done[g] /\ stdout[g] # <<>>
    /\ LET got == Head(stdout[g]) IN
       \/ \E f \in pending[g] :
            /\ f.id = got.frame.id
            /\ pending' = Unreserved(g, f)
            /\ answer' = [answer EXCEPT ![f.call] = got]
            /\ stdout' = [stdout EXCEPT ![g] = Tail(@)]
            /\ UNCHANGED <<process, stdin, working, done>>
       \/ /\ got.frame.id \notin ReservedIDs(g)
          /\ Finishes(g)
          /\ UNCHANGED answer
    /\ UNCHANGED <<writer, nextID, expectedExit,
                   ctx, at, on, id, written, result, executed>>

EndOfOutput(g) ==
    /\ ~done[g] /\ stdout[g] = <<>> /\ process[g] \in {"exited", "dead", "muted"}
    /\ Finishes(g)
    /\ UNCHANGED <<writer, nextID, expectedExit, callVars, executed>>

-----------------------------------------------------------------------------
(***************************************************************************)
(* Call.                                                                   *)
(***************************************************************************)
Ends(c, r) ==
    /\ at' = [at EXCEPT ![c] = "ended"]
    /\ result' = [result EXCEPT ![c] = r]

Live(c) == ctx[c] = "live"

ContextEnds(c) ==
    /\ Live(c) /\ c \in Impatient
    /\ \E how \in {"canceled", "expired"} : Fault(how) /\ ctx' = [ctx EXCEPT ![c] = how]
    /\ UNCHANGED <<processVars, clientVars, at, on, id, written, answer, result, executed>>

\* The first generated ID nobody has reserved.
FreshID(g) ==
    CHOOSE n \in nextID[g] + 1 .. nextID[g] + Cardinality(pending[g]) + 1 :
      /\ n \notin ReservedIDs(g)
      /\ \A k \in nextID[g] + 1 .. n - 1 : k \in ReservedIDs(g)

\* A call of client g starts: it reserves an ID unless it ended already, the
\* process is known to be gone, or another request has the ID.
Register(c, g) ==
    LET n == IF GivenID[c] # 0 THEN GivenID[c] ELSE FreshID(g) IN
    /\ on' = [on EXCEPT ![c] = g]
    /\ answer' = [answer EXCEPT ![c] = Nobody]
    /\ \/ /\ ~Live(c) /\ Ends(c, "not_dispatched")
          /\ UNCHANGED <<id, pending, nextID>>
       \/ /\ Live(c) /\ done[g] /\ Ends(c, "gone")
          /\ UNCHANGED <<id, pending, nextID>>
       \/ /\ Live(c) /\ ~done[g] /\ n \in ReservedIDs(g) /\ Ends(c, "duplicate")
          /\ UNCHANGED <<id, pending, nextID>>
       \/ /\ Live(c) /\ ~done[g] /\ n \notin ReservedIDs(g)
          /\ id' = [id EXCEPT ![c] = n]
          /\ pending' = [pending EXCEPT ![g] = @ \cup {[id |-> n, call |-> c]}]
          /\ nextID' = [nextID EXCEPT ![g] = IF GivenID[c] = 0 THEN n ELSE @]
          /\ at' = [at EXCEPT ![c] = "handing"]
          /\ UNCHANGED result
    /\ UNCHANGED <<processVars, done, writer, expectedExit, ctx, written, executed>>

FrameOf(c) == [id |-> id[c], call |-> c]

\* The frame is handed to the writer, or the call ends before.
Hand(c) ==
    LET g == on[c] IN
    /\ at[c] = "handing"
    /\ \/ /\ writer[g] = Idle
          /\ writer' = [writer EXCEPT ![g] = [step |-> "holding", frame |-> FrameOf(c)]]
          /\ at' = [at EXCEPT ![c] = "writing"]
          /\ UNCHANGED <<pending, result>>
       \/ /\ ~Live(c) /\ Ends(c, "not_dispatched")
          /\ pending' = Unreserved(g, FrameOf(c))
          /\ UNCHANGED writer
       \/ /\ done[g] /\ Ends(c, "gone")
          /\ UNCHANGED <<writer, pending>>
    /\ UNCHANGED <<processVars, done, nextID, expectedExit, ctx, on, id, written,
                   answer, executed>>

\* Slip: a call that gives up takes its ID back, although it was sent.
GiveUpUnreserved(c) ==
    /\ Ends(c, ctx[c])
    /\ IF c \in Inferences THEN Kills(on[c]) ELSE UNCHANGED process
    /\ pending' = Unreserved(on[c], FrameOf(c))

\* Slip: the process goes on with an inference nobody waits for.
GiveUpQuietly(c) ==
    /\ Ends(c, ctx[c])
    /\ UNCHANGED <<process, pending>>

\* A call that was sent gives up; an inference takes the process with it.  The ID
\* stays reserved.
GiveUp(c) ==
    /\ Ends(c, ctx[c])
    /\ IF c \in Inferences THEN Kills(on[c]) ELSE UNCHANGED process
    /\ UNCHANGED pending

\* The write is awaited; the context or the process may end first.
AwaitWrite(c) ==
    LET what == written[on[c]][c] IN
    /\ at[c] = "writing"
    /\ \/ /\ what = "ok" /\ at' = [at EXCEPT ![c] = "awaiting"]
          /\ UNCHANGED result
       \/ what = "failed" /\ Ends(c, "write_failed")
       \/ what = "discarded" /\ Ends(c, "not_dispatched")
       \/ done[on[c]] /\ Ends(c, "gone")
       \/ /\ ~Live(c) /\ at' = [at EXCEPT ![c] = "leaving"]
          /\ UNCHANGED result
    /\ UNCHANGED <<processVars, clientVars, ctx, on, id, written, answer, executed>>

\* Slip: a call that leaves waits for the write to end.
LeaveAfterWrite(c) ==
    LET what == written[on[c]][c] IN
    /\ at[c] = "leaving"
    /\ \/ what = "failed" /\ Ends(c, "write_failed") /\ UNCHANGED <<process, pending>>
       \/ what = "discarded" /\ Ends(c, "not_dispatched") /\ UNCHANGED <<process, pending>>
       \/ what = "ok" /\ GiveUp(c)
       \/ done[on[c]] /\ Ends(c, "gone") /\ UNCHANGED <<process, pending>>
    /\ UNCHANGED <<stdin, working, stdout, done, writer, nextID, expectedExit,
                   ctx, on, id, written, answer, executed>>

\* Slip: a call that leaves does not ask whether it was sent.
LeaveAtOnce(c) ==
    /\ at[c] = "leaving" /\ Ends(c, "not_dispatched")
    /\ UNCHANGED <<processVars, clientVars, ctx, on, id, written, answer, executed>>

\* The context ended while the writer had the frame: whether it was sent is
\* known when the writer takes it up.  A failed write was also started.
Leave(c) ==
    LET what == written[on[c]][c] IN
    /\ at[c] = "leaving"
    /\ \/ what = "failed" /\ Ends(c, "write_failed") /\ UNCHANGED <<process, pending>>
       \/ what = "discarded" /\ Ends(c, "not_dispatched") /\ UNCHANGED <<process, pending>>
       \/ what \in {"started", "ok", "failed"} /\ GiveUp(c)
       \/ done[on[c]] /\ Ends(c, "gone") /\ UNCHANGED <<process, pending>>
    /\ UNCHANGED <<stdin, working, stdout, done, writer, nextID, expectedExit,
                   ctx, on, id, written, answer, executed>>

\* The answer is awaited.  One that arrives with the end of the context is not
\* used, one that arrives with the end of the process is.
AwaitAnswer(c) ==
    /\ at[c] = "awaiting"
    /\ \/ /\ answer[c] # Nobody /\ Live(c)
          /\ \/ /\ answer[c].ok /\ c \in Stops
                /\ at' = [at EXCEPT ![c] = "exiting"]
                /\ expectedExit' = [expectedExit EXCEPT ![on[c]] = TRUE]
                /\ UNCHANGED result
             \/ /\ answer[c].ok /\ c \notin Stops
                /\ Ends(c, "ok") /\ UNCHANGED expectedExit
             \/ ~answer[c].ok /\ Ends(c, "rejected") /\ UNCHANGED expectedExit
          /\ UNCHANGED <<process, pending>>
       \/ ~Live(c) /\ GiveUp(c) /\ UNCHANGED expectedExit
       \/ /\ done[on[c]] /\ answer[c] = Nobody
          /\ Ends(c, "gone") /\ UNCHANGED <<process, pending, expectedExit>>
    /\ UNCHANGED <<stdin, working, stdout, done, writer, nextID,
                   ctx, on, id, written, answer, executed>>

\* Shutdown, after the answer: the process is awaited, and its status examined.
AwaitExit(c) ==
    /\ at[c] = "exiting"
    /\ \/ done[on[c]] /\ Ends(c, IF process[on[c]] = "exited" THEN "ok" ELSE "gone")
       \/ ~Live(c) /\ Ends(c, ctx[c])
    /\ UNCHANGED <<processVars, clientVars, ctx, on, id, written, answer, executed>>

-----------------------------------------------------------------------------
Reader(g) == Deliver(g) \/ EndOfOutput(g)
Writer(g) == WriteStarts(g) \/ WriteEnds(g) \/ WriterStops(g)
Process(g) == ReadsInput(g) \/ AnswerFrame(g)

\* What a call in progress does.
CallStep(c) ==
    Hand(c) \/ AwaitWrite(c) \/ Leave(c) \/ AwaitAnswer(c) \/ AwaitExit(c)

\* What goes on without callers.
Machine == \E g \in Clients : Reader(g) \/ Writer(g) \/ Process(g) \/ ProcessFails(g)

-----------------------------------------------------------------------------
(***************************************************************************)
(* Properties.                                                             *)
(***************************************************************************)
Executions(c) == Cardinality({n \in DOMAIN executed : executed[n].call = c})

\* What no process executed, and none will.
Unsent(c) ==
    /\ Executions(c) = 0
    /\ \A g \in Clients :
         /\ \A n \in DOMAIN stdin[g] : stdin[g][n].call # c
         /\ writer[g].step \in {"holding", "writing"} => writer[g].frame.call # c

\* "Not dispatched" is a promise: the frame is nowhere, although the writer may
\* have had it when the context ended.
NotDispatchedMeansNever ==
    \A c \in Calls : result[c] \in {"not_dispatched", "duplicate"} => Unsent(c)

\* The answer a call returns is the answer to its own request, although a request
\* that was given up shares the pipe and may have been given its ID by its caller.
AnswerIsOwn ==
    \A c \in Calls : answer[c] # Nobody => answer[c].frame.call = c

\* A caller that gives up never costs the worker: every answer on its way finds
\* its ID reserved (docs/persistent-worker-protocol.md:166-169).
AnswersExpected ==
    \A g \in Clients : ~done[g] =>
      /\ \A n \in DOMAIN stdin[g] : stdin[g][n] \in pending[g]
      /\ working[g] # Nobody => working[g].frame \in pending[g]
      /\ \A n \in DOMAIN stdout[g] :
           stdout[g][n] # Garbled => stdout[g][n].frame \in pending[g]

\* After an inference was given up its process executes nothing more, whatever
\* waits in its pipe: no caller meets the state the inference may have left
\* behind (docs/persistent-worker-protocol.md:169-171).  Stated where kills
\* succeed: the client ignores a kill that fails.
InferenceNeverOutlived ==
    \A c \in Inferences : result[c] \in {"canceled", "expired"} => ~Alive(on[c])
=============================================================================
