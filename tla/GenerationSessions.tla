------------------------- MODULE GenerationSessions -------------------------
(***************************************************************************)
(* Planned generation over the shard workers of a plan, one stage on each  *)
(* shard (src/internal/generation/planned_session.go and                   *)
(* execution_runtime.go): a session makes sure its shards are loaded, opens *)
(* its sequence on every stage under a private owner, sends a prefill and   *)
(* then one decode for every token through the chain of stages, and closes  *)
(* what it opened (src/internal/workerproc/sequence.go).                   *)
(*                                                                         *)
(* Sessions run concurrently on the same shards and may use the same        *)
(* public sequence ID.  A caller waits for one answer at a time and may     *)
(* give up; its request then gets lost or is still served.  Workers end and *)
(* start again empty.  What a session does between an answer and its next   *)
(* request is local and one step.  Timing, metrics, failure records, text,  *)
(* and the optional reference worker are left out; model metadata agrees or *)
(* the session does not start.                                              *)
(***************************************************************************)
EXTENDS ShardWorker, SequencesExt

CONSTANTS
    Sessions,      \* sessions; each is also the owner of its sequences
    Prompt,        \* the prompt's tokens, of every session
    Sample(_),     \* greedyToken: of what the last stage computed
    Sampling,      \* stages whose worker samples: it returns the token alone
    MaxTokens,     \* tokens of a request
    Reordered,     \* whether a worker may serve a later request first
    NoReply,       \* no answer yet
    MaxFaults,     \* bound: calls given up
    MaxRestarts    \* bound: worker processes that end

ASSUME SessionAssumption ==
    /\ Shards = 1..Cardinality(Shards) /\ Shards # {}
    /\ Owners = Sessions
    /\ Prompt \in [Sessions -> Seq(Tokens) \ {<<>>}]
    /\ MaxTokens \in Nat \ {0}
    /\ Sampling \subseteq OutputShards
    /\ Reordered \in BOOLEAN
    /\ {MaxFaults, MaxRestarts} \subseteq Nat

VARIABLES
    session,     \* [session]: its local state
    reply,       \* [session]: the answer it has not acted on
    inbox,       \* [worker]: requests on their way or waiting
    name,        \* [session]: its public sequence ID
    faults,      \* calls given up and loads that failed
    restarts     \* worker processes that ended

sessionVars == <<session, reply, name>>
vars == <<serviceVars, sessionVars, inbox, faults, restarts>>

LastStage == Cardinality(Shards)

NewSession ==
    [pc |-> "new", stage |-> 1, tokens |-> <<>>, input |-> <<>>, position |-> 0,
     opened |-> <<>>, closing |-> 0, ok |-> TRUE, confirmed |-> TRUE,
     unanswered |-> FALSE]

Init ==
    /\ ServiceInit
    /\ session = [s \in Sessions |-> NewSession]
    /\ reply = [s \in Sessions |-> NoReply]
    /\ inbox = [worker \in Workers |-> <<>>]
    /\ name \in [Sessions -> SequenceIDs]
    /\ faults = 0 /\ restarts = 0

----------------------------------------------------------------------------
\* Calls

\* The session moves to state local and calls a stage's worker.
Call(s, local, command, stage, mutation) ==
    /\ session' = [session EXCEPT ![s] = local]
    /\ reply' = [reply EXCEPT ![s] = NoReply]
    /\ inbox' = [inbox EXCEPT ![Host[stage]] =
                   Append(@, [from |-> s, command |-> command, stage |-> stage,
                              mutation |-> mutation, live |-> TRUE])]
    /\ UNCHANGED <<serviceVars, name, faults, restarts>>

\* The session moves without a call.
Move(s, local) ==
    /\ session' = [session EXCEPT ![s] = local]
    /\ reply' = [reply EXCEPT ![s] = NoReply]
    /\ UNCHANGED <<serviceVars, inbox, name, faults, restarts>>

\* One request handled by the worker process.
Handle(request, status) ==
    LET shard == request.stage
        id == name[request.from]
        owner == request.from
    IN \/ request.command = "state" /\ status = "ok" /\ UNCHANGED serviceVars
       \/ request.command = "load" /\ LoadShard(shard, status)
       \/ request.command = "tokenize" /\ UseTokenizer(shard, status)
       \/ request.command = "open" /\ OpenSequence(shard, id, owner, status)
       \/ request.command = "close" /\ CloseSequence(shard, id, owner, status)
       \/ request.command = "forward" /\ Mutate(shard, id, request.mutation, status)

\* What the answer carries: whether the worker's state lists the shard, and
\* what the stage computed.
Answer(request, status) ==
    [status |-> status,
     found |-> request.command = "state" /\ request.stage \in loaded,
     content |-> IF request.command = "forward" /\ status = "ok"
                 THEN sequences'[request.stage][name[request.from]].completed.content
                 ELSE <<>>]

Serve(worker, index) ==
    LET request == inbox[worker][index]
    IN /\ index = 1 \/ Reordered
       /\ inbox' = [inbox EXCEPT ![worker] = RemoveAt(@, index)]
       /\ \E status \in Statuses :
            /\ Handle(request, status)
            /\ reply' = IF request.live
                        THEN [reply EXCEPT ![request.from] = Answer(request, status)]
                        ELSE reply
            /\ faults' = IF request.command = "load" /\ status = "refused"
                            /\ request.stage \notin loaded
                         THEN faults + 1 ELSE faults
       /\ UNCHANGED <<session, name, restarts>>

\* A timeout, a cancelled context or a broken connection: the caller knows
\* nothing of its request, which is lost or still under way.
GiveUp(worker, index) ==
    LET request == inbox[worker][index]
    IN /\ request.live /\ faults < MaxFaults
       /\ \/ inbox' = [inbox EXCEPT ![worker] = RemoveAt(@, index)]
          \/ inbox' = [inbox EXCEPT ![worker][index].live = FALSE]
       /\ reply' = [reply EXCEPT ![request.from] =
                      [status |-> "failed", found |-> FALSE, content |-> <<>>]]
       /\ faults' = faults + 1
       /\ UNCHANGED <<serviceVars, session, name, restarts>>

Restart(worker) ==
    /\ restarts < MaxRestarts
    /\ EndProcess(worker)
    /\ restarts' = restarts + 1
    /\ UNCHANGED <<sessionVars, inbox, faults>>

----------------------------------------------------------------------------
\* NewPlannedSession

At(s, pc) == session[s].pc = pc /\ reply[s] # NoReply
Status(s) == reply[s].status

SetupFails(s) == Move(s, [session[s] EXCEPT !.pc = "failed", !.ok = FALSE])

\* findLoadedShard: the state lists the shard under its ID, which names its
\* model and its layers.
Found(s) == reply[s].found

Tokenize(s) ==
    Call(s, [session[s] EXCEPT !.pc = "tokenize", !.stage = 1], "tokenize", 1, NoMutation)

Detokenize(s, local) ==
    Call(s, [local EXCEPT !.pc = "detokenize", !.stage = 1], "tokenize", 1, NoMutation)

\* ensureShard of a stage starts with the worker's state.
ReadState(s, stage) ==
    Call(s, [session[s] EXCEPT !.pc = "state", !.stage = stage], "state", stage, NoMutation)

\* The preflight found the model of the plan on every worker.
Start(s) == session[s].pc = "new" /\ ReadState(s, 1)

\* The next stage is loaded, or Generate tokenizes the prompt.
StageReady(s) ==
    IF session[s].stage < LastStage THEN ReadState(s, session[s].stage + 1)
    ELSE Tokenize(s)

StateRead(s) ==
    /\ At(s, "state")
    /\ \/ Status(s) # "ok" /\ SetupFails(s)
       \/ Status(s) = "ok" /\ Found(s) /\ StageReady(s)
       \/ /\ Status(s) = "ok" /\ ~Found(s)
          /\ Call(s, [session[s] EXCEPT !.pc = "load"], "load", session[s].stage, NoMutation)

\* A rejection is taken for a failure.
LoadRejectedFails(s) == SetupFails(s)

\* A rejection may mean that a concurrent session loaded the shard.
LoadRejected(s) ==
    Call(s, [session[s] EXCEPT !.pc = "recheck"], "state", session[s].stage, NoMutation)

ShardLoaded(s) ==
    /\ At(s, "load")
    /\ \/ Status(s) = "ok" /\ StageReady(s)
       \/ Status(s) = "refused" /\ LoadRejected(s)
       \/ Status(s) = "failed" /\ SetupFails(s)

Rechecked(s) ==
    /\ At(s, "recheck")
    /\ IF Status(s) = "ok" /\ Found(s) THEN StageReady(s) ELSE SetupFails(s)

----------------------------------------------------------------------------
\* SequenceSet

OpenStage(s, stage) ==
    Call(s, [session[s] EXCEPT !.pc = "open", !.stage = stage, !.confirmed = FALSE,
                               !.tokens = Prompt[s]],
         "open", stage, NoMutation)

Tokenized(s) ==
    /\ At(s, "tokenize")
    /\ IF Status(s) = "ok" THEN OpenStage(s, 1)
       ELSE Move(s, [session[s] EXCEPT !.pc = "done", !.ok = FALSE])

\* A transport failure is taken for an open that did not happen.
MayHaveOpenedIfAnswered(status) == status = "ok"

\* A rejection is definitive; after a transport failure the worker may have
\* opened the sequence, or still do so.
MayHaveOpened(status) == status \in {"ok", "failed"}

\* Nothing but a close counts as released.
ReleasedIfClosed(status) == status = "ok"

\* closeSequence: a restarted worker has released the shard and its sequences.
Released(status) == status \in {"ok", "notOpen", "notLoaded"}

CloseStage(s, local, index) ==
    Call(s, [local EXCEPT !.closing = index], "close", local.opened[index], NoMutation)

\* closeUsing is through.  A failed rollback returns the set with what it could
\* not close, and Generate cleans that up once more.
Closing(s, local, index) ==
    \/ index > 0 /\ CloseStage(s, local, index)
    \/ /\ index = 0 /\ local.pc = "rollback" /\ local.opened # <<>>
       /\ CloseStage(s, [local EXCEPT !.pc = "cleanup"], Len(local.opened))
    \/ /\ index = 0 /\ (local.pc = "rollback" => local.opened = <<>>)
       /\ Move(s, [local EXCEPT !.pc = "done", !.confirmed = (@ \/ local.opened = <<>>),
                                !.ok = @ /\ local.opened = <<>>])

\* closeUsing goes through the set from its end.
Close(s, local, pc) == Closing(s, [local EXCEPT !.pc = pc], Len(local.opened))

ClosedOne(s) ==
    /\ session[s].pc \in {"rollback", "cleanup"} /\ reply[s] # NoReply
    /\ LET index == session[s].closing
           remaining == [session[s] EXCEPT
                           !.opened = IF Released(Status(s)) THEN RemoveAt(@, index) ELSE @,
                           !.unanswered = @ \/ Status(s) = "failed"]
       IN Closing(s, remaining, index - 1)

----------------------------------------------------------------------------
\* Generate

Fail(s) == Close(s, [session[s] EXCEPT !.ok = FALSE], "cleanup")

\* A stage gets the tokens, whatever the stage before it computed.
StageInputTokens(s, content) == session[s].input

\* The hidden states a stage hands to the next, one for each position of the
\* request: a function of all the positions up to there.
StageInput(s, content) ==
    LET before == Len(content) - Len(session[s].input)
    IN [i \in 1..Len(session[s].input) |-> SubSeq(content, 1, before + i)]

Forward(s, local) ==
    Call(s, [local EXCEPT !.pc = "forward"], "forward", local.stage,
         [op |-> IF local.position = 0 THEN "prefill" ELSE "decode",
          position |-> local.position, input |-> local.input,
          sampled |-> local.stage \in Sampling])

Opened(s) ==
    /\ At(s, "open")
    /\ LET stage == session[s].stage
           local == [session[s] EXCEPT
                       !.opened = IF MayHaveOpened(Status(s)) THEN Append(@, stage) ELSE @]
       IN \/ Status(s) # "ok" /\ Close(s, [local EXCEPT !.ok = FALSE], "rollback")
          \/ /\ Status(s) = "ok" /\ stage < LastStage
             /\ Call(s, [local EXCEPT !.stage = stage + 1], "open", stage + 1, NoMutation)
          \/ /\ Status(s) = "ok" /\ stage = LastStage
             /\ Forward(s, [local EXCEPT !.stage = 1, !.input = local.tokens])

\* The token sampled from the last stage ends the generation or is decoded at
\* the next position.
Sampled(s) ==
    LET local == [session[s] EXCEPT !.tokens = Append(@, Sample(reply[s].content))]
    IN \/ Detokenize(s, local)
       \/ /\ Len(local.tokens) < Len(Prompt[s]) + MaxTokens
          /\ Forward(s, [local EXCEPT !.stage = 1, !.position = Len(session[s].tokens),
                                      !.input = <<Sample(reply[s].content)>>])

\* executeBoundStageChain, measuredInfer and the loop of Generate, whose context
\* may end between two tokens.
Forwarded(s) ==
    /\ At(s, "forward")
    /\ \/ Status(s) # "ok" /\ Fail(s)
       \/ /\ Status(s) = "ok" /\ session[s].stage < LastStage
          /\ Forward(s, [session[s] EXCEPT !.stage = @ + 1,
                                           !.input = StageInput(s, reply[s].content)])
       \/ Status(s) = "ok" /\ session[s].stage = LastStage /\ (Fail(s) \/ Sampled(s))

Detokenized(s) ==
    /\ At(s, "detokenize")
    /\ Close(s, [session[s] EXCEPT !.ok = (Status(s) = "ok")], "cleanup")

Proceed(s) ==
    \/ Start(s) \/ StateRead(s) \/ ShardLoaded(s) \/ Rechecked(s) \/ Tokenized(s)
    \/ Opened(s) \/ Forwarded(s) \/ Detokenized(s) \/ ClosedOne(s)

Next ==
    \/ \E s \in Sessions : Proceed(s)
    \/ \E worker \in Workers :
         \/ \E index \in DOMAIN inbox[worker] : Serve(worker, index) \/ GiveUp(worker, index)
         \/ Restart(worker)

Spec == Init /\ [][Next]_vars

----------------------------------------------------------------------------
\* Properties

Shared(s) == \E other \in Sessions \ {s} : name[other] = name[s]

\* A result that says its cleanup is confirmed leaves nothing behind: no worker
\* has a sequence of that session open then or ever after, whichever of its calls
\* were answered, lost or late (OpenSequences, closeUsing, closeSequence).
ConfirmedMeansReleased ==
    \A s \in Sessions : session[s].confirmed =>
       \A shard \in Shards, id \in SequenceIDs :
          IsOpen(shard, id) => sequences[shard][id].owner # s

\* The other way round: when every close was answered, cleanup is confirmed,
\* also of a worker that ended in between and knows neither shard nor sequence.
CleanupConfirmed ==
    \A s \in Sessions :
       session[s].pc = "done" /\ ~session[s].unanswered /\ ~Shared(s) => session[s].confirmed

\* A session that generates keeps its sequence on every stage, whatever the
\* sessions that use the same public ID open, roll back or clean up.
SequencesHeld ==
    \A s \in Sessions : session[s].pc \in {"forward", "detokenize"} /\ restarts = 0 =>
       \A stage \in Shards :
          /\ IsOpen(stage, name[s])
          /\ sequences[stage][name[s]].owner = s

\* Sessions that start at the same time load the same shards: without a fault
\* each finds them, whoever of them loaded them (ensureShard).
SetupSurvivesRace ==
    \A s \in Sessions : session[s].pc = "failed" => faults > 0 \/ restarts > 0

\* What the stages compute of a sequence of tokens, one stage after the other.
PrefixOfEach(seq) == [i \in 1..Len(seq) |-> SubSeq(seq, 1, i)]

Reference(tokens) ==
    LET stages[stage \in Shards] == IF stage = 1 THEN tokens ELSE PrefixOfEach(stages[stage - 1])
    IN stages

\* Every answer a session samples from or hands on is computed, at every stage,
\* from its own prompt and its own accepted tokens, in order, and from nothing of
\* another session.  Forward requests name no owner: a session that shares its
\* public ID with another is sure of this only while no worker restarts.
OwnTokens ==
    \A s \in Sessions :
       At(s, "forward") /\ Status(s) = "ok" /\ (restarts = 0 \/ ~Shared(s)) =>
          reply[s].content = Reference(session[s].tokens)[session[s].stage]
=============================================================================
