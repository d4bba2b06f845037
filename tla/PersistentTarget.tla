-------------------------- MODULE PersistentTarget --------------------------
(***************************************************************************)
(* A client that is used directly (src/internal/workerproc/target.go):     *)
(* concurrent callers, and an owner that shuts the worker down after them. *)
(***************************************************************************)
EXTENDS PersistentClient

vars == workerVars

Init == ClientInit

TypeOK == ClientTypeOK

\* Clean-up is deferred by the owner: it comes after the other calls, which may
\* have been given up.
Call(c) ==
    /\ at[c] = "idle"
    /\ c \in Stops => \A d \in Calls \ Stops : at[d] = "ended"
    /\ Register(c, 1)

\* Cleanup kills the process if its Shutdown failed.
CleanupKills(c) ==
    /\ c \in Stops /\ at[c] = "ended" /\ result[c] # "ok" /\ Alive(on[c])
    /\ Kills(on[c])
    /\ UNCHANGED <<stdin, working, stdout, clientVars, callVars, executed>>

Next ==
    \/ Machine
    \/ \E c \in Calls :
         \/ Call(c)
         \/ CallStep(c)
         \/ CleanupKills(c)
         \/ at[c] # "ended" /\ ContextEnds(c)

Spec == Init /\ [][Next]_vars

\* Goroutines run, and a process that neither hangs nor died works.  Nothing is
\* assumed of contexts, or of calls being made.
FairSpec ==
    /\ Spec
    /\ \A c \in Calls : WF_vars(CallStep(c))
    /\ \A g \in Clients : /\ WF_vars(Reader(g)) /\ WF_vars(Writer(g))
                          /\ WF_vars(Process(g))

-----------------------------------------------------------------------------
\* Every call returns once its context has ended, wherever it is stuck: behind a
\* full pipe, a hung process or another call.
CallsReturn ==
    \A c \in Calls : at[c] # "idle" /\ ~Live(c) ~> at[c] = "ended"
=============================================================================
