---------------------------- MODULE ServedChild -----------------------------
(***************************************************************************)
(* A child of a benchmark cell from inside, for the adapters that measure  *)
(* a server (Benchmark/infer_sglang_spec.py): the server has a process     *)
(* group of its own, which the runner (_await_child and _kill_child_group  *)
(* of run_longbench_200.py) does not know.  When the runner's time is up   *)
(* it sends the adapter a SIGTERM, waits, and sends a SIGKILL; the adapter *)
(* stops its server in the same way.                                       *)
(*                                                                         *)
(* Only the waits take time, counted in ticks.  A SIGKILL ends a process   *)
(* at once.                                                                *)
(*                                                                         *)
(* An operator A_Change is action or operator A with a plausible mistake   *)
(* in it, to show that a property would notice; no action uses one.        *)
(***************************************************************************)
EXTENDS Integers

CONSTANTS
    ServerPhases,   \* servers a child starts one after the other, at most
    Grace,          \* ticks from the runner's SIGTERM to its SIGKILL
    TermWait        \* ticks from the adapter's SIGTERM to its SIGKILL

\* 30 and 20 seconds
ASSUME GraceAssumption ==
    /\ ServerPhases \in Nat \ {0}
    /\ Grace \in Nat /\ TermWait \in Nat /\ TermWait < Grace

VARIABLES
    runner,    \* "wait", "grace" after the SIGTERM, or "returned"
    adapter,   \* where the adapter is
    phasesLeft,
    deferred,  \* termination_requested
    leaving,   \* an exception is on its way out of the adapter
    server,    \* processes of the server's group
    waited,    \* ticks the adapter has waited for the server to end
    elapsed,   \* ticks since the runner's SIGTERM
    lost       \* the adapter was killed by somebody else

servedVars ==
    <<runner, adapter, phasesLeft, deferred, leaving, server, waited, elapsed, lost>>

ServedInit ==
    /\ runner = "wait" /\ adapter = "outside"
    /\ phasesLeft \in 1 .. ServerPhases
    /\ deferred = FALSE /\ leaving = FALSE /\ server = {}
    /\ waited = 0 /\ elapsed = 0 /\ lost = FALSE

AdapterAt(label) == adapter' = label

----------------------------------------------------------------------------
(* _run_server_phase: a target-only server for reference timings, if they  *)
(* are not in a file, and the server of the method.                        *)

\* The handler of SIGTERM is installed before the server is started.
EnterPhase ==
    /\ adapter = "outside" /\ phasesLeft > 0
    /\ AdapterAt("popen")
    /\ UNCHANGED <<runner, phasesLeft, deferred, leaving, server, waited, elapsed, lost>>

\* subprocess.Popen has created the server, and has not returned.
Fork ==
    /\ adapter = "popen"
    /\ AdapterAt("forked") /\ server' = {"leader"}
    /\ UNCHANGED <<runner, phasesLeft, deferred, leaving, waited, elapsed, lost>>

PopenRaises ==
    /\ adapter = "popen"
    /\ AdapterAt("ended")
    /\ UNCHANGED <<runner, phasesLeft, deferred, leaving, server, waited, elapsed, lost>>

StopServer(exception) ==
    /\ AdapterAt("stopping") /\ waited' = 0
    /\ leaving' = exception

\* Popen returns; a SIGTERM that came before is obeyed now.
PopenReturns ==
    /\ adapter = "forked"
    /\ IF deferred THEN StopServer(TRUE) ELSE AdapterAt("starting") /\ UNCHANGED <<waited, leaving>>
    /\ UNCHANGED <<runner, phasesLeft, deferred, server, elapsed, lost>>

\* _wait_ready raises when the server has exited or takes too long.
WaitReady ==
    /\ adapter = "starting"
    /\ \/ "leader" \in server /\ AdapterAt("requests") /\ UNCHANGED <<waited, leaving>>
       \/ StopServer(TRUE)
    /\ UNCHANGED <<runner, phasesLeft, deferred, server, elapsed, lost>>

\* The requests are answered, or one of them raises.
RequestsEnd ==
    /\ adapter = "requests"
    /\ \E exception \in BOOLEAN : StopServer(exception)
    /\ UNCHANGED <<runner, phasesLeft, deferred, server, elapsed, lost>>

\* _stop_process_group returns when no process of the group is left, or has
\* killed what is left; the handler is restored, or an exception goes on.
ServerStopped ==
    /\ adapter = "stopping"
    /\ server = {} \/ waited = TermWait
    /\ server' = {} /\ waited' = 0
    /\ IF leaving THEN AdapterAt("unwinding") /\ UNCHANGED phasesLeft
       ELSE AdapterAt("outside") /\ phasesLeft' = phasesLeft - 1
    /\ UNCHANGED <<runner, deferred, leaving, elapsed, lost>>

\* An exception leaves the executor after the requests that were submitted
\* have failed as well.
Unwound ==
    /\ adapter = "unwinding"
    /\ AdapterAt("ended")
    /\ UNCHANGED <<runner, phasesLeft, deferred, leaving, server, waited, elapsed, lost>>

\* The rows are written when no server is up any more.
WriteRows ==
    /\ adapter = "outside" /\ phasesLeft = 0
    /\ AdapterAt("ended")
    /\ UNCHANGED <<runner, phasesLeft, deferred, leaving, server, waited, elapsed, lost>>

----------------------------------------------------------------------------
\* The server starts its workers; any of its processes may end at any time,
\* also the leader before its workers, and does or does not obey a SIGTERM.
ServerMoves ==
    /\ \/ "leader" \in server /\ server' = server \cup {"worker"}
       \/ \E p \in server : server' = server \ {p}
    /\ UNCHANGED <<runner, adapter, phasesLeft, deferred, leaving, waited, elapsed, lost>>

\* The adapter is killed by somebody else; nobody stops its server.
Lose ==
    /\ adapter # "ended"
    /\ AdapterAt("ended") /\ lost' = TRUE
    /\ UNCHANGED <<runner, phasesLeft, deferred, leaving, server, waited, elapsed>>

----------------------------------------------------------------------------
(* _await_child and _kill_child_group. *)

\* What a SIGTERM does to the adapter: outside of a phase it is its end; while
\* Popen runs it is noted; else the handler stops the server and raises.  When
\* an exception unwinds, the handler may or may not be restored already.
Terminated_NotDeferred ==
    \/ adapter \in {"outside", "popen", "forked", "unwinding"}
       /\ AdapterAt("ended") /\ UNCHANGED <<deferred, waited, leaving>>
    \/ adapter \in {"starting", "requests", "stopping", "unwinding"}
       /\ StopServer(TRUE) /\ UNCHANGED deferred

Terminated ==
    \/ adapter \in {"outside", "unwinding"}
       /\ AdapterAt("ended") /\ UNCHANGED <<deferred, waited, leaving>>
    \/ adapter \in {"popen", "forked"}
       /\ deferred' = TRUE /\ UNCHANGED <<adapter, waited, leaving>>
    \/ adapter \in {"starting", "requests", "stopping", "unwinding"}
       /\ StopServer(TRUE) /\ UNCHANGED deferred

TimeUp ==
    /\ runner = "wait" /\ adapter # "ended"
    /\ runner' = "grace" /\ elapsed' = 0
    /\ Terminated
    /\ UNCHANGED <<phasesLeft, server, lost>>

ChildEnded ==
    /\ runner \in {"wait", "grace"} /\ adapter = "ended"
    /\ runner' = "returned"
    /\ UNCHANGED <<adapter, phasesLeft, deferred, leaving, server, waited, elapsed, lost>>

KillChild ==
    /\ runner = "grace" /\ elapsed = Grace /\ adapter # "ended"
    /\ runner' = "returned" /\ AdapterAt("ended")
    /\ UNCHANGED <<phasesLeft, deferred, leaving, server, waited, elapsed, lost>>

Tick ==
    /\ \/ adapter = "stopping" /\ server # {} /\ waited < TermWait /\ waited' = waited + 1
       \/ adapter = "unwinding" /\ runner = "grace" /\ UNCHANGED waited
    /\ IF runner = "grace" THEN elapsed < Grace /\ elapsed' = elapsed + 1
       ELSE UNCHANGED elapsed
    /\ UNCHANGED <<runner, adapter, phasesLeft, deferred, leaving, server, lost>>

ServedNext ==
    \/ EnterPhase \/ Fork \/ PopenRaises \/ PopenReturns \/ WaitReady \/ RequestsEnd
    \/ ServerStopped \/ Unwound \/ WriteRows \/ ServerMoves \/ Lose
    \/ TimeUp \/ ChildEnded \/ KillChild \/ Tick

ServedSpec == ServedInit /\ [][ServedNext]_servedVars

----------------------------------------------------------------------------
\* When the runner goes on after a child, whether it was given up or ended by
\* itself, nothing of the child's server is left on the GPU ("so a timeout
\* cannot leave GPU work running after the cell ends", run_longbench_200.py:
\* 669-671): not when the SIGTERM comes while the server is being created, nor
\* when the server does not obey one.
NothingLeft == runner = "returned" /\ ~lost => server = {}
=============================================================================
