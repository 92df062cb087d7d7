--------------------------- MODULE DaemonLifetime ---------------------------
(***************************************************************************)
(* Daemon processes, the singleton lease, the socket path they meet their  *)
(* clients at, and the commands that start, stop and replace a daemon      *)
(* (crates/repin/src/daemon/server.rs and lease.rs, cli/client.rs).        *)
(*                                                                         *)
(* The accept loop, every connection thread and every command take a step  *)
(* for each shared thing they read or write, so two reads of one decision  *)
(* can be separated. Times are not modelled: a deadline may expire as soon *)
(* as it runs. Project contexts are one flag per daemon, their detail is   *)
(* ContextRegistry's.                                                      *)
(***************************************************************************)
EXTENDS Naturals, FiniteSets

CONSTANTS
    Daemons,     \* processes that may run `repin daemon`
    NoDaemon,    \* nobody holds the lease; nothing at the socket path
    Clients,     \* commands, each run once
    Jobs,        \* what they may be: "work", "stop" or "replace"
    LongIdle,    \* the detached interval outlasts a command's retries
    MaxFaults    \* bound: crashes and missed bootstrap deadlines in one behaviour

ASSUME DaemonAssumption ==
    /\ NoDaemon \notin Daemons
    /\ Jobs \subseteq {"work", "stop", "replace"}
    /\ LongIdle \in BOOLEAN
    /\ MaxFaults \in Nat

VARIABLES
    phase,     \* what each daemon process is doing
    lease,     \* who has daemon.lock locked
    socket,    \* whose listener daemon.sock names; it may be dead
    running,   \* DaemonServer::running
    version,   \* protocol the process speaks, that of its binary
    contexts,  \* the registry holds an active context
    activated, \* has_ever_activated
    thread,    \* a client's connection, as its daemon sees it
    pc,        \* where each command is
    job,       \* which command it is
    peer,      \* the daemon its stream is connected to
    spawned,   \* it has started its candidate
    faults

daemonVars == <<phase, lease, socket, running, version, contexts, activated, faults>>
clientVars == <<pc, job, peer, spawned>>
vars == <<phase, lease, socket, running, version, contexts, activated,
          thread, pc, job, peer, spawned, faults>>

Versions == {"old", "new"}

\* The accept loop is at "top", "idle" or "accept"; run_loop returns from
\* "draining"; at "released" main has dropped the server but the process,
\* and its connection threads, still run.
Loop == {"top", "idle", "accept"}
Listening == Loop \cup {"closing", "draining"}
InOffice == Listening \cup {"elected"}
Phases == InOffice \cup {"unborn", "starting", "released", "gone"}

ThreadSteps == {"none", "queued", "open", "asking", "negotiated", "bound"}
ClientSteps == {"start", "retrying", "waiting", "connected", "bound",
                "stopping", "handover", "successor", "done", "failed"}

TypeOK ==
    /\ phase \in [Daemons -> Phases]
    /\ lease \in Daemons \cup {NoDaemon}
    /\ socket \in Daemons \cup {NoDaemon}
    /\ running \in [Daemons -> BOOLEAN]
    /\ version \in [Daemons -> Versions]
    /\ contexts \in [Daemons -> BOOLEAN]
    /\ activated \in [Daemons -> BOOLEAN]
    /\ thread \in [Daemons -> [Clients -> ThreadSteps]]
    /\ pc \in [Clients -> ClientSteps]
    /\ job \in [Clients -> Jobs]
    /\ peer \in [Clients -> Daemons \cup {NoDaemon}]
    /\ spawned \in [Clients -> BOOLEAN]
    /\ faults \in 0..MaxFaults

Init ==
    /\ phase = [d \in Daemons |-> "unborn"]
    /\ lease = NoDaemon
    /\ socket = NoDaemon
    /\ running = [d \in Daemons |-> TRUE]
    /\ version = [d \in Daemons |-> "old"]
    /\ contexts = [d \in Daemons |-> FALSE]
    /\ activated = [d \in Daemons |-> FALSE]
    /\ thread = [d \in Daemons |-> [c \in Clients |-> "none"]]
    /\ pc = [c \in Clients |-> "start"]
    /\ job \in [Clients -> Jobs]
    /\ peer = [c \in Clients |-> NoDaemon]
    /\ spawned = [c \in Clients |-> FALSE]
    /\ faults = 0

Enter(d, p) == phase' = [phase EXCEPT ![d] = p]
Serve(d, c, step) == thread' = [thread EXCEPT ![d][c] = step]
Goto(c, step) == pc' = [pc EXCEPT ![c] = step]
Hangup(c) == peer' = [peer EXCEPT ![c] = NoDaemon]

\* active_connections: threads are counted from accept to their end.
Counted(d) == {c \in Clients : thread[d][c] \notin {"none", "queued"}}

Alive(d) == phase[d] \notin {"unborn", "gone"}

\* What connect() on the socket path finds.
Reachable == IF socket = NoDaemon THEN FALSE ELSE phase[socket] \in Listening

ClientVersion(c) == IF job[c] = "replace" THEN "new" ELSE "old"
Compatible(d, c) == version[d] = ClientVersion(c)

-----------------------------------------------------------------------------
\* The daemon process.

\* Mutant: a candidate that loses stays and waits for the lease.
BindWaits(d) ==
    /\ phase[d] = "starting"
    /\ \/ /\ lease = NoDaemon
          /\ lease' = d
          /\ socket' = NoDaemon
          /\ Enter(d, "elected")
       \/ /\ lease # NoDaemon
          /\ Enter(d, "candidate")
          /\ UNCHANGED <<lease, socket>>
    /\ UNCHANGED <<running, version, contexts, activated, faults, thread, clientVars>>

\* DaemonServer::bind: lock the lease or exit, then clear the socket path.
Bind(d) ==
    /\ phase[d] = "starting"
    /\ \/ /\ lease = NoDaemon
          /\ lease' = d
          /\ socket' = NoDaemon
          /\ Enter(d, "elected")
       \/ /\ lease # NoDaemon
          /\ Enter(d, "gone")
          /\ UNCHANGED <<lease, socket>>
    /\ UNCHANGED <<running, version, contexts, activated, faults, thread, clientVars>>

Listen(d) ==
    /\ phase[d] = "elected"
    /\ socket = NoDaemon
    /\ socket' = d
    /\ Enter(d, "top")
    /\ UNCHANGED <<lease, running, version, contexts, activated, faults, thread, clientVars>>

\* Nobody has been attached for the whole interval.
Reapable(d) ==
    /\ \A c \in Clients : thread[d][c] # "bound"
    /\ LongIdle => \A c \in Clients : pc[c] # "retrying"

\* Top of the loop: the flag, reap_idle (the detached interval may have
\* passed), has_ever_activated and has_active_contexts.
Top(d) ==
    /\ phase[d] = "top"
    /\ \/ /\ ~running[d]
          /\ Enter(d, "closing")
          /\ UNCHANGED contexts
       \/ /\ running[d]
          /\ \E kept \in BOOLEAN :
                /\ kept => contexts[d]
                /\ (contexts[d] /\ ~kept) => Reapable(d)
                /\ contexts' = [contexts EXCEPT ![d] = kept]
                /\ Enter(d, IF activated[d] /\ ~kept THEN "idle" ELSE "accept")
    /\ UNCHANGED <<lease, socket, running, version, activated, faults, thread, clientVars>>

\* Mutant: an empty registry is enough to end the loop.
IdleIgnoresConnections(d) ==
    /\ phase[d] = "idle"
    /\ Enter(d, "closing")
    /\ UNCHANGED <<lease, socket, running, version, contexts, activated, faults, thread, clientVars>>

\* The second half of the idle condition reads active_connections.
Idle(d) ==
    /\ phase[d] = "idle"
    /\ Enter(d, IF Counted(d) = {} THEN "closing" ELSE "accept")
    /\ UNCHANGED <<lease, socket, running, version, contexts, activated, faults, thread, clientVars>>

\* Mutant: a connection is served in the loop's own thread.
AcceptOneAtATime(d) ==
    /\ phase[d] = "accept"
    /\ \/ \E c \in Clients : thread[d][c] = "queued" /\ Counted(d) = {} /\ Serve(d, c, "open")
       \/ UNCHANGED thread
    /\ Enter(d, "top")
    /\ UNCHANGED <<lease, socket, running, version, contexts, activated, faults, clientVars>>

Accept(d) ==
    /\ phase[d] = "accept"
    /\ \/ \E c \in Clients : thread[d][c] = "queued" /\ Serve(d, c, "open")
       \/ /\ \A c \in Clients : thread[d][c] # "queued"
          /\ UNCHANGED thread
    /\ Enter(d, "top")
    /\ UNCHANGED <<lease, socket, running, version, contexts, activated, faults, clientVars>>

\* Mutants: the lease goes with the socket; the socket is left behind.
CloseReleasesLease(d) ==
    /\ phase[d] = "closing"
    /\ socket' = NoDaemon
    /\ lease' = NoDaemon
    /\ Enter(d, "draining")
    /\ UNCHANGED <<running, version, contexts, activated, faults, thread, clientVars>>

CloseKeepsSocket(d) ==
    /\ phase[d] = "closing"
    /\ Enter(d, "draining")
    /\ UNCHANGED <<lease, socket, running, version, contexts, activated, faults, thread, clientVars>>

Close(d) ==
    /\ phase[d] = "closing"
    /\ socket' = NoDaemon
    /\ Enter(d, "draining")
    /\ UNCHANGED <<lease, running, version, contexts, activated, faults, thread, clientVars>>

\* run_loop returns when no connection is counted or after forty polls; main
\* drops the listener (the queue with it), the registry and the lease.
Drain(d) ==
    /\ phase[d] = "draining"
    /\ Enter(d, "released")
    /\ lease' = NoDaemon
    /\ thread' = [thread EXCEPT ![d] = [c \in Clients |->
                    IF thread[d][c] = "queued" THEN "none" ELSE thread[d][c]]]
    /\ UNCHANGED <<socket, running, version, contexts, activated, faults, clientVars>>

Drained(d) == Counted(d) = {} /\ Drain(d)
\* Mutant: the drain waits for the last connection.
DrainNeverExpires(d) == FALSE /\ Drain(d)

DrainExpires(d) == Counted(d) # {} /\ Drain(d)

\* The process ends and takes its connection threads with it.
Exit(d) ==
    /\ phase[d] = "released"
    /\ Enter(d, "gone")
    /\ thread' = [thread EXCEPT ![d] = [c \in Clients |-> "none"]]
    /\ UNCHANGED <<lease, socket, running, version, contexts, activated, faults, clientVars>>

Crash(d) ==
    /\ faults < MaxFaults
    /\ phase[d] \notin {"unborn", "gone"}
    /\ faults' = faults + 1
    /\ Enter(d, "gone")
    /\ lease' = IF lease = d THEN NoDaemon ELSE lease
    /\ thread' = [thread EXCEPT ![d] = [c \in Clients |-> "none"]]
    /\ UNCHANGED <<socket, running, version, contexts, activated, clientVars>>

-----------------------------------------------------------------------------
\* Connection threads: handle_connection, until the client hangs up.

\* A thread answers a client that still listens to it.
Answering(d, c) == peer[c] = d

\* The client starts a candidate of its own binary.
Spawn(c) ==
    /\ spawned' = [spawned EXCEPT ![c] = TRUE]
    /\ \E d \in Daemons :
        /\ phase[d] = "unborn"
        /\ Enter(d, "starting")
        /\ version' = [version EXCEPT ![d] = ClientVersion(c)]

\* What a command does when no daemon talks to it: connect_or_start_unbound
\* starts one candidate and keeps trying, stop_daemon leaves the socket alone,
\* a replacement is refused.
Unanswered(c) ==
    \/ /\ job[c] = "work"
       /\ Goto(c, "retrying")
       /\ IF spawned[c] THEN UNCHANGED <<phase, version, spawned>> ELSE Spawn(c)
    \/ /\ job[c] = "stop"
       /\ Goto(c, "done")
       /\ UNCHANGED <<phase, version, spawned>>
    \/ /\ job[c] = "replace"
       /\ Goto(c, "failed")
       /\ UNCHANGED <<phase, version, spawned>>

\* Bootstrap with an overlapping protocol range.
Negotiate(d, c) ==
    /\ thread[d][c] = "open" /\ Answering(d, c)
    /\ Compatible(d, c)
    /\ Serve(d, c, "negotiated")
    /\ IF job[c] = "replace"
       THEN Goto(c, "failed") /\ Hangup(c)  \* "unexpected replacement response"
       ELSE Goto(c, "connected") /\ UNCHANGED peer
    /\ UNCHANGED <<daemonVars, job, spawned>>

\* select_protocol finds no version. replacement_allowed wants a newer client
\* and full idleness: it reads the registry's count, then active_connections.
\* Any other answer is BootstrapRejected.
AskReplacement(d, c) ==
    /\ thread[d][c] = "open" /\ Answering(d, c)
    /\ ~Compatible(d, c)
    /\ job[c] = "replace" /\ ~contexts[d]
    /\ Serve(d, c, "asking")
    /\ UNCHANGED <<daemonVars, clientVars>>

AcceptReplacement(d, c) ==
    /\ thread[d][c] = "asking" /\ Answering(d, c)
    /\ Counted(d) = {c}
    /\ running' = [running EXCEPT ![d] = FALSE]
    /\ Goto(c, "handover")
    /\ Hangup(c)
    /\ UNCHANGED <<phase, lease, socket, version, contexts, activated, faults, thread, job, spawned>>

Reject(d, c) ==
    /\ Answering(d, c)
    /\ \/ /\ thread[d][c] = "open" /\ ~Compatible(d, c)
          /\ ~(job[c] = "replace" /\ ~contexts[d])
       \/ thread[d][c] = "asking" /\ Counted(d) # {c}
    /\ Unanswered(c)
    /\ Hangup(c)
    /\ UNCHANGED <<lease, socket, running, contexts, activated, faults, thread, job>>

\* Handshake or InitializeProject: the context is active from here on.
Activate(d, c) ==
    /\ thread[d][c] = "negotiated" /\ Answering(d, c)
    /\ job[c] = "work"
    /\ contexts' = [contexts EXCEPT ![d] = TRUE]
    /\ activated' = [activated EXCEPT ![d] = TRUE]
    /\ Serve(d, c, "bound")
    /\ Goto(c, "bound")
    /\ UNCHANGED <<phase, lease, socket, running, version, faults, job, peer, spawned>>

Shutdown(d, c) ==
    /\ thread[d][c] = "negotiated" /\ Answering(d, c)
    /\ pc[c] = "connected" /\ job[c] = "stop"
    /\ running' = [running EXCEPT ![d] = FALSE]
    /\ Goto(c, "stopping")
    /\ UNCHANGED <<phase, lease, socket, version, contexts, activated, faults, thread, job, peer, spawned>>

\* End of stream.
ThreadEnds(d, c) ==
    /\ c \in Counted(d)
    /\ peer[c] # d
    /\ Serve(d, c, "none")
    /\ UNCHANGED <<daemonVars, clientVars>>

-----------------------------------------------------------------------------
\* Commands.

\* connect_or_start_unbound, connect_existing, request_incompatible_replacement:
\* a stream in the listener's queue, with the bootstrap frame in it.
Connect(c) ==
    /\ pc[c] \in {"start", "retrying"}
    /\ Reachable
    /\ thread[socket][c] = "none"
    /\ Serve(socket, c, "queued")
    /\ peer' = [peer EXCEPT ![c] = socket]
    /\ Goto(c, "waiting")
    /\ UNCHANGED <<daemonVars, job, spawned>>

ConnectFails(c) ==
    /\ pc[c] = "start"
    /\ ~Reachable
    /\ Unanswered(c)
    /\ UNCHANGED <<lease, socket, running, contexts, activated, faults, thread, job, peer>>

\* The stream breaks when its daemon ends, or drops the queue it was in.
Lost(c) == IF peer[c] = NoDaemon THEN FALSE ELSE thread[peer[c]][c] = "none"

\* No answer to the bootstrap: the stream broke or the deadline passed.
NegotiationFails(c) ==
    /\ pc[c] = "waiting"
    /\ \/ Lost(c) /\ UNCHANGED faults
       \/ ~Lost(c) /\ faults < MaxFaults /\ faults' = faults + 1
    /\ Unanswered(c)
    /\ Hangup(c)
    /\ UNCHANGED <<lease, socket, running, contexts, activated, thread, job>>

\* The retry budget outlives the start of a process, so it is over only when
\* there is none left to wait for.
GiveUp(c) ==
    /\ pc[c] = "retrying"
    /\ \A d \in Daemons : phase[d] \in {"unborn", "gone"}
    /\ Goto(c, "failed")
    /\ UNCHANGED <<daemonVars, thread, job, peer, spawned>>

\* A command that has its answers returns; one whose daemon ends fails.
Finish(c) ==
    /\ pc[c] = "bound"
    /\ Goto(c, "done")
    /\ Hangup(c)
    /\ UNCHANGED <<daemonVars, thread, job, spawned>>

Fail(c) ==
    /\ pc[c] \in {"connected", "bound"}
    /\ Lost(c)
    /\ Goto(c, "failed")
    /\ Hangup(c)
    /\ UNCHANGED <<daemonVars, thread, job, spawned>>

\* stop_daemon polls the path forty times, then removes whatever is there.
Stopped(c) ==
    /\ pc[c] = "stopping"
    /\ socket = NoDaemon
    /\ Goto(c, "done")
    /\ Hangup(c)
    /\ UNCHANGED <<daemonVars, thread, job, spawned>>

StopExpires(c) ==
    /\ pc[c] = "stopping"
    /\ socket # NoDaemon
    /\ socket' = NoDaemon
    /\ Goto(c, "done")
    /\ Hangup(c)
    /\ UNCHANGED <<phase, lease, running, version, contexts, activated, faults, thread, job, spawned>>

\* request_incompatible_replacement after the acknowledgement: wait for the
\* path to go, start the successor, wait until it takes a connection.
Succeed(c) ==
    /\ pc[c] = "handover"
    /\ socket = NoDaemon
    /\ Spawn(c)
    /\ Goto(c, "successor")
    /\ UNCHANGED <<lease, socket, running, contexts, activated, faults, thread, job, peer>>

SuccessorAnswers(c) ==
    /\ pc[c] = "successor"
    /\ Reachable
    /\ thread[socket][c] = "none"
    /\ Serve(socket, c, "queued")
    /\ Goto(c, "done")
    /\ UNCHANGED <<daemonVars, job, peer, spawned>>

HandoverExpires(c) ==
    /\ pc[c] \in {"handover", "successor"}
    /\ pc[c] = "handover" => socket # NoDaemon
    /\ Goto(c, "failed")
    /\ UNCHANGED <<daemonVars, thread, job, peer, spawned>>

-----------------------------------------------------------------------------
DaemonStep(d) ==
    Bind(d) \/ Listen(d) \/ Top(d) \/ Idle(d) \/ Accept(d) \/ Close(d)
    \/ Drained(d) \/ DrainExpires(d) \/ Exit(d)

ThreadStep(d, c) ==
    Negotiate(d, c) \/ AskReplacement(d, c) \/ AcceptReplacement(d, c)
    \/ Reject(d, c) \/ Activate(d, c) \/ Shutdown(d, c) \/ ThreadEnds(d, c)

Attempt(c) == Connect(c) \/ ConnectFails(c) \/ (NegotiationFails(c) /\ UNCHANGED faults)

ClientStep(c) ==
    Connect(c) \/ ConnectFails(c) \/ NegotiationFails(c) \/ GiveUp(c)
    \/ Finish(c) \/ Fail(c) \/ Stopped(c) \/ StopExpires(c)
    \/ Succeed(c) \/ SuccessorAnswers(c) \/ HandoverExpires(c)

Next ==
    \/ \E d \in Daemons : DaemonStep(d) \/ Crash(d)
    \/ \E d \in Daemons, c \in Clients : ThreadStep(d, c)
    \/ \E c \in Clients : ClientStep(c)

Spec == Init /\ [][Next]_vars

\* The operating system runs every thread; a queued stream is reached because
\* the loop accepts one connection in each turn. Nothing makes a client with
\* a bound connection end it, so Finish has no fairness.
Fairness ==
    /\ \A d \in Daemons : WF_vars(DaemonStep(d))
    /\ \A d \in Daemons, c \in Clients : WF_vars(ThreadStep(d, c))
    /\ \A c \in Clients : WF_vars(Attempt(c)) /\ WF_vars(Stopped(c) \/ Succeed(c))

FairSpec == Spec /\ Fairness

-----------------------------------------------------------------------------
\* The process phases implement the election that daemon.lock stands for: two
\* processes are never between bind and the end of run_loop together, and one
\* whose term has ended never listens again.
Singleton == INSTANCE DaemonSingleton WITH
    Daemons <- Daemons,
    elected <- {d \in Daemons : phase[d] \in InOffice},
    accepting <- {d \in Daemons : phase[d] \in Listening},
    retired <- {d \in Daemons : phase[d] \in {"released", "gone"}}

ElectsOneDaemon == Singleton!Spec

\* A path that names a living process names the lease holder: no daemon that
\* lost the election, or has released the lease, is reached by a new client.
SocketNamesTheHolder ==
    \A d \in Daemons : (socket = d /\ Alive(d)) => lease = d

\* A daemon nobody stopped leaves its loop with no connection counted: the
\* clients attached to it, and those whose handshake is under way, keep it.
IdleExitSparesClients ==
    [][\A d \in Daemons :
        (phase[d] \in Loop /\ phase'[d] \notin Loop \cup {"gone"} /\ running[d])
            => \A c \in Clients : peer[c] = d => thread[d][c] = "queued"]_vars

\* A daemon told to stop ends, whatever its clients do: the drain is bounded.
StopIsObeyed ==
    \A d \in Daemons : ~running[d] ~> phase[d] = "gone"

\* A client in the listener's queue is answered or sees its stream break, also
\* when the loop ends before it accepts it.
NobodyWaitsForever ==
    \A c \in Clients : pc[c] = "waiting" ~> pc[c] # "waiting"

\* "A candidate MUST NOT unlink a live daemon's socket", and nobody else does:
\* the path stays while its daemon serves and was not told to stop.
LiveSocketStays ==
    [][\A d \in Daemons :
        (socket = d /\ phase[d] \in Loop /\ running[d] /\ phase'[d] \in Loop)
            => socket' = d]_vars

\* "Losing candidates reconnect": a command that starts a daemon and keeps
\* trying is served by some daemon in the end.
ColdStartIsServed ==
    \A c \in Clients : pc[c] = "retrying" ~> pc[c] = "bound"
=============================================================================
