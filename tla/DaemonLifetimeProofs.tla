----------------------- MODULE DaemonLifetimeProofs -----------------------
(***************************************************************************)
(* What holds of DaemonLifetime for any daemons, clients, jobs and bounds. *)
(* The lease is released in the step that ends a process's term, so being  *)
(* in office and holding the lease are the same thing; the rest follows    *)
(* from where a process may be while the path, or a stream, names it.      *)
(***************************************************************************)
EXTENDS DaemonLifetime, TLAPS

\* A process is between bind and the end of run_loop while it has the lease.
OfficeHoldsLease == \A d \in Daemons : phase[d] \in InOffice <=> lease = d

\* The path names a process that listens and has not closed yet, or a dead one.
SocketNamesAListener ==
    \A d \in Daemons : socket = d => phase[d] \in Loop \cup {"closing", "gone"}

\* A stream has a daemon that has listened; while it does, the stream is in its
\* queue or has a thread.
StreamsReachListeners ==
    \A c \in Clients, d \in Daemons : peer[c] = d =>
        /\ phase[d] \in Listening \cup {"released", "gone"}
        /\ phase[d] \in Listening => thread[d][c] # "none"

IInv == TypeOK /\ OfficeHoldsLease /\ SocketNamesAListener /\ StreamsReachListeners

-----------------------------------------------------------------------------

LEMMA InitIInv == Init => IInv
<1> SUFFICES ASSUME Init PROVE IInv
    OBVIOUS
<1> USE DEF Init
<1>1. TypeOK
    BY DaemonAssumption DEF TypeOK, Phases, Versions, ThreadSteps, ClientSteps
<1>2. OfficeHoldsLease /\ SocketNamesAListener
    BY DaemonAssumption DEF OfficeHoldsLease, SocketNamesAListener, InOffice, Listening, Loop
<1>3. StreamsReachListeners
    BY DaemonAssumption DEF StreamsReachListeners
<1> QED
    BY <1>1, <1>2, <1>3 DEF IInv

\* Steps of the daemon process.
LEMMA DaemonStepIInv ==
    ASSUME IInv, NEW d \in Daemons, DaemonStep(d) \/ Crash(d)
    PROVE  IInv'
<1> USE DaemonAssumption DEF IInv, Enter, Serve, clientVars, InOffice, Listening, Loop
<1>1. TypeOK'
  <2> USE DEF TypeOK, Phases, ThreadSteps
  <2>1. CASE Bind(d)
    BY <2>1 DEF Bind
  <2>2. CASE Listen(d)
    BY <2>2 DEF Listen
  <2>3. CASE Top(d)
    BY <2>3 DEF Top
  <2>4. CASE Idle(d)
    BY <2>4 DEF Idle
  <2>5. CASE Accept(d)
    <3>1. thread' = thread \/ \E c \in Clients : thread' = [thread EXCEPT ![d][c] = "open"]
      BY <2>5 DEF Accept
    <3>2. ASSUME NEW c \in Clients, thread' = [thread EXCEPT ![d][c] = "open"]
          PROVE  thread' \in [Daemons -> [Clients -> ThreadSteps]]
      BY <3>2
    <3>3. thread' \in [Daemons -> [Clients -> ThreadSteps]]
      BY <3>1, <3>2
    <3> QED
      BY <2>5, <3>3 DEF Accept
  <2>6. CASE Close(d)
    BY <2>6 DEF Close
  <2>7. CASE Drain(d)
    BY <2>7 DEF Drain
  <2>8. CASE Exit(d)
    BY <2>8 DEF Exit
  <2>9. CASE Crash(d)
    <3>1. faults' \in 0..MaxFaults
      BY <2>9 DEF Crash
    <3>2. lease' \in Daemons \cup {NoDaemon} /\ phase' \in [Daemons -> Phases]
      BY <2>9 DEF Crash
    <3>3. thread' \in [Daemons -> [Clients -> ThreadSteps]]
      BY <2>9 DEF Crash
    <3> QED
      BY <2>9, <3>1, <3>2, <3>3 DEF Crash
  <2> QED
    BY <2>1, <2>2, <2>3, <2>4, <2>5, <2>6, <2>7, <2>8, <2>9 DEF DaemonStep, Drained, DrainExpires
<1>2. OfficeHoldsLease' /\ SocketNamesAListener' /\ StreamsReachListeners'
  <2> USE DEF TypeOK, OfficeHoldsLease, SocketNamesAListener, StreamsReachListeners
  <2>1. CASE Bind(d)
    BY <2>1 DEF Bind
  <2>2. CASE Listen(d)
    BY <2>2 DEF Listen
  <2>3. CASE Top(d)
    BY <2>3 DEF Top
  <2>4. CASE Idle(d)
    BY <2>4 DEF Idle
  <2>5. CASE Accept(d)
    BY <2>5 DEF Accept
  <2>6. CASE Close(d)
    BY <2>6 DEF Close
  <2>7. CASE Drain(d)
    BY <2>7 DEF Drain
  <2>8. CASE Exit(d)
    BY <2>8 DEF Exit
  <2>9. CASE Crash(d)
    BY <2>9 DEF Crash
  <2> QED
    BY <2>1, <2>2, <2>3, <2>4, <2>5, <2>6, <2>7, <2>8, <2>9 DEF DaemonStep, Drained, DrainExpires
<1> QED
    BY <1>1, <1>2

\* What a command does when no daemon answers it starts at most one process.
LEMMA UnansweredStarts ==
    ASSUME TypeOK, NEW c \in Clients, Unanswered(c)
    PROVE  /\ pc' \in [Clients -> ClientSteps]
           /\ spawned' \in [Clients -> BOOLEAN]
           /\ version' \in [Daemons -> Versions]
           /\ \/ phase' = phase
              \/ \E d \in Daemons : phase[d] = "unborn" /\ Enter(d, "starting")
<1> USE DEF TypeOK, Unanswered, Goto, ClientSteps
<1>1. CASE UNCHANGED <<phase, version, spawned>>
    BY <1>1
<1>2. CASE Spawn(c)
    BY <1>2 DEF Spawn, ClientVersion, Versions
<1> QED
    BY <1>1, <1>2

\* Starting a process disturbs nothing that is said of the others.
LEMMA StartingIInv ==
    ASSUME IInv, TypeOK', UNCHANGED <<lease, socket, thread>>,
           \/ phase' = phase
           \/ \E d \in Daemons : phase[d] = "unborn" /\ Enter(d, "starting"),
           \A c \in Clients : peer'[c] \in {peer[c], NoDaemon}
    PROVE  IInv'
<1>1. phase \in [Daemons -> Phases]
    BY DEF IInv, TypeOK
<1>2. \A d \in Daemons : phase'[d] = phase[d] \/ (phase[d] = "unborn" /\ phase'[d] = "starting")
    BY <1>1 DEF Enter
<1>3. OfficeHoldsLease' /\ SocketNamesAListener'
    BY <1>2 DEF IInv, OfficeHoldsLease, SocketNamesAListener, InOffice, Listening, Loop
<1>4. \A c \in Clients, d \in Daemons : peer'[c] = d => peer[c] = d
    BY DaemonAssumption
<1>5. StreamsReachListeners'
    BY <1>2, <1>4 DEF IInv, StreamsReachListeners, Listening, Loop
<1> QED
    BY <1>3, <1>5 DEF IInv

\* Steps of a connection thread.
LEMMA ThreadStepIInv ==
    ASSUME IInv, NEW d \in Daemons, NEW c \in Clients, ThreadStep(d, c)
    PROVE  IInv'
<1> USE DaemonAssumption DEF IInv, Serve, Goto, Hangup, Answering
<1>1. CASE Reject(d, c)
  <2>1. TypeOK'
    BY <1>1, UnansweredStarts DEF Reject, TypeOK, Phases, Enter
  <2> QED
    BY <1>1, <2>1, UnansweredStarts, StartingIInv DEF Reject, TypeOK
<1>2. CASE Negotiate(d, c) \/ AskReplacement(d, c) \/ AcceptReplacement(d, c)
           \/ Activate(d, c) \/ Shutdown(d, c) \/ ThreadEnds(d, c)
  <2> USE DEF daemonVars, clientVars
  <2>1. TypeOK'
    <3> USE DEF TypeOK, ThreadSteps, ClientSteps
    <3>1. CASE Negotiate(d, c)
      BY <3>1 DEF Negotiate
    <3>2. CASE AskReplacement(d, c)
      BY <3>2 DEF AskReplacement
    <3>3. CASE AcceptReplacement(d, c)
      BY <3>3 DEF AcceptReplacement
    <3>4. CASE Activate(d, c)
      BY <3>4 DEF Activate
    <3>5. CASE Shutdown(d, c)
      BY <3>5 DEF Shutdown
    <3>6. CASE ThreadEnds(d, c)
      BY <3>6 DEF ThreadEnds
    <3> QED
      BY <1>2, <3>1, <3>2, <3>3, <3>4, <3>5, <3>6
  <2>2. /\ UNCHANGED <<phase, lease, socket>>
        /\ \A e \in Clients : peer'[e] \in {peer[e], NoDaemon}
        /\ \A e \in Clients, b \in Daemons :
              thread'[b][e] = "none" => thread[b][e] = "none" \/ peer'[e] # b
    BY <1>2 DEF Negotiate, AskReplacement, AcceptReplacement, Activate, Shutdown, ThreadEnds, TypeOK
  <2>3. OfficeHoldsLease' /\ SocketNamesAListener'
    BY <2>2 DEF OfficeHoldsLease, SocketNamesAListener
  <2>4. \A e \in Clients, b \in Daemons : peer'[e] = b => peer[e] = b
    BY <2>2
  <2>5. StreamsReachListeners'
    BY <2>2, <2>4 DEF StreamsReachListeners
  <2> QED
    BY <2>1, <2>3, <2>5
<1> QED
    BY <1>1, <1>2 DEF ThreadStep

\* Steps of a command.
LEMMA ClientStepIInv ==
    ASSUME IInv, NEW c \in Clients, ClientStep(c)
    PROVE  IInv'
<1> USE DaemonAssumption DEF IInv, Serve, Goto, Hangup
<1>1. CASE ConnectFails(c)
  <2>1. TypeOK'
    BY <1>1, UnansweredStarts DEF ConnectFails, TypeOK, Phases, Enter
  <2> QED
    BY <1>1, <2>1, UnansweredStarts, StartingIInv DEF ConnectFails
<1>2. CASE NegotiationFails(c)
  <2>1. faults' \in 0..MaxFaults
    BY <1>2 DEF NegotiationFails, TypeOK
  <2>2. phase' \in [Daemons -> Phases]
    BY <1>2, UnansweredStarts, SMTT(30) DEF NegotiationFails, TypeOK, Phases, Enter
  <2>3. TypeOK'
    BY <1>2, <2>1, <2>2, UnansweredStarts DEF NegotiationFails, TypeOK
  <2> QED
    BY <1>2, <2>3, UnansweredStarts, StartingIInv DEF NegotiationFails, TypeOK
<1>3. CASE Succeed(c)
  <2>1. TypeOK'
    BY <1>3 DEF Succeed, Spawn, ClientVersion, Versions, Enter, TypeOK, Phases, ClientSteps
  <2> QED
    BY <1>3, <2>1, StartingIInv DEF Succeed, Spawn, TypeOK
<1>4. CASE Connect(c) \/ SuccessorAnswers(c)
  <2> USE DEF daemonVars
  <2>0. socket \in Daemons /\ phase[socket] \in Listening
    BY <1>4 DEF Connect, SuccessorAnswers, Reachable, TypeOK
  <2>1. TypeOK'
    <3>1. thread' = [thread EXCEPT ![socket][c] = "queued"]
      BY <1>4 DEF Connect, SuccessorAnswers
    <3>2. thread' \in [Daemons -> [Clients -> ThreadSteps]]
      BY <2>0, <3>1 DEF TypeOK, ThreadSteps
    <3>3. CASE Connect(c)
      BY <2>0, <3>2, <3>3 DEF Connect, TypeOK, ClientSteps
    <3>4. CASE SuccessorAnswers(c)
      BY <2>0, <3>2, <3>4 DEF SuccessorAnswers, TypeOK, ClientSteps
    <3> QED
      BY <1>4, <3>3, <3>4
  <2>2. OfficeHoldsLease' /\ SocketNamesAListener'
    BY <1>4 DEF Connect, SuccessorAnswers, OfficeHoldsLease, SocketNamesAListener
  <2>3. \A e \in Clients, b \in Daemons :
           /\ thread[b][e] # "none" => thread'[b][e] # "none"
           /\ peer'[e] = b => peer[e] = b \/ (b = socket /\ e = c)
    BY <1>4, <2>0 DEF Connect, SuccessorAnswers, TypeOK
  <2>4. thread'[socket][c] # "none" /\ phase' = phase
    BY <1>4, <2>0 DEF Connect, SuccessorAnswers, TypeOK
  <2>5. StreamsReachListeners'
    BY <2>0, <2>3, <2>4 DEF StreamsReachListeners
  <2> QED
    BY <2>1, <2>2, <2>5
<1>5. CASE StopExpires(c)
    BY <1>5 DEF StopExpires, TypeOK, ClientSteps, OfficeHoldsLease, SocketNamesAListener,
                StreamsReachListeners
<1>6. CASE GiveUp(c) \/ Finish(c) \/ Fail(c) \/ Stopped(c) \/ HandoverExpires(c)
  <2>1. TypeOK' /\ UNCHANGED <<phase, lease, socket, thread>>
        /\ \A e \in Clients : peer'[e] \in {peer[e], NoDaemon}
    BY <1>6 DEF GiveUp, Finish, Fail, Stopped, HandoverExpires, daemonVars, TypeOK, ClientSteps
  <2> QED
    BY <2>1, StartingIInv
<1> QED
    BY <1>1, <1>2, <1>3, <1>4, <1>5, <1>6 DEF ClientStep

LEMMA StepIInv == IInv /\ [Next]_vars => IInv'
<1> SUFFICES ASSUME IInv, [Next]_vars PROVE IInv'
    OBVIOUS
<1>1. CASE UNCHANGED vars
    BY <1>1 DEF vars, IInv, TypeOK, OfficeHoldsLease, SocketNamesAListener, StreamsReachListeners
<1>2. CASE Next
    BY <1>2, DaemonStepIInv, ThreadStepIInv, ClientStepIInv DEF Next
<1> QED
    BY <1>1, <1>2

LEMMA Inductive == Spec => []IInv
    BY InitIInv, StepIInv, PTL DEF Spec

-----------------------------------------------------------------------------
\* Every variable stays in its range: phases, streams, threads and commands.
THEOREM TypeCorrect == Spec => []TypeOK
    BY Inductive, PTL DEF IInv

\* A socket path that names a living process names the holder of daemon.lock.
THEOREM SocketOfTheHolder == Spec => []SocketNamesTheHolder
<1>1. IInv => SocketNamesTheHolder
    BY DEF IInv, SocketNamesAListener, OfficeHoldsLease, SocketNamesTheHolder, Alive,
           InOffice, Listening, Loop
<1> QED
    BY <1>1, Inductive, PTL

\* Each step of the processes is a step of the election or none of it.
LEMMA DaemonStepElects ==
    ASSUME IInv, NEW d \in Daemons, DaemonStep(d) \/ Crash(d)
    PROVE  [Singleton!Next]_(Singleton!singletonVars)
<1> DEFINE elected == {e \in Daemons : phase[e] \in InOffice}
           accepting == {e \in Daemons : phase[e] \in Listening}
           retired == {e \in Daemons : phase[e] \in {"released", "gone"}}
<1> USE DEF Enter, InOffice, Listening, Loop
<1>1. phase \in [Daemons -> Phases] /\ OfficeHoldsLease
    BY DEF IInv, TypeOK
<1>2. CASE phase[d] = "starting" /\ lease = NoDaemon /\ Enter(d, "elected")
  <2>1. elected = {} /\ d \notin retired
    BY <1>1, <1>2, DaemonAssumption DEF OfficeHoldsLease
  <2>2. elected' = {d} /\ accepting' = accepting /\ retired' = retired
    BY <1>1, <1>2, <2>1
  <2> QED
    BY <2>1, <2>2 DEF Singleton!Next, Singleton!Elect
<1>3. CASE phase[d] = "starting" /\ Enter(d, "gone")
  <2>1. d \notin elected \cup retired
    BY <1>1, <1>3
  <2>2. elected' = elected /\ accepting' = accepting /\ retired' = retired \cup {d}
    BY <1>1, <1>3
  <2> QED
    BY <2>1, <2>2 DEF Singleton!Next, Singleton!Lose
<1>4. CASE phase[d] = "elected" /\ Enter(d, "top")
  <2>1. d \in elected /\ elected' = elected /\ accepting' = accepting \cup {d} /\ retired' = retired
    BY <1>1, <1>4
  <2> QED
    BY <2>1 DEF Singleton!Next, Singleton!Accept
<1>5. CASE phase[d] \in InOffice /\ (Enter(d, "released") \/ Enter(d, "gone"))
  <2>1. /\ d \in elected /\ elected' = elected \ {d}
        /\ accepting' = accepting \ {d} /\ retired' = retired \cup {d}
    BY <1>1, <1>5
  <2> QED
    BY <2>1 DEF Singleton!Next, Singleton!Retire
<1>6. CASE /\ phase[d] \in Listening /\ phase'[d] \in Listening
           /\ phase' = [phase EXCEPT ![d] = phase'[d]]
  <2>1. elected' = elected /\ accepting' = accepting /\ retired' = retired
    BY <1>1, <1>6
  <2> QED
    BY <2>1 DEF Singleton!singletonVars
<1>7. CASE phase[d] = "released" /\ Enter(d, "gone")
  <2>1. elected' = elected /\ accepting' = accepting /\ retired' = retired
    BY <1>1, <1>7
  <2> QED
    BY <2>1 DEF Singleton!singletonVars
<1>8. CASE DaemonStep(d)
  <2>1. CASE Bind(d)
    BY <2>1, <1>2, <1>3 DEF Bind
  <2>2. CASE Listen(d)
    BY <2>2, <1>4 DEF Listen
  <2>3. CASE Top(d) \/ Idle(d) \/ Accept(d) \/ Close(d)
    BY <2>3, <1>1, <1>6 DEF Top, Idle, Accept, Close
  <2>4. CASE Drain(d)
    BY <2>4, <1>5 DEF Drain
  <2>5. CASE Exit(d)
    BY <2>5, <1>7 DEF Exit
  <2> QED
    BY <1>8, <2>1, <2>2, <2>3, <2>4, <2>5 DEF DaemonStep, Drained, DrainExpires
<1>9. CASE Crash(d)
    BY <1>1, <1>9, <1>3, <1>5, <1>7 DEF Crash, Phases
<1> QED
    BY <1>8, <1>9

\* Threads and commands start processes and end none.
LEMMA OthersStartProcesses ==
    ASSUME IInv,
           \/ \E d \in Daemons, c \in Clients : ThreadStep(d, c)
           \/ \E c \in Clients : ClientStep(c)
           \/ UNCHANGED vars
    PROVE  \A d \in Daemons : phase'[d] = phase[d] \/ (phase[d] = "unborn" /\ phase'[d] = "starting")
<1> DEFINE Starting == phase' = phase \/ \E d \in Daemons : phase[d] = "unborn" /\ Enter(d, "starting")
<1>1. TypeOK
    BY DEF IInv
<1>2. ASSUME NEW d \in Daemons, NEW c \in Clients, ThreadStep(d, c)
      PROVE  Starting
    BY <1>1, <1>2, UnansweredStarts DEF ThreadStep, Negotiate, AskReplacement, AcceptReplacement,
       Reject, Activate, Shutdown, ThreadEnds, daemonVars
<1>3. ASSUME NEW c \in Clients, ClientStep(c)
      PROVE  Starting
    BY <1>1, <1>3, UnansweredStarts DEF ClientStep, Connect, ConnectFails, NegotiationFails, GiveUp,
       Finish, Fail, Stopped, StopExpires, Succeed, SuccessorAnswers, HandoverExpires, Spawn, daemonVars
<1>4. Starting
    BY <1>2, <1>3 DEF vars
<1> QED
    BY <1>1, <1>4 DEF TypeOK, Enter

\* The processes implement the election: one daemon at a time is between bind
\* and the end of run_loop, only it listens, and none comes back
\* (lease.rs FileLease, server.rs bind and run_loop).
THEOREM Election == Spec => ElectsOneDaemon
<1>1. Init => Singleton!Init
    BY DEF Init, Singleton!Init, InOffice, Listening, Loop
<1>2. IInv /\ [Next]_vars => [Singleton!Next]_(Singleton!singletonVars)
  <2> SUFFICES ASSUME IInv, [Next]_vars PROVE [Singleton!Next]_(Singleton!singletonVars)
      OBVIOUS
  <2>1. CASE \E d \in Daemons : DaemonStep(d) \/ Crash(d)
      BY <2>1, DaemonStepElects
  <2>2. CASE \/ \E d \in Daemons, c \in Clients : ThreadStep(d, c)
             \/ \E c \in Clients : ClientStep(c)
             \/ UNCHANGED vars
    <3>1. \A d \in Daemons : phase'[d] = phase[d] \/ (phase[d] = "unborn" /\ phase'[d] = "starting")
      BY <2>2, OthersStartProcesses
    <3> QED
      BY <3>1 DEF Singleton!singletonVars, InOffice, Listening, Loop
  <2> QED
      BY <2>1, <2>2 DEF Next
<1> QED
    BY <1>1, <1>2, Inductive, PTL DEF Spec, ElectsOneDaemon, Singleton!Spec

\* A daemon that nobody stopped never leaves its loop under a client whose
\* connection it has accepted (server.rs run_loop, active_connections).
THEOREM IdleExit == Spec => IdleExitSparesClients
<1>1. IInv /\ [Next]_vars =>
        [\A d \in Daemons :
            (phase[d] \in Loop /\ phase'[d] \notin Loop \cup {"gone"} /\ running[d])
                => \A c \in Clients : peer[c] = d => thread[d][c] = "queued"]_vars
  <2> SUFFICES ASSUME IInv, Next,
                      NEW d \in Daemons, phase[d] \in Loop,
                      phase'[d] \notin Loop \cup {"gone"}, running[d]
               PROVE  \A c \in Clients : peer[c] = d => thread[d][c] = "queued"
      OBVIOUS
  <2>1. TypeOK /\ StreamsReachListeners
      BY DEF IInv
  <2>2. PICK e \in Daemons : DaemonStep(e) \/ Crash(e)
      BY OthersStartProcesses DEF Next, Loop
  <2>3. Idle(d) /\ Counted(d) = {}
      BY <2>1, <2>2 DEF DaemonStep, Bind, Listen, Top, Idle, Accept, Close,
         Drained, DrainExpires, Drain, Exit, Crash, Enter, Loop, TypeOK
  <2> QED
      BY <2>1, <2>3 DEF Counted, StreamsReachListeners, Listening, TypeOK
<1> QED
    BY <1>1, Inductive, PTL DEF IdleExitSparesClients, Spec
=============================================================================
