-------------------------- MODULE ProjectLifecycle --------------------------
(***************************************************************************)
(* The connection threads of the daemon and the requests that create,      *)
(* attach to, use and remove project state (crates/repin/src/daemon:       *)
(* server.rs handle_connection, state.rs), over the contexts of            *)
(* ContextRegistry. A request that calls the registry several times, or    *)
(* touches the file system between calls, takes one step for each: other   *)
(* threads, other processes and the accept loop run in between.            *)
(*                                                                         *)
(* A request that is refused changes nothing and is a stuttering step.     *)
(* Bootstrap negotiation and the daemon's own lifetime are not here:       *)
(* connections are already negotiated.                                     *)
(***************************************************************************)
EXTENDS ContextRegistry

CONSTANT MaxFaults  \* bound: out-of-band events and failed stores in one behaviour

ASSUME FaultsAssumption == MaxFaults \in Nat

VARIABLES
    pc,     \* where each connection thread is
    req,    \* the request it is handling, or the path it was bound to
    faults  \* out-of-band events and failed stores so far

vars == <<registryVars, pc, req, faults>>

\* Steps taken while the thread holds the entries mutex.
OpeningSteps == {"evicted", "leased", "opened"}

\* A ready thread reads the next frame; unbound, it stands for a connection
\* that has yet to come as well.
Steps == {"ready", "writing", "closing", "unloading",
          "initializing", "creating", "publishing",
          "uninitializing", "removing"} \cup OpeningSteps

Request == [path: Projects, config: Configs \cup {NoConfig}, existed: BOOLEAN]
NoRequest == [path |-> NoProject, config |-> NoConfig, existed |-> FALSE]

TypeOK ==
    /\ RegistryTypeOK
    /\ pc \in [Connections -> Steps]
    /\ req \in [Connections -> Request \cup {NoRequest}]
    /\ faults \in 0..MaxFaults

Init ==
    /\ RegistryInit
    /\ pc = [k \in Connections |-> "ready"]
    /\ req = [k \in Connections |-> NoRequest]
    /\ faults = 0

Goto(k, step) == pc' = [pc EXCEPT ![k] = step]
Handle(k, p, g, existed) ==
    req' = [req EXCEPT ![k] = [path |-> p, config |-> g, existed |-> existed]]
Done(k) == req' = [req EXCEPT ![k] = NoRequest]

-----------------------------------------------------------------------------
\* Handshake: get_or_load_with_config, then bind.

HandshakeReuses(k, p, g) ==
    /\ pc[k] = "ready"
    /\ Reusable(p, g)
    /\ Reuse(k, p)
    /\ UNCHANGED <<pc, req, faults>>

\* Wrong: an attached entry is reopened with the new configuration.
HandshakeOpensOverClients(k, p, g) ==
    /\ pc[k] = "ready"
    /\ ~Reusable(p, g)
    /\ BeginOpen(k, p, g)
    /\ Goto(k, "evicted")
    /\ Handle(k, p, g, FALSE)
    /\ UNCHANGED faults

\* An entry that is usable and attached keeps its configuration: refused.
HandshakeOpens(k, p, g) ==
    /\ pc[k] = "ready"
    /\ ~Reusable(p, g)
    /\ (registry[p] # NoContext /\ Usable(registry[p])) => Attached(registry[p]) = {}
    /\ BeginOpen(k, p, g)
    /\ Goto(k, "evicted")
    /\ Handle(k, p, g, FALSE)
    /\ UNCHANGED faults

OpenAcquiresLease(k) ==
    /\ pc[k] = "evicted"
    /\ AcquireForContext
    /\ Goto(k, "leased")
    /\ UNCHANGED <<req, faults>>

OpenOpensStore(k) ==
    /\ pc[k] = "leased"
    /\ OpenStore
    /\ Goto(k, "opened")
    /\ UNCHANGED <<req, faults>>

OpenWithoutStore(k) ==
    /\ pc[k] = "leased"
    /\ StoreUnavailable
    /\ Goto(k, "opened")
    /\ UNCHANGED req

OpenFails(k) ==
    /\ pc[k] = "leased"
    /\ AbandonOpen
    /\ Goto(k, "ready")
    /\ Done(k)
    /\ UNCHANGED faults

OpenPublishes(k) ==
    /\ pc[k] = "opened"
    /\ PublishContext(k)
    /\ Goto(k, "ready")
    /\ Done(k)
    /\ UNCHANGED faults

-----------------------------------------------------------------------------
\* Project-bound requests. A read leaves nothing behind; a write (IndexAll,
\* Rebuild, SyncVcs, UpdateFiles) runs for a while on the checked context.

WriteBegins(k) ==
    /\ pc[k] = "ready"
    /\ bound[k] # NoContext
    /\ Usable(bound[k])
    /\ Goto(k, "writing")
    /\ UNCHANGED <<registryVars, req, faults>>

WriteEnds(k) ==
    /\ pc[k] = "writing"
    /\ Goto(k, "ready")
    /\ UNCHANGED <<registryVars, req, faults>>

\* The identity guard fails: the thread lets go of its context, then unloads
\* the path it was bound to.
GuardFails(k) ==
    /\ pc[k] = "ready"
    /\ bound[k] # NoContext
    /\ ~Usable(bound[k])
    /\ Handle(k, ctx[bound[k]].path, NoConfig, FALSE)
    /\ Detach(k, {bound[k]})
    /\ Goto(k, "unloading")
    /\ UNCHANGED faults

GuardUnloads(k) ==
    /\ pc[k] = "unloading"
    /\ Unload(req[k].path)
    /\ Goto(k, "ready")
    /\ Done(k)
    /\ UNCHANGED faults

\* End of file: the reference is dropped, then mark_detached stamps the entry.
\* A failed write of a response returns early, without the stamp.
Disconnect(k) ==
    /\ pc[k] = "ready"
    /\ bound[k] # NoContext
    /\ \/ Handle(k, ctx[bound[k]].path, NoConfig, FALSE) /\ Goto(k, "closing")
       \/ UNCHANGED <<pc, req>>
    /\ Detach(k, {})
    /\ UNCHANGED faults

StampDetached(k) ==
    /\ pc[k] = "closing"
    /\ MarkDetached(req[k].path)
    /\ Goto(k, "ready")
    /\ Done(k)
    /\ UNCHANGED faults

-----------------------------------------------------------------------------
\* InitializeProject: initialize_state, then publish_created_with_config.

InitializeChecks(k, p, g) ==
    /\ pc[k] = "ready"
    /\ Handle(k, p, g, dbFile[p] # NoFile)
    /\ Goto(k, "initializing")
    /\ stateDir' = [stateDir EXCEPT ![p] = TRUE]
    /\ UNCHANGED <<dbFile, lockFile, otherLease, daemonVars, faults>>

\* The directory, the marker or the database is unusable; a lease is dropped.
InitializeFails(k) ==
    /\ pc[k] \in {"initializing", "creating"}
    /\ creationLease' = [creationLease EXCEPT ![k] = NoFile]
    /\ Goto(k, "ready")
    /\ Done(k)
    /\ UNCHANGED <<diskVars, ctx, registry, detached, opening, bound, faults>>

\* Without the lease only an existing database can be attached.
InitializeAcquires(k) ==
    /\ pc[k] = "initializing"
    /\ stateDir' = [stateDir EXCEPT ![req[k].path] = TRUE]
    /\ \E f \in Files :
        /\ OpensLock(req[k].path, f)
        /\ lockFile' = [lockFile EXCEPT ![req[k].path] = f]
        /\ \/ /\ ~Held(f)
              /\ creationLease' = [creationLease EXCEPT ![k] = f]
              /\ Goto(k, "creating")
              /\ UNCHANGED req
           \/ /\ Held(f)
              /\ req[k].existed
              /\ Goto(k, "publishing")
              /\ UNCHANGED <<creationLease, req>>
           \/ /\ Held(f)
              /\ ~req[k].existed
              /\ Goto(k, "ready")
              /\ Done(k)
              /\ UNCHANGED creationLease
    /\ UNCHANGED <<dbFile, otherLease, ctx, registry, detached, opening, bound, faults>>

InitializeCreates(k) ==
    /\ pc[k] = "creating"
    /\ stateDir[req[k].path]
    /\ \E f \in Files :
        /\ OpensDatabase(req[k].path, f)
        /\ dbFile' = [dbFile EXCEPT ![req[k].path] = f]
    /\ Goto(k, "publishing")
    /\ UNCHANGED <<stateDir, lockFile, otherLease, daemonVars, req, faults>>

InitializeReuses(k) ==
    /\ pc[k] = "publishing"
    /\ Reusable(req[k].path, req[k].config)
    /\ Reuse(k, req[k].path)
    /\ Goto(k, "ready")
    /\ Done(k)
    /\ UNCHANGED faults

\* Active with another configuration, attached or not: the lease is dropped.
InitializeRefused(k) ==
    /\ pc[k] = "publishing"
    /\ EntriesFree
    /\ LET c == registry[req[k].path] IN
        c # NoContext /\ Usable(c) /\ ctx[c].config # req[k].config
    /\ creationLease' = [creationLease EXCEPT ![k] = NoFile]
    /\ Goto(k, "ready")
    /\ Done(k)
    /\ UNCHANGED <<diskVars, ctx, registry, detached, opening, bound, faults>>

\* The lease taken for creation becomes the new context's.
InitializeOpens(k) ==
    /\ pc[k] = "publishing"
    /\ LET c == registry[req[k].path] IN c # NoContext => ~Usable(c)
    /\ BeginOpen(k, req[k].path, req[k].config)
    /\ Goto(k, "leased")
    /\ UNCHANGED <<req, faults>>

-----------------------------------------------------------------------------
\* UninitializeProject: three calls with nothing held between them.

UninitializeChecks(k, p) ==
    /\ pc[k] = "ready"
    /\ bound[k] = NoContext
    /\ stateDir[p]
    /\ EntriesFree
    /\ registry[p] # NoContext => Attached(registry[p]) = {}
    /\ Handle(k, p, NoConfig, TRUE)
    /\ Goto(k, "uninitializing")
    /\ UNCHANGED <<registryVars, faults>>

UninitializeUnloads(k) ==
    /\ pc[k] = "uninitializing"
    /\ Unload(req[k].path)
    /\ Goto(k, "removing")
    /\ UNCHANGED <<req, faults>>

\* remove_dir_all, which may fail and leave what it has not reached.
UninitializeRemoves(k) ==
    /\ pc[k] = "removing"
    /\ \/ /\ stateDir' = [stateDir EXCEPT ![req[k].path] = FALSE]
          /\ dbFile' = [dbFile EXCEPT ![req[k].path] = NoFile]
          /\ lockFile' = [lockFile EXCEPT ![req[k].path] = NoFile]
       \/ UNCHANGED <<stateDir, dbFile, lockFile>>
    /\ Goto(k, "ready")
    /\ Done(k)
    /\ UNCHANGED <<otherLease, daemonVars, faults>>

-----------------------------------------------------------------------------

DaemonDies ==
    /\ ProcessDies
    /\ pc' = [k \in Connections |-> "ready"]
    /\ req' = [k \in Connections |-> NoRequest]

\* What a connection thread does on its own once a request is in hand.
OpenStep(k) ==
    OpenAcquiresLease(k) \/ OpenOpensStore(k) \/ OpenFails(k) \/ OpenPublishes(k)

InitializeStep(k) ==
    \/ InitializeFails(k) \/ InitializeAcquires(k) \/ InitializeCreates(k)
    \/ InitializeReuses(k) \/ InitializeRefused(k) \/ InitializeOpens(k)

ThreadStep(k) ==
    \/ OpenStep(k) \/ InitializeStep(k)
    \/ WriteEnds(k) \/ GuardUnloads(k) \/ StampDetached(k)
    \/ UninitializeUnloads(k) \/ UninitializeRemoves(k)

ClientStep(k) ==
    \/ Disconnect(k) \/ WriteBegins(k) \/ GuardFails(k)
    \/ \E p \in Projects : UninitializeChecks(k, p)
    \/ \E p \in Projects, g \in Configs :
        \/ HandshakeReuses(k, p, g) \/ HandshakeOpens(k, p, g)
        \/ InitializeChecks(k, p, g)

Reap == ReapIdle /\ UNCHANGED <<pc, req, faults>>

IdleClock(p) == IdleTimeoutPasses(p) /\ UNCHANGED <<pc, req, faults>>

OtherUnlocks(p) == OtherProcessUnlocks(p) /\ UNCHANGED <<pc, req, faults>>

DaemonStep ==
    \/ Reap
    \/ \E p \in Projects : IdleClock(p) \/ OtherUnlocks(p)

Fault ==
    /\ faults < MaxFaults
    /\ faults' = faults + 1
    /\ \/ DaemonDies
       \/ \E k \in Connections : OpenWithoutStore(k)
       \/ /\ \E p \in Projects :
                \/ OtherProcessLocks(p)
                \/ StateRemovedOutOfBand(p)
                \/ DatabaseReplacedOutOfBand(p)
          /\ UNCHANGED <<pc, req>>

Next ==
    \/ \E k \in Connections : ThreadStep(k) \/ ClientStep(k)
    \/ DaemonStep
    \/ Fault

Spec == Init /\ [][Next]_vars

\* Every thread that has a request in hand is scheduled and gets the entries
\* mutex in the end; the accept loop keeps reaping; the idle clock runs.
\* Clients, other processes and faults owe nothing.
Fairness ==
    /\ \A k \in Connections : SF_vars(ThreadStep(k))
    /\ SF_vars(Reap)
    /\ \A p \in Projects : WF_vars(IdleClock(p))

FairSpec == Spec /\ Fairness

-----------------------------------------------------------------------------
\* A usable context leaves the registry only when a thread unloads its path,
\* the process dies, or nobody is attached and either its idle interval ran
\* out or it is reopened with another configuration.
EvictionHasCause ==
    [][\A p \in Projects :
        LET c == registry[p] IN
        (c # NoContext /\ Usable(c) /\ registry'[p] # c) =>
            \/ \E k \in Connections : pc[k] \in {"unloading", "uninitializing"} /\ pc'[k] # pc[k]
            \/ \A d \in Contexts : ctx'[d] = Dropped
            \/ /\ Attached(c) = {}
               /\ \/ opening' # opening
                  \/ detached[p] = "elapsed" /\ ctx[c].config \notin PersistentConfigs]_vars

\* A write in flight keeps the project's lease to its end, whoever closes or
\* evicts its context meanwhile.
WriteKeepsLease ==
    [][\A k \in Connections :
        pc[k] = "writing" /\ pc'[k] = "writing" /\ bound[k] # NoContext =>
            ctx'[bound[k]].lease = ctx[bound[k]].lease]_vars

\* Every request is answered: the entries mutex is released on every path,
\* including the ones that fail half-way.
RequestsComplete ==
    \A k \in Connections :
        pc[k] # "ready" ~> pc[k] = "ready"

\* A context nobody attaches to again is unloaded, also when its last client
\* left without mark_detached.
Evictable(p) == Unattached(p) /\ ctx[registry[p]].config \notin PersistentConfigs

DetachedContextUnloads == \A p \in Projects : Evictable(p) ~> ~Evictable(p)

-----------------------------------------------------------------------------
\* What documents and comments of the repository say, and the code does not do.

\* runtime.md section 4: the lock acquired for creation is the handle the
\* published context owns; registry.rs: the context already published "owns
\* the authoritative handle" when the creator's lease is dropped.
CreationLeaseIsKept ==
    [][\A k \in Connections :
        pc[k] = "publishing" /\ pc'[k] = "ready" /\ creationLease[k] # NoFile
        /\ bound'[k] # NoContext =>
            ctx'[bound'[k]].lease # NoFile]_vars

\* runtime.md section 4: removal is refused while another connection is
\* attached to the context, and the durable state is left intact.
RemovalSparesAttachedProjects ==
    [][\A k \in Connections :
        pc[k] = "removing" /\ ~stateDir'[req[k].path] /\ registry[req[k].path] # NoContext
            => Attached(registry[req[k].path]) = {}]_vars

\* ADR-026 section 2.2: the context whose identity is stale is the one that is
\* closed and evicted.
GuardUnloadsStaleOnly ==
    [][\A k \in Connections :
        pc[k] = "unloading" /\ pc'[k] = "ready" /\ registry[req[k].path] # NoContext
            => ~Usable(registry[req[k].path])]_vars

\* runtime.md section 7: no write goes on through a stale path. A context that
\* the identity check lets write, and that has a store at all, has open the very
\* file it identifies.
WritesReachTheDatabase ==
    [][\A k \in Connections :
        pc[k] = "ready" /\ pc'[k] = "writing" /\ ctx[bound[k]].store # NoFile =>
            ctx[bound[k]].store = ctx[bound[k]].identity]_vars
=============================================================================
