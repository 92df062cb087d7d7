----------------------- MODULE ProjectLifecycleProofs -----------------------
(***************************************************************************)
(* What holds of ProjectLifecycle for any connections, projects,           *)
(* configurations and bounds.                                              *)
(*                                                                         *)
(* First, each operation of ContextRegistry preserves RegistryInv, the     *)
(* inductive invariant behind OpenContextIsRegistered,                     *)
(* StampedEntryIsDetached and LeaseExclusive.                              *)
(***************************************************************************)
EXTENDS ProjectLifecycle, TLAPS

\* An entry is a context of that very path (so one context has one entry).
EntriesSound ==
    \A p \in Projects : registry[p] # NoContext => ctx[registry[p]].path = p

\* A thread is never bound to a context that is gone.
BindingsLive ==
    \A k \in Connections : bound[k] # NoContext => ctx[bound[k]] # Dropped

\* The context being opened is nobody's yet, and its path has no entry.
OpeningSound ==
    opening # NoContext =>
        /\ ctx[opening].path \in Projects
        /\ registry[ctx[opening].path] = NoContext
        /\ \A k \in Connections : bound[k] # opening

SharingInv ==
    /\ RegistryTypeOK
    /\ EntriesSound
    /\ BindingsLive
    /\ OpeningSound
    /\ OpenContextIsRegistered
    /\ StampedEntryIsDetached

RegistryInv == SharingInv /\ LeaseExclusive

-----------------------------------------------------------------------------
\* Closing and dropping contexts.

\* A context is either gone or a record with a path; identifiers are not 0.
LEMMA ContextShape ==
    ASSUME RegistryTypeOK, NEW c \in Contexts
    PROVE  /\ c # NoContext
           /\ ctx[c] = Dropped \/ ctx[c] \in Context
           /\ ctx[c] = Dropped <=> ctx[c].path \notin Projects
           /\ ctx[c] \in Context => ctx[c] # Dropped
    BY ConstantsAssumption
    DEF RegistryTypeOK, Contexts, Context, Dropped, NoContext, NoFile

\* Dropping keeps the contexts the registry or a thread still refers to.
LEMMA DropsUnreferenced ==
    ASSUME NEW table, ctx' = AfterDrops(table)
    PROVE  /\ ctx' \in [Contexts -> {table[c] : c \in Contexts} \cup {Dropped}]
           /\ \A c \in Contexts : ctx'[c] = table[c] \/ ctx'[c] = Dropped
           /\ \A c \in Contexts, p \in Projects : registry'[p] = c => ctx'[c] = table[c]
           /\ \A c \in Contexts, k \in Connections : bound'[k] = c => ctx'[c] = table[c]
           /\ \A c \in Contexts : opening' = c => ctx'[c] = table[c]
           /\ \A c \in Contexts :
                ~(\/ opening' = c
                  \/ \E p \in Projects : registry'[p] = c
                  \/ \E k \in Connections : bound'[k] = c) => ctx'[c] = Dropped
    BY DEF AfterDrops, Referenced

\* Closing a context changes neither its path nor its lease.
LEMMA ShutKeeps ==
    ASSUME NEW r \in Context
    PROVE  /\ r # Dropped
           /\ Shut(r) \in Context
           /\ Shut(r) # Dropped
           /\ Shut(r).path = r.path
           /\ Shut(r).config = r.config
           /\ Shut(r).lease = r.lease
           /\ Shut(r).closed = TRUE
<1>1. Shut(r) \in Context /\ Shut(r).closed = TRUE
    BY DEF Shut, Context
<1>2. Shut(r).path = r.path /\ Shut(r).config = r.config /\ Shut(r).lease = r.lease
    BY DEF Shut, Context
<1>3. \A q \in Context : q.path # NoProject
    BY ConstantsAssumption DEF Context
<1>4. Dropped.path = NoProject
    BY DEF Dropped
<1> QED
    BY <1>1, <1>2, <1>3, <1>4

LEMMA ReuseShares ==
    ASSUME SharingInv, NEW k \in Connections, NEW p \in Projects,
           registry[p] # NoContext, Reuse(k, p)
    PROVE  SharingInv'
<1> USE DEF SharingInv, Reuse, diskVars
<1>1. registry[p] \in Contexts /\ ctx[registry[p]] # Dropped
    BY ContextShape DEF RegistryTypeOK, EntriesSound
<1>2. RegistryTypeOK'
    BY <1>1, DropsUnreferenced DEF RegistryTypeOK, DetachedSince
<1>3. EntriesSound'
    BY DropsUnreferenced DEF EntriesSound, RegistryTypeOK
<1>4. BindingsLive'
  <2>1. \A l \in Connections : bound'[l] # NoContext => ctx[bound'[l]] # Dropped
    BY <1>1 DEF BindingsLive, RegistryTypeOK
  <2> QED
    BY <2>1, <1>2, DropsUnreferenced DEF BindingsLive, RegistryTypeOK
<1>5. OpeningSound'
    BY DEF OpeningSound, EntriesFree
<1>6. OpenContextIsRegistered'
    BY DropsUnreferenced DEF OpenContextIsRegistered, EntriesFree
<1>7. StampedEntryIsDetached'
    BY DEF StampedEntryIsDetached, Unattached, Attached, EntriesSound, RegistryTypeOK
<1> QED
    BY <1>2, <1>3, <1>4, <1>5, <1>6, <1>7

\* Whatever moves only files, locks and leases outside contexts.
LEMMA FilesShare ==
    ASSUME SharingInv, UNCHANGED <<ctx, registry, detached, opening, bound>>,
           RegistryTypeOK'
    PROVE  SharingInv'
    BY DEF SharingInv, EntriesSound, BindingsLive, OpeningSound, OpenContextIsRegistered,
           StampedEntryIsDetached, Unattached, Attached

LEMMA BeginOpenShares ==
    ASSUME SharingInv, NEW k \in Connections, NEW p \in Projects,
           NEW g \in Configs \cup {NoConfig}, BeginOpen(k, p, g)
    PROVE  SharingInv'
<1> USE DEF SharingInv, diskVars
<1> DEFINE new == [path |-> p, config |-> g, store |-> NoFile, identity |-> NoFile,
                   lease |-> creationLease[k], closed |-> FALSE]
<1>1. /\ opening = NoContext
      /\ registry' = [registry EXCEPT ![p] = NoContext]
      /\ detached' = [detached EXCEPT ![p] = "none"]
      /\ creationLease' = [creationLease EXCEPT ![k] = NoFile]
      /\ UNCHANGED <<stateDir, dbFile, lockFile, otherLease, bound>>
    BY DEF BeginOpen, EntriesFree
<1>2. PICK c \in Contexts :
        /\ ctx[c] = Dropped
        /\ opening' = c
        /\ ctx' = AfterDrops([Closing({registry[p]}) EXCEPT ![c] = new])
    BY DEF BeginOpen, FreshContext
<1> DEFINE table == [Closing({registry[p]}) EXCEPT ![c] = new]
<1>3. new \in Context
    BY DEF RegistryTypeOK, Context
<1>4. \A d \in Contexts :
        /\ d = c => table[d] = new
        /\ d # c /\ d # registry[p] => table[d] = ctx[d]
        /\ d # c /\ d = registry[p] => table[d] = Shut(ctx[d])
    BY DEF Closing
<1> HIDE DEF table
<1>5. \A d \in Contexts :
        /\ ctx'[d] = table[d] \/ ctx'[d] = Dropped
        /\ opening' = d => ctx'[d] = table[d]
        /\ \A q \in Projects : registry'[q] = d => ctx'[d] = table[d]
        /\ \A l \in Connections : bound'[l] = d => ctx'[d] = table[d]
    BY <1>2, DropsUnreferenced DEF table
<1>6. registry[p] # NoContext => ctx[registry[p]] \in Context /\ Shut(ctx[registry[p]]) \in Context
  <2>1. registry[p] # NoContext => registry[p] \in Contexts /\ ctx[registry[p]].path \in Projects
    BY DEF EntriesSound, RegistryTypeOK
  <2> QED
    BY <2>1, ContextShape, ShutKeeps
<1>7. \A d \in Contexts : table[d] \in Context \cup {Dropped}
    BY <1>3, <1>4, <1>6, ContextShape DEF RegistryTypeOK, Contexts, NoContext
<1>8. RegistryTypeOK'
  <2>1. ctx' \in [Contexts -> Context \cup {Dropped}]
    BY <1>2, <1>5, <1>7 DEF AfterDrops
  <2> QED
    BY <2>1, <1>1, <1>2 DEF RegistryTypeOK, DetachedSince
<1>9. EntriesSound'
  <2>1. ASSUME NEW q \in Projects, registry'[q] # NoContext
        PROVE  ctx'[registry'[q]].path = q
    <3>1. q # p /\ registry'[q] = registry[q] /\ registry[q] \in Contexts
        BY <2>1, <1>1 DEF RegistryTypeOK
    <3>2. registry[q] # c /\ registry[q] # registry[p]
        BY <3>1, <2>1, <1>2, ContextShape DEF EntriesSound, RegistryTypeOK
    <3> QED
        BY <3>1, <3>2, <2>1, <1>4, <1>5 DEF EntriesSound
  <2> QED
    BY <2>1 DEF EntriesSound
<1>10. \A l \in Connections : bound'[l] # NoContext =>
            bound'[l] \in Contexts /\ bound'[l] # c /\ ctx'[bound'[l]] # Dropped
  <2>1. ASSUME NEW l \in Connections, bound'[l] # NoContext
        PROVE  bound'[l] \in Contexts /\ bound'[l] # c /\ ctx'[bound'[l]] # Dropped
    <3>1. bound'[l] \in Contexts /\ bound'[l] # c /\ ctx[bound'[l]] # Dropped
        BY <2>1, <1>1, <1>2 DEF BindingsLive, RegistryTypeOK
    <3>2. table[bound'[l]] # Dropped
        BY <3>1, <1>4, <1>6, ShutKeeps, ContextShape, ZenonT(40)
    <3> QED
        BY <3>1, <3>2, <1>5
  <2> QED
    BY <2>1
<1>11. BindingsLive'
    BY <1>10 DEF BindingsLive
<1>12. OpeningSound'
  <2>1. registry'[p] = NoContext
    BY <1>1 DEF RegistryTypeOK
  <2>2. ctx'[c] = new
    BY <1>2, <1>4, <1>5
  <2> QED
    BY <2>1, <2>2, <1>2, <1>10 DEF OpeningSound
<1>13. OpenContextIsRegistered'
  <2>1. ASSUME NEW d \in Contexts, ctx'[d] # Dropped, ~ctx'[d].closed, d # opening'
        PROVE  registry'[ctx'[d].path] = d
    <3>1. d # c /\ ctx'[d] = table[d]
        BY <2>1, <1>2, <1>5
    <3>2. d # registry[p]
      <4>1. SUFFICES ASSUME d = registry[p] PROVE FALSE
        OBVIOUS
      <4>2. ctx[d] \in Context
        BY <4>1, <1>6, ContextShape
      <4>3. table[d] = Shut(ctx[d])
        BY <4>1, <3>1, <1>4
      <4>4. ctx'[d].closed = TRUE
        BY <3>1, <4>2, <4>3, ShutKeeps
      <4> QED
        BY <2>1, <4>4
    <3>3. ctx'[d] = ctx[d]
        BY <3>1, <3>2, <1>4
    <3>4. registry[ctx[d].path] = d
        BY <3>3, <2>1, <1>1, ContextShape DEF OpenContextIsRegistered, RegistryTypeOK
    <3>5. ctx[d].path # p /\ ctx[d].path \in Projects
        BY <3>2, <3>3, <3>4, <2>1, ContextShape
    <3> QED
        BY <3>3, <3>4, <3>5, <1>1 DEF RegistryTypeOK
  <2> QED
    BY <2>1 DEF OpenContextIsRegistered
<1>14. StampedEntryIsDetached'
    BY <1>1 DEF StampedEntryIsDetached, Unattached, Attached, RegistryTypeOK
<1> QED
    BY <1>8, <1>9, <1>11, <1>12, <1>13, <1>14

\* Giving up entries (closing their contexts), bindings or the opening.
LEMMA LettingGoShares ==
    ASSUME SharingInv, NEW closed, ctx' = AfterDrops(Closing(closed)),
           UNCHANGED <<diskVars, creationLease>>,
           opening' \in {opening, NoContext},
           registry' \in [Projects -> Contexts \cup {NoContext}],
           \A q \in Projects :
                registry'[q] # registry[q] => registry'[q] = NoContext /\ registry[q] \in closed,
           bound' \in [Connections -> Contexts \cup {NoContext}],
           \A l \in Connections : bound'[l] \in {bound[l], NoContext},
           detached' \in [Projects -> DetachedSince],
           StampedEntryIsDetached'
    PROVE  SharingInv'
<1> USE DEF SharingInv, diskVars
<1> DEFINE table == Closing(closed)
<1>1. \A d \in Contexts : table[d] = IF d \in closed THEN Shut(ctx[d]) ELSE ctx[d]
    BY DEF Closing
<1> HIDE DEF table
<1>2. \A d \in Contexts : ctx[d] \in Context =>
        table[d] \in Context /\ table[d] # Dropped /\ table[d].path = ctx[d].path
  <2>1. \A d \in Contexts : d \notin closed => table[d] = ctx[d]
    BY <1>1
  <2>2. \A d \in Contexts : d \in closed => table[d] = Shut(ctx[d])
    BY <1>1
  <2> QED
    BY <2>1, <2>2, ShutKeeps, ZenonT(40)
<1>3. /\ \A d \in Contexts : ctx'[d] = table[d] \/ ctx'[d] = Dropped
      /\ \A d \in Contexts, p \in Projects : registry'[p] = d => ctx'[d] = table[d]
      /\ \A d \in Contexts, l \in Connections : bound'[l] = d => ctx'[d] = table[d]
      /\ \A d \in Contexts : opening' = d => ctx'[d] = table[d]
      /\ \A d \in Contexts :
            ~(\/ opening' = d
              \/ \E p \in Projects : registry'[p] = d
              \/ \E l \in Connections : bound'[l] = d) => ctx'[d] = Dropped
    BY DropsUnreferenced DEF table
<1>4. \A d \in Contexts :
        \/ \E p \in Projects : registry'[p] = d
        \/ \E l \in Connections : bound'[l] = d
        \/ opening' = d
        => ctx[d] \in Context
  <2>1. ASSUME NEW d \in Contexts, NEW p \in Projects, registry'[p] = d PROVE ctx[d] \in Context
    <3>1. registry[p] = d /\ d # NoContext
        BY <2>1, ContextShape
    <3> QED
        BY <3>1, ContextShape DEF EntriesSound
  <2>2. ASSUME NEW d \in Contexts, NEW l \in Connections, bound'[l] = d PROVE ctx[d] \in Context
    BY <2>2, ContextShape DEF BindingsLive
  <2>3. ASSUME NEW d \in Contexts, opening' = d PROVE ctx[d] \in Context
    BY <2>3, ContextShape DEF OpeningSound
  <2> QED
    BY <2>1, <2>2, <2>3
<1>5. RegistryTypeOK'
  <2>1. \A d \in Contexts : ctx'[d] \in Context \cup {Dropped}
    BY <1>2, <1>3, <1>4
  <2>2. ctx' \in [Contexts -> Context \cup {Dropped}]
    BY <2>1 DEF AfterDrops
  <2> QED
    BY <2>2 DEF RegistryTypeOK
<1>6. EntriesSound'
  <2>1. ASSUME NEW p \in Projects, registry'[p] # NoContext PROVE ctx'[registry'[p]].path = p
    <3>1. registry'[p] \in Contexts /\ registry'[p] = registry[p] /\ ctx[registry[p]].path = p
        BY <2>1 DEF EntriesSound
    <3> QED
        BY <3>1, <1>2, <1>3, <1>4
  <2> QED
    BY <2>1 DEF EntriesSound
<1>7. BindingsLive'
    BY <1>2, <1>3, <1>4 DEF BindingsLive
<1>8. OpeningSound'
  <2>1. ASSUME opening' # NoContext
        PROVE  /\ ctx'[opening'].path \in Projects
               /\ registry'[ctx'[opening'].path] = NoContext
               /\ \A l \in Connections : bound'[l] # opening'
    <3>1. opening' = opening /\ opening \in Contexts /\ ctx[opening].path \in Projects
        BY <2>1 DEF OpeningSound, RegistryTypeOK
    <3>2. ctx'[opening].path = ctx[opening].path
        BY <3>1, <1>2, <1>3, <1>4
    <3> QED
        BY <2>1, <3>1, <3>2 DEF OpeningSound
  <2> QED
    BY <2>1 DEF OpeningSound
<1>9. OpenContextIsRegistered'
  <2>1. ASSUME NEW d \in Contexts, ctx'[d] # Dropped, ~ctx'[d].closed, d # opening'
        PROVE  registry'[ctx'[d].path] = d
    <3>1. ctx'[d] = table[d] /\ ctx[d] \in Context
        BY <2>1, <1>3, <1>4
    <3>2. d \notin closed
      <4>1. d \in closed => ctx'[d] = Shut(ctx[d])
        BY <3>1, <1>1
      <4>2. Shut(ctx[d]).closed = TRUE
        BY <3>1, ShutKeeps
      <4> QED
        BY <2>1, <4>1, <4>2
    <3>3. ctx'[d] = ctx[d]
        BY <3>1, <3>2, <1>1
    <3>4. d # opening
      <4>1. SUFFICES ASSUME d = opening, opening' = NoContext PROVE FALSE
        BY <2>1
      <4>2. /\ ctx[d].path \in Projects
            /\ \A l \in Connections : bound'[l] # d
            /\ registry[ctx[d].path] = NoContext
            /\ d # NoContext
        BY <4>1, ContextShape DEF OpeningSound
      <4>3. \A p \in Projects : registry'[p] # d
        BY <4>2 DEF EntriesSound
      <4> QED
        BY <2>1, <4>1, <4>2, <4>3, <1>3
    <3>5. registry[ctx[d].path] = d /\ ctx[d].path \in Projects
        BY <2>1, <3>1, <3>3, <3>4, ContextShape DEF OpenContextIsRegistered
    <3> QED
        BY <3>1, <3>2, <3>3, <3>5, ContextShape DEF OpenContextIsRegistered
  <2> QED
    BY <2>1 DEF OpenContextIsRegistered
<1> QED
    BY <1>5, <1>6, <1>7, <1>8, <1>9

LEMMA ClosingNobody ==
    ASSUME RegistryTypeOK
    PROVE  Closing({}) = ctx
    BY DEF Closing, RegistryTypeOK

LEMMA AbandonOpenShares ==
    ASSUME SharingInv, AbandonOpen
    PROVE  SharingInv'
<1> USE DEF SharingInv, AbandonOpen, diskVars
<1>1. ctx' = AfterDrops(Closing({}))
    BY ClosingNobody
<1>2. StampedEntryIsDetached'
    BY DEF StampedEntryIsDetached, Unattached, Attached
<1> QED
    BY <1>1, <1>2, LettingGoShares DEF RegistryTypeOK

LEMMA UnloadShares ==
    ASSUME SharingInv, NEW p \in Projects, Unload(p)
    PROVE  SharingInv'
<1> USE DEF SharingInv, Unload, diskVars
<1>1. StampedEntryIsDetached'
    BY DEF StampedEntryIsDetached, Unattached, Attached, RegistryTypeOK
<1>2. \A q \in Projects :
        registry'[q] # registry[q] => registry'[q] = NoContext /\ registry[q] \in {registry[p]}
    BY DEF RegistryTypeOK
<1> QED
    BY <1>1, <1>2, LettingGoShares DEF RegistryTypeOK, DetachedSince

LEMMA DetachShares ==
    ASSUME SharingInv, NEW k \in Connections, NEW closed, Detach(k, closed)
    PROVE  SharingInv'
<1> USE DEF SharingInv, Detach, diskVars
<1>1. StampedEntryIsDetached'
    BY DEF StampedEntryIsDetached, Unattached, Attached, RegistryTypeOK
<1> QED
    BY <1>1, LettingGoShares DEF RegistryTypeOK

LEMMA ReapIdleShares ==
    ASSUME SharingInv, ReapIdle
    PROVE  SharingInv'
<1> USE DEF SharingInv, ReapIdle, diskVars
<1>1. /\ registry' \in [Projects -> Contexts \cup {NoContext}]
      /\ detached' \in [Projects -> DetachedSince]
    BY DEF RegistryTypeOK, DetachedSince
<1>2. \A q \in Projects : registry'[q] # registry[q] =>
        registry'[q] = NoContext /\ registry[q] \in {registry[p] : p \in Expired}
    OBVIOUS
<1>3. StampedEntryIsDetached'
  <2>1. ASSUME NEW q \in Projects, detached'[q] # "none" PROVE Unattached(q)'
    <3>1. q \notin Expired /\ Unattached(q)
        BY <2>1 DEF StampedEntryIsDetached
    <3> QED
        BY <3>1 DEF Unattached, Attached
  <2> QED
    BY <2>1 DEF StampedEntryIsDetached
<1> QED
    BY <1>1, <1>2, <1>3, LettingGoShares DEF RegistryTypeOK

LEMMA MarkDetachedShares ==
    ASSUME SharingInv, NEW p \in Projects, MarkDetached(p)
    PROVE  SharingInv'
<1> USE DEF SharingInv, MarkDetached, diskVars
<1>1. RegistryTypeOK'
    BY DEF RegistryTypeOK, DetachedSince
<1>2. StampedEntryIsDetached'
    BY DEF StampedEntryIsDetached, Unattached, Attached, RegistryTypeOK
<1> QED
    BY <1>1, <1>2
    DEF EntriesSound, BindingsLive, OpeningSound, OpenContextIsRegistered

LEMMA IdleTimeoutShares ==
    ASSUME SharingInv, NEW p \in Projects, IdleTimeoutPasses(p)
    PROVE  SharingInv'
<1> USE DEF SharingInv, IdleTimeoutPasses, diskVars
<1>1. RegistryTypeOK'
    BY DEF RegistryTypeOK, DetachedSince
<1>2. StampedEntryIsDetached'
    BY DEF StampedEntryIsDetached, Unattached, Attached, RegistryTypeOK
<1> QED
    BY <1>1, <1>2
    DEF EntriesSound, BindingsLive, OpeningSound, OpenContextIsRegistered

LEMMA ProcessDiesShares ==
    ASSUME SharingInv, ProcessDies
    PROVE  SharingInv'
<1> USE DEF SharingInv, ProcessDies, diskVars
<1>1. RegistryTypeOK'
    BY DEF RegistryTypeOK, DetachedSince
<1> QED
    BY <1>1 DEF EntriesSound, BindingsLive, OpeningSound, OpenContextIsRegistered,
                StampedEntryIsDetached

\* What happens to the context being opened is nobody's business but its own.
LEMMA OpeningUpdateShares ==
    ASSUME SharingInv, opening # NoContext,
           UNCHANGED <<registry, detached, opening, bound, creationLease, otherLease>>,
           stateDir' \in [Projects -> BOOLEAN],
           dbFile' \in [Projects -> Files \cup {NoFile}],
           lockFile' \in [Projects -> Files \cup {NoFile}],
           ctx' \in [Contexts -> Context \cup {Dropped}],
           ctx'[opening].path = ctx[opening].path,
           \A c \in Contexts : c # opening => ctx'[c] = ctx[c]
    PROVE  SharingInv'
<1> USE DEF SharingInv
<1>1. RegistryTypeOK'
    BY DEF RegistryTypeOK
<1>2. \A p \in Projects : registry[p] # opening
    BY DEF EntriesSound, OpeningSound
<1>3. EntriesSound'
    BY <1>2 DEF EntriesSound, RegistryTypeOK
<1>4. BindingsLive' /\ OpeningSound'
    BY DEF BindingsLive, OpeningSound, RegistryTypeOK
<1>5. OpenContextIsRegistered' /\ StampedEntryIsDetached'
    BY DEF OpenContextIsRegistered, StampedEntryIsDetached, Unattached, Attached
<1> QED
    BY <1>1, <1>3, <1>4, <1>5

LEMMA AcquireShares ==
    ASSUME SharingInv, AcquireForContext
    PROVE  SharingInv'
<1> USE DEF SharingInv
<1>1. opening \in Contexts /\ ctx[opening] \in Context
    BY ContextShape DEF AcquireForContext, RegistryTypeOK, OpeningSound
<1>2. PICK f \in Files, lease \in Files \cup {NoFile} :
        /\ lockFile' = [lockFile EXCEPT ![ctx[opening].path] = f]
        /\ ctx' = [ctx EXCEPT ![opening].lease = lease]
    BY DEF AcquireForContext
<1>3. [ctx[opening] EXCEPT !.lease = lease] \in Context
    BY <1>1 DEF Context
<1>4. ctx' \in [Contexts -> Context \cup {Dropped}] /\ ctx'[opening].path = ctx[opening].path
    BY <1>1, <1>2, <1>3 DEF RegistryTypeOK, Context
<1>5. /\ lockFile' \in [Projects -> Files \cup {NoFile}]
      /\ \A c \in Contexts : c # opening => ctx'[c] = ctx[c]
    BY <1>2 DEF RegistryTypeOK
<1>6. /\ stateDir' \in [Projects -> BOOLEAN]
      /\ dbFile' \in [Projects -> Files \cup {NoFile}]
    BY DEF AcquireForContext, RegistryTypeOK
<1> QED
    BY <1>1, <1>4, <1>5, <1>6, OpeningUpdateShares DEF AcquireForContext

LEMMA OpenStoreShares ==
    ASSUME SharingInv, OpenStore
    PROVE  SharingInv'
<1> USE DEF SharingInv, OpenStore
<1>1. opening \in Contexts /\ ctx[opening] \in Context
    BY ContextShape DEF RegistryTypeOK, OpeningSound
<1>2. CASE UNCHANGED <<dbFile, ctx>>
    BY <1>1, <1>2, FilesShare DEF RegistryTypeOK
<1>3. CASE \E f \in Files :
            /\ dbFile' = [dbFile EXCEPT ![ctx[opening].path] = f]
            /\ ctx' = [ctx EXCEPT ![opening].store = f]
  <2>1. PICK f \in Files :
            /\ dbFile' = [dbFile EXCEPT ![ctx[opening].path] = f]
            /\ ctx' = [ctx EXCEPT ![opening].store = f]
    BY <1>3
  <2>2. [ctx[opening] EXCEPT !.store = f] \in Context
    BY <1>1 DEF Context
  <2>3. ctx' \in [Contexts -> Context \cup {Dropped}] /\ ctx'[opening].path = ctx[opening].path
    BY <1>1, <2>1, <2>2 DEF RegistryTypeOK, Context
  <2>4. /\ dbFile' \in [Projects -> Files \cup {NoFile}]
        /\ \A c \in Contexts : c # opening => ctx'[c] = ctx[c]
    BY <2>1 DEF RegistryTypeOK
  <2> QED
    BY <1>1, <2>3, <2>4, OpeningUpdateShares DEF RegistryTypeOK
<1> QED
    BY <1>2, <1>3

LEMMA PublishShares ==
    ASSUME SharingInv, NEW k \in Connections, PublishContext(k)
    PROVE  SharingInv'
<1> USE DEF SharingInv, diskVars
<1> DEFINE p == ctx[opening].path
           table == [ctx EXCEPT ![opening].identity = dbFile[p]]
<1>1. /\ opening \in Contexts /\ ctx[opening] \in Context /\ p \in Projects
      /\ registry[p] = NoContext
      /\ \A l \in Connections : bound[l] # opening
    BY ContextShape DEF PublishContext, RegistryTypeOK, OpeningSound
<1>2. /\ registry' = [registry EXCEPT ![p] = opening]
      /\ bound' = [bound EXCEPT ![k] = opening]
      /\ opening' = NoContext
      /\ UNCHANGED <<diskVars, detached, creationLease>>
      /\ ctx' = AfterDrops(table)
    BY DEF PublishContext
<1>3. table[opening] \in Context /\ table[opening].path = p
    BY <1>1 DEF RegistryTypeOK, Context
<1>4. \A c \in Contexts : c # opening => table[c] = ctx[c]
    BY DEF RegistryTypeOK
<1> HIDE DEF p, table
<1>5. /\ \A c \in Contexts : ctx'[c] = table[c] \/ ctx'[c] = Dropped
      /\ \A c \in Contexts, q \in Projects : registry'[q] = c => ctx'[c] = table[c]
      /\ \A c \in Contexts, l \in Connections : bound'[l] = c => ctx'[c] = table[c]
    BY <1>2, DropsUnreferenced
<1>6. RegistryTypeOK'
  <2>1. ctx' \in [Contexts -> Context \cup {Dropped}]
    BY <1>2, <1>3, <1>4, <1>5, ContextShape DEF AfterDrops
  <2> QED
    BY <2>1, <1>1, <1>2 DEF RegistryTypeOK
<1>7. registry'[p] = opening /\ bound'[k] = opening
    BY <1>1, <1>2 DEF RegistryTypeOK
<1>8. EntriesSound'
  <2>1. ASSUME NEW q \in Projects, registry'[q] # NoContext PROVE ctx'[registry'[q]].path = q
    <3>1. CASE q = p
        BY <3>1, <1>1, <1>3, <1>5, <1>7
    <3>2. CASE q # p
      <4>1. registry'[q] = registry[q] /\ registry[q] \in Contexts
        BY <3>2, <2>1, <1>2 DEF RegistryTypeOK
      <4>2. ctx[registry[q]].path = q /\ registry[q] # opening
        BY <4>1, <3>2, <2>1, <1>1 DEF EntriesSound, p
      <4> QED
        BY <4>1, <4>2, <1>4, <1>5
    <3> QED
        BY <3>1, <3>2
  <2> QED
    BY <2>1 DEF EntriesSound
<1>9. BindingsLive'
  <2>1. ASSUME NEW l \in Connections, bound'[l] # NoContext PROVE ctx'[bound'[l]] # Dropped
    <3>1. CASE l = k
        BY <3>1, <1>1, <1>3, <1>5, <1>7, ShutKeeps
    <3>2. CASE l # k
      <4>1. bound'[l] = bound[l] /\ bound[l] \in Contexts /\ bound[l] # opening
        BY <3>2, <2>1, <1>1, <1>2 DEF RegistryTypeOK
      <4> QED
        BY <4>1, <2>1, <1>4, <1>5 DEF BindingsLive
    <3> QED
        BY <3>1, <3>2
  <2> QED
    BY <2>1 DEF BindingsLive
<1>10. OpeningSound'
    BY <1>2 DEF OpeningSound
<1>11. OpenContextIsRegistered'
  <2>1. ASSUME NEW c \in Contexts, ctx'[c] # Dropped, ~ctx'[c].closed
        PROVE  registry'[ctx'[c].path] = c
    <3>1. ctx'[c] = table[c]
        BY <2>1, <1>5
    <3>2. CASE c = opening
        BY <3>1, <3>2, <1>3, <1>7
    <3>3. CASE c # opening
      <4>1. ctx'[c] = ctx[c] /\ registry[ctx[c].path] = c
        BY <3>1, <3>3, <2>1, <1>4 DEF OpenContextIsRegistered
      <4>2. ctx[c].path \in Projects /\ ctx[c].path # p
        BY <4>1, <2>1, <1>1, ContextShape
      <4> QED
        BY <4>1, <4>2, <1>2 DEF RegistryTypeOK
    <3> QED
        BY <3>2, <3>3
  <2> QED
    BY <2>1 DEF OpenContextIsRegistered
<1>12. StampedEntryIsDetached'
  <2>1. ASSUME NEW q \in Projects, detached'[q] # "none" PROVE Unattached(q)'
    <3>1. /\ registry[q] # NoContext /\ q # p
          /\ \A l \in Connections : bound[l] # registry[q]
        BY <2>1, <1>1, <1>2 DEF StampedEntryIsDetached, Unattached, Attached
    <3>2. registry'[q] = registry[q] /\ registry[q] # opening
        BY <3>1, <1>1, <1>2 DEF RegistryTypeOK, EntriesSound, p
    <3> QED
        BY <3>1, <3>2, <1>2 DEF Unattached, Attached, RegistryTypeOK
  <2> QED
    BY <2>1 DEF StampedEntryIsDetached
<1> QED
    BY <1>6, <1>8, <1>9, <1>10, <1>11, <1>12

-----------------------------------------------------------------------------
\* Leases: a step gives leases up, hands one over, or takes one nobody holds.

LeasesOnlyGivenUp ==
    /\ \A c \in Contexts : ctx'[c].lease \in {ctx[c].lease, NoFile}
    /\ \A k \in Connections : creationLease'[k] \in {creationLease[k], NoFile}
    /\ \A p \in Projects : otherLease'[p] \in {otherLease[p], NoFile}

LEMMA GivingUpIsExclusive ==
    ASSUME LeaseExclusive, LeasesOnlyGivenUp
    PROVE  LeaseExclusive'
    BY DEF LeaseExclusive, LeasesOnlyGivenUp

\* Nothing else than the fate of contexts: closed or dropped.
LEMMA DroppingGivesUp ==
    ASSUME RegistryTypeOK, NEW closed, ctx' = AfterDrops(Closing(closed)),
           UNCHANGED otherLease,
           \A k \in Connections : creationLease'[k] \in {creationLease[k], NoFile}
    PROVE  LeasesOnlyGivenUp
<1>1. \A c \in Contexts : Closing(closed)[c].lease = ctx[c].lease
  <2>1. ASSUME NEW c \in Contexts PROVE Closing(closed)[c].lease = ctx[c].lease
    <3>1. Closing(closed)[c] = ctx[c] \/ Closing(closed)[c] = Shut(ctx[c])
        BY DEF Closing
    <3>2. Shut(Dropped).lease = Dropped.lease
        BY DEF Shut, Dropped
    <3> QED
        BY <3>1, <3>2, ContextShape, ShutKeeps
  <2> QED
    BY <2>1
<1>2. \A c \in Contexts : ctx'[c] = Closing(closed)[c] \/ ctx'[c] = Dropped
    BY DropsUnreferenced
<1>3. Dropped.lease = NoFile
    BY DEF Dropped
<1> QED
    BY <1>1, <1>2, <1>3 DEF LeasesOnlyGivenUp

\* A new context takes over the lease of the thread that opens it.
LEMMA BeginOpenIsExclusive ==
    ASSUME RegistryTypeOK, LeaseExclusive, NEW k \in Connections, NEW p \in Projects,
           NEW g \in Configs \cup {NoConfig}, BeginOpen(k, p, g)
    PROVE  LeaseExclusive'
<1> DEFINE new == [path |-> p, config |-> g, store |-> NoFile, identity |-> NoFile,
                   lease |-> creationLease[k], closed |-> FALSE]
<1>1. PICK c \in Contexts :
        /\ ctx[c] = Dropped
        /\ ctx' = AfterDrops([Closing({registry[p]}) EXCEPT ![c] = new])
    BY DEF BeginOpen, FreshContext
<1> DEFINE table == [Closing({registry[p]}) EXCEPT ![c] = new]
<1>2. table[c].lease = creationLease[k]
    BY DEF Closing
<1>3. \A d \in Contexts : d # c => table[d].lease = ctx[d].lease
  <2>1. ASSUME NEW d \in Contexts, d # c PROVE table[d].lease = ctx[d].lease
    <3>1. table[d] = ctx[d] \/ table[d] = Shut(ctx[d])
        BY <2>1 DEF Closing
    <3>2. Shut(Dropped).lease = Dropped.lease
        BY DEF Shut, Dropped
    <3> HIDE DEF table
    <3> QED
        BY <3>1, <3>2, ContextShape, ShutKeeps
  <2> QED
    BY <2>1
<1> HIDE DEF table
<1>4. \A d \in Contexts : ctx'[d].lease \in {table[d].lease, NoFile}
  <2>1. \A d \in Contexts : ctx'[d] = table[d] \/ ctx'[d] = Dropped
    BY <1>1, DropsUnreferenced DEF table
  <2>2. Dropped.lease = NoFile
    BY DEF Dropped
  <2> QED
    BY <2>1, <2>2
<1>5. /\ creationLease' \in [Connections -> Files \cup {NoFile}]
      /\ creationLease'[k] = NoFile
      /\ \A l \in Connections : l # k => creationLease'[l] = creationLease[l]
      /\ otherLease' = otherLease
    BY DEF BeginOpen, diskVars, RegistryTypeOK
<1> QED
    BY <1>2, <1>3, <1>4, <1>5 DEF LeaseExclusive

\* try_lock_exclusive succeeds for one handle only.
LEMMA AcquireIsExclusive ==
    ASSUME RegistryTypeOK, LeaseExclusive, AcquireForContext
    PROVE  LeaseExclusive'
<1>1. PICK lease \in Files \cup {NoFile} :
        /\ ctx' = [ctx EXCEPT ![opening].lease = lease]
        /\ lease # NoFile => ~Held(lease)
    BY DEF AcquireForContext
<1>2. \A d \in Contexts : d # opening => ctx'[d].lease = ctx[d].lease
    BY <1>1 DEF RegistryTypeOK
<1>3. ctx'[opening].lease = lease
    BY <1>1 DEF RegistryTypeOK, AcquireForContext, Context, Dropped
<1>4. UNCHANGED <<creationLease, otherLease>>
    BY DEF AcquireForContext
<1>5. lease # NoFile =>
        /\ \A d \in Contexts : ctx[d].lease # lease
        /\ \A k \in Connections : creationLease[k] # lease
        /\ \A p \in Projects : otherLease[p] # lease
    BY <1>1 DEF Held
<1> QED
    BY <1>1, <1>2, <1>3, <1>4, <1>5 DEF LeaseExclusive

LEMMA TakingCreationLeaseIsExclusive ==
    ASSUME RegistryTypeOK, LeaseExclusive, NEW k \in Connections, NEW f \in Files, ~Held(f),
           creationLease' = [creationLease EXCEPT ![k] = f], UNCHANGED <<ctx, otherLease>>
    PROVE  LeaseExclusive'
    BY DEF LeaseExclusive, Held, RegistryTypeOK

LEMMA OtherProcessIsExclusive ==
    ASSUME RegistryTypeOK, LeaseExclusive, NEW p \in Projects, OtherProcessLocks(p)
    PROVE  LeaseExclusive'
    BY DEF OtherProcessLocks, LeaseExclusive, Held, RegistryTypeOK, daemonVars

-----------------------------------------------------------------------------
(***************************************************************************)
(* Each action of Next is one of these operations or touches only files;   *)
(* what is added here is where the threads are and what request they hold. *)
(***************************************************************************)

\* A thread between two steps of a request knows which request it is.
RequestsHeld ==
    \A k \in Connections : pc[k] \notin {"ready", "writing"} => req[k] \in Request

ThreadsOK ==
    /\ pc \in [Connections -> Steps]
    /\ req \in [Connections -> Request \cup {NoRequest}]
    /\ faults \in 0..MaxFaults
    /\ RequestsHeld

IInv == ThreadsOK /\ SharingInv

-----------------------------------------------------------------------------

LEMMA InitIInv == Init => IInv
<1> SUFFICES ASSUME Init PROVE IInv
    OBVIOUS
<1> USE DEF Init, RegistryInit
<1>1. ThreadsOK
    BY FaultsAssumption DEF ThreadsOK, RequestsHeld, Steps, OpeningSteps
<1>2. RegistryTypeOK
    BY DEF RegistryTypeOK, DetachedSince
<1>3. EntriesSound /\ BindingsLive /\ OpeningSound
    BY DEF EntriesSound, BindingsLive, OpeningSound
<1>4. OpenContextIsRegistered /\ StampedEntryIsDetached
    BY DEF OpenContextIsRegistered, StampedEntryIsDetached
<1> QED
    BY <1>1, <1>2, <1>3, <1>4 DEF IInv, SharingInv

\* Moving one thread on, with its request kept, set or finished.
LEMMA ThreadMoves ==
    ASSUME ThreadsOK, NEW k \in Connections, NEW step \in Steps, Goto(k, step),
           UNCHANGED faults,
           \/ UNCHANGED req /\ req[k] \in Request
           \/ UNCHANGED req /\ step \in {"ready", "writing"}
           \/ Done(k) /\ step \in {"ready", "writing"}
           \/ \E p \in Projects, g \in Configs \cup {NoConfig}, e \in BOOLEAN : Handle(k, p, g, e)
    PROVE  ThreadsOK'
<1> USE DEF ThreadsOK, Goto
<1>1. CASE UNCHANGED req /\ (req[k] \in Request \/ step \in {"ready", "writing"})
    BY <1>1 DEF RequestsHeld
<1>2. CASE Done(k) /\ step \in {"ready", "writing"}
    BY <1>2 DEF RequestsHeld, Done
<1>3. CASE \E p \in Projects, g \in Configs \cup {NoConfig}, e \in BOOLEAN : Handle(k, p, g, e)
    BY <1>3 DEF RequestsHeld, Handle, Request
<1> QED
    BY <1>1, <1>2, <1>3

\* Handlers that are one registry operation, or that touch only files.
LEMMA ThreadStepIInv ==
    ASSUME IInv, NEW k \in Connections, ThreadStep(k)
    PROVE  IInv'
<1> USE DEF IInv
<1>1. /\ pc[k] \notin {"ready", "writing"} => req[k] \in Request
      /\ req[k] \in Request => /\ req[k].path \in Projects
                               /\ req[k].config \in Configs \cup {NoConfig}
      /\ {"ready", "leased", "opened", "creating", "publishing", "removing"} \subseteq Steps
    BY DEF ThreadsOK, RequestsHeld, Request, Steps, OpeningSteps
<1>2. CASE OpenAcquiresLease(k)
    BY <1>1, <1>2, ThreadMoves, AcquireShares DEF OpenAcquiresLease
<1>3. CASE OpenOpensStore(k)
    BY <1>1, <1>3, ThreadMoves, OpenStoreShares DEF OpenOpensStore
<1>4. CASE OpenFails(k)
    BY <1>1, <1>4, ThreadMoves, AbandonOpenShares DEF OpenFails
<1>5. CASE OpenPublishes(k)
    BY <1>1, <1>5, ThreadMoves, PublishShares DEF OpenPublishes
<1>6. CASE InitializeFails(k)
  <2>1. RegistryTypeOK'
    BY <1>6 DEF InitializeFails, SharingInv, RegistryTypeOK, diskVars
  <2> QED
    BY <2>1, <1>1, <1>6, ThreadMoves, FilesShare DEF InitializeFails
<1>7. CASE InitializeAcquires(k)
  <2>1. RegistryTypeOK'
    BY <1>1, <1>7 DEF InitializeAcquires, SharingInv, RegistryTypeOK
  <2>2. ThreadsOK'
    BY <1>1, <1>7, ThreadMoves DEF InitializeAcquires
  <2> QED
    BY <2>1, <2>2, <1>7, FilesShare DEF InitializeAcquires
<1>8. CASE InitializeCreates(k)
  <2>1. RegistryTypeOK'
    BY <1>1, <1>8 DEF InitializeCreates, SharingInv, RegistryTypeOK, daemonVars
  <2> QED
    BY <2>1, <1>1, <1>8, ThreadMoves, FilesShare DEF InitializeCreates, daemonVars
<1>9. CASE InitializeReuses(k)
    BY <1>1, <1>9, ThreadMoves, ReuseShares DEF InitializeReuses, Reusable
<1>10. CASE InitializeRefused(k)
  <2>1. RegistryTypeOK'
    BY <1>10 DEF InitializeRefused, SharingInv, RegistryTypeOK, diskVars
  <2> QED
    BY <2>1, <1>1, <1>10, ThreadMoves, FilesShare DEF InitializeRefused
<1>11. CASE InitializeOpens(k)
    BY <1>1, <1>11, ThreadMoves, BeginOpenShares DEF InitializeOpens
<1>12. CASE WriteEnds(k)
  <2>1. RegistryTypeOK'
    BY <1>12 DEF WriteEnds, SharingInv, RegistryTypeOK, registryVars, diskVars, daemonVars
  <2> QED
    BY <2>1, <1>1, <1>12, ThreadMoves, FilesShare DEF WriteEnds, registryVars, daemonVars
<1>13. CASE GuardUnloads(k)
    BY <1>1, <1>13, ThreadMoves, UnloadShares DEF GuardUnloads
<1>14. CASE StampDetached(k)
    BY <1>1, <1>14, ThreadMoves, MarkDetachedShares DEF StampDetached
<1>15. CASE UninitializeUnloads(k)
    BY <1>1, <1>15, ThreadMoves, UnloadShares DEF UninitializeUnloads
<1>16. CASE UninitializeRemoves(k)
  <2>1. RegistryTypeOK'
    BY <1>1, <1>16 DEF UninitializeRemoves, SharingInv, RegistryTypeOK, daemonVars
  <2> QED
    BY <2>1, <1>1, <1>16, ThreadMoves, FilesShare DEF UninitializeRemoves, daemonVars
<1> QED
    BY <1>2, <1>3, <1>4, <1>5, <1>6, <1>7, <1>8, <1>9, <1>10, <1>11, <1>12, <1>13,
       <1>14, <1>15, <1>16
    DEF ThreadStep, OpenStep, InitializeStep

LEMMA ClientStepIInv ==
    ASSUME IInv, NEW k \in Connections, ClientStep(k)
    PROVE  IInv'
<1> USE DEF IInv
<1>1. {"ready", "writing", "evicted", "unloading", "closing", "initializing", "uninitializing"}
        \subseteq Steps
    BY DEF Steps, OpeningSteps
<1>2. bound[k] # NoContext => ctx[bound[k]].path \in Projects
    BY ContextShape DEF SharingInv, BindingsLive, RegistryTypeOK
<1>3. CASE Disconnect(k)
  <2>1. ThreadsOK'
    <3>1. CASE UNCHANGED <<pc, req>>
        BY <1>3, <3>1 DEF Disconnect, ThreadsOK, RequestsHeld
    <3>2. CASE Handle(k, ctx[bound[k]].path, NoConfig, FALSE) /\ Goto(k, "closing")
        BY <1>1, <1>2, <1>3, <3>2, ThreadMoves DEF Disconnect
    <3> QED
        BY <1>3, <3>1, <3>2 DEF Disconnect
  <2> QED
    BY <2>1, <1>3, DetachShares DEF Disconnect
<1>4. CASE WriteBegins(k)
  <2>1. RegistryTypeOK'
    BY <1>4 DEF WriteBegins, SharingInv, RegistryTypeOK, registryVars, diskVars, daemonVars
  <2> QED
    BY <2>1, <1>1, <1>4, ThreadMoves, FilesShare DEF WriteBegins, registryVars, daemonVars
<1>5. CASE GuardFails(k)
  <2>1. ThreadsOK'
    BY <1>1, <1>2, <1>5, ThreadMoves DEF GuardFails
  <2> QED
    BY <2>1, <1>5, DetachShares DEF GuardFails
<1>6. ASSUME NEW p \in Projects, UninitializeChecks(k, p) PROVE IInv'
  <2>1. RegistryTypeOK'
    BY <1>6 DEF UninitializeChecks, SharingInv, RegistryTypeOK, registryVars, diskVars, daemonVars
  <2>2. ThreadsOK'
    BY <1>1, <1>6, ThreadMoves DEF UninitializeChecks
  <2> QED
    BY <2>1, <2>2, <1>6, FilesShare DEF UninitializeChecks, registryVars, daemonVars
<1>7. ASSUME NEW p \in Projects, NEW g \in Configs, HandshakeReuses(k, p, g) PROVE IInv'
  <2>1. ThreadsOK'
    BY <1>7 DEF HandshakeReuses, ThreadsOK, RequestsHeld
  <2> QED
    BY <2>1, <1>7, ReuseShares DEF HandshakeReuses, Reusable
<1>8. ASSUME NEW p \in Projects, NEW g \in Configs, HandshakeOpens(k, p, g) PROVE IInv'
  <2>1. ThreadsOK'
    BY <1>1, <1>8, ThreadMoves DEF HandshakeOpens
  <2> QED
    BY <2>1, <1>8, BeginOpenShares DEF HandshakeOpens
<1>9. ASSUME NEW p \in Projects, NEW g \in Configs, InitializeChecks(k, p, g) PROVE IInv'
  <2>1. RegistryTypeOK'
    BY <1>9 DEF InitializeChecks, SharingInv, RegistryTypeOK, daemonVars
  <2>2. ThreadsOK'
    BY <1>1, <1>9, ThreadMoves DEF InitializeChecks
  <2> QED
    BY <2>1, <2>2, <1>9, FilesShare DEF InitializeChecks, daemonVars
<1> QED
    BY <1>3, <1>4, <1>5, <1>6, <1>7, <1>8, <1>9 DEF ClientStep

LEMMA DaemonStepIInv ==
    ASSUME IInv, DaemonStep
    PROVE  IInv'
<1> USE DEF IInv
<1>1. ThreadsOK'
    BY DEF DaemonStep, Reap, IdleClock, OtherUnlocks, ThreadsOK, RequestsHeld
<1>2. CASE Reap
    BY <1>1, <1>2, ReapIdleShares DEF Reap
<1>3. ASSUME NEW p \in Projects, IdleClock(p) PROVE IInv'
    BY <1>1, <1>3, IdleTimeoutShares DEF IdleClock
<1>4. ASSUME NEW p \in Projects, OtherUnlocks(p) PROVE IInv'
  <2>1. RegistryTypeOK'
    BY <1>4 DEF OtherUnlocks, OtherProcessUnlocks, SharingInv, RegistryTypeOK, daemonVars
  <2> QED
    BY <2>1, <1>1, <1>4, FilesShare DEF OtherUnlocks, OtherProcessUnlocks, daemonVars
<1> QED
    BY <1>2, <1>3, <1>4 DEF DaemonStep

LEMMA FaultIInv ==
    ASSUME IInv, Fault
    PROVE  IInv'
<1> USE DEF IInv
<1>1. faults' \in 0..MaxFaults
    BY FaultsAssumption DEF Fault, ThreadsOK
<1>2. CASE DaemonDies
  <2>1. ThreadsOK'
    BY <1>1, <1>2 DEF DaemonDies, ThreadsOK, RequestsHeld, Steps
  <2> QED
    BY <2>1, <1>2, ProcessDiesShares DEF DaemonDies
<1>3. ASSUME NEW p \in Projects, UNCHANGED <<pc, req>>,
             \/ OtherProcessLocks(p) \/ StateRemovedOutOfBand(p) \/ DatabaseReplacedOutOfBand(p)
      PROVE  IInv'
  <2>1. RegistryTypeOK'
    BY <1>3 DEF OtherProcessLocks, StateRemovedOutOfBand, DatabaseReplacedOutOfBand,
                SharingInv, RegistryTypeOK, daemonVars
  <2>2. ThreadsOK'
    BY <1>1, <1>3 DEF ThreadsOK, RequestsHeld
  <2> QED
    BY <2>1, <2>2, <1>3, FilesShare
    DEF OtherProcessLocks, StateRemovedOutOfBand, DatabaseReplacedOutOfBand, daemonVars
<1>4. ASSUME NEW k \in Connections, OpenWithoutStore(k)
      PROVE  IInv'
  <2>1. RegistryTypeOK'
    BY <1>4 DEF OpenWithoutStore, StoreUnavailable, SharingInv, RegistryTypeOK, daemonVars
  <2>2. ThreadsOK'
    BY <1>1, <1>4 DEF OpenWithoutStore, Goto, ThreadsOK, RequestsHeld, Steps, OpeningSteps
  <2> QED
    BY <2>1, <2>2, <1>4, FilesShare DEF OpenWithoutStore, StoreUnavailable, daemonVars
<1> QED
    BY <1>2, <1>3, <1>4 DEF Fault

LEMMA NextIInv == IInv /\ [Next]_vars => IInv'
<1> SUFFICES ASSUME IInv, [Next]_vars PROVE IInv'
    OBVIOUS
<1>1. CASE UNCHANGED vars
  <2>1. RegistryTypeOK'
    BY <1>1 DEF IInv, SharingInv, RegistryTypeOK, vars, registryVars, diskVars, daemonVars
  <2> QED
    BY <2>1, <1>1, FilesShare
    DEF IInv, ThreadsOK, RequestsHeld, vars, registryVars, daemonVars
<1> QED
    BY <1>1, ThreadStepIInv, ClientStepIInv, DaemonStepIInv, FaultIInv DEF Next

\* In every reachable state threads, references and registry agree: the
\* inductive invariant of the results below.
THEOREM Invariance == Spec => []IInv
    BY InitIInv, NextIInv, PTL DEF Spec

\* Every reachable state is well typed.
THEOREM TypeCorrect == Spec => []TypeOK
<1>1. IInv => TypeOK
    BY DEF IInv, SharingInv, ThreadsOK, TypeOK
<1> QED
    BY <1>1, Invariance, PTL

\* Clients of a project that are still served share the one context that the
\* registry holds for its path.
THEOREM ServedClientsShareAContext == Spec => []OpenContextIsRegistered
<1>1. IInv => OpenContextIsRegistered
    BY DEF IInv, SharingInv
<1> QED
    BY <1>1, Invariance, PTL

\* The idle interval of an entry runs only while no client is attached.
THEOREM IdleIntervalNeedsNoClient == Spec => []StampedEntryIsDetached
<1>1. IInv => StampedEntryIsDetached
    BY DEF IInv, SharingInv
<1> QED
    BY <1>1, Invariance, PTL

-----------------------------------------------------------------------------
\* Exclusive ownership of the writer lease.

LEMMA ThreadStepIsExclusive ==
    ASSUME RegistryTypeOK, LeaseExclusive, ThreadsOK, NEW k \in Connections, ThreadStep(k)
    PROVE  LeaseExclusive'
<1> USE GivingUpIsExclusive DEF diskVars
<1>1. CASE OpenAcquiresLease(k)
    BY <1>1, AcquireIsExclusive DEF OpenAcquiresLease
<1>2. CASE OpenOpensStore(k)
  <2>1. \A c \in Contexts : ctx'[c].lease = ctx[c].lease
    BY <1>2 DEF OpenOpensStore, OpenStore, RegistryTypeOK, Context, Dropped
  <2> QED
    BY <2>1, <1>2 DEF OpenOpensStore, OpenStore, LeasesOnlyGivenUp
<1>3. CASE OpenFails(k)
    BY <1>3, ClosingNobody, DroppingGivesUp DEF OpenFails, AbandonOpen
<1>4. CASE OpenPublishes(k)
  <2> DEFINE table == [ctx EXCEPT ![opening].identity = dbFile[ctx[opening].path]]
  <2>1. \A c \in Contexts : table[c].lease = ctx[c].lease
    BY DEF RegistryTypeOK, Context, Dropped
  <2>2. \A c \in Contexts : ctx'[c] = table[c] \/ ctx'[c] = Dropped
    BY <1>4, DropsUnreferenced DEF OpenPublishes, PublishContext
  <2>3. Dropped.lease = NoFile
    BY DEF Dropped
  <2> HIDE DEF table
  <2> QED
    BY <2>1, <2>2, <2>3, <1>4 DEF OpenPublishes, PublishContext, LeasesOnlyGivenUp
<1>5. CASE InitializeFails(k) \/ InitializeRefused(k)
    BY <1>5 DEF InitializeFails, InitializeRefused, LeasesOnlyGivenUp, RegistryTypeOK
<1>6. CASE InitializeAcquires(k)
    BY <1>6, TakingCreationLeaseIsExclusive DEF InitializeAcquires, LeasesOnlyGivenUp
<1>7. CASE InitializeReuses(k)
    BY <1>7, ClosingNobody, DroppingGivesUp DEF InitializeReuses, Reuse, RegistryTypeOK
<1>8. CASE InitializeOpens(k)
  <2>1. req[k].path \in Projects /\ req[k].config \in Configs \cup {NoConfig}
    BY <1>8 DEF InitializeOpens, ThreadsOK, RequestsHeld, Request
  <2> QED
    BY <2>1, <1>8, BeginOpenIsExclusive DEF InitializeOpens
<1>9. CASE GuardUnloads(k) \/ UninitializeUnloads(k)
    BY <1>9, DroppingGivesUp DEF GuardUnloads, UninitializeUnloads, Unload
<1>10. CASE \/ InitializeCreates(k) \/ WriteEnds(k) \/ StampDetached(k)
            \/ UninitializeRemoves(k)
    BY <1>10 DEF InitializeCreates, WriteEnds, StampDetached, MarkDetached,
                 UninitializeRemoves, LeasesOnlyGivenUp, registryVars, daemonVars
<1> QED
    BY <1>1, <1>2, <1>3, <1>4, <1>5, <1>6, <1>7, <1>8, <1>9, <1>10
    DEF ThreadStep, OpenStep, InitializeStep

LEMMA OtherStepsAreExclusive ==
    ASSUME RegistryTypeOK, LeaseExclusive, DaemonStep \/ Fault \/ \E k \in Connections : ClientStep(k)
    PROVE  LeaseExclusive'
<1> USE GivingUpIsExclusive DEF diskVars
<1>1. CASE Reap
    BY <1>1, DroppingGivesUp DEF Reap, ReapIdle
<1>2. CASE \E p \in Projects : IdleClock(p) \/ OtherUnlocks(p)
    BY <1>2 DEF IdleClock, IdleTimeoutPasses, OtherUnlocks, OtherProcessUnlocks,
                LeasesOnlyGivenUp, RegistryTypeOK, daemonVars
<1>3. CASE DaemonDies
    BY <1>3 DEF DaemonDies, ProcessDies, LeasesOnlyGivenUp, Dropped
<1>4. CASE \E p \in Projects : StateRemovedOutOfBand(p) \/ DatabaseReplacedOutOfBand(p)
    BY <1>4 DEF StateRemovedOutOfBand, DatabaseReplacedOutOfBand, LeasesOnlyGivenUp, daemonVars
<1>5. CASE \E p \in Projects : OtherProcessLocks(p)
    BY <1>5, OtherProcessIsExclusive
<1>7. CASE \E k \in Connections : OpenWithoutStore(k)
    BY <1>7 DEF OpenWithoutStore, StoreUnavailable, LeasesOnlyGivenUp, daemonVars
<1>6. ASSUME NEW k \in Connections, ClientStep(k) PROVE LeaseExclusive'
  <2>1. CASE Disconnect(k)
    BY <2>1, DroppingGivesUp DEF Disconnect, Detach
  <2>2. CASE GuardFails(k)
    BY <2>2, DroppingGivesUp DEF GuardFails, Detach
  <2>3. CASE \/ WriteBegins(k) \/ \E p \in Projects : UninitializeChecks(k, p)
             \/ \E p \in Projects, g \in Configs : InitializeChecks(k, p, g)
    BY <2>3 DEF WriteBegins, UninitializeChecks, InitializeChecks, LeasesOnlyGivenUp,
                registryVars, daemonVars
  <2>4. ASSUME NEW p \in Projects, NEW g \in Configs, HandshakeReuses(k, p, g)
        PROVE  LeaseExclusive'
    BY <2>4, ClosingNobody, DroppingGivesUp DEF HandshakeReuses, Reuse, RegistryTypeOK
  <2>5. ASSUME NEW p \in Projects, NEW g \in Configs, HandshakeOpens(k, p, g)
        PROVE  LeaseExclusive'
    BY <2>5, BeginOpenIsExclusive DEF HandshakeOpens
  <2> QED
    BY <1>6, <2>1, <2>2, <2>3, <2>4, <2>5 DEF ClientStep
<1> QED
    BY <1>1, <1>2, <1>3, <1>4, <1>5, <1>6, <1>7 DEF DaemonStep, Fault

\* A writer lock has one owner at any time, across contexts, threads that are
\* creating a project and other processes.
THEOREM OneWriterPerLock == Spec => []LeaseExclusive
<1>1. Init => LeaseExclusive
    BY DEF Init, RegistryInit, LeaseExclusive, Dropped
<1>2. IInv /\ LeaseExclusive /\ [Next]_vars => LeaseExclusive'
  <2> SUFFICES ASSUME IInv, LeaseExclusive, [Next]_vars PROVE LeaseExclusive'
    OBVIOUS
  <2>1. CASE UNCHANGED vars
    BY <2>1 DEF LeaseExclusive, vars, registryVars, diskVars, daemonVars
  <2> QED
    BY <2>1, ThreadStepIsExclusive, OtherStepsAreExclusive DEF Next, IInv, SharingInv
<1> QED
    BY <1>1, <1>2, Invariance, PTL DEF Spec

-----------------------------------------------------------------------------
\* A write in flight does not lose its project's lease.

LEMMA WritingThreadKeepsLease ==
    ASSUME IInv, Next, NEW k \in Connections,
           pc[k] = "writing", pc'[k] = "writing", bound[k] # NoContext
    PROVE  ctx'[bound[k]].lease = ctx[bound[k]].lease
<1> DEFINE c == bound[k]
<1>1. c \in Contexts /\ ctx[c] \in Context /\ c # opening
    BY ContextShape DEF IInv, SharingInv, BindingsLive, OpeningSound, RegistryTypeOK
<1>2. RegistryTypeOK /\ pc \in [Connections -> Steps]
    BY DEF IInv, SharingInv, ThreadsOK
<1> HIDE DEF c
<1>3. ASSUME NEW closed, ctx' = AfterDrops(Closing(closed)), bound'[k] = c
      PROVE  ctx'[c].lease = ctx[c].lease
  <2>1. ctx'[c] = Closing(closed)[c]
    BY <1>1, <1>3, DropsUnreferenced
  <2>2. Closing(closed)[c] = ctx[c] \/ Closing(closed)[c] = Shut(ctx[c])
    BY <1>1 DEF Closing
  <2>3. Shut(ctx[c]).lease = ctx[c].lease
    BY <1>1, ShutKeeps
  <2> QED
    BY <2>1, <2>2, <2>3
<1>4. ASSUME NEW l \in Connections, l # k, NEW p \in Projects, NEW g, BeginOpen(l, p, g)
      PROVE  ctx'[c].lease = ctx[c].lease
  <2> DEFINE new == [path |-> p, config |-> g, store |-> NoFile, identity |-> NoFile,
                     lease |-> creationLease[l], closed |-> FALSE]
  <2>1. PICK d \in Contexts :
            /\ ctx[d] = Dropped
            /\ ctx' = AfterDrops([Closing({registry[p]}) EXCEPT ![d] = new])
    BY <1>4 DEF BeginOpen, FreshContext
  <2> HIDE DEF new
  <2>2. c # d /\ bound'[k] = c
    BY <2>1, <1>1, <1>4, ShutKeeps DEF BeginOpen, c
  <2>3. ctx'[c] = [Closing({registry[p]}) EXCEPT ![d] = new][c]
    BY <2>1, <2>2, <1>1, DropsUnreferenced
  <2>4. ctx'[c] = ctx[c] \/ ctx'[c] = Shut(ctx[c])
    BY <2>2, <2>3, <1>1 DEF Closing
  <2> QED
    BY <2>4, <1>1, ShutKeeps
<1>5. ASSUME NEW l \in Connections, ThreadStep(l) PROVE ctx'[c].lease = ctx[c].lease
  <2>1. l # k
    BY <1>2, <1>5 DEF ThreadStep, OpenStep, InitializeStep, OpenAcquiresLease, OpenOpensStore,
        OpenFails, OpenPublishes, InitializeFails, InitializeAcquires, InitializeCreates,
        InitializeReuses, InitializeRefused, InitializeOpens, WriteEnds, GuardUnloads,
        StampDetached, UninitializeUnloads, UninitializeRemoves, Goto
  <2>2. CASE OpenAcquiresLease(l) \/ OpenOpensStore(l)
    BY <2>2, <1>1, <1>2
    DEF OpenAcquiresLease, OpenOpensStore, AcquireForContext, OpenStore, RegistryTypeOK
  <2>3. CASE OpenFails(l)
    BY <2>3, <1>2, <1>3, ClosingNobody DEF OpenFails, AbandonOpen, c
  <2>4. CASE OpenPublishes(l)
    <3>1. bound'[k] = c
        BY <2>1, <2>4 DEF OpenPublishes, PublishContext, RegistryTypeOK, c
    <3>2. ctx'[c] = [ctx EXCEPT ![opening].identity = dbFile[ctx[opening].path]][c]
        BY <2>4, <3>1, <1>1, DropsUnreferenced DEF OpenPublishes, PublishContext
    <3> QED
        BY <3>2, <1>1, <1>2 DEF RegistryTypeOK
  <2>5. CASE InitializeReuses(l)
    BY <2>1, <2>5, <1>2, <1>3, ClosingNobody DEF InitializeReuses, Reuse, RegistryTypeOK, c
  <2>6. CASE InitializeOpens(l)
    <3>1. req[l].path \in Projects
        BY <2>6 DEF InitializeOpens, IInv, ThreadsOK, RequestsHeld, Request
    <3> QED
        BY <3>1, <2>1, <2>6, <1>4 DEF InitializeOpens
  <2>7. CASE GuardUnloads(l) \/ UninitializeUnloads(l)
    BY <2>7, <1>3 DEF GuardUnloads, UninitializeUnloads, Unload, c
  <2>8. CASE \/ InitializeFails(l) \/ InitializeAcquires(l) \/ InitializeCreates(l)
             \/ InitializeRefused(l) \/ WriteEnds(l) \/ StampDetached(l) \/ UninitializeRemoves(l)
    BY <2>8 DEF InitializeFails, InitializeAcquires, InitializeCreates, InitializeRefused,
        WriteEnds, StampDetached, MarkDetached, UninitializeRemoves, registryVars, daemonVars
  <2> QED
    BY <1>5, <2>2, <2>3, <2>4, <2>5, <2>6, <2>7, <2>8 DEF ThreadStep, OpenStep, InitializeStep
<1>6. ASSUME NEW l \in Connections, ClientStep(l) PROVE ctx'[c].lease = ctx[c].lease
  <2>1. l # k
    BY <1>6 DEF ClientStep, Disconnect, WriteBegins, GuardFails, UninitializeChecks,
        HandshakeReuses, HandshakeOpens, InitializeChecks
  <2>2. CASE Disconnect(l)
    BY <2>1, <2>2, <1>2, <1>3 DEF Disconnect, Detach, RegistryTypeOK, c
  <2>3. CASE GuardFails(l)
    BY <2>1, <2>3, <1>2, <1>3 DEF GuardFails, Detach, RegistryTypeOK, c
  <2>4. ASSUME NEW p \in Projects, NEW g \in Configs, HandshakeReuses(l, p, g)
        PROVE  ctx'[c].lease = ctx[c].lease
    BY <2>1, <2>4, <1>2, <1>3, ClosingNobody DEF HandshakeReuses, Reuse, RegistryTypeOK, c
  <2>5. ASSUME NEW p \in Projects, NEW g \in Configs, HandshakeOpens(l, p, g)
        PROVE  ctx'[c].lease = ctx[c].lease
    BY <2>1, <2>5, <1>4 DEF HandshakeOpens
  <2>6. CASE \/ WriteBegins(l) \/ \E p \in Projects : UninitializeChecks(l, p)
             \/ \E p \in Projects, g \in Configs : InitializeChecks(l, p, g)
    BY <2>6 DEF WriteBegins, UninitializeChecks, InitializeChecks, registryVars, daemonVars
  <2> QED
    BY <1>6, <2>2, <2>3, <2>4, <2>5, <2>6 DEF ClientStep
<1>7. CASE DaemonStep
  <2>1. CASE Reap
    BY <2>1, <1>3 DEF Reap, ReapIdle, c
  <2>2. CASE \E p \in Projects : IdleClock(p) \/ OtherUnlocks(p)
    BY <2>2 DEF IdleClock, IdleTimeoutPasses, OtherUnlocks, OtherProcessUnlocks, daemonVars
  <2> QED
    BY <1>7, <2>1, <2>2 DEF DaemonStep
<1>8. CASE Fault
    BY <1>8 DEF Fault, DaemonDies, OtherProcessLocks, StateRemovedOutOfBand,
        DatabaseReplacedOutOfBand, OpenWithoutStore, StoreUnavailable, daemonVars
<1> QED
    BY <1>5, <1>6, <1>7, <1>8 DEF Next, c

\* A write keeps the lease it started with until it ends, even when its context
\* is closed, evicted or replaced in the registry.
THEOREM WriteOwnsLeaseToItsEnd == Spec => WriteKeepsLease
<1>1. IInv /\ [Next]_vars =>
        [\A k \in Connections :
            pc[k] = "writing" /\ pc'[k] = "writing" /\ bound[k] # NoContext =>
                ctx'[bound[k]].lease = ctx[bound[k]].lease]_vars
    BY WritingThreadKeepsLease
<1> QED
    BY <1>1, Invariance, PTL DEF Spec, WriteKeepsLease

-----------------------------------------------------------------------------
\* A usable context is evicted for a reason.

\* The idle interval runs out only for entries that have one.
ElapsedIsEvictable ==
    \A p \in Projects :
        detached[p] = "elapsed" => ctx[registry[p]].config \notin PersistentConfigs

\* What a step does to the entry of p.
EntryStays(p) == registry[p] # NoContext => registry'[p] = registry[p]

ConfigStays(p) ==
    registry[p] # NoContext /\ registry'[p] = registry[p] =>
        ctx'[registry[p]].config = ctx[registry[p]].config

StampStays(p) ==
    detached'[p] = "elapsed" =>
        /\ registry[p] # NoContext /\ registry'[p] = registry[p]
        /\ detached[p] = "elapsed" \/ ctx[registry[p]].config \notin PersistentConfigs

LEMMA ElapsedStaysEvictable ==
    ASSUME ElapsedIsEvictable, \A p \in Projects : ConfigStays(p) /\ StampStays(p)
    PROVE  ElapsedIsEvictable'
    BY DEF ElapsedIsEvictable, ConfigStays, StampStays

LEMMA ClosingKeepsConfig ==
    ASSUME RegistryTypeOK, NEW closed, ctx' = AfterDrops(Closing(closed)), NEW p \in Projects
    PROVE  ConfigStays(p)
<1> SUFFICES ASSUME registry[p] # NoContext, registry'[p] = registry[p]
             PROVE  ctx'[registry[p]].config = ctx[registry[p]].config
    BY DEF ConfigStays
<1>1. registry[p] \in Contexts
    BY DEF RegistryTypeOK
<1>2. ctx'[registry[p]] = Closing(closed)[registry[p]]
    BY <1>1, DropsUnreferenced
<1>3. Closing(closed)[registry[p]] \in {ctx[registry[p]], Shut(ctx[registry[p]])}
    BY <1>1 DEF Closing
<1>4. Shut(ctx[registry[p]]).config = ctx[registry[p]].config
    BY <1>1 DEF Shut, RegistryTypeOK, Context, Dropped
<1> QED
    BY <1>2, <1>3, <1>4

\* Operations that remove no entry.
LEMMA EntryOperations ==
    ASSUME IInv, NEW p \in Projects, NEW k \in Connections,
           \/ \E q \in Projects : Reuse(k, q) \/ MarkDetached(q)
           \/ \E closed : Detach(k, closed)
           \/ AcquireForContext \/ OpenStore \/ AbandonOpen \/ PublishContext(k)
           \/ UNCHANGED <<ctx, registry, detached>>
    PROVE  EntryStays(p) /\ ConfigStays(p) /\ StampStays(p)
<1>1. RegistryTypeOK /\ StampedEntryIsDetached /\ OpeningSound
    BY DEF IInv, SharingInv
<1>2. detached[p] = "elapsed" => registry[p] # NoContext
    BY <1>1 DEF StampedEntryIsDetached, Unattached
<1>3. ASSUME NEW q \in Projects, Reuse(k, q)
      PROVE  EntryStays(p) /\ ConfigStays(p) /\ StampStays(p)
    BY <1>1, <1>2, <1>3, ClosingNobody, ClosingKeepsConfig
    DEF Reuse, EntryStays, StampStays, RegistryTypeOK
<1>4. ASSUME NEW q \in Projects, MarkDetached(q)
      PROVE  EntryStays(p) /\ ConfigStays(p) /\ StampStays(p)
    BY <1>1, <1>2, <1>4
    DEF MarkDetached, EntryStays, ConfigStays, StampStays, RegistryTypeOK
<1>5. ASSUME NEW closed, Detach(k, closed)
      PROVE  EntryStays(p) /\ ConfigStays(p) /\ StampStays(p)
    BY <1>1, <1>2, <1>5, ClosingKeepsConfig DEF Detach, EntryStays, StampStays
<1>6. CASE AcquireForContext \/ OpenStore
  <2>1. \A c \in Contexts : ctx'[c].config = ctx[c].config
    BY <1>1, <1>6 DEF AcquireForContext, OpenStore, RegistryTypeOK, Context, Dropped
  <2> QED
    BY <1>1, <1>2, <1>6, <2>1
    DEF AcquireForContext, OpenStore, EntryStays, ConfigStays, StampStays, RegistryTypeOK
<1>7. CASE AbandonOpen
    BY <1>1, <1>2, <1>7, ClosingNobody, ClosingKeepsConfig DEF AbandonOpen, EntryStays, StampStays
<1>8. CASE PublishContext(k)
  <2> DEFINE q == ctx[opening].path
             table == [ctx EXCEPT ![opening].identity = dbFile[q]]
  <2>1. q \in Projects /\ registry[q] = NoContext /\ registry' = [registry EXCEPT ![q] = opening]
        /\ UNCHANGED detached /\ ctx' = AfterDrops(table) /\ opening # NoContext
    BY <1>1, <1>8 DEF PublishContext, OpeningSound
  <2>2. \A c \in Contexts : table[c].config = ctx[c].config
    BY <1>1 DEF RegistryTypeOK, Context, Dropped
  <2> HIDE DEF table, q
  <2>3. \A c \in Contexts : registry'[p] = c => ctx'[c] = table[c]
    BY <2>1, DropsUnreferenced
  <2> QED
    BY <1>1, <1>2, <2>1, <2>2, <2>3 DEF EntryStays, ConfigStays, StampStays, RegistryTypeOK
<1>9. CASE UNCHANGED <<ctx, registry, detached>>
    BY <1>2, <1>9 DEF EntryStays, ConfigStays, StampStays
<1> QED
    BY <1>3, <1>4, <1>5, <1>6, <1>7, <1>8, <1>9

\* Operations that remove entries: what they remove, and when.
LEMMA BeginOpenEvicts ==
    ASSUME IInv, NEW p \in Projects, NEW k \in Connections, NEW q \in Projects, NEW g,
           BeginOpen(k, q, g)
    PROVE  ConfigStays(p) /\ StampStays(p) /\ (p # q => EntryStays(p)) /\ opening' # opening
<1>1. RegistryTypeOK /\ StampedEntryIsDetached /\ OpenContextIsRegistered
    BY DEF IInv, SharingInv
<1> DEFINE new == [path |-> q, config |-> g, store |-> NoFile, identity |-> NoFile,
                   lease |-> creationLease[k], closed |-> FALSE]
<1>2. PICK c \in Contexts :
        /\ ctx[c] = Dropped /\ opening' = c
        /\ ctx' = AfterDrops([Closing({registry[q]}) EXCEPT ![c] = new])
    BY DEF BeginOpen, FreshContext
<1> HIDE DEF new
<1>3. /\ opening = NoContext /\ registry' = [registry EXCEPT ![q] = NoContext]
      /\ detached' = [detached EXCEPT ![q] = "none"]
    BY DEF BeginOpen, EntriesFree
<1>4. opening' # opening
    BY <1>2, <1>3, ContextShape, <1>1
<1>5. ASSUME registry[p] # NoContext, registry'[p] = registry[p]
      PROVE  ctx'[registry[p]].config = ctx[registry[p]].config
  <2>1. registry[p] \in Contexts
    BY <1>1, <1>5 DEF RegistryTypeOK
  <2>2. registry[p] # c
    BY <1>2, <1>5, <1>1, <2>1, ContextShape DEF IInv, SharingInv, EntriesSound
  <2>3. ctx'[registry[p]] = [Closing({registry[q]}) EXCEPT ![c] = new][registry[p]]
    BY <1>2, <1>5, <2>1, DropsUnreferenced
  <2>4. ctx'[registry[p]] \in {ctx[registry[p]], Shut(ctx[registry[p]])}
    BY <2>1, <2>2, <2>3 DEF Closing
  <2>5. Shut(ctx[registry[p]]).config = ctx[registry[p]].config
    BY <2>1, <1>1 DEF Shut, RegistryTypeOK, Context, Dropped
  <2> QED
    BY <2>4, <2>5
<1>6. StampStays(p)
    BY <1>1, <1>3 DEF StampStays, StampedEntryIsDetached, Unattached, RegistryTypeOK
<1> QED
    BY <1>1, <1>3, <1>4, <1>5, <1>6 DEF ConfigStays, EntryStays, RegistryTypeOK

LEMMA UnloadEvicts ==
    ASSUME IInv, NEW p \in Projects, NEW q \in Projects, Unload(q)
    PROVE  ConfigStays(p) /\ StampStays(p)
<1>1. RegistryTypeOK /\ StampedEntryIsDetached
    BY DEF IInv, SharingInv
<1>2. ConfigStays(p)
    BY <1>1, ClosingKeepsConfig DEF Unload
<1>3. StampStays(p)
    BY <1>1 DEF Unload, StampStays, StampedEntryIsDetached, Unattached, RegistryTypeOK
<1> QED
    BY <1>2, <1>3

LEMMA ReapIdleEvicts ==
    ASSUME IInv, ElapsedIsEvictable, NEW p \in Projects, ReapIdle
    PROVE  /\ ConfigStays(p) /\ StampStays(p)
           /\ \/ EntryStays(p)
              \/ /\ Attached(registry[p]) = {} /\ detached[p] = "elapsed"
                 /\ ctx[registry[p]].config \notin PersistentConfigs
<1>1. RegistryTypeOK /\ StampedEntryIsDetached
    BY DEF IInv, SharingInv
<1>2. ConfigStays(p)
    BY <1>1, ClosingKeepsConfig DEF ReapIdle
<1>3. registry'[p] = IF p \in Expired THEN NoContext ELSE registry[p]
    BY DEF ReapIdle
<1>4. detached'[p] = "elapsed" => detached[p] = "elapsed" /\ p \notin Expired
    BY DEF ReapIdle
<1>5. StampStays(p)
    BY <1>1, <1>3, <1>4 DEF StampStays, StampedEntryIsDetached, Unattached
<1>6. CASE p \in Expired
    BY <1>2, <1>5, <1>6 DEF Expired, Unattached, ElapsedIsEvictable
<1>7. CASE p \notin Expired
    BY <1>2, <1>3, <1>5, <1>7 DEF EntryStays
<1> QED
    BY <1>6, <1>7

\* The causes that EvictionHasCause allows.
EvictedFor(p) ==
    \/ \E k \in Connections : pc[k] \in {"unloading", "uninitializing"} /\ pc'[k] # pc[k]
    \/ \A d \in Contexts : ctx'[d] = Dropped
    \/ /\ Attached(registry[p]) = {}
       /\ \/ opening' # opening
          \/ detached[p] = "elapsed" /\ ctx[registry[p]].config \notin PersistentConfigs

EvictionOK(p) ==
    /\ ConfigStays(p) /\ StampStays(p)
    /\ EntryStays(p) \/ (registry[p] # NoContext /\ Usable(registry[p]) => EvictedFor(p))

LEMMA ThreadStepEvicts ==
    ASSUME IInv, NEW p \in Projects, NEW k \in Connections, ThreadStep(k)
    PROVE  EvictionOK(p)
<1>1. /\ pc \in [Connections -> Steps]
      /\ pc[k] \notin {"ready", "writing"} => req[k].path \in Projects
    BY DEF IInv, ThreadsOK, RequestsHeld, Request
<1>2. CASE \/ OpenStep(k) \/ InitializeReuses(k) \/ StampDetached(k)
    BY <1>1, <1>2, EntryOperations
    DEF OpenStep, OpenAcquiresLease, OpenOpensStore, OpenFails, OpenPublishes,
        InitializeReuses, StampDetached, EvictionOK
<1>3. CASE \/ InitializeFails(k) \/ InitializeAcquires(k) \/ InitializeCreates(k)
           \/ InitializeRefused(k) \/ WriteEnds(k) \/ UninitializeRemoves(k)
  <2>1. UNCHANGED <<ctx, registry, detached>>
    BY <1>3 DEF InitializeFails, InitializeAcquires, InitializeCreates, InitializeRefused,
        WriteEnds, UninitializeRemoves, registryVars, daemonVars
  <2> QED
    BY <2>1, EntryOperations DEF EvictionOK
<1>4. CASE InitializeOpens(k)
  <2>1. /\ BeginOpen(k, req[k].path, req[k].config) /\ req[k].path \in Projects
        /\ LET c == registry[req[k].path] IN c # NoContext => ~Usable(c)
    BY <1>1, <1>4 DEF InitializeOpens
  <2> QED
    BY <2>1, BeginOpenEvicts DEF EvictionOK
<1>5. CASE GuardUnloads(k) \/ UninitializeUnloads(k)
  <2>1. Unload(req[k].path) /\ req[k].path \in Projects
    BY <1>1, <1>5 DEF GuardUnloads, UninitializeUnloads
  <2>2. pc[k] \in {"unloading", "uninitializing"} /\ pc'[k] # pc[k]
    BY <1>1, <1>5 DEF GuardUnloads, UninitializeUnloads, Goto
  <2> QED
    BY <2>1, <2>2, UnloadEvicts DEF EvictionOK, EvictedFor
<1> QED
    BY <1>2, <1>3, <1>4, <1>5 DEF ThreadStep, InitializeStep

LEMMA ClientStepEvicts ==
    ASSUME IInv, NEW p \in Projects, NEW k \in Connections, ClientStep(k)
    PROVE  EvictionOK(p)
<1>1. CASE Disconnect(k) \/ GuardFails(k)
    BY <1>1, EntryOperations DEF Disconnect, GuardFails, EvictionOK
<1>2. CASE \/ WriteBegins(k) \/ \E q \in Projects : UninitializeChecks(k, q)
           \/ \E q \in Projects, g \in Configs : InitializeChecks(k, q, g)
  <2>1. UNCHANGED <<ctx, registry, detached>>
    BY <1>2 DEF WriteBegins, UninitializeChecks, InitializeChecks, registryVars, daemonVars
  <2> QED
    BY <2>1, EntryOperations DEF EvictionOK
<1>3. ASSUME NEW q \in Projects, NEW g \in Configs, HandshakeReuses(k, q, g) PROVE EvictionOK(p)
    BY <1>3, EntryOperations DEF HandshakeReuses, EvictionOK
<1>4. ASSUME NEW q \in Projects, NEW g \in Configs, HandshakeOpens(k, q, g) PROVE EvictionOK(p)
  <2>1. /\ BeginOpen(k, q, g)
        /\ (registry[q] # NoContext /\ Usable(registry[q])) => Attached(registry[q]) = {}
    BY <1>4 DEF HandshakeOpens
  <2> QED
    BY <2>1, BeginOpenEvicts DEF EvictionOK, EvictedFor
<1> QED
    BY <1>1, <1>2, <1>3, <1>4 DEF ClientStep

LEMMA OtherStepsEvict ==
    ASSUME IInv, ElapsedIsEvictable, NEW p \in Projects, DaemonStep \/ Fault \/ UNCHANGED vars
    PROVE  EvictionOK(p)
<1>1. CASE Reap
    BY <1>1, ReapIdleEvicts DEF Reap, EvictionOK, EvictedFor
<1>2. CASE DaemonDies
  <2>1. /\ \A d \in Contexts : ctx'[d] = Dropped
        /\ registry'[p] = NoContext /\ detached'[p] = "none"
    BY <1>2 DEF DaemonDies, ProcessDies
  <2> QED
    BY <2>1 DEF EvictionOK, EvictedFor, ConfigStays, StampStays
<1>3. ASSUME NEW q \in Projects, IdleClock(q) PROVE EvictionOK(p)
  <2>1. RegistryTypeOK /\ StampedEntryIsDetached
    BY DEF IInv, SharingInv
  <2> QED
    BY <1>3, <2>1 DEF IdleClock, IdleTimeoutPasses, EvictionOK, EntryStays, ConfigStays,
        StampStays, StampedEntryIsDetached, Unattached, RegistryTypeOK
<1>4. ASSUME \/ UNCHANGED vars
             \/ \E k \in Connections : OpenWithoutStore(k)
             \/ \E q \in Projects :
                    \/ OtherUnlocks(q) \/ OtherProcessLocks(q)
                    \/ StateRemovedOutOfBand(q) \/ DatabaseReplacedOutOfBand(q)
      PROVE  EvictionOK(p)
  <2>1. UNCHANGED <<ctx, registry, detached>>
    BY <1>4 DEF OtherUnlocks, OtherProcessUnlocks, OtherProcessLocks, StateRemovedOutOfBand,
        DatabaseReplacedOutOfBand, OpenWithoutStore, StoreUnavailable, vars, registryVars, daemonVars
  <2>2. detached[p] = "elapsed" => registry[p] # NoContext
    BY DEF IInv, SharingInv, StampedEntryIsDetached, Unattached
  <2> QED
    BY <2>1, <2>2 DEF EvictionOK, EntryStays, ConfigStays, StampStays
<1> QED
    BY <1>1, <1>2, <1>3, <1>4 DEF DaemonStep, Fault

LEMMA NextEvicts ==
    ASSUME IInv, ElapsedIsEvictable, [Next]_vars
    PROVE  ElapsedIsEvictable' /\ \A p \in Projects : EvictionOK(p)
<1>1. \A p \in Projects : EvictionOK(p)
    BY ThreadStepEvicts, ClientStepEvicts, OtherStepsEvict DEF Next
<1> QED
    BY <1>1, ElapsedStaysEvictable DEF EvictionOK

\* No interleaving of requests, reaping, other processes and deaths takes a
\* usable context out of the registry without one of the causes: in particular
\* neither the idle timeout nor a reconfiguration evicts a context that a client
\* is attached to.
THEOREM NoEvictionWithoutCause == Spec => EvictionHasCause
<1>1. Init => ElapsedIsEvictable
    BY DEF Init, RegistryInit, ElapsedIsEvictable
<1>2. IInv /\ ElapsedIsEvictable /\ [Next]_vars => ElapsedIsEvictable'
    BY NextEvicts
<1>3. IInv /\ ElapsedIsEvictable /\ [Next]_vars =>
        [\A p \in Projects :
            LET c == registry[p] IN
            (c # NoContext /\ Usable(c) /\ registry'[p] # c) =>
                \/ \E k \in Connections : pc[k] \in {"unloading", "uninitializing"} /\ pc'[k] # pc[k]
                \/ \A d \in Contexts : ctx'[d] = Dropped
                \/ /\ Attached(c) = {}
                   /\ \/ opening' # opening
                      \/ detached[p] = "elapsed" /\ ctx[c].config \notin PersistentConfigs]_vars
    BY NextEvicts DEF EvictionOK, EvictedFor, EntryStays
<1> QED
    BY <1>1, <1>2, <1>3, Invariance, PTL DEF Spec, EvictionHasCause
=============================================================================
