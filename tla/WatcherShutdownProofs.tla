------------------------ MODULE WatcherShutdownProofs ------------------------
(***************************************************************************)
(* Proofs about WatcherShutdown, for any connections, pool of contexts and *)
(* bounds.                                                                 *)
(***************************************************************************)
EXTENDS WatcherShutdown, TLAPS

Live(c) == ctx[c].life = "live"

\* What is referenced is open, and what is open is referenced.
ReferencesSound == \A c \in Contexts : Referenced(c, entry, bound) <=> Live(c)

\* A context between its last reference and its end has one thread dropping it.
DropsSound ==
    /\ \A t \in Threads : dropping[t] # None =>
         ctx[dropping[t]].life \in {"dropped", "unleased", "signalled"}
    /\ \A c \in Contexts : ctx[c].life \in {"dropped", "unleased", "signalled"} =>
         \E t \in Threads : dropping[t] = c
    /\ \A t, u \in Threads : dropping[t] # None /\ dropping[t] = dropping[u] => t = u

\* Leases are exclusive, and go with the first step of a drop.
LeasesSound ==
    /\ \A c \in Contexts : ctx[c].lease => ctx[c].life \in {"live", "dropped"}
    /\ \A c, d \in Contexts : ctx[c].lease /\ ctx[d].lease /\ ctx[c].of = ctx[d].of => c = d

\* Only a context that took a lease has a watcher.
WatchersSound ==
    \A c \in Contexts : watcher[c].at # "none" =>
        /\ ctx[c].life # "unused"
        /\ ctx[c].life \in {"live", "dropped"} => ctx[c].lease

\* Who loads has the mutex and no context, and the entry is out.
LoadingSound == \A k \in Connections : pc[k] = "load" => mutex = k /\ entry = None /\ bound[k] = None

ShutdownInv == TypeOK /\ ReferencesSound /\ DropsSound /\ LeasesSound /\ WatchersSound /\ LoadingSound

-----------------------------------------------------------------------------
(* Steps that move references.                                             *)

\* Giving up references to one context keeps the four parts: every other
\* context is referenced as before, and this one is dropped by the thread that
\* gave up the last of them.
LEMMA LetGoSound ==
    ASSUME TypeOK, ReferencesSound, DropsSound, LeasesSound, WatchersSound,
           NEW t \in Threads, Released(t),
           NEW c \in Contexts \cup {None}, NEW e, NEW b, NEW shut,
           c # None => Live(c),
           \A x \in Contexts : x # c => (Referenced(x, e, b) <=> Live(x)),
           LetGo(t, c, e, b, shut), watcher' = watcher
    PROVE  ReferencesSound' /\ DropsSound' /\ LeasesSound' /\ WatchersSound'
<1> None \notin Contexts
  BY ShutdownAssumption
<1>1. entry' = e /\ bound' = b
  BY DEF LetGo
<1>2. dropping' = [dropping EXCEPT ![t] = IF Last(c, e, b) THEN c ELSE None]
  BY DEF LetGo
<1>3. \A x \in Contexts : /\ ctx'[x].life = IF x = c /\ Last(c, e, b) THEN "dropped" ELSE ctx[x].life
                          /\ ctx'[x].lease = ctx[x].lease
                          /\ ctx'[x].of = ctx[x].of
  <2> SUFFICES ASSUME NEW x \in Contexts
               PROVE  /\ ctx'[x].life = IF x = c /\ Last(c, e, b) THEN "dropped" ELSE ctx[x].life
                      /\ ctx'[x].lease = ctx[x].lease
                      /\ ctx'[x].of = ctx[x].of
    OBVIOUS
  <2> DEFINE closed == ctx[x].closed \/ x \in shut
             life == IF x = c /\ Last(c, e, b) THEN "dropped" ELSE ctx[x].life
  <2>1. ctx'[x] = [ctx[x] EXCEPT !.closed = closed, !.life = life]
    BY DEF LetGo
  <2>2. ctx[x] \in [life : Drops, of : 0 .. MaxDatabases, closed : BOOLEAN, lease : BOOLEAN]
    BY DEF TypeOK
  <2> HIDE DEF closed, life
  <2>3. ctx'[x].life = life /\ ctx'[x].lease = ctx[x].lease /\ ctx'[x].of = ctx[x].of
    BY <2>1, <2>2
  <2> QED BY <2>3 DEF life
<1>4. dropping[t] = None
  BY DEF Released
<1>5. \A u \in Threads : dropping'[u] = IF u = t /\ Last(c, e, b) THEN c ELSE dropping[u]
  BY <1>2, <1>4 DEF TypeOK
<1>6. Last(c, e, b) => c \in Contexts /\ ctx[c].life = "live"
  BY DEF Last, Live
<1>7. \A x \in Contexts : Referenced(x, entry', bound') <=> Referenced(x, e, b)
  BY <1>1
<1>8. c \in Contexts => (Referenced(c, e, b) <=> ~ Last(c, e, b))
  BY DEF Last
<1>9. ReferencesSound'
  <2>1. ASSUME NEW x \in Contexts PROVE Referenced(x, entry', bound') <=> ctx'[x].life = "live"
    <3>1. CASE x = c
      <4>1. ctx[x].life = "live"
        BY <3>1 DEF Live
      <4> QED BY <3>1, <4>1, <1>3, <1>7, <1>8
    <3>2. CASE x # c
      BY <3>2, <1>3, <1>7 DEF Live
    <3> QED BY <3>1, <3>2
  <2> QED BY <2>1 DEF ReferencesSound, Live
<1>10. DropsSound'
  <2>1. \A x \in Contexts : ctx[x].life = "live" => \A u \in Threads : dropping[u] # x
    BY DEF DropsSound, TypeOK
  <2> QED BY <2>1, <1>3, <1>5, <1>6, <1>4 DEF DropsSound, TypeOK
<1>11. LeasesSound'
  BY <1>3 DEF LeasesSound
<1>12. WatchersSound'
  BY <1>3, <1>6 DEF WatchersSound
<1> QED BY <1>9, <1>10, <1>11, <1>12

\* And it keeps the types.
LEMMA LetGoTyped ==
    ASSUME TypeOK, NEW t \in Threads, NEW c \in Contexts \cup {None},
           NEW e \in Contexts \cup {None}, NEW b \in [Connections -> Contexts \cup {None}], NEW shut,
           LetGo(t, c, e, b, shut)
    PROVE  /\ entry' \in Contexts \cup {None}
           /\ bound' \in [Connections -> Contexts \cup {None}]
           /\ dropping' \in [Threads -> Contexts \cup {None}]
           /\ ctx' \in [Contexts -> [life : Drops, of : 0 .. MaxDatabases, closed : BOOLEAN, lease : BOOLEAN]]
<1>1. dropping' \in [Threads -> Contexts \cup {None}]
  BY DEF LetGo, TypeOK
<1> DEFINE Record == [life : Drops, of : 0 .. MaxDatabases, closed : BOOLEAN, lease : BOOLEAN]
<1>2. ASSUME NEW x \in Contexts
      PROVE  [ctx[x] EXCEPT !.closed = ctx[x].closed \/ x \in shut,
                            !.life = IF x = c /\ Last(c, e, b) THEN "dropped" ELSE ctx[x].life] \in Record
  <2> DEFINE closed == ctx[x].closed \/ x \in shut
             life == IF x = c /\ Last(c, e, b) THEN "dropped" ELSE ctx[x].life
  <2>1. ctx[x] \in Record
    BY DEF TypeOK
  <2>2. closed \in BOOLEAN /\ life \in Drops
    BY <2>1, Zenon DEF Drops
  <2> HIDE DEF closed, life
  <2>3. [ctx[x] EXCEPT !.closed = closed, !.life = life] \in Record
    BY <2>1, <2>2
  <2> QED BY <2>3 DEF closed, life
<1>3. ctx' \in [Contexts -> Record]
  BY <1>2, Zenon DEF LetGo
<1> QED BY <1>1, <1>3 DEF LetGo

-----------------------------------------------------------------------------
(* The invariant.                                                          *)

LEMMA InitShutdownInv == Init => ShutdownInv
BY ShutdownAssumption
   DEF Init, ShutdownInv, TypeOK, ReferencesSound, DropsSound, LeasesSound, WatchersSound, LoadingSound,
       Referenced, Live, NoContext, NoWatcher, Threads, Steps, Drops

\* A drop changes nothing but the context that is dropped, whose thread is alone
\* with it.
LEMMA DropStep ==
    ASSUME ShutdownInv, NEW t \in Threads, Drop(t)
    PROVE  ShutdownInv'
<1> DEFINE c == dropping[t]
<1> USE DEF ShutdownInv
<1>1. CASE ReleaseLease(t)
  <2>1. c \in Contexts /\ ctx[c].life = "dropped"
    BY <1>1 DEF ReleaseLease, TypeOK
  <2>2. \A x \in Contexts : /\ ctx'[x].life = IF x = c THEN "unleased" ELSE ctx[x].life
                            /\ ctx'[x].lease = IF x = c THEN FALSE ELSE ctx[x].lease
                            /\ ctx'[x].of = ctx[x].of
    BY <1>1 DEF ReleaseLease, TypeOK
  <2>3. TypeOK'
    BY <1>1 DEF ReleaseLease, TypeOK, Drops
  <2>4. UNCHANGED <<entry, mutex, bound, dropping, pc, watcher>>
    BY <1>1 DEF ReleaseLease
  <2> HIDE DEF c
  <2>5. ReferencesSound'
    BY <2>1, <2>2, <2>4 DEF ReferencesSound, Referenced, Live
  <2>6. DropsSound'
    <3>1. \A u \in Threads : dropping[u] \in Contexts \cup {None}
      BY DEF TypeOK
    <3>2. \A u \in Threads : dropping'[u] # None =>
            ctx'[dropping'[u]].life \in {"dropped", "unleased", "signalled"}
      BY <2>2, <2>4, <3>1 DEF DropsSound
    <3>3. \A x \in Contexts : ctx'[x].life \in {"dropped", "unleased", "signalled"} =>
            \E u \in Threads : dropping'[u] = x
      BY <2>1, <2>2, <2>4 DEF DropsSound
    <3> QED BY <2>4, <3>2, <3>3 DEF DropsSound
  <2>7. LeasesSound' /\ WatchersSound' /\ LoadingSound'
    BY <2>1, <2>2, <2>4 DEF LeasesSound, WatchersSound, LoadingSound
  <2> QED BY <2>3, <2>5, <2>6, <2>7
<1>2. CASE Signal(t)
  <2>1. c \in Contexts /\ ctx[c].life = "unleased"
    BY <1>2 DEF Signal, TypeOK
  <2>2. \A x \in Contexts : /\ ctx'[x].life = IF x = c THEN "signalled" ELSE ctx[x].life
                            /\ ctx'[x].lease = ctx[x].lease
                            /\ ctx'[x].of = ctx[x].of
    BY <1>2 DEF Signal, TypeOK
  <2>3. TypeOK'
    BY <1>2 DEF Signal, TypeOK, Drops
  <2>4. UNCHANGED <<entry, mutex, bound, dropping, pc, watcher>>
    BY <1>2 DEF Signal
  <2> HIDE DEF c
  <2>5. ReferencesSound'
    BY <2>1, <2>2, <2>4 DEF ReferencesSound, Referenced, Live
  <2>6. DropsSound'
    <3>1. \A u \in Threads : dropping[u] \in Contexts \cup {None}
      BY DEF TypeOK
    <3>2. \A u \in Threads : dropping'[u] # None =>
            ctx'[dropping'[u]].life \in {"dropped", "unleased", "signalled"}
      BY <2>2, <2>4, <3>1 DEF DropsSound
    <3>3. \A x \in Contexts : ctx'[x].life \in {"dropped", "unleased", "signalled"} =>
            \E u \in Threads : dropping'[u] = x
      BY <2>1, <2>2, <2>4 DEF DropsSound
    <3> QED BY <2>4, <3>2, <3>3 DEF DropsSound
  <2>7. LeasesSound' /\ WatchersSound' /\ LoadingSound'
    BY <2>1, <2>2, <2>4 DEF LeasesSound, WatchersSound, LoadingSound
  <2> QED BY <2>3, <2>5, <2>6, <2>7
<1>3. CASE Join(t)
  <2>1. c \in Contexts /\ ctx[c].life = "signalled" /\ watcher[c].at = "none"
    BY <1>3 DEF Join, TypeOK
  <2>2. \A x \in Contexts : /\ ctx'[x].life = IF x = c THEN "unused" ELSE ctx[x].life
                            /\ ctx'[x].lease = IF x = c THEN FALSE ELSE ctx[x].lease
                            /\ ctx'[x].of = IF x = c THEN 0 ELSE ctx[x].of
    BY <1>3 DEF Join, TypeOK, NoContext
  <2>3. TypeOK'
    <3>1. NoContext \in [life : Drops, of : 0 .. MaxDatabases, closed : BOOLEAN, lease : BOOLEAN]
      BY ShutdownAssumption DEF NoContext, Drops
    <3>2. mutex' \in Threads \cup {None} /\ dropping' \in [Threads -> Contexts \cup {None}]
      BY <1>3 DEF Join, TypeOK
    <3> QED BY <1>3, <3>1, <3>2 DEF Join, TypeOK
  <2>4. /\ UNCHANGED <<entry, bound, pc, watcher>>
        /\ mutex' = IF mutex = t /\ pc[t] # "load" THEN None ELSE mutex
        /\ \A u \in Threads : dropping'[u] = IF u = t THEN None ELSE dropping[u]
    BY <1>3 DEF Join, TypeOK
  <2> HIDE DEF c
  <2>5. ReferencesSound'
    BY <2>1, <2>2, <2>4 DEF ReferencesSound, Referenced, Live
  <2>6. DropsSound'
    <3>1. \A u \in Threads : dropping[u] \in Contexts \cup {None}
      BY DEF TypeOK
    <3>2. \A u \in Threads : dropping'[u] # None => dropping'[u] # c /\ dropping'[u] = dropping[u]
      <4>1. c # None
        BY <2>1, ShutdownAssumption
      <4>2. ASSUME NEW u \in Threads, dropping'[u] # None PROVE u # t /\ dropping'[u] = dropping[u]
        BY <2>4, <4>2
      <4>3. ASSUME NEW u \in Threads, u # t PROVE dropping[u] # c
        BY <4>1, <4>3 DEF DropsSound, c
      <4> QED BY <4>2, <4>3
    <3>3. \A u \in Threads : dropping'[u] # None =>
            ctx'[dropping'[u]].life \in {"dropped", "unleased", "signalled"}
      <4>1. ASSUME NEW u \in Threads, dropping'[u] # None
            PROVE  dropping[u] \in Contexts \ {c} /\ dropping'[u] = dropping[u]
        BY <3>1, <3>2, <4>1
      <4>2. ASSUME NEW u \in Threads, dropping[u] \in Contexts \ {c}
            PROVE  ctx'[dropping[u]].life \in {"dropped", "unleased", "signalled"}
        BY <2>2, <4>2, ShutdownAssumption DEF DropsSound
      <4> QED BY <4>1, <4>2
    <3>4. ASSUME NEW x \in Contexts, ctx'[x].life \in {"dropped", "unleased", "signalled"}
          PROVE  \E u \in Threads : dropping'[u] = x
      <4>1. x # c
        BY <2>2, <3>4
      <4>2. PICK u \in Threads : dropping[u] = x
        BY <2>2, <3>4, <4>1 DEF DropsSound
      <4>3. u # t
        BY <4>1, <4>2 DEF c
      <4> QED BY <2>4, <4>2, <4>3
    <3>5. \A u, v \in Threads : dropping'[u] # None /\ dropping'[u] = dropping'[v] => u = v
      BY <3>2 DEF DropsSound
    <3> QED BY <3>3, <3>4, <3>5 DEF DropsSound
  <2>7. LeasesSound' /\ WatchersSound'
    BY <2>1, <2>2, <2>4, ZenonT(40) DEF LeasesSound, WatchersSound
  <2>8. LoadingSound'
    BY <2>4 DEF LoadingSound
  <2> QED BY <2>3, <2>5, <2>6, <2>7, <2>8
<1> QED BY <1>1, <1>2, <1>3 DEF Drop

\* A watcher changes nothing but where it is, and does not start again.
LEMMA WatchStep ==
    ASSUME ShutdownInv, NEW c \in Contexts, Watch(c)
    PROVE  ShutdownInv'
<1> USE DEF ShutdownInv
<1>1. UNCHANGED <<db, made, entry, mutex, bound, dropping, pc, ctx>>
  BY DEF Watch, Turn, Event, Debounced, Told, Drain, Updated, OnlyWatcher
<1>2. watcher[c].at # "none"
  BY DEF Watch, Turn, Event, Debounced, Told, Drain, Updated
<1>3. \E where \in {"none", "top", "select", "drain", "update"}, n \in 0 .. MaxPending : At(c, where, n)
  <2>1. watcher[c].pending \in 0 .. MaxPending /\ 0 \in 0 .. MaxPending
    BY ShutdownAssumption DEF TypeOK
  <2>2. watcher[c].pending > 0 => watcher[c].pending - 1 \in 0 .. MaxPending
    BY <2>1, ShutdownAssumption
  <2>3. watcher[c].pending # 0 => watcher[c].pending > 0
    BY <2>1
  <2>4. \A n : n \in {watcher[c].pending, watcher[c].pending + 1} /\ n <= MaxPending => n \in 0 .. MaxPending
    BY <2>1, ShutdownAssumption
  <2>5. CASE Turn(c)
    BY <2>1, <2>5 DEF Turn, Ends
  <2>6. CASE Event(c)
    BY <2>4, <2>6 DEF Event
  <2>7. CASE Debounced(c)
    BY <2>1, <2>7 DEF Debounced, Ends
  <2>8. CASE Told(c)
    BY <2>1, <2>8 DEF Told, Ends
  <2>9. CASE Drain(c)
    BY <2>1, <2>2, <2>3, <2>9 DEF Drain
  <2>10. CASE Updated(c)
    BY <2>1, <2>10 DEF Updated
  <2> QED BY <2>5, <2>6, <2>7, <2>8, <2>9, <2>10 DEF Watch
<1>4. TypeOK'
  BY <1>1, <1>3 DEF TypeOK, At
<1>5. \A x \in Contexts : watcher'[x].at # "none" => watcher[x].at # "none"
  BY <1>2, <1>3 DEF TypeOK, At
<1>6. WatchersSound'
  BY <1>1, <1>5 DEF WatchersSound
<1>7. ReferencesSound' /\ DropsSound' /\ LeasesSound' /\ LoadingSound'
  BY <1>1 DEF ReferencesSound, Referenced, Live, DropsSound, LeasesSound, LoadingSound
<1> QED BY <1>4, <1>6, <1>7

\* Bindings of one connection.
LEMMA BindFact ==
    ASSUME TypeOK, NEW k \in Connections, NEW c \in Contexts \cup {None}
    PROVE  /\ Bind(k, c) \in [Connections -> Contexts \cup {None}]
           /\ \A j \in Connections : Bind(k, c)[j] = IF j = k THEN c ELSE bound[j]
BY DEF Bind, TypeOK

LEMMA GoesFact ==
    ASSUME TypeOK, NEW t \in Threads, NEW step \in Steps, Goes(t, step)
    PROVE  /\ pc' \in [Threads -> Steps]
           /\ \A u \in Threads : pc'[u] = IF u = t THEN step ELSE pc[u]
BY DEF Goes, TypeOK

\* Evicting the registry's entry, with or without ending the context.
LEMMA EvictStep ==
    ASSUME ShutdownInv, NEW t \in Threads, Released(t), NEW shut,
           LetGo(t, entry, None, bound, shut), watcher' = watcher
    PROVE  ReferencesSound' /\ DropsSound' /\ LeasesSound' /\ WatchersSound' /\ entry' = None
<1> USE DEF ShutdownInv
<1>1. entry \in Contexts \cup {None}
  BY DEF TypeOK
<1>2. entry # None => Live(entry)
  BY <1>1 DEF ReferencesSound, Referenced
<1>3. \A x \in Contexts : x # entry => (Referenced(x, None, bound) <=> Live(x))
  BY ShutdownAssumption DEF ReferencesSound, Referenced
<1>4. entry' = None
  BY DEF LetGo
<1> QED BY <1>1, <1>2, <1>3, <1>4, LetGoSound

\* Unbinding a connection.
LEMMA UnbindStep ==
    ASSUME ShutdownInv, NEW k \in Connections, Released(k), NEW shut, bound[k] # None,
           LetGo(k, bound[k], entry, Bind(k, None), shut), watcher' = watcher
    PROVE  ReferencesSound' /\ DropsSound' /\ LeasesSound' /\ WatchersSound' /\ entry' = entry
<1> USE DEF ShutdownInv
<1>1. bound[k] \in Contexts \cup {None} /\ k \in Threads
  BY DEF TypeOK, Threads
<1>2. Live(bound[k])
  BY <1>1 DEF ReferencesSound, Referenced
<1>3. \A x \in Contexts : x # bound[k] => (Referenced(x, entry, Bind(k, None)) <=> Live(x))
  <2>1. \A j \in Connections : Bind(k, None)[j] = IF j = k THEN None ELSE bound[j]
    BY BindFact
  <2> QED BY <2>1, ShutdownAssumption DEF ReferencesSound, Referenced
<1>4. entry' = entry
  BY DEF LetGo
<1> QED BY <1>1, <1>2, <1>3, <1>4, LetGoSound

\* Opening refers to a context that had no references, no lease and no watcher.
LEMMA OpenStep ==
    ASSUME ShutdownInv, NEW k \in Connections, Open(k)
    PROVE  ShutdownInv'
<1> USE DEF ShutdownInv
<1>1. PICK c \in Contexts :
        /\ ctx[c].life = "unused"
        /\ ctx' = [ctx EXCEPT ![c] = [life |-> "live", of |-> db, closed |-> FALSE, lease |-> LeaseFree(db)]]
        /\ entry' = c /\ bound' = Bind(k, c)
        /\ watcher' = [watcher EXCEPT ![c] = IF HasWatcher(c) THEN [at |-> "top", pending |-> 0] ELSE NoWatcher]
  BY DEF Open
<1>2. /\ pc[k] = "load" /\ mutex' = None /\ Goes(k, "idle") /\ Released(k)
      /\ UNCHANGED <<db, made, dropping>>
  BY DEF Open
<1>3. k \in Threads /\ "idle" \in Steps
  BY DEF Threads, Steps
<1>4. mutex = k /\ entry = None /\ bound' \in [Connections -> Contexts \cup {None}]
  BY <1>1, <1>2, BindFact DEF LoadingSound
<1>5. LeaseFree(db) \in BOOLEAN
  BY DEF LeaseFree
<1>6. \A x \in Contexts : /\ ctx'[x].life = IF x = c THEN "live" ELSE ctx[x].life
                          /\ ctx'[x].lease = IF x = c THEN LeaseFree(db) ELSE ctx[x].lease
                          /\ ctx'[x].of = IF x = c THEN db ELSE ctx[x].of
  BY <1>1, Zenon DEF TypeOK
<1>7. ~ Referenced(c, entry, bound)
  BY <1>1 DEF ReferencesSound, Live
<1>8. TypeOK'
  <2>1. [life |-> "live", of |-> db, closed |-> FALSE, lease |-> LeaseFree(db)]
          \in [life : Drops, of : 0 .. MaxDatabases, closed : BOOLEAN, lease : BOOLEAN]
    BY <1>5 DEF TypeOK, Drops
  <2>2. ctx' \in [Contexts -> [life : Drops, of : 0 .. MaxDatabases, closed : BOOLEAN, lease : BOOLEAN]]
    BY <1>1, <2>1, Zenon DEF TypeOK
  <2>3. watcher' \in [Contexts -> [at : {"none", "top", "select", "drain", "update"}, pending : 0 .. MaxPending]]
    BY <1>1, ShutdownAssumption DEF TypeOK, NoWatcher
  <2>4. pc' \in [Threads -> Steps]
    BY <1>2, <1>3, GoesFact
  <2> QED BY <1>1, <1>2, <1>4, <2>2, <2>3, <2>4 DEF TypeOK
<1>9. ReferencesSound'
  <2>1. \A x \in Contexts : Referenced(x, entry', bound') <=> (x = c \/ Referenced(x, entry, bound))
    <3>1. \A j \in Connections : bound'[j] = IF j = k THEN c ELSE bound[j]
      BY <1>1, BindFact
    <3>2. ASSUME NEW x \in Contexts, Referenced(x, entry, bound), x # c PROVE bound[k] # x
      <4>1. bound[k] = None
        BY <1>2 DEF LoadingSound
      <4> QED BY <4>1, ShutdownAssumption
    <3> QED BY <1>1, <1>4, <3>1, <3>2, ShutdownAssumption DEF Referenced
  <2> QED BY <2>1, <1>6 DEF ReferencesSound, Live
<1>10. DropsSound'
  <2>1. \A u \in Threads : dropping[u] # None => dropping[u] \in Contexts /\ dropping[u] # c
    BY <1>1 DEF DropsSound, TypeOK
  <2> QED BY <2>1, <1>2, <1>6 DEF DropsSound
<1>11. LeasesSound'
  BY <1>1, <1>6 DEF LeasesSound, LeaseFree
<1>12. WatchersSound'
  <2>1. \A x \in Contexts : x # c => watcher'[x] = watcher[x]
    BY <1>1 DEF TypeOK
  <2>2. watcher'[c].at # "none" => ctx'[c].lease
    BY <1>1 DEF TypeOK, HasWatcher, NoWatcher
  <2> QED BY <2>1, <2>2, <1>6 DEF WatchersSound
<1>13. LoadingSound'
  BY <1>2, <1>3, <1>4, GoesFact DEF LoadingSound, Threads
<1> QED BY <1>8, <1>9, <1>10, <1>11, <1>12, <1>13

LEMMA ConnectionStep ==
    ASSUME ShutdownInv, NEW k \in Connections, Connection(k)
    PROVE  ShutdownInv'
<1> USE DEF ShutdownInv
<1> k \in Threads /\ {"idle", "load", "guard", "unload", "remove"} \subseteq Steps
  BY DEF Threads, Steps
<1>1. CASE Share(k)
  <2>1. /\ bound' = Bind(k, entry) /\ bound[k] = None
        /\ entry \in Contexts /\ pc[k] = "idle"
        /\ UNCHANGED <<db, made, entry, mutex, dropping, pc, ctx, watcher>>
    BY <1>1 DEF Share, TypeOK
  <2>2. \A j \in Connections : bound'[j] = IF j = k THEN entry ELSE bound[j]
    BY <2>1, BindFact
  <2>3. \A x \in Contexts : Referenced(x, entry', bound') <=> Referenced(x, entry, bound)
    BY <2>1, <2>2, ShutdownAssumption DEF Referenced
  <2>4. TypeOK'
    BY <2>1, BindFact DEF TypeOK
  <2>5. ReferencesSound'
    BY <2>1, <2>3 DEF ReferencesSound, Live
  <2>6. DropsSound' /\ LeasesSound' /\ WatchersSound'
    BY <2>1 DEF DropsSound, LeasesSound, WatchersSound
  <2>7. LoadingSound'
    BY <2>1, <2>2 DEF LoadingSound
  <2> QED BY <2>4, <2>5, <2>6, <2>7
<1>2. CASE Load(k)
  <2>1. /\ Released(k) /\ mutex = None /\ bound[k] = None /\ mutex' = k /\ Goes(k, "load")
        /\ LetGo(k, entry, None, bound, {entry} \ {None})
        /\ UNCHANGED <<db, made, watcher>>
    BY <1>2 DEF Load, Free
  <2>2. ReferencesSound' /\ DropsSound' /\ LeasesSound' /\ WatchersSound' /\ entry' = None /\ bound' = bound
    BY <2>1, EvictStep DEF LetGo
  <2>3. TypeOK'
    <3>1. entry \in Contexts \cup {None} /\ bound \in [Connections -> Contexts \cup {None}]
      BY DEF TypeOK
    <3> QED BY <2>1, <3>1, LetGoTyped, GoesFact DEF TypeOK
  <2>4. LoadingSound'
    BY <2>1, <2>2, GoesFact, ShutdownAssumption DEF LoadingSound, Threads
  <2> QED BY <2>2, <2>3, <2>4
<1>3. CASE Open(k)
  BY <1>3, OpenStep
<1>4. CASE OpenFails(k)
  <2>1. /\ pc[k] = "load" /\ mutex' = None /\ Goes(k, "idle")
        /\ UNCHANGED <<db, made, entry, bound, dropping, ctx, watcher>>
    BY <1>4 DEF OpenFails
  <2>2. ReferencesSound' /\ DropsSound' /\ LeasesSound' /\ WatchersSound'
    BY <2>1 DEF ReferencesSound, Referenced, Live, DropsSound, LeasesSound, WatchersSound
  <2>3. TypeOK'
    BY <2>1, GoesFact DEF TypeOK
  <2>4. LoadingSound'
    BY <2>1, GoesFact DEF LoadingSound, Threads
  <2> QED BY <2>2, <2>3, <2>4
<1>5. CASE Disconnect(k)
  <2>1. /\ Released(k) /\ pc[k] = "idle" /\ bound[k] # None
        /\ LetGo(k, bound[k], entry, Bind(k, None), {})
        /\ UNCHANGED <<db, made, mutex, pc, watcher>>
    BY <1>5 DEF Disconnect
  <2>2. ReferencesSound' /\ DropsSound' /\ LeasesSound' /\ WatchersSound' /\ entry' = entry
    BY <2>1, UnbindStep
  <2>3. TypeOK'
    <3>1. entry \in Contexts \cup {None} /\ bound[k] \in Contexts \cup {None}
      BY DEF TypeOK
    <3> QED BY <2>1, <3>1, LetGoTyped, BindFact DEF TypeOK
  <2>4. LoadingSound'
    <3>1. bound' = Bind(k, None)
      BY <2>1 DEF LetGo
    <3> QED BY <2>1, <2>2, <3>1, BindFact DEF LoadingSound
  <2> QED BY <2>2, <2>3, <2>4
<1>6. CASE Guard(k)
  <2>1. /\ Released(k) /\ pc[k] = "idle" /\ bound[k] # None /\ Goes(k, "guard")
        /\ LetGo(k, bound[k], entry, Bind(k, None), {bound[k]})
        /\ UNCHANGED <<db, made, mutex, watcher>>
    BY <1>6 DEF Guard
  <2>2. ReferencesSound' /\ DropsSound' /\ LeasesSound' /\ WatchersSound' /\ entry' = entry
    BY <2>1, UnbindStep
  <2>3. TypeOK'
    <3>1. entry \in Contexts \cup {None} /\ bound[k] \in Contexts \cup {None}
      BY DEF TypeOK
    <3> QED BY <2>1, <3>1, LetGoTyped, BindFact, GoesFact DEF TypeOK
  <2>4. LoadingSound'
    <3>1. bound' = Bind(k, None)
      BY <2>1 DEF LetGo
    <3> QED BY <2>1, <2>2, <3>1, BindFact, GoesFact DEF LoadingSound, Threads
  <2> QED BY <2>2, <2>3, <2>4
<1>7. CASE Check(k)
  <2>1. Goes(k, "unload") /\ UNCHANGED <<db, made, entry, mutex, bound, dropping, ctx, watcher>>
    BY <1>7 DEF Check
  <2>2. ReferencesSound' /\ DropsSound' /\ LeasesSound' /\ WatchersSound'
    BY <2>1 DEF ReferencesSound, Referenced, Live, DropsSound, LeasesSound, WatchersSound
  <2>3. TypeOK' /\ LoadingSound'
    BY <2>1, GoesFact DEF TypeOK, LoadingSound, Threads
  <2> QED BY <2>2, <2>3
<1>8. CASE Unload(k)
  <2>1. /\ Released(k) /\ mutex = None /\ pc[k] # "load"
        /\ LetGo(k, entry, None, bound, {entry} \ {None})
        /\ mutex' \in {k, None}
        /\ UNCHANGED <<db, made, watcher>>
    BY <1>8 DEF Unload, Free, Evict
  <2>2. PICK step \in {"idle", "remove"} : Goes(k, step)
    BY <1>8 DEF Unload
  <2>3. ReferencesSound' /\ DropsSound' /\ LeasesSound' /\ WatchersSound' /\ entry' = None /\ bound' = bound
    BY <2>1, EvictStep DEF LetGo
  <2>4. TypeOK'
    <3>1. entry \in Contexts \cup {None} /\ bound \in [Connections -> Contexts \cup {None}]
      BY DEF TypeOK
    <3> QED BY <2>1, <2>2, <3>1, LetGoTyped, GoesFact DEF TypeOK
  <2>5. LoadingSound'
    <3>1. \A j \in Connections : pc[j] # "load"
      BY <2>1, ShutdownAssumption DEF LoadingSound
    <3> QED BY <2>2, <3>1, GoesFact DEF LoadingSound, Threads
  <2> QED BY <2>3, <2>4, <2>5
<1>9. CASE Remove(k)
  <2>1. db' = 0 /\ Goes(k, "idle") /\ UNCHANGED <<made, entry, mutex, bound, dropping, ctx, watcher>>
    BY <1>9 DEF Remove
  <2>2. ReferencesSound' /\ DropsSound' /\ LeasesSound' /\ WatchersSound'
    BY <2>1 DEF ReferencesSound, Referenced, Live, DropsSound, LeasesSound, WatchersSound
  <2>3. TypeOK' /\ LoadingSound'
    BY <2>1, GoesFact, ShutdownAssumption DEF TypeOK, LoadingSound, Threads
  <2> QED BY <2>2, <2>3
<1> QED BY <1>1, <1>2, <1>3, <1>4, <1>5, <1>6, <1>7, <1>8, <1>9 DEF Connection

LEMMA NextShutdownInv == ShutdownInv /\ [Next]_vars => ShutdownInv'
<1> SUFFICES ASSUME ShutdownInv, [Next]_vars PROVE ShutdownInv'
  OBVIOUS
<1> USE DEF ShutdownInv
<1> Loop \in Threads /\ {"idle", "exit"} \subseteq Steps
  BY DEF Threads, Steps
<1>1. CASE \E t \in Threads : Drop(t)
  BY <1>1, DropStep
<1>2. CASE \E k \in Connections : Connection(k)
  BY <1>2, ConnectionStep
<1>3. CASE \E c \in Contexts : Watch(c)
  BY <1>3, WatchStep
<1>4. CASE Create
  BY <1>4, ShutdownAssumption
     DEF Create, TypeOK, ReferencesSound, Referenced, Live, DropsSound, LeasesSound, WatchersSound, LoadingSound
<1>5. CASE Reap
  <2>1. /\ Released(Loop) /\ mutex = None
        /\ LetGo(Loop, entry, None, bound, {entry} \ {None})
        /\ mutex' \in {Loop, None}
        /\ UNCHANGED <<db, made, pc, watcher>>
    BY <1>5 DEF Reap, Free, Evict
  <2>2. ReferencesSound' /\ DropsSound' /\ LeasesSound' /\ WatchersSound'
    BY <2>1, EvictStep
  <2>3. TypeOK'
    <3>1. entry \in Contexts \cup {None} /\ bound \in [Connections -> Contexts \cup {None}]
      BY DEF TypeOK
    <3> QED BY <2>1, <3>1, LetGoTyped DEF TypeOK
  <2>4. LoadingSound'
    BY <2>1, ShutdownAssumption DEF LoadingSound
  <2> QED BY <2>2, <2>3, <2>4
<1>6. CASE Stop
  <2>1. /\ Released(Loop) /\ mutex = None /\ Goes(Loop, "exit")
        /\ LetGo(Loop, entry, None, bound, {})
        /\ UNCHANGED <<db, made, mutex, watcher>>
    BY <1>6 DEF Stop, Free
  <2>2. ReferencesSound' /\ DropsSound' /\ LeasesSound' /\ WatchersSound'
    BY <2>1, EvictStep
  <2>3. TypeOK'
    <3>1. entry \in Contexts \cup {None} /\ bound \in [Connections -> Contexts \cup {None}]
      BY DEF TypeOK
    <3> QED BY <2>1, <3>1, LetGoTyped, GoesFact DEF TypeOK
  <2>4. LoadingSound'
    <3>1. \A j \in Connections : pc[j] # "load"
      BY <2>1, ShutdownAssumption DEF LoadingSound
    <3> QED BY <2>1, <3>1, GoesFact DEF LoadingSound, Threads
  <2> QED BY <2>2, <2>3, <2>4
<1>7. CASE Exit
  <2>1. /\ entry' = None /\ mutex' = None /\ UNCHANGED <<db, made>>
        /\ bound' = [k \in Connections |-> None] /\ dropping' = [t \in Threads |-> None]
        /\ pc' = [t \in Threads |-> "idle"]
        /\ ctx' = [c \in Contexts |-> NoContext] /\ watcher' = [c \in Contexts |-> NoWatcher]
    BY <1>7 DEF Exit
  <2>2. TypeOK'
    BY <2>1, ShutdownAssumption DEF TypeOK, NoContext, NoWatcher, Drops, Steps
  <2>3. ReferencesSound' /\ DropsSound' /\ LeasesSound' /\ WatchersSound' /\ LoadingSound'
    BY <2>1, ShutdownAssumption
       DEF ReferencesSound, Referenced, Live, DropsSound, LeasesSound, WatchersSound, LoadingSound,
           NoContext, NoWatcher, Threads
  <2> QED BY <2>2, <2>3
<1>8. CASE UNCHANGED vars
  BY <1>8 DEF vars, TypeOK, ReferencesSound, Referenced, Live, DropsSound, LeasesSound, WatchersSound, LoadingSound
<1> QED BY <1>1, <1>2, <1>3, <1>4, <1>5, <1>6, <1>7, <1>8 DEF Next

LEMMA ShutdownInvariant == Spec => []ShutdownInv
BY InitShutdownInv, NextShutdownInv, PTL DEF Spec

-----------------------------------------------------------------------------
(* The theorems.                                                           *)

\* The model is well typed for any connections, pool of contexts and bounds.
THEOREM TypeCorrect == Spec => []TypeOK
<1>1. ShutdownInv => TypeOK
  BY DEF ShutdownInv
<1> QED BY <1>1, ShutdownInvariant, PTL

\* One watcher at a time has the lease of a database; any other that still runs
\* is waited for by the thread that drops its context.
THEOREM WatchersExcludeEachOther == Spec => []OneWatcherOfADatabase
<1>1. ShutdownInv => OneWatcherOfADatabase
  <2> SUFFICES ASSUME ShutdownInv, NEW c \in Contexts, watcher[c].at # "none", ~ Leaving(c)
               PROVE  /\ ctx[c].lease
                      /\ \A d \in Contexts \ {c} : ~ (ctx[d].lease /\ ctx[d].of = ctx[c].of)
    BY DEF OneWatcherOfADatabase
  <2>1. ctx[c].life \in {"live", "dropped"}
    BY DEF ShutdownInv, TypeOK, Drops, WatchersSound, Leaving
  <2>2. ctx[c].lease
    BY <2>1 DEF ShutdownInv, WatchersSound
  <2> QED BY <2>2 DEF ShutdownInv, LeasesSound
<1> QED BY <1>1, ShutdownInvariant, PTL

\* No watcher thread runs on after its context.
THEOREM NoWatcherOutlivesItsContext == Spec => []NoWatcherIsForgotten
<1>1. ShutdownInv => NoWatcherIsForgotten
  <2> SUFFICES ASSUME ShutdownInv, NEW c \in Contexts, watcher[c].at # "none"
               PROVE  Referenced(c, entry, bound) \/ \E t \in Threads : dropping[t] = c
    BY DEF NoWatcherIsForgotten
  <2>1. ctx[c].life \in {"live", "dropped", "unleased", "signalled"}
    BY DEF ShutdownInv, TypeOK, Drops, WatchersSound
  <2>2. CASE ctx[c].life = "live"
    BY <2>2 DEF ShutdownInv, ReferencesSound, Live
  <2>3. CASE ctx[c].life \in {"dropped", "unleased", "signalled"}
    BY <2>3 DEF ShutdownInv, DropsSound
  <2> QED BY <2>1, <2>2, <2>3
<1> QED BY <1>1, ShutdownInvariant, PTL
=============================================================================
