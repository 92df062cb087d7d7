--------------------- MODULE VersionInvalidationProofs ----------------------
(***************************************************************************)
(* Proofs about VersionInvalidation, for any files, packs, versions and    *)
(* bounds.                                                                 *)
(***************************************************************************)
EXTENDS VersionInvalidation, SequenceTheorems, TLAPS

Lexical(d) == \A f \in Files : d.lexical[f] = IF Named(d, f) THEN 1 ELSE 0

OneVersion(d) ==
    /\ \A m, n \in d.nodes : m.file = n.file => m = n
    /\ \A r \in d.refs : \E n \in d.nodes : n.file = r.file /\ n.version = r.version

\* Every claim has its owner among the owners: a scope that looks them up by
\* producer finds all of a pack's claims.
Owned(d) == \A n \in d.nodes : Owner(n.file, PackOf[n.file], n.version) \in d.owners

\* What every transaction keeps of the database.
Sound(d) == d \in Databases /\ Lexical(d) /\ OneVersion(d) /\ Owned(d)

UnderWay == pass \notin {Down, Idle}

\* A pass goes by the versions it was planned with: the program is another
\* one only after the process has ended, and the pass with it.
PlanSound == UnderWay =>
    /\ \A p \in pass.plan : pass.stored[p] # program[p]
    /\ pass.scopes \subseteq Scopes(pass.plan)
    /\ pass.phase # "scopes" => pass.scopes = {}
    /\ pass.phase = "visit" => Registries \notin pass.plan
    /\ pass.had \subseteq present
    /\ pass.referred \subseteq present

\* Applied(p): no scope of the part is left.
Applied(p) == p \in pass.plan /\ pass.scopes \cap Scopes({p}) = {}

\* What a scope has removed does not come back: file updates between the
\* scopes write the running program's versions.
Replaced == UnderWay =>
    \A n \in db.nodes : Applied(PackOf[n.file]) => n.version # pass.stored[PackOf[n.file]]

\* Everything is read again when the registries changed.
Rebuilds == pass.phase = "rebuild" \/ (pass.phase = "scopes" /\ Registries \in pass.plan)

\* A file whose claims a scope took is waiting to be read again.
Waiting(f) == pass.phase \in {"scopes", "visit"} /\ f \in pass.todo

GivesBack == UnderWay /\ ~Rebuilds =>
    \A f \in pass.had : program[PackOf[f]] # 0 =>
        /\ f \in Claimed(db) \/ Waiting(f)
        /\ f \in pass.referred /\ Resolution \notin pass.plan => f \in Recorded(db) \/ Waiting(f)

\* Every release has the three parts that are not packs.
PartsShipped == \A p \in {Registries, Classification, Resolution} : program[p] # 0

IInv == TypeOK /\ Sound(db) /\ PartsShipped /\ PlanSound /\ Replaced /\ GivesBack

-----------------------------------------------------------------------------
(* What a transaction does to the tables.                                  *)

USE DEF Node, Owner, Reference, Edge

\* The fields of a database are of their types.
LEMMA DatabaseFields ==
    ASSUME NEW d \in Databases
    PROVE  /\ d.nodes \subseteq [file : Files, version : 1 .. MaxVersion, class : 1 .. MaxVersion]
           /\ d.refs \subseteq [file : Files, version : 1 .. MaxVersion]
           /\ d.edges \subseteq [file : Files, by : {Promoter, Resolver}, version : 1 .. MaxVersion]
           /\ d.owners \subseteq Owners
           /\ d.lexical \in [Files -> Nat]
           /\ d.records \in Versions
BY DEF Databases

\* remove_by_file takes the rows of one file and no other's.
LEMMA RemoveByFileSound ==
    ASSUME NEW d, Sound(d), NEW f \in Files
    PROVE  LET r == RemoveByFile(d, f) IN
           /\ Sound(r)
           /\ r.nodes = d.nodes \ Of(d.nodes, f)
           /\ r.refs = d.refs \ Of(d.refs, f)
           /\ r.edges = d.edges \ Of(d.edges, f)
           /\ r.lexical[f] = 0
<1> DEFINE r == RemoveByFile(d, f)
<1>0. d \in Databases /\ Lexical(d) /\ OneVersion(d) /\ Owned(d)
  BY DEF Sound
<1>1. /\ r.nodes = d.nodes \ Of(d.nodes, f)
      /\ r.refs = d.refs \ Of(d.refs, f)
      /\ r.edges = d.edges \ Of(d.edges, f)
      /\ r.owners = d.owners
      /\ r.lexical = [d.lexical EXCEPT ![f] = 0]
      /\ r.records = d.records
  BY <1>0 DEF RemoveByFile, Databases
<1>2. r \in Databases
  BY <1>0 DEF RemoveByFile, Databases, Of
<1>3. r.lexical[f] = 0 /\ \A g \in Files : g # f => r.lexical[g] = d.lexical[g]
  BY <1>0, <1>1, DatabaseFields
<1>4. Lexical(r)
  BY <1>0, <1>1, <1>3 DEF Lexical, Named, Of
<1>5. OneVersion(r) /\ Owned(r)
  BY <1>0, <1>1 DEF OneVersion, Owned, Of
<1> QED
  BY <1>1, <1>2, <1>3, <1>4, <1>5 DEF Sound

\* A part that is not a pack is in every release; a pack's version is one if
\* the release has it.
LEMMA ShippedVersion ==
    ASSUME program \in Versions, NEW p \in Parts, program[p] # 0
    PROVE  program[p] \in 1 .. MaxVersion
BY PartsAssumption DEF Versions

LEMMA PartsInParts ==
    /\ {Registries, Classification, Resolution} \subseteq Parts
    /\ Packs \subseteq Parts
    /\ \A f \in Files : PackOf[f] \in Packs /\ PackOf[f] \in Parts
    /\ 1 \in 1 .. MaxVersion
BY PartsAssumption DEF Parts

\* Facts put after the file's rows are removed are the file's only claim.
LEMMA PutFactsSound ==
    ASSUME NEW d, Sound(d), NEW f \in Files, program \in Versions, PartsShipped,
           program[PackOf[f]] # 0, Of(d.nodes, f) = {}, Of(d.refs, f) = {}
    PROVE  LET r == PutFacts(d, f) IN
           /\ Sound(r)
           /\ r.nodes = d.nodes \cup {Node(f, program[PackOf[f]], program[Classification])}
           /\ r.refs = d.refs \cup {Reference(f, program[PackOf[f]])}
           /\ r.edges = d.edges
<1> DEFINE r == PutFacts(d, f)
           v == program[PackOf[f]]
           n == Node(f, v, program[Classification])
<1>0. d \in Databases /\ Lexical(d) /\ OneVersion(d) /\ Owned(d)
  BY DEF Sound
<1>1. v \in 1 .. MaxVersion /\ program[Classification] \in 1 .. MaxVersion
  BY ShippedVersion, PartsInParts DEF PartsShipped
<1>2. /\ r.nodes = d.nodes \cup {n}
      /\ r.refs = d.refs \cup {Reference(f, v)}
      /\ r.edges = d.edges
      /\ r.owners = d.owners \cup {Owner(f, PackOf[f], v)}
      /\ r.lexical = [d.lexical EXCEPT ![f] = @ + 1]
      /\ r.records = d.records
  BY <1>0 DEF PutFacts, Databases, Of
<1>3. r = [nodes |-> r.nodes, refs |-> r.refs, edges |-> r.edges, owners |-> r.owners,
           lexical |-> r.lexical, records |-> r.records]
  BY <1>0 DEF PutFacts, Databases
<1>4. r \in Databases
  <2>1. r.nodes \subseteq [file : Files, version : 1 .. MaxVersion, class : 1 .. MaxVersion]
    BY <1>0, <1>1, <1>2, DatabaseFields
  <2>2. r.refs \subseteq [file : Files, version : 1 .. MaxVersion]
    BY <1>0, <1>1, <1>2, DatabaseFields
  <2>3. r.owners \subseteq Owners
    BY <1>0, <1>1, <1>2, DatabaseFields, PartsInParts DEF Owners
  <2>4. r.lexical \in [Files -> Nat]
    BY <1>0, <1>2, DatabaseFields
  <2> QED
    BY <1>0, <1>2, <1>3, <2>1, <2>2, <2>3, <2>4, DatabaseFields DEF Databases
<1>5. Lexical(r)
  <2>1. d.lexical[f] = 0
    BY <1>0 DEF Lexical, Named, Of
  <2>2. r.lexical[f] = 1 /\ \A g \in Files : g # f => r.lexical[g] = d.lexical[g]
    BY <1>0, <1>2, <2>1, DatabaseFields
  <2>3. \A g \in Files : Named(r, g) <=> Named(d, g) \/ g = f
    <3>1. n.file = f
      OBVIOUS
    <3> HIDE DEF n, r
    <3> QED
      BY <1>2, <3>1 DEF Named
  <2> QED
    BY <1>0, <2>2, <2>3 DEF Lexical
<1>6. OneVersion(r)
  <2>1. n.file = f /\ n.version = v /\ \A x \in d.nodes : x.file # f
    BY DEF Of
  <2>2. Reference(f, v).file = f /\ Reference(f, v).version = v
    OBVIOUS
  <2> HIDE DEF n, r, v
  <2>3. \A x, y \in r.nodes : x.file = y.file => x = y
    BY <1>0, <1>2, <2>1 DEF OneVersion
  <2>4. \A x \in r.refs : \E y \in r.nodes : y.file = x.file /\ y.version = x.version
    BY <1>0, <1>2, <2>1, <2>2 DEF OneVersion
  <2> QED
    BY <2>3, <2>4 DEF OneVersion
<1>7. Owned(r)
  BY <1>0, <1>2 DEF Owned
<1> QED
  BY <1>2, <1>4, <1>5, <1>6, <1>7 DEF Sound

\* References become edges; claims and their lexical rows stay.
LEMMA PromoteSound ==
    ASSUME NEW d, Sound(d), NEW found \in SUBSET d.refs, NEW by \in {Promoter, Resolver},
           NEW v \in 1 .. MaxVersion
    PROVE  LET r == Promote(d, found, by, v) IN
           /\ Sound(r)
           /\ r.nodes = d.nodes
           /\ Recorded(r) = Recorded(d)
<1> DEFINE r == Promote(d, found, by, v)
<1>0. d \in Databases /\ Lexical(d) /\ OneVersion(d) /\ Owned(d)
  BY DEF Sound
<1>1. /\ r.nodes = d.nodes
      /\ r.refs = d.refs \ found
      /\ r.edges = d.edges \cup {Edge(x.file, by, v) : x \in found}
      /\ r.owners = d.owners \cup {Owner(x.file, by, v) : x \in found}
      /\ r.lexical = d.lexical
      /\ r.records = d.records
  BY <1>0 DEF Promote, Databases
<1>3. r \in Databases
  <2>1. r.edges \subseteq [file : Files, by : {Promoter, Resolver}, version : 1 .. MaxVersion]
    BY <1>0, <1>1, DatabaseFields
  <2>2. r.owners \subseteq Owners
    BY <1>0, <1>1, DatabaseFields DEF Owners
  <2>3. r.refs \subseteq [file : Files, version : 1 .. MaxVersion]
    BY <1>0, <1>1, DatabaseFields
  <2>4. r = [d EXCEPT !.refs = r.refs, !.edges = r.edges, !.owners = r.owners]
    BY <1>1 DEF Promote
  <2> HIDE DEF r
  <2>5. [d EXCEPT !.refs = r.refs, !.edges = r.edges, !.owners = r.owners] \in Databases
    BY <1>0, <2>1, <2>2, <2>3 DEF Databases
  <2> QED
    BY <2>4, <2>5
<1>4. Lexical(r) /\ OneVersion(r) /\ Owned(r)
  BY <1>0, <1>1 DEF Lexical, OneVersion, Owned, Named
<1>5. Recorded(r) = Recorded(d)
  <2> DEFINE made == {Edge(x.file, by, v) : x \in found}
  <2>0. {x.file : x \in made} = {x.file : x \in found}
    <3>1. \A x \in found : Edge(x.file, by, v).file = x.file
      OBVIOUS
    <3>2. \A z : z \in {x.file : x \in made} <=> \E x \in found : z = Edge(x.file, by, v).file
      OBVIOUS
    <3> QED
      BY <3>1, <3>2
  <2>1. {x.file : x \in r.edges} = {x.file : x \in d.edges} \cup {x.file : x \in found}
    <3>1. r.edges = d.edges \cup made
      BY <1>1
    <3> HIDE DEF made, r
    <3> QED
      BY <2>0, <3>1
  <2>2. {x.file : x \in d.refs} = {x.file : x \in r.refs} \cup {x.file : x \in found}
    BY <1>1
  <2> QED
    BY <2>1, <2>2 DEF Recorded
<1> QED
  BY <1>1, <1>3, <1>4, <1>5 DEF Sound

\* Records are about the tables, and not about what is in them.
LEMMA RecordSound ==
    ASSUME NEW d, Sound(d), program \in Versions
    PROVE  /\ Sound(Record(d))
           /\ Record(d).nodes = d.nodes /\ Record(d).refs = d.refs /\ Record(d).edges = d.edges
<1> DEFINE r == Record(d)
<1>0. d \in Databases /\ Lexical(d) /\ OneVersion(d) /\ Owned(d)
  BY DEF Sound
<1>1. /\ r.nodes = d.nodes /\ r.refs = d.refs /\ r.edges = d.edges
      /\ r.owners = d.owners /\ r.lexical = d.lexical
  BY <1>0 DEF Record, Databases
<1>2. r \in Databases
  BY <1>0 DEF Record, Databases
<1> QED
  BY <1>0, <1>1, <1>2 DEF Sound, Lexical, OneVersion, Owned, Named

\* A removal by owners takes a claim, and the reference with it, only if its
\* owner is among them.
LEMMA RemoveClaimsSound ==
    ASSUME NEW d, Sound(d), NEW owners
    PROVE  LET r == RemoveClaims(d, owners) IN
           /\ Sound(r)
           /\ r.nodes = {n \in d.nodes : Owner(n.file, PackOf[n.file], n.version) \notin owners}
           /\ r.refs = {x \in d.refs : Owner(x.file, PackOf[x.file], x.version) \notin owners}
           /\ r.edges = {e \in d.edges : Owner(e.file, e.by, e.version) \notin owners}
<1> DEFINE r == RemoveClaims(d, owners)
           gone == {n \in d.nodes : Owner(n.file, PackOf[n.file], n.version) \in owners}
           left == d.nodes \ gone
           lost(f) == f \in {n.file : n \in gone} /\ ~\E n \in left : n.file = f
<1>0. d \in Databases /\ Lexical(d) /\ OneVersion(d) /\ Owned(d)
  BY DEF Sound
<1>1. /\ r.nodes = left
      /\ r.refs = {x \in d.refs : Owner(x.file, PackOf[x.file], x.version) \notin owners}
      /\ r.edges = {e \in d.edges : Owner(e.file, e.by, e.version) \notin owners}
      /\ r.owners = d.owners
      /\ r.lexical = [f \in Files |-> IF lost(f) THEN 0 ELSE d.lexical[f]]
  BY <1>0 DEF RemoveClaims, Databases
<1>2. r.nodes = {n \in d.nodes : Owner(n.file, PackOf[n.file], n.version) \notin owners}
  BY <1>1
<1>3. r \in Databases
  <2>1. r.lexical \in [Files -> Nat]
    BY <1>0, <1>1, DatabaseFields
  <2>2. /\ r.nodes \in SUBSET [file : Files, version : 1 .. MaxVersion, class : 1 .. MaxVersion]
        /\ r.refs \in SUBSET [file : Files, version : 1 .. MaxVersion]
        /\ r.edges \in SUBSET [file : Files, by : {Promoter, Resolver}, version : 1 .. MaxVersion]
    BY <1>0, <1>1, DatabaseFields
  <2>3. r = [d EXCEPT !.nodes = r.nodes, !.refs = r.refs, !.edges = r.edges, !.lexical = r.lexical]
    BY <1>1 DEF RemoveClaims
  <2> HIDE DEF r
  <2>4. [d EXCEPT !.nodes = r.nodes, !.refs = r.refs, !.edges = r.edges, !.lexical = r.lexical]
          \in Databases
    BY <1>0, <2>1, <2>2 DEF Databases
  <2> QED
    BY <2>3, <2>4
<1>4. Lexical(r)
  <2> SUFFICES ASSUME NEW f \in Files
               PROVE  r.lexical[f] = IF Named(r, f) THEN 1 ELSE 0
    BY DEF Lexical
  <2>1. lost(f) <=> Named(d, f) /\ ~Named(r, f)
    <3>1. f \in {n.file : n \in gone} <=> \E n \in gone : n.file = f
      BY Zenon
    <3>2. Named(d, f) <=> (\E n \in gone : n.file = f) \/ \E n \in left : n.file = f
      BY DEF Named
    <3>3. Named(r, f) <=> \E n \in left : n.file = f
      BY <1>1 DEF Named
    <3> HIDE DEF gone, left, r
    <3> QED
      BY <3>1, <3>2, <3>3
  <2>2. Named(r, f) => Named(d, f)
    BY <1>2 DEF Named
  <2>3. d.lexical[f] = IF Named(d, f) THEN 1 ELSE 0
    BY <1>0 DEF Lexical
  <2>4. r.lexical[f] = IF lost(f) THEN 0 ELSE d.lexical[f]
    BY <1>1
  <2> HIDE DEF r, lost
  <2> QED
    BY <2>1, <2>2, <2>3, <2>4
<1>5. OneVersion(r)
  BY <1>0, <1>1, <1>2 DEF OneVersion
<1>6. Owned(r)
  BY <1>0, <1>1 DEF Owned
<1> QED
  BY <1>1, <1>2, <1>3, <1>4, <1>5, <1>6 DEF Sound

\* A changed classification gives every claim its new class.
LEMMA ClassifySound ==
    ASSUME NEW d, Sound(d), NEW c \in 1 .. MaxVersion
    PROVE  LET r == [d EXCEPT !.nodes = {Node(n.file, n.version, c) : n \in @}] IN
           /\ Sound(r)
           /\ \A n \in r.nodes : \E m \in d.nodes : m.file = n.file /\ m.version = n.version
           /\ \A m \in d.nodes : \E n \in r.nodes : m.file = n.file /\ m.version = n.version
           /\ r.refs = d.refs /\ r.edges = d.edges
<1> DEFINE r == [d EXCEPT !.nodes = {Node(n.file, n.version, c) : n \in @}]
<1>0. d \in Databases /\ Lexical(d) /\ OneVersion(d) /\ Owned(d)
  BY DEF Sound
<1>1. /\ r.nodes = {Node(n.file, n.version, c) : n \in d.nodes}
      /\ r.refs = d.refs /\ r.edges = d.edges /\ r.owners = d.owners /\ r.lexical = d.lexical
  BY <1>0 DEF Databases
<1>2. r \in Databases
  <2>1. r.nodes \in SUBSET [file : Files, version : 1 .. MaxVersion, class : 1 .. MaxVersion]
    BY <1>0, <1>1, DatabaseFields
  <2>2. r = [d EXCEPT !.nodes = r.nodes]
    BY <1>1
  <2> HIDE DEF r
  <2>3. [d EXCEPT !.nodes = r.nodes] \in Databases
    BY <1>0, <2>1 DEF Databases
  <2> QED
    BY <2>2, <2>3
<1>3. \A n \in r.nodes : \E m \in d.nodes : n = Node(m.file, m.version, c)
                                              /\ m.file = n.file /\ m.version = n.version
  BY <1>1
<1>4. \A m \in d.nodes : \E n \in r.nodes : m.file = n.file /\ m.version = n.version
  <2> SUFFICES ASSUME NEW m \in d.nodes
               PROVE  \E n \in r.nodes : m.file = n.file /\ m.version = n.version
    OBVIOUS
  <2>1. Node(m.file, m.version, c) \in r.nodes
    BY <1>1
  <2> QED
    BY <2>1
<1> HIDE DEF r
<1>5. \A f \in Files : Named(r, f) <=> Named(d, f)
  BY <1>3, <1>4 DEF Named
<1>6. Lexical(r)
  BY <1>0, <1>1, <1>5 DEF Lexical
<1>7. OneVersion(r)
  <2>1. \A x, y \in r.nodes : x.file = y.file => x = y
    <3> SUFFICES ASSUME NEW x \in r.nodes, NEW y \in r.nodes, x.file = y.file
                 PROVE  x = y
      OBVIOUS
    <3>1. PICK m \in d.nodes : x = Node(m.file, m.version, c) /\ m.file = x.file
      BY <1>3
    <3>2. PICK n \in d.nodes : y = Node(n.file, n.version, c) /\ n.file = y.file
      BY <1>3
    <3>3. m = n
      BY <1>0, <3>1, <3>2 DEF OneVersion
    <3> QED
      BY <3>1, <3>2, <3>3
  <2>2. \A x \in r.refs : \E y \in r.nodes : y.file = x.file /\ y.version = x.version
    <3> SUFFICES ASSUME NEW x \in r.refs
                 PROVE  \E y \in r.nodes : y.file = x.file /\ y.version = x.version
      OBVIOUS
    <3>1. PICK m \in d.nodes : m.file = x.file /\ m.version = x.version
      BY <1>0, <1>1 DEF OneVersion
    <3> QED
      BY <1>4, <3>1
  <2> QED
    BY <2>1, <2>2 DEF OneVersion
<1>8. Owned(r)
  BY <1>0, <1>1, <1>3 DEF Owned
<1> QED
  BY <1>1, <1>2, <1>3, <1>4, <1>6, <1>7, <1>8 DEF Sound, r

-----------------------------------------------------------------------------
(* What a transaction does to the claims and references of each file.      *)

\* Claims that were not there are of the running program.
Comes(d, r) == \A n \in r.nodes :
    \/ \E m \in d.nodes : m.file = n.file /\ m.version = n.version
    \/ n.version = program[PackOf[n.file]]

\* Of the files whose pack is in the program, these stay claimed and recorded.
Keeps(d, r, files) == \A f \in files : program[PackOf[f]] # 0 =>
    /\ f \in Claimed(d) => f \in Claimed(r)
    /\ f \in Recorded(d) => f \in Recorded(r)

LEMMA ReplaceFileSound ==
    ASSUME NEW d, Sound(d), NEW f \in Files, program \in Versions, PartsShipped
    PROVE  LET r == ReplaceFile(d, f) IN
           /\ Sound(r) /\ Comes(d, r) /\ Keeps(d, r, Files)
           /\ program[PackOf[f]] # 0 => f \in Claimed(r) /\ f \in Recorded(r)
<1> DEFINE removed == RemoveByFile(d, f)
           put == PutFacts(removed, f)
           seeking == {x \in put.refs : Refers[x.file] = f}
           r == ReplaceFile(d, f)
<1>1. /\ Sound(removed)
      /\ removed.nodes = d.nodes \ Of(d.nodes, f)
      /\ removed.refs = d.refs \ Of(d.refs, f)
      /\ removed.edges = d.edges \ Of(d.edges, f)
  BY RemoveByFileSound
<1>2. CASE program[PackOf[f]] = 0
  <2>1. r = Record(removed)
    BY <1>2 DEF ReplaceFile, PutFacts
  <2>2. Sound(r) /\ r.nodes = removed.nodes /\ r.refs = removed.refs /\ r.edges = removed.edges
    BY <1>1, <2>1, RecordSound
  <2> HIDE DEF r, removed
  <2>3. Comes(d, r)
    BY <1>1, <2>2 DEF Comes
  <2>4. Keeps(d, r, Files)
    BY <1>1, <1>2, <2>2 DEF Keeps, Claimed, Recorded, Of
  <2> QED
    BY <1>2, <2>2, <2>3, <2>4 DEF r
<1>3. CASE program[PackOf[f]] # 0
  <2> DEFINE new == Node(f, program[PackOf[f]], program[Classification])
             ref == Reference(f, program[PackOf[f]])
             promoted == Promote(put, seeking, Promoter, 1)
  <2>1. Of(removed.nodes, f) = {} /\ Of(removed.refs, f) = {}
    BY <1>1 DEF Of
  <2>2. /\ Sound(put)
        /\ put.nodes = removed.nodes \cup {new}
        /\ put.refs = removed.refs \cup {ref}
        /\ put.edges = removed.edges
    BY <1>1, <1>3, <2>1, PutFactsSound
  <2>3. seeking \in SUBSET put.refs /\ 1 \in 1 .. MaxVersion
    BY PartsInParts
  <2>4. Sound(promoted) /\ promoted.nodes = put.nodes /\ Recorded(promoted) = Recorded(put)
    <3> HIDE DEF put, seeking
    <3> QED
      BY <2>2, <2>3, PromoteSound
  <2>5. r = Record(promoted)
    BY <1>3 DEF ReplaceFile
  <2> HIDE DEF promoted
  <2>6. /\ Sound(r) /\ r.nodes = put.nodes /\ r.refs = promoted.refs /\ r.edges = promoted.edges
    BY <2>4, <2>5, RecordSound
  <2>7. Recorded(r) = Recorded(put)
    BY <2>4, <2>6 DEF Recorded
  <2>8. new.file = f /\ new.version = program[PackOf[f]] /\ ref.file = f
    OBVIOUS
  <2> HIDE DEF r, put, removed, new, ref
  <2>9. Comes(d, r)
    BY <1>1, <2>2, <2>6, <2>8 DEF Comes
  <2>10. f \in Claimed(r) /\ f \in Recorded(r)
    BY <2>2, <2>6, <2>7, <2>8 DEF Claimed, Recorded
  <2>11. ASSUME NEW g \in Files, g # f
         PROVE  /\ g \in Claimed(d) => g \in Claimed(r)
                /\ g \in Recorded(d) => g \in Recorded(r)
    <3>1. \A n \in d.nodes : n.file = g => n \in r.nodes
      BY <1>1, <2>2, <2>6, <2>11 DEF Of
    <3>2. \A x \in d.refs : x.file = g => x \in put.refs
      BY <1>1, <2>2, <2>11 DEF Of
    <3>3. \A e \in d.edges : e.file = g => e \in put.edges
      BY <1>1, <2>2, <2>11 DEF Of
    <3> QED
      BY <2>7, <3>1, <3>2, <3>3 DEF Claimed, Recorded
  <2> QED
    BY <2>6, <2>9, <2>10, <2>11 DEF Keeps, r
<1> QED
  BY <1>2, <1>3

LEMMA RemoveFileSound ==
    ASSUME NEW d, Sound(d), NEW f \in Files, program \in Versions
    PROVE  LET r == RemoveFile(d, f) IN
           Sound(r) /\ Comes(d, r) /\ Keeps(d, r, Files \ {f})
<1> DEFINE removed == RemoveByFile(d, f)
           r == RemoveFile(d, f)
<1>1. /\ Sound(removed)
      /\ removed.nodes = d.nodes \ Of(d.nodes, f)
      /\ removed.refs = d.refs \ Of(d.refs, f)
      /\ removed.edges = d.edges \ Of(d.edges, f)
  BY RemoveByFileSound
<1>2. r = Record(removed)
  BY DEF RemoveFile
<1> HIDE DEF removed
<1>3. Sound(r) /\ r.nodes = removed.nodes /\ r.refs = removed.refs /\ r.edges = removed.edges
  BY <1>1, <1>2, RecordSound
<1> HIDE DEF r
<1>4. Comes(d, r)
  BY <1>1, <1>3 DEF Comes
<1>5. Keeps(d, r, Files \ {f})
  BY <1>1, <1>3 DEF Keeps, Claimed, Recorded, Of
<1> QED
  BY <1>3, <1>4, <1>5 DEF r

\* A rebuild claims and records every file on disk whose pack the program has.
LEMMA RebuiltSound ==
    ASSUME program \in Versions, PartsShipped, present \subseteq Files, NEW d
    PROVE  /\ Sound(Rebuilt) /\ Comes(d, Rebuilt)
           /\ \A f \in present : program[PackOf[f]] # 0 =>
                f \in Claimed(Rebuilt) /\ f \in Recorded(Rebuilt)
<1> DEFINE taken == {f \in present : program[PackOf[f]] # 0}
           node(f) == Node(f, program[PackOf[f]], program[Classification])
           made == [EmptyDb EXCEPT
                      !.nodes = {node(f) : f \in taken},
                      !.refs = {Reference(f, program[PackOf[f]]) : f \in taken},
                      !.owners = {Owner(f, PackOf[f], program[PackOf[f]]) : f \in taken},
                      !.lexical = [f \in Files |-> IF f \in taken THEN 1 ELSE 0]]
<1>1. /\ made.nodes = {node(f) : f \in taken}
      /\ made.refs = {Reference(f, program[PackOf[f]]) : f \in taken}
      /\ made.owners = {Owner(f, PackOf[f], program[PackOf[f]]) : f \in taken}
      /\ made.lexical = [f \in Files |-> IF f \in taken THEN 1 ELSE 0]
  BY DEF EmptyDb
<1>2. \A f \in taken : /\ f \in Files /\ program[PackOf[f]] \in 1 .. MaxVersion
                       /\ PackOf[f] \in Packs
  BY ShippedVersion, PartsInParts
<1>3. program[Classification] \in 1 .. MaxVersion
  BY ShippedVersion, PartsInParts DEF PartsShipped
<1>4. EmptyDb \in Databases
  <2>1. NoRecords \in Versions
    BY PartsAssumption DEF NoRecords, Versions
  <2> QED
    BY <2>1 DEF EmptyDb, Databases
<1>5. made \in Databases
  <2>1. /\ made.nodes \in SUBSET [file : Files, version : 1 .. MaxVersion, class : 1 .. MaxVersion]
        /\ made.refs \in SUBSET [file : Files, version : 1 .. MaxVersion]
    BY <1>1, <1>2, <1>3
  <2>2. made.owners \in SUBSET Owners
    BY <1>1, <1>2 DEF Owners
  <2>3. made.lexical \in [Files -> Nat]
    BY <1>1
  <2>4. made = [EmptyDb EXCEPT !.nodes = made.nodes, !.refs = made.refs,
                               !.owners = made.owners, !.lexical = made.lexical]
    BY <1>1
  <2> HIDE DEF made
  <2>5. [EmptyDb EXCEPT !.nodes = made.nodes, !.refs = made.refs,
                        !.owners = made.owners, !.lexical = made.lexical] \in Databases
    BY <1>4, <2>1, <2>2, <2>3 DEF Databases
  <2> QED
    BY <2>4, <2>5
<1>6. \A f : node(f).file = f /\ node(f).version = program[PackOf[f]]
  OBVIOUS
<1>7. \A f : Reference(f, program[PackOf[f]]).file = f
            /\ Reference(f, program[PackOf[f]]).version = program[PackOf[f]]
  OBVIOUS
<1>8. \A n \in made.nodes : n.file \in taken /\ n = node(n.file)
  BY <1>1, <1>6
<1>9. \A f \in taken : node(f) \in made.nodes
  BY <1>1
<1>10. Lexical(made)
  <2>1. \A f \in Files : Named(made, f) <=> f \in taken
    <3> HIDE DEF made, taken, node
    <3> QED
      BY <1>6, <1>8, <1>9 DEF Named
  <2>2. \A f \in Files : made.lexical[f] = IF f \in taken THEN 1 ELSE 0
    BY <1>1
  <2> HIDE DEF made, taken
  <2> QED
    BY <2>1, <2>2 DEF Lexical
<1>11. OneVersion(made)
  <2>1. \A x \in made.refs : x.file \in taken /\ x.version = program[PackOf[x.file]]
    BY <1>1, <1>7
  <2> HIDE DEF made, taken, node
  <2> QED
    BY <1>6, <1>8, <1>9, <2>1 DEF OneVersion
<1>12. Owned(made)
  <2>1. \A f \in taken : Owner(f, PackOf[f], program[PackOf[f]]) \in made.owners
    BY <1>1
  <2>2. \A n \in made.nodes : n.version = program[PackOf[n.file]]
    BY <1>6, <1>8
  <2> HIDE DEF made, taken, node
  <2> QED
    BY <1>8, <2>1, <2>2 DEF Owned
<1>13. Sound(made)
  BY <1>5, <1>10, <1>11, <1>12 DEF Sound
<1>14. Rebuilt = Record(made)
  BY DEF Rebuilt
<1>15. \A f \in taken : Reference(f, program[PackOf[f]]) \in made.refs
  BY <1>1
<1> HIDE DEF made
<1>16. Sound(Rebuilt) /\ Rebuilt.nodes = made.nodes /\ Rebuilt.refs = made.refs
  BY <1>13, <1>14, RecordSound
<1>17. Comes(d, Rebuilt)
  BY <1>6, <1>8, <1>16 DEF Comes
<1>18. ASSUME NEW f \in taken
       PROVE  f \in Claimed(Rebuilt) /\ f \in Recorded(Rebuilt)
  <2> HIDE DEF taken, node
  <2>1. node(f) \in Rebuilt.nodes /\ node(f).file = f
    BY <1>6, <1>9, <1>16
  <2>2. Reference(f, program[PackOf[f]]) \in Rebuilt.refs /\ Reference(f, program[PackOf[f]]).file = f
    BY <1>7, <1>15, <1>16
  <2> QED
    BY <2>1, <2>2 DEF Claimed, Recorded
<1> QED
  BY <1>16, <1>17, <1>18

LEMMA ResolveExistingSound ==
    ASSUME NEW d, Sound(d), program \in Versions, PartsShipped
    PROVE  LET r == ResolveExisting(d) IN
           /\ Sound(r) /\ r.nodes = d.nodes /\ Recorded(r) = Recorded(d)
<1> DEFINE found == {x \in d.refs : Named(d, Refers[x.file])}
           promoted == Promote(d, found, Resolver, program[Resolution])
<1>1. program[Resolution] \in 1 .. MaxVersion
  BY ShippedVersion, PartsInParts DEF PartsShipped
<1>2. found \in SUBSET d.refs
  OBVIOUS
<1>3. Sound(promoted) /\ promoted.nodes = d.nodes /\ Recorded(promoted) = Recorded(d)
  <2> HIDE DEF found
  <2> QED
    BY <1>1, <1>2, PromoteSound
<1>4. ResolveExisting(d) = IF d.refs = {} THEN d ELSE Record(promoted)
  BY DEF ResolveExisting
<1> HIDE DEF promoted
<1>5. /\ Sound(Record(promoted)) /\ Record(promoted).nodes = d.nodes
      /\ Recorded(Record(promoted)) = Recorded(d)
  BY <1>3, RecordSound DEF Recorded
<1> QED
  BY <1>4, <1>5

LEMMA RebuildLexicalSound ==
    ASSUME NEW d, Sound(d)
    PROVE  LET r == RebuildLexical(d) IN
           Sound(r) /\ r.nodes = d.nodes /\ r.refs = d.refs /\ r.edges = d.edges
<1> DEFINE r == RebuildLexical(d)
<1>0. d \in Databases /\ Lexical(d) /\ OneVersion(d) /\ Owned(d)
  BY DEF Sound
<1>1. /\ r.nodes = d.nodes /\ r.refs = d.refs /\ r.edges = d.edges /\ r.owners = d.owners
      /\ r.lexical = [f \in Files |-> IF Named(d, f) THEN 1 ELSE 0]
  BY <1>0 DEF RebuildLexical, Databases
<1>2. r \in Databases
  BY <1>0 DEF RebuildLexical, Databases
<1> QED
  BY <1>0, <1>1, <1>2 DEF Sound, Lexical, OneVersion, Owned, Named

\* A removal by owners: what it leaves was there, and what it takes had its
\* owner among them.
LEMMA RemovedByOwners ==
    ASSUME NEW d, Sound(d), program \in Versions, NEW owners
    PROVE  LET r == Record(RemoveClaims(d, owners)) IN
           /\ Sound(r)
           /\ r.nodes = {n \in d.nodes : Owner(n.file, PackOf[n.file], n.version) \notin owners}
           /\ r.refs = {x \in d.refs : Owner(x.file, PackOf[x.file], x.version) \notin owners}
           /\ r.edges = {e \in d.edges : Owner(e.file, e.by, e.version) \notin owners}
<1> DEFINE m == RemoveClaims(d, owners)
<1>1. /\ Sound(m)
      /\ m.nodes = {n \in d.nodes : Owner(n.file, PackOf[n.file], n.version) \notin owners}
      /\ m.refs = {x \in d.refs : Owner(x.file, PackOf[x.file], x.version) \notin owners}
      /\ m.edges = {e \in d.edges : Owner(e.file, e.by, e.version) \notin owners}
  BY RemoveClaimsSound
<1> HIDE DEF m
<1>2. /\ Sound(Record(m))
      /\ Record(m).nodes = m.nodes /\ Record(m).refs = m.refs /\ Record(m).edges = m.edges
  BY <1>1, RecordSound
<1> QED
  BY <1>1, <1>2 DEF m

\* A scope adds no claim. A pack's leaves none of its earlier version, and
\* whichever file loses its claim or its reference is one to be read again,
\* unless it is the registries that changed (everything is) or resolution
\* (its edges are not read from files).
LEMMA ApplyScopeSound ==
    ASSUME NEW d, Sound(d), program \in Versions, PartsShipped, NEW p \in Parts,
           NEW stored \in Versions
    PROVE  LET r == ApplyScope(d, p, stored) IN
           /\ Sound(r)
           /\ \A n \in r.nodes : \E m \in d.nodes : m.file = n.file /\ m.version = n.version
           /\ p \in Packs => \A n \in r.nodes : PackOf[n.file] = p => n.version # stored[p]
           /\ p # Registries => Claimed(d) \subseteq Claimed(r) \cup Targets(d, p, stored)
           /\ p \notin {Registries, Resolution} =>
                Recorded(d) \subseteq Recorded(r) \cup Targets(d, p, stored)
<1> DEFINE r == ApplyScope(d, p, stored)
<1>0. d \in Databases /\ Lexical(d) /\ OneVersion(d) /\ Owned(d)
  BY DEF Sound
<1>1. CASE p = Registries
  <2>1. r = Record(RemoveClaims(d, d.owners))
    BY <1>1, PartsAssumption DEF ApplyScope
  <2>2. /\ Sound(r)
        /\ r.nodes = {n \in d.nodes : Owner(n.file, PackOf[n.file], n.version) \notin d.owners}
    BY <2>1, RemovedByOwners
  <2> HIDE DEF r
  <2>3. p \notin Packs
    BY <1>1, PartsAssumption
  <2> QED
    BY <1>1, <2>2, <2>3 DEF r
<1>2. CASE p = Classification
  <2> DEFINE m == [d EXCEPT !.nodes = {Node(n.file, n.version, program[p]) : n \in @}]
  <2>1. r = Record(m)
    BY <1>2, PartsAssumption DEF ApplyScope
  <2>2. program[p] \in 1 .. MaxVersion
    BY <1>2, ShippedVersion, PartsInParts DEF PartsShipped
  <2>3. /\ Sound(m)
        /\ \A n \in m.nodes : \E x \in d.nodes : x.file = n.file /\ x.version = n.version
        /\ \A x \in d.nodes : \E n \in m.nodes : x.file = n.file /\ x.version = n.version
        /\ m.refs = d.refs /\ m.edges = d.edges
    BY <2>2, ClassifySound
  <2> HIDE DEF m
  <2>4. Sound(r) /\ r.nodes = m.nodes /\ r.refs = m.refs /\ r.edges = m.edges
    BY <2>1, <2>3, RecordSound
  <2> HIDE DEF r
  <2>5. Claimed(d) \subseteq Claimed(r) /\ Recorded(d) = Recorded(r)
    BY <2>3, <2>4 DEF Claimed, Recorded
  <2>6. p \notin Packs
    BY <1>2, PartsAssumption
  <2> QED
    BY <2>3, <2>4, <2>5, <2>6 DEF r
<1>3. CASE p = Resolution
  <2>1. r = Record(RemoveClaims(d, ResolutionOwners(d)))
    BY <1>3, PartsAssumption DEF ApplyScope
  <2>2. Sound(r)
        /\ r.nodes = {n \in d.nodes : Owner(n.file, PackOf[n.file], n.version) \notin ResolutionOwners(d)}
    BY <2>1, RemovedByOwners
  <2>3. \A n \in d.nodes : Owner(n.file, PackOf[n.file], n.version) \notin ResolutionOwners(d)
    <3>1. \A o \in ResolutionOwners(d) : o.producer \in {Promoter, Resolver}
      BY <1>0, DatabaseFields DEF ResolutionOwners
    <3>2. \A n \in d.nodes : PackOf[n.file] \in Packs
      BY <1>0, DatabaseFields, PartsInParts
    <3> QED
      BY <3>1, <3>2, PartsAssumption
  <2>4. p \notin Packs
    BY <1>3, PartsAssumption
  <2>5. r.nodes = d.nodes
    BY <2>2, <2>3
  <2> HIDE DEF r
  <2> QED
    BY <1>3, <2>2, <2>4, <2>5 DEF Claimed, r
<1>4. CASE p \in Packs
  <2>0. p \notin {Registries, Classification, Resolution}
    BY <1>4, PartsAssumption
  <2>1. CASE stored[p] = 0
    <3>1. r = d
      BY <2>0, <2>1 DEF ApplyScope
    <3>2. \A n \in d.nodes : n.version # stored[p]
      BY <1>0, <2>1, DatabaseFields
    <3> HIDE DEF r
    <3> QED
      BY <3>1, <3>2 DEF r
  <2>2. CASE stored[p] # 0
    <3> DEFINE owners == OwnersByProducer(d, p, stored[p])
    <3>1. r = Record(RemoveClaims(d, owners))
      BY <2>0, <2>2 DEF ApplyScope
    <3>2. /\ Sound(r)
          /\ r.nodes = {n \in d.nodes : Owner(n.file, PackOf[n.file], n.version) \notin owners}
          /\ r.refs = {x \in d.refs : Owner(x.file, PackOf[x.file], x.version) \notin owners}
          /\ r.edges = {e \in d.edges : Owner(e.file, e.by, e.version) \notin owners}
      <4> HIDE DEF owners
      <4> QED
        BY <3>1, RemovedByOwners
    <3>3. Targets(d, p, stored) = {o.file : o \in owners}
      BY <1>4, <2>2 DEF Targets
    <3>4. \A o \in owners : o \in d.owners /\ o.producer = p /\ o.version = stored[p]
      BY DEF OwnersByProducer
    <3>5. \A o \in d.owners : o.producer = p /\ o.version = stored[p] => o \in owners
      BY DEF OwnersByProducer
    <3> HIDE DEF owners, r
    <3>6. \A n \in r.nodes : PackOf[n.file] = p => n.version # stored[p]
      <4> SUFFICES ASSUME NEW n \in d.nodes, PackOf[n.file] = p, n.version = stored[p]
                   PROVE  Owner(n.file, PackOf[n.file], n.version) \in owners
        BY <3>2
      <4>1. Owner(n.file, PackOf[n.file], n.version) \in d.owners
        BY <1>0 DEF Owned
      <4> QED
        BY <3>5, <4>1
    <3>7. \A n \in d.nodes : n \notin r.nodes => n.file \in Targets(d, p, stored)
      BY <3>2, <3>3
    <3>8. \A x \in d.refs : x \notin r.refs => x.file \in Targets(d, p, stored)
      BY <3>2, <3>3
    <3>9. \A e \in d.edges : e \in r.edges
      <4>1. \A e \in d.edges : e.by \notin Packs
        BY <1>0, DatabaseFields, PartsAssumption
      <4>2. \A e \in d.edges : Owner(e.file, e.by, e.version).producer # p
        BY <1>4, <4>1
      <4> QED
        BY <3>2, <3>4, <4>2
    <3>10. Claimed(d) \subseteq Claimed(r) \cup Targets(d, p, stored)
      BY <3>7 DEF Claimed
    <3>11. Recorded(d) \subseteq Recorded(r) \cup Targets(d, p, stored)
      BY <3>8, <3>9 DEF Recorded
    <3> QED
      BY <3>2, <3>6, <3>10, <3>11 DEF r
  <2> QED
    BY <2>1, <2>2
<1> QED
  BY <1>1, <1>2, <1>3, <1>4 DEF Parts

-----------------------------------------------------------------------------
(* The invariant.                                                          *)

\* The fields of a pass under way.
LEMMA PassFields ==
    ASSUME TypeOK
    PROVE  /\ UnderWay <=> pass.phase \in {"scopes", "rebuild", "visit", "resolve"}
           /\ pass.phase \in {"down", "idle", "scopes", "rebuild", "visit", "resolve"}
           /\ UnderWay =>
                /\ pass \in [phase : {"scopes", "rebuild", "visit", "resolve"}, plan : SUBSET Parts,
                             scopes : SUBSET Nat, stored : Versions, todo : SUBSET Files,
                             had : SUBSET Files, referred : SUBSET Files]
                /\ pass.had \subseteq Files
BY DEF TypeOK, Passes, UnderWay, Down, Idle

LEMMA InitIInv == Init => IInv
<1> SUFFICES ASSUME Init
             PROVE  IInv
  OBVIOUS
<1>1. EmptyDb \in Databases /\ program \in Versions
  <2>1. NoRecords \in Versions /\ program \in Versions
    BY PartsAssumption DEF Init, NoRecords, Versions
  <2> QED
    BY <2>1 DEF EmptyDb, Databases
<1>2. TypeOK
  BY <1>1, BoundsAssumption DEF Init, TypeOK, Passes
<1>3. Sound(db)
  BY <1>1 DEF Init, Sound, Lexical, OneVersion, Owned, Named, EmptyDb
<1>4. PartsShipped
  BY DEF Init, PartsShipped, Parts
<1>5. PlanSound /\ Replaced /\ GivesBack
  BY DEF Init, PlanSound, Replaced, GivesBack, UnderWay
<1> QED
  BY <1>2, <1>3, <1>4, <1>5 DEF IInv

\* A transaction outside the pass keeps what the pass is about: it removes
\* no claim of a file on disk for good, and writes the program's version.
LEMMA OtherTransaction ==
    ASSUME IInv, UNCHANGED <<program, pass, present, upgrades, changes>>,
           Sound(db'), Comes(db, db'), Keeps(db, db', present)
    PROVE  IInv'
<1>1. TypeOK' /\ PartsShipped'
  BY DEF IInv, TypeOK, Sound, PartsShipped
<1>2. PlanSound'
  BY DEF IInv, PlanSound, UnderWay
<1>3. Replaced'
  <2> SUFFICES ASSUME UnderWay, NEW n \in db'.nodes, Applied(PackOf[n.file])
               PROVE  n.version # pass.stored[PackOf[n.file]]
    BY DEF Replaced, UnderWay, Applied
  <2>1. CASE \E m \in db.nodes : m.file = n.file /\ m.version = n.version
    BY <2>1 DEF IInv, Replaced
  <2>2. CASE n.version = program[PackOf[n.file]]
    BY <2>2 DEF IInv, PlanSound, Applied
  <2> QED
    BY <2>1, <2>2 DEF Comes
<1>4. GivesBack'
  <2> SUFFICES ASSUME UnderWay, ~Rebuilds, NEW f \in pass.had, program[PackOf[f]] # 0
               PROVE  /\ f \in Claimed(db') \/ Waiting(f)
                      /\ f \in pass.referred /\ Resolution \notin pass.plan =>
                           f \in Recorded(db') \/ Waiting(f)
    BY DEF GivesBack, UnderWay, Rebuilds, Waiting
  <2>1. f \in present
    BY DEF IInv, PlanSound
  <2>2. /\ f \in Claimed(db) \/ Waiting(f)
        /\ f \in pass.referred /\ Resolution \notin pass.plan => f \in Recorded(db) \/ Waiting(f)
    BY DEF IInv, GivesBack
  <2> QED
    BY <2>1, <2>2 DEF Keeps
<1> QED
  BY <1>1, <1>2, <1>3, <1>4 DEF IInv

\* The fields of a pass that owes a file nothing any more.
LEMMA WithoutFields ==
    ASSUME TypeOK, UnderWay, NEW f \in Files
    PROVE  LET q == Without(f) IN
           /\ q \in [phase : {"scopes", "rebuild", "visit", "resolve"}, plan : SUBSET Parts,
                     scopes : SUBSET Nat, stored : Versions, todo : SUBSET Files,
                     had : SUBSET Files, referred : SUBSET Files]
           /\ q.phase = pass.phase /\ q.plan = pass.plan /\ q.scopes = pass.scopes
           /\ q.stored = pass.stored /\ q.todo = pass.todo
           /\ q.had = pass.had \ {f} /\ q.referred = pass.referred \ {f}
BY PassFields DEF Without, UnderWay

\* A transaction that takes a file's claims keeps what the pass is about when
\* the pass owes the file nothing any more.
LEMMA ForgivenTransaction ==
    ASSUME IInv, UnderWay, NEW f \in Files, UNCHANGED <<program, present, upgrades, changes>>,
           Sound(db'), Comes(db, db'), Keeps(db, db', present \ {f}),
           pass' \in Passes,
           pass'.phase = pass.phase, pass'.plan = pass.plan, pass'.scopes = pass.scopes,
           pass'.stored = pass.stored, pass.todo \ {f} \subseteq pass'.todo,
           pass'.had = pass.had \ {f}, pass'.referred = pass.referred \ {f}
    PROVE  IInv'
<1>0. TypeOK /\ Sound(db) /\ PartsShipped /\ PlanSound /\ Replaced /\ GivesBack
  BY DEF IInv
<1>1. TypeOK' /\ PartsShipped'
  BY <1>0 DEF TypeOK, Sound, PartsShipped
<1>2. PlanSound'
  BY <1>0 DEF PlanSound
<1>3. Replaced'
  <2> SUFFICES ASSUME NEW n \in db'.nodes, Applied(PackOf[n.file])
               PROVE  n.version # pass.stored[PackOf[n.file]]
    BY DEF Replaced, Applied
  <2>1. CASE \E m \in db.nodes : m.file = n.file /\ m.version = n.version
    BY <1>0, <2>1 DEF Replaced
  <2>2. CASE n.version = program[PackOf[n.file]]
    BY <1>0, <2>2 DEF PlanSound, Applied
  <2> QED
    BY <2>1, <2>2 DEF Comes
<1>4. GivesBack'
  <2> SUFFICES ASSUME ~Rebuilds, NEW g \in pass.had, g # f, program[PackOf[g]] # 0
               PROVE  /\ g \in Claimed(db') \/ Waiting(g)'
                      /\ g \in pass.referred /\ Resolution \notin pass.plan =>
                           g \in Recorded(db') \/ Waiting(g)'
    BY DEF GivesBack, Rebuilds
  <2>1. g \in present \ {f}
    BY <1>0 DEF PlanSound
  <2>2. /\ g \in Claimed(db) \/ Waiting(g)
        /\ g \in pass.referred /\ Resolution \notin pass.plan => g \in Recorded(db) \/ Waiting(g)
    BY <1>0 DEF GivesBack
  <2>3. Waiting(g) => Waiting(g)'
    BY DEF Waiting
  <2> QED
    BY <2>1, <2>2, <2>3 DEF Keeps
<1> QED
  BY <1>0, <1>1, <1>2, <1>3, <1>4 DEF IInv

LEMMA Concatenated ==
    ASSUME NEW s \in Seq(Parts), NEW t \in Seq(Parts), NEW i \in Nat
    PROVE  /\ s \o t \in Seq(Parts)
           /\ Len(s \o t) = Len(s) + Len(t)
           /\ i \in 1 .. Len(s) => (s \o t)[i] = s[i]
           /\ i \in 1 .. Len(t) => (s \o t)[Len(s) + i] = t[i]
<1>1. /\ s \o t \in Seq(Parts)
      /\ Len(s \o t) = Len(s) + Len(t)
      /\ \A j \in 1 .. Len(s) + Len(t) : (s \o t)[j] = IF j <= Len(s) THEN s[j] ELSE t[j - Len(s)]
  BY ConcatProperties
<1>2. Len(s) \in Nat /\ Len(t) \in Nat
  OBVIOUS
<1>3. ASSUME i \in 1 .. Len(s) PROVE (s \o t)[i] = s[i]
  BY <1>1, <1>2, <1>3
<1>4. ASSUME i \in 1 .. Len(t) PROVE (s \o t)[Len(s) + i] = t[i]
  <2>1. Len(s) + i \in 1 .. Len(s) + Len(t) /\ ~(Len(s) + i <= Len(s))
    BY <1>2, <1>4
  <2>2. Len(s) + i - Len(s) = i
    BY <1>2
  <2> QED
    BY <1>1, <2>1, <2>2
<1> QED
  BY <1>1, <1>3, <1>4

\* Every pack has a scope.
LEMMA EveryPackHasAScope ==
    ASSUME NEW p \in Packs
    PROVE  Scopes({p}) # {}
<1>1. PICK i \in DOMAIN PackOrder : PackOrder[i] = p
  BY PartsAssumption DEF Range
<1> DEFINE three == <<Registries, Classification, Resolution>>
<1>2. three \in Seq(Parts) /\ Len(three) = 3 /\ PackOrder \in Seq(Parts)
  <2>1. three \in Seq(Parts) /\ Len(three) = 3
    BY PartsInParts
  <2>2. PackOrder \in Seq(Parts)
    BY PartsAssumption, PartsInParts
  <2> QED
    BY <2>1, <2>2
<1> HIDE DEF three
<1>3. i \in 1 .. Len(PackOrder) /\ Len(PackOrder) \in Nat
  BY <1>1, <1>2
<1> DEFINE first == three \o PackOrder
<1>4. /\ first \in Seq(Parts)
      /\ Len(first) = 3 + Len(PackOrder)
      /\ first[3 + i] = p
  <2>1. i \in Nat
    BY <1>3
  <2>2. /\ first \in Seq(Parts)
        /\ Len(first) = Len(three) + Len(PackOrder)
        /\ first[Len(three) + i] = PackOrder[i]
    BY <1>2, <1>3, <2>1, Concatenated
  <2> HIDE DEF first
  <2> QED
    BY <1>1, <1>2, <2>2
<1> HIDE DEF first
<1>5. /\ first \o PackOrder \in Seq(Parts)
      /\ Len(first \o PackOrder) = 3 + Len(PackOrder) + Len(PackOrder)
      /\ (first \o PackOrder)[3 + i] = p
  <2>1. 3 + i \in Nat /\ 3 + i \in 1 .. Len(first)
    BY <1>3, <1>4
  <2>2. /\ first \o PackOrder \in Seq(Parts)
        /\ Len(first \o PackOrder) = Len(first) + Len(PackOrder)
        /\ (first \o PackOrder)[3 + i] = first[3 + i]
    BY <1>2, <1>4, <2>1, Concatenated
  <2> QED
    BY <1>4, <2>2
<1>6. 3 + i \in DOMAIN ScopeOrder /\ ScopeOrder[3 + i] = p
  BY <1>3, <1>5 DEF ScopeOrder, first, three
<1> QED
  BY <1>6 DEF Scopes

-----------------------------------------------------------------------------
(* The steps of a pass.                                                    *)

\* Idle and Down are no pass: what the invariant says of one is void.
LEMMA NoPass ==
    ASSUME TypeOK', Sound(db'), PartsShipped', pass' \in {Down, Idle}
    PROVE  IInv'
BY DEF IInv, PlanSound, Replaced, GivesBack, UnderWay

LEMMA BeginIndexAllIInv == ASSUME IInv, BeginIndexAll PROVE IInv'
<1> DEFINE plan == PlanVersionInvalidation(db.records, program)
<1>0. TypeOK /\ Sound(db) /\ PartsShipped
  BY DEF IInv
<1>1. /\ plan \subseteq Parts
      /\ \A p \in plan : db.records[p] # program[p]
  BY DEF PlanVersionInvalidation
<1>2. /\ pass' = [phase |-> IF plan = {} THEN "visit" ELSE "scopes",
                  plan |-> plan, scopes |-> Scopes(plan), stored |-> db.records,
                  todo |-> IF plan = {} THEN present ELSE {},
                  had |-> Claimed(db) \cap present, referred |-> Recorded(db) \cap present]
      /\ UNCHANGED <<present, program, db, upgrades, changes>>
  BY DEF BeginIndexAll
<1> HIDE DEF plan
<1>3. Scopes(plan) \subseteq Nat /\ (plan = {} => Scopes(plan) = {})
  <2>1. ScopeOrder \in Seq(Parts)
    <3>1. <<Registries, Classification, Resolution>> \in Seq(Parts) /\ PackOrder \in Seq(Parts)
      BY PartsAssumption, PartsInParts
    <3>2. <<Registries, Classification, Resolution>> \o PackOrder \in Seq(Parts)
      BY <3>1, Concatenated
    <3> QED
      BY <3>1, <3>2, Concatenated DEF ScopeOrder
  <2> QED
    BY <2>1 DEF Scopes
<1>4. /\ pass'.phase \in {"scopes", "visit"} /\ pass'.plan = plan /\ pass'.scopes = Scopes(plan)
      /\ pass'.stored = db.records /\ pass'.had = Claimed(db) \cap present
      /\ pass'.referred = Recorded(db) \cap present
      /\ pass'.phase = "visit" => plan = {}
  BY <1>2
<1>5. TypeOK'
  <2>1. pass' \in Passes
    BY <1>0, <1>1, <1>2, <1>3 DEF Passes, TypeOK, Databases
  <2> QED
    BY <1>0, <1>2, <2>1 DEF TypeOK
<1>6. PlanSound'
  BY <1>1, <1>2, <1>3, <1>4 DEF PlanSound
<1>7. Replaced'
  <2>1. ASSUME NEW n \in db.nodes, PackOf[n.file] \in plan
        PROVE  Scopes({PackOf[n.file]}) \cap Scopes(plan) # {}
    <3>1. PackOf[n.file] \in Packs
      BY <1>0, DatabaseFields, PartsInParts DEF TypeOK
    <3>2. Scopes({PackOf[n.file]}) # {}
      BY <3>1, EveryPackHasAScope
    <3>3. Scopes({PackOf[n.file]}) \subseteq Scopes(plan)
      BY <2>1 DEF Scopes
    <3> QED
      BY <3>2, <3>3
  <2> QED
    BY <1>2, <1>4, <2>1 DEF Replaced, Applied
<1>8. GivesBack'
  BY <1>2, <1>4 DEF GivesBack
<1> QED
  BY <1>0, <1>2, <1>5, <1>6, <1>7, <1>8 DEF IInv, PartsShipped

LEMMA ScopeIInv == ASSUME IInv, Scope PROVE IInv'
<1>0. TypeOK /\ Sound(db) /\ PartsShipped /\ PlanSound /\ Replaced /\ GivesBack
  BY DEF IInv
<1>1. UnderWay /\ pass.phase = "scopes"
  BY <1>0, PassFields DEF Scope
<1>2. PICK i \in First(pass.scopes) :
        LET p == ScopeOrder[i]
            left == pass.scopes \ {i}
        IN /\ db' = ApplyScope(db, p, pass.stored)
           /\ pass' = [pass EXCEPT
                !.scopes = left,
                !.todo = @ \cup Targets(db, p, pass.stored),
                !.phase = IF left # {} THEN "scopes"
                          ELSE IF Registries \in pass.plan THEN "rebuild"
                          ELSE "visit"]
  BY DEF Scope
<1> DEFINE p == ScopeOrder[i]
<1>3. /\ pass \in [phase : {"scopes", "rebuild", "visit", "resolve"}, plan : SUBSET Parts,
                   scopes : SUBSET Nat, stored : Versions, todo : SUBSET Files,
                   had : SUBSET Files, referred : SUBSET Files]
      /\ UNCHANGED <<present, program, upgrades, changes>>
  BY <1>0, <1>1, PassFields DEF Scope
<1>4. i \in pass.scopes /\ i \in DOMAIN ScopeOrder /\ p \in pass.plan
  BY <1>0, <1>1 DEF First, PlanSound, Scopes
<1>5. p \in Parts /\ pass.stored \in Versions
  BY <1>3, <1>4
<1>6. /\ pass'.plan = pass.plan /\ pass'.stored = pass.stored
      /\ pass'.had = pass.had /\ pass'.referred = pass.referred
      /\ pass'.scopes = pass.scopes \ {i}
      /\ pass'.todo = pass.todo \cup Targets(db, p, pass.stored)
      /\ pass'.phase = IF pass'.scopes # {} THEN "scopes"
                       ELSE IF Registries \in pass.plan THEN "rebuild" ELSE "visit"
  BY <1>2, <1>3
<1>7. db' = ApplyScope(db, p, pass.stored)
  BY <1>2
<1>8. /\ Sound(db')
      /\ \A n \in db'.nodes : \E m \in db.nodes : m.file = n.file /\ m.version = n.version
      /\ p \in Packs => \A n \in db'.nodes : PackOf[n.file] = p => n.version # pass.stored[p]
      /\ p # Registries => Claimed(db) \subseteq Claimed(db') \cup Targets(db, p, pass.stored)
      /\ p \notin {Registries, Resolution} =>
           Recorded(db) \subseteq Recorded(db') \cup Targets(db, p, pass.stored)
  <2> HIDE DEF p
  <2> QED
    BY <1>0, <1>5, <1>7, ApplyScopeSound DEF TypeOK
<1>9. TypeOK'
  <2>1. Targets(db, p, pass.stored) \subseteq Files
    BY <1>0, DatabaseFields DEF Targets, OwnersByProducer, Owners, TypeOK
  <2>2. pass' \in Passes
    <3> HIDE DEF p
    <3> QED
      BY <1>2, <1>3, <2>1 DEF Passes, p
  <2> QED
    BY <1>0, <1>3, <1>8, <2>2 DEF TypeOK, Sound
<1> HIDE DEF p
<1>10. PlanSound'
  <2>1. UnderWay' /\ pass'.phase # "scopes" => pass'.scopes = {}
    BY <1>6
  <2>2. pass'.phase = "visit" => Registries \notin pass'.plan
    BY <1>6
  <2> QED
    BY <1>0, <1>1, <1>3, <1>6, <2>1, <2>2 DEF PlanSound
<1>11. Replaced'
  <2> SUFFICES ASSUME NEW n \in db'.nodes, Applied(PackOf[n.file])'
               PROVE  n.version # pass.stored[PackOf[n.file]]
    BY <1>6 DEF Replaced
  <2>1. PICK m \in db.nodes : m.file = n.file /\ m.version = n.version
    BY <1>8
  <2> DEFINE q == PackOf[n.file]
  <2>2. q \in pass.plan /\ (pass.scopes \ {i}) \cap Scopes({q}) = {}
    BY <1>6 DEF Applied
  <2>3. q \in Packs
    BY <1>0, <2>1, DatabaseFields, PartsInParts DEF TypeOK
  <2>4. CASE q = p
    BY <1>8, <2>3, <2>4
  <2>5. CASE q # p
    <3>1. i \notin Scopes({q})
      BY <2>5 DEF Scopes, p
    <3>2. Applied(PackOf[m.file])
      BY <2>1, <2>2, <3>1 DEF Applied
    <3> QED
      BY <1>0, <1>1, <2>1, <3>2 DEF Replaced
  <2> QED
    BY <2>4, <2>5
<1>12. GivesBack'
  <2> SUFFICES ASSUME ~Rebuilds', NEW f \in pass.had, program[PackOf[f]] # 0
               PROVE  /\ f \in Claimed(db') \/ Waiting(f)'
                      /\ f \in pass.referred /\ Resolution \notin pass.plan =>
                           f \in Recorded(db') \/ Waiting(f)'
    BY <1>3, <1>6 DEF GivesBack
  <2>1. Registries \notin pass.plan /\ pass'.phase \in {"scopes", "visit"}
    BY <1>6 DEF Rebuilds
  <2>2. p # Registries /\ (Resolution \notin pass.plan => p # Resolution)
    BY <1>4, <2>1
  <2>3. /\ f \in Claimed(db) \/ f \in pass.todo
        /\ f \in pass.referred /\ Resolution \notin pass.plan => f \in Recorded(db) \/ f \in pass.todo
    BY <1>0, <1>1, <2>1 DEF GivesBack, Rebuilds, Waiting
  <2> QED
    BY <1>6, <1>8, <2>1, <2>2, <2>3 DEF Waiting
<1> QED
  BY <1>0, <1>3, <1>8, <1>9, <1>10, <1>11, <1>12 DEF IInv, PartsShipped

LEMMA VisitIInv == ASSUME IInv, NEW f \in Files, Visit(f) PROVE IInv'
<1>0. TypeOK /\ Sound(db) /\ PartsShipped /\ PlanSound /\ Replaced /\ GivesBack
  BY DEF IInv
<1>1. /\ UnderWay /\ pass.phase = "visit" /\ f \in pass.todo
      /\ pass' = [pass EXCEPT !.todo = @ \ {f}]
      /\ db' = ReplaceFile(db, f)
      /\ UNCHANGED <<present, program, upgrades, changes>>
  BY <1>0, PassFields DEF Visit
<1>2. pass \in [phase : {"scopes", "rebuild", "visit", "resolve"}, plan : SUBSET Parts,
                scopes : SUBSET Nat, stored : Versions, todo : SUBSET Files,
                had : SUBSET Files, referred : SUBSET Files]
  BY <1>0, <1>1, PassFields
<1>3. /\ pass'.phase = "visit" /\ pass'.plan = pass.plan /\ pass'.scopes = pass.scopes
      /\ pass'.stored = pass.stored /\ pass'.todo = pass.todo \ {f}
      /\ pass'.had = pass.had /\ pass'.referred = pass.referred
  BY <1>1, <1>2
<1>4. /\ Sound(db') /\ Comes(db, db') /\ Keeps(db, db', Files)
      /\ f \in present /\ program[PackOf[f]] # 0 => f \in Claimed(db') /\ f \in Recorded(db')
  BY <1>0, <1>1, ReplaceFileSound DEF TypeOK
<1>5. TypeOK'
  <2>1. pass' \in Passes
    BY <1>1, <1>2 DEF Passes
  <2> QED
    BY <1>0, <1>1, <1>4, <2>1 DEF TypeOK, Sound
<1>6. PlanSound'
  BY <1>0, <1>1, <1>3 DEF PlanSound
<1>7. Replaced'
  <2> SUFFICES ASSUME NEW n \in db'.nodes, Applied(PackOf[n.file])
               PROVE  n.version # pass.stored[PackOf[n.file]]
    BY <1>3 DEF Replaced, Applied
  <2>1. CASE \E m \in db.nodes : m.file = n.file /\ m.version = n.version
    BY <1>0, <1>1, <2>1 DEF Replaced
  <2>2. CASE n.version = program[PackOf[n.file]]
    BY <1>0, <1>1, <2>2 DEF PlanSound, Applied
  <2> QED
    BY <1>4, <2>1, <2>2 DEF Comes
<1>8. GivesBack'
  <2> SUFFICES ASSUME NEW g \in pass.had, program[PackOf[g]] # 0
               PROVE  /\ g \in Claimed(db') \/ Waiting(g)'
                      /\ g \in pass.referred /\ Resolution \notin pass.plan =>
                           g \in Recorded(db') \/ Waiting(g)'
    BY <1>1, <1>3 DEF GivesBack
  <2>1. g \in present /\ g \in Files
    BY <1>0, <1>1, <1>2 DEF PlanSound
  <2>2. ~Rebuilds
    BY <1>1 DEF Rebuilds
  <2>3. CASE g = f
    BY <1>4, <2>1, <2>3
  <2>4. CASE g # f
    BY <1>0, <1>1, <1>3, <1>4, <2>1, <2>2, <2>4 DEF GivesBack, Waiting, Keeps
  <2> QED
    BY <2>3, <2>4
<1> QED
  BY <1>0, <1>1, <1>4, <1>5, <1>6, <1>7, <1>8 DEF IInv, PartsShipped

LEMMA VisitFailsIInv == ASSUME IInv, NEW f \in Files, VisitFails(f) PROVE IInv'
<1>0. TypeOK /\ Sound(db)
  BY DEF IInv
<1>1. /\ UnderWay /\ pass' = [Without(f) EXCEPT !.todo = @ \ {f}]
      /\ db' = db \/ db' = RemoveFile(db, f)
      /\ UNCHANGED <<present, program, upgrades, changes>>
  BY <1>0, PassFields DEF VisitFails
<1>2. /\ pass' \in Passes
      /\ pass'.phase = pass.phase /\ pass'.plan = pass.plan /\ pass'.scopes = pass.scopes
      /\ pass'.stored = pass.stored /\ pass'.todo = pass.todo \ {f}
      /\ pass'.had = pass.had \ {f} /\ pass'.referred = pass.referred \ {f}
  <2> DEFINE q == Without(f)
  <2>1. /\ q \in [phase : {"scopes", "rebuild", "visit", "resolve"}, plan : SUBSET Parts,
                  scopes : SUBSET Nat, stored : Versions, todo : SUBSET Files,
                  had : SUBSET Files, referred : SUBSET Files]
        /\ q.phase = pass.phase /\ q.plan = pass.plan /\ q.scopes = pass.scopes
        /\ q.stored = pass.stored /\ q.todo = pass.todo
        /\ q.had = pass.had \ {f} /\ q.referred = pass.referred \ {f}
    BY <1>0, <1>1, WithoutFields
  <2>2. pass' = [q EXCEPT !.todo = @ \ {f}]
    BY <1>1
  <2> HIDE DEF q
  <2> QED
    BY <2>1, <2>2 DEF Passes
<1>3. Sound(db') /\ Comes(db, db') /\ Keeps(db, db', present \ {f})
  <2>1. CASE db' = db
    BY <1>0, <2>1 DEF Comes, Keeps
  <2>2. CASE db' = RemoveFile(db, f)
    BY <1>0, <2>2, RemoveFileSound DEF Keeps, TypeOK
  <2> QED
    BY <1>1, <2>1, <2>2
<1> QED
  BY <1>1, <1>2, <1>3, ForgivenTransaction

LEMMA VisitsDoneIInv == ASSUME IInv, VisitsDone PROVE IInv'
<1>0. TypeOK /\ Sound(db) /\ PartsShipped /\ PlanSound /\ Replaced /\ GivesBack
  BY DEF IInv
<1>1. /\ UnderWay /\ pass.phase = "visit" /\ pass.todo = {}
      /\ pass' = [pass EXCEPT !.phase = "resolve"]
      /\ UNCHANGED <<present, program, db, upgrades, changes>>
  BY <1>0, PassFields DEF VisitsDone
<1>2. pass \in [phase : {"scopes", "rebuild", "visit", "resolve"}, plan : SUBSET Parts,
                scopes : SUBSET Nat, stored : Versions, todo : SUBSET Files,
                had : SUBSET Files, referred : SUBSET Files]
  BY <1>0, <1>1, PassFields
<1>3. /\ pass'.phase = "resolve" /\ pass'.plan = pass.plan /\ pass'.scopes = pass.scopes
      /\ pass'.stored = pass.stored /\ pass'.todo = pass.todo
      /\ pass'.had = pass.had /\ pass'.referred = pass.referred
  BY <1>1, <1>2
<1>4. TypeOK'
  BY <1>0, <1>1, <1>2 DEF TypeOK, Passes
<1>5. PlanSound' /\ Replaced'
  BY <1>0, <1>1, <1>3 DEF PlanSound, Replaced, Applied
<1>6. GivesBack'
  BY <1>0, <1>1, <1>3 DEF GivesBack, Waiting, Rebuilds
<1> QED
  BY <1>0, <1>1, <1>4, <1>5, <1>6 DEF IInv, PartsShipped

LEMMA BeginRebuildIInv == ASSUME IInv, BeginRebuild PROVE IInv'
<1>0. TypeOK /\ Sound(db) /\ PartsShipped
  BY DEF IInv
<1>1. /\ pass' = [phase |-> "rebuild", plan |-> {}, scopes |-> {}, stored |-> db.records,
                  todo |-> {}, had |-> Claimed(db) \cap present,
                  referred |-> Recorded(db) \cap present]
      /\ UNCHANGED <<present, program, db, upgrades, changes>>
  BY DEF BeginRebuild
<1>2. TypeOK'
  <2>1. pass' \in Passes
    BY <1>0, <1>1 DEF Passes, TypeOK, Databases
  <2> QED
    BY <1>0, <1>1, <2>1 DEF TypeOK
<1>3. /\ pass'.phase = "rebuild" /\ pass'.plan = {} /\ pass'.scopes = {}
      /\ pass'.had \subseteq present /\ pass'.referred \subseteq present
  BY <1>1
<1>4. PlanSound' /\ Replaced' /\ GivesBack'
  BY <1>1, <1>3 DEF PlanSound, Replaced, Applied, GivesBack, Rebuilds
<1> QED
  BY <1>0, <1>1, <1>2, <1>4 DEF IInv, PartsShipped

LEMMA RebuildIInv == ASSUME IInv, Rebuild PROVE IInv'
<1>0. TypeOK /\ Sound(db) /\ PartsShipped /\ PlanSound /\ Replaced /\ GivesBack
  BY DEF IInv
<1>1. /\ UnderWay /\ pass.phase = "rebuild"
      /\ pass' = [pass EXCEPT !.phase = "resolve"]
      /\ db' = Rebuilt
      /\ UNCHANGED <<present, program, upgrades, changes>>
  BY <1>0, PassFields DEF Rebuild
<1>2. pass \in [phase : {"scopes", "rebuild", "visit", "resolve"}, plan : SUBSET Parts,
                scopes : SUBSET Nat, stored : Versions, todo : SUBSET Files,
                had : SUBSET Files, referred : SUBSET Files]
  BY <1>0, <1>1, PassFields
<1>3. /\ pass'.phase = "resolve" /\ pass'.plan = pass.plan /\ pass'.scopes = pass.scopes
      /\ pass'.stored = pass.stored
      /\ pass'.had = pass.had /\ pass'.referred = pass.referred
  BY <1>1, <1>2
<1>4. /\ Sound(db') /\ Comes(db, db')
      /\ \A f \in present : program[PackOf[f]] # 0 => f \in Claimed(db') /\ f \in Recorded(db')
  BY <1>0, <1>1, RebuiltSound DEF TypeOK
<1>5. TypeOK'
  BY <1>0, <1>1, <1>2, <1>4 DEF TypeOK, Passes, Sound
<1>6. PlanSound'
  BY <1>0, <1>1, <1>3 DEF PlanSound
<1>7. Replaced'
  <2> SUFFICES ASSUME NEW n \in db'.nodes, Applied(PackOf[n.file])
               PROVE  n.version # pass.stored[PackOf[n.file]]
    BY <1>3 DEF Replaced, Applied
  <2>1. CASE \E m \in db.nodes : m.file = n.file /\ m.version = n.version
    BY <1>0, <1>1, <2>1 DEF Replaced
  <2>2. CASE n.version = program[PackOf[n.file]]
    BY <1>0, <1>1, <2>2 DEF PlanSound, Applied
  <2> QED
    BY <1>4, <2>1, <2>2 DEF Comes
<1>8. GivesBack'
  BY <1>0, <1>1, <1>3, <1>4 DEF GivesBack, PlanSound
<1> QED
  BY <1>0, <1>1, <1>4, <1>5, <1>6, <1>7, <1>8 DEF IInv, PartsShipped

\* The last transaction adds edges for references and takes no claim.
LEMMA ResolveKeeps ==
    ASSUME IInv, Resolve
    PROVE  Sound(db') /\ db'.nodes = db.nodes /\ Recorded(db') = Recorded(db)
BY ResolveExistingSound DEF IInv, Resolve, TypeOK

LEMMA ResolveIInv == ASSUME IInv, Resolve PROVE IInv'
<1>1. Sound(db')
  BY ResolveKeeps
<1>2. pass' = Idle /\ UNCHANGED <<present, program, upgrades, changes>>
  BY DEF Resolve
<1>3. TypeOK' /\ PartsShipped'
  BY <1>1, <1>2 DEF IInv, TypeOK, PartsShipped, Passes, Sound
<1> QED
  BY <1>1, <1>2, <1>3, NoPass

LEMMA UpdateFileIInv == ASSUME IInv, NEW f \in Files, UpdateFile(f) PROVE IInv'
<1>1. UNCHANGED <<program, pass, present, upgrades, changes>>
  BY DEF UpdateFile
<1>2. /\ Sound(db) /\ program \in Versions /\ PartsShipped /\ present \subseteq Files
      /\ db' = ReplaceFile(db, f)
  BY DEF UpdateFile, IInv, TypeOK
<1>3. Sound(db') /\ Comes(db, db') /\ Keeps(db, db', present)
  BY <1>2, ReplaceFileSound DEF Keeps
<1> QED
  BY <1>1, <1>3, OtherTransaction

LEMMA UpdateRemovesIInv == ASSUME IInv, NEW f \in Files, UpdateRemoves(f) PROVE IInv'
<1>0. TypeOK /\ Sound(db) /\ PartsShipped
  BY DEF IInv
<1>1. /\ pass' = Without(f) /\ db' = RemoveFile(db, f)
      /\ UNCHANGED <<present, program, upgrades, changes>>
  BY DEF UpdateRemoves
<1>2. Sound(db') /\ Comes(db, db') /\ Keeps(db, db', present \ {f})
  BY <1>0, <1>1, RemoveFileSound DEF Keeps, TypeOK
<1>3. CASE UnderWay
  <2>1. pass' \in Passes
    BY <1>0, <1>1, <1>3, WithoutFields DEF Passes
  <2> QED
    BY <1>0, <1>1, <1>2, <1>3, <2>1, WithoutFields, ForgivenTransaction
<1>4. CASE ~UnderWay
  <2>1. pass' = pass /\ pass' \in {Down, Idle}
    BY <1>1, <1>4 DEF Without, UnderWay
  <2>2. TypeOK' /\ PartsShipped'
    BY <1>0, <1>1, <1>2, <2>1 DEF TypeOK, Sound, PartsShipped
  <2> QED
    BY <1>2, <2>1, <2>2, NoPass
<1> QED
  BY <1>3, <1>4

LEMMA RebuildIndexIInv == ASSUME IInv, RebuildIndex PROVE IInv'
<1>1. UNCHANGED <<program, pass, present, upgrades, changes>>
  BY DEF RebuildIndex
<1>2. Sound(db') /\ db'.nodes = db.nodes /\ db'.refs = db.refs /\ db'.edges = db.edges
  BY RebuildLexicalSound DEF RebuildIndex, IInv
<1>3. Comes(db, db') /\ Keeps(db, db', present)
  BY <1>2 DEF Comes, Keeps, Claimed, Recorded
<1> QED
  BY <1>1, <1>2, <1>3, OtherTransaction

\* A file that goes is no longer one the pass owes anything.
LEMMA ChangeIInv == ASSUME IInv, NEW f \in Files, Change(f) PROVE IInv'
<1>0. TypeOK /\ Sound(db) /\ PartsShipped /\ PlanSound /\ Replaced /\ GivesBack
  BY DEF IInv
<1>1. /\ changes' \in 0 .. MaxChanges /\ present' \subseteq Files
      /\ UNCHANGED <<program, db, upgrades>>
  BY <1>0, BoundsAssumption DEF Change, TypeOK
<1>2. CASE ~UnderWay
  <2>1. pass' = pass
    BY <1>2 DEF Change, Without, UnderWay
  <2>2. TypeOK' /\ Sound(db') /\ PartsShipped'
    BY <1>0, <1>1, <2>1 DEF TypeOK, PartsShipped
  <2> QED
    BY <1>2, <2>1, <2>2, NoPass DEF UnderWay
<1>3. CASE UnderWay
  <2> DEFINE lost == IF f \in present THEN {f} ELSE {}
  <2>1. pass \in [phase : {"scopes", "rebuild", "visit", "resolve"}, plan : SUBSET Parts,
                  scopes : SUBSET Nat, stored : Versions, todo : SUBSET Files,
                  had : SUBSET Files, referred : SUBSET Files]
    BY <1>0, <1>3, PassFields
  <2>2. /\ pass'.phase = pass.phase /\ pass'.plan = pass.plan /\ pass'.scopes = pass.scopes
        /\ pass'.stored = pass.stored /\ pass'.todo = pass.todo
        /\ pass'.had = pass.had \ lost /\ pass'.referred = pass.referred \ lost
        /\ present \ lost \subseteq present'
        /\ pass' \in Passes
    <3>1. CASE f \in present
      <4>1. pass' = Without(f) /\ present' = present \ {f}
        BY <3>1 DEF Change
      <4> QED
        BY <1>0, <1>3, <3>1, <4>1, WithoutFields DEF Passes
    <3>2. CASE f \notin present
      <4>1. pass' = pass /\ present \subseteq present'
        BY <3>2 DEF Change
      <4> QED
        BY <2>1, <3>2, <4>1 DEF Passes
    <3> QED
      BY <3>1, <3>2
  <2>3. TypeOK'
    BY <1>0, <1>1, <2>2 DEF TypeOK
  <2> HIDE DEF lost
  <2>4. PlanSound'
    BY <1>0, <1>1, <1>3, <2>2 DEF PlanSound
  <2>5. Replaced'
    BY <1>0, <1>1, <1>3, <2>2 DEF Replaced, Applied
  <2>6. GivesBack'
    BY <1>0, <1>1, <1>3, <2>2 DEF GivesBack, Rebuilds, Waiting
  <2> QED
    BY <1>0, <1>1, <2>3, <2>4, <2>5, <2>6 DEF IInv, PartsShipped
<1> QED
  BY <1>2, <1>3

LEMMA UpgradeIInv ==
    ASSUME IInv, NEW p \in Bumps, NEW version \in 0 .. MaxVersion, Upgrade(p, version)
    PROVE  IInv'
<1>1. /\ pass = Down /\ pass' = pass /\ program' = [program EXCEPT ![p] = version]
      /\ upgrades' \in 0 .. MaxUpgrades /\ UNCHANGED <<present, db, changes>>
      /\ p \notin Packs => version > program[p]
      /\ p \in Parts
  BY PartsAssumption, BoundsAssumption DEF Upgrade, IInv, TypeOK
<1>2. program \in Versions /\ MaxVersion \in Nat
  BY PartsAssumption DEF IInv, TypeOK
<1>3. program' \in Versions
  BY <1>1, <1>2 DEF Versions
<1>4. PartsShipped'
  <2>1. PartsShipped
    BY DEF IInv
  <2> SUFFICES ASSUME NEW q \in {Registries, Classification, Resolution}
               PROVE  program'[q] # 0
    BY DEF PartsShipped
  <2>2. q \in Parts /\ q \notin Packs
    BY PartsAssumption, PartsInParts
  <2>3. CASE q = p
    <3>1. program'[q] = version /\ version > program[q] /\ program[q] \in 0 .. MaxVersion
      BY <1>1, <1>2, <2>2, <2>3 DEF Versions
    <3> QED
      BY <1>2, <3>1
  <2>4. CASE q # p
    BY <1>1, <1>2, <2>1, <2>2, <2>4 DEF Versions, PartsShipped
  <2> QED
    BY <2>3, <2>4
<1>5. TypeOK' /\ Sound(db')
  BY <1>1, <1>3 DEF IInv, TypeOK
<1> QED
  BY <1>1, <1>4, <1>5, NoPass

LEMMA StopStartIInv == ASSUME IInv, Stop \/ Start PROVE IInv'
<1>1. pass' \in {Down, Idle} /\ UNCHANGED <<present, program, db, upgrades, changes>>
  BY DEF Stop, Start
<1>2. TypeOK' /\ Sound(db') /\ PartsShipped'
  BY <1>1 DEF IInv, TypeOK, Passes, PartsShipped
<1> QED
  BY <1>1, <1>2, NoPass

LEMMA StepIInv == IInv /\ [Next]_vars => IInv'
<1> SUFFICES ASSUME IInv, [Next]_vars
             PROVE  IInv'
  OBVIOUS
<1>1. CASE UNCHANGED vars
  BY <1>1 DEF vars, IInv, TypeOK, PartsShipped, PlanSound, Replaced, GivesBack, UnderWay,
              Applied, Rebuilds, Waiting
<1>2. CASE Next
  BY <1>2, BeginIndexAllIInv, ScopeIInv, VisitIInv, VisitFailsIInv, VisitsDoneIInv, BeginRebuildIInv,
     RebuildIInv, ResolveIInv, UpdateFileIInv, UpdateRemovesIInv, RebuildIndexIInv, ChangeIInv, UpgradeIInv, StopStartIInv
     DEF Next
<1> QED
  BY <1>1, <1>2

LEMMA Invariance == Spec => []IInv
BY InitIInv, StepIInv, PTL DEF Spec

-----------------------------------------------------------------------------
(* What follows.                                                           *)

\* The database and the pass are of their types: a transaction of a scope, a
\* file or a rebuild leaves tables of claims by versions a release can have.
THEOREM TypeCorrect == Spec => []TypeOK
BY Invariance, PTL DEF IInv

\* Whatever order scopes, file updates, rebuilds, crashes and upgrades come
\* in, put_nodes' additive rows and the three rules by which rows are removed
\* leave one lexical row for each claimed node and none for any other.
THEOREM LexicalIndexMatches == Spec => []LexicalMatchesClaims
<1>1. IInv => LexicalMatchesClaims
  BY DEF IInv, Sound, Lexical, LexicalMatchesClaims
<1> QED
  BY <1>1, Invariance, PTL

\* No upgrade, cut off wherever it may be, leaves a file claimed by two
\* versions of its pack, nor a reference open for a version not claimed.
THEOREM FilesHaveOneVersion == Spec => []OneVersionOfAFile
<1>1. IInv => OneVersionOfAFile
  BY DEF IInv, Sound, OneVersion, OneVersionOfAFile
<1> QED
  BY <1>1, Invariance, PTL

\* Only Resolve ends a pass.
LEMMA FinishIsResolve ==
    ASSUME IInv, [Next]_vars, Finishes
    PROVE  Resolve
<1>1. pass.phase = "resolve" /\ pass'.phase = "idle"
  BY DEF Finishes
<1>2. TypeOK /\ UnderWay
  BY <1>1, PassFields DEF IInv
<1>3. pass \in [phase : {"scopes", "rebuild", "visit", "resolve"}, plan : SUBSET Parts,
                scopes : SUBSET Nat, stored : Versions, todo : SUBSET Files,
                had : SUBSET Files, referred : SUBSET Files]
  BY <1>2, PassFields
<1>4. pass' # pass /\ pass # Idle /\ pass # Down
  BY <1>1, <1>2 DEF UnderWay
<1>5. \A f \in Files : ~Change(f) /\ ~UpdateRemoves(f) /\ ~VisitFails(f)
  <2> SUFFICES ASSUME NEW f \in Files
               PROVE  ~Change(f) /\ ~UpdateRemoves(f) /\ ~VisitFails(f)
    OBVIOUS
  <2>1. Without(f).phase = pass.phase
    BY <1>2, WithoutFields
  <2> QED
    BY <1>1, <2>1 DEF Change, UpdateRemoves, VisitFails
<1>6. pass' # Down
  BY <1>1 DEF Down
<1> QED
  BY <1>1, <1>4, <1>5, <1>6
     DEF Next, vars, BeginIndexAll, Scope, Visit, VisitsDone, BeginRebuild, Rebuild,
         UpdateFile, RebuildIndex, Stop, Upgrade, Start

\* A pass that runs to its end has replaced every claim of the versions its
\* plan was made against, in spite of file updates between its transactions.
THEOREM PassesReplace == Spec => PassReplacesWhatItPlanned
<1>1. ASSUME IInv, [Next]_vars, Finishes, NEW n \in db'.nodes, PackOf[n.file] \in pass.plan
      PROVE  n.version # pass.stored[PackOf[n.file]]
  <2>1. Resolve /\ pass.phase = "resolve"
    BY <1>1, FinishIsResolve DEF Finishes
  <2>2. n \in db.nodes
    BY <1>1, <2>1, ResolveKeeps
  <2>3. UnderWay /\ Applied(PackOf[n.file])
    BY <1>1, <2>1, PassFields DEF IInv, PlanSound, Applied
  <2> QED
    BY <1>1, <2>2, <2>3 DEF IInv, Replaced
<1>2. IInv /\ [Next]_vars =>
        [Finishes =>
          \A n \in db'.nodes : LET p == PackOf[n.file] IN
            p \in pass.plan => n.version # pass.stored[p]]_vars
  BY <1>1
<1> QED
  BY <1>2, Invariance, PTL DEF Spec, PassReplacesWhatItPlanned

\* A pass that runs to its end has read again every file whose claims or
\* references its scopes took, whichever scope it was and however often a
\* file was updated, created or deleted in between.
THEOREM PassesGiveBack == Spec => PassGivesBack
<1>1. ASSUME IInv, [Next]_vars, Finishes, NEW f \in pass.had, program[PackOf[f]] # 0
      PROVE  /\ f \in Claimed(db')
             /\ f \in pass.referred /\ Resolution \notin pass.plan => f \in Recorded(db')
  <2>1. Resolve /\ pass.phase = "resolve"
    BY <1>1, FinishIsResolve DEF Finishes
  <2>2. db'.nodes = db.nodes /\ Recorded(db') = Recorded(db)
    BY <1>1, <2>1, ResolveKeeps
  <2>3. UnderWay /\ ~Rebuilds /\ ~Waiting(f)
    BY <1>1, <2>1, PassFields DEF IInv, Rebuilds, Waiting
  <2> QED
    BY <1>1, <2>2, <2>3 DEF IInv, GivesBack, Claimed
<1>2. IInv /\ [Next]_vars =>
        [Finishes =>
          \A f \in pass.had : program[PackOf[f]] # 0 =>
            /\ f \in Claimed(db')
            /\ f \in pass.referred /\ Resolution \notin pass.plan => f \in Recorded(db')]_vars
  BY <1>1
<1> QED
  BY <1>2, Invariance, PTL DEF Spec, PassGivesBack
=============================================================================
