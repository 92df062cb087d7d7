------------------------ MODULE VersionInvalidation ------------------------
(***************************************************************************)
(* What a new release of repin does to a graph an older one has built      *)
(* (repin-runtime/src/engine.rs, repin-indexing, repin-store-sqlite).      *)
(*                                                                         *)
(* Every claim names its owner: the file, the producer and the producer's  *)
(* version. meta.version_records says which versions the graph stands for. *)
(* IndexAll compares them with the versions of the running program, plans  *)
(* one scope per difference, applies each scope in a transaction of its    *)
(* own and then reads the files again that lost their claims. File updates *)
(* run between those transactions, and the process may end between any two *)
(* of them.                                                                *)
(*                                                                         *)
(* A step is a transaction: GraphUpdates.tla has the interleavings inside. *)
(***************************************************************************)
EXTENDS Naturals, SequencesExt

CONSTANTS
    Files,          \* files of the project; each declares one symbol
    Packs,          \* language packs
    PackOrder,      \* the packs in the order of their names
    PackOf,         \* the pack that handles a file
    Refers,         \* the file whose symbol a file refers to
    Registries, Classification, Resolution, \* the other versioned parts
    Bumps,          \* the parts a release may change
    MaxVersion,     \* versions of a part; a pack of version 0 is not shipped
    MaxUpgrades,    \* releases installed
    MaxChanges      \* files created or deleted

VARIABLES
    present,  \* files on disk
    program,  \* versions of the installed program
    db,       \* the committed database
    pass,     \* the IndexAll or Rebuild request under way, lost in a crash
    upgrades, changes

vars == <<present, program, db, pass, upgrades, changes>>

Parts == Packs \cup {Registries, Classification, Resolution}
Versions == [Parts -> 0 .. MaxVersion]
NoRecords == [p \in Parts |-> 0]

\* Producers that are no packs: the promotion of references in an update, and
\* resolve_existing.
Promoter == "promoter"
Resolver == "resolver"

ASSUME PartsAssumption ==
    /\ {Registries, Classification, Resolution} \cap Packs = {}
    /\ Registries # Classification /\ Registries # Resolution /\ Classification # Resolution
    /\ {Promoter, Resolver} \cap Packs = {}
    /\ PackOrder \in Seq(Packs) /\ Range(PackOrder) = Packs
    /\ PackOf \in [Files -> Packs]
    /\ Refers \in [Files -> Files]
    /\ Bumps \subseteq Parts
    /\ MaxVersion \in Nat \ {0}

ASSUME BoundsAssumption == MaxUpgrades \in Nat /\ MaxChanges \in Nat

\* A node claim, keyed by node and owner, with the artifact class it was given.
Node(f, version, class) == [file |-> f, version |-> version, class |-> class]
\* FactOwner: root, path, producer, producer_version.
Owner(f, producer, version) == [file |-> f, producer |-> producer, version |-> version]
\* A reference that has not found its name, or the edge it became.
Reference(f, version) == [file |-> f, version |-> version]
Edge(f, by, version) == [file |-> f, by |-> by, version |-> version]

Owners == [file : Files, producer : Packs \cup {Promoter, Resolver}, version : 1 .. MaxVersion]

EmptyDb ==
    [nodes |-> {}, refs |-> {}, edges |-> {}, owners |-> {},
     lexical |-> [f \in Files |-> 0], records |-> NoRecords]

Down == [phase |-> "down"]
Idle == [phase |-> "idle"]

Databases ==
    [nodes : SUBSET [file : Files, version : 1 .. MaxVersion, class : 1 .. MaxVersion],
     refs : SUBSET [file : Files, version : 1 .. MaxVersion],
     edges : SUBSET [file : Files, by : {Promoter, Resolver}, version : 1 .. MaxVersion],
     owners : SUBSET Owners,
     lexical : [Files -> Nat],
     records : Versions]

Passes ==
    {Down, Idle} \cup
    [phase : {"scopes", "rebuild", "visit", "resolve"}, plan : SUBSET Parts,
     scopes : SUBSET Nat, stored : Versions, todo : SUBSET Files,
     had : SUBSET Files, referred : SUBSET Files]

TypeOK ==
    /\ present \subseteq Files
    /\ program \in Versions
    /\ db \in Databases
    /\ pass \in Passes
    /\ upgrades \in 0 .. MaxUpgrades
    /\ changes \in 0 .. MaxChanges

Init ==
    /\ present = Files
    /\ program = [p \in Parts |-> 1]
    /\ db = EmptyDb
    /\ pass = Idle
    /\ upgrades = 0
    /\ changes = 0

-----------------------------------------------------------------------------
\* The transaction's operations, on the rows of the database.

Named(d, f) == \E n \in d.nodes : n.file = f
Of(rows, f) == {r \in rows : r.file = f}

\* Mutant of RemoveByFile: only the claims of the running release are removed.
RemoveByFileOfThisRelease(d, f) ==
    LET stays(r) == r.file = f => r.version # program[PackOf[f]]
    IN [d EXCEPT !.nodes = {n \in @ : stays(n)},
                 !.refs = {r \in @ : stays(r)},
                 !.edges = @ \ Of(@, f),
                 !.lexical[f] = 0]

\* remove_by_file: every owner of the file, whoever the producer; lexical rows
\* go by path.
RemoveByFile(d, f) ==
    [d EXCEPT !.nodes = @ \ Of(@, f),
              !.refs = @ \ Of(@, f),
              !.edges = @ \ Of(@, f),
              !.lexical[f] = 0]

\* Mutant of RemoveClaims: lexical rows stay.
RemoveClaimsOnly(d, owners) ==
    [d EXCEPT !.nodes = {n \in @ : Owner(n.file, PackOf[n.file], n.version) \notin owners},
              !.refs = {r \in @ : Owner(r.file, PackOf[r.file], r.version) \notin owners},
              !.edges = {e \in @ : Owner(e.file, e.by, e.version) \notin owners}]

\* remove_claims, for each of a set of owners. A node's lexical rows go with
\* its last claim.
RemoveClaims(d, owners) ==
    LET gone == {n \in d.nodes : Owner(n.file, PackOf[n.file], n.version) \in owners}
        left == d.nodes \ gone
    IN [d EXCEPT !.nodes = left,
                 !.refs = {r \in @ : Owner(r.file, PackOf[r.file], r.version) \notin owners},
                 !.edges = {e \in @ : Owner(e.file, e.by, e.version) \notin owners},
                 !.lexical = [f \in Files |->
                     IF f \in {n.file : n \in gone} /\ ~\E n \in left : n.file = f
                     THEN 0 ELSE @[f]]]

\* put_nodes, put_unresolved: the facts the file's pack extracts, none if no
\* pack takes it. A claim replaces the one of the same node and owner, an
\* unresolved reference the one of the same source; lexical rows only add up.
PutFacts(d, f) ==
    LET version == program[PackOf[f]]
    IN IF version = 0 THEN d
       ELSE [d EXCEPT !.nodes = {n \in @ : ~(n.file = f /\ n.version = version)}
                                  \cup {Node(f, version, program[Classification])},
                      !.refs = (@ \ Of(@, f)) \cup {Reference(f, version)},
                      !.owners = @ \cup {Owner(f, PackOf[f], version)},
                      !.lexical[f] = @ + 1]

\* References become edges owned by the pass that found their target.
Promote(d, found, by, version) ==
    [d EXCEPT !.refs = @ \ found,
              !.edges = @ \cup {Edge(r.file, by, version) : r \in found},
              !.owners = @ \cup {Owner(r.file, by, version) : r \in found}]

\* put_version_records: always the versions of the running program.
Record(d) == [d EXCEPT !.records = program]

\* apply_snapshot_update_with_records: claims replaced, then the references
\* promoted that seek the file's symbol.
ReplaceFile(d, f) ==
    LET put == PutFacts(RemoveByFile(d, f), f)
        seeking == {r \in put.refs : Refers[r.file] = f}
    IN Record(IF program[PackOf[f]] = 0 THEN put ELSE Promote(put, seeking, Promoter, 1))

\* apply_file_removal.
RemoveFile(d, f) == Record(RemoveByFile(d, f))

\* rebuild_source_with_records.
Rebuilt ==
    LET taken == {f \in present : program[PackOf[f]] # 0}
    IN Record([EmptyDb EXCEPT
            !.nodes = {Node(f, program[PackOf[f]], program[Classification]) : f \in taken},
            !.refs = {Reference(f, program[PackOf[f]]) : f \in taken},
            !.owners = {Owner(f, PackOf[f], program[PackOf[f]]) : f \in taken},
            !.lexical = [f \in Files |-> IF f \in taken THEN 1 ELSE 0]])

\* resolve_existing: nothing is written, not even records, when no reference
\* is open.
ResolveExisting(d) ==
    IF d.refs = {} THEN d
    ELSE Record(Promote(d, {r \in d.refs : Named(d, Refers[r.file])},
                        Resolver, program[Resolution]))

\* SqliteStore::rebuild_lexical: one row for every distinct claimed text.
RebuildLexical(d) == [d EXCEPT !.lexical = [f \in Files |-> IF Named(d, f) THEN 1 ELSE 0]]

-----------------------------------------------------------------------------
\* plan_version_invalidation: one scope per part that differs, in this order.
\* Packs come twice: pack_versions and extractor_versions have the same keys.
ScopeOrder ==
    <<Registries, Classification, Resolution>> \o PackOrder \o PackOrder

PlanVersionInvalidation(stored, current) ==
    IF stored = NoRecords THEN {} ELSE {p \in Parts : stored[p] # current[p]}

\* The places in ScopeOrder of a plan's scopes.
Scopes(plan) == {i \in DOMAIN ScopeOrder : ScopeOrder[i] \in plan}

First(places) == {i \in places : \A j \in places : i <= j}

\* Mutant of OwnersByProducer: the new version's owners are looked up.
OwnersOfThisRelease(d, producer, version) ==
    {o \in d.owners : o.producer = producer /\ o.version = program[producer]}

OwnersByProducer(d, producer, version) ==
    {o \in d.owners : o.producer = producer /\ o.version = version}

ResolutionOwners(d) == {Owner(e.file, e.by, e.version) : e \in d.edges}

\* The transaction of one scope. A pack the records do not name has no
\* previous version, and its scope does nothing.
ApplyScope(d, p, stored) ==
    CASE p = Registries     -> Record(RemoveClaims(d, d.owners))
      [] p = Classification ->
            Record([d EXCEPT !.nodes = {Node(n.file, n.version, program[p]) : n \in @}])
      [] p = Resolution     -> Record(RemoveClaims(d, ResolutionOwners(d)))
      [] OTHER              ->
            IF stored[p] = 0 THEN d
            ELSE Record(RemoveClaims(d, OwnersByProducer(d, p, stored[p])))

\* targeted_files: what the scope's owners were read from.
Targets(d, p, stored) ==
    IF p \in Packs /\ stored[p] # 0 THEN {o.file : o \in OwnersByProducer(d, p, stored[p])}
    ELSE {}

Claimed(d) == {n.file : n \in d.nodes}
Recorded(d) == {r.file : r \in d.refs} \cup {e.file : e \in d.edges}

\* index_all_worktree, apply_pending_version_invalidations: the records are
\* read once. had and referred are what the graph knew, for the properties.
BeginIndexAll ==
    LET plan == PlanVersionInvalidation(db.records, program)
    IN /\ pass = Idle
       /\ pass' = [phase |-> IF plan = {} THEN "visit" ELSE "scopes",
                   plan |-> plan, scopes |-> Scopes(plan), stored |-> db.records,
                   todo |-> IF plan = {} THEN present ELSE {},
                   had |-> Claimed(db) \cap present, referred |-> Recorded(db) \cap present]
       /\ UNCHANGED <<present, program, db, upgrades, changes>>

\* Mutant of Scope: each scope starts the targeted files anew.
ScopeForgetsTargets ==
    /\ pass.phase = "scopes"
    /\ \E i \in First(pass.scopes) :
         LET p == ScopeOrder[i]
             left == pass.scopes \ {i}
         IN /\ db' = ApplyScope(db, p, pass.stored)
            /\ pass' = [pass EXCEPT
                !.scopes = left,
                !.todo = Targets(db, p, pass.stored),
                !.phase = IF left # {} THEN "scopes" ELSE "visit"]
    /\ UNCHANGED <<present, program, upgrades, changes>>

\* One scope; after the last, a rebuild if the registries changed, otherwise
\* the targeted files, and only those.
Scope ==
    /\ pass.phase = "scopes"
    /\ \E i \in First(pass.scopes) :
         LET p == ScopeOrder[i]
             left == pass.scopes \ {i}
         IN /\ db' = ApplyScope(db, p, pass.stored)
            /\ pass' = [pass EXCEPT
                !.scopes = left,
                !.todo = @ \cup Targets(db, p, pass.stored),
                !.phase = IF left # {} THEN "scopes"
                          ELSE IF Registries \in pass.plan THEN "rebuild"
                          ELSE "visit"]
    /\ UNCHANGED <<present, program, upgrades, changes>>

\* One file of the walk or of targeted_files.
Visit(f) ==
    /\ pass.phase = "visit"
    /\ f \in pass.todo \cap present
    /\ pass' = [pass EXCEPT !.todo = @ \ {f}]
    /\ db' = ReplaceFile(db, f)
    /\ UNCHANGED <<present, program, upgrades, changes>>

\* The pass, where a file that is gone or failed is owed nothing.
Without(f) ==
    IF pass \in {Down, Idle} THEN pass ELSE [pass EXCEPT !.had = @ \ {f}, !.referred = @ \ {f}]

\* A file that cannot be read, or is gone, is passed over; one that no pack
\* can extract loses its claims.
VisitFails(f) ==
    /\ pass.phase = "visit"
    /\ f \in pass.todo
    /\ pass' = [Without(f) EXCEPT !.todo = @ \ {f}]
    /\ db' \in {db} \cup {RemoveFile(db, g) : g \in {f} \cap present}
    /\ UNCHANGED <<present, program, upgrades, changes>>

VisitsDone ==
    /\ pass.phase = "visit"
    /\ pass.todo = {}
    /\ pass' = [pass EXCEPT !.phase = "resolve"]
    /\ UNCHANGED <<present, program, db, upgrades, changes>>

\* rebuild(Graph): the request, or the end of a plan with a registry in it.
BeginRebuild ==
    /\ pass = Idle
    /\ pass' = [phase |-> "rebuild", plan |-> {}, scopes |-> {}, stored |-> db.records,
                todo |-> {}, had |-> Claimed(db) \cap present, referred |-> Recorded(db) \cap present]
    /\ UNCHANGED <<present, program, db, upgrades, changes>>

Rebuild ==
    /\ pass.phase = "rebuild"
    /\ db' = Rebuilt
    /\ pass' = [pass EXCEPT !.phase = "resolve"]
    /\ UNCHANGED <<present, program, upgrades, changes>>

\* The last transaction of every pass.
Resolve ==
    /\ pass.phase = "resolve"
    /\ db' = ResolveExisting(db)
    /\ pass' = Idle
    /\ UNCHANGED <<present, program, upgrades, changes>>

-----------------------------------------------------------------------------
\* update_file, from the watcher or a request on another thread.
UpdateFile(f) ==
    /\ pass # Down
    /\ f \in present
    /\ db' = ReplaceFile(db, f)
    /\ UNCHANGED <<present, program, pass, upgrades, changes>>

\* update_file of a file that is gone, cannot be read or cannot be extracted.
UpdateRemoves(f) ==
    /\ pass # Down
    /\ db' = RemoveFile(db, f)
    /\ pass' = Without(f)
    /\ UNCHANGED <<present, program, upgrades, changes>>

\* rebuild(Lexical).
RebuildIndex ==
    /\ pass # Down
    /\ db' = RebuildLexical(db)
    /\ UNCHANGED <<present, program, pass, upgrades, changes>>

\* Somebody creates or deletes a file.
Change(f) ==
    /\ changes < MaxChanges
    /\ changes' = changes + 1
    /\ present' = IF f \in present THEN present \ {f} ELSE present \cup {f}
    /\ pass' = IF f \in present THEN Without(f) ELSE pass
    /\ UNCHANGED <<program, db, upgrades>>

\* The process ends, in the middle of a pass or not. A pass that ends with an
\* error leaves behind what one that is cut off does.
Stop ==
    /\ pass # Down
    /\ pass' = Down
    /\ UNCHANGED <<present, program, db, upgrades, changes>>

\* Another release is installed, in which one part has another version; a
\* pack may be new or gone.
Upgrade(p, version) ==
    /\ pass = Down
    /\ upgrades < MaxUpgrades
    /\ version # program[p]
    /\ p \notin Packs => version > program[p]
    /\ program' = [program EXCEPT ![p] = version]
    /\ upgrades' = upgrades + 1
    /\ UNCHANGED <<present, db, pass, changes>>

Start ==
    /\ pass = Down
    /\ pass' = Idle
    /\ UNCHANGED <<present, program, db, upgrades, changes>>

Next ==
    \/ BeginIndexAll
    \/ Scope
    \/ \E f \in Files : Visit(f) \/ VisitFails(f)
    \/ VisitsDone
    \/ BeginRebuild
    \/ Rebuild
    \/ Resolve
    \/ \E f \in Files : UpdateFile(f) \/ UpdateRemoves(f)
    \/ RebuildIndex
    \/ \E f \in Files : Change(f)
    \/ Stop
    \/ \E p \in Bumps, version \in 0 .. MaxVersion : Upgrade(p, version)
    \/ Start

Spec == Init /\ [][Next]_vars

-----------------------------------------------------------------------------
(* Safety *)

\* The lexical index has one row for every claimed node and none for a node
\* nobody claims, although put_nodes only ever adds rows, and each way of
\* removing claims (by file, by owner, all) removes rows by a rule of its own.
LexicalMatchesClaims == \A f \in Files : db.lexical[f] = IF Named(db, f) THEN 1 ELSE 0

\* A file is never claimed by two versions of its pack at once, and a
\* reference is never open for a version of the file that is not claimed: a
\* file is replaced whole, whichever release wrote what is replaced and
\* wherever an earlier pass was cut off.
OneVersionOfAFile ==
    /\ \A m, n \in db.nodes : m.file = n.file => m = n
    /\ \A r \in db.refs : \E n \in db.nodes : n.file = r.file /\ n.version = r.version

Finishes == pass.phase = "resolve" /\ pass'.phase = "idle"

\* A pass that runs to its end leaves no claim of a version its plan replaced.
PassReplacesWhatItPlanned ==
    [][Finishes =>
        \A n \in db'.nodes : LET p == PackOf[n.file] IN
            p \in pass.plan => n.version # pass.stored[p]]_vars

\* A pass that runs to its end has given back what its scopes took: a file
\* that was claimed when it began, is still there, still has a pack and was
\* neither passed over nor failed to be extracted since is claimed at the end;
\* unless resolution changed its reference is recorded too.
PassGivesBack ==
    [][Finishes =>
        \A f \in pass.had : program[PackOf[f]] # 0 =>
            /\ f \in Claimed(db')
            /\ f \in pass.referred /\ Resolution \notin pass.plan => f \in Recorded(db')]_vars

\* What ADR-024 says of resolution changes: "resolution replaces all
\* resolution-derived claims without source reads". Replacing them keeps the
\* references they stand for. They are gone: the reference was deleted when
\* the edge was made, so there is nothing to resolve again.
ResolutionKeepsReferences ==
    [][Finishes => \A f \in pass.referred : program[PackOf[f]] # 0 => f \in Recorded(db')]_vars

\* The version records tell which versions the claims are of (ADR-024:
\* "Version records commit atomically with the replacement facts"). They do
\* not once a file is updated between an upgrade and the IndexAll it calls
\* for: the update records the program's versions for the whole graph.
RecordsTellTheTruth ==
    \A n \in db.nodes : db.records[PackOf[n.file]] = n.version
=============================================================================
