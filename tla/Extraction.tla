----------------------------- MODULE Extraction -----------------------------
(***************************************************************************)
(* The extraction of one file: the first pack of default_packs that can    *)
(* handle it (repin-packs/src/lib.rs) walks it, and what it pushes becomes *)
(* the file's nodes, Contains edges and unresolved references.             *)
(*                                                                         *)
(* The properties are about what the graph takes for granted of a file's   *)
(* facts (docs/code/graph-model.md, Identity): ids that do not collide,    *)
(* one containment tree, and chains that say where in it a node is.        *)
(***************************************************************************)
EXTENDS FactBuilder, SequencesExt

Rust == INSTANCE RustPack
Ts == INSTANCE TsPack
Py == INSTANCE PyPack
Prose == INSTANCE ProsePack
Go == INSTANCE GoPack
C == INSTANCE CPack
Cpp == INSTANCE CppPack
Java == INSTANCE JavaPack
CSharp == INSTANCE CSharpPack

\* What can_handle looks at: the extension, and for some packs the content.
Files == [extension : {"rs", "ts", "py", "", "md", "go", "c", "h", "cpp", "java", "cs"},
          shebang : {"", "python"}, looksLikeCpp : BOOLEAN]

\* default_packs: the packs in the order they are asked in.
DefaultPacks == <<"rust_pack", "ts_pack", "py_pack", "prose_pack", "go_pack", "c_pack",
                  "cpp_pack", "java_pack", "csharp_pack">>

CanHandle(pack, file) ==
    CASE pack = "rust_pack" -> Rust!CanHandle(file.extension)
      [] pack = "ts_pack" -> Ts!CanHandle(file.extension)
      [] pack = "py_pack" -> Py!CanHandle(file.extension, file.shebang)
      [] pack = "prose_pack" -> Prose!CanHandle(file.extension)
      [] pack = "go_pack" -> Go!CanHandle(file.extension)
      [] pack = "c_pack" -> C!CanHandle(file.extension)
      [] pack = "cpp_pack" -> Cpp!CanHandle(file.extension, file.looksLikeCpp)
      [] pack = "java_pack" -> Java!CanHandle(file.extension)
      [] pack = "csharp_pack" -> CSharp!CanHandle(file.extension)

\* The pack the coordinator extracts the file with.
IsPackOf(pack, file) ==
    \E i \in 1 .. Len(DefaultPacks) :
        /\ pack = DefaultPacks[i]
        /\ CanHandle(pack, file)
        /\ \A j \in 1 .. i - 1 : ~CanHandle(DefaultPacks[j], file)

Init == \E file \in Files, pack \in ToSet(DefaultPacks) :
            IsPackOf(pack, file) /\ Begin(pack)

Next ==
    \/ language = "rust_pack" /\ Rust!Next
    \/ language = "ts_pack" /\ Ts!Next
    \/ language = "py_pack" /\ Py!Next
    \/ language = "prose_pack" /\ Prose!Next
    \/ language = "go_pack" /\ Go!Next
    \/ language = "c_pack" /\ C!Next
    \/ language = "cpp_pack" /\ Cpp!Next
    \/ language = "java_pack" /\ Java!Next
    \/ language = "csharp_pack" /\ CSharp!Next

Spec == Init /\ [][Next]_vars

-----------------------------------------------------------------------------
Ids == {n.id : n \in facts.nodes}
Roots == {Root("file"), Root("document")}

TypeOK ==
    /\ language \in ToSet(DefaultPacks)
    /\ \A id \in Ids : id.discriminator \in Nat
    /\ Len(open) <= MaxDepth
    /\ Len(parents) >= 1
    /\ \A i \in 1 .. Len(parents) : parents[i] \in Ids
    /\ facts.claims \in 1 .. MaxFacts
    /\ \A r \in facts.unresolved : r.from \in Ids

\* Every declaration of the file has an id of its own, whatever it is named
\* and wherever it stands: the store keys nodes by id, so a second one with
\* the same id would take the first one's place. Namesakes are numbered 0, 1,
\* 2, ... without a gap, so that adding one after them changes no id
\* (graph-model.md, Identity).
OrdinalsTellApart ==
    /\ Cardinality(Ids) = facts.claims
    /\ \A id \in Ids : id.discriminator > 0 => [id EXCEPT !.discriminator = @ - 1] \in Ids

\* What an enum, a record or a primary constructor lists may have its owner's
\* name alone for a chain.
IsListed(id, owner) ==
    \/ owner.kind = "enum" /\ id.kind = "constant"
    \/ language \in {"java_pack", "csharp_pack"} /\ id.kind = "field"

\* The chain of what stands in a declaration: the declaration's own, its name,
\* and the label of the impl block of Rust between them.
IsChainIn(owner, container) ==
    LET depth == IF owner \in Roots THEN 0 ELSE Len(owner.container) + 1
    IN /\ depth <= Len(container)
       /\ owner \notin Roots => /\ SubSeq(container, 1, depth - 1) = owner.container
                                /\ container[depth].name = owner.name
                                /\ container[depth].word # "impl"
       /\ \A i \in depth + 1 .. Len(container) : container[i].word = "impl"

\* A chain names the declarations a node is in, outermost first, and every
\* node is in one (the traverse_node of each pack).
ChainsNameTheContainers ==
    /\ \A id \in Ids \ Roots : \E e \in facts.edges : e.to = id
    /\ \A e \in facts.edges :
          \/ IsChainIn(e.from, e.to.container)
          \/ IsListed(e.to, e.from) /\ e.to.container = <<Segment("", e.from.name)>>

\* As graph-model.md has it: "containerChain - enclosing named scopes,
\* outermost first", of every node.
ChainsAreComplete ==
    \A e \in facts.edges :
        e.from \notin Roots => Len(e.to.container) > Len(e.from.container)
=============================================================================
