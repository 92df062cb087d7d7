------------------------------ MODULE RustPack ------------------------------
(***************************************************************************)
(* repin-packs/src/rust_pack.rs: the walk of a Rust file, an action per    *)
(* arm of traverse_node. A trait and a mod are scopes and parents; an impl *)
(* is a scope only, so that its methods are children of the file or mod.   *)
(***************************************************************************)
EXTENDS FactBuilder

CanHandle(extension) == extension = "rs"

\* A function is a method when the label of its scope starts with "impl" or
\* "trait", which the name of a mod may do too.
FunctionKinds ==
    IF chain = <<>> THEN {"function"}
    ELSE IF InnermostLabel.word \in {"impl", "trait"} THEN {"method"}
    ELSE {"function", "method"}

Items == AtTop \/ In({"mod"})

Function(name) ==
    /\ Items \/ In({"trait", "impl"})
    /\ \E kind \in FunctionKinds : Leaf(kind, name, Qualified(name))

Struct(name) == Items /\ Leaf("struct", name, Qualified(name))
Enum(name) == Items /\ Leaf("enum", name, Unqualified(name))

Trait(name) ==
    Items /\ Scope("trait", "trait", name, Unqualified(name), Segment("trait", name), {})

Impl(trait, type) ==
    /\ Items
    /\ Enter("impl", <<ImplSegment(trait, type)>>, <<>>, CurrentParent)
    /\ UNCHANGED <<tracker, facts>>

Mod(name) ==
    Items /\ Scope("mod", "module", name, Unqualified(name), Segment("", name), {})

Use(name) == Items /\ Refer(CurrentParent, name, "imports")

Next ==
    \/ Leave
    \/ \E n \in Names : \/ Function(n) \/ Struct(n) \/ Enum(n) \/ Trait(n) \/ Mod(n)
                        \/ Use(n)
    \/ \E trait \in Names \cup {""}, type \in Names : Impl(trait, type)
=============================================================================
