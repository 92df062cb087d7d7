------------------------------- MODULE PyPack -------------------------------
(***************************************************************************)
(* repin-packs/src/py_pack.rs: the walk of a Python file. A function is a  *)
(* scope as a class is, so definitions nest in both.                       *)
(***************************************************************************)
EXTENDS FactBuilder

CanHandle(extension, shebang) ==
    extension = "py" \/ shebang = "python"

InClass == chain # <<>> /\ InnermostLabel.word = "class"

FunctionKinds ==
    IF InClass THEN {"method", "constructor"} ELSE {"function"}

\* process_definition; a decorated definition is one, with its decorators.
\* The constructors are the two dunder names.
FunctionDefinition(name) ==
    \E kind \in FunctionKinds :
        Scope("fn", kind, name, Qualified(name), Segment("fn", name), {})

ClassDefinition(name) ==
    \E seeks \in Seeks({"extends"}) :
        Scope("class", "class", name, Qualified(name), Segment("class", name), seeks)

TypeAlias(name) == Leaf("type", name, Unqualified(name))

\* process_assignment of an identifier; dunder names are passed over, and a
\* name without a lower-case letter is a constant.
Assignment(name) ==
    \E kind \in IF InClass THEN {"field"} ELSE {"constant", "variable"} :
        Leaf(kind, name, Qualified(name))

\* import_statement and import_from_statement: a reference for each module
\* and each item, by add_import_ref.
Import(name) == Refer(CurrentParent, name, "imports")

Next ==
    \/ Leave
    \/ \E n \in Names : \/ FunctionDefinition(n) \/ ClassDefinition(n) \/ TypeAlias(n)
                        \/ Assignment(n) \/ Import(n)
=============================================================================
