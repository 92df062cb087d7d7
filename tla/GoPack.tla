------------------------------- MODULE GoPack -------------------------------
(***************************************************************************)
(* repin-packs/src/go_pack.rs: the walk of a Go file. A struct and an      *)
(* interface are scopes for their own members. A method stands at the top  *)
(* of the file: its receiver is in its qualified name and not in its id.   *)
(***************************************************************************)
EXTENDS FactBuilder

CanHandle(extension) == extension = "go"

IsBuiltinType(name) == name \in Builtins
IsBuiltinFunc(name) == name \in Builtins

PackageClause(name) ==
    AtTop /\ facts.claims = 1 /\ Leaf("package", name, Unqualified(name))

\* process_import_spec.
ImportSpec(name) == AtTop /\ Refer(CurrentParent, name, "imports")

FunctionDeclaration(name) == AtTop /\ Open("body", "function", name, Qualified(name))

MethodDeclaration(receiver, name) ==
    AtTop /\ Open("body", "method", name, Unqualified(receiver) \o Unqualified(name))

\* process_type_spec.
TypeSpec(name) ==
    /\ AtTop
    /\ \/ Scope("struct", "struct", name, Qualified(name), Segment("", name), {})
       \/ Scope("interface", "interface", name, Qualified(name), Segment("", name), {})
       \/ Leaf("type", name, Qualified(name))

\* process_type_alias.
TypeAlias(name) == AtTop /\ Leaf("type", name, Qualified(name))

\* process_struct_fields: a field refers to its type, from the struct; an
\* embedded one has its type's name, which the struct extends.
StructField(name, type) ==
    LET struct == CurrentParent
        refs(edges) == IF IsBuiltinType(type) THEN {}
                       ELSE {Ref(struct, type, e) : e \in edges}
    IN /\ In({"struct"})
       /\ \/ Declare("field", name, Qualified(name), chain, struct, refs({"has_type"}))
          \/ Declare("field", type, Qualified(type), chain, struct,
                     refs({"extends", "has_type"}))
       /\ Stay

\* process_interface_methods.
InterfaceMethod(name) ==
    In({"interface"}) /\ Open("body", "method", name, Qualified(name))

EmbeddedInterface(name) ==
    /\ In({"interface"})
    /\ ~IsBuiltinType(name)
    /\ Refer(CurrentParent, name, "extends")

\* process_const_or_var_spec.
ConstOrVarSpec(name) ==
    AtTop /\ \E kind \in {"constant", "variable"} : Leaf(kind, name, Qualified(name))

\* traverse_body_references and add_unresolved_ref.
BodyReference(name) ==
    \/ ~IsBuiltinFunc(name) /\ ReferInBody(name, "calls")
    \/ ~IsBuiltinType(name) /\ \E e \in {"instantiates", "has_type"} : ReferInBody(name, e)

Next ==
    \/ Leave
    \/ \E n \in Names :
          \/ PackageClause(n) \/ ImportSpec(n) \/ FunctionDeclaration(n) \/ TypeSpec(n)
          \/ TypeAlias(n) \/ InterfaceMethod(n) \/ EmbeddedInterface(n)
          \/ ConstOrVarSpec(n)
    \/ \E n \in Names, other \in Names \cup Builtins :
          MethodDeclaration(other, n) \/ StructField(n, other)
    \/ \E n \in Names \cup Builtins : BodyReference(n)
=============================================================================
