------------------------------- MODULE CPack --------------------------------
(***************************************************************************)
(* repin-packs/src/c_pack.rs: the walk of a C file or of any header. A     *)
(* struct or union is a scope for its fields alone, and a mention of one   *)
(* in a declaration declares it again. The declarations and typedefs that  *)
(* define a type as they go are that type's specifier, followed for a      *)
(* typedef by the type's name.                                             *)
(***************************************************************************)
EXTENDS FactBuilder

CanHandle(extension) == extension \in {"c", "h"}

\* process_include.
Include(name) == AtTop /\ Refer(CurrentParent, name, "imports")

\* process_preproc_def and process_preproc_function_def.
PreprocDef(name) == AtTop /\ Leaf("constant", name, Qualified(name))
PreprocFunctionDef(name) == AtTop /\ Leaf("function", name, Qualified(name))

\* process_function_definition.
FunctionDefinition(name) == AtTop /\ Open("body", "function", name, Qualified(name))

\* process_declaration of variables.
Declaration(name) ==
    AtTop /\ \E kind \in {"constant", "variable"} : Leaf(kind, name, Qualified(name))

\* process_type_definition, after the specifier it may hold.
TypeDefinition(name) == AtTop /\ Leaf("type", name, Qualified(name))

\* process_struct_specifier and process_union_specifier, with a body or not.
StructSpecifier(name) ==
    /\ AtTop
    /\ \/ Scope("fields", "struct", name, Qualified(name), Segment("", name), {})
       \/ Leaf("struct", name, Qualified(name))

UnionSpecifier(name) == StructSpecifier(name)

\* process_field_declarations.
FieldDeclaration(name) == In({"fields"}) /\ Leaf("field", name, Qualified(name))

\* process_enum_specifier and its enumerators.
EnumSpecifier(name) == AtTop /\ Open("enumerators", "enum", name, Qualified(name))
Enumerator(name) == In({"enumerators"}) /\ Listed("constant", name)

\* traverse_body_references.
BodyReference(name) == \E e \in {"calls", "has_type"} : ReferInBody(name, e)

Next ==
    \/ Leave
    \/ \E n \in Names :
          \/ Include(n) \/ PreprocDef(n) \/ PreprocFunctionDef(n) \/ FunctionDefinition(n)
          \/ Declaration(n) \/ TypeDefinition(n) \/ StructSpecifier(n) \/ UnionSpecifier(n)
          \/ FieldDeclaration(n) \/ EnumSpecifier(n) \/ Enumerator(n) \/ BodyReference(n)
=============================================================================
