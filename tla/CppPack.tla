------------------------------ MODULE CppPack -------------------------------
(***************************************************************************)
(* repin-packs/src/cpp_pack.rs: the walk of a C++ file. Namespaces and     *)
(* classes are scopes; a template is what it declares. A declaration that  *)
(* defines or mentions a class or an enum is that type's specifier.        *)
(***************************************************************************)
EXTENDS FactBuilder

\* The pack also takes a header that looks like C++; the C pack, which is
\* asked before it, takes every header.
CanHandle(extension, looksLikeCpp) ==
    extension = "cpp" \/ (extension = "h" /\ looksLikeCpp)

IsBuiltinCppType(name) == name \in Builtins

Anywhere == AtTop \/ In({"namespace", "members"})

\* process_include and process_using_declaration.
Include(name) == AtTop /\ Refer(CurrentParent, name, "imports")
UsingDeclaration(name) == Anywhere /\ Refer(CurrentParent, name, "imports")

\* process_preproc_def and process_preproc_function_def.
PreprocDef(name) == Anywhere /\ Leaf("constant", name, Qualified(name))
PreprocFunctionDef(name) == Anywhere /\ Leaf("function", name, Qualified(name))

\* process_namespace.
Namespace(name) ==
    /\ AtTop \/ In({"namespace"})
    /\ Scope("namespace", "namespace", name, Qualified(name), Segment("", name), {})

\* process_class_or_struct, with a body or not.
ClassOrStruct(kind, name) ==
    /\ Anywhere
    /\ \/ \E bases \in Seeks({"extends"}) :
             Scope("members", kind, name, Qualified(name), Segment("", name), bases)
       \/ Leaf(kind, name, Qualified(name))

\* process_field_declaration: a member function declared here is one.
FieldDeclaration(name) ==
    In({"members"}) /\ \E kind \in {"field", "method"} : Leaf(kind, name, Qualified(name))

\* process_function_definition. A function of a namespace counts as a method,
\* and one named as the scope it is in as its constructor.
FunctionDefinition(name) ==
    LET kind == IF chain = <<>> THEN "function"
                ELSE IF InnermostLabel.name = name THEN "constructor"
                ELSE "method"
    IN Anywhere /\ Open("body", kind, name, Qualified(name))

\* process_function_definition of a name written with its class.
MemberDefinition(class, name) ==
    /\ AtTop \/ In({"namespace"})
    /\ Open("body", "method", name,
            IF chain = <<>> THEN Unqualified(class) \o Unqualified(name) ELSE Qualified(name))

\* process_alias_declaration and process_type_definition.
AliasDeclaration(name) == Anywhere /\ Leaf("type", name, Qualified(name))
TypeDefinition(name) == Anywhere /\ Leaf("type", name, Qualified(name))

\* process_enum_specifier and its enumerators.
EnumSpecifier(name) == Anywhere /\ Open("enumerators", "enum", name, Qualified(name))
Enumerator(name) == In({"enumerators"}) /\ Listed("constant", name)

\* process_declaration of variables.
Declaration(name) ==
    /\ AtTop \/ In({"namespace"})
    /\ \E kind \in {"constant", "variable"} : Leaf(kind, name, Qualified(name))

\* traverse_body_references.
BodyReference(name) ==
    \/ ReferInBody(name, "calls")
    \/ ~IsBuiltinCppType(name) /\ ReferInBody(name, "has_type")

Next ==
    \/ Leave
    \/ \E n \in Names :
          \/ Include(n) \/ UsingDeclaration(n) \/ PreprocDef(n) \/ PreprocFunctionDef(n)
          \/ Namespace(n) \/ FieldDeclaration(n) \/ FunctionDefinition(n)
          \/ AliasDeclaration(n) \/ TypeDefinition(n) \/ EnumSpecifier(n) \/ Enumerator(n)
          \/ Declaration(n)
          \/ \E kind \in {"class", "struct"} : ClassOrStruct(kind, n)
          \/ \E class \in Names : MemberDefinition(class, n)
    \/ \E n \in Names \cup Builtins : BodyReference(n)
=============================================================================
