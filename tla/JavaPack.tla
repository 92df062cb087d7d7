------------------------------ MODULE JavaPack ------------------------------
(***************************************************************************)
(* repin-packs/src/java_pack.rs: the walk of a Java file. Every type is a  *)
(* scope; the constants of an enum and the components of a record have the *)
(* name of their type alone for a container, wherever the type stands.     *)
(***************************************************************************)
EXTENDS FactBuilder

CanHandle(extension) == extension = "java"

IsBuiltinJavaType(name) == name \in Builtins

Anywhere == AtTop \/ In({"members"})

\* process_package_declaration: a node beside the types and not around them.
PackageDeclaration(name) ==
    AtTop /\ facts.claims = 1 /\ Leaf("package", name, Unqualified(name))

\* process_import_declaration.
ImportDeclaration(name) == AtTop /\ Refer(CurrentParent, name, "imports")

\* process_class_declaration.
ClassDeclaration(name) ==
    Anywhere /\ \E seeks \in Seeks({"extends", "implements"}) :
        Scope("members", "class", name, Qualified(name), Segment("", name), seeks)

\* process_interface_declaration.
InterfaceDeclaration(name) ==
    Anywhere /\ \E seeks \in Seeks({"extends"}) :
        Scope("members", "interface", name, Qualified(name), Segment("", name), seeks)

\* process_enum_declaration and its constants.
EnumDeclaration(name) ==
    Anywhere /\ Scope("members", "enum", name, Qualified(name), Segment("", name), {})

EnumConstant(name) ==
    In({"members"}) /\ Innermost.from.kind = "enum" /\ Listed("constant", name)

\* process_record_declaration, its components and its body.
RecordDeclaration(name) ==
    Anywhere /\ Open("components", "struct", name, Qualified(name))

RecordComponent(name) == In({"components"}) /\ Listed("field", name)
RecordBody == In({"components"}) /\ EnterBody("members")

\* process_annotation_declaration.
AnnotationDeclaration(name) ==
    Anywhere
    /\ Scope("members", "interface", name, Qualified(name), Segment("", name), {})

\* process_constructor_declaration.
ConstructorDeclaration(name) ==
    In({"members"}) /\ Open("body", "constructor", name, Qualified(name))

\* process_method_declaration.
MethodDeclaration(name) ==
    In({"members"}) /\ Open("body", "method", name, Qualified(name))

\* process_field_declaration: static final fields are constants.
FieldDeclaration(name) ==
    In({"members"}) /\ \E kind \in {"constant", "field"} : Leaf(kind, name, Qualified(name))

\* traverse_body_references.
BodyReference(name) ==
    \/ ReferInBody(name, "calls")
    \/ ~IsBuiltinJavaType(name)
       /\ \E e \in {"instantiates", "has_type"} : ReferInBody(name, e)

Next ==
    \/ Leave
    \/ RecordBody
    \/ \E n \in Names :
          \/ PackageDeclaration(n) \/ ImportDeclaration(n) \/ ClassDeclaration(n)
          \/ InterfaceDeclaration(n) \/ EnumDeclaration(n) \/ EnumConstant(n)
          \/ RecordDeclaration(n) \/ RecordComponent(n) \/ AnnotationDeclaration(n)
          \/ ConstructorDeclaration(n) \/ MethodDeclaration(n) \/ FieldDeclaration(n)
    \/ \E n \in Names \cup Builtins : BodyReference(n)
=============================================================================
