----------------------------- MODULE CSharpPack -----------------------------
(***************************************************************************)
(* repin-packs/src/csharp_pack.rs: the walk of a C# file. A file-scoped    *)
(* namespace stays open for the rest of the file. The members of an enum   *)
(* and the parameters of a primary constructor have the name of their type *)
(* alone for a container, wherever the type stands.                        *)
(***************************************************************************)
EXTENDS FactBuilder

CanHandle(extension) == extension = "cs"

IsBuiltinCSharpType(name) == name \in Builtins

Anywhere == AtTop \/ In({"namespace", "members"})

\* process_namespace of a block.
Namespace(name) ==
    /\ AtTop \/ In({"namespace"})
    /\ Scope("namespace", "namespace", name, Qualified(name), Segment("", name), {})

\* process_namespace without a block: the stacks are not popped.
FileScopedNamespace(name) ==
    /\ AtTop
    /\ Len(chain) < MaxDepth
    /\ Declare("namespace", name, Qualified(name), chain, CurrentParent, {})
    /\ chain' = Append(chain, Segment("", name))
    /\ parents' = Append(parents, MakeNode("namespace", chain, name))
    /\ UNCHANGED <<language, open>>

\* process_using_directive.
UsingDirective(name) ==
    (AtTop \/ In({"namespace"})) /\ Refer(CurrentParent, name, "imports")

\* process_type_declaration, the parameters of its primary constructor and
\* its body. Every base is extended, interfaces too.
TypeDeclaration(kind, name) ==
    LET id == MakeNode(kind, chain, name)
    IN /\ Anywhere
       /\ \E bases \in Seeks({"extends"}) :
             Declare(kind, name, Qualified(name), chain, CurrentParent, RefsOf(id, bases))
       /\ Enter("parameters", <<>>, <<>>, id)

PrimaryParameter(name) == In({"parameters"}) /\ Listed("field", name)
TypeBody == In({"parameters"}) /\ EnterBody("members")

\* process_enum_declaration and its members.
EnumDeclaration(name) == Anywhere /\ Open("enumerators", "enum", name, Qualified(name))
EnumMember(name) == In({"enumerators"}) /\ Listed("constant", name)

\* process_delegate_declaration.
DelegateDeclaration(name) == Anywhere /\ Leaf("type", name, Qualified(name))

\* process_constructor_declaration.
ConstructorDeclaration(name) ==
    In({"members"}) /\ Open("body", "constructor", name, Qualified(name))

\* process_destructor_declaration and process_method_declaration: a
\* destructor is a method whose name starts with a tilde.
MethodDeclaration(name) ==
    In({"members"}) /\ Open("body", "method", name, Qualified(name))

\* process_property_declaration.
PropertyDeclaration(name) == In({"members"}) /\ Leaf("property", name, Qualified(name))

\* process_field_declaration.
FieldDeclaration(name) ==
    In({"members"}) /\ \E kind \in {"constant", "field"} : Leaf(kind, name, Qualified(name))

\* traverse_body_references.
BodyReference(name) ==
    \/ ReferInBody(name, "calls")
    \/ ~IsBuiltinCSharpType(name)
       /\ \E e \in {"instantiates", "has_type"} : ReferInBody(name, e)

Next ==
    \/ Leave
    \/ TypeBody
    \/ \E n \in Names :
          \/ Namespace(n) \/ FileScopedNamespace(n) \/ UsingDirective(n)
          \/ \E kind \in {"class", "interface", "struct"} : TypeDeclaration(kind, n)
          \/ PrimaryParameter(n) \/ EnumDeclaration(n) \/ EnumMember(n)
          \/ DelegateDeclaration(n) \/ ConstructorDeclaration(n) \/ MethodDeclaration(n)
          \/ PropertyDeclaration(n) \/ FieldDeclaration(n)
    \/ \E n \in Names \cup Builtins : BodyReference(n)
=============================================================================
