------------------------------- MODULE TsPack -------------------------------
(***************************************************************************)
(* repin-packs/src/ts_pack.rs: the walk of a TypeScript or JavaScript      *)
(* file. Only a class_declaration is a scope: the methods of an abstract   *)
(* class or of an object are declared where the class or object stands.    *)
(***************************************************************************)
EXTENDS FactBuilder

CanHandle(extension) == extension = "ts"

Anywhere == AtTop \/ In({"class"})

FunctionDeclaration(name) == Anywhere /\ Leaf("function", name, Qualified(name))

ClassDeclaration(name) ==
    Anywhere /\ Scope("class", "class", name, Qualified(name), Segment("class", name), {})

InterfaceDeclaration(name) == Anywhere /\ Leaf("interface", name, Unqualified(name))
TypeAliasDeclaration(name) == Anywhere /\ Leaf("type", name, Unqualified(name))
EnumDeclaration(name) == Anywhere /\ Leaf("enum", name, Unqualified(name))
MethodDefinition(name) == Anywhere /\ Leaf("method", name, Qualified(name))

\* A variable with a function for its value; any other is passed over.
VariableDeclarator(name) == Anywhere /\ Leaf("function", name, Unqualified(name))

ImportStatement(name) == AtTop /\ Refer(CurrentParent, name, "imports")

Next ==
    \/ Leave
    \/ \E n \in Names :
          \/ FunctionDeclaration(n) \/ ClassDeclaration(n) \/ InterfaceDeclaration(n)
          \/ TypeAliasDeclaration(n) \/ EnumDeclaration(n) \/ MethodDefinition(n)
          \/ VariableDeclarator(n) \/ ImportStatement(n)
=============================================================================
