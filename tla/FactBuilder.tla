---------------------------- MODULE FactBuilder ----------------------------
(***************************************************************************)
(* What the language packs have in common                                  *)
(* (repin-packs/src/extractor_util.rs, repin-core/src/model/identity.rs).  *)
(*                                                                         *)
(* A pack walks the syntax tree of one file and keeps two stacks: the      *)
(* container chain, which goes into the ids of what it declares, and the   *)
(* ids of the nodes it is inside of. The text of the file is not modelled: *)
(* what the walk meets next is any syntax the grammar allows there, so     *)
(* that a behaviour is the walk of one file, and the behaviours are the    *)
(* walks of all files up to a number of declarations. A name written with  *)
(* "::" or "." counts as one name.                                         *)
(***************************************************************************)
EXTENDS Naturals, FiniteSets, Sequences

CONSTANTS
    Names,      \* identifiers
    Builtins,   \* names of the language's own types and functions
    MaxFacts,   \* bound: node claims and unresolved references of a file
    MaxDepth    \* bound: nesting of scopes

VARIABLES
    language,  \* name of the pack that extracts the file
    chain,     \* container_chain: the labels of the open scopes
    parents,   \* parent_id_stack
    open,      \* the syntax nodes whose children are being visited
    tracker,   \* DiscriminatorTracker: how often each key was asked for
    facts      \* ExtractedFacts, with the number of node claims pushed

vars == <<language, chain, parents, open, tracker, facts>>

Path == "path"

\* A label of the chain: what the pack puts before the name, such as "class "
\* in "class A", and the trait in "impl Trait for A".
Segment(word, name) == [word |-> word, trait |-> "", name |-> name]
ImplSegment(trait, type) == [word |-> "impl", trait |-> trait, name |-> type]

\* NodeId::new: a hash of these, the root and the path.
NodeId(kind, container, name, discriminator) ==
    [kind |-> kind, container |-> container, name |-> name,
     discriminator |-> discriminator]

\* DiscriminatorTracker::next_discriminator: what it returns, and the counts
\* after each of the keys was asked for once more.
Count(key) == IF key \in DOMAIN tracker THEN tracker[key] ELSE 0
NextDiscriminator(kind, container, name) == Count(<<kind, container, name>>)
CountedOnce(keys) ==
    [key \in DOMAIN tracker \cup keys |-> IF key \in keys THEN Count(key) + 1 ELSE tracker[key]]

\* Mutant of MakeNode: overloads are not told apart.
MakeNodeByName(kind, container, name) == NodeId(kind, container, name, 0)

\* FactBuilder::make_node.
MakeNode(kind, container, name) ==
    NodeId(kind, container, name, NextDiscriminator(kind, container, name))

Qualified(name) == chain \o <<Segment("", name)>>
Unqualified(name) == <<Segment("", name)>>

CurrentParent == parents[Len(parents)]
Innermost == open[Len(open)]
InnermostLabel == chain[Len(chain)]
Ref(from, seeking, edge) == [from |-> from, seeking |-> seeking, edge |-> edge]
RefsOf(id, seeks) == {Ref(id, s.seeking, s.edge) : s \in seeks}

\* make_node, nodes.push, make_edge(Contains), edges.push, and unresolved.push
\* for the references that come with the declaration.
Declare(kind, name, qualified, container, parent, refs) ==
    LET id == MakeNode(kind, container, name)
    IN /\ facts.claims + 1 + Cardinality(facts.unresolved \cup refs) <= MaxFacts
       /\ tracker' = CountedOnce({<<kind, container, name>>})
       /\ facts' = [nodes |-> facts.nodes \cup {[id |-> id, qualified |-> qualified]},
                    edges |-> facts.edges \cup {[from |-> parent, to |-> id]},
                    unresolved |-> facts.unresolved \cup refs,
                    claims |-> facts.claims + 1]

\* The walk visits the children of a syntax node. scope are the labels it adds
\* to the chain and inside the ids it puts on the stack, one or none each;
\* from is the node the references met in the children belong to.
Enter(syntax, scope, inside, from) ==
    /\ Len(open) < MaxDepth
    /\ chain' = chain \o scope
    /\ parents' = parents \o inside
    /\ open' = Append(open, [syntax |-> syntax, scopes |-> Len(scope),
                             ids |-> Len(inside), from |-> from])
    /\ UNCHANGED language

\* Mutant of Leave: the label of a scope stays on the chain.
LeaveKeepsLabel ==
    /\ open # <<>>
    /\ parents' = SubSeq(parents, 1, Len(parents) - Innermost.ids)
    /\ open' = SubSeq(open, 1, Len(open) - 1)
    /\ UNCHANGED <<language, chain, tracker, facts>>

\* The children are done; the stacks are popped.
Leave ==
    /\ open # <<>>
    /\ chain' = SubSeq(chain, 1, Len(chain) - Innermost.scopes)
    /\ parents' = SubSeq(parents, 1, Len(parents) - Innermost.ids)
    /\ open' = SubSeq(open, 1, Len(open) - 1)
    /\ UNCHANGED <<language, tracker, facts>>

Stay == UNCHANGED <<language, chain, parents, open>>

\* A declaration where the walk is, whose children are not visited.
Leaf(kind, name, qualified) ==
    Declare(kind, name, qualified, chain, CurrentParent, {}) /\ Stay

\* A declaration whose children are only listed or searched for references:
\* it is not put on the stacks.
Open(syntax, kind, name, qualified) ==
    /\ Declare(kind, name, qualified, chain, CurrentParent, {})
    /\ Enter(syntax, <<>>, <<>>, MakeNode(kind, chain, name))

\* A declaration that is a scope, and refers to what seeks says.
Scope(syntax, kind, name, qualified, label, seeks) ==
    LET id == MakeNode(kind, chain, name)
    IN /\ Declare(kind, name, qualified, chain, CurrentParent, RefsOf(id, seeks))
       /\ Enter(syntax, <<label>>, <<id>>, id)

\* After what is listed in an Open declaration comes its body, a scope.
EnterBody(syntax) ==
    LET owner == Innermost.from
    IN /\ chain' = Append(chain, Segment("", owner.name))
       /\ parents' = Append(parents, owner)
       /\ open' = Append(SubSeq(open, 1, Len(open) - 1),
                       [syntax |-> syntax, scopes |-> 1, ids |-> 1, from |-> owner])
       /\ UNCHANGED <<language, tracker, facts>>

\* A declaration listed in the one that is open, whose name alone is its container.
Listed(kind, name) ==
    LET owner == Innermost.from
        container == <<Segment("", owner.name)>>
    IN Declare(kind, name, container \o Unqualified(name), container, owner, {}) /\ Stay

\* unresolved.push; the store keeps one of equal references.
Refer(from, seeking, edge) ==
    LET refs == facts.unresolved \cup {Ref(from, seeking, edge)}
    IN /\ facts.claims + Cardinality(refs) <= MaxFacts
       /\ facts' = [facts EXCEPT !.unresolved = refs]
       /\ UNCHANGED <<language, chain, parents, open, tracker>>

\* A reference met in a body.
ReferInBody(seeking, edge) ==
    open # <<>> /\ Innermost.syntax = "body" /\ Refer(Innermost.from, seeking, edge)

AtTop == open = <<>>
In(syntax) == open # <<>> /\ Innermost.syntax \in syntax
Seek(name, edge) == [seeking |-> name, edge |-> edge]
Seeks(edges) == {{}} \cup {{Seek(n, e)} : n \in Names, e \in edges}

-----------------------------------------------------------------------------
Root(kind) == NodeId(kind, <<>>, Path, 0)

\* make_file_node; the prose pack makes its document with make_node.
Begin(pack) ==
    LET kind == IF pack = "prose_pack" THEN "document" ELSE "file"
    IN /\ language = pack
       /\ chain = <<>>
       /\ parents = <<Root(kind)>>
       /\ open = <<>>
       /\ tracker = [key \in (IF kind = "file" THEN {} ELSE {<<kind, <<>>, Path>>}) |-> 1]
       /\ facts = [nodes |-> {[id |-> Root(kind), qualified |-> Unqualified(Path)]},
                   edges |-> {}, unresolved |-> {}, claims |-> 1]
=============================================================================
