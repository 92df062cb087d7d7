----------------------------- MODULE ProsePack ------------------------------
(***************************************************************************)
(* repin-packs/src/prose_pack.rs: the walk of a document. The section      *)
(* stack is the chain and the parents, and open holds the levels: a        *)
(* heading closes the sections of its level and below.                     *)
(***************************************************************************)
EXTENDS FactBuilder

Levels == 1 .. MaxDepth

CanHandle(extension) == extension = "md"

\* How many sections stay open under a heading of the level.
Above(level) == Cardinality({i \in 1 .. Len(open) : open[i].syntax < level})

\* The Heading and the Section of a heading, both in the enclosing section.
Heading(level, text) ==
    LET depth == Above(level)
        container == SubSeq(chain, 1, depth)
        parent == parents[depth + 1]
        heading == MakeNode("heading", container, text)
        section == MakeNode("section", container, text)
    IN /\ facts.claims + 2 + Cardinality(facts.unresolved) <= MaxFacts
       /\ tracker' = CountedOnce({<<"heading", container, text>>, <<"section", container, text>>})
       /\ facts' = [facts EXCEPT
              !.nodes = @ \cup {[id |-> heading, qualified |-> Unqualified(text)],
                                [id |-> section, qualified |-> Unqualified(text)]},
              !.edges = @ \cup {[from |-> parent, to |-> heading],
                                [from |-> parent, to |-> section]},
              !.claims = @ + 2]
       /\ chain' = container \o <<Segment("", text)>>
       /\ parents' = Append(SubSeq(parents, 1, depth + 1), section)
       /\ open' = Append(SubSeq(open, 1, depth),
                         [syntax |-> level, scopes |-> 1, ids |-> 1, from |-> section])
       /\ UNCHANGED language

\* A relative link, or one to a markdown file, found in a paragraph.
Link(name) == Refer(CurrentParent, name, "links_to")

Next == \E n \in Names : Link(n) \/ \E level \in Levels : Heading(level, n)
=============================================================================
