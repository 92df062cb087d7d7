-------------------------- MODULE ExtractionProofs --------------------------
(***************************************************************************)
(* Proofs about the extraction of a file of any size, by any pack.         *)
(*                                                                         *)
(* The packs differ in what they declare where, and share how: each step   *)
(* of one is a step of the walk below, by a lemma for each pack, and the   *)
(* invariants are ones of the walk.                                        *)
(***************************************************************************)
EXTENDS Extraction, FiniteSetTheorems, SequenceTheorems, TLAPS

-----------------------------------------------------------------------------
(* Identities.                                                             *)

\* The ids that the keys stand for when they are asked for next.
Named(keys) == {NodeId(key[1], key[2], key[3], Count(key)) : key \in keys}

\* A tracked key was given every number below its count, and no other; the
\* node of a file is the only one that was not asked for.
Numbered ==
    /\ IsFiniteSet(Ids) /\ Cardinality(Ids) = facts.claims
    /\ \A id \in Ids :
          /\ id = NodeId(id.kind, id.container, id.name, id.discriminator)
          /\ id.discriminator \in Nat
          /\ id = Root("file") \/ id.discriminator < NextDiscriminator(id.kind, id.container, id.name)
    /\ \A key \in DOMAIN tracker :
          /\ key[1] # "file" /\ tracker[key] \in Nat
          /\ \A d \in Nat : d < tracker[key] => NodeId(key[1], key[2], key[3], d) \in Ids

LEMMA Counts ==
    ASSUME Numbered
    PROVE  \A key : /\ Count(key) \in Nat
                    /\ \A d \in Nat : d < Count(key) => NodeId(key[1], key[2], key[3], d) \in Ids
BY DEF Numbered, Count

\* No id of a key that is asked for is taken.
LEMMA NamedAreNew ==
    ASSUME Numbered, NEW kind, kind # "file", NEW container, NEW name
    PROVE  NodeId(kind, container, name, NextDiscriminator(kind, container, name)) \notin Ids
<1> DEFINE n == NextDiscriminator(kind, container, name)
           id == NodeId(kind, container, name, n)
<1>1. n \in Nat
  BY Counts DEF NextDiscriminator
<1>2. /\ id.kind = kind /\ id.container = container /\ id.name = name /\ id.discriminator = n
      /\ id # Root("file")
  BY DEF NodeId, Root
<1> HIDE DEF n, id
<1>3. id \in Ids => n < n
  BY <1>2 DEF Numbered, n
<1> QED
  BY <1>1, <1>3 DEF id, n

\* Asking for keys that are not a file's, and claiming their ids.
LEMMA KeysAreNumbered ==
    ASSUME Numbered, NEW keys,
           \A key \in keys : key = <<key[1], key[2], key[3]>> /\ key[1] # "file",
           IsFiniteSet(Named(keys)),
           tracker' = CountedOnce(keys), Ids' = Ids \cup Named(keys),
           facts'.claims = facts.claims + Cardinality(Named(keys))
    PROVE  Numbered'
<1> DEFINE added == Named(keys)
<1>1. \A key \in keys : NodeId(key[1], key[2], key[3], Count(key)) \notin Ids
  <2> SUFFICES ASSUME NEW key \in keys
               PROVE  NodeId(key[1], key[2], key[3], Count(key)) \notin Ids
    OBVIOUS
  <2>1. Count(key) = NextDiscriminator(key[1], key[2], key[3])
    BY DEF NextDiscriminator
  <2> QED
    BY <2>1, NamedAreNew
<1>2. Ids \cap added = {}
  BY <1>1 DEF Named
<1>3. IsFiniteSet(Ids') /\ Cardinality(Ids') = facts'.claims
  <2>1. /\ IsFiniteSet(Ids \cup added)
        /\ Cardinality(Ids \cup added) = Cardinality(Ids) + Cardinality(added) - Cardinality(Ids \cap added)
    BY FS_Union DEF Numbered
  <2>2. Cardinality(Ids \cap added) = 0
    BY <1>2, FS_EmptySet
  <2>3. Cardinality(Ids) \in Nat /\ Cardinality(added) \in Nat
    BY FS_CardinalityType DEF Numbered
  <2> QED
    BY <2>1, <2>2, <2>3 DEF Numbered
<1>4. \A key : Count(key)' = IF key \in keys THEN Count(key) + 1 ELSE Count(key)
  <2> TAKE key
  <2>1. DOMAIN tracker' = DOMAIN tracker \cup keys
    BY DEF CountedOnce
  <2>2. key \in DOMAIN tracker' => tracker'[key] = IF key \in keys THEN Count(key) + 1 ELSE tracker[key]
    BY DEF CountedOnce
  <2>3. Count(key)' = IF key \in DOMAIN tracker' THEN tracker'[key] ELSE 0
    BY DEF Count
  <2> QED
    BY <2>1, <2>2, <2>3 DEF Count
<1>5. \A key : Count(key) \in Nat
  BY Counts
<1>6. ASSUME NEW id \in Ids'
      PROVE  /\ id = NodeId(id.kind, id.container, id.name, id.discriminator)
             /\ id.discriminator \in Nat
             /\ id = Root("file") \/ id.discriminator < Count(<<id.kind, id.container, id.name>>)'
  <2>1. CASE id \in Ids
    <3> DEFINE key == <<id.kind, id.container, id.name>>
    <3>1. /\ id = NodeId(id.kind, id.container, id.name, id.discriminator)
          /\ id.discriminator \in Nat
          /\ id = Root("file") \/ id.discriminator < Count(key)
      BY <2>1 DEF Numbered, NextDiscriminator
    <3>2. Count(key) \in Nat /\ Count(key)' \in {Count(key), Count(key) + 1}
      BY <1>4, <1>5
    <3> HIDE DEF key
    <3>3. id.discriminator < Count(key) => id.discriminator < Count(key)'
      BY <3>1, <3>2
    <3> QED
      BY <3>1, <3>3 DEF key
  <2>2. CASE id \in added
    <3>1. PICK key \in keys : id = NodeId(key[1], key[2], key[3], Count(key))
      BY <2>2 DEF Named
    <3>2. /\ id.kind = key[1] /\ id.container = key[2] /\ id.name = key[3] /\ id.discriminator = Count(key)
      BY <3>1 DEF NodeId
    <3>3. <<id.kind, id.container, id.name>> = key
      BY <3>2
    <3>4. Count(key)' = Count(key) + 1 /\ Count(key) \in Nat
      BY <1>4, <1>5
    <3> QED
      BY <3>1, <3>2, <3>3, <3>4
  <2> QED
    BY <2>1, <2>2
<1>7. ASSUME NEW key \in DOMAIN tracker'
      PROVE  /\ key[1] # "file" /\ tracker'[key] \in Nat
             /\ \A d \in Nat : d < tracker'[key] => NodeId(key[1], key[2], key[3], d) \in Ids'
  <2>1. key \in DOMAIN tracker \/ key \in keys
    BY DEF CountedOnce
  <2>2. key[1] # "file"
    BY <2>1 DEF Numbered
  <2>3. tracker'[key] = Count(key)'
    BY DEF Count
  <2>4. ASSUME NEW d \in Nat, d < Count(key)'
        PROVE  NodeId(key[1], key[2], key[3], d) \in Ids'
    <3>1. CASE d < Count(key)
      BY <3>1, Counts
    <3>2. CASE ~ (d < Count(key))
      <4>1. key \in keys /\ d = Count(key)
        BY <1>4, <1>5, <2>4, <3>2
      <4> QED
        BY <4>1 DEF Named
    <3> QED
      BY <3>1, <3>2
  <2>5. Count(key)' \in Nat
    BY <1>4, <1>5
  <2> QED
    BY <2>2, <2>3, <2>4, <2>5
<1> QED
  BY <1>3, <1>6, <1>7 DEF Numbered, NextDiscriminator

-----------------------------------------------------------------------------
(* The walk that the packs have in common.                                 *)

RootKinds == {"file", "document"}
Kinds == {"package", "module", "namespace", "class", "struct", "interface", "trait", "enum", "type",
          "function", "method", "constructor", "property", "field", "constant", "variable",
          "heading", "section"}
Given == Names \cup Builtins \cup {Path}
Words == {"", "trait", "fn", "class"}

\* Syntax whose declarations do not nest, and syntax that they are listed in.
Lists == {"body", "enumerators", "parameters", "components"}
Bodies == {"trait", "mod", "class", "fn", "struct", "interface", "fields", "members", "namespace"}

AreFacts(f) == f = [nodes |-> f.nodes, edges |-> f.edges, unresolved |-> f.unresolved, claims |-> f.claims]

\* A declaration, with any qualified name and references.
Makes(kind, name, container, parent) ==
    LET id == MakeNode(kind, container, name)
    IN /\ kind \in Kinds /\ name \in Given
       /\ tracker' = CountedOnce({<<kind, container, name>>})
       /\ Ids' = Ids \cup {id}
       /\ facts'.edges = facts.edges \cup {[from |-> parent, to |-> id]}
       /\ facts'.claims = facts.claims + 1 /\ AreFacts(facts')

\* What a pack may do but declare: the facts get references only.
Refers ==
    /\ UNCHANGED <<language, chain, parents, open, tracker>>
    /\ facts'.nodes = facts.nodes /\ facts'.edges = facts.edges /\ facts'.claims = facts.claims
    /\ AreFacts(facts')

\* The walk is in a scope, or in none.
Plain == open = <<>> \/ Innermost.ids = 1

MakesLeaf == \E kind, name : Makes(kind, name, chain, CurrentParent) /\ Stay

MakesList ==
    \E kind, name : \E syntax \in Lists :
        /\ Plain /\ language \notin {"py_pack", "prose_pack"}
        /\ syntax = "enumerators" => kind = "enum"
        /\ Makes(kind, name, chain, CurrentParent)
        /\ Enter(syntax, <<>>, <<>>, MakeNode(kind, chain, name))

MakesScope ==
    \E kind, name : \E word \in Words, syntax \in Bodies :
        /\ Plain
        /\ Makes(kind, name, chain, CurrentParent)
        /\ Enter(syntax, <<Segment(word, name)>>, <<MakeNode(kind, chain, name)>>, MakeNode(kind, chain, name))

EntersImpl ==
    \E trait \in Names \cup {""}, type \in Names :
        /\ Plain /\ language = "rust_pack"
        /\ Enter("impl", <<ImplSegment(trait, type)>>, <<>>, CurrentParent)
        /\ UNCHANGED <<tracker, facts>>

MakesListed ==
    \E kind, name :
        /\ open # <<>>
        /\ \/ Innermost.from.kind = "enum" /\ kind = "constant"
           \/ language \in {"java_pack", "csharp_pack"} /\ kind = "field"
        /\ Makes(kind, name, <<Segment("", Innermost.from.name)>>, Innermost.from)
        /\ Stay

EntersBody ==
    language \in {"java_pack", "csharp_pack"} /\ In({"parameters", "components"}) /\ EnterBody("members")

MakesNamespace ==
    \E name :
        /\ open = <<>>
        /\ Makes("namespace", name, chain, CurrentParent)
        /\ chain' = Append(chain, Segment("", name))
        /\ parents' = Append(parents, MakeNode("namespace", chain, name))
        /\ UNCHANGED <<language, open>>

\* What a heading of a document declares: both in the section that stays open.
MakesSection ==
    \E level, text : \E depth \in 0 .. Len(open) :
        LET container == SubSeq(chain, 1, depth)
            parent == parents[depth + 1]
            heading == MakeNode("heading", container, text)
            section == MakeNode("section", container, text)
        IN /\ language = "prose_pack" /\ text \in Given /\ level \in Nat
           /\ tracker' = CountedOnce({<<"heading", container, text>>, <<"section", container, text>>})
           /\ Ids' = Ids \cup {heading, section}
           /\ facts'.edges = facts.edges \cup {[from |-> parent, to |-> heading], [from |-> parent, to |-> section]}
           /\ facts'.claims = facts.claims + 2 /\ AreFacts(facts')
           /\ chain' = Append(container, Segment("", text))
           /\ parents' = Append(SubSeq(parents, 1, depth + 1), section)
           /\ open' = Append(SubSeq(open, 1, depth), [syntax |-> level, scopes |-> 1, ids |-> 1, from |-> section])
           /\ UNCHANGED language

Walks ==
    \/ Leave \/ Refers \/ MakesLeaf \/ MakesList \/ MakesScope \/ EntersImpl \/ MakesListed
    \/ EntersBody \/ MakesNamespace \/ MakesSection

\* What is open: only what its syntax says may be no scope.
Opened ==
    /\ language # "prose_pack" => \A i \in DOMAIN open :
          /\ open[i].ids = 1 \/ open[i].syntax \in Lists \cup {"impl"}
          /\ open[i].syntax \in Lists => open[i].scopes = 0 /\ open[i].ids = 0
          /\ open[i].syntax = "enumerators" => open[i].from.kind = "enum"
    /\ language \in {"py_pack", "prose_pack"} => \A i \in DOMAIN open : open[i].ids = 1

-----------------------------------------------------------------------------
(* Chains and parents.                                                     *)

Labels == [word : Words \cup {"impl"}, trait : Names \cup {""}, name : Given]
NodeIds == [kind : Kinds \cup RootKinds, container : Seq(Labels), name : Given, discriminator : Nat]
Entries == [syntax : Lists \cup Bodies \cup {"impl"} \cup Nat, scopes : {0, 1}, ids : {0, 1}, from : NodeIds]

\* After the root, each parent has a label of the chain: it was declared under
\* the labels before it.
Under(c, p) ==
    \A k \in 1 .. Len(p) - 1 :
        /\ p[k + 1] \notin Roots /\ p[k + 1].container = SubSeq(c, 1, k - 1)
        /\ c[k].name = p[k + 1].name /\ c[k].word # "impl"

LEMMA Cut ==
    ASSUME NEW c \in Seq(Labels), NEW n \in 0 .. Len(c)
    PROVE  /\ SubSeq(c, 1, n) \in Seq(Labels) /\ Len(SubSeq(c, 1, n)) = n
           /\ \A i \in 1 .. n : SubSeq(c, 1, n)[i] = c[i]
           /\ \A m \in 0 .. n : SubSeq(SubSeq(c, 1, n), 1, m) = SubSeq(c, 1, m)
           /\ n = Len(c) => SubSeq(c, 1, n) = c
<1>1. /\ SubSeq(c, 1, n) \in Seq(Labels) /\ Len(SubSeq(c, 1, n)) = n
      /\ \A i \in 1 .. n : SubSeq(c, 1, n)[i] = c[i]
  OBVIOUS
<1>2. ASSUME NEW m \in 0 .. n
      PROVE  SubSeq(SubSeq(c, 1, n), 1, m) = SubSeq(c, 1, m)
  <2> DEFINE d == SubSeq(c, 1, n)
  <2>1. SubSeq(d, 1, m) \in Seq(Labels) /\ Len(SubSeq(d, 1, m)) = m /\ \A i \in 1 .. m : SubSeq(d, 1, m)[i] = d[i]
    <3>1. d \in Seq(Labels) /\ Len(d) = n
      BY <1>1
    <3> HIDE DEF d
    <3> QED
      BY <3>1
  <2>2. SubSeq(c, 1, m) \in Seq(Labels) /\ Len(SubSeq(c, 1, m)) = m /\ \A i \in 1 .. m : SubSeq(c, 1, m)[i] = c[i]
    OBVIOUS
  <2>3. \A i \in 1 .. m : d[i] = c[i]
    BY <1>1
  <2> HIDE DEF d
  <2>4. Len(SubSeq(d, 1, m)) = Len(SubSeq(c, 1, m)) /\ \A i \in 1 .. Len(SubSeq(d, 1, m)) : SubSeq(d, 1, m)[i] = SubSeq(c, 1, m)[i]
    BY <2>1, <2>2, <2>3
  <2>5. SubSeq(d, 1, m) = SubSeq(c, 1, m)
    BY <2>1, <2>2, <2>4, SeqEqual
  <2> QED
    BY <2>5 DEF d
<1>3. n = Len(c) => SubSeq(c, 1, n) = c
  BY <1>1, SeqEqual
<1> QED
  BY <1>1, <1>2, <1>3

LEMMA CutOfLonger ==
    ASSUME NEW c \in Seq(Labels), NEW label \in Labels, NEW m \in 0 .. Len(c)
    PROVE  SubSeq(Append(c, label), 1, m) = SubSeq(c, 1, m)
<1> DEFINE d == Append(c, label)
<1>1. d \in Seq(Labels) /\ Len(d) = Len(c) + 1 /\ \A i \in 1 .. Len(c) : d[i] = c[i]
  OBVIOUS
<1> HIDE DEF d
<1>2. m \in 0 .. Len(d)
  BY <1>1
<1>3. SubSeq(d, 1, m) \in Seq(Labels) /\ Len(SubSeq(d, 1, m)) = m /\ \A i \in 1 .. m : SubSeq(d, 1, m)[i] = d[i]
  BY <1>1, <1>2, Cut
<1>4. SubSeq(c, 1, m) \in Seq(Labels) /\ Len(SubSeq(c, 1, m)) = m /\ \A i \in 1 .. m : SubSeq(c, 1, m)[i] = c[i]
  BY Cut
<1>5. \A i \in 1 .. m : i \in 1 .. Len(c)
  OBVIOUS
<1>6. SubSeq(d, 1, m) = SubSeq(c, 1, m)
  BY <1>1, <1>3, <1>4, <1>5, SeqEqual
<1> QED
  BY <1>6 DEF d

LEMMA CutParents ==
    ASSUME NEW p \in Seq(NodeIds), NEW n \in 0 .. Len(p)
    PROVE  /\ SubSeq(p, 1, n) \in Seq(NodeIds) /\ Len(SubSeq(p, 1, n)) = n
           /\ \A i \in 1 .. n : SubSeq(p, 1, n)[i] = p[i]
           /\ n = Len(p) => SubSeq(p, 1, n) = p
<1>1. /\ SubSeq(p, 1, n) \in Seq(NodeIds) /\ Len(SubSeq(p, 1, n)) = n
      /\ \A i \in 1 .. n : SubSeq(p, 1, n)[i] = p[i]
  OBVIOUS
<1>2. n = Len(p) => SubSeq(p, 1, n) = p
  BY <1>1, SeqEqual
<1> QED
  BY <1>1, <1>2

LEMMA UnderLess ==
    ASSUME NEW c \in Seq(Labels), NEW p \in Seq(NodeIds), Under(c, p),
           NEW n \in 1 .. Len(p), NEW m \in 0 .. Len(c), n - 1 <= m
    PROVE  Under(SubSeq(c, 1, m), SubSeq(p, 1, n))
<1> DEFINE d == SubSeq(c, 1, m)
           q == SubSeq(p, 1, n)
<1>1. Len(q) = n /\ \A i \in 1 .. n : q[i] = p[i]
  BY CutParents
<1>2. (\A i \in 1 .. m : d[i] = c[i]) /\ \A k \in 0 .. m : SubSeq(d, 1, k) = SubSeq(c, 1, k)
  BY Cut
<1> SUFFICES ASSUME NEW k \in 1 .. Len(q) - 1
             PROVE  /\ q[k + 1] \notin Roots /\ q[k + 1].container = SubSeq(d, 1, k - 1)
                    /\ d[k].name = q[k + 1].name /\ d[k].word # "impl"
  BY DEF Under
<1> HIDE DEF d, q
<1>3. k \in 1 .. Len(p) - 1 /\ k + 1 \in 1 .. n /\ k \in 1 .. m /\ k - 1 \in 0 .. m
  BY <1>1
<1> QED
  BY <1>1, <1>2, <1>3 DEF Under

LEMMA UnderMore ==
    ASSUME NEW c \in Seq(Labels), NEW p \in Seq(NodeIds), Under(c, p), p # <<>>, Len(c) = Len(p) - 1,
           NEW label \in Labels
    PROVE  /\ Under(Append(c, label), p)
           /\ \A id \in NodeIds : id \notin Roots /\ id.container = c /\ id.name = label.name /\ label.word # "impl"
                                    => Under(Append(c, label), Append(p, id))
<1> DEFINE d == Append(c, label)
<1>1. /\ \A i \in 1 .. Len(c) : d[i] = c[i]
      /\ d[Len(c) + 1] = label
  OBVIOUS
<1>2. \A k \in 0 .. Len(c) : SubSeq(d, 1, k) = SubSeq(c, 1, k)
  BY CutOfLonger
<1>3. SubSeq(c, 1, Len(c)) = c
  BY Cut
<1> HIDE DEF d
<1>4. \A k \in 1 .. Len(p) - 1 : k \in 1 .. Len(c) /\ k - 1 \in 0 .. Len(c)
  OBVIOUS
<1>5. Under(d, p)
  BY <1>1, <1>2, <1>4 DEF Under
<1>6. ASSUME NEW id \in NodeIds, id \notin Roots, id.container = c, id.name = label.name, label.word # "impl"
      PROVE  Under(d, Append(p, id))
  <2> DEFINE q == Append(p, id)
  <2>1. Len(q) = Len(p) + 1 /\ (\A i \in 1 .. Len(p) : q[i] = p[i]) /\ q[Len(p) + 1] = id
    OBVIOUS
  <2> SUFFICES ASSUME NEW k \in 1 .. Len(q) - 1
               PROVE  /\ q[k + 1] \notin Roots /\ q[k + 1].container = SubSeq(d, 1, k - 1)
                      /\ d[k].name = q[k + 1].name /\ d[k].word # "impl"
    BY DEF Under
  <2> HIDE DEF q
  <2>2. CASE k = Len(p)
    <3>1. k + 1 = Len(p) + 1 /\ k = Len(c) + 1 /\ k - 1 = Len(c) /\ Len(c) \in 0 .. Len(c)
      BY <2>2
    <3> QED
      BY <1>1, <1>2, <1>3, <1>6, <2>1, <3>1
  <2>3. CASE k # Len(p)
    <3>1. k \in 1 .. Len(p) - 1 /\ k + 1 \in 1 .. Len(p)
      BY <2>1, <2>3
    <3> QED
      BY <1>5, <2>1, <3>1 DEF Under
  <2> QED
    BY <2>2, <2>3
<1> QED
  BY <1>5, <1>6 DEF d

\* What the last parent holds has the chain of what stands in it.
LEMMA UnderIsIn ==
    ASSUME NEW c \in Seq(Labels), NEW p \in Seq(NodeIds), Under(c, p), p # <<>>, p[1] \in Roots,
           \/ Len(c) = Len(p) - 1
           \/ Len(c) = Len(p) /\ c[Len(c)].word = "impl"
    PROVE  IsChainIn(p[Len(p)], c)
<1> DEFINE n == Len(p)
           owner == p[n]
           depth == n - 1
<1>1. n \in Nat /\ n >= 1 /\ Len(c) \in Nat
  OBVIOUS
<1>2. Len(c) = n - 1 \/ (Len(c) = n /\ c[n].word = "impl")
  OBVIOUS
<1>3. \A k \in 1 .. n - 1 : /\ p[k + 1] \notin Roots /\ p[k + 1].container = SubSeq(c, 1, k - 1)
                           /\ c[k].name = p[k + 1].name /\ c[k].word # "impl"
  BY DEF Under
<1>4. \A k \in 0 .. Len(c) : Len(SubSeq(c, 1, k)) = k
  BY Cut
<1> HIDE DEF n
<1>5. \A i \in n .. Len(c) : c[i].word = "impl"
  <2>1. ASSUME NEW i \in n .. Len(c)
        PROVE  i = n /\ Len(c) = n
    BY <1>1, <1>2
  <2> QED
    BY <1>1, <1>2, <2>1
<1>6. CASE n = 1
  <2>1. owner \in Roots
    BY <1>6
  <2>2. 0 <= Len(c) /\ \A i \in 0 + 1 .. Len(c) : c[i].word = "impl"
    BY <1>1, <1>5, <1>6
  <2> QED
    BY <2>1, <2>2 DEF IsChainIn, n
<1>7. CASE n # 1
  <2>1. depth \in 1 .. n - 1 /\ depth + 1 = n /\ depth - 1 \in 0 .. Len(c) /\ depth <= Len(c)
    BY <1>1, <1>2, <1>7
  <2>2. /\ owner \notin Roots /\ owner.container = SubSeq(c, 1, depth - 1)
        /\ c[depth].name = owner.name /\ c[depth].word # "impl"
    <3> HIDE DEF depth
    <3> QED
      BY <1>3, <2>1
  <2>3. Len(owner.container) + 1 = depth
    <3>1. Len(SubSeq(c, 1, depth - 1)) = depth - 1
      BY <1>4, <2>1
    <3> HIDE DEF depth, owner
    <3> QED
      BY <1>1, <2>1, <2>2, <3>1
  <2>4. \A i \in depth + 1 .. Len(c) : c[i].word = "impl"
    BY <1>5, <2>1
  <2>5. IsChainIn(owner, c)
    <3> HIDE DEF owner, depth
    <3> QED
      BY <2>1, <2>2, <2>3, <2>4 DEF IsChainIn
  <2> QED
    BY <2>5 DEF n
<1> QED
  BY <1>6, <1>7

-----------------------------------------------------------------------------
(* The stacks, and what is declared with them.                             *)

\* What is open but the last is a scope, and so the last unless it is a list or
\* an impl: each scope has a label of the chain and a parent, after the root.
Stacked ==
    /\ chain \in Seq(Labels) /\ parents \in Seq(NodeIds) /\ open \in Seq(Entries)
    /\ parents # <<>> /\ parents[1] \in Roots /\ Under(chain, parents)
    /\ \A i \in 1 .. Len(open) : open[i].ids = 1 => open[i].scopes = 1
    /\ \A i \in 1 .. Len(open) : i < Len(open) => open[i].ids = 1
    /\ Plain => Len(chain) = Len(parents) - 1 /\ Len(open) <= Len(chain)
    /\ ~Plain => Len(open) <= Len(parents)
    /\ ~Plain /\ Innermost.scopes = 1 => Len(chain) = Len(parents) /\ chain[Len(chain)].word = "impl"
    /\ ~Plain /\ Innermost.scopes = 0 =>
          Len(chain) = Len(parents) - 1 /\ Innermost.from \notin Roots /\ Innermost.from.container = chain

\* Of an impl for a type itself.
NoTrait == ""

WalkInv == Numbered /\ AreFacts(facts) /\ Opened /\ Stacked /\ ChainsNameTheContainers

LEMMA MadeNode ==
    ASSUME Numbered, NEW kind \in Kinds, NEW name \in Given, NEW container \in Seq(Labels)
    PROVE  LET id == MakeNode(kind, container, name)
           IN /\ id \in NodeIds /\ id \notin Roots
              /\ id.kind = kind /\ id.container = container /\ id.name = name
<1> DEFINE n == NextDiscriminator(kind, container, name)
<1>1. n \in Nat
  BY Counts DEF NextDiscriminator
<1>2. kind \notin {"file", "document"}
  BY DEF Kinds
<1> HIDE DEF n
<1>3. MakeNode(kind, container, name) = [kind |-> kind, container |-> container, name |-> name, discriminator |-> n]
  BY DEF MakeNode, NodeId, n
<1> QED
  BY <1>1, <1>2, <1>3 DEF NodeIds, Roots, Root, NodeId

LEMMA MakesNumbers ==
    ASSUME Numbered, NEW kind, NEW name, NEW container, NEW parent, Makes(kind, name, container, parent)
    PROVE  Numbered'
<1> DEFINE key == <<kind, container, name>>
           id == MakeNode(kind, container, name)
<1>1. key[1] = kind /\ key[2] = container /\ key[3] = name
  OBVIOUS
<1>2. id = NodeId(key[1], key[2], key[3], Count(key))
  BY DEF MakeNode, NextDiscriminator
<1>3. kind # "file"
  BY DEF Makes, Kinds
<1>4. tracker' = CountedOnce({key}) /\ Ids' = Ids \cup {id} /\ facts'.claims = facts.claims + 1
  BY DEF Makes
<1>5. key = <<key[1], key[2], key[3]>>
  OBVIOUS
<1> HIDE DEF key, id
<1>6. Named({key}) = {id}
  BY <1>2 DEF Named
<1>7. IsFiniteSet({id}) /\ Cardinality({id}) = 1
  BY FS_Singleton
<1> QED
  BY <1>1, <1>3, <1>4, <1>5, <1>6, <1>7, KeysAreNumbered

\* The chain of what is listed in an owner.
NameAlone(owner) == <<Segment("", owner.name)>>

\* Declarations whose chains name what they are in.
LEMMA MadeAreIn ==
    ASSUME ChainsNameTheContainers, UNCHANGED language, NEW made, NEW parent,
           Ids' = Ids \cup made, facts'.edges = facts.edges \cup {[from |-> parent, to |-> id] : id \in made},
           \A id \in made : \/ IsChainIn(parent, id.container)
                            \/ IsListed(id, parent) /\ id.container = NameAlone(parent)
    PROVE  ChainsNameTheContainers'
<1>1. ASSUME NEW id \in Ids', id \notin Roots
      PROVE  \E e \in facts'.edges : e.to = id
  <2>1. CASE id \in Ids
    BY <1>1, <2>1 DEF ChainsNameTheContainers
  <2>2. CASE id \in made
    <3>1. [from |-> parent, to |-> id] \in facts'.edges
      BY <2>2
    <3> QED
      BY <3>1
  <2> QED
    BY <2>1, <2>2
<1>2. ASSUME NEW e \in facts'.edges
      PROVE  \/ IsChainIn(e.from, e.to.container)
             \/ IsListed(e.to, e.from)' /\ e.to.container = NameAlone(e.from)
  <2>1. \A id, owner : IsListed(id, owner)' <=> IsListed(id, owner)
    BY DEF IsListed
  <2>2. CASE e \in facts.edges
    BY <2>1, <2>2, Zenon DEF ChainsNameTheContainers, NameAlone
  <2>3. CASE e \notin facts.edges
    <3>1. PICK id \in made : e = [from |-> parent, to |-> id]
      BY <2>3
    <3>2. e.from = parent /\ e.to = id
      BY <3>1
    <3> QED
      BY <2>1, <3>2
  <2> QED
    BY <2>2, <2>3
<1> QED
  BY <1>1, <1>2, Zenon DEF ChainsNameTheContainers, NameAlone

LEMMA NothingMade ==
    ASSUME WalkInv, UNCHANGED language, facts'.nodes = facts.nodes, facts'.edges = facts.edges,
           facts'.claims = facts.claims, tracker' = tracker
    PROVE  Numbered' /\ ChainsNameTheContainers'
<1>1. Ids' = Ids
  BY DEF Ids
<1>2. Numbered'
  BY <1>1 DEF WalkInv, Numbered, NextDiscriminator, Count
<1>3. \A id, owner : IsListed(id, owner)' <=> IsListed(id, owner)
  BY DEF IsListed
<1>4. ChainsNameTheContainers'
  BY <1>1, <1>3 DEF WalkInv, ChainsNameTheContainers
<1> QED
  BY <1>2, <1>4

\* A declaration where the walk is.
LEMMA MadeHere ==
    ASSUME WalkInv, UNCHANGED language, NEW kind, NEW name, Makes(kind, name, chain, CurrentParent)
    PROVE  Numbered' /\ ChainsNameTheContainers'
<1> DEFINE id == MakeNode(kind, chain, name)
<1>1. Numbered /\ Stacked /\ ChainsNameTheContainers
  BY DEF WalkInv
<1>2. kind \in Kinds /\ name \in Given /\ chain \in Seq(Labels)
  BY <1>1 DEF Makes, Stacked
<1>3. id.container = chain
  BY <1>1, <1>2, MadeNode
<1>4. CurrentParent = parents[Len(parents)]
  BY DEF CurrentParent
<1>5. IsChainIn(CurrentParent, chain)
  <2>1. \/ Len(chain) = Len(parents) - 1
        \/ Len(chain) = Len(parents) /\ chain[Len(chain)].word = "impl"
    <3>1. CASE Plain
      BY <1>1, <3>1 DEF Stacked
    <3>2. CASE ~Plain
      <4>1. Innermost \in Entries
        BY <1>1, <3>2 DEF Stacked, Plain, Innermost
      <4>2. Innermost.scopes \in {0, 1}
        BY <4>1 DEF Entries
      <4> QED
        BY <1>1, <3>2, <4>2 DEF Stacked
    <3> QED
      BY <3>1, <3>2
  <2> QED
    BY <1>1, <1>4, <2>1, UnderIsIn DEF Stacked
<1>6. Ids' = Ids \cup {id} /\ facts'.edges = facts.edges \cup {[from |-> CurrentParent, to |-> x] : x \in {id}}
  <2>1. Ids' = Ids \cup {id} /\ facts'.edges = facts.edges \cup {[from |-> CurrentParent, to |-> id]}
    BY DEF Makes
  <2> HIDE DEF id
  <2> QED
    BY <2>1
<1> HIDE DEF id
<1>7. \A x \in {id} : IsChainIn(CurrentParent, x.container)
  BY <1>3, <1>5
<1>8. ChainsNameTheContainers'
  BY <1>1, <1>6, <1>7, MadeAreIn, ZenonT(40)
<1> QED
  BY <1>1, <1>8, MakesNumbers

LEMMA StacksStay ==
    ASSUME Opened, Stacked, UNCHANGED <<language, chain, parents, open>>
    PROVE  Opened' /\ Stacked'
<1>1. Plain' <=> Plain
  BY DEF Plain, Innermost
<1>2. Innermost' = Innermost
  BY DEF Innermost
<1> QED
  BY <1>1, <1>2 DEF Opened, Stacked

\* The children are done.
LEMMA LeaveUnstacks ==
    ASSUME Opened, Stacked, Leave
    PROVE  Opened' /\ Stacked'
<1> DEFINE n == Len(open)
           last == open[n]
<1>1. /\ open \in Seq(Entries) /\ n \in Nat /\ n >= 1 /\ open # <<>>
      /\ chain \in Seq(Labels) /\ parents \in Seq(NodeIds) /\ parents # <<>>
  BY DEF Stacked, Leave
<1>2. last \in Entries /\ Innermost = last
  BY <1>1 DEF Innermost
<1>3. /\ open' = SubSeq(open, 1, n - 1) /\ language' = language
      /\ chain' = SubSeq(chain, 1, Len(chain) - last.scopes)
      /\ parents' = SubSeq(parents, 1, Len(parents) - last.ids)
  BY <1>2 DEF Leave, Innermost
<1>4. open' \in Seq(Entries) /\ Len(open') = n - 1 /\ \A i \in 1 .. n - 1 : open'[i] = open[i]
  <2> HIDE DEF n
  <2>1. n = Len(open)
    BY DEF n
  <2> QED
    BY <1>1, <1>3, <2>1
<1>5. \A i \in 1 .. n - 1 : open[i].ids = 1
  BY DEF Stacked
<1>6. Plain'
  <2>1. open' = <<>> \/ (n - 1 \in 1 .. n - 1 /\ open'[Len(open')] = open'[n - 1])
    <3> HIDE DEF n
    <3> QED
      BY <1>1, <1>4
  <2> QED
    BY <1>4, <1>5, <2>1 DEF Plain, Innermost
<1>7. Opened'
  <2>1. \A i \in DOMAIN open' : i \in DOMAIN open /\ open'[i] = open[i]
    <3> HIDE DEF n
    <3>1. n = Len(open)
      BY DEF n
    <3> QED
      BY <1>1, <1>4, <3>1
  <2> QED
    BY <1>3, <2>1 DEF Opened
<1>8. last.ids \in {0, 1} /\ last.scopes \in {0, 1} /\ (last.ids = 1 => last.scopes = 1) /\ (Plain <=> last.ids = 1)
  BY <1>1, <1>2 DEF Entries, Stacked, Plain
<1> DEFINE m == Len(chain) - last.scopes
           k == Len(parents) - last.ids
<1>9. /\ m \in 0 .. Len(chain) /\ k \in 1 .. Len(parents) /\ m = k - 1 /\ n - 1 <= m
  <2>1. Len(chain) \in Nat /\ Len(parents) \in Nat /\ Len(parents) >= 1
    BY <1>1
  <2>2. CASE last.ids = 1
    BY <1>1, <1>8, <2>1, <2>2 DEF Stacked
  <2>3. CASE last.ids = 0 /\ last.scopes = 1
    BY <1>1, <1>2, <1>8, <2>1, <2>3 DEF Stacked
  <2>4. CASE last.ids = 0 /\ last.scopes = 0
    BY <1>1, <1>2, <1>8, <2>1, <2>4 DEF Stacked
  <2> QED
    BY <1>8, <2>2, <2>3, <2>4
<1>10. chain' = SubSeq(chain, 1, m) /\ parents' = SubSeq(parents, 1, k)
  BY <1>3
<1> HIDE DEF m, k, n, last
<1>11. chain' \in Seq(Labels) /\ Len(chain') = m
  BY <1>1, <1>9, <1>10, Cut
<1>12. parents' \in Seq(NodeIds) /\ Len(parents') = k /\ parents'[1] = parents[1]
  BY <1>1, <1>9, <1>10, CutParents
<1>13. Under(chain', parents')
  BY <1>1, <1>9, <1>10, UnderLess DEF Stacked
<1>14. parents' # <<>> /\ parents'[1] \in Roots
  BY <1>9, <1>12 DEF Stacked
<1>15. \A i \in 1 .. Len(open') : open'[i].ids = 1 /\ open'[i].scopes = 1
  <2>1. \A i \in 1 .. n - 1 : i \in 1 .. Len(open)
    BY <1>1 DEF n
  <2> QED
    BY <1>4, <1>5, <2>1 DEF Stacked
<1>16. Len(chain') = Len(parents') - 1 /\ Len(open') <= Len(chain')
  BY <1>4, <1>9, <1>11, <1>12
<1> QED
  BY <1>4, <1>6, <1>7, <1>11, <1>12, <1>13, <1>14, <1>15, <1>16 DEF Stacked

\* A scope is entered, where the walk is in one.
LEMMA ScopeStacks ==
    ASSUME Stacked, Plain, NEW id \in NodeIds, id \notin Roots, id.container = chain,
           NEW label \in Labels, label.name = id.name, label.word # "impl"
    PROVE  LET c == Append(chain, label)
               p == Append(parents, id)
           IN /\ c \in Seq(Labels) /\ p \in Seq(NodeIds) /\ p # <<>> /\ p[1] \in Roots /\ Under(c, p)
              /\ Len(c) = Len(p) - 1 /\ Len(c) = Len(chain) + 1
<1>1. /\ chain \in Seq(Labels) /\ parents \in Seq(NodeIds) /\ parents # <<>> /\ parents[1] \in Roots
      /\ Under(chain, parents) /\ Len(chain) = Len(parents) - 1
  BY DEF Stacked
<1>2. Under(Append(chain, label), Append(parents, id))
  BY <1>1, UnderMore
<1>3. Len(parents) >= 1
  BY <1>1
<1>4. Append(parents, id)[1] = parents[1] /\ Append(parents, id) # <<>>
  BY <1>1, <1>3
<1> QED
  BY <1>1, <1>2, <1>4

\* The stack of what is open, with one more.
LEMMA Pushed ==
    ASSUME NEW o \in Seq(Entries), NEW e \in Entries
    PROVE  LET q == Append(o, e)
           IN /\ q \in Seq(Entries) /\ Len(q) = Len(o) + 1 /\ q # <<>> /\ q[Len(q)] = e
              /\ DOMAIN q = 1 .. Len(o) + 1
              /\ (\A i \in 1 .. Len(o) : q[i] = o[i]) /\ q[Len(o) + 1] = e
OBVIOUS

\* The stacks after a scope is entered, whatever was open under it.
LEMMA InNewScope ==
    ASSUME NEW o \in Seq(Entries), \A i \in 1 .. Len(o) : o[i].ids = 1 /\ o[i].scopes = 1,
           NEW e \in Entries, e.ids = 1, e.scopes = 1, open' = Append(o, e),
           chain' \in Seq(Labels), parents' \in Seq(NodeIds), parents' # <<>>, parents'[1] \in Roots,
           Under(chain', parents'), Len(chain') = Len(parents') - 1, Len(o) + 1 <= Len(chain')
    PROVE  Stacked'
<1>1. /\ open' \in Seq(Entries) /\ Len(open') = Len(o) + 1 /\ open'[Len(open')] = e
      /\ (\A i \in 1 .. Len(o) : open'[i] = o[i]) /\ open'[Len(o) + 1] = e
  BY Pushed
<1>2. \A i \in 1 .. Len(open') : open'[i].ids = 1 /\ open'[i].scopes = 1
  BY <1>1
<1>3. Plain'
  BY <1>1 DEF Plain, Innermost
<1> QED
  BY <1>1, <1>2, <1>3 DEF Stacked

LEMMA PlainIsScopes ==
    ASSUME Stacked, Plain
    PROVE  \A i \in 1 .. Len(open) : open[i].ids = 1 /\ open[i].scopes = 1
<1>1. open \in Seq(Entries)
  BY DEF Stacked
<1>2. \A i \in 1 .. Len(open) : i = Len(open) => open[i].ids = 1
  BY <1>1 DEF Plain, Innermost
<1>3. \A i \in 1 .. Len(open) : i < Len(open) => open[i].ids = 1
  BY DEF Stacked
<1>4. \A i \in 1 .. Len(open) : open[i].ids = 1
  BY <1>1, <1>2, <1>3
<1> QED
  BY <1>4 DEF Stacked

\* What is open stays as its syntax says when a scope is pushed.
LEMMA PushedOpened ==
    ASSUME Opened, UNCHANGED language, NEW o \in Seq(Entries), NEW e \in Entries, open' = Append(o, e),
           \A i \in 1 .. Len(o) : i \in DOMAIN open /\ o[i] = open[i],
           language # "prose_pack" => /\ e.ids = 1 \/ e.syntax \in Lists \cup {"impl"}
                                      /\ e.syntax \in Lists => e.scopes = 0 /\ e.ids = 0
                                      /\ e.syntax = "enumerators" => e.from.kind = "enum",
           language \in {"py_pack", "prose_pack"} => e.ids = 1
    PROVE  Opened'
<1>1. DOMAIN open' = 1 .. Len(o) + 1 /\ (\A i \in 1 .. Len(o) : open'[i] = o[i]) /\ open'[Len(o) + 1] = e
  BY Pushed
<1>2. \A i \in DOMAIN open' : i \in 1 .. Len(o) \/ i = Len(o) + 1
  BY <1>1
<1>3. \A i \in DOMAIN open' : (i \in DOMAIN open /\ open'[i] = open[i]) \/ open'[i] = e
  BY <1>1, <1>2
<1> QED
  BY <1>3 DEF Opened

LEMMA LabelIsLabel ==
    \A word \in Words, name \in Given :
        Segment(word, name) \in Labels /\ Segment(word, name).name = name /\ Segment(word, name).word # "impl"
BY DEF Segment, Labels, Words

LEMMA MakesScopeKeeps ==
    ASSUME WalkInv, MakesScope
    PROVE  WalkInv'
<1>1. Numbered /\ Opened /\ Stacked
  BY DEF WalkInv
<1>2. PICK kind, name : \E word \in Words, syntax \in Bodies :
        /\ Plain
        /\ Makes(kind, name, chain, CurrentParent)
        /\ Enter(syntax, <<Segment(word, name)>>, <<MakeNode(kind, chain, name)>>, MakeNode(kind, chain, name))
  BY DEF MakesScope
<1>3. PICK word \in Words, syntax \in Bodies :
        /\ Plain
        /\ Makes(kind, name, chain, CurrentParent)
        /\ Enter(syntax, <<Segment(word, name)>>, <<MakeNode(kind, chain, name)>>, MakeNode(kind, chain, name))
  BY <1>2
<1>4. kind \in Kinds /\ name \in Given /\ AreFacts(facts') /\ language' = language
  BY <1>3 DEF Makes, Enter
<1>5. chain \in Seq(Labels) /\ parents \in Seq(NodeIds) /\ open \in Seq(Entries)
  BY <1>1 DEF Stacked
<1> DEFINE id == MakeNode(kind, chain, name)
           label == Segment(word, name)
           e == [syntax |-> syntax, scopes |-> 1, ids |-> 1, from |-> id]
<1>6. id \in NodeIds /\ id \notin Roots /\ id.container = chain /\ id.name = name
  BY <1>1, <1>4, <1>5, MadeNode
<1>7. label \in Labels /\ label.name = id.name /\ label.word # "impl"
  BY <1>4, <1>6, LabelIsLabel
<1>8. chain' = Append(chain, label) /\ parents' = Append(parents, id) /\ open' = Append(open, e)
  <2>1. chain' = chain \o <<label>> /\ parents' = parents \o <<id>>
    BY <1>3 DEF Enter
  <2>2. open' = Append(open, [syntax |-> syntax, scopes |-> Len(<<label>>), ids |-> Len(<<id>>), from |-> id])
    BY <1>3 DEF Enter
  <2> HIDE DEF label, id
  <2>3. Len(<<label>>) = 1 /\ Len(<<id>>) = 1
    OBVIOUS
  <2>4. chain \o <<label>> = Append(chain, label)
    BY <1>5, <1>7
  <2>5. parents \o <<id>> = Append(parents, id)
    BY <1>5, <1>6
  <2> QED
    BY <2>1, <2>2, <2>3, <2>4, <2>5
<1>9. e \in Entries /\ e.ids = 1 /\ e.scopes = 1 /\ e.syntax = syntax
  <2> HIDE DEF id
  <2> QED
    BY <1>6 DEF Entries
<1> HIDE DEF id, label, e
<1>10. Stacked'
  <2>1. /\ chain' \in Seq(Labels) /\ parents' \in Seq(NodeIds) /\ parents' # <<>> /\ parents'[1] \in Roots
        /\ Under(chain', parents') /\ Len(chain') = Len(parents') - 1 /\ Len(chain') = Len(chain) + 1
    BY <1>1, <1>3, <1>6, <1>7, <1>8, ScopeStacks
  <2>2. Len(open) + 1 <= Len(chain')
    <3>1. Len(open) <= Len(chain)
      BY <1>1, <1>3 DEF Stacked
    <3> QED
      BY <1>5, <2>1, <3>1
  <2> QED
    BY <1>1, <1>3, <1>5, <1>8, <1>9, <2>1, <2>2, PlainIsScopes, InNewScope
<1>11. Opened'
  <2>1. syntax # "enumerators" /\ syntax \notin Lists
    BY DEF Bodies, Lists
  <2>2. \A i \in 1 .. Len(open) : i \in DOMAIN open /\ open[i] = open[i]
    BY <1>5
  <2> QED
    BY <1>1, <1>4, <1>5, <1>8, <1>9, <2>1, <2>2, PushedOpened
<1> QED
  BY <1>3, <1>4, <1>10, <1>11, MadeHere DEF WalkInv

\* What is listed or searched in a declaration, and an impl, are pushed on a
\* scope: the parents stay.
LEMMA NoScopePushed ==
    ASSUME Stacked, Plain, NEW e \in Entries, e.ids = 0, open' = Append(open, e), parents' = parents,
           \/ e.scopes = 0 /\ chain' = chain /\ e.from \notin Roots /\ e.from.container = chain
           \/ \E label \in Labels : e.scopes = 1 /\ label.word = "impl" /\ chain' = Append(chain, label)
    PROVE  Stacked'
<1>1. /\ chain \in Seq(Labels) /\ parents \in Seq(NodeIds) /\ open \in Seq(Entries)
      /\ parents # <<>> /\ parents[1] \in Roots /\ Under(chain, parents)
      /\ Len(chain) = Len(parents) - 1 /\ Len(open) <= Len(chain)
  BY DEF Stacked
<1>2. /\ open' \in Seq(Entries) /\ Len(open') = Len(open) + 1 /\ Innermost' = e /\ open' # <<>>
      /\ (\A i \in 1 .. Len(open) : open'[i] = open[i]) /\ open'[Len(open) + 1] = e
  BY <1>1, Pushed DEF Innermost
<1>3. ~Plain'
  BY <1>2 DEF Plain
<1>4. \A i \in 1 .. Len(open') : i < Len(open') => open'[i].ids = 1 /\ open'[i].scopes = 1
  BY <1>1, <1>2, PlainIsScopes
<1>5. \A i \in 1 .. Len(open') : open'[i].ids = 1 => open'[i].scopes = 1
  BY <1>1, <1>2, <1>4
<1>6. Len(open') <= Len(parents')
  BY <1>1, <1>2
<1>7. CASE e.scopes = 0 /\ chain' = chain /\ e.from \notin Roots /\ e.from.container = chain
  BY <1>1, <1>2, <1>3, <1>4, <1>5, <1>6, <1>7 DEF Stacked
<1>8. ASSUME NEW label \in Labels, e.scopes = 1, label.word = "impl", chain' = Append(chain, label)
      PROVE  Stacked'
  <2>1. chain' \in Seq(Labels) /\ Len(chain') = Len(chain) + 1 /\ chain'[Len(chain')] = label
    BY <1>1, <1>8
  <2>2. Under(chain', parents')
    BY <1>1, <1>8, UnderMore
  <2>3. Len(chain') = Len(parents')
    BY <1>1, <2>1
  <2> QED
    BY <1>1, <1>2, <1>3, <1>4, <1>5, <1>6, <1>8, <2>1, <2>2, <2>3 DEF Stacked
<1> QED
  BY <1>7, <1>8

LEMMA MakesListKeeps ==
    ASSUME WalkInv, MakesList
    PROVE  WalkInv'
<1>1. Numbered /\ Opened /\ Stacked
  BY DEF WalkInv
<1>2. PICK kind, name : \E syntax \in Lists :
        /\ Plain /\ language \notin {"py_pack", "prose_pack"}
        /\ syntax = "enumerators" => kind = "enum"
        /\ Makes(kind, name, chain, CurrentParent)
        /\ Enter(syntax, <<>>, <<>>, MakeNode(kind, chain, name))
  BY DEF MakesList
<1>3. PICK syntax \in Lists :
        /\ Plain /\ language \notin {"py_pack", "prose_pack"}
        /\ syntax = "enumerators" => kind = "enum"
        /\ Makes(kind, name, chain, CurrentParent)
        /\ Enter(syntax, <<>>, <<>>, MakeNode(kind, chain, name))
  BY <1>2
<1>4. kind \in Kinds /\ name \in Given /\ AreFacts(facts') /\ language' = language
  BY <1>3 DEF Makes, Enter
<1>5. chain \in Seq(Labels) /\ parents \in Seq(NodeIds) /\ open \in Seq(Entries)
  BY <1>1 DEF Stacked
<1> DEFINE id == MakeNode(kind, chain, name)
           e == [syntax |-> syntax, scopes |-> 0, ids |-> 0, from |-> id]
<1>6. id \in NodeIds /\ id \notin Roots /\ id.container = chain /\ id.kind = kind
  BY <1>1, <1>4, <1>5, MadeNode
<1>7. chain' = chain /\ parents' = parents /\ open' = Append(open, e)
  BY <1>3, <1>5 DEF Enter
<1>8. e \in Entries /\ e.ids = 0 /\ e.scopes = 0 /\ e.syntax = syntax /\ e.from = id
  <2> HIDE DEF id
  <2> QED
    BY <1>6 DEF Entries
<1> HIDE DEF id, e
<1>9. Stacked'
  BY <1>1, <1>3, <1>6, <1>7, <1>8, NoScopePushed
<1>10. Opened'
  <2>1. \A i \in 1 .. Len(open) : i \in DOMAIN open /\ open[i] = open[i]
    BY <1>5
  <2> QED
    BY <1>1, <1>3, <1>4, <1>5, <1>6, <1>7, <1>8, <2>1, PushedOpened
<1> QED
  BY <1>3, <1>4, <1>9, <1>10, MadeHere DEF WalkInv

LEMMA ImplIsLabel ==
    \A trait \in Names \cup {NoTrait}, type \in Names :
        ImplSegment(trait, type) \in Labels /\ ImplSegment(trait, type).word = "impl"
BY DEF ImplSegment, Labels, Given, NoTrait

LEMMA EntersImplKeeps ==
    ASSUME WalkInv, EntersImpl
    PROVE  WalkInv'
<1>1. Opened /\ Stacked /\ AreFacts(facts)
  BY DEF WalkInv
<1>2. PICK trait \in Names \cup {NoTrait}, type \in Names :
        /\ Plain /\ language = "rust_pack"
        /\ Enter("impl", <<ImplSegment(trait, type)>>, <<>>, CurrentParent)
        /\ UNCHANGED <<tracker, facts>>
  BY Zenon DEF EntersImpl, NoTrait
<1>3. chain \in Seq(Labels) /\ parents \in Seq(NodeIds) /\ parents # <<>> /\ open \in Seq(Entries)
  BY <1>1 DEF Stacked
<1> DEFINE label == ImplSegment(trait, type)
           e == [syntax |-> "impl", scopes |-> 1, ids |-> 0, from |-> CurrentParent]
<1>4. label \in Labels /\ label.word = "impl"
  BY Zenon, ImplIsLabel
<1>5. CurrentParent \in NodeIds
  BY <1>3 DEF CurrentParent
<1>6. chain' = Append(chain, label) /\ parents' = parents /\ open' = Append(open, e) /\ language' = language
  <2>1. /\ chain' = chain \o <<label>> /\ parents' = parents \o <<>> /\ language' = language
        /\ open' = Append(open, [syntax |-> "impl", scopes |-> Len(<<label>>), ids |-> Len(<<>>), from |-> CurrentParent])
    BY <1>2 DEF Enter
  <2> HIDE DEF label
  <2>2. Len(<<label>>) = 1 /\ Len(<<>>) = 0 /\ parents \o <<>> = parents
    BY <1>3
  <2>3. chain \o <<label>> = Append(chain, label)
    BY <1>3, <1>4
  <2> QED
    BY <2>1, <2>2, <2>3
<1>7. e \in Entries /\ e.ids = 0 /\ e.scopes = 1 /\ e.syntax = "impl" /\ "impl" \notin Lists
  BY <1>5 DEF Entries, Lists
<1> HIDE DEF label, e
<1>8. Stacked'
  BY <1>1, <1>2, <1>4, <1>6, <1>7, NoScopePushed
<1>9. Opened'
  <2>1. \A i \in 1 .. Len(open) : i \in DOMAIN open /\ open[i] = open[i]
    BY <1>3
  <2> QED
    BY <1>1, <1>2, <1>3, <1>6, <1>7, <2>1, PushedOpened
<1>10. facts' = facts /\ tracker' = tracker
  BY <1>2
<1>11. Numbered' /\ ChainsNameTheContainers'
  BY <1>6, <1>10, NothingMade
<1> QED
  BY <1>1, <1>8, <1>9, <1>10, <1>11 DEF WalkInv

LEMMA MakesListedKeeps ==
    ASSUME WalkInv, MakesListed
    PROVE  WalkInv'
<1>1. Numbered /\ Opened /\ Stacked /\ ChainsNameTheContainers
  BY DEF WalkInv
<1> DEFINE owner == Innermost.from
           container == <<Segment("", owner.name)>>
<1>2. PICK kind, name :
        /\ open # <<>>
        /\ \/ owner.kind = "enum" /\ kind = "constant"
           \/ language \in {"java_pack", "csharp_pack"} /\ kind = "field"
        /\ Makes(kind, name, container, owner)
        /\ Stay
  BY DEF MakesListed
<1>3. UNCHANGED <<language, chain, parents, open>>
  BY <1>2 DEF Stay
<1>4. Opened' /\ Stacked'
  BY <1>1, <1>3, StacksStay
<1>5. Numbered'
  BY <1>1, <1>2, MakesNumbers
<1>6. kind \in Kinds /\ name \in Given /\ AreFacts(facts')
  BY <1>2 DEF Makes
<1>7. owner \in NodeIds
  <2>1. open \in Seq(Entries) /\ open # <<>>
    BY <1>1, <1>2 DEF Stacked
  <2>2. Innermost \in Entries
    BY <2>1 DEF Innermost
  <2> QED
    BY <2>2 DEF Entries
<1>8. owner.name \in Given
  <2> HIDE DEF owner
  <2> QED
    BY <1>7 DEF NodeIds
<1>9. Segment("", owner.name) \in Labels
  <2> HIDE DEF owner
  <2> QED
    BY <1>8, LabelIsLabel DEF Words
<1>10. container \in Seq(Labels)
  <2> DEFINE label == Segment("", owner.name)
  <2> HIDE DEF label
  <2>1. <<label>> \in Seq(Labels)
    <3>1. label \in Labels
      BY <1>9, Zenon DEF label
    <3> QED
      BY <3>1
  <2> QED
    BY <2>1, Zenon DEF label
<1> DEFINE id == MakeNode(kind, container, name)
<1>11. id.kind = kind /\ id.container = container
  <2> HIDE DEF container
  <2> QED
    BY <1>1, <1>6, <1>10, MadeNode
<1>12. IsListed(id, owner)
  <2> HIDE DEF owner, id
  <2> QED
    BY <1>2, <1>11 DEF IsListed
<1> DEFINE made == {id}
<1>13. Ids' = Ids \cup made /\ facts'.edges = facts.edges \cup {[from |-> owner, to |-> x] : x \in made}
  <2>1. Ids' = Ids \cup {id} /\ facts'.edges = facts.edges \cup {[from |-> owner, to |-> id]}
    BY <1>2 DEF Makes
  <2> HIDE DEF id, owner
  <2> QED
    BY <2>1
<1>14. \A x \in made : IsListed(x, owner) /\ x.container = NameAlone(owner)
  BY <1>11, <1>12, Zenon DEF NameAlone
<1> HIDE DEF id, container, owner, made
<1>15. ChainsNameTheContainers'
  BY <1>1, <1>3, <1>13, <1>14, MadeAreIn
<1> QED
  BY <1>4, <1>5, <1>6, <1>15 DEF WalkInv

LEMMA MakesLeafKeeps ==
    ASSUME WalkInv, MakesLeaf
    PROVE  WalkInv'
<1>1. PICK kind, name : Makes(kind, name, chain, CurrentParent) /\ Stay
  BY DEF MakesLeaf
<1>2. UNCHANGED <<language, chain, parents, open>> /\ AreFacts(facts')
  BY <1>1 DEF Stay, Makes
<1>3. Opened' /\ Stacked'
  BY <1>2, StacksStay DEF WalkInv
<1> QED
  BY <1>1, <1>2, <1>3, MadeHere DEF WalkInv

LEMMA RefersKeeps ==
    ASSUME WalkInv, Refers
    PROVE  WalkInv'
<1>1. UNCHANGED <<language, chain, parents, open>> /\ tracker' = tracker /\ AreFacts(facts')
  BY DEF Refers
<1>2. Opened' /\ Stacked'
  BY <1>1, StacksStay DEF WalkInv
<1>3. Numbered' /\ ChainsNameTheContainers'
  BY <1>1, NothingMade DEF Refers
<1> QED
  BY <1>1, <1>2, <1>3 DEF WalkInv

\* The label of a scope that is its name alone.
NameLabel(name) == Segment("", name)

LEMMA NameIsLabel ==
    ASSUME NEW name \in Given
    PROVE  NameLabel(name) \in Labels /\ NameLabel(name).name = name /\ NameLabel(name).word # "impl"
BY LabelIsLabel, Zenon DEF NameLabel, Words

LEMMA EntersBodyKeeps ==
    ASSUME WalkInv, EntersBody
    PROVE  WalkInv'
<1>1. Numbered /\ Opened /\ Stacked /\ AreFacts(facts)
  BY DEF WalkInv
<1> DEFINE owner == Innermost.from
           label == NameLabel(owner.name)
           e == [syntax |-> "members", scopes |-> 1, ids |-> 1, from |-> owner]
           o == SubSeq(open, 1, Len(open) - 1)
           n == Len(open)
<1>2. /\ open # <<>> /\ Innermost.syntax \in {"parameters", "components"}
      /\ chain' = Append(chain, label) /\ parents' = Append(parents, owner) /\ open' = Append(o, e)
      /\ language' = language /\ tracker' = tracker /\ facts' = facts
  BY Zenon DEF EntersBody, EnterBody, In, NameLabel
<1>3. /\ chain \in Seq(Labels) /\ parents \in Seq(NodeIds) /\ open \in Seq(Entries) /\ parents # <<>>
      /\ parents[1] \in Roots /\ Under(chain, parents) /\ n \in Nat /\ n >= 1
  BY <1>1, <1>2 DEF Stacked
<1>4. Innermost = open[n] /\ open[n] \in Entries /\ n \in DOMAIN open
  BY <1>2, <1>3 DEF Innermost
<1>5. owner \in NodeIds /\ owner.name \in Given
  <2>1. owner \in NodeIds
    BY <1>4 DEF Entries
  <2> HIDE DEF owner
  <2> QED
    BY <2>1 DEF NodeIds
<1>6. e \in Entries /\ e.ids = 1 /\ e.scopes = 1 /\ e.syntax \notin Lists \cup {"enumerators"}
  <2> HIDE DEF owner
  <2> QED
    BY <1>5 DEF Entries, Bodies, Lists
<1>7. label \in Labels /\ label.name = owner.name /\ label.word # "impl"
  BY <1>5, NameIsLabel
<1>8. /\ o \in Seq(Entries) /\ Len(o) = n - 1 /\ \A i \in 1 .. Len(o) : i \in DOMAIN open /\ o[i] = open[i]
  <2>1. o = SubSeq(open, 1, n - 1)
    OBVIOUS
  <2> HIDE DEF o, n
  <2>2. n = Len(open)
    BY DEF n
  <2> QED
    BY <1>3, <2>1, <2>2
<1> HIDE DEF o, e, label
<1>9. Opened'
  BY <1>1, <1>2, <1>6, <1>8, PushedOpened
<1>10. \A i \in 1 .. Len(o) : o[i].ids = 1 /\ o[i].scopes = 1
  <2>1. \A i \in 1 .. Len(o) : i \in 1 .. Len(open) /\ i < Len(open)
    BY <1>3, <1>8
  <2> QED
    BY <1>1, <1>8, <2>1 DEF Stacked
<1>11. Stacked'
  <2>1. open[n].ids = 0 /\ open[n].scopes = 0
    BY <1>1, <1>2, <1>4 DEF Opened, Lists, EntersBody
  <2>2. ~Plain /\ Innermost.scopes = 0
    BY <1>2, <1>4, <2>1 DEF Plain
  <2>3. Len(chain) = Len(parents) - 1 /\ owner \notin Roots /\ owner.container = chain /\ n <= Len(parents)
    BY <1>1, <2>2 DEF Stacked
  <2> HIDE DEF owner, n
  <2>4. Under(chain', parents')
    BY <1>2, <1>3, <1>5, <1>7, <2>3, UnderMore
  <2>5. /\ chain' \in Seq(Labels) /\ parents' \in Seq(NodeIds) /\ parents' # <<>> /\ parents'[1] = parents[1]
        /\ Len(chain') = Len(chain) + 1 /\ Len(parents') = Len(parents) + 1
    BY <1>2, <1>3, <1>5, <1>7
  <2>6. Len(chain') = Len(parents') - 1 /\ Len(o) + 1 <= Len(chain')
    BY <1>3, <1>8, <2>3, <2>5
  <2> QED
    BY <1>2, <1>3, <1>6, <1>8, <1>10, <2>4, <2>5, <2>6, InNewScope
<1> QED
  BY <1>1, <1>2, <1>9, <1>11, NothingMade DEF WalkInv

LEMMA MakesNamespaceKeeps ==
    ASSUME WalkInv, MakesNamespace
    PROVE  WalkInv'
<1>1. Numbered /\ Opened /\ Stacked
  BY DEF WalkInv
<1>2. PICK name :
        /\ open = <<>>
        /\ Makes("namespace", name, chain, CurrentParent)
        /\ chain' = Append(chain, NameLabel(name))
        /\ parents' = Append(parents, MakeNode("namespace", chain, name))
        /\ UNCHANGED <<language, open>>
  BY Zenon DEF MakesNamespace, NameLabel
<1> DEFINE id == MakeNode("namespace", chain, name)
           label == NameLabel(name)
<1>3. "namespace" \in Kinds /\ name \in Given /\ AreFacts(facts') /\ chain \in Seq(Labels)
  BY <1>1, <1>2 DEF Makes, Kinds, Stacked
<1>4. id \in NodeIds /\ id \notin Roots /\ id.container = chain /\ id.name = name
  BY <1>1, <1>3, MadeNode
<1>5. label \in Labels /\ label.name = id.name /\ label.word # "impl"
  BY <1>3, <1>4, NameIsLabel
<1>6. Plain /\ Plain' /\ open' = <<>> /\ open' \in Seq(Entries) /\ Len(open') = 0
  BY <1>2 DEF Plain
<1>7. chain' = Append(chain, label) /\ parents' = Append(parents, id)
  BY <1>2
<1> HIDE DEF id, label
<1>8. /\ chain' \in Seq(Labels) /\ parents' \in Seq(NodeIds) /\ parents' # <<>> /\ parents'[1] \in Roots
      /\ Under(chain', parents') /\ Len(chain') = Len(parents') - 1 /\ Len(chain') = Len(chain) + 1
  BY <1>1, <1>4, <1>5, <1>6, <1>7, ScopeStacks
<1>9. Len(open') <= Len(chain')
  BY <1>3, <1>6, <1>8
<1>10. Stacked'
  BY <1>6, <1>8, <1>9 DEF Stacked
<1>11. Opened'
  BY <1>2, <1>6 DEF Opened
<1> QED
  BY <1>2, <1>3, <1>10, <1>11, MadeHere DEF WalkInv

\* A heading: the sections below it are closed, and its own is opened.
LEMMA MakesSectionKeeps ==
    ASSUME WalkInv, MakesSection
    PROVE  WalkInv'
<1>1. Numbered /\ Opened /\ Stacked /\ AreFacts(facts) /\ ChainsNameTheContainers
  BY DEF WalkInv
<1>2. PICK level, text : \E depth \in 0 .. Len(open) :
        LET container == SubSeq(chain, 1, depth)
            parent == parents[depth + 1]
            heading == MakeNode("heading", container, text)
            section == MakeNode("section", container, text)
        IN /\ language = "prose_pack" /\ text \in Given /\ level \in Nat
           /\ tracker' = CountedOnce({<<"heading", container, text>>, <<"section", container, text>>})
           /\ Ids' = Ids \cup {heading, section}
           /\ facts'.edges = facts.edges \cup {[from |-> parent, to |-> heading], [from |-> parent, to |-> section]}
           /\ facts'.claims = facts.claims + 2 /\ AreFacts(facts')
           /\ chain' = Append(container, NameLabel(text))
           /\ parents' = Append(SubSeq(parents, 1, depth + 1), section)
           /\ open' = Append(SubSeq(open, 1, depth), [syntax |-> level, scopes |-> 1, ids |-> 1, from |-> section])
           /\ UNCHANGED language
  BY Zenon DEF MakesSection, NameLabel
<1>3. PICK depth \in 0 .. Len(open) :
        LET container == SubSeq(chain, 1, depth)
            parent == parents[depth + 1]
            heading == MakeNode("heading", container, text)
            section == MakeNode("section", container, text)
        IN /\ language = "prose_pack" /\ text \in Given /\ level \in Nat
           /\ tracker' = CountedOnce({<<"heading", container, text>>, <<"section", container, text>>})
           /\ Ids' = Ids \cup {heading, section}
           /\ facts'.edges = facts.edges \cup {[from |-> parent, to |-> heading], [from |-> parent, to |-> section]}
           /\ facts'.claims = facts.claims + 2 /\ AreFacts(facts')
           /\ chain' = Append(container, NameLabel(text))
           /\ parents' = Append(SubSeq(parents, 1, depth + 1), section)
           /\ open' = Append(SubSeq(open, 1, depth), [syntax |-> level, scopes |-> 1, ids |-> 1, from |-> section])
           /\ UNCHANGED language
  BY <1>2
<1> DEFINE container == SubSeq(chain, 1, depth)
           parent == parents[depth + 1]
           heading == MakeNode("heading", container, text)
           section == MakeNode("section", container, text)
           above == SubSeq(parents, 1, depth + 1)
           o == SubSeq(open, 1, depth)
           label == NameLabel(text)
           e == [syntax |-> level, scopes |-> 1, ids |-> 1, from |-> section]
           keys == {<<"heading", container, text>>, <<"section", container, text>>}
<1>4. /\ language = "prose_pack" /\ language' = language /\ text \in Given /\ level \in Nat
      /\ tracker' = CountedOnce(keys) /\ Ids' = Ids \cup {heading, section}
      /\ facts'.edges = facts.edges \cup {[from |-> parent, to |-> heading], [from |-> parent, to |-> section]}
      /\ facts'.claims = facts.claims + 2 /\ AreFacts(facts')
      /\ chain' = Append(container, label) /\ parents' = Append(above, section) /\ open' = Append(o, e)
  BY <1>3, Zenon
<1>5. /\ chain \in Seq(Labels) /\ parents \in Seq(NodeIds) /\ open \in Seq(Entries) /\ parents # <<>>
      /\ parents[1] \in Roots /\ Under(chain, parents) /\ Len(chain) \in Nat /\ Len(parents) \in Nat /\ Len(open) \in Nat
  BY <1>1 DEF Stacked
<1>6. Plain
  BY <1>1, <1>4, <1>5 DEF Opened, Plain, Innermost
<1>7. /\ depth \in 0 .. Len(chain) /\ depth + 1 \in 1 .. Len(parents) /\ Len(chain) = Len(parents) - 1 /\ depth \in Nat
  BY <1>1, <1>5, <1>6 DEF Stacked
<1>8. /\ container \in Seq(Labels) /\ Len(container) = depth
      /\ above \in Seq(NodeIds) /\ Len(above) = depth + 1 /\ above # <<>> /\ above[1] = parents[1] /\ above[depth + 1] = parent
      /\ Under(container, above)
  <2>1. container \in Seq(Labels) /\ Len(container) = depth
    BY <1>5, <1>7, Cut
  <2>2. above \in Seq(NodeIds) /\ Len(above) = depth + 1 /\ \A i \in 1 .. depth + 1 : above[i] = parents[i]
    BY <1>5, <1>7, CutParents
  <2>3. Under(container, above)
    BY <1>5, <1>7, UnderLess
  <2> HIDE DEF above, container
  <2>4. 1 \in 1 .. depth + 1 /\ depth + 1 \in 1 .. depth + 1 /\ above # <<>>
    BY <1>7, <2>2
  <2> QED
    BY <2>1, <2>2, <2>3, <2>4
<1>9. IsChainIn(parent, container)
  <2> HIDE DEF above, container
  <2>1. Len(container) = Len(above) - 1 /\ above[1] \in Roots
    BY <1>5, <1>7, <1>8
  <2>2. IsChainIn(above[Len(above)], container)
    BY <1>8, <2>1, UnderIsIn
  <2> QED
    BY <1>8, <2>2
<1> HIDE DEF container
<1>10. /\ heading.container = container /\ section.container = container
       /\ section \in NodeIds /\ section \notin Roots /\ section.name = text
       /\ heading.kind = "heading" /\ section.kind = "section"
  BY <1>1, <1>4, <1>8, MadeNode DEF Kinds
<1>11. label \in Labels /\ label.name = section.name /\ label.word # "impl"
  BY <1>4, <1>10, NameIsLabel
<1>12. Numbered'
  <2> DEFINE key == <<"heading", container, text>>
             other == <<"section", container, text>>
  <2>1. /\ key[1] = "heading" /\ key[2] = container /\ key[3] = text
        /\ other[1] = "section" /\ other[2] = container /\ other[3] = text
        /\ key = <<key[1], key[2], key[3]>> /\ other = <<other[1], other[2], other[3]>>
    OBVIOUS
  <2>2. heading = NodeId(key[1], key[2], key[3], Count(key)) /\ section = NodeId(other[1], other[2], other[3], Count(other))
    BY DEF MakeNode, NextDiscriminator
  <2>3. keys = {key, other}
    OBVIOUS
  <2> HIDE DEF key, other, keys, heading, section
  <2>4. Named(keys) = {heading, section}
    BY <2>2, <2>3 DEF Named
  <2>5. heading # section
    BY <1>10
  <2>6. IsFiniteSet({heading, section}) /\ Cardinality({heading, section}) = 2
    <3>1. IsFiniteSet({heading}) /\ Cardinality({heading}) = 1
      BY FS_Singleton
    <3>2. IsFiniteSet({heading} \cup {section}) /\ Cardinality({heading} \cup {section}) = Cardinality({heading}) + 1
      BY <2>5, <3>1, FS_AddElement
    <3>3. {heading} \cup {section} = {heading, section}
      OBVIOUS
    <3>4. Cardinality({heading}) + 1 = 2
      BY <3>1
    <3> QED
      BY <3>2, <3>3, <3>4, Zenon
  <2>7. \A k \in keys : k = <<k[1], k[2], k[3]>> /\ k[1] # "file"
    BY <2>1, <2>3
  <2> QED
    BY <1>1, <1>4, <2>4, <2>6, <2>7, KeysAreNumbered
<1> HIDE DEF heading, section, label, parent
<1>13. ChainsNameTheContainers'
  <2> DEFINE made == {heading, section}
  <2>1. facts'.edges = facts.edges \cup {[from |-> parent, to |-> id] : id \in made}
    BY <1>4
  <2>2. \A id \in made : IsChainIn(parent, id.container)
    BY <1>9, <1>10
  <2>3. Ids' = Ids \cup made /\ UNCHANGED language
    BY <1>4
  <2> HIDE DEF made
  <2> QED
    BY <1>1, <2>1, <2>2, <2>3, MadeAreIn
<1>14. o \in Seq(Entries) /\ Len(o) = depth /\ \A i \in 1 .. Len(o) : i \in DOMAIN open /\ o[i] = open[i]
  BY <1>5
<1>15. e \in Entries /\ e.ids = 1 /\ e.scopes = 1
  BY <1>4, <1>10 DEF Entries
<1> HIDE DEF e, o, above, keys
<1>16. Opened'
  BY <1>1, <1>4, <1>14, <1>15, PushedOpened
<1>17. Stacked'
  <2>1. Under(chain', parents')
    <3>1. Len(container) = Len(above) - 1
      BY <1>7, <1>8
    <3> QED
      BY <1>4, <1>8, <1>10, <1>11, <3>1, UnderMore
  <2>2. /\ chain' \in Seq(Labels) /\ parents' \in Seq(NodeIds) /\ parents' # <<>> /\ parents'[1] = above[1]
        /\ Len(chain') = depth + 1 /\ Len(parents') = depth + 2
    BY <1>4, <1>7, <1>8, <1>10, <1>11
  <2>3. \A i \in 1 .. Len(o) : o[i].ids = 1 /\ o[i].scopes = 1
    BY <1>1, <1>5, <1>6, <1>14, PlainIsScopes
  <2>4. Len(chain') = Len(parents') - 1 /\ Len(o) + 1 <= Len(chain') /\ parents'[1] \in Roots
    BY <1>5, <1>7, <1>8, <1>14, <2>2
  <2> QED
    BY <1>4, <1>14, <1>15, <2>1, <2>2, <2>3, <2>4, InNewScope
<1> QED
  BY <1>4, <1>12, <1>13, <1>16, <1>17 DEF WalkInv

\* Every step of the walk.
LEMMA WalksKeep ==
    ASSUME WalkInv, Walks
    PROVE  WalkInv'
<1>1. CASE Leave
  <2>1. Opened' /\ Stacked'
    BY <1>1, LeaveUnstacks DEF WalkInv
  <2>2. language' = language /\ tracker' = tracker /\ facts' = facts
    BY <1>1 DEF Leave
  <2> QED
    BY <2>1, <2>2, NothingMade DEF WalkInv
<1> QED
  BY <1>1, RefersKeeps, MakesLeafKeeps, MakesListKeeps, MakesScopeKeeps, EntersImplKeeps, MakesListedKeeps,
     EntersBodyKeeps, MakesNamespaceKeeps, MakesSectionKeeps DEF Walks

-----------------------------------------------------------------------------
(* Each pack walks.                                                        *)

LEMMA InScope ==
    ASSUME WalkInv, language # "prose_pack", NEW syntax, In(syntax), syntax \cap (Lists \cup {"impl"}) = {}
    PROVE  Plain
<1>1. open \in Seq(Entries) /\ open # <<>>
  BY DEF WalkInv, Stacked, In
<1>2. Innermost = open[Len(open)] /\ Len(open) \in DOMAIN open
  BY <1>1 DEF Innermost
<1>3. Innermost.syntax \in syntax /\ Opened
  BY DEF In, WalkInv
<1> QED
  BY <1>2, <1>3 DEF Opened, Plain

LEMMA InEnumerators ==
    ASSUME WalkInv, language # "prose_pack", In({"enumerators"})
    PROVE  open # <<>> /\ Innermost.from.kind = "enum"
<1>1. open \in Seq(Entries) /\ open # <<>>
  BY DEF WalkInv, Stacked, In
<1>2. Innermost = open[Len(open)] /\ Len(open) \in DOMAIN open
  BY <1>1 DEF Innermost
<1>3. Innermost.syntax = "enumerators" /\ Opened
  BY DEF In, WalkInv
<1> QED
  BY <1>1, <1>2, <1>3 DEF Opened

LEMMA IdsGrow ==
    ASSUME NEW id, NEW qualified, facts'.nodes = facts.nodes \cup {[id |-> id, qualified |-> qualified]}
    PROVE  Ids' = Ids \cup {id}
<1> DEFINE node == [id |-> id, qualified |-> qualified]
<1>1. node.id = id
  OBVIOUS
<1>2. facts'.nodes = facts.nodes \cup {node}
  OBVIOUS
<1> HIDE DEF node
<1>3. \A x : x \in Ids' <=> \E n \in facts'.nodes : x = n.id
  BY DEF Ids
<1>4. \A x : x \in Ids <=> \E n \in facts.nodes : x = n.id
  BY DEF Ids
<1>5. \A x : x \in Ids' <=> x \in Ids \cup {id}
  BY <1>1, <1>2, <1>3, <1>4
<1> QED
  BY <1>5

\* The declarations of FactBuilder are steps of the walk.
LEMMA DeclareMakes ==
    ASSUME AreFacts(facts), NEW kind \in Kinds, NEW name \in Given, NEW qualified, NEW container, NEW parent,
           NEW refs, Declare(kind, name, qualified, container, parent, refs)
    PROVE  Makes(kind, name, container, parent)
<1> DEFINE id == MakeNode(kind, container, name)
<1>1. /\ tracker' = CountedOnce({<<kind, container, name>>})
      /\ facts' = [nodes |-> facts.nodes \cup {[id |-> id, qualified |-> qualified]},
                   edges |-> facts.edges \cup {[from |-> parent, to |-> id]},
                   unresolved |-> facts.unresolved \cup refs,
                   claims |-> facts.claims + 1]
  BY DEF Declare
<1> HIDE DEF id
<1>2. Ids' = Ids \cup {id}
  <2>1. facts'.nodes = facts.nodes \cup {[id |-> id, qualified |-> qualified]}
    BY <1>1
  <2> QED
    BY <2>1, IdsGrow
<1> QED
  BY <1>1, <1>2 DEF Makes, AreFacts, id

LEMMA DeclarationsMake ==
    ASSUME AreFacts(facts), NEW kind \in Kinds, NEW name \in Given, NEW qualified
    PROVE  /\ Leaf(kind, name, qualified) => MakesLeaf
           /\ \A syntax \in Lists :
                 /\ Open(syntax, kind, name, qualified)
                 /\ Plain /\ language \notin {"py_pack", "prose_pack"} /\ (syntax = "enumerators" => kind = "enum")
                 => MakesList
           /\ \A syntax \in Bodies, word \in Words : \A seeks :
                 Plain /\ Scope(syntax, kind, name, qualified, Segment(word, name), seeks) => MakesScope
           /\ \/ Innermost.from.kind = "enum" /\ kind = "constant"
              \/ language \in {"java_pack", "csharp_pack"} /\ kind = "field"
              => (open # <<>> /\ Listed(kind, name) => MakesListed)
<1>1. ASSUME Leaf(kind, name, qualified)
      PROVE  MakesLeaf
  <2>1. Makes(kind, name, chain, CurrentParent) /\ Stay
    BY <1>1, DeclareMakes DEF Leaf
  <2> QED
    BY <2>1 DEF MakesLeaf
<1>2. ASSUME NEW syntax \in Lists, Open(syntax, kind, name, qualified),
             Plain, language \notin {"py_pack", "prose_pack"}, syntax = "enumerators" => kind = "enum"
      PROVE  MakesList
  <2>1. Makes(kind, name, chain, CurrentParent)
    BY <1>2, DeclareMakes DEF Open
  <2>2. Enter(syntax, <<>>, <<>>, MakeNode(kind, chain, name))
    BY <1>2 DEF Open
  <2> QED
    BY <1>2, <2>1, <2>2 DEF MakesList
<1>3. ASSUME NEW syntax \in Bodies, NEW word \in Words, NEW seeks,
             Plain, Scope(syntax, kind, name, qualified, Segment(word, name), seeks)
      PROVE  MakesScope
  <2>1. Makes(kind, name, chain, CurrentParent)
    BY <1>3, DeclareMakes DEF Scope
  <2>2. Enter(syntax, <<Segment(word, name)>>, <<MakeNode(kind, chain, name)>>, MakeNode(kind, chain, name))
    BY <1>3 DEF Scope
  <2> QED
    BY <1>3, <2>1, <2>2 DEF MakesScope
<1>4. ASSUME \/ Innermost.from.kind = "enum" /\ kind = "constant"
             \/ language \in {"java_pack", "csharp_pack"} /\ kind = "field",
             open # <<>>, Listed(kind, name)
      PROVE  MakesListed
  <2>1. PICK q : Declare(kind, name, q, <<Segment("", Innermost.from.name)>>, Innermost.from, {}) /\ Stay
    BY <1>4, Zenon DEF Listed
  <2>2. Makes(kind, name, <<Segment("", Innermost.from.name)>>, Innermost.from)
    BY <2>1, DeclareMakes, Zenon
  <2> QED
    BY <1>4, <2>1, <2>2 DEF MakesListed
<1> QED
  BY <1>1, <1>2, <1>3, <1>4

LEMMA RefersToo ==
    ASSUME AreFacts(facts), NEW seeking, NEW edge
    PROVE  /\ \A from : Refer(from, seeking, edge) => Refers
           /\ ReferInBody(seeking, edge) => Refers
BY DEF Refer, ReferInBody, Refers, AreFacts

LEMMA RustShares ==
       /\ \A kind, container, name : Rust!MakeNode(kind, container, name) = MakeNode(kind, container, name)
       /\ \A id, seeks : Rust!RefsOf(id, seeks) = RefsOf(id, seeks)
       /\ Rust!Leave <=> Leave
       /\ Rust!CurrentParent = CurrentParent /\ (Rust!AtTop <=> AtTop) /\ Rust!Innermost = Innermost
       /\ \A syntax : Rust!In(syntax) <=> In(syntax)
       /\ \A syntax, scope, inside, from : Rust!Enter(syntax, scope, inside, from) <=> Enter(syntax, scope, inside, from)
       /\ \A kind, name, qualified, container, parent, refs :
             Rust!Declare(kind, name, qualified, container, parent, refs) <=> Declare(kind, name, qualified, container, parent, refs)
       /\ \A kind, name, qualified : Rust!Leaf(kind, name, qualified) => Leaf(kind, name, qualified)
       /\ \A syntax, kind, name, qualified, label, seeks :
             Rust!Scope(syntax, kind, name, qualified, label, seeks)
             => Scope(syntax, kind, name, qualified, label, seeks)
       /\ \A word, name : Rust!Segment(word, name) = Segment(word, name)
       /\ \A from, seeking, edge : Rust!Refer(from, seeking, edge) => Refer(from, seeking, edge)
       /\ \A trait, type : Rust!ImplSegment(trait, type) = ImplSegment(trait, type)
<1>1. \A kind, container, name : Rust!MakeNode(kind, container, name) = MakeNode(kind, container, name)
  BY DEF Rust!MakeNode, MakeNode, Rust!NodeId, NodeId, Rust!NextDiscriminator, NextDiscriminator, Rust!Count, Count
<1>2. \A id, seeks : Rust!RefsOf(id, seeks) = RefsOf(id, seeks)
  BY DEF Rust!RefsOf, RefsOf, Rust!Ref, Ref
<1>3. Rust!Leave <=> Leave
  BY DEF Rust!Leave, Leave, Rust!Innermost, Innermost
<1>4. Rust!CurrentParent = CurrentParent /\ (Rust!AtTop <=> AtTop) /\ Rust!Innermost = Innermost
  BY DEF Rust!CurrentParent, CurrentParent, Rust!AtTop, AtTop, Rust!Innermost, Innermost
<1>5. \A syntax : Rust!In(syntax) <=> In(syntax)
  BY DEF Rust!In, In, Rust!Innermost, Innermost
<1>6. \A syntax, scope, inside, from : Rust!Enter(syntax, scope, inside, from) <=> Enter(syntax, scope, inside, from)
  BY DEF Rust!Enter, Enter
<1>7. \A kind, name, qualified, container, parent, refs :
        Rust!Declare(kind, name, qualified, container, parent, refs) <=> Declare(kind, name, qualified, container, parent, refs)
  BY DEF Rust!Declare, Declare, Rust!MakeNode, MakeNode, Rust!NodeId, NodeId, Rust!NextDiscriminator, NextDiscriminator,
     Rust!Count, Count, Rust!CountedOnce, CountedOnce, Rust!Cardinality, Cardinality
<1>8. \A kind, name, qualified : Rust!Leaf(kind, name, qualified) => Leaf(kind, name, qualified)
  BY <1>7, <1>4, Zenon DEF Rust!Leaf, Leaf, Rust!Stay, Stay
<1>9. \A syntax, kind, name, qualified, label, seeks :
        Rust!Scope(syntax, kind, name, qualified, label, seeks)
        => Scope(syntax, kind, name, qualified, label, seeks)
  BY <1>1, <1>7, <1>4, <1>6, <1>2, ZenonT(40) DEF Rust!Scope, Scope
<1>10. \A word, name : Rust!Segment(word, name) = Segment(word, name)
  BY DEF Rust!Segment, Segment
<1>11. \A from, seeking, edge : Rust!Refer(from, seeking, edge) => Refer(from, seeking, edge)
  BY DEF Rust!Refer, Refer, Rust!Ref, Ref, Rust!Cardinality, Cardinality
<1>12. \A trait, type : Rust!ImplSegment(trait, type) = ImplSegment(trait, type)
  BY DEF Rust!ImplSegment, ImplSegment
<1> QED
  BY <1>1, <1>2, <1>3, <1>4, <1>5, <1>6, <1>7, <1>8, <1>9, <1>10, <1>11, <1>12

LEMMA RustScopes ==
    ASSUME AreFacts(facts), Plain, NEW kind \in Kinds, NEW name \in Given
    PROVE  \A syntax \in Bodies, word \in Words : \A qualified, seeks :
               Rust!Scope(syntax, kind, name, qualified, Rust!Segment(word, name), seeks) => MakesScope
<1> SUFFICES ASSUME NEW syntax \in Bodies, NEW word \in Words, NEW qualified, NEW seeks,
                    Rust!Scope(syntax, kind, name, qualified, Rust!Segment(word, name), seeks)
             PROVE  MakesScope
  OBVIOUS
<1>1. Scope(syntax, kind, name, qualified, Rust!Segment(word, name), seeks)
  BY RustShares
<1>2. Rust!Segment(word, name) = Segment(word, name)
  BY RustShares
<1>3. Scope(syntax, kind, name, qualified, Segment(word, name), seeks)
  BY <1>1, <1>2, Zenon
<1> QED
  BY <1>3, DeclarationsMake

\* rust_pack.rs: an impl is a scope that is nobody's parent.
LEMMA RustWalks ==
    ASSUME WalkInv, language = "rust_pack", Rust!Next
    PROVE  Walks
<1> AreFacts(facts)
  BY DEF WalkInv
<1>1. CASE Rust!Leave
  BY <1>1, RustShares DEF Walks
<1>2. ASSUME Rust!Items
      PROVE  Plain
  BY <1>2, RustShares, InScope DEF Rust!Items, AtTop, Plain, Lists
<1>3. ASSUME NEW name \in Names
      PROVE  /\ Rust!Function(name) => MakesLeaf
             /\ Rust!Struct(name) \/ Rust!Enum(name) => MakesLeaf
             /\ Rust!Trait(name) \/ Rust!Mod(name) => MakesScope
             /\ Rust!Use(name) => Refers
  <2>1. name \in Given
    BY DEF Given
  <2>2. Rust!FunctionKinds \subseteq Kinds
    BY DEF Rust!FunctionKinds, Kinds
  <2>3. Rust!Function(name) => MakesLeaf
    BY <2>1, <2>2, RustShares, DeclarationsMake DEF Rust!Function
  <2>4. Rust!Struct(name) \/ Rust!Enum(name) => MakesLeaf
    BY <2>1, RustShares, DeclarationsMake DEF Rust!Struct, Rust!Enum, Kinds
  <2>5. Rust!Trait(name) \/ Rust!Mod(name) => MakesScope
    BY <1>2, <2>1, RustScopes DEF Rust!Trait, Rust!Mod, Kinds, Bodies, Words
  <2>6. Rust!Use(name) => Refers
    BY RustShares, RefersToo DEF Rust!Use
  <2> QED
    BY <2>3, <2>4, <2>5, <2>6
<1>4. ASSUME NEW trait \in Names \cup {""}, NEW type \in Names, Rust!Impl(trait, type)
      PROVE  EntersImpl
  <2>1. Enter("impl", <<ImplSegment(trait, type)>>, <<>>, CurrentParent)
    BY <1>4, RustShares DEF Rust!Impl
  <2> QED
    BY <1>2, <1>4, <2>1 DEF Rust!Impl, EntersImpl
<1> QED
  BY <1>1, <1>3, <1>4 DEF Rust!Next, Walks

LEMMA TsShares ==
       /\ \A kind, container, name : Ts!MakeNode(kind, container, name) = MakeNode(kind, container, name)
       /\ \A id, seeks : Ts!RefsOf(id, seeks) = RefsOf(id, seeks)
       /\ Ts!Leave <=> Leave
       /\ Ts!CurrentParent = CurrentParent /\ (Ts!AtTop <=> AtTop) /\ Ts!Innermost = Innermost
       /\ \A syntax : Ts!In(syntax) <=> In(syntax)
       /\ \A syntax, scope, inside, from : Ts!Enter(syntax, scope, inside, from) <=> Enter(syntax, scope, inside, from)
       /\ \A kind, name, qualified, container, parent, refs :
             Ts!Declare(kind, name, qualified, container, parent, refs) <=> Declare(kind, name, qualified, container, parent, refs)
       /\ \A kind, name, qualified : Ts!Leaf(kind, name, qualified) => Leaf(kind, name, qualified)
       /\ \A syntax, kind, name, qualified, label, seeks :
             Ts!Scope(syntax, kind, name, qualified, label, seeks)
             => Scope(syntax, kind, name, qualified, label, seeks)
       /\ \A word, name : Ts!Segment(word, name) = Segment(word, name)
       /\ \A from, seeking, edge : Ts!Refer(from, seeking, edge) => Refer(from, seeking, edge)
<1>1. \A kind, container, name : Ts!MakeNode(kind, container, name) = MakeNode(kind, container, name)
  BY DEF Ts!MakeNode, MakeNode, Ts!NodeId, NodeId, Ts!NextDiscriminator, NextDiscriminator, Ts!Count, Count
<1>2. \A id, seeks : Ts!RefsOf(id, seeks) = RefsOf(id, seeks)
  BY DEF Ts!RefsOf, RefsOf, Ts!Ref, Ref
<1>3. Ts!Leave <=> Leave
  BY DEF Ts!Leave, Leave, Ts!Innermost, Innermost
<1>4. Ts!CurrentParent = CurrentParent /\ (Ts!AtTop <=> AtTop) /\ Ts!Innermost = Innermost
  BY DEF Ts!CurrentParent, CurrentParent, Ts!AtTop, AtTop, Ts!Innermost, Innermost
<1>5. \A syntax : Ts!In(syntax) <=> In(syntax)
  BY DEF Ts!In, In, Ts!Innermost, Innermost
<1>6. \A syntax, scope, inside, from : Ts!Enter(syntax, scope, inside, from) <=> Enter(syntax, scope, inside, from)
  BY DEF Ts!Enter, Enter
<1>7. \A kind, name, qualified, container, parent, refs :
        Ts!Declare(kind, name, qualified, container, parent, refs) <=> Declare(kind, name, qualified, container, parent, refs)
  BY DEF Ts!Declare, Declare, Ts!MakeNode, MakeNode, Ts!NodeId, NodeId, Ts!NextDiscriminator, NextDiscriminator,
     Ts!Count, Count, Ts!CountedOnce, CountedOnce, Ts!Cardinality, Cardinality
<1>8. \A kind, name, qualified : Ts!Leaf(kind, name, qualified) => Leaf(kind, name, qualified)
  BY <1>7, <1>4, Zenon DEF Ts!Leaf, Leaf, Ts!Stay, Stay
<1>9. \A syntax, kind, name, qualified, label, seeks :
        Ts!Scope(syntax, kind, name, qualified, label, seeks)
        => Scope(syntax, kind, name, qualified, label, seeks)
  BY <1>1, <1>7, <1>4, <1>6, <1>2, ZenonT(40) DEF Ts!Scope, Scope
<1>10. \A word, name : Ts!Segment(word, name) = Segment(word, name)
  BY DEF Ts!Segment, Segment
<1>11. \A from, seeking, edge : Ts!Refer(from, seeking, edge) => Refer(from, seeking, edge)
  BY DEF Ts!Refer, Refer, Ts!Ref, Ref, Ts!Cardinality, Cardinality
<1> QED
  BY <1>1, <1>2, <1>3, <1>4, <1>5, <1>6, <1>7, <1>8, <1>9, <1>10, <1>11

LEMMA TsScopes ==
    ASSUME AreFacts(facts), Plain, NEW kind \in Kinds, NEW name \in Given
    PROVE  \A syntax \in Bodies, word \in Words : \A qualified, seeks :
               Ts!Scope(syntax, kind, name, qualified, Ts!Segment(word, name), seeks) => MakesScope
<1> SUFFICES ASSUME NEW syntax \in Bodies, NEW word \in Words, NEW qualified, NEW seeks,
                    Ts!Scope(syntax, kind, name, qualified, Ts!Segment(word, name), seeks)
             PROVE  MakesScope
  OBVIOUS
<1>1. Scope(syntax, kind, name, qualified, Ts!Segment(word, name), seeks)
  BY TsShares
<1>2. Ts!Segment(word, name) = Segment(word, name)
  BY TsShares
<1>3. Scope(syntax, kind, name, qualified, Segment(word, name), seeks)
  BY <1>1, <1>2, Zenon
<1> QED
  BY <1>3, DeclarationsMake

\* ts_pack.rs.
LEMMA TsWalks ==
    ASSUME WalkInv, language = "ts_pack", Ts!Next
    PROVE  Walks
<1> AreFacts(facts)
  BY DEF WalkInv
<1>1. CASE Ts!Leave
  BY <1>1, TsShares DEF Walks
<1>2. ASSUME Ts!Anywhere
      PROVE  Plain
  BY <1>2, TsShares, InScope DEF Ts!Anywhere, AtTop, Plain, Lists
<1>3. ASSUME NEW name \in Names
      PROVE  /\ Ts!FunctionDeclaration(name) \/ Ts!InterfaceDeclaration(name) \/ Ts!TypeAliasDeclaration(name) => MakesLeaf
             /\ Ts!EnumDeclaration(name) \/ Ts!MethodDefinition(name) \/ Ts!VariableDeclarator(name) => MakesLeaf
             /\ Ts!ClassDeclaration(name) => MakesScope
             /\ Ts!ImportStatement(name) => Refers
  <2>1. name \in Given
    BY DEF Given
  <2>2. Ts!FunctionDeclaration(name) \/ Ts!InterfaceDeclaration(name) \/ Ts!TypeAliasDeclaration(name) => MakesLeaf
    BY <2>1, TsShares, DeclarationsMake DEF Ts!FunctionDeclaration, Ts!InterfaceDeclaration, Ts!TypeAliasDeclaration, Kinds
  <2>3. Ts!EnumDeclaration(name) \/ Ts!MethodDefinition(name) \/ Ts!VariableDeclarator(name) => MakesLeaf
    BY <2>1, TsShares, DeclarationsMake DEF Ts!EnumDeclaration, Ts!MethodDefinition, Ts!VariableDeclarator, Kinds
  <2>4. Ts!ClassDeclaration(name) => MakesScope
    BY <1>2, <2>1, TsScopes DEF Ts!ClassDeclaration, Kinds, Bodies, Words
  <2>5. Ts!ImportStatement(name) => Refers
    BY TsShares, RefersToo DEF Ts!ImportStatement
  <2> QED
    BY <2>2, <2>3, <2>4, <2>5
<1> QED
  BY <1>1, <1>3 DEF Ts!Next, Walks

LEMMA PyShares ==
       /\ \A kind, container, name : Py!MakeNode(kind, container, name) = MakeNode(kind, container, name)
       /\ \A id, seeks : Py!RefsOf(id, seeks) = RefsOf(id, seeks)
       /\ Py!Leave <=> Leave
       /\ Py!CurrentParent = CurrentParent /\ (Py!AtTop <=> AtTop) /\ Py!Innermost = Innermost
       /\ \A syntax : Py!In(syntax) <=> In(syntax)
       /\ \A syntax, scope, inside, from : Py!Enter(syntax, scope, inside, from) <=> Enter(syntax, scope, inside, from)
       /\ \A kind, name, qualified, container, parent, refs :
             Py!Declare(kind, name, qualified, container, parent, refs) <=> Declare(kind, name, qualified, container, parent, refs)
       /\ \A kind, name, qualified : Py!Leaf(kind, name, qualified) => Leaf(kind, name, qualified)
       /\ \A syntax, kind, name, qualified, label, seeks :
             Py!Scope(syntax, kind, name, qualified, label, seeks)
             => Scope(syntax, kind, name, qualified, label, seeks)
       /\ \A word, name : Py!Segment(word, name) = Segment(word, name)
       /\ \A from, seeking, edge : Py!Refer(from, seeking, edge) => Refer(from, seeking, edge)
<1>1. \A kind, container, name : Py!MakeNode(kind, container, name) = MakeNode(kind, container, name)
  BY DEF Py!MakeNode, MakeNode, Py!NodeId, NodeId, Py!NextDiscriminator, NextDiscriminator, Py!Count, Count
<1>2. \A id, seeks : Py!RefsOf(id, seeks) = RefsOf(id, seeks)
  BY DEF Py!RefsOf, RefsOf, Py!Ref, Ref
<1>3. Py!Leave <=> Leave
  BY DEF Py!Leave, Leave, Py!Innermost, Innermost
<1>4. Py!CurrentParent = CurrentParent /\ (Py!AtTop <=> AtTop) /\ Py!Innermost = Innermost
  BY DEF Py!CurrentParent, CurrentParent, Py!AtTop, AtTop, Py!Innermost, Innermost
<1>5. \A syntax : Py!In(syntax) <=> In(syntax)
  BY DEF Py!In, In, Py!Innermost, Innermost
<1>6. \A syntax, scope, inside, from : Py!Enter(syntax, scope, inside, from) <=> Enter(syntax, scope, inside, from)
  BY DEF Py!Enter, Enter
<1>7. \A kind, name, qualified, container, parent, refs :
        Py!Declare(kind, name, qualified, container, parent, refs) <=> Declare(kind, name, qualified, container, parent, refs)
  BY DEF Py!Declare, Declare, Py!MakeNode, MakeNode, Py!NodeId, NodeId, Py!NextDiscriminator, NextDiscriminator,
     Py!Count, Count, Py!CountedOnce, CountedOnce, Py!Cardinality, Cardinality
<1>8. \A kind, name, qualified : Py!Leaf(kind, name, qualified) => Leaf(kind, name, qualified)
  BY <1>7, <1>4, Zenon DEF Py!Leaf, Leaf, Py!Stay, Stay
<1>9. \A syntax, kind, name, qualified, label, seeks :
        Py!Scope(syntax, kind, name, qualified, label, seeks)
        => Scope(syntax, kind, name, qualified, label, seeks)
  BY <1>1, <1>7, <1>4, <1>6, <1>2, ZenonT(40) DEF Py!Scope, Scope
<1>10. \A word, name : Py!Segment(word, name) = Segment(word, name)
  BY DEF Py!Segment, Segment
<1>11. \A from, seeking, edge : Py!Refer(from, seeking, edge) => Refer(from, seeking, edge)
  BY DEF Py!Refer, Refer, Py!Ref, Ref, Py!Cardinality, Cardinality
<1> QED
  BY <1>1, <1>2, <1>3, <1>4, <1>5, <1>6, <1>7, <1>8, <1>9, <1>10, <1>11

LEMMA PyScopes ==
    ASSUME AreFacts(facts), Plain, NEW kind \in Kinds, NEW name \in Given
    PROVE  \A syntax \in Bodies, word \in Words : \A qualified, seeks :
               Py!Scope(syntax, kind, name, qualified, Py!Segment(word, name), seeks) => MakesScope
<1> SUFFICES ASSUME NEW syntax \in Bodies, NEW word \in Words, NEW qualified, NEW seeks,
                    Py!Scope(syntax, kind, name, qualified, Py!Segment(word, name), seeks)
             PROVE  MakesScope
  OBVIOUS
<1>1. Scope(syntax, kind, name, qualified, Py!Segment(word, name), seeks)
  BY PyShares
<1>2. Py!Segment(word, name) = Segment(word, name)
  BY PyShares
<1>3. Scope(syntax, kind, name, qualified, Segment(word, name), seeks)
  BY <1>1, <1>2, Zenon
<1> QED
  BY <1>3, DeclarationsMake

\* py_pack.rs: everything that is open is a scope.
LEMMA PyWalks ==
    ASSUME WalkInv, language = "py_pack", Py!Next
    PROVE  Walks
<1> AreFacts(facts)
  BY DEF WalkInv
<1>1. CASE Py!Leave
  BY <1>1, PyShares DEF Walks
<1>2. Plain
  <2>1. open \in Seq(Entries) /\ Opened
    BY DEF WalkInv, Stacked
  <2>2. open # <<>> => Innermost = open[Len(open)] /\ Len(open) \in DOMAIN open
    BY <2>1 DEF Innermost
  <2> QED
    BY <2>1, <2>2 DEF Opened, Plain
<1>3. ASSUME NEW name \in Names
      PROVE  /\ Py!FunctionDefinition(name) \/ Py!ClassDefinition(name) => MakesScope
             /\ Py!TypeAlias(name) \/ Py!Assignment(name) => MakesLeaf
             /\ Py!Import(name) => Refers
  <2>1. name \in Given
    BY DEF Given
  <2>2. Py!FunctionKinds \subseteq Kinds
    BY DEF Py!FunctionKinds, Kinds
  <2>3. Py!FunctionDefinition(name) => MakesScope
    BY <1>2, <2>1, <2>2, PyScopes DEF Py!FunctionDefinition, Bodies, Words
  <2>4. Py!ClassDefinition(name) => MakesScope
    BY <1>2, <2>1, PyScopes DEF Py!ClassDefinition, Kinds, Bodies, Words
  <2>5. Py!TypeAlias(name) \/ Py!Assignment(name) => MakesLeaf
    BY <2>1, PyShares, DeclarationsMake DEF Py!TypeAlias, Py!Assignment, Kinds
  <2>6. Py!Import(name) => Refers
    BY PyShares, RefersToo DEF Py!Import
  <2> QED
    BY <2>3, <2>4, <2>5, <2>6
<1> QED
  BY <1>1, <1>3 DEF Py!Next, Walks

LEMMA GoShares ==
       /\ \A kind, container, name : Go!MakeNode(kind, container, name) = MakeNode(kind, container, name)
       /\ \A id, seeks : Go!RefsOf(id, seeks) = RefsOf(id, seeks)
       /\ Go!Leave <=> Leave
       /\ Go!CurrentParent = CurrentParent /\ (Go!AtTop <=> AtTop) /\ Go!Innermost = Innermost
       /\ \A syntax : Go!In(syntax) <=> In(syntax)
       /\ \A syntax, scope, inside, from : Go!Enter(syntax, scope, inside, from) <=> Enter(syntax, scope, inside, from)
       /\ \A kind, name, qualified, container, parent, refs :
             Go!Declare(kind, name, qualified, container, parent, refs) <=> Declare(kind, name, qualified, container, parent, refs)
       /\ \A kind, name, qualified : Go!Leaf(kind, name, qualified) => Leaf(kind, name, qualified)
       /\ \A syntax, kind, name, qualified, label, seeks :
             Go!Scope(syntax, kind, name, qualified, label, seeks)
             => Scope(syntax, kind, name, qualified, label, seeks)
       /\ \A word, name : Go!Segment(word, name) = Segment(word, name)
       /\ \A from, seeking, edge : Go!Refer(from, seeking, edge) => Refer(from, seeking, edge)
       /\ \A seeking, edge : Go!ReferInBody(seeking, edge) => ReferInBody(seeking, edge)
       /\ \A syntax, kind, name, qualified :
             Go!Open(syntax, kind, name, qualified) => Open(syntax, kind, name, qualified)
<1>1. \A kind, container, name : Go!MakeNode(kind, container, name) = MakeNode(kind, container, name)
  BY DEF Go!MakeNode, MakeNode, Go!NodeId, NodeId, Go!NextDiscriminator, NextDiscriminator, Go!Count, Count
<1>2. \A id, seeks : Go!RefsOf(id, seeks) = RefsOf(id, seeks)
  BY DEF Go!RefsOf, RefsOf, Go!Ref, Ref
<1>3. Go!Leave <=> Leave
  BY DEF Go!Leave, Leave, Go!Innermost, Innermost
<1>4. Go!CurrentParent = CurrentParent /\ (Go!AtTop <=> AtTop) /\ Go!Innermost = Innermost
  BY DEF Go!CurrentParent, CurrentParent, Go!AtTop, AtTop, Go!Innermost, Innermost
<1>5. \A syntax : Go!In(syntax) <=> In(syntax)
  BY DEF Go!In, In, Go!Innermost, Innermost
<1>6. \A syntax, scope, inside, from : Go!Enter(syntax, scope, inside, from) <=> Enter(syntax, scope, inside, from)
  BY DEF Go!Enter, Enter
<1>7. \A kind, name, qualified, container, parent, refs :
        Go!Declare(kind, name, qualified, container, parent, refs) <=> Declare(kind, name, qualified, container, parent, refs)
  BY DEF Go!Declare, Declare, Go!MakeNode, MakeNode, Go!NodeId, NodeId, Go!NextDiscriminator, NextDiscriminator,
     Go!Count, Count, Go!CountedOnce, CountedOnce, Go!Cardinality, Cardinality
<1>8. \A kind, name, qualified : Go!Leaf(kind, name, qualified) => Leaf(kind, name, qualified)
  BY <1>7, <1>4, Zenon DEF Go!Leaf, Leaf, Go!Stay, Stay
<1>9. \A syntax, kind, name, qualified, label, seeks :
        Go!Scope(syntax, kind, name, qualified, label, seeks)
        => Scope(syntax, kind, name, qualified, label, seeks)
  BY <1>1, <1>7, <1>4, <1>6, <1>2, ZenonT(40) DEF Go!Scope, Scope
<1>10. \A word, name : Go!Segment(word, name) = Segment(word, name)
  BY DEF Go!Segment, Segment
<1>11. \A from, seeking, edge : Go!Refer(from, seeking, edge) => Refer(from, seeking, edge)
  BY DEF Go!Refer, Refer, Go!Ref, Ref, Go!Cardinality, Cardinality
<1>12. \A seeking, edge : Go!ReferInBody(seeking, edge) => ReferInBody(seeking, edge)
  BY <1>11, <1>4, Zenon DEF Go!ReferInBody, ReferInBody
<1>13. \A syntax, kind, name, qualified :
        Go!Open(syntax, kind, name, qualified) => Open(syntax, kind, name, qualified)
  BY <1>1, <1>7, <1>4, <1>6, Zenon DEF Go!Open, Open
<1> QED
  BY <1>1, <1>2, <1>3, <1>4, <1>5, <1>6, <1>7, <1>8, <1>9, <1>10, <1>11, <1>12, <1>13

LEMMA GoScopes ==
    ASSUME AreFacts(facts), Plain, NEW kind \in Kinds, NEW name \in Given
    PROVE  \A syntax \in Bodies, word \in Words : \A qualified, seeks :
               Go!Scope(syntax, kind, name, qualified, Go!Segment(word, name), seeks) => MakesScope
<1> SUFFICES ASSUME NEW syntax \in Bodies, NEW word \in Words, NEW qualified, NEW seeks,
                    Go!Scope(syntax, kind, name, qualified, Go!Segment(word, name), seeks)
             PROVE  MakesScope
  OBVIOUS
<1>1. Scope(syntax, kind, name, qualified, Go!Segment(word, name), seeks)
  BY GoShares
<1>2. Go!Segment(word, name) = Segment(word, name)
  BY GoShares
<1>3. Scope(syntax, kind, name, qualified, Segment(word, name), seeks)
  BY <1>1, <1>2, Zenon
<1> QED
  BY <1>3, DeclarationsMake

\* go_pack.rs.
LEMMA GoWalks ==
    ASSUME WalkInv, language = "go_pack", Go!Next
    PROVE  Walks
<1> AreFacts(facts)
  BY DEF WalkInv
<1>1. CASE Go!Leave
  BY <1>1, GoShares DEF Walks
<1>2. ASSUME Go!AtTop \/ Go!In({"interface"})
      PROVE  Plain
  BY <1>2, GoShares, InScope DEF AtTop, Plain, Lists
<1>3. ASSUME NEW name \in Names
      PROVE  /\ Go!PackageClause(name) \/ Go!TypeAlias(name) \/ Go!ConstOrVarSpec(name) => MakesLeaf
             /\ Go!FunctionDeclaration(name) \/ Go!InterfaceMethod(name) => MakesList
             /\ Go!TypeSpec(name) => MakesScope \/ MakesLeaf
             /\ Go!ImportSpec(name) \/ Go!EmbeddedInterface(name) => Refers
             /\ \A receiver : Go!MethodDeclaration(receiver, name) => MakesList
             /\ \A type \in Given : Go!StructField(name, type) => MakesLeaf
  <2>1. name \in Given
    BY DEF Given
  <2>2. Go!PackageClause(name) \/ Go!TypeAlias(name) \/ Go!ConstOrVarSpec(name) => MakesLeaf
    BY <2>1, GoShares, DeclarationsMake DEF Go!PackageClause, Go!TypeAlias, Go!ConstOrVarSpec, Kinds
  <2>3. Go!FunctionDeclaration(name) \/ Go!InterfaceMethod(name) => MakesList
    BY <1>2, <2>1, GoShares, DeclarationsMake DEF Go!FunctionDeclaration, Go!InterfaceMethod, Kinds, Lists
  <2>4. Go!TypeSpec(name) => MakesScope \/ MakesLeaf
    <3>1. Go!Leaf("type", name, Go!Qualified(name)) => MakesLeaf
      BY <2>1, GoShares, DeclarationsMake DEF Kinds
    <3>2. ASSUME Plain, NEW kind \in {"struct", "interface"},
                 Go!Scope(kind, kind, name, Go!Qualified(name), Go!Segment("", name), {})
          PROVE  MakesScope
      <4>1. kind \in Kinds /\ kind \in Bodies /\ "" \in Words
        BY DEF Kinds, Bodies, Words
      <4> QED
        BY <2>1, <3>2, <4>1, GoScopes
    <3> QED
      BY <1>2, <3>1, <3>2 DEF Go!TypeSpec
  <2>5. Go!ImportSpec(name) \/ Go!EmbeddedInterface(name) => Refers
    BY GoShares, RefersToo DEF Go!ImportSpec, Go!EmbeddedInterface
  <2>6. \A receiver : Go!MethodDeclaration(receiver, name) => MakesList
    BY <1>2, <2>1, GoShares, DeclarationsMake DEF Go!MethodDeclaration, Kinds, Lists
  <2>7. ASSUME NEW other \in Given, Go!StructField(name, other)
        PROVE  MakesLeaf
    <3>1. \E known \in {name, other} : \E qualified, refs :
            Go!Declare("field", known, qualified, chain, Go!CurrentParent, refs) /\ Stay
      BY <2>7 DEF Go!StructField, Go!Stay, Stay
    <3>2. PICK known \in {name, other} : Makes("field", known, chain, CurrentParent) /\ Stay
      BY <2>1, <3>1, GoShares, DeclareMakes DEF Kinds
    <3> QED
      BY <3>2 DEF MakesLeaf
  <2> QED
    BY <2>2, <2>3, <2>4, <2>5, <2>6, <2>7
<1>4. \A name : Go!BodyReference(name) => Refers
  BY GoShares, RefersToo DEF Go!BodyReference
<1>5. Names \cup Builtins \subseteq Given
  BY DEF Given
<1> QED
  BY <1>1, <1>3, <1>4, <1>5 DEF Go!Next, Walks

LEMMA CShares ==
       /\ \A kind, container, name : C!MakeNode(kind, container, name) = MakeNode(kind, container, name)
       /\ \A id, seeks : C!RefsOf(id, seeks) = RefsOf(id, seeks)
       /\ C!Leave <=> Leave
       /\ C!CurrentParent = CurrentParent /\ (C!AtTop <=> AtTop) /\ C!Innermost = Innermost
       /\ \A syntax : C!In(syntax) <=> In(syntax)
       /\ \A syntax, scope, inside, from : C!Enter(syntax, scope, inside, from) <=> Enter(syntax, scope, inside, from)
       /\ \A kind, name, qualified, container, parent, refs :
             C!Declare(kind, name, qualified, container, parent, refs) <=> Declare(kind, name, qualified, container, parent, refs)
       /\ \A kind, name, qualified : C!Leaf(kind, name, qualified) => Leaf(kind, name, qualified)
       /\ \A syntax, kind, name, qualified, label, seeks :
             C!Scope(syntax, kind, name, qualified, label, seeks)
             => Scope(syntax, kind, name, qualified, label, seeks)
       /\ \A word, name : C!Segment(word, name) = Segment(word, name)
       /\ \A from, seeking, edge : C!Refer(from, seeking, edge) => Refer(from, seeking, edge)
       /\ \A seeking, edge : C!ReferInBody(seeking, edge) => ReferInBody(seeking, edge)
       /\ \A syntax, kind, name, qualified :
             C!Open(syntax, kind, name, qualified) => Open(syntax, kind, name, qualified)
       /\ \A kind, name : C!Listed(kind, name) => Listed(kind, name)
<1>1. \A kind, container, name : C!MakeNode(kind, container, name) = MakeNode(kind, container, name)
  BY DEF C!MakeNode, MakeNode, C!NodeId, NodeId, C!NextDiscriminator, NextDiscriminator, C!Count, Count
<1>2. \A id, seeks : C!RefsOf(id, seeks) = RefsOf(id, seeks)
  BY DEF C!RefsOf, RefsOf, C!Ref, Ref
<1>3. C!Leave <=> Leave
  BY DEF C!Leave, Leave, C!Innermost, Innermost
<1>4. C!CurrentParent = CurrentParent /\ (C!AtTop <=> AtTop) /\ C!Innermost = Innermost
  BY DEF C!CurrentParent, CurrentParent, C!AtTop, AtTop, C!Innermost, Innermost
<1>5. \A syntax : C!In(syntax) <=> In(syntax)
  BY DEF C!In, In, C!Innermost, Innermost
<1>6. \A syntax, scope, inside, from : C!Enter(syntax, scope, inside, from) <=> Enter(syntax, scope, inside, from)
  BY DEF C!Enter, Enter
<1>7. \A kind, name, qualified, container, parent, refs :
        C!Declare(kind, name, qualified, container, parent, refs) <=> Declare(kind, name, qualified, container, parent, refs)
  BY DEF C!Declare, Declare, C!MakeNode, MakeNode, C!NodeId, NodeId, C!NextDiscriminator, NextDiscriminator,
     C!Count, Count, C!CountedOnce, CountedOnce, C!Cardinality, Cardinality
<1>8. \A kind, name, qualified : C!Leaf(kind, name, qualified) => Leaf(kind, name, qualified)
  BY <1>7, <1>4, Zenon DEF C!Leaf, Leaf, C!Stay, Stay
<1>9. \A syntax, kind, name, qualified, label, seeks :
        C!Scope(syntax, kind, name, qualified, label, seeks)
        => Scope(syntax, kind, name, qualified, label, seeks)
  BY <1>1, <1>7, <1>4, <1>6, <1>2, ZenonT(40) DEF C!Scope, Scope
<1>10. \A word, name : C!Segment(word, name) = Segment(word, name)
  BY DEF C!Segment, Segment
<1>11. \A from, seeking, edge : C!Refer(from, seeking, edge) => Refer(from, seeking, edge)
  BY DEF C!Refer, Refer, C!Ref, Ref, C!Cardinality, Cardinality
<1>12. \A seeking, edge : C!ReferInBody(seeking, edge) => ReferInBody(seeking, edge)
  BY <1>11, <1>4, Zenon DEF C!ReferInBody, ReferInBody
<1>13. \A syntax, kind, name, qualified :
        C!Open(syntax, kind, name, qualified) => Open(syntax, kind, name, qualified)
  BY <1>1, <1>7, <1>4, <1>6, Zenon DEF C!Open, Open
<1>14. \A kind, name : C!Listed(kind, name) => Listed(kind, name)
  BY <1>7, <1>4, Zenon DEF C!Listed, Listed, C!Stay, Stay, C!Segment, Segment, C!Unqualified, Unqualified
<1> QED
  BY <1>1, <1>2, <1>3, <1>4, <1>5, <1>6, <1>7, <1>8, <1>9, <1>10, <1>11, <1>12, <1>13, <1>14

LEMMA CScopes ==
    ASSUME AreFacts(facts), Plain, NEW kind \in Kinds, NEW name \in Given
    PROVE  \A syntax \in Bodies, word \in Words : \A qualified, seeks :
               C!Scope(syntax, kind, name, qualified, C!Segment(word, name), seeks) => MakesScope
<1> SUFFICES ASSUME NEW syntax \in Bodies, NEW word \in Words, NEW qualified, NEW seeks,
                    C!Scope(syntax, kind, name, qualified, C!Segment(word, name), seeks)
             PROVE  MakesScope
  OBVIOUS
<1>1. Scope(syntax, kind, name, qualified, C!Segment(word, name), seeks)
  BY CShares
<1>2. C!Segment(word, name) = Segment(word, name)
  BY CShares
<1>3. Scope(syntax, kind, name, qualified, Segment(word, name), seeks)
  BY <1>1, <1>2, Zenon
<1> QED
  BY <1>3, DeclarationsMake

\* c_pack.rs.
LEMMA CWalks ==
    ASSUME WalkInv, language = "c_pack", C!Next
    PROVE  Walks
<1> AreFacts(facts)
  BY DEF WalkInv
<1>1. CASE C!Leave
  BY <1>1, CShares DEF Walks
<1>2. ASSUME C!AtTop
      PROVE  Plain
  BY <1>2, CShares DEF AtTop, Plain
<1>3. ASSUME NEW name \in Names
      PROVE  /\ C!PreprocDef(name) \/ C!PreprocFunctionDef(name) \/ C!Declaration(name) => MakesLeaf
             /\ C!TypeDefinition(name) \/ C!FieldDeclaration(name) => MakesLeaf
             /\ C!FunctionDefinition(name) \/ C!EnumSpecifier(name) => MakesList
             /\ C!StructSpecifier(name) \/ C!UnionSpecifier(name) => MakesScope \/ MakesLeaf
             /\ C!Enumerator(name) => MakesListed
             /\ C!Include(name) \/ C!BodyReference(name) => Refers
  <2>1. name \in Given
    BY DEF Given
  <2>2. C!PreprocDef(name) \/ C!PreprocFunctionDef(name) \/ C!Declaration(name) => MakesLeaf
    BY <2>1, CShares, DeclarationsMake DEF C!PreprocDef, C!PreprocFunctionDef, C!Declaration, Kinds
  <2>3. C!TypeDefinition(name) \/ C!FieldDeclaration(name) => MakesLeaf
    BY <2>1, CShares, DeclarationsMake DEF C!TypeDefinition, C!FieldDeclaration, Kinds
  <2>4. C!FunctionDefinition(name) \/ C!EnumSpecifier(name) => MakesList
    BY <1>2, <2>1, CShares, DeclarationsMake DEF C!FunctionDefinition, C!EnumSpecifier, Kinds, Lists
  <2>5. C!StructSpecifier(name) \/ C!UnionSpecifier(name) => MakesScope \/ MakesLeaf
    <3>1. C!Leaf("struct", name, C!Qualified(name)) => MakesLeaf
      BY <2>1, CShares, DeclarationsMake DEF Kinds
    <3>2. ASSUME Plain, C!Scope("fields", "struct", name, C!Qualified(name), C!Segment("", name), {})
          PROVE  MakesScope
      BY <2>1, <3>2, CScopes DEF Kinds, Bodies, Words
    <3> QED
      BY <1>2, <3>1, <3>2 DEF C!StructSpecifier, C!UnionSpecifier
  <2>6. C!Enumerator(name) => MakesListed
    BY <2>1, CShares, InEnumerators, DeclarationsMake DEF C!Enumerator, Kinds
  <2>7. C!Include(name) \/ C!BodyReference(name) => Refers
    BY CShares, RefersToo DEF C!Include, C!BodyReference
  <2> QED
    BY <2>2, <2>3, <2>4, <2>5, <2>6, <2>7
<1> QED
  BY <1>1, <1>3 DEF C!Next, Walks

LEMMA CppShares ==
       /\ \A kind, container, name : Cpp!MakeNode(kind, container, name) = MakeNode(kind, container, name)
       /\ \A id, seeks : Cpp!RefsOf(id, seeks) = RefsOf(id, seeks)
       /\ Cpp!Leave <=> Leave
       /\ Cpp!CurrentParent = CurrentParent /\ (Cpp!AtTop <=> AtTop) /\ Cpp!Innermost = Innermost
       /\ \A syntax : Cpp!In(syntax) <=> In(syntax)
       /\ \A syntax, scope, inside, from : Cpp!Enter(syntax, scope, inside, from) <=> Enter(syntax, scope, inside, from)
       /\ \A kind, name, qualified, container, parent, refs :
             Cpp!Declare(kind, name, qualified, container, parent, refs) <=> Declare(kind, name, qualified, container, parent, refs)
       /\ \A kind, name, qualified : Cpp!Leaf(kind, name, qualified) => Leaf(kind, name, qualified)
       /\ \A syntax, kind, name, qualified, label, seeks :
             Cpp!Scope(syntax, kind, name, qualified, label, seeks)
             => Scope(syntax, kind, name, qualified, label, seeks)
       /\ \A word, name : Cpp!Segment(word, name) = Segment(word, name)
       /\ \A from, seeking, edge : Cpp!Refer(from, seeking, edge) => Refer(from, seeking, edge)
       /\ \A seeking, edge : Cpp!ReferInBody(seeking, edge) => ReferInBody(seeking, edge)
       /\ \A syntax, kind, name, qualified :
             Cpp!Open(syntax, kind, name, qualified) => Open(syntax, kind, name, qualified)
       /\ \A kind, name : Cpp!Listed(kind, name) => Listed(kind, name)
<1>1. \A kind, container, name : Cpp!MakeNode(kind, container, name) = MakeNode(kind, container, name)
  BY DEF Cpp!MakeNode, MakeNode, Cpp!NodeId, NodeId, Cpp!NextDiscriminator, NextDiscriminator, Cpp!Count, Count
<1>2. \A id, seeks : Cpp!RefsOf(id, seeks) = RefsOf(id, seeks)
  BY DEF Cpp!RefsOf, RefsOf, Cpp!Ref, Ref
<1>3. Cpp!Leave <=> Leave
  BY DEF Cpp!Leave, Leave, Cpp!Innermost, Innermost
<1>4. Cpp!CurrentParent = CurrentParent /\ (Cpp!AtTop <=> AtTop) /\ Cpp!Innermost = Innermost
  BY DEF Cpp!CurrentParent, CurrentParent, Cpp!AtTop, AtTop, Cpp!Innermost, Innermost
<1>5. \A syntax : Cpp!In(syntax) <=> In(syntax)
  BY DEF Cpp!In, In, Cpp!Innermost, Innermost
<1>6. \A syntax, scope, inside, from : Cpp!Enter(syntax, scope, inside, from) <=> Enter(syntax, scope, inside, from)
  BY DEF Cpp!Enter, Enter
<1>7. \A kind, name, qualified, container, parent, refs :
        Cpp!Declare(kind, name, qualified, container, parent, refs) <=> Declare(kind, name, qualified, container, parent, refs)
  BY DEF Cpp!Declare, Declare, Cpp!MakeNode, MakeNode, Cpp!NodeId, NodeId, Cpp!NextDiscriminator, NextDiscriminator,
     Cpp!Count, Count, Cpp!CountedOnce, CountedOnce, Cpp!Cardinality, Cardinality
<1>8. \A kind, name, qualified : Cpp!Leaf(kind, name, qualified) => Leaf(kind, name, qualified)
  BY <1>7, <1>4, Zenon DEF Cpp!Leaf, Leaf, Cpp!Stay, Stay
<1>9. \A syntax, kind, name, qualified, label, seeks :
        Cpp!Scope(syntax, kind, name, qualified, label, seeks)
        => Scope(syntax, kind, name, qualified, label, seeks)
  BY <1>1, <1>7, <1>4, <1>6, <1>2, ZenonT(40) DEF Cpp!Scope, Scope
<1>10. \A word, name : Cpp!Segment(word, name) = Segment(word, name)
  BY DEF Cpp!Segment, Segment
<1>11. \A from, seeking, edge : Cpp!Refer(from, seeking, edge) => Refer(from, seeking, edge)
  BY DEF Cpp!Refer, Refer, Cpp!Ref, Ref, Cpp!Cardinality, Cardinality
<1>12. \A seeking, edge : Cpp!ReferInBody(seeking, edge) => ReferInBody(seeking, edge)
  BY <1>11, <1>4, Zenon DEF Cpp!ReferInBody, ReferInBody
<1>13. \A syntax, kind, name, qualified :
        Cpp!Open(syntax, kind, name, qualified) => Open(syntax, kind, name, qualified)
  BY <1>1, <1>7, <1>4, <1>6, Zenon DEF Cpp!Open, Open
<1>14. \A kind, name : Cpp!Listed(kind, name) => Listed(kind, name)
  BY <1>7, <1>4, Zenon DEF Cpp!Listed, Listed, Cpp!Stay, Stay, Cpp!Segment, Segment, Cpp!Unqualified, Unqualified
<1> QED
  BY <1>1, <1>2, <1>3, <1>4, <1>5, <1>6, <1>7, <1>8, <1>9, <1>10, <1>11, <1>12, <1>13, <1>14

LEMMA CppScopes ==
    ASSUME AreFacts(facts), Plain, NEW kind \in Kinds, NEW name \in Given
    PROVE  \A syntax \in Bodies, word \in Words : \A qualified, seeks :
               Cpp!Scope(syntax, kind, name, qualified, Cpp!Segment(word, name), seeks) => MakesScope
<1> SUFFICES ASSUME NEW syntax \in Bodies, NEW word \in Words, NEW qualified, NEW seeks,
                    Cpp!Scope(syntax, kind, name, qualified, Cpp!Segment(word, name), seeks)
             PROVE  MakesScope
  OBVIOUS
<1>1. Scope(syntax, kind, name, qualified, Cpp!Segment(word, name), seeks)
  BY CppShares
<1>2. Cpp!Segment(word, name) = Segment(word, name)
  BY CppShares
<1>3. Scope(syntax, kind, name, qualified, Segment(word, name), seeks)
  BY <1>1, <1>2, Zenon
<1> QED
  BY <1>3, DeclarationsMake

\* cpp_pack.rs.
LEMMA CppWalks ==
    ASSUME WalkInv, language = "cpp_pack", Cpp!Next
    PROVE  Walks
<1> AreFacts(facts)
  BY DEF WalkInv
<1>1. CASE Cpp!Leave
  BY <1>1, CppShares DEF Walks
<1>2. ASSUME Cpp!AtTop \/ Cpp!In({"namespace"}) \/ Cpp!Anywhere
      PROVE  Plain
  BY <1>2, CppShares, InScope DEF Cpp!Anywhere, AtTop, Plain, Lists
<1>3. ASSUME NEW name \in Names
      PROVE  /\ Cpp!PreprocDef(name) \/ Cpp!PreprocFunctionDef(name) \/ Cpp!FieldDeclaration(name) => MakesLeaf
             /\ Cpp!AliasDeclaration(name) \/ Cpp!TypeDefinition(name) \/ Cpp!Declaration(name) => MakesLeaf
             /\ Cpp!FunctionDefinition(name) \/ Cpp!EnumSpecifier(name) => MakesList
             /\ \A class : Cpp!MemberDefinition(class, name) => MakesList
             /\ Cpp!Namespace(name) => MakesScope
             /\ \A kind \in {"class", "struct"} : Cpp!ClassOrStruct(kind, name) => MakesScope \/ MakesLeaf
             /\ Cpp!Enumerator(name) => MakesListed
             /\ Cpp!Include(name) \/ Cpp!UsingDeclaration(name) => Refers
  <2>1. name \in Given
    BY DEF Given
  <2>2. Cpp!PreprocDef(name) \/ Cpp!PreprocFunctionDef(name) \/ Cpp!FieldDeclaration(name) => MakesLeaf
    BY <2>1, CppShares, DeclarationsMake DEF Cpp!PreprocDef, Cpp!PreprocFunctionDef, Cpp!FieldDeclaration, Kinds
  <2>3. Cpp!AliasDeclaration(name) \/ Cpp!TypeDefinition(name) \/ Cpp!Declaration(name) => MakesLeaf
    BY <2>1, CppShares, DeclarationsMake DEF Cpp!AliasDeclaration, Cpp!TypeDefinition, Cpp!Declaration, Kinds
  <2>4. Cpp!FunctionDefinition(name) => MakesList
    <3>1. ASSUME Cpp!FunctionDefinition(name)
          PROVE  Plain /\ \E kind \in {"function", "constructor", "method"} : Cpp!Open("body", kind, name, Cpp!Qualified(name))
      BY <1>2, <3>1 DEF Cpp!FunctionDefinition
    <3> QED
      BY <2>1, <3>1, CppShares, DeclarationsMake DEF Kinds, Lists
  <2>5. Cpp!EnumSpecifier(name) => MakesList
    BY <1>2, <2>1, CppShares, DeclarationsMake DEF Cpp!EnumSpecifier, Kinds, Lists
  <2>6. \A class : Cpp!MemberDefinition(class, name) => MakesList
    BY <1>2, <2>1, CppShares, DeclarationsMake DEF Cpp!MemberDefinition, Kinds, Lists
  <2>7. Cpp!Namespace(name) => MakesScope
    BY <1>2, <2>1, CppScopes DEF Cpp!Namespace, Kinds, Bodies, Words
  <2>8. ASSUME NEW kind \in {"class", "struct"}, Cpp!ClassOrStruct(kind, name)
        PROVE  MakesScope \/ MakesLeaf
    <3>1. kind \in Kinds
      BY DEF Kinds
    <3> QED
      <4>1. Cpp!Leaf(kind, name, Cpp!Qualified(name)) => MakesLeaf
        BY <2>1, <3>1, CppShares, DeclarationsMake
      <4>2. ASSUME Plain, NEW bases, Cpp!Scope("members", kind, name, Cpp!Qualified(name), Cpp!Segment("", name), bases)
            PROVE  MakesScope
        BY <2>1, <3>1, <4>2, CppScopes DEF Bodies, Words
      <4> QED
        BY <1>2, <2>8, <4>1, <4>2 DEF Cpp!ClassOrStruct
  <2>9. Cpp!Enumerator(name) => MakesListed
    BY <2>1, CppShares, InEnumerators, DeclarationsMake DEF Cpp!Enumerator, Kinds
  <2>10. Cpp!Include(name) \/ Cpp!UsingDeclaration(name) => Refers
    BY CppShares, RefersToo DEF Cpp!Include, Cpp!UsingDeclaration
  <2> QED
    BY <2>2, <2>3, <2>4, <2>5, <2>6, <2>7, <2>8, <2>9, <2>10
<1>4. \A name : Cpp!BodyReference(name) => Refers
  BY CppShares, RefersToo DEF Cpp!BodyReference
<1> QED
  BY <1>1, <1>3, <1>4 DEF Cpp!Next, Walks

LEMMA JavaShares ==
       /\ \A kind, container, name : Java!MakeNode(kind, container, name) = MakeNode(kind, container, name)
       /\ \A id, seeks : Java!RefsOf(id, seeks) = RefsOf(id, seeks)
       /\ Java!Leave <=> Leave
       /\ Java!CurrentParent = CurrentParent /\ (Java!AtTop <=> AtTop) /\ Java!Innermost = Innermost
       /\ \A syntax : Java!In(syntax) <=> In(syntax)
       /\ \A syntax, scope, inside, from : Java!Enter(syntax, scope, inside, from) <=> Enter(syntax, scope, inside, from)
       /\ \A kind, name, qualified, container, parent, refs :
             Java!Declare(kind, name, qualified, container, parent, refs) <=> Declare(kind, name, qualified, container, parent, refs)
       /\ \A kind, name, qualified : Java!Leaf(kind, name, qualified) => Leaf(kind, name, qualified)
       /\ \A syntax, kind, name, qualified, label, seeks :
             Java!Scope(syntax, kind, name, qualified, label, seeks)
             => Scope(syntax, kind, name, qualified, label, seeks)
       /\ \A word, name : Java!Segment(word, name) = Segment(word, name)
       /\ \A from, seeking, edge : Java!Refer(from, seeking, edge) => Refer(from, seeking, edge)
       /\ \A seeking, edge : Java!ReferInBody(seeking, edge) => ReferInBody(seeking, edge)
       /\ \A syntax, kind, name, qualified :
             Java!Open(syntax, kind, name, qualified) => Open(syntax, kind, name, qualified)
       /\ \A kind, name : Java!Listed(kind, name) => Listed(kind, name)
       /\ \A syntax : Java!EnterBody(syntax) <=> EnterBody(syntax)
<1>1. \A kind, container, name : Java!MakeNode(kind, container, name) = MakeNode(kind, container, name)
  BY DEF Java!MakeNode, MakeNode, Java!NodeId, NodeId, Java!NextDiscriminator, NextDiscriminator, Java!Count, Count
<1>2. \A id, seeks : Java!RefsOf(id, seeks) = RefsOf(id, seeks)
  BY DEF Java!RefsOf, RefsOf, Java!Ref, Ref
<1>3. Java!Leave <=> Leave
  BY DEF Java!Leave, Leave, Java!Innermost, Innermost
<1>4. Java!CurrentParent = CurrentParent /\ (Java!AtTop <=> AtTop) /\ Java!Innermost = Innermost
  BY DEF Java!CurrentParent, CurrentParent, Java!AtTop, AtTop, Java!Innermost, Innermost
<1>5. \A syntax : Java!In(syntax) <=> In(syntax)
  BY DEF Java!In, In, Java!Innermost, Innermost
<1>6. \A syntax, scope, inside, from : Java!Enter(syntax, scope, inside, from) <=> Enter(syntax, scope, inside, from)
  BY DEF Java!Enter, Enter
<1>7. \A kind, name, qualified, container, parent, refs :
        Java!Declare(kind, name, qualified, container, parent, refs) <=> Declare(kind, name, qualified, container, parent, refs)
  BY DEF Java!Declare, Declare, Java!MakeNode, MakeNode, Java!NodeId, NodeId, Java!NextDiscriminator, NextDiscriminator,
     Java!Count, Count, Java!CountedOnce, CountedOnce, Java!Cardinality, Cardinality
<1>8. \A kind, name, qualified : Java!Leaf(kind, name, qualified) => Leaf(kind, name, qualified)
  BY <1>7, <1>4, Zenon DEF Java!Leaf, Leaf, Java!Stay, Stay
<1>9. \A syntax, kind, name, qualified, label, seeks :
        Java!Scope(syntax, kind, name, qualified, label, seeks)
        => Scope(syntax, kind, name, qualified, label, seeks)
  BY <1>1, <1>7, <1>4, <1>6, <1>2, ZenonT(40) DEF Java!Scope, Scope
<1>10. \A word, name : Java!Segment(word, name) = Segment(word, name)
  BY DEF Java!Segment, Segment
<1>11. \A from, seeking, edge : Java!Refer(from, seeking, edge) => Refer(from, seeking, edge)
  BY DEF Java!Refer, Refer, Java!Ref, Ref, Java!Cardinality, Cardinality
<1>12. \A seeking, edge : Java!ReferInBody(seeking, edge) => ReferInBody(seeking, edge)
  BY <1>11, <1>4, Zenon DEF Java!ReferInBody, ReferInBody
<1>13. \A syntax, kind, name, qualified :
        Java!Open(syntax, kind, name, qualified) => Open(syntax, kind, name, qualified)
  BY <1>1, <1>7, <1>4, <1>6, Zenon DEF Java!Open, Open
<1>14. \A kind, name : Java!Listed(kind, name) => Listed(kind, name)
  BY <1>7, <1>4, Zenon DEF Java!Listed, Listed, Java!Stay, Stay, Java!Segment, Segment, Java!Unqualified, Unqualified
<1>15. \A syntax : Java!EnterBody(syntax) <=> EnterBody(syntax)
  BY Zenon DEF Java!EnterBody, EnterBody, Java!Innermost, Innermost, Java!Segment, Segment
<1> QED
  BY <1>1, <1>2, <1>3, <1>4, <1>5, <1>6, <1>7, <1>8, <1>9, <1>10, <1>11, <1>12, <1>13, <1>14, <1>15

LEMMA JavaScopes ==
    ASSUME AreFacts(facts), Plain, NEW kind \in Kinds, NEW name \in Given
    PROVE  \A syntax \in Bodies, word \in Words : \A qualified, seeks :
               Java!Scope(syntax, kind, name, qualified, Java!Segment(word, name), seeks) => MakesScope
<1> SUFFICES ASSUME NEW syntax \in Bodies, NEW word \in Words, NEW qualified, NEW seeks,
                    Java!Scope(syntax, kind, name, qualified, Java!Segment(word, name), seeks)
             PROVE  MakesScope
  OBVIOUS
<1>1. Scope(syntax, kind, name, qualified, Java!Segment(word, name), seeks)
  BY JavaShares
<1>2. Java!Segment(word, name) = Segment(word, name)
  BY JavaShares
<1>3. Scope(syntax, kind, name, qualified, Segment(word, name), seeks)
  BY <1>1, <1>2, Zenon
<1> QED
  BY <1>3, DeclarationsMake

\* java_pack.rs: the body of a record follows its components.
LEMMA JavaWalks ==
    ASSUME WalkInv, language = "java_pack", Java!Next
    PROVE  Walks
<1> AreFacts(facts)
  BY DEF WalkInv
<1>1. CASE Java!Leave
  BY <1>1, JavaShares DEF Walks
<1>2. ASSUME Java!AtTop \/ Java!In({"members"}) \/ Java!Anywhere
      PROVE  Plain
  BY <1>2, JavaShares, InScope DEF Java!Anywhere, AtTop, Plain, Lists
<1>3. Java!RecordBody => EntersBody
  <2>1. Java!RecordBody => In({"components"}) /\ EnterBody("members")
    BY JavaShares DEF Java!RecordBody
  <2> QED
    BY <2>1 DEF EntersBody, In
<1>4. ASSUME NEW name \in Names
      PROVE  /\ Java!PackageDeclaration(name) \/ Java!FieldDeclaration(name) => MakesLeaf
             /\ Java!RecordDeclaration(name) \/ Java!ConstructorDeclaration(name) \/ Java!MethodDeclaration(name) => MakesList
             /\ Java!ClassDeclaration(name) \/ Java!InterfaceDeclaration(name) => MakesScope
             /\ Java!EnumDeclaration(name) \/ Java!AnnotationDeclaration(name) => MakesScope
             /\ Java!EnumConstant(name) \/ Java!RecordComponent(name) => MakesListed
             /\ Java!ImportDeclaration(name) => Refers
  <2>1. name \in Given
    BY DEF Given
  <2>2. Java!PackageDeclaration(name) \/ Java!FieldDeclaration(name) => MakesLeaf
    BY <2>1, JavaShares, DeclarationsMake DEF Java!PackageDeclaration, Java!FieldDeclaration, Kinds
  <2>3. Java!RecordDeclaration(name) \/ Java!ConstructorDeclaration(name) \/ Java!MethodDeclaration(name) => MakesList
    BY <1>2, <2>1, JavaShares, DeclarationsMake DEF Java!RecordDeclaration, Java!ConstructorDeclaration, Java!MethodDeclaration, Kinds, Lists
  <2>4. Java!ClassDeclaration(name) \/ Java!InterfaceDeclaration(name) => MakesScope
    BY <1>2, <2>1, JavaScopes DEF Java!ClassDeclaration, Java!InterfaceDeclaration, Kinds, Bodies, Words
  <2>5. Java!EnumDeclaration(name) \/ Java!AnnotationDeclaration(name) => MakesScope
    BY <1>2, <2>1, JavaScopes DEF Java!EnumDeclaration, Java!AnnotationDeclaration, Kinds, Bodies, Words
  <2>6. Java!EnumConstant(name) => MakesListed
    <3>1. Java!EnumConstant(name) => open # <<>> /\ Innermost.from.kind = "enum" /\ Java!Listed("constant", name)
      BY JavaShares DEF Java!EnumConstant, In
    <3> QED
      BY <2>1, <3>1, JavaShares, DeclarationsMake DEF Kinds
  <2>7. Java!RecordComponent(name) => MakesListed
    <3>1. Java!RecordComponent(name) => open # <<>> /\ Java!Listed("field", name)
      BY JavaShares DEF Java!RecordComponent, In
    <3> QED
      BY <2>1, <3>1, JavaShares, DeclarationsMake DEF Kinds
  <2>8. Java!ImportDeclaration(name) => Refers
    BY JavaShares, RefersToo DEF Java!ImportDeclaration
  <2> QED
    BY <2>2, <2>3, <2>4, <2>5, <2>6, <2>7, <2>8
<1>5. \A name : Java!BodyReference(name) => Refers
  BY JavaShares, RefersToo DEF Java!BodyReference
<1> QED
  BY <1>1, <1>3, <1>4, <1>5 DEF Java!Next, Walks

LEMMA CSharpShares ==
       /\ \A kind, container, name : CSharp!MakeNode(kind, container, name) = MakeNode(kind, container, name)
       /\ \A id, seeks : CSharp!RefsOf(id, seeks) = RefsOf(id, seeks)
       /\ CSharp!Leave <=> Leave
       /\ CSharp!CurrentParent = CurrentParent /\ (CSharp!AtTop <=> AtTop) /\ CSharp!Innermost = Innermost
       /\ \A syntax : CSharp!In(syntax) <=> In(syntax)
       /\ \A syntax, scope, inside, from : CSharp!Enter(syntax, scope, inside, from) <=> Enter(syntax, scope, inside, from)
       /\ \A kind, name, qualified, container, parent, refs :
             CSharp!Declare(kind, name, qualified, container, parent, refs) <=> Declare(kind, name, qualified, container, parent, refs)
       /\ \A kind, name, qualified : CSharp!Leaf(kind, name, qualified) => Leaf(kind, name, qualified)
       /\ \A syntax, kind, name, qualified, label, seeks :
             CSharp!Scope(syntax, kind, name, qualified, label, seeks)
             => Scope(syntax, kind, name, qualified, label, seeks)
       /\ \A word, name : CSharp!Segment(word, name) = Segment(word, name)
       /\ \A from, seeking, edge : CSharp!Refer(from, seeking, edge) => Refer(from, seeking, edge)
       /\ \A seeking, edge : CSharp!ReferInBody(seeking, edge) => ReferInBody(seeking, edge)
       /\ \A syntax, kind, name, qualified :
             CSharp!Open(syntax, kind, name, qualified) => Open(syntax, kind, name, qualified)
       /\ \A kind, name : CSharp!Listed(kind, name) => Listed(kind, name)
       /\ \A syntax : CSharp!EnterBody(syntax) <=> EnterBody(syntax)
<1>1. \A kind, container, name : CSharp!MakeNode(kind, container, name) = MakeNode(kind, container, name)
  BY DEF CSharp!MakeNode, MakeNode, CSharp!NodeId, NodeId, CSharp!NextDiscriminator, NextDiscriminator, CSharp!Count, Count
<1>2. \A id, seeks : CSharp!RefsOf(id, seeks) = RefsOf(id, seeks)
  BY DEF CSharp!RefsOf, RefsOf, CSharp!Ref, Ref
<1>3. CSharp!Leave <=> Leave
  BY DEF CSharp!Leave, Leave, CSharp!Innermost, Innermost
<1>4. CSharp!CurrentParent = CurrentParent /\ (CSharp!AtTop <=> AtTop) /\ CSharp!Innermost = Innermost
  BY DEF CSharp!CurrentParent, CurrentParent, CSharp!AtTop, AtTop, CSharp!Innermost, Innermost
<1>5. \A syntax : CSharp!In(syntax) <=> In(syntax)
  BY DEF CSharp!In, In, CSharp!Innermost, Innermost
<1>6. \A syntax, scope, inside, from : CSharp!Enter(syntax, scope, inside, from) <=> Enter(syntax, scope, inside, from)
  BY DEF CSharp!Enter, Enter
<1>7. \A kind, name, qualified, container, parent, refs :
        CSharp!Declare(kind, name, qualified, container, parent, refs) <=> Declare(kind, name, qualified, container, parent, refs)
  BY DEF CSharp!Declare, Declare, CSharp!MakeNode, MakeNode, CSharp!NodeId, NodeId, CSharp!NextDiscriminator, NextDiscriminator,
     CSharp!Count, Count, CSharp!CountedOnce, CountedOnce, CSharp!Cardinality, Cardinality
<1>8. \A kind, name, qualified : CSharp!Leaf(kind, name, qualified) => Leaf(kind, name, qualified)
  BY <1>7, <1>4, Zenon DEF CSharp!Leaf, Leaf, CSharp!Stay, Stay
<1>9. \A syntax, kind, name, qualified, label, seeks :
        CSharp!Scope(syntax, kind, name, qualified, label, seeks)
        => Scope(syntax, kind, name, qualified, label, seeks)
  BY <1>1, <1>7, <1>4, <1>6, <1>2, ZenonT(40) DEF CSharp!Scope, Scope
<1>10. \A word, name : CSharp!Segment(word, name) = Segment(word, name)
  BY DEF CSharp!Segment, Segment
<1>11. \A from, seeking, edge : CSharp!Refer(from, seeking, edge) => Refer(from, seeking, edge)
  BY DEF CSharp!Refer, Refer, CSharp!Ref, Ref, CSharp!Cardinality, Cardinality
<1>12. \A seeking, edge : CSharp!ReferInBody(seeking, edge) => ReferInBody(seeking, edge)
  BY <1>11, <1>4, Zenon DEF CSharp!ReferInBody, ReferInBody
<1>13. \A syntax, kind, name, qualified :
        CSharp!Open(syntax, kind, name, qualified) => Open(syntax, kind, name, qualified)
  BY <1>1, <1>7, <1>4, <1>6, Zenon DEF CSharp!Open, Open
<1>14. \A kind, name : CSharp!Listed(kind, name) => Listed(kind, name)
  BY <1>7, <1>4, Zenon DEF CSharp!Listed, Listed, CSharp!Stay, Stay, CSharp!Segment, Segment, CSharp!Unqualified, Unqualified
<1>15. \A syntax : CSharp!EnterBody(syntax) <=> EnterBody(syntax)
  BY Zenon DEF CSharp!EnterBody, EnterBody, CSharp!Innermost, Innermost, CSharp!Segment, Segment
<1> QED
  BY <1>1, <1>2, <1>3, <1>4, <1>5, <1>6, <1>7, <1>8, <1>9, <1>10, <1>11, <1>12, <1>13, <1>14, <1>15

LEMMA CSharpScopes ==
    ASSUME AreFacts(facts), Plain, NEW kind \in Kinds, NEW name \in Given
    PROVE  \A syntax \in Bodies, word \in Words : \A qualified, seeks :
               CSharp!Scope(syntax, kind, name, qualified, CSharp!Segment(word, name), seeks) => MakesScope
<1> SUFFICES ASSUME NEW syntax \in Bodies, NEW word \in Words, NEW qualified, NEW seeks,
                    CSharp!Scope(syntax, kind, name, qualified, CSharp!Segment(word, name), seeks)
             PROVE  MakesScope
  OBVIOUS
<1>1. Scope(syntax, kind, name, qualified, CSharp!Segment(word, name), seeks)
  BY CSharpShares
<1>2. CSharp!Segment(word, name) = Segment(word, name)
  BY CSharpShares
<1>3. Scope(syntax, kind, name, qualified, Segment(word, name), seeks)
  BY <1>1, <1>2, Zenon
<1> QED
  BY <1>3, DeclarationsMake

\* csharp_pack.rs: a namespace without a block is never left.
LEMMA CSharpWalks ==
    ASSUME WalkInv, language = "csharp_pack", CSharp!Next
    PROVE  Walks
<1> AreFacts(facts)
  BY DEF WalkInv
<1>1. CASE CSharp!Leave
  BY <1>1, CSharpShares DEF Walks
<1>2. ASSUME CSharp!AtTop \/ CSharp!In({"namespace"}) \/ CSharp!In({"members"}) \/ CSharp!Anywhere
      PROVE  Plain
  BY <1>2, CSharpShares, InScope DEF CSharp!Anywhere, AtTop, Plain, Lists
<1>3. CSharp!TypeBody => EntersBody
  <2>1. CSharp!TypeBody => In({"parameters"}) /\ EnterBody("members")
    BY CSharpShares DEF CSharp!TypeBody
  <2> QED
    BY <2>1 DEF EntersBody, In
<1>4. ASSUME NEW name \in Names
      PROVE  /\ CSharp!DelegateDeclaration(name) \/ CSharp!PropertyDeclaration(name) \/ CSharp!FieldDeclaration(name) => MakesLeaf
             /\ CSharp!EnumDeclaration(name) => MakesList
             /\ CSharp!ConstructorDeclaration(name) \/ CSharp!MethodDeclaration(name) => MakesList
             /\ \A kind \in {"class", "interface", "struct"} : CSharp!TypeDeclaration(kind, name) => MakesList
             /\ CSharp!Namespace(name) => MakesScope
             /\ CSharp!FileScopedNamespace(name) => MakesNamespace
             /\ CSharp!EnumMember(name) \/ CSharp!PrimaryParameter(name) => MakesListed
             /\ CSharp!UsingDirective(name) => Refers
  <2>1. name \in Given
    BY DEF Given
  <2>2. CSharp!DelegateDeclaration(name) \/ CSharp!PropertyDeclaration(name) \/ CSharp!FieldDeclaration(name) => MakesLeaf
    BY <2>1, CSharpShares, DeclarationsMake DEF CSharp!DelegateDeclaration, CSharp!PropertyDeclaration, CSharp!FieldDeclaration, Kinds
  <2>3. CSharp!EnumDeclaration(name) => MakesList
    BY <1>2, <2>1, CSharpShares, DeclarationsMake DEF CSharp!EnumDeclaration, Kinds, Lists
  <2>4. CSharp!ConstructorDeclaration(name) \/ CSharp!MethodDeclaration(name) => MakesList
    BY <1>2, <2>1, CSharpShares, DeclarationsMake DEF CSharp!ConstructorDeclaration, CSharp!MethodDeclaration, Kinds, Lists
  <2>5. ASSUME NEW kind \in {"class", "interface", "struct"}, CSharp!TypeDeclaration(kind, name)
        PROVE  MakesList
    <3>1. Plain /\ kind \in Kinds
      BY <1>2, <2>5 DEF CSharp!TypeDeclaration, Kinds
    <3>2. PICK refs : CSharp!Declare(kind, name, CSharp!Qualified(name), chain, CSharp!CurrentParent, refs)
      BY <2>5 DEF CSharp!TypeDeclaration
    <3>3. Makes(kind, name, chain, CurrentParent)
      BY <2>1, <3>1, <3>2, CSharpShares, DeclareMakes
    <3>4. CSharp!Enter("parameters", <<>>, <<>>, CSharp!MakeNode(kind, chain, name))
      BY <2>5 DEF CSharp!TypeDeclaration
    <3>5. Enter("parameters", <<>>, <<>>, MakeNode(kind, chain, name))
      BY <3>4, CSharpShares
    <3>6. "parameters" \in Lists /\ "parameters" # "enumerators" /\ language \notin {"py_pack", "prose_pack"}
      BY DEF Lists
    <3> QED
      BY <3>1, <3>3, <3>5, <3>6 DEF MakesList
  <2>6. CSharp!Namespace(name) => MakesScope
    BY <1>2, <2>1, CSharpScopes DEF CSharp!Namespace, Kinds, Bodies, Words
  <2>7. ASSUME CSharp!FileScopedNamespace(name)
        PROVE  MakesNamespace
    <3>1. /\ CSharp!AtTop /\ CSharp!Declare("namespace", name, CSharp!Qualified(name), chain, CSharp!CurrentParent, {})
          /\ chain' = Append(chain, CSharp!Segment("", name))
          /\ parents' = Append(parents, CSharp!MakeNode("namespace", chain, name))
          /\ UNCHANGED <<language, open>>
      BY <2>7 DEF CSharp!FileScopedNamespace
    <3>2. Makes("namespace", name, chain, CurrentParent)
      BY <2>1, <3>1, CSharpShares, DeclareMakes DEF Kinds
    <3>3. CSharp!Segment("", name) = Segment("", name) /\ open = <<>>
      BY <3>1, CSharpShares DEF AtTop
    <3>4. CSharp!MakeNode("namespace", chain, name) = MakeNode("namespace", chain, name)
      BY CSharpShares
    <3> QED
      BY <3>1, <3>2, <3>3, <3>4, Zenon DEF MakesNamespace
  <2>8. CSharp!EnumMember(name) => MakesListed
    BY <2>1, CSharpShares, InEnumerators, DeclarationsMake DEF CSharp!EnumMember, Kinds
  <2>9. CSharp!PrimaryParameter(name) => MakesListed
    <3>1. CSharp!PrimaryParameter(name) => open # <<>> /\ CSharp!Listed("field", name)
      BY CSharpShares DEF CSharp!PrimaryParameter, In
    <3> QED
      BY <2>1, <3>1, CSharpShares, DeclarationsMake DEF Kinds
  <2>10. CSharp!UsingDirective(name) => Refers
    BY CSharpShares, RefersToo DEF CSharp!UsingDirective
  <2> QED
    BY <2>2, <2>3, <2>4, <2>5, <2>6, <2>7, <2>8, <2>9, <2>10
<1>5. \A name : CSharp!BodyReference(name) => Refers
  BY CSharpShares, RefersToo DEF CSharp!BodyReference
<1> QED
  BY <1>1, <1>3, <1>4, <1>5 DEF CSharp!Next, Walks

\* prose_pack.rs: a heading closes the sections that its level ends.
LEMMA ProseWalks ==
    ASSUME WalkInv, language = "prose_pack", Prose!Next
    PROVE  Walks
<1>1. ASSUME NEW name, Prose!Link(name)
      PROVE  Refers
  BY <1>1 DEF Prose!Link, Prose!Refer, Refers, AreFacts, WalkInv
<1>2. ASSUME NEW text \in Names, NEW level \in Prose!Levels, Prose!Heading(level, text)
      PROVE  MakesSection
  <2> DEFINE depth == Prose!Above(level)
             container == SubSeq(chain, 1, depth)
             parent == parents[depth + 1]
             heading == MakeNode("heading", container, text)
             section == MakeNode("section", container, text)
  <2>1. depth \in 0 .. Len(open)
    <3>1. open \in Seq(Entries)
      BY DEF WalkInv, Stacked
    <3>2. Len(open) \in Nat
      BY <3>1
    <3> DEFINE levels == {i \in 1 .. Len(open) : open[i].syntax < level}
    <3>3. IsFiniteSet(1 .. Len(open)) /\ Cardinality(1 .. Len(open)) = Len(open)
      <4>1. 1 \in Int /\ Len(open) \in Int /\ Len(open) - 1 + 1 = Len(open)
        BY <3>2
      <4>2. /\ IsFiniteSet(1 .. Len(open))
            /\ Cardinality(1 .. Len(open)) = IF 1 > Len(open) THEN 0 ELSE Len(open) - 1 + 1
        BY <4>1, FS_Interval
      <4> QED
        BY <3>2, <4>1, <4>2
    <3>4. levels \subseteq 1 .. Len(open)
      OBVIOUS
    <3> HIDE DEF levels
    <3>5. IsFiniteSet(levels) /\ Cardinality(levels) <= Len(open)
      BY <3>3, <3>4, FS_Subset
    <3>6. Cardinality(levels) \in Nat
      BY <3>5, FS_CardinalityType
    <3>7. depth = Cardinality(levels)
      BY DEF Prose!Above, levels, Prose!Cardinality, Cardinality
    <3> HIDE DEF depth
    <3> QED
      BY <3>2, <3>5, <3>6, <3>7
  <2> HIDE DEF depth
  <2>2. text \in Given /\ level \in Nat
    BY DEF Given, Prose!Levels
  <2>3. \A kind : Prose!MakeNode(kind, container, text) = MakeNode(kind, container, text)
    BY DEF Prose!MakeNode, MakeNode, Prose!NodeId, NodeId, Prose!NextDiscriminator, NextDiscriminator, Prose!Count, Count
  <2>4. /\ tracker' = CountedOnce({<<"heading", container, text>>, <<"section", container, text>>})
        /\ chain' = container \o <<Segment("", text)>>
        /\ parents' = Append(SubSeq(parents, 1, depth + 1), section)
        /\ open' = Append(SubSeq(open, 1, depth), [syntax |-> level, scopes |-> 1, ids |-> 1, from |-> section])
        /\ UNCHANGED language
    BY <1>2, <2>3, Zenon DEF Prose!Heading, Prose!CountedOnce, CountedOnce, Prose!Count, Count, Prose!Segment, Segment, depth
  <2>5. facts' = [facts EXCEPT
              !.nodes = @ \cup {[id |-> heading, qualified |-> Prose!Unqualified(text)],
                                [id |-> section, qualified |-> Prose!Unqualified(text)]},
              !.edges = @ \cup {[from |-> parent, to |-> heading], [from |-> parent, to |-> section]},
              !.claims = @ + 2]
    <3> DEFINE h == Prose!MakeNode("heading", container, text)
               t == Prose!MakeNode("section", container, text)
    <3>1. facts' = [facts EXCEPT
              !.nodes = @ \cup {[id |-> h, qualified |-> Prose!Unqualified(text)],
                                [id |-> t, qualified |-> Prose!Unqualified(text)]},
              !.edges = @ \cup {[from |-> parent, to |-> h], [from |-> parent, to |-> t]},
              !.claims = @ + 2]
      BY <1>2 DEF Prose!Heading, depth
    <3>2. h = heading /\ t = section
      BY <2>3
    <3> HIDE DEF h, t, heading, section, parent
    <3> QED
      BY <3>1, <3>2
  <2> HIDE DEF heading, section, parent, container
  <2>6. AreFacts(facts)
    BY DEF WalkInv
  <2>7. /\ facts'.edges = facts.edges \cup {[from |-> parent, to |-> heading], [from |-> parent, to |-> section]}
        /\ facts'.nodes = facts.nodes \cup {[id |-> heading, qualified |-> Prose!Unqualified(text)],
                                            [id |-> section, qualified |-> Prose!Unqualified(text)]}
        /\ facts'.claims = facts.claims + 2 /\ AreFacts(facts')
    BY <2>5, <2>6 DEF AreFacts
  <2>8. Ids' = Ids \cup {heading, section}
    <3> DEFINE q == Prose!Unqualified(text)
               x == [id |-> heading, qualified |-> q]
               y == [id |-> section, qualified |-> q]
    <3>1. x.id = heading /\ y.id = section
      OBVIOUS
    <3>2. facts'.nodes = facts.nodes \cup {x, y}
      BY <2>7
    <3> HIDE DEF x, y
    <3>3. \A z : z \in Ids' <=> \E n \in facts'.nodes : z = n.id
      BY DEF Ids
    <3>4. \A z : z \in Ids <=> \E n \in facts.nodes : z = n.id
      BY DEF Ids
    <3>5. \A z : z \in Ids' <=> z \in Ids \cup {heading, section}
      BY <3>1, <3>2, <3>3, <3>4
    <3> QED
      BY <3>5
  <2>9. chain' = Append(container, Segment("", text))
    <3>1. Segment("", text) = NameLabel(text) /\ NameLabel(text) \in Labels
      BY <2>2, NameIsLabel, Zenon DEF NameLabel
    <3>2. container \in Seq(Labels)
      <4>1. chain \in Seq(Labels) /\ open \in Seq(Entries) /\ parents \in Seq(NodeIds)
        BY DEF WalkInv, Stacked
      <4>2. Plain
        <5>1. open # <<>> => Innermost = open[Len(open)] /\ Len(open) \in DOMAIN open
          BY <4>1 DEF Innermost
        <5> QED
          BY <5>1 DEF Opened, WalkInv, Plain
      <4>3. Len(open) <= Len(chain)
        BY <4>2 DEF WalkInv, Stacked
      <4>4. depth \in 0 .. Len(chain)
        BY <2>1, <4>1, <4>3
      <4> QED
        BY <4>1, <4>4, Cut DEF container
    <3>3. \A l \in Labels : container \o <<l>> = Append(container, l)
      BY <3>2
    <3> QED
      BY <2>4, <3>1, <3>3, Zenon
  <2> QED
    BY <2>1, <2>2, <2>4, <2>7, <2>8, <2>9, Zenon DEF MakesSection, heading, section, parent, container
<1> QED
  BY <1>1, <1>2 DEF Prose!Next, Walks

-----------------------------------------------------------------------------
(* What holds of the facts of every file.                                  *)

\* make_file_node, and the document of the prose pack.
LEMMA InitWalks ==
    ASSUME Init
    PROVE  WalkInv
<1>1. PICK pack \in ToSet(DefaultPacks) : Begin(pack)
  BY DEF Init
<1> DEFINE kind == IF pack = "prose_pack" THEN "document" ELSE "file"
           root == Root(kind)
           key == <<kind, <<>>, Path>>
           node == [id |-> root, qualified |-> Unqualified(Path)]
<1>2. /\ chain = <<>> /\ parents = <<root>> /\ open = <<>>
      /\ tracker = [k \in (IF kind = "file" THEN {} ELSE {key}) |-> 1]
      /\ facts = [nodes |-> {node}, edges |-> {}, unresolved |-> {}, claims |-> 1]
  BY <1>1 DEF Begin
<1>3. kind \in {"file", "document"}
  OBVIOUS
<1> HIDE DEF kind
<1>4. root = [kind |-> kind, container |-> <<>>, name |-> Path, discriminator |-> 0] /\ root \in Roots
  BY <1>3 DEF Root, NodeId, Roots
<1>5. root \in NodeIds
  <2>1. <<>> \in Seq(Labels) /\ Path \in Given /\ kind \in RootKinds
    BY <1>3 DEF Given, RootKinds
  <2> QED
    BY <1>4, <2>1 DEF NodeIds
<1>6. Ids = {root} /\ facts.claims = 1 /\ facts.edges = {} /\ AreFacts(facts)
  <2>1. node.id = root
    OBVIOUS
  <2> HIDE DEF node, root
  <2>2. facts.nodes = {node} /\ facts.claims = 1 /\ facts.edges = {} /\ AreFacts(facts)
    BY <1>2 DEF AreFacts
  <2> QED
    BY <2>1, <2>2 DEF Ids
<1>7. Numbered
  <2>1. IsFiniteSet(Ids) /\ Cardinality(Ids) = facts.claims
    BY <1>6, FS_Singleton
  <2>2. root = Root("file") \/ Count(<<root.kind, root.container, root.name>>) = 1
    <3>1. CASE kind = "file"
      BY <3>1
    <3>2. CASE kind = "document"
      <4>1. <<root.kind, root.container, root.name>> = key
        BY <1>4
      <4>2. tracker = [k \in {key} |-> 1]
        BY <1>2, <3>2
      <4> HIDE DEF key, root
      <4> QED
        BY <4>1, <4>2 DEF Count
    <3> QED
      BY <1>3, <3>1, <3>2
  <2>3. ASSUME NEW id \in Ids
        PROVE  /\ id = NodeId(id.kind, id.container, id.name, id.discriminator)
               /\ id.discriminator \in Nat
               /\ id = Root("file") \/ id.discriminator < NextDiscriminator(id.kind, id.container, id.name)
    <3>1. id = root
      BY <1>6
    <3>2. root.discriminator = 0
      BY <1>4
    <3>3. root = NodeId(root.kind, root.container, root.name, root.discriminator)
      BY <1>4 DEF NodeId
    <3> HIDE DEF root
    <3> QED
      BY <2>2, <3>1, <3>2, <3>3 DEF NextDiscriminator
  <2>4. ASSUME NEW k \in DOMAIN tracker
        PROVE  /\ k[1] # "file" /\ tracker[k] \in Nat
               /\ \A d \in Nat : d < tracker[k] => NodeId(k[1], k[2], k[3], d) \in Ids
    <3>1. kind = "document" /\ k = key /\ tracker[k] = 1
      BY <1>2, <1>3
    <3>2. k[1] = "document" /\ k[2] = <<>> /\ k[3] = Path
      BY <3>1
    <3>3. NodeId("document", <<>>, Path, 0) \in Ids
      BY <1>6, <3>1 DEF Root
    <3>4. \A d \in Nat : d < 1 => d = 0
      OBVIOUS
    <3> HIDE DEF key
    <3> QED
      BY <3>1, <3>2, <3>3, <3>4
  <2> QED
    BY <2>1, <2>3, <2>4 DEF Numbered
<1>8. Opened
  BY <1>2 DEF Opened
<1>9. Stacked
  <2> HIDE DEF root
  <2>1. chain \in Seq(Labels) /\ parents \in Seq(NodeIds) /\ open \in Seq(Entries)
    BY <1>2, <1>5
  <2>2. /\ parents # <<>> /\ parents[1] \in Roots /\ Len(chain) = 0 /\ Len(parents) = 1 /\ Len(open) = 0 /\ Plain
        /\ Len(chain) = Len(parents) - 1 /\ Len(open) <= Len(chain)
    BY <1>2, <1>4 DEF Plain
  <2>3. Under(chain, parents)
    BY <2>2 DEF Under
  <2>4. \A i \in 1 .. Len(open) : FALSE
    BY <2>2
  <2> QED
    BY <2>1, <2>2, <2>3, <2>4 DEF Stacked
<1>10. ChainsNameTheContainers
  BY <1>4, <1>6 DEF ChainsNameTheContainers
<1> QED
  BY <1>6, <1>7, <1>8, <1>9, <1>10 DEF WalkInv

LEMMA NextWalks ==
    ASSUME WalkInv, Next
    PROVE  Walks
BY RustWalks, TsWalks, PyWalks, ProseWalks, GoWalks, CWalks, CppWalks, JavaWalks, CSharpWalks DEF Next

\* Whatever pack walks a file, and however large the file is: the stacks stay
\* in step, and ids and chains are as they should be (the traverse_node of
\* each pack).
THEOREM WalkInvariant == Spec => []WalkInv
<1>1. Init => WalkInv
  BY InitWalks
<1>2. WalkInv /\ [Next]_vars => WalkInv'
  <2> SUFFICES ASSUME WalkInv, [Next]_vars
               PROVE  WalkInv'
    OBVIOUS
  <2>1. CASE Next
    BY <2>1, NextWalks, WalksKeep
  <2>2. CASE UNCHANGED vars
    <3>1. UNCHANGED <<language, chain, parents, open>> /\ tracker' = tracker /\ facts' = facts
      BY <2>2 DEF vars
    <3>2. Opened' /\ Stacked'
      BY <3>1, StacksStay DEF WalkInv
    <3>3. Numbered' /\ ChainsNameTheContainers'
      BY <3>1, NothingMade
    <3> QED
      BY <3>1, <3>2, <3>3 DEF WalkInv
  <2> QED
    BY <2>1, <2>2
<1> QED
  BY <1>1, <1>2, PTL DEF Spec

\* No two declarations of a file get one id, and namesakes are numbered from 0
\* without a gap (extractor_util.rs, DiscriminatorTracker).
THEOREM OrdinalsTellApartHolds == Spec => []OrdinalsTellApart
<1>1. WalkInv => OrdinalsTellApart
  <2> SUFFICES ASSUME Numbered
               PROVE  OrdinalsTellApart
    BY DEF WalkInv
  <2>1. Cardinality(Ids) = facts.claims
    BY DEF Numbered
  <2>2. ASSUME NEW id \in Ids, id.discriminator > 0
        PROVE  [id EXCEPT !.discriminator = @ - 1] \in Ids
    <3> DEFINE key == <<id.kind, id.container, id.name>>
               d == id.discriminator - 1
    <3>1. /\ id = NodeId(id.kind, id.container, id.name, id.discriminator) /\ id.discriminator \in Nat
          /\ id = Root("file") \/ id.discriminator < Count(key)
      BY DEF Numbered, NextDiscriminator
    <3>2. Root("file").discriminator = 0
      BY DEF Root, NodeId
    <3>3. id.discriminator < Count(key)
      BY <2>2, <3>1, <3>2
    <3>4. key[1] = id.kind /\ key[2] = id.container /\ key[3] = id.name
      OBVIOUS
    <3> HIDE DEF key
    <3>5. d \in Nat /\ d < Count(key)
      <4>1. Count(key) \in Nat
        BY Counts
      <4> QED
        BY <2>2, <3>1, <3>3, <4>1
    <3> HIDE DEF d
    <3>6. NodeId(key[1], key[2], key[3], d) \in Ids
      BY <3>5, Counts
    <3>7. [id EXCEPT !.discriminator = @ - 1] = NodeId(id.kind, id.container, id.name, d)
      BY <3>1 DEF NodeId, d
    <3> QED
      BY <3>4, <3>6, <3>7
  <2> QED
    BY <2>1, <2>2 DEF OrdinalsTellApart
<1> QED
  BY <1>1, WalkInvariant, PTL

\* A chain names the declarations that a node stands in, from the outermost,
\* and every node but the file's stands in one (traverse_node of the packs).
THEOREM ChainsNameTheContainersHolds == Spec => []ChainsNameTheContainers
<1>1. WalkInv => ChainsNameTheContainers
  BY DEF WalkInv
<1> QED
  BY <1>1, WalkInvariant, PTL
=============================================================================
