---------------------------- MODULE QueryProofs -----------------------------
(***************************************************************************)
(* Proofs about what queries compute: the configuration of any files, the  *)
(* contexts of any graph, the positions and previews of any text, and the  *)
(* traversals of any graph.                                                *)
(***************************************************************************)
EXTENDS MCQueries, SequenceTheorems, FiniteSetTheorems, WellFoundedInduction, TLAPS

-----------------------------------------------------------------------------
(* Numbers: least and greatest ones, induction, recursive functions, and   *)
(* sets in ascending order.                                                *)

\* A set of numbers has a least one.
LEMMA LeastNumber ==
    ASSUME NEW T \in SUBSET Nat, T /= {}
    PROVE  \E n \in T : \A m \in T : n <= m
<1>1. PICK n \in T : \A m \in T : ~ (<<m, n>> \in OpToRel(<, Nat))
  BY WFMin, NatLessThanWellFounded, Zenon
<1>2. \A m \in T : ~ (m < n)
  BY <1>1, Zenon DEF OpToRel
<1> QED
  BY <1>2

\* Induction, over the numbers up to n for which something holds.
LEMMA Induction ==
    ASSUME NEW n \in Nat, NEW G, 0 \in G, \A i \in 1 .. n : i - 1 \in G => i \in G
    PROVE  \A i \in 0 .. n : i \in G
<1> DEFINE B == (0 .. n) \ G
<1>1. SUFFICES ASSUME B /= {}
               PROVE  FALSE
  OBVIOUS
<1>2. PICK i \in B : \A j \in B : i <= j
  <2>1. B \in SUBSET Nat
    OBVIOUS
  <2> HIDE DEF B
  <2> QED
    BY <1>1, <2>1, LeastNumber
<1>3. i \in 1 .. n /\ i - 1 \in 0 .. n /\ ~ (i <= i - 1)
  BY <1>2
<1> QED
  BY <1>2, <1>3

\* A set of numbers up to n has a greatest one.
LEMMA GreatestNumber ==
    ASSUME NEW n \in Nat, NEW T \in SUBSET (0 .. n), T /= {}
    PROVE  \E k \in T : \A j \in T : j <= k
<1> DEFINE U == {n - k : k \in T}
<1>0. \A k \in T : k \in 0 .. n /\ n - k \in Nat
  OBVIOUS
<1>1. U \in SUBSET Nat /\ U /= {} /\ \A k \in T : n - k \in U
  BY <1>0
<1> HIDE DEF U
<1>2. PICK m \in U : \A j \in U : m <= j
  BY <1>1, LeastNumber
<1>3. PICK k \in T : m = n - k
  BY DEF U
<1>4. \A j \in T : n - k <= n - j
  BY <1>1, <1>2, <1>3
<1> QED
  BY <1>4

\* A recursive definition over the numbers up to n defines a function.
Iterates(f, n, X, base, step) ==
    f \in [0 .. n -> X] /\ f[0] = base /\ \A i \in 1 .. n : f[i] = step[i][f[i - 1]]
StepsOf(n, X) == [1 .. n -> [X -> X]]

LEMMA Iteration ==
    ASSUME NEW n \in Nat, NEW X, NEW base \in X, NEW step \in StepsOf(n, X)
    PROVE  \E f : Iterates(f, n, X, base, step)
<1> USE DEF StepsOf
<1> DEFINE Upto(m) == \E f \in [0 .. m -> X] : f[0] = base /\ \A i \in 1 .. m : f[i] = step[i][f[i - 1]]
           G == {m \in 0 .. n : Upto(m)}
<1>1. Upto(0)
  <2> DEFINE f == [i \in 0 .. 0 |-> base]
  <2>1. f \in [0 .. 0 -> X] /\ f[0] = base /\ \A i \in 1 .. 0 : f[i] = step[i][f[i - 1]]
    OBVIOUS
  <2> QED
    BY <2>1
<1>2. ASSUME NEW m \in 1 .. n, Upto(m - 1)
      PROVE  Upto(m)
  <2>1. PICK f \in [0 .. m - 1 -> X] : f[0] = base /\ \A i \in 1 .. m - 1 : f[i] = step[i][f[i - 1]]
    BY <1>2
  <2> DEFINE g == [i \in 0 .. m |-> IF i = m THEN step[m][f[m - 1]] ELSE f[i]]
  <2>2. g \in [0 .. m -> X]
    BY <2>1
  <2>3. g[0] = base
    BY <2>1
  <2>4. ASSUME NEW i \in 1 .. m
        PROVE  g[i] = step[i][g[i - 1]]
    <3>1. i - 1 \in 0 .. m - 1 /\ g[i - 1] = f[i - 1]
      OBVIOUS
    <3>2. i /= m => i \in 1 .. m - 1 /\ g[i] = f[i]
      OBVIOUS
    <3> QED
      BY <2>1, <3>1, <3>2
  <2> HIDE DEF g
  <2> QED
    BY <2>2, <2>3, <2>4
<1> HIDE DEF Upto
<1>3. 0 \in G /\ \A i \in 1 .. n : i - 1 \in G => i \in G
  BY <1>1, <1>2
<1> HIDE DEF G
<1>4. \A i \in 0 .. n : i \in G
  BY <1>3, Induction
<1>5. Upto(n)
  <2>1. n \in 0 .. n
    OBVIOUS
  <2>2. n \in G
    BY <1>4, <2>1
  <2> QED
    BY <2>2 DEF G
<1> QED
  BY <1>5 DEF Upto, Iterates

\* A set in ascending order: each of its numbers once, by how many are below it.
LEMMA AscendingLists ==
    ASSUME NEW S \in SUBSET Nat, IsFiniteSet(S)
    PROVE  /\ Cardinality(S) \in Nat
           /\ Ascending(S) \in [1 .. Cardinality(S) -> S]
           /\ \A s \in S : \E k \in 1 .. Cardinality(S) : Ascending(S)[k] = s
           /\ \A i, j \in 1 .. Cardinality(S) : i < j => Ascending(S)[i] < Ascending(S)[j]
           /\ \A k \in 1 .. Cardinality(S) : Cardinality({s \in S : s < Ascending(S)[k]}) = k - 1
<1> DEFINE n == Cardinality(S)
           Below(s) == {t \in S : t < s}
           rank == [s \in S |-> Cardinality(Below(s)) + 1]
<1>1. n \in Nat
  BY FS_CardinalityType
<1>2. ASSUME NEW s \in S
      PROVE  IsFiniteSet(Below(s)) /\ Cardinality(Below(s)) \in Nat /\ Cardinality(Below(s)) < n
  <2>1. Below(s) \in SUBSET S /\ s \notin Below(s)
    OBVIOUS
  <2> HIDE DEF Below
  <2>2. /\ IsFiniteSet(Below(s)) /\ Cardinality(Below(s)) <= n
        /\ n = Cardinality(Below(s)) => S = Below(s)
    BY <2>1, FS_Subset
  <2>3. Cardinality(Below(s)) \in Nat
    BY <2>2, FS_CardinalityType
  <2> QED
    BY <1>1, <2>1, <2>2, <2>3
<1>3. ASSUME NEW s \in S, NEW t \in S, s < t
      PROVE  Cardinality(Below(s)) < Cardinality(Below(t))
  <2>0. s \in Nat /\ t \in Nat /\ \A r \in S : r \in Nat
    OBVIOUS
  <2>1. Below(s) \cup {s} \in SUBSET Below(t) /\ s \notin Below(s)
    <3>1. \A r \in S : r < s => r < t
      BY <1>3, <2>0
    <3>2. ~ (s < s)
      BY <2>0
    <3> QED
      BY <1>3, <3>1, <3>2
  <2>2. IsFiniteSet(Below(s)) /\ IsFiniteSet(Below(t)) /\ Cardinality(Below(s)) \in Nat /\ Cardinality(Below(t)) \in Nat
    BY <1>2
  <2> HIDE DEF Below
  <2>3. Cardinality(Below(s) \cup {s}) = Cardinality(Below(s)) + 1
    BY <2>1, <2>2, FS_AddElement
  <2>4. Cardinality(Below(s) \cup {s}) <= Cardinality(Below(t))
    BY <2>1, <2>2, FS_Subset
  <2> QED
    BY <2>2, <2>3, <2>4
<1> HIDE DEF Below
<1>4. \A s \in S : rank[s] \in 1 .. n /\ rank[s] = Cardinality(Below(s)) + 1 /\ Cardinality(Below(s)) \in Nat
  BY <1>1, <1>2
<1>5. \A s, t \in S : s = t \/ s < t \/ t < s
  OBVIOUS
<1>6. rank \in Injection(S, 1 .. n)
  <2>1. rank \in [S -> 1 .. n]
    BY <1>4
  <2>2. \A s, t \in S : rank[s] = rank[t] => s = t
    BY <1>3, <1>4, <1>5
  <2> HIDE DEF rank, n
  <2> QED
    BY <2>1, <2>2 DEF Injection, IsInjective
<1>7. \A k \in 1 .. n : \E s \in S : rank[s] = k
  <2>1. IsFiniteSet(1 .. n) /\ Cardinality(1 .. n) = n
    BY <1>1, FS_Interval
  <2> HIDE DEF rank
  <2>2. rank \in Surjection(S, 1 .. n)
    BY <1>6, <2>1, FS_Injection
  <2> QED
    BY <2>2 DEF Surjection
<1> DEFINE a == Ascending(S)
<1>8. a = [k \in 1 .. n |-> CHOOSE s \in S : Cardinality(Below(s)) = k - 1]
  BY DEF Ascending, Below
<1> HIDE DEF a, rank, n
<1>9. ASSUME NEW k \in 1 .. n
      PROVE  a[k] \in S /\ Cardinality(Below(a[k])) = k - 1
  <2>1. a[k] = CHOOSE s \in S : Cardinality(Below(s)) = k - 1
    BY <1>8
  <2>2. PICK s \in S : rank[s] = k
    BY <1>7
  <2>3. Cardinality(Below(s)) = k - 1
    BY <1>1, <1>4, <2>2
  <2> QED
    BY <2>1, <2>3
<1>10. ASSUME NEW s \in S
       PROVE  \E k \in 1 .. n : a[k] = s
  <2>1. rank[s] \in 1 .. n /\ Cardinality(Below(a[rank[s]])) = rank[s] - 1 /\ a[rank[s]] \in S
    BY <1>4, <1>9
  <2>2. Cardinality(Below(a[rank[s]])) = Cardinality(Below(s))
    BY <1>1, <1>4, <2>1
  <2>3. a[rank[s]] = s
    <3> DEFINE t == a[rank[s]]
    <3>1. t \in S /\ Cardinality(Below(t)) = Cardinality(Below(s))
      BY <2>1, <2>2
    <3> HIDE DEF t
    <3>2. ~ (Cardinality(Below(s)) < Cardinality(Below(t))) /\ ~ (Cardinality(Below(t)) < Cardinality(Below(s)))
      BY <1>2, <3>1
    <3>3. t = s
      BY <1>3, <1>5, <3>1, <3>2
    <3> QED
      BY <3>3 DEF t
  <2> QED
    BY <2>1, <2>3
<1>11. ASSUME NEW i \in 1 .. n, NEW j \in 1 .. n, i < j
       PROVE  a[i] < a[j]
  <2> DEFINE s == a[i]
             t == a[j]
  <2>1. Cardinality(Below(s)) < Cardinality(Below(t)) /\ s \in S /\ t \in S
    BY <1>1, <1>9, <1>11
  <2> HIDE DEF s, t
  <2>2. ~ (Cardinality(Below(t)) < Cardinality(Below(s))) /\ Cardinality(Below(s)) /= Cardinality(Below(t))
    BY <1>2, <2>1
  <2>3. s < t
    BY <1>3, <1>5, <2>1, <2>2
  <2> QED
    BY <2>3 DEF s, t
<1>12. a \in [1 .. n -> S]
  BY <1>8, <1>9
<1>13. \A k \in 1 .. n : Cardinality({s \in S : s < a[k]}) = k - 1
  BY <1>9 DEF Below
<1> QED
  BY <1>1, <1>10, <1>11, <1>12, <1>13 DEF a, n

-----------------------------------------------------------------------------
(* Configuration.                                                          *)

\* A file as merge_toml_str sees it: what it sets is a function, whatever its
\* settings, values and profiles.
IsFile(file) == file.parses \in BOOLEAN /\ file.missing \in BOOLEAN

IsConfig(config) ==
    config = [scalars |-> config.scalars, lists |-> config.lists, providers |-> config.providers]

\* A layer of load_effective_config.
Layer(below, file) == IF file.missing THEN [config |-> below, ok |-> TRUE] ELSE MergeTomlStr(below, file)

Counts(file) == ~ file.missing /\ ~ Refuses(file)

\* The value a setting has after one layer.
Over(file, f, below) == IF Counts(file) /\ f \in DOMAIN file.scalars THEN file.scalars[f] ELSE below

\* The list it has.
Added(file, l, below) == IF Counts(file) THEN below \cup file.lists[l] ELSE below

\* What one layer does: its settings replace those below, its exclusions add up.
LEMMA LayerOver ==
    ASSUME NEW file, IsFile(file), NEW below, IsConfig(below)
    PROVE  /\ IsConfig(Layer(below, file).config)
           /\ \A f \in Settings : Layer(below, file).config.scalars[f] = Over(file, f, below.scalars[f])
           /\ \A l \in Lists : Layer(below, file).config.lists[l] = Added(file, l, below.lists[l])
<1>1. CASE Counts(file)
  <2>1. Layer(below, file).config = ApplyTo(below, file)
    BY <1>1 DEF Layer, Counts, MergeTomlStr
  <2> QED
    BY <1>1, <2>1 DEF ApplyTo, Over, Added, IsConfig
<1>2. CASE ~ Counts(file)
  <2>1. Layer(below, file).config = below
    BY <1>2 DEF Layer, Counts, MergeTomlStr, IsFile
  <2> QED
    BY <1>2, <2>1 DEF Over, Added
<1> QED
  BY <1>1, <1>2

\* Providers are only asked for options that no layer sets.
LEMMA ResolveFillsIn ==
    ASSUME NEW config, IsConfig(config), NEW f \in Settings
    PROVE  /\ Resolve(config).lists = config.lists
           /\ \/ Resolve(config).scalars[f] = config.scalars[f]
              \/ f \in Options /\ config.scalars[f] = "unset"
<1>1. Resolve(config).lists = config.lists
  BY DEF Resolve, IsConfig
<1>2. \A option, c, builtIn :
        \/ Resolved(config, f, option, c, builtIn) = config.scalars[f]
        \/ config.scalars[f] = "unset"
  BY DEF Resolved
<1>3. CASE f \in Options
  <2> DEFINE c == CHOOSE c \in Capabilities : f \in {Endpoint[c], ApiKeyEnv[c]}
             p == config.scalars[Provider[c]]
  <2>1. Resolve(config).scalars[f] =
          IF f = Endpoint[c] THEN Resolved(config, f, "endpoint", c, BuiltInEndpoint(c, p))
                             ELSE Resolved(config, f, "api_key_env", c, BuiltInKey(c, p))
    BY <1>3 DEF Resolve
  <2> HIDE DEF c, p
  <2>2. CASE f = Endpoint[c]
    BY <1>1, <1>2, <1>3, <2>1, <2>2
  <2>3. CASE f /= Endpoint[c]
    BY <1>1, <1>2, <1>3, <2>1, <2>3
  <2> QED
    BY <2>2, <2>3
<1>4. CASE f \notin Options
  BY <1>4 DEF Resolve
<1> QED
  BY <1>1, <1>3, <1>4

LEMMA DefaultIsConfig == IsConfig(Default)
BY DEF Default, IsConfig

LEMMA LoadedIsResolved ==
    ASSUME NEW user, NEW project, NEW explicit,
           LoadEffectiveConfig(user, project, explicit).ok
    PROVE  LET base == IF user.missing THEN Default ELSE MergeTomlStr(Default, user).config
               top == IF explicit.missing THEN project ELSE explicit
               merged == IF top.missing THEN [config |-> base, ok |-> TRUE] ELSE MergeTomlStr(base, top)
           IN  /\ LoadEffectiveConfig(user, project, explicit).config = Resolve(merged.config)
               /\ explicit.missing /\ ~ project.missing => ValidProject(project)
BY DEF LoadEffectiveConfig, Failed

\* The precedence of the layers, for every user's, project's and explicit file
\* there may be (discovery.rs load_effective_config, partial.rs apply_to).
THEOREM LayersDecide ==
    ASSUME NEW user, NEW project, NEW explicit,
           IsFile(user), IsFile(project), IsFile(explicit)
    PROVE  HighestLayerDecides(user, project, explicit)
<1> DEFINE loaded == LoadEffectiveConfig(user, project, explicit)
           base == Layer(Default, user)
           top == IF explicit.missing THEN project ELSE explicit
           merged == Layer(base.config, top)
<1> SUFFICES ASSUME loaded.ok
             PROVE  HighestLayerDecides(user, project, explicit)
  BY DEF HighestLayerDecides
<1>1. loaded.config = Resolve(merged.config)
  BY LoadedIsResolved DEF Layer
<1>2. IsFile(top)
  OBVIOUS
<1>3. /\ IsConfig(base.config)
      /\ \A f \in Settings : base.config.scalars[f] = Over(user, f, Default.scalars[f])
      /\ \A l \in Lists : base.config.lists[l] = Added(user, l, Default.lists[l])
  <2>1. IsConfig(base.config)
    BY LayerOver, DefaultIsConfig
  <2>2. \A f \in Settings : base.config.scalars[f] = Over(user, f, Default.scalars[f])
    BY LayerOver, DefaultIsConfig
  <2>3. \A l \in Lists : base.config.lists[l] = Added(user, l, Default.lists[l])
    BY LayerOver, DefaultIsConfig
  <2> QED
    BY <2>1, <2>2, <2>3
<1> HIDE DEF base
<1>4. /\ IsConfig(merged.config)
      /\ \A f \in Settings : merged.config.scalars[f] = Over(top, f, base.config.scalars[f])
      /\ \A l \in Lists : merged.config.lists[l] = Added(top, l, base.config.lists[l])
  <2> DEFINE below == base.config
  <2>0. IsConfig(below)
    BY <1>3
  <2> HIDE DEF top, below
  <2>1. IsConfig(Layer(below, top).config)
    BY LayerOver, <1>2, <2>0
  <2>2. \A f \in Settings : Layer(below, top).config.scalars[f] = Over(top, f, below.scalars[f])
    BY LayerOver, <1>2, <2>0
  <2>3. \A l \in Lists : Layer(below, top).config.lists[l] = Added(top, l, below.lists[l])
    BY LayerOver, <1>2, <2>0
  <2> QED
    BY <2>1, <2>2, <2>3 DEF below
<1> HIDE DEF merged
<1>5. \A f \in Settings :
         \/ loaded.config.scalars[f] = Over(top, f, Over(user, f, Default.scalars[f]))
         \/ f \in Options /\ Over(top, f, Over(user, f, Default.scalars[f])) = "unset"
  BY <1>1, <1>3, <1>4, ResolveFillsIn
<1>6. \A l \in Lists : /\ Counts(user) => user.lists[l] \subseteq loaded.config.lists[l]
                       /\ Counts(top) => top.lists[l] \subseteq loaded.config.lists[l]
  <2> SUFFICES ASSUME NEW l \in Lists
               PROVE  /\ Counts(user) => user.lists[l] \subseteq loaded.config.lists[l]
                      /\ Counts(top) => top.lists[l] \subseteq loaded.config.lists[l]
    OBVIOUS
  <2>1. loaded.config.lists = merged.config.lists
    BY <1>1, <1>4, ResolveFillsIn DEF Settings, ProjectFields
  <2> QED
    BY <2>1, <1>3, <1>4 DEF Added
<1> HIDE DEF loaded, top
<1> QED
  BY <1>5, <1>6 DEF HighestLayerDecides, Over, Counts, loaded, top

\* The options of a provider have names of their own.
LEMMA OptionNames ==
    ASSUME NEW c \in Capabilities
    PROVE  /\ Endpoint[c] \in {"embedding.endpoint", "rerank.endpoint", "enrichment.endpoint"}
           /\ ApiKeyEnv[c] \in {"embedding.api_key_env", "rerank.api_key_env", "enrichment.api_key_env"}
BY DEF Capabilities, Endpoint, ApiKeyEnv

\* A key is what is resolved for it from the provider of its own capability.
LEMMA KeysResolve ==
    ASSUME NEW config, IsConfig(config), NEW c \in Capabilities
    PROVE  LET p == config.scalars[Provider[c]] IN
           /\ Resolve(config).scalars[ApiKeyEnv[c]] =
                 Resolved(config, ApiKeyEnv[c], "api_key_env", c, BuiltInKey(c, p))
           /\ Resolve(config).scalars[Provider[c]] = p
<1> DEFINE f == ApiKeyEnv[c]
           d == CHOOSE d \in Capabilities : f \in {Endpoint[d], ApiKeyEnv[d]}
           p == config.scalars[Provider[d]]
<1>1. f \in Options /\ f \in Settings
  BY OptionNames DEF Options, Settings, EmbeddingFields, RerankFields, EnrichmentFields
<1>2. d \in Capabilities /\ f \in {Endpoint[d], ApiKeyEnv[d]}
  OBVIOUS
<1>3. f /= Endpoint[d] /\ d = c
  <2> HIDE DEF d
  <2>1. f /= Endpoint[d]
    BY <1>2, OptionNames
  <2>2. ApiKeyEnv[d] = ApiKeyEnv[c]
    BY <1>2, <2>1
  <2> QED
    BY <1>2, <2>1, <2>2 DEF ApiKeyEnv, Capabilities
<1>4. Resolve(config).scalars[f] = Resolved(config, f, "api_key_env", d, BuiltInKey(d, p))
  <2>1. Resolve(config).scalars[f] =
          IF f = Endpoint[d] THEN Resolved(config, f, "endpoint", d, BuiltInEndpoint(d, p))
                             ELSE Resolved(config, f, "api_key_env", d, BuiltInKey(d, p))
    BY <1>1 DEF Resolve, IsConfig
  <2> QED
    BY <2>1, <1>3
<1>5. Provider[c] \in Settings /\ Provider[c] \notin Options
  BY DEF Provider, Capabilities, Settings, Options, Endpoint, ApiKeyEnv, EmbeddingFields, RerankFields,
         EnrichmentFields
<1>6. Resolve(config).scalars[Provider[c]] = config.scalars[Provider[c]]
  BY <1>5 DEF Resolve, IsConfig
<1> QED
  BY <1>3, <1>4, <1>6

LEMMA KeySettings ==
    ASSUME NEW c \in Capabilities
    PROVE  ApiKeyEnv[c] \in Settings /\ Default.scalars[ApiKeyEnv[c]] = "unset"
<1>1. ApiKeyEnv[c] \in Options /\ ApiKeyEnv[c] \in Settings
  BY OptionNames DEF Options, Settings, EmbeddingFields, RerankFields, EnrichmentFields
<1>2. Default.scalars[ApiKeyEnv[c]] =
        CASE ApiKeyEnv[c] \in Options -> "unset"
          [] ApiKeyEnv[c] \in {Provider[d] : d \in Capabilities} -> "none"
          [] OTHER -> "default"
  BY <1>1 DEF Default
<1>3. ApiKeyEnv[c] \notin {Provider[d] : d \in Capabilities}
  BY OptionNames DEF Provider, Capabilities
<1> QED
  BY <1>1, <1>2, <1>3

LEMMA NoProvidersAreNone == DOMAIN NoProviders = {}
BY DEF NoProviders

\* The profiles under the user's file are those it names, with their keys.
LEMMA UsersProfiles ==
    ASSUME NEW user, IsFile(user)
    PROVE  /\ DOMAIN Layer(Default, user).config.providers = IF Counts(user) THEN DOMAIN user.providers ELSE {}
           /\ \A n \in DOMAIN Layer(Default, user).config.providers :
                 Layer(Default, user).config.providers[n].api_key_env = user.providers[n].api_key_env
<1>1. CASE Counts(user)
  <2>1. Layer(Default, user).config = ApplyTo(Default, user)
    BY <1>1 DEF Layer, Counts, MergeTomlStr
  <2>2. DOMAIN Default.providers = {}
    BY NoProvidersAreNone DEF Default
  <2>3. DOMAIN ApplyTo(Default, user).providers = DOMAIN user.providers
    BY <2>2 DEF ApplyTo
  <2>4. ASSUME NEW n \in DOMAIN user.providers
        PROVE  ApplyTo(Default, user).providers[n].api_key_env = user.providers[n].api_key_env
    <3>1. ApplyTo(Default, user).providers[n] = ApplyProfile(ProfileOf(Default.providers, n), user.providers[n])
      BY <2>2 DEF ApplyTo
    <3>2. ProfileOf(Default.providers, n) = NoProfile
      BY <2>2 DEF ProfileOf
    <3> QED
      BY <3>1, <3>2 DEF ApplyProfile, NoProfile
  <2> QED
    BY <1>1, <2>1, <2>3, <2>4
<1>2. CASE ~ Counts(user)
  <2>1. Layer(Default, user).config = Default
    BY <1>2 DEF Layer, Counts, MergeTomlStr, IsFile
  <2>2. DOMAIN Default.providers = {}
    BY NoProvidersAreNone DEF Default
  <2> QED
    BY <1>2, <2>1, <2>2
<1> QED
  BY <1>1, <1>2

\* A project's file that is allowed leaves keys and profiles as they were.
LEMMA ProjectsLeaveKeys ==
    ASSUME NEW project, IsFile(project), NEW below, IsConfig(below), NEW c \in Capabilities,
           project.missing \/ ValidProject(project)
    PROVE  /\ Layer(below, project).config.scalars[ApiKeyEnv[c]] = below.scalars[ApiKeyEnv[c]]
           /\ DOMAIN Layer(below, project).config.providers = DOMAIN below.providers
           /\ \A n \in DOMAIN below.providers :
                 Layer(below, project).config.providers[n] = below.providers[n]
<1>1. CASE Counts(project)
  <2>1. Layer(below, project).config = ApplyTo(below, project)
    BY <1>1 DEF Layer, Counts, MergeTomlStr
  <2>2. /\ DOMAIN project.providers = {}
        /\ ApiKeyEnv[c] \notin DOMAIN project.scalars
    BY <1>1, NoProvidersAreNone DEF Counts, ValidProject
  <2> QED
    BY <2>1, <2>2, KeySettings DEF ApplyTo
<1>2. CASE ~ Counts(project)
  BY <1>2 DEF Layer, Counts, MergeTomlStr, IsFile
<1> QED
  BY <1>1, <1>2

\* Whichever provider the project's file picks, the key used with it is the one
\* the user's file names for the capability or for that provider, or the one that
\* is built in for it (ADR-022; config/mod.rs validate_project_toml_str,
\* discovery.rs).
THEOREM KeysStayTheUsers ==
    ASSUME NEW user, NEW project, IsFile(user), IsFile(project)
    PROVE  KeysAreTheUsers(user, project)
<1> DEFINE loaded == LoadEffectiveConfig(user, project, Missing)
           base == Layer(Default, user).config
           merged == Layer(base, project).config
<1> SUFFICES ASSUME loaded.ok, NEW c \in Capabilities
             PROVE  LET p == loaded.config.scalars[Provider[c]] IN
                    loaded.config.scalars[ApiKeyEnv[c]] =
                        UsersOption(user, ApiKeyEnv[c], "api_key_env", p, BuiltInKey(c, p))
  BY DEF KeysAreTheUsers
<1>1. Missing.missing
  BY DEF Missing
<1>2. loaded.config = Resolve(merged)
  BY <1>1, LoadedIsResolved DEF Layer
<1>3. project.missing \/ ValidProject(project)
  BY <1>1, LoadedIsResolved DEF IsFile
<1>4. IsConfig(base)
  BY LayerOver, DefaultIsConfig
<1>5. base.scalars[ApiKeyEnv[c]] = Over(user, ApiKeyEnv[c], "unset")
  <2>1. \A f \in Settings : base.scalars[f] = Over(user, f, Default.scalars[f])
    BY LayerOver, DefaultIsConfig
  <2> HIDE DEF base
  <2> QED
    BY <2>1, KeySettings
<1>6. /\ DOMAIN base.providers = IF Counts(user) THEN DOMAIN user.providers ELSE {}
      /\ \A n \in DOMAIN base.providers : base.providers[n].api_key_env = user.providers[n].api_key_env
  BY UsersProfiles
<1> HIDE DEF base
<1>7. /\ merged.scalars[ApiKeyEnv[c]] = base.scalars[ApiKeyEnv[c]]
      /\ DOMAIN merged.providers = DOMAIN base.providers
      /\ \A n \in DOMAIN base.providers : merged.providers[n] = base.providers[n]
  BY <1>3, <1>4, ProjectsLeaveKeys
<1>8. IsConfig(merged)
  BY <1>4, LayerOver
<1> HIDE DEF merged, loaded
<1> DEFINE p == merged.scalars[Provider[c]]
           key == ApiKeyEnv[c]
<1>9. /\ loaded.config.scalars[key] = Resolved(merged, key, "api_key_env", c, BuiltInKey(c, p))
      /\ loaded.config.scalars[Provider[c]] = p
  BY <1>2, <1>8, KeysResolve
<1>10. merged.scalars[key] = IF Counts(user) /\ key \in DOMAIN user.scalars THEN user.scalars[key] ELSE "unset"
  BY <1>5, <1>7 DEF Over
<1>11. /\ p \in DOMAIN merged.providers <=> Counts(user) /\ p \in DOMAIN user.providers
       /\ p \in DOMAIN merged.providers => merged.providers[p].api_key_env = user.providers[p].api_key_env
  BY <1>6, <1>7
<1>12. Resolved(merged, key, "api_key_env", c, BuiltInKey(c, p)) =
          CASE p \in LocalProviders \/ merged.scalars[key] /= "unset" -> merged.scalars[key]
            [] p \notin LocalProviders /\ merged.scalars[key] = "unset" ->
                  IF p \in DOMAIN merged.providers THEN merged.providers[p].api_key_env ELSE BuiltInKey(c, p)
  BY DEF Resolved
<1> HIDE DEF p, key
<1>13. Resolved(merged, key, "api_key_env", c, BuiltInKey(c, p)) =
          UsersOption(user, key, "api_key_env", p, BuiltInKey(c, p))
  BY <1>10, <1>11, <1>12 DEF UsersOption, Counts
<1> QED
  BY <1>9, <1>13 DEF p, key

-----------------------------------------------------------------------------
(* Context under a budget.                                                 *)

\* What assembling works on: a context, what each node leads to, and sizes.
Contexts(N) == [snippets : Seq(N), bytes : Nat, truncated : BOOLEAN, seen : SUBSET N]
Links(N) == [N -> Seq(N)]
Sizes(N) == [N -> [bytes : Nat, lines : Nat, units : Nat]]

LEMMA UsedIs ==
    ASSUME NEW N, NEW s \in Seq(N), NEW size \in Sizes(N), NEW m \in {"bytes", "lines", "units"}
    PROVE  /\ Used(s, size, m) \in [0 .. Len(s) -> Nat]
           /\ Used(s, size, m)[0] = 0
           /\ \A k \in 1 .. Len(s) : Used(s, size, m)[k] = Used(s, size, m)[k - 1] + size[s[k]][m]
<1> DEFINE step == [k \in 1 .. Len(s) |-> [x \in Nat |-> x + size[s[k]][m]]]
<1>1. \A k \in 1 .. Len(s) : size[s[k]][m] \in Nat
  BY DEF Sizes
<1>2. step \in [1 .. Len(s) -> [Nat -> Nat]]
  BY <1>1
<1>3. PICK f \in [0 .. Len(s) -> Nat] : f[0] = 0 /\ \A i \in 1 .. Len(s) : f[i] = step[i][f[i - 1]]
  <2> DEFINE n == Len(s)
             X == Nat
             base == 0
  <2>1. n \in Nat /\ base \in X /\ step \in StepsOf(n, X)
    BY <1>2 DEF StepsOf
  <2> HIDE DEF step, n, X, base
  <2>2. \E f : Iterates(f, n, X, base, step)
    BY <2>1, Iteration
  <2> QED
    BY <2>2 DEF n, X, base, Iterates
<1>4. \A i \in 1 .. Len(s) : i - 1 \in 0 .. Len(s) /\ f[i] = f[i - 1] + size[s[i]][m]
  BY <1>3
<1>5. f = [k \in 0 .. Len(s) |-> IF k = 0 THEN 0 ELSE f[k - 1] + size[s[k]][m]]
  <2>1. \A k \in 0 .. Len(s) : f[k] = IF k = 0 THEN 0 ELSE f[k - 1] + size[s[k]][m]
    BY <1>3, <1>4
  <2> QED
    BY <1>3, <2>1
<1> DEFINE u == Used(s, size, m)
<1>6. u = [k \in 0 .. Len(s) |-> IF k = 0 THEN 0 ELSE u[k - 1] + size[s[k]][m]]
  BY <1>5, Zenon DEF Used
<1> HIDE DEF u
<1>7. /\ DOMAIN u = 0 .. Len(s) /\ u[0] = 0
      /\ \A k \in 1 .. Len(s) : u[k] = u[k - 1] + size[s[k]][m]
  <2>1. DOMAIN u = 0 .. Len(s)
    BY <1>6, Zenon
  <2>2. \A k \in 0 .. Len(s) : u[k] = IF k = 0 THEN 0 ELSE u[k - 1] + size[s[k]][m]
    BY <1>6, Zenon
  <2>3. 0 \in 0 .. Len(s) /\ \A k \in 1 .. Len(s) : k \in 0 .. Len(s) /\ k /= 0
    OBVIOUS
  <2> QED
    BY <2>1, <2>2, <2>3, Zenon
<1> DEFINE G == {k \in 0 .. Len(s) : u[k] \in Nat}
<1>8. 0 \in G /\ \A k \in 1 .. Len(s) : k - 1 \in G => k \in G
  <2>1. 0 \in 0 .. Len(s) /\ 0 \in Nat /\ \A k \in 1 .. Len(s) : k \in 0 .. Len(s)
    OBVIOUS
  <2>2. \A x, y \in Nat : x + y \in Nat
    OBVIOUS
  <2> QED
    BY <1>1, <1>7, <2>1, <2>2, Zenon
<1>9. \A k \in 0 .. Len(s) : u[k] \in Nat
  <2>1. Len(s) \in Nat
    OBVIOUS
  <2> HIDE DEF G
  <2>2. \A k \in 0 .. Len(s) : k \in G
    BY <1>8, <2>1, Induction
  <2> QED
    BY <2>2 DEF G
<1> QED
  BY <1>6, <1>7, <1>9 DEF u

Full(ctx, n) == [ctx EXCEPT !.seen = @ \cup {n}, !.truncated = TRUE]
WithNode(ctx, n, size) ==
    [ctx EXCEPT !.seen = @ \cup {n}, !.bytes = @ + size[n].bytes, !.snippets = Append(@, n)]

LEMMA AppendNodeIs ==
    ASSUME NEW N, NEW ctx \in Contexts(N), NEW n \in N, NEW size \in Sizes(N), NEW budget
    PROVE  /\ AppendNode(ctx, n, size, budget) \in Contexts(N)
           /\ n \in ctx.seen => AppendNode(ctx, n, size, budget) = ctx
           /\ n \notin ctx.seen /\ Exceeds(ctx.bytes + size[n].bytes, budget) =>
                AppendNode(ctx, n, size, budget) = Full(ctx, n)
           /\ n \notin ctx.seen /\ ~ Exceeds(ctx.bytes + size[n].bytes, budget) =>
                AppendNode(ctx, n, size, budget) = WithNode(ctx, n, size)
<1> DEFINE over == Exceeds(ctx.bytes + size[n].bytes, budget)
           appended == AppendNode(ctx, n, size, budget)
<1>1. Full(ctx, n) \in Contexts(N)
  BY DEF Contexts, Full
<1>2. WithNode(ctx, n, size) \in Contexts(N)
  <2>1. size[n].bytes \in Nat
    BY DEF Sizes
  <2>2. ctx.bytes + size[n].bytes \in Nat /\ Append(ctx.snippets, n) \in Seq(N)
    BY <2>1 DEF Contexts
  <2> QED
    BY <2>2 DEF Contexts, WithNode
<1>3. appended = CASE n \in ctx.seen -> ctx
                   [] n \notin ctx.seen /\ over -> Full(ctx, n)
                   [] n \notin ctx.seen /\ ~ over -> WithNode(ctx, n, size)
  BY DEF AppendNode, Full, WithNode
<1>4. over \in BOOLEAN
  BY DEF Exceeds
<1> HIDE DEF over, appended
<1>5. /\ n \in ctx.seen => appended = ctx
      /\ n \notin ctx.seen /\ over => appended = Full(ctx, n)
      /\ n \notin ctx.seen /\ ~ over => appended = WithNode(ctx, n, size)
  BY <1>3
<1>6. appended \in Contexts(N)
  BY <1>1, <1>2, <1>4, <1>5
<1> QED
  BY <1>5, <1>6 DEF over, appended

TargetStep(ctx, n, present, size, budget) ==
    IF ctx.truncated \/ n \notin present THEN ctx ELSE AppendNode(ctx, n, size, budget)

\* The contexts f that appending targets, or roots, goes through.
AppendsTargets(f, ctx, s, present, size, budget) ==
    /\ f[0] = ctx
    /\ \A i \in 1 .. Len(s) : f[i] = TargetStep(f[i - 1], s[i], present, size, budget)
    /\ AppendTargets(ctx, s, present, size, budget) = f[Len(s)]

LEMMA AppendTargetsIs ==
    ASSUME NEW N, NEW ctx \in Contexts(N), NEW s \in Seq(N), NEW present, NEW size \in Sizes(N), NEW budget
    PROVE  /\ \E f : AppendsTargets(f, ctx, s, present, size, budget)
           /\ AppendTargets(ctx, s, present, size, budget) \in Contexts(N)
<1> DEFINE n == Len(s)
           X == Contexts(N)
           step == [i \in 1 .. n |-> [x \in X |-> TargetStep(x, s[i], present, size, budget)]]
<1>0. n \in Nat /\ \A i \in 1 .. n : s[i] \in N /\ i \in 0 .. n /\ i - 1 \in 0 .. n /\ i /= 0
  OBVIOUS
<1>1. \A i \in 1 .. n : \A x \in X : TargetStep(x, s[i], present, size, budget) \in X
  BY <1>0, AppendNodeIs DEF TargetStep
<1> HIDE DEF n, X
<1>2. step \in StepsOf(n, X)
  <2> DEFINE T(x, i) == TargetStep(x, s[i], present, size, budget)
  <2> HIDE DEF T
  <2>1. \A i \in 1 .. n : \A x \in X : T(x, i) \in X
    BY <1>1 DEF T
  <2>2. [i \in 1 .. n |-> [x \in X |-> T(x, i)]] \in StepsOf(n, X)
    BY <2>1 DEF StepsOf
  <2> QED
    BY <2>2 DEF T
<1>3. \A i \in 1 .. n : \A x \in X : step[i][x] = TargetStep(x, s[i], present, size, budget)
  OBVIOUS
<1>4. ctx \in X
  BY DEF X
<1> HIDE DEF step
<1>5. PICK f : Iterates(f, n, X, ctx, step)
  BY <1>0, <1>2, <1>4, Iteration
<1>6. f \in [0 .. n -> X] /\ f[0] = ctx /\ \A i \in 1 .. n : f[i] = step[i][f[i - 1]]
  BY <1>5 DEF Iterates
<1>7. \A i \in 1 .. n : f[i] = TargetStep(f[i - 1], s[i], present, size, budget)
  BY <1>0, <1>3, <1>6
<1>8. f = [i \in 0 .. n |-> IF i = 0 THEN ctx
                            ELSE IF f[i - 1].truncated \/ s[i] \notin present THEN f[i - 1]
                            ELSE AppendNode(f[i - 1], s[i], size, budget)]
  <2>1. \A i \in 0 .. n : i = 0 \/ i \in 1 .. n
    BY <1>0
  <2>2. \A i \in 0 .. n : f[i] = IF i = 0 THEN ctx
                                 ELSE IF f[i - 1].truncated \/ s[i] \notin present THEN f[i - 1]
                                 ELSE AppendNode(f[i - 1], s[i], size, budget)
    BY <1>6, <1>7, <2>1 DEF TargetStep
  <2> QED
    BY <1>6, <2>2
<1> DEFINE g == CHOOSE g : g = [i \in 0 .. n |-> IF i = 0 THEN ctx
                            ELSE IF g[i - 1].truncated \/ s[i] \notin present THEN g[i - 1]
                            ELSE AppendNode(g[i - 1], s[i], size, budget)]
<1>9. g = [i \in 0 .. n |-> IF i = 0 THEN ctx
                            ELSE IF g[i - 1].truncated \/ s[i] \notin present THEN g[i - 1]
                            ELSE AppendNode(g[i - 1], s[i], size, budget)]
  BY <1>8, Zenon
<1>10. AppendTargets(ctx, s, present, size, budget) = g[n]
  BY Zenon DEF AppendTargets, n
<1> HIDE DEF g
<1>11. \A i \in 0 .. n : g[i] = IF i = 0 THEN ctx ELSE TargetStep(g[i - 1], s[i], present, size, budget)
  BY <1>9, Zenon DEF TargetStep
<1> DEFINE G == {i \in 0 .. n : g[i] \in X}
<1>12. 0 \in G /\ \A i \in 1 .. n : i - 1 \in G => i \in G
  <2>1. 0 \in 0 .. n
    BY <1>0
  <2>2. ASSUME NEW i \in 1 .. n, g[i - 1] \in X
        PROVE  g[i] \in X
    BY <1>0, <1>1, <1>11, <2>2
  <2> QED
    BY <1>0, <1>4, <1>11, <2>1, <2>2
<1>13. \A i \in 0 .. n : g[i] \in X
  <2> HIDE DEF G
  <2>1. \A i \in 0 .. n : i \in G
    BY <1>0, <1>12, Induction
  <2> QED
    BY <2>1 DEF G
<1>14. g[0] = ctx /\ \A i \in 1 .. n : g[i] = TargetStep(g[i - 1], s[i], present, size, budget)
  BY <1>0, <1>11
<1>15. g[n] \in X
  BY <1>0, <1>13
<1>16. AppendsTargets(g, ctx, s, present, size, budget)
  BY <1>10, <1>14, Zenon DEF AppendsTargets, n
<1> QED
  BY <1>10, <1>15, <1>16, Zenon DEF X

-----------------------------------------------------------------------------
\* A context u that was assembled without a budget and one b under a budget,
\* over the same nodes: b has the first snippets of u, up to the one that did
\* not fit.
Agree(N, u, b, size, budget) ==
    LET k == Len(b.snippets)
        used == Used(u.snippets, size, "bytes")
    IN /\ u \in Contexts(N) /\ b \in Contexts(N)
       /\ ~ u.truncated /\ u.bytes = used[Len(u.snippets)]
       /\ k <= Len(u.snippets) /\ \A i \in 1 .. k : b.snippets[i] = u.snippets[i]
       /\ b.bytes = used[k] /\ ~ Exceeds(b.bytes, budget)
       /\ ~ b.truncated => b.snippets = u.snippets /\ b.seen = u.seen
       /\ b.truncated => k < Len(u.snippets) /\ Exceeds(used[k + 1], budget)

\* One more snippet leaves what those before it use.
LEMMA UsedGrows ==
    ASSUME NEW N, NEW s \in Seq(N), NEW n \in N, NEW size \in Sizes(N)
    PROVE  /\ \A k \in 0 .. Len(s) : Used(Append(s, n), size, "bytes")[k] = Used(s, size, "bytes")[k]
           /\ Used(Append(s, n), size, "bytes")[Len(s) + 1] = Used(s, size, "bytes")[Len(s)] + size[n].bytes
<1> DEFINE t == Append(s, n)
           m == Len(s)
           u == Used(s, size, "bytes")
           v == Used(t, size, "bytes")
           G == {k \in 0 .. m : v[k] = u[k]}
<1>1. t \in Seq(N) /\ Len(t) = m + 1 /\ t[m + 1] = n /\ m \in Nat /\ \A k \in 1 .. m : t[k] = s[k]
  OBVIOUS
<1>2. u[0] = 0 /\ \A k \in 1 .. m : u[k] = u[k - 1] + size[s[k]].bytes
  BY UsedIs
<1> HIDE DEF t
<1>3. v[0] = 0 /\ \A k \in 1 .. m + 1 : v[k] = v[k - 1] + size[t[k]].bytes
  <2> HIDE DEF v
  <2>1. v[0] = 0 /\ \A k \in 1 .. Len(t) : v[k] = v[k - 1] + size[t[k]].bytes
    BY <1>1, UsedIs DEF v
  <2> QED
    BY <1>1, <2>1
<1> HIDE DEF m, u, v
<1>4. 0 \in G /\ \A k \in 1 .. m : k - 1 \in G => k \in G
  <2>1. 0 \in 0 .. m
    BY <1>1
  <2>2. ASSUME NEW k \in 1 .. m, k - 1 \in G
        PROVE  k \in G
    <3>1. k \in 1 .. m + 1 /\ k \in 0 .. m
      BY <1>1
    <3> QED
      BY <1>1, <1>2, <1>3, <2>2, <3>1
  <2> QED
    BY <1>2, <1>3, <2>1, <2>2
<1> HIDE DEF G
<1>5. \A k \in 0 .. m : k \in G
  BY <1>1, <1>4, Induction
<1>6. \A k \in 0 .. m : v[k] = u[k]
  BY <1>5 DEF G
<1>7. v[m + 1] = u[m] + size[n].bytes
  <2>1. m + 1 \in 1 .. m + 1 /\ m \in 0 .. m /\ m + 1 - 1 = m
    BY <1>1
  <2> QED
    BY <1>1, <1>3, <1>6, <2>1
<1> QED
  BY <1>6, <1>7 DEF u, v, t, m

\* One node more for both.
LEMMA AgreeOnNode ==
    ASSUME NEW N, NEW u, NEW b, NEW size \in Sizes(N), NEW budget \in Nat \cup {Unlimited}, NEW n \in N,
           Agree(N, u, b, size, budget)
    PROVE  Agree(N, AppendNode(u, n, size, Unlimited),
                 IF b.truncated THEN b ELSE AppendNode(b, n, size, budget), size, budget)
<1> DEFINE k == Len(b.snippets)
           l == Len(u.snippets)
           used == Used(u.snippets, size, "bytes")
           v == AppendNode(u, n, size, Unlimited)
           c == IF b.truncated THEN b ELSE AppendNode(b, n, size, budget)
           usedBy == Used(v.snippets, size, "bytes")
<1>1. /\ u \in Contexts(N) /\ b \in Contexts(N)
      /\ ~ u.truncated /\ u.bytes = used[l]
      /\ k <= l /\ \A i \in 1 .. k : b.snippets[i] = u.snippets[i]
      /\ b.bytes = used[k] /\ ~ Exceeds(b.bytes, budget)
      /\ ~ b.truncated => b.snippets = u.snippets /\ b.seen = u.seen
      /\ b.truncated => k < l /\ Exceeds(used[k + 1], budget)
  BY DEF Agree
<1>0. SUFFICES Agree(N, v, c, size, budget)
  OBVIOUS
<1>2. v \in Contexts(N) /\ c \in Contexts(N)
  BY <1>1, AppendNodeIs
<1>3. CASE n \in u.seen
  <2>1. v = u /\ c = b
    BY <1>1, <1>3, AppendNodeIs
  <2> QED
    BY <2>1
<1>4. CASE n \notin u.seen
  <2>1. v = WithNode(u, n, size)
    BY <1>1, <1>4, AppendNodeIs DEF Exceeds
  <2>2. /\ u.snippets \in Seq(N) /\ b.snippets \in Seq(N) /\ u.bytes \in Nat /\ size[n].bytes \in Nat
        /\ u = [snippets |-> u.snippets, bytes |-> u.bytes, truncated |-> u.truncated, seen |-> u.seen]
        /\ b = [snippets |-> b.snippets, bytes |-> b.bytes, truncated |-> b.truncated, seen |-> b.seen]
    BY <1>1 DEF Contexts, Sizes
  <2>3. /\ v.snippets = Append(u.snippets, n) /\ v.bytes = u.bytes + size[n].bytes
        /\ v.truncated = u.truncated /\ v.seen = u.seen \cup {n}
    BY <2>1, <2>2 DEF WithNode
  <2>4. Len(v.snippets) = l + 1 /\ l \in Nat /\ k \in Nat /\ \A i \in 1 .. l : v.snippets[i] = u.snippets[i]
    BY <2>2, <2>3
  <2>5. (\A i \in 0 .. l : usedBy[i] = used[i]) /\ usedBy[l + 1] = used[l] + size[n].bytes
    BY <2>2, <2>3, UsedGrows
  <2>6. ~ v.truncated /\ v.bytes = usedBy[Len(v.snippets)]
    BY <1>1, <2>3, <2>4, <2>5
  <2>7. CASE b.truncated
    <3>1. c = b /\ k + 1 \in 0 .. l /\ k \in 0 .. l
      BY <1>1, <2>4, <2>7
    <3>2. /\ Len(c.snippets) = k /\ k <= l + 1 /\ k < l + 1
          /\ \A i \in 1 .. k : i \in 1 .. l
      BY <1>1, <2>4, <3>1
    <3> HIDE DEF v, c, used, usedBy, k, l
    <3>3. \A i \in 1 .. k : c.snippets[i] = v.snippets[i]
      BY <1>1, <2>4, <3>1, <3>2
    <3>4. c.bytes = usedBy[k] /\ ~ Exceeds(c.bytes, budget) /\ Exceeds(usedBy[k + 1], budget)
      BY <1>1, <2>5, <2>7, <3>1
    <3> QED
      BY <1>2, <2>4, <2>6, <2>7, <3>1, <3>2, <3>3, <3>4 DEF Agree, usedBy
  <2>8. CASE ~ b.truncated
    <3>1. b.snippets = u.snippets /\ b.seen = u.seen /\ b.bytes = u.bytes /\ k = l
      BY <1>1, <2>8
    <3>2. CASE Exceeds(b.bytes + size[n].bytes, budget)
      <4>1. c = Full(b, n)
        BY <1>1, <1>4, <2>8, <3>1, <3>2, AppendNodeIs
      <4>2. c.snippets = b.snippets /\ c.bytes = b.bytes /\ c.truncated
        BY <2>2, <4>1 DEF Full
      <4>3. Len(c.snippets) = l /\ \A i \in 1 .. l : c.snippets[i] = v.snippets[i]
        BY <2>4, <3>1, <4>2
      <4>4. c.bytes = usedBy[l] /\ ~ Exceeds(c.bytes, budget) /\ Exceeds(usedBy[l + 1], budget)
        BY <1>1, <2>4, <2>5, <3>1, <3>2, <4>2
      <4> HIDE DEF v, c, used, usedBy, k, l
      <4> QED
        BY <1>2, <2>4, <2>6, <4>2, <4>3, <4>4 DEF Agree, usedBy
    <3>3. CASE ~ Exceeds(b.bytes + size[n].bytes, budget)
      <4>1. c = WithNode(b, n, size)
        BY <1>1, <1>4, <2>8, <3>1, <3>3, AppendNodeIs
      <4>2. /\ c.snippets = v.snippets /\ c.bytes = v.bytes /\ c.seen = v.seen /\ ~ c.truncated
            /\ c.bytes = b.bytes + size[n].bytes
        BY <2>2, <2>3, <2>8, <3>1, <4>1 DEF WithNode
      <4> HIDE DEF v, c, used, usedBy, k, l
      <4> QED
        BY <1>2, <2>4, <2>6, <3>3, <4>2 DEF Agree, usedBy
    <3> QED
      BY <3>2, <3>3
  <2> QED
    BY <2>7, <2>8
<1> QED
  BY <1>3, <1>4

\* The targets of a node's edges, for both.
LEMMA AgreeOnTargets ==
    ASSUME NEW N, NEW u, NEW b, NEW size \in Sizes(N), NEW budget \in Nat \cup {Unlimited},
           NEW s \in Seq(N), NEW present, Agree(N, u, b, size, budget)
    PROVE  /\ Agree(N, AppendTargets(u, s, present, size, Unlimited), AppendTargets(b, s, present, size, budget),
                    size, budget)
           /\ b.truncated => AppendTargets(b, s, present, size, budget) = b
<1> DEFINE n == Len(s)
<1>1. n \in Nat /\ \A i \in 1 .. n : s[i] \in N /\ i - 1 \in 0 .. n /\ i \in 0 .. n
  OBVIOUS
<1>2. u \in Contexts(N) /\ b \in Contexts(N)
  BY DEF Agree
<1>f. PICK f : AppendsTargets(f, u, s, present, size, Unlimited)
  BY <1>2, AppendTargetsIs
<1>g. PICK g : AppendsTargets(g, b, s, present, size, budget)
  BY <1>2, AppendTargetsIs
<1>3. /\ f[0] = u
      /\ \A i \in 1 .. n : f[i] = TargetStep(f[i - 1], s[i], present, size, Unlimited)
      /\ AppendTargets(u, s, present, size, Unlimited) = f[n]
  BY <1>f DEF AppendsTargets
<1>4. /\ g[0] = b
      /\ \A i \in 1 .. n : g[i] = TargetStep(g[i - 1], s[i], present, size, budget)
      /\ AppendTargets(b, s, present, size, budget) = g[n]
  BY <1>g DEF AppendsTargets
<1> DEFINE G == {i \in 0 .. n : Agree(N, f[i], g[i], size, budget) /\ (b.truncated => g[i] = b)}
<1> HIDE DEF n
<1>5. ASSUME NEW i \in 1 .. n, i - 1 \in G
      PROVE  i \in G
  <2>1. /\ Agree(N, f[i - 1], g[i - 1], size, budget) /\ (b.truncated => g[i - 1] = b)
        /\ ~ f[i - 1].truncated
    BY <1>5 DEF Agree
  <2>2. /\ f[i] = IF s[i] \notin present THEN f[i - 1] ELSE AppendNode(f[i - 1], s[i], size, Unlimited)
        /\ g[i] = IF s[i] \notin present THEN g[i - 1]
                  ELSE IF g[i - 1].truncated THEN g[i - 1] ELSE AppendNode(g[i - 1], s[i], size, budget)
    BY <1>3, <1>4, <2>1 DEF TargetStep
  <2>3. Agree(N, f[i], g[i], size, budget)
    <3> DEFINE v == f[i - 1]
               c == g[i - 1]
               n0 == s[i]
    <3>1. Agree(N, v, c, size, budget) /\ n0 \in N
      BY <1>1, <2>1
    <3> HIDE DEF v, c, n0
    <3>2. Agree(N, AppendNode(v, n0, size, Unlimited), IF c.truncated THEN c ELSE AppendNode(c, n0, size, budget),
                size, budget)
      BY <3>1, AgreeOnNode
    <3>3. CASE n0 \in present
      BY <2>2, <3>2, <3>3 DEF v, c, n0
    <3>4. CASE n0 \notin present
      BY <2>1, <2>2, <3>4 DEF n0
    <3> QED
      BY <3>3, <3>4
  <2>4. b.truncated => g[i] = b
    BY <2>1, <2>2
  <2> QED
    BY <1>1, <2>3, <2>4
<1>6. 0 \in G
  BY <1>1, <1>3, <1>4
<1> HIDE DEF G
<1>7. \A i \in 0 .. n : i \in G
  BY <1>1, <1>5, <1>6, Induction
<1>8. n \in G
  BY <1>1, <1>7
<1> QED
  BY <1>3, <1>4, <1>8 DEF G

RootStep(ctx, r, present, targets, size, budget) ==
    IF ctx.truncated THEN ctx
    ELSE AppendTargets(AppendNode(ctx, r, size, budget), targets[r], present, size, budget)

AppendsRoots(f, s, present, targets, size, budget) ==
    /\ f[0] = Empty
    /\ \A i \in 1 .. Len(s) : f[i] = RootStep(f[i - 1], s[i], present, targets, size, budget)
    /\ AppendRoots(s, present, targets, size, budget) = f[Len(s)]

LEMMA AppendRootsIs ==
    ASSUME NEW N, NEW s \in Seq(N), NEW present, NEW targets \in Links(N), NEW size \in Sizes(N), NEW budget
    PROVE  \E f : AppendsRoots(f, s, present, targets, size, budget)
<1> DEFINE n == Len(s)
           X == Contexts(N)
           T(x, i) == RootStep(x, s[i], present, targets, size, budget)
           step == [i \in 1 .. n |-> [x \in X |-> T(x, i)]]
<1>0. n \in Nat /\ \A i \in 1 .. n : s[i] \in N /\ i \in 0 .. n /\ i - 1 \in 0 .. n /\ i /= 0
  OBVIOUS
<1>1. ASSUME NEW i \in 1 .. n, NEW x \in X
      PROVE  T(x, i) \in X
  <2> DEFINE y == AppendNode(x, s[i], size, budget)
  <2>1. s[i] \in N /\ targets[s[i]] \in Seq(N)
    BY <1>0 DEF Links
  <2>2. y \in Contexts(N)
    BY <2>1, AppendNodeIs
  <2> HIDE DEF y
  <2>3. AppendTargets(y, targets[s[i]], present, size, budget) \in Contexts(N)
    <3> DEFINE ts == targets[s[i]]
    <3>1. ts \in Seq(N)
      BY <2>1
    <3> HIDE DEF ts
    <3>2. AppendTargets(y, ts, present, size, budget) \in Contexts(N)
      BY <2>2, <3>1, AppendTargetsIs
    <3> QED
      BY <3>2 DEF ts
  <2> QED
    BY <2>3 DEF RootStep, y
<1> HIDE DEF n, X, T
<1>2. step \in StepsOf(n, X)
  BY <1>1 DEF StepsOf
<1>3. \A i \in 1 .. n : \A x \in X : step[i][x] = T(x, i)
  OBVIOUS
<1>4. Empty \in X
  BY DEF X, Empty, Contexts
<1> HIDE DEF step
<1>5. PICK f : Iterates(f, n, X, Empty, step)
  BY <1>0, <1>2, <1>4, Iteration
<1>6. f \in [0 .. n -> X] /\ f[0] = Empty /\ \A i \in 1 .. n : f[i] = T(f[i - 1], i)
  BY <1>0, <1>3, <1>5 DEF Iterates
<1>7. f = [i \in 0 .. n |-> IF i = 0 THEN Empty
                            ELSE IF f[i - 1].truncated THEN f[i - 1]
                            ELSE AppendTargets(AppendNode(f[i - 1], s[i], size, budget), targets[s[i]],
                                               present, size, budget)]
  <2>1. \A i \in 0 .. n : i = 0 \/ i \in 1 .. n
    BY <1>0
  <2>2. \A i \in 0 .. n : f[i] = IF i = 0 THEN Empty ELSE T(f[i - 1], i)
    BY <1>6, <2>1
  <2>3. f = [i \in 0 .. n |-> IF i = 0 THEN Empty ELSE T(f[i - 1], i)]
    BY <1>6, <2>2
  <2> QED
    BY <2>3, Zenon DEF T, RootStep
<1> DEFINE g == CHOOSE g : g = [i \in 0 .. n |-> IF i = 0 THEN Empty
                            ELSE IF g[i - 1].truncated THEN g[i - 1]
                            ELSE AppendTargets(AppendNode(g[i - 1], s[i], size, budget), targets[s[i]],
                                               present, size, budget)]
<1>8. g = [i \in 0 .. n |-> IF i = 0 THEN Empty
                            ELSE IF g[i - 1].truncated THEN g[i - 1]
                            ELSE AppendTargets(AppendNode(g[i - 1], s[i], size, budget), targets[s[i]],
                                               present, size, budget)]
  BY <1>7, Zenon
<1>9. AppendRoots(s, present, targets, size, budget) = g[n]
  BY Zenon DEF AppendRoots, n
<1> HIDE DEF g
<1>10. \A i \in 0 .. n : g[i] = IF i = 0 THEN Empty ELSE T(g[i - 1], i)
  BY <1>8, Zenon DEF T, RootStep
<1>11. 0 \in 0 .. n
  BY <1>0
<1>12. g[0] = Empty /\ \A i \in 1 .. n : g[i] = T(g[i - 1], i)
  BY <1>0, <1>10, <1>11
<1>13. AppendsRoots(g, s, present, targets, size, budget)
  BY <1>9, <1>12, Zenon DEF AppendsRoots, n, T
<1> QED
  BY <1>13, Zenon

\* Roots and their targets, for both.
LEMMA AgreeOnRoots ==
    ASSUME NEW N, NEW size \in Sizes(N), NEW budget \in Nat \cup {Unlimited},
           NEW s \in Seq(N), NEW present, NEW targets \in Links(N)
    PROVE  Agree(N, AppendRoots(s, present, targets, size, Unlimited), AppendRoots(s, present, targets, size, budget),
                 size, budget)
<1> DEFINE n == Len(s)
<1>1. n \in Nat /\ \A i \in 1 .. n : s[i] \in N /\ targets[s[i]] \in Seq(N) /\ i - 1 \in 0 .. n /\ i \in 0 .. n
  BY DEF Links
<1>2. Agree(N, Empty, Empty, size, budget)
  <2>1. Empty \in Contexts(N) /\ Empty.snippets = <<>> /\ Empty.bytes = 0 /\ ~ Empty.truncated
    BY DEF Empty, Contexts
  <2>2. <<>> \in Seq(N) /\ Len(<<>>) = 0
    OBVIOUS
  <2>3. Used(<<>>, size, "bytes")[0] = 0
    BY <2>2, UsedIs
  <2>4. ~ Exceeds(0, budget)
    BY DEF Exceeds
  <2> QED
    BY <2>1, <2>2, <2>3, <2>4 DEF Agree
<1>f. PICK f : AppendsRoots(f, s, present, targets, size, Unlimited)
  BY AppendRootsIs
<1>g. PICK g : AppendsRoots(g, s, present, targets, size, budget)
  BY AppendRootsIs
<1>3. /\ f[0] = Empty
      /\ \A i \in 1 .. n : f[i] = RootStep(f[i - 1], s[i], present, targets, size, Unlimited)
      /\ AppendRoots(s, present, targets, size, Unlimited) = f[n]
  BY <1>f DEF AppendsRoots
<1>4. /\ g[0] = Empty
      /\ \A i \in 1 .. n : g[i] = RootStep(g[i - 1], s[i], present, targets, size, budget)
      /\ AppendRoots(s, present, targets, size, budget) = g[n]
  BY <1>g DEF AppendsRoots
<1> DEFINE G == {i \in 0 .. n : Agree(N, f[i], g[i], size, budget)}
<1> HIDE DEF n
<1>5. ASSUME NEW i \in 1 .. n, i - 1 \in G
      PROVE  i \in G
  <2> DEFINE u == f[i - 1]
             b == g[i - 1]
             v == AppendNode(u, s[i], size, Unlimited)
             c == IF b.truncated THEN b ELSE AppendNode(b, s[i], size, budget)
  <2>1. Agree(N, u, b, size, budget) /\ ~ u.truncated
    BY <1>5 DEF Agree
  <2>2. Agree(N, v, c, size, budget)
    BY <1>1, <2>1, AgreeOnNode
  <2>3. f[i] = AppendTargets(v, targets[s[i]], present, size, Unlimited)
    BY <1>3, <2>1 DEF RootStep
  <2>4. g[i] = IF b.truncated THEN b ELSE AppendTargets(AppendNode(b, s[i], size, budget), targets[s[i]], present, size, budget)
    BY <1>4 DEF RootStep
  <2> HIDE DEF v
  <2>5. CASE b.truncated
    <3>1. c = b /\ g[i] = b
      BY <2>4, <2>5
    <3> HIDE DEF b, c
    <3>2. /\ Agree(N, AppendTargets(v, targets[s[i]], present, size, Unlimited),
                   AppendTargets(b, targets[s[i]], present, size, budget), size, budget)
          /\ AppendTargets(b, targets[s[i]], present, size, budget) = b
      BY <1>1, <2>2, <2>5, <3>1, AgreeOnTargets
    <3> QED
      BY <1>1, <2>3, <3>1, <3>2
  <2>6. CASE ~ b.truncated
    <3>1. g[i] = AppendTargets(c, targets[s[i]], present, size, budget)
      BY <2>4, <2>6
    <3> HIDE DEF c
    <3>2. Agree(N, AppendTargets(v, targets[s[i]], present, size, Unlimited),
                AppendTargets(c, targets[s[i]], present, size, budget), size, budget)
      BY <1>1, <2>2, AgreeOnTargets
    <3> QED
      BY <1>1, <2>3, <3>1, <3>2
  <2> QED
    BY <2>5, <2>6
<1>6. 0 \in G
  BY <1>1, <1>2, <1>3, <1>4
<1> HIDE DEF G
<1>7. \A i \in 0 .. n : i \in G
  BY <1>1, <1>5, <1>6, Induction
<1>8. n \in G
  BY <1>1, <1>7
<1> QED
  BY <1>3, <1>4, <1>8 DEF G

\* Snippets use no less than the first of them.
LEMMA UsedIsMonotone ==
    ASSUME NEW N, NEW s \in Seq(N), NEW size \in Sizes(N), NEW j \in 0 .. Len(s)
    PROVE  \A i \in 0 .. j : Used(s, size, "bytes")[i] <= Used(s, size, "bytes")[j]
<1> DEFINE n == Len(s)
           u == Used(s, size, "bytes")
           G == {k \in 0 .. n : \A i \in 0 .. k : u[i] <= u[k]}
<1>1. n \in Nat /\ j \in 0 .. n /\ \A k \in 1 .. n : s[k] \in N /\ size[s[k]].bytes \in Nat
  BY DEF Sizes
<1>2. /\ \A k \in 0 .. n : u[k] \in Nat
      /\ \A k \in 1 .. n : u[k] = u[k - 1] + size[s[k]].bytes
  <2> HIDE DEF u
  <2>1. u \in [0 .. Len(s) -> Nat] /\ \A k \in 1 .. Len(s) : u[k] = u[k - 1] + size[s[k]].bytes
    BY UsedIs DEF u
  <2> QED
    BY <2>1
<1> HIDE DEF n, u
<1>3. 0 \in G
  BY <1>1, <1>2
<1>4. ASSUME NEW k \in 1 .. n, k - 1 \in G
      PROVE  k \in G
  <2>1. k \in 0 .. n /\ k - 1 \in 0 .. n
    BY <1>1
  <2>2. u[k - 1] <= u[k] /\ u[k - 1] \in Nat /\ u[k] \in Nat
    <3>1. u[k - 1] \in Nat /\ u[k] \in Nat /\ size[s[k]].bytes \in Nat
      BY <1>1, <1>2, <2>1
    <3>2. u[k] = u[k - 1] + size[s[k]].bytes
      BY <1>2
    <3> QED
      BY <3>1, <3>2
  <2>3. ASSUME NEW i \in 0 .. k
        PROVE  u[i] <= u[k]
    <3>1. i = k \/ i \in 0 .. k - 1
      BY <1>1
    <3>2. i \in 0 .. n /\ u[i] \in Nat
      BY <1>1, <1>2
    <3>3. i \in 0 .. k - 1 => u[i] <= u[k - 1]
      BY <1>4
    <3> QED
      BY <2>2, <3>1, <3>2, <3>3
  <2> QED
    BY <2>1, <2>3
<1> HIDE DEF G
<1>5. \A k \in 0 .. n : k \in G
  BY <1>1, <1>3, <1>4, Induction
<1> QED
  BY <1>1, <1>5 DEF G, u

\* Packing the one gives the other.
LEMMA PackedAgree ==
    ASSUME NEW N, NEW u, NEW b, NEW size \in Sizes(N), NEW budget \in Nat \cup {Unlimited},
           Agree(N, u, b, size, budget)
    PROVE  PackSnippets(u.snippets, size, [bytes |-> budget, lines |-> Unlimited, units |-> Unlimited])
             = [snippets |-> b.snippets, bytes |-> b.bytes, truncated |-> b.truncated]
<1> DEFINE s == u.snippets
           k == Len(b.snippets)
           l == Len(s)
           used == Used(s, size, "bytes")
           limits == [bytes |-> budget, lines |-> Unlimited, units |-> Unlimited]
           fits(j) == \A m \in {"bytes", "lines", "units"} : ~ Exceeds(Used(s, size, m)[j], limits[m])
           K == {i \in 0 .. l : \A j \in 1 .. i : fits(j)}
<1>1. /\ u \in Contexts(N) /\ b \in Contexts(N)
      /\ k <= l /\ \A i \in 1 .. k : b.snippets[i] = s[i]
      /\ b.bytes = used[k] /\ ~ Exceeds(b.bytes, budget)
      /\ ~ b.truncated => b.snippets = s
      /\ b.truncated => k < l /\ Exceeds(used[k + 1], budget)
  BY DEF Agree
<1>2. s \in Seq(N) /\ b.snippets \in Seq(N) /\ k \in Nat /\ l \in Nat /\ b.truncated \in BOOLEAN
  BY <1>1 DEF Contexts
<1>3. \A j : fits(j) <=> ~ Exceeds(used[j], budget)
  <2>1. \A x : ~ Exceeds(x, Unlimited)
    BY DEF Exceeds
  <2>2. limits["bytes"] = budget /\ limits["lines"] = Unlimited /\ limits["units"] = Unlimited
    OBVIOUS
  <2> HIDE DEF limits
  <2> QED
    BY <2>1, <2>2
<1>4. /\ \A j \in 0 .. l : used[j] \in Nat
      /\ \A i \in 0 .. k : used[i] <= used[k]
  <2>1. used \in [0 .. l -> Nat]
    BY <1>2, UsedIs
  <2>2. k \in 0 .. l
    BY <1>1, <1>2
  <2>3. \A i \in 0 .. k : used[i] <= used[k]
    BY <1>2, <2>2, UsedIsMonotone
  <2> HIDE DEF used, l, k
  <2> QED
    BY <2>1, <2>3
<1> HIDE DEF used, fits, k, l
<1>5. k \in K
  <2>1. ASSUME NEW j \in 1 .. k
        PROVE  ~ Exceeds(used[j], budget)
    <3>1. j \in 0 .. k /\ j \in 0 .. l /\ k \in 0 .. l
      BY <1>1, <1>2
    <3>2. used[j] <= used[k] /\ used[j] \in Nat /\ used[k] \in Nat
      BY <1>4, <3>1
    <3> QED
      BY <1>1, <3>2 DEF Exceeds
  <2> QED
    BY <1>1, <1>2, <1>3, <2>1
<1>6. \A i \in K : k >= i
  <2> SUFFICES ASSUME NEW i \in K, i > k
               PROVE  FALSE
    BY <1>2
  <2>1. k < l
    BY <1>2
  <2>2. b.truncated
    BY <1>1, <1>2, <2>1 DEF k, l
  <2>3. k + 1 \in 1 .. i
    BY <1>2
  <2> QED
    BY <1>1, <1>3, <2>2, <2>3
<1>7. Max(K) = k
  <2> HIDE DEF K
  <2>1. K \subseteq Nat
    BY <1>2 DEF K
  <2>2. ASSUME NEW x \in K, \A y \in K : x >= y
        PROVE  x = k
    <3>1. x \in Nat /\ x >= k /\ k >= x
      BY <1>5, <1>6, <2>1, <2>2
    <3> QED
      BY <1>2, <3>1
  <2> QED
    BY <1>5, <1>6, <2>2 DEF Max
<1>8. SubSeq(s, 1, k) = b.snippets
  <2>1. SubSeq(s, 1, k) \in Seq(N) /\ Len(SubSeq(s, 1, k)) = k /\ \A i \in 1 .. k : SubSeq(s, 1, k)[i] = s[i]
    <3>1. k <= Len(s)
      BY <1>1 DEF l
    <3> HIDE DEF s
    <3> QED
      BY <1>2, <3>1
  <2> HIDE DEF s
  <2> QED
    BY <1>1, <1>2, <2>1, SeqEqual DEF k
<1>9. k < l <=> b.truncated
  BY <1>1, <1>2 DEF k, l
<1>10. PackSnippets(s, size, limits) = [snippets |-> SubSeq(s, 1, Max(K)), bytes |-> used[Max(K)], truncated |-> Max(K) < l]
  BY DEF PackSnippets, K, fits, used, l
<1> HIDE DEF s, limits, K
<1>11. PackSnippets(s, size, limits) = [snippets |-> b.snippets, bytes |-> b.bytes, truncated |-> b.truncated]
  BY <1>1, <1>2, <1>7, <1>8, <1>9, <1>10
<1> QED
  BY <1>11 DEF s, limits

\* Whatever the graph, the sizes and the budget are: assembling under a byte
\* budget is packing, to that budget, what is assembled without one
\* (assemble_neighborhood_with_config, assemble_neighborhood_with_budget).
THEOREM BudgetsAlwaysAgree ==
    ASSUME NEW N \in SUBSET Nat, NEW roots \in SUBSET N, IsFiniteSet(roots), NEW present,
           NEW targets \in [N -> Seq(N)], NEW size \in Sizes(N), NEW budget \in Nat \cup {Unlimited}
    PROVE  BudgetsAgree(roots, present, targets, size, budget)
<1> DEFINE s == Ascending(roots)
           u == AppendRoots(s, present, targets, size, Unlimited)
           b == AppendRoots(s, present, targets, size, budget)
<1>1. s \in Seq(N)
  <2>1. Cardinality(roots) \in Nat /\ s \in [1 .. Cardinality(roots) -> roots]
    BY AscendingLists
  <2> HIDE DEF s
  <2>2. s \in [1 .. Cardinality(roots) -> N]
    BY <2>1
  <2> QED
    BY <2>1, <2>2
<1>2. Agree(N, u, b, size, budget)
  <2>1. targets \in Links(N)
    BY DEF Links
  <2> HIDE DEF s
  <2> QED
    BY <1>1, <2>1, AgreeOnRoots
<1>3. AssembleNeighborhood(roots, present, targets, size, Unlimited).snippets = u.snippets
  BY DEF AssembleNeighborhood
<1>4. AssembleNeighborhood(roots, present, targets, size, budget)
        = [snippets |-> b.snippets, bytes |-> b.bytes, truncated |-> b.truncated]
  BY DEF AssembleNeighborhood
<1> HIDE DEF s, u, b
<1>5. PackSnippets(u.snippets, size, [bytes |-> budget, lines |-> Unlimited, units |-> Unlimited])
        = [snippets |-> b.snippets, bytes |-> b.bytes, truncated |-> b.truncated]
  BY <1>2, PackedAgree
<1> QED
  BY <1>3, <1>4, <1>5 DEF BudgetsAgree

-----------------------------------------------------------------------------
(* Lines of a text.                                                        *)

\* A line starts at the start of the text or after a "\n".
StartsOfLines(bytes) == {0} \cup {i \in 1 .. Len(bytes) : bytes[i] = "n"}

LEMMA LinesStartAfterNewlines ==
    ASSUME NEW bytes \in Seq(Bytes)
    PROVE  LineStarts(bytes) = Ascending(StartsOfLines(bytes))
<1> DEFINE n == Len(bytes)
           S == {AfterEnd(bytes, i) : i \in Ends(bytes)}
           T == {i \in 1 .. n : bytes[i] = "n"}
<1>1. n \in Nat
  OBVIOUS
<1> HIDE DEF n
<1>2. ASSUME NEW i \in Ends(bytes)
      PROVE  AfterEnd(bytes, i) \in T
  <2>1. i \in 0 .. n - 1 /\ EndsAt(bytes, i)
    BY DEF Ends, n
  <2>2. CASE bytes[i + 1] = "n"
    BY <1>1, <2>1, <2>2 DEF AfterEnd
  <2>3. CASE bytes[i + 1] /= "n"
    <3>1. bytes[i + 1] = "r" /\ i + 2 <= n /\ bytes[i + 2] = "n"
      BY <2>1, <2>3 DEF EndsAt, n
    <3> QED
      BY <1>1, <2>1, <2>3, <3>1 DEF AfterEnd
  <2> QED
    BY <2>2, <2>3
<1>3. ASSUME NEW i \in T
      PROVE  \E e \in Ends(bytes) : AfterEnd(bytes, e) = i
  <2>1. CASE i = 1 \/ bytes[i - 1] /= "r"
    <3>1. i - 1 \in 0 .. n - 1 /\ (i - 1) + 1 = i /\ (i - 1 = 0 \/ bytes[i - 1] /= "r")
      BY <1>1, <2>1
    <3>2. i - 1 \in Ends(bytes)
      BY <3>1 DEF Ends, EndsAt, n
    <3>3. AfterEnd(bytes, i - 1) = i
      BY <3>1 DEF AfterEnd
    <3> QED
      BY <3>2, <3>3
  <2>2. CASE i /= 1 /\ bytes[i - 1] = "r"
    <3>1. i - 2 \in 0 .. n - 1 /\ (i - 2) + 1 = i - 1 /\ (i - 2) + 2 = i /\ i <= n
      BY <1>1, <2>2
    <3>2. i - 2 \in Ends(bytes)
      BY <2>2, <3>1 DEF Ends, EndsAt, n
    <3>3. AfterEnd(bytes, i - 2) = i
      BY <2>2, <3>1 DEF AfterEnd
    <3> QED
      BY <3>2, <3>3
  <2> QED
    BY <2>1, <2>2
<1>4. S = T
  BY <1>2, <1>3
<1> QED
  BY <1>4 DEF LineStarts, StartsOfLines, n

LEMMA LineStartsAre ==
    ASSUME NEW bytes \in Seq(Bytes)
    PROVE  LET starts == LineStarts(bytes)
               S == StartsOfLines(bytes)
               c == Cardinality(S)
           IN /\ S \in SUBSET (0 .. Len(bytes)) /\ 0 \in S /\ IsFiniteSet(S) /\ c \in Nat
              /\ starts \in [1 .. c -> S]
              /\ \A s \in S : \E k \in 1 .. c : starts[k] = s
              /\ \A i, j \in 1 .. c : i < j => starts[i] < starts[j]
              /\ \A k \in 1 .. c : Cardinality({s \in S : s < starts[k]}) = k - 1
<1> DEFINE S == StartsOfLines(bytes)
<1>1. S \in SUBSET (0 .. Len(bytes)) /\ 0 \in S
  BY DEF StartsOfLines
<1>2. IsFiniteSet(0 .. Len(bytes))
  BY FS_Interval
<1> HIDE DEF S
<1>3. IsFiniteSet(S)
  BY <1>1, <1>2, FS_Subset
<1>4. S \in SUBSET Nat
  BY <1>1
<1>5. /\ Cardinality(S) \in Nat
      /\ Ascending(S) \in [1 .. Cardinality(S) -> S]
      /\ \A s \in S : \E k \in 1 .. Cardinality(S) : Ascending(S)[k] = s
      /\ \A i, j \in 1 .. Cardinality(S) : i < j => Ascending(S)[i] < Ascending(S)[j]
      /\ \A k \in 1 .. Cardinality(S) : Cardinality({s \in S : s < Ascending(S)[k]}) = k - 1
  BY <1>3, <1>4, AscendingLists
<1>6. LineStarts(bytes) = Ascending(S)
  BY LinesStartAfterNewlines DEF S
<1> QED
  BY <1>1, <1>3, <1>5, <1>6 DEF S

\* The line of an offset is the last that starts at or before it.
LEMMA LineOfIs ==
    ASSUME NEW bytes \in Seq(Bytes), NEW offset \in 0 .. Len(bytes)
    PROVE  LET starts == LineStarts(bytes)
               k == LineOf(bytes, offset)
           IN /\ k \in 1 .. Cardinality(StartsOfLines(bytes))
              /\ starts[k] \in StartsOfLines(bytes) /\ starts[k] <= offset
              /\ \A j \in 1 .. Cardinality(StartsOfLines(bytes)) : starts[j] <= offset => j <= k
              /\ \A s \in StartsOfLines(bytes) : s <= offset => s <= starts[k]
<1> DEFINE starts == LineStarts(bytes)
           S == StartsOfLines(bytes)
           c == Cardinality(S)
           K == {j \in 1 .. c : starts[j] <= offset}
           k == LineOf(bytes, offset)
<1>1. /\ S \in SUBSET (0 .. Len(bytes)) /\ 0 \in S /\ c \in Nat
      /\ starts \in [1 .. c -> S]
      /\ \A s \in S : \E i \in 1 .. c : starts[i] = s
      /\ \A i, j \in 1 .. c : i < j => starts[i] < starts[j]
  BY LineStartsAre
<1> HIDE DEF starts, S, c
<1>0. \A s \in S : s \in Nat
  BY <1>1
<1>2. K \in SUBSET (0 .. c) /\ K /= {}
  BY <1>1
<1>3. \E j \in K : \A i \in K : i <= j
  <2> HIDE DEF K
  <2> QED
    BY <1>1, <1>2, GreatestNumber
<1>4. k = CHOOSE j \in 1 .. c : starts[j] <= offset /\ \A i \in 1 .. c : starts[i] <= offset => i <= j
  <2>1. DOMAIN starts = 1 .. c
    BY <1>1
  <2> QED
    BY <2>1, Zenon DEF LineOf, starts
<1>5. \E j \in 1 .. c : starts[j] <= offset /\ \A i \in 1 .. c : starts[i] <= offset => i <= j
  BY <1>3
<1>6. k \in 1 .. c /\ starts[k] <= offset /\ \A i \in 1 .. c : starts[i] <= offset => i <= k
  BY <1>4, <1>5, Zenon
<1> HIDE DEF k
<1>7. ASSUME NEW s \in S, s <= offset
      PROVE  s <= starts[k]
  <2>1. PICK i \in 1 .. c : starts[i] = s
    BY <1>1
  <2>2. i \in Nat /\ k \in Nat /\ i <= k
    BY <1>1, <1>6, <1>7, <2>1
  <2>3. starts[i] \in Nat /\ starts[k] \in Nat
    BY <1>0, <1>1, <1>6
  <2>4. i = k \/ starts[i] < starts[k]
    BY <1>1, <1>6, <2>2
  <2> QED
    BY <2>1, <2>3, <2>4
<1>8. starts[k] \in S
  BY <1>1, <1>6
<1> QED
  BY <1>6, <1>7, <1>8 DEF k, c, S, starts

\* The lines a match touches hold it and are whole, whatever the text.
LEMMA SpansHold ==
    ASSUME NEW bytes \in Seq(Bytes)
    PROVE  SpanHoldsTheMatch(bytes)
<1> DEFINE starts == LineStarts(bytes)
           S == StartsOfLines(bytes)
           c == Cardinality(S)
           n == Len(bytes)
<1>1. /\ S \in SUBSET (0 .. n) /\ c \in Nat /\ n \in Nat
      /\ starts \in [1 .. c -> S]
  BY LineStartsAre
<1>2. \A s \in S : s \in Nat /\ (s = 0 \/ bytes[s] = "n")
  BY DEF StartsOfLines
<1>3. ASSUME NEW from \in 0 .. n, NEW to \in from .. n
      PROVE  LET span == PreviewSpan(bytes, from, to)
             IN  /\ span.from <= from /\ to <= span.to
                 /\ span.from = 0 \/ bytes[span.from] = "n"
                 /\ span.to = n \/ bytes[span.to] = "n"
  <2> DEFINE first == LineOf(bytes, from)
             last == LineOf(bytes, to)
             end == IF last + 1 \in DOMAIN starts THEN starts[last + 1] ELSE n
  <2>1. PreviewSpan(bytes, from, to) = [from |-> starts[first], to |-> end]
    BY DEF PreviewSpan
  <2>2. /\ first \in 1 .. c /\ starts[first] \in S /\ starts[first] <= from
        /\ last \in 1 .. c /\ \A j \in 1 .. c : starts[j] <= to => j <= last
    <3>1. from \in 0 .. Len(bytes) /\ to \in 0 .. Len(bytes)
      BY <1>1
    <3> QED
      BY <3>1, LineOfIs
  <2> HIDE DEF starts, S, c, n, first, last
  <2>3. to <= end /\ (end = n \/ (end \in S /\ end /= 0))
    <3>1. CASE last + 1 \in DOMAIN starts
      <4>1. last + 1 \in 1 .. c /\ last \in Nat
        BY <1>1, <2>2, <3>1
      <4>2. starts[last + 1] \in S /\ starts[last + 1] \in Nat
        BY <1>1, <1>2, <4>1
      <4>3. ~ (starts[last + 1] <= to)
        BY <2>2, <4>1
      <4> QED
        BY <1>1, <1>3, <3>1, <4>2, <4>3
    <3>2. CASE last + 1 \notin DOMAIN starts
      BY <1>1, <1>3, <3>2
    <3> QED
      BY <3>1, <3>2
  <2> HIDE DEF end
  <2>4. end = n \/ bytes[end] = "n"
    BY <1>2, <2>3
  <2> QED
    BY <1>2, <2>1, <2>2, <2>3, <2>4
<1> QED
  BY <1>3 DEF SpanHoldsTheMatch, n

-----------------------------------------------------------------------------
(* Scalars of a text, and its positions.                                   *)

\* What a slice holds.
LEMMA SliceIs ==
    ASSUME NEW bytes \in Seq(Bytes), NEW x \in 0 .. Len(bytes), NEW y \in x .. Len(bytes)
    PROVE  /\ Slice(bytes, x, y) \in Seq(Bytes) /\ Len(Slice(bytes, x, y)) = y - x
           /\ \A i \in 1 .. y - x : Slice(bytes, x, y)[i] = bytes[x + i]
<1> DEFINE n == Len(bytes)
           m == x + 1
<1>1. n \in Nat /\ x \in Nat /\ y \in Nat /\ x <= y /\ y <= n /\ m \in Int /\ y \in Int
  OBVIOUS
<1>2. \A i \in m .. y : bytes[i] \in Bytes
  BY <1>1
<1>3. Slice(bytes, x, y) = SubSeq(bytes, m, y)
  BY DEF Slice
<1> HIDE DEF m
<1>4. /\ SubSeq(bytes, m, y) \in Seq(Bytes)
      /\ Len(SubSeq(bytes, m, y)) = IF m <= y THEN y - m + 1 ELSE 0
      /\ \A i \in 1 .. y - m + 1 : SubSeq(bytes, m, y)[i] = bytes[m + i - 1]
  BY <1>1, <1>2, SubSeqProperties
<1>5. y - m + 1 = y - x /\ (~ (m <= y) => y - x = 0)
  BY <1>1 DEF m
<1>6. \A i \in 1 .. y - x : m + i - 1 = x + i
  BY <1>1 DEF m
<1>7. Len(SubSeq(bytes, m, y)) = y - x
  BY <1>4, <1>5
<1> QED
  BY <1>3, <1>4, <1>5, <1>6, <1>7

\* The scalar that begins at an offset: a lead and what continues it.
LEMMA ScalarAt ==
    ASSUME NEW bytes \in Seq(Bytes), NEW i \in 0 .. Len(bytes) - 1
    PROVE  LET n == Len(bytes)
               k == FirstScalar(Slice(bytes, i, n))
               b == ScalarBytes(bytes[i + 1])
           IN  /\ k \in 1 .. 3 /\ i + k <= n /\ k <= b /\ \A q \in 2 .. k : bytes[i + q] = "c"
               /\ k = b \/ i + k = n \/ bytes[i + k + 1] /= "c"
<1> DEFINE n == Len(bytes)
           s == Slice(bytes, i, n)
           b == ScalarBytes(bytes[i + 1])
           k == FirstScalar(s)
           fits == {m \in 1 .. b : m <= n - i /\ \A q \in 2 .. m : bytes[i + q] = "c"}
<1>1. n \in Nat /\ i \in 0 .. n /\ n \in i .. n /\ i + 1 <= n /\ bytes[i + 1] \in Bytes /\ i \in Nat
  OBVIOUS
<1>2. s \in Seq(Bytes) /\ Len(s) = n - i /\ \A q \in 1 .. n - i : s[q] = bytes[i + q]
  BY <1>1, SliceIs
<1>3. b \in 1 .. 3
  BY <1>1 DEF ScalarBytes, Bytes, IsAscii
<1> HIDE DEF s, n, b
<1>4. s[1] = bytes[i + 1]
  BY <1>1, <1>2
<1>5. fits = {m \in 1 .. ScalarBytes(s[1]) : m <= Len(s) /\ Continued(s, m)}
  <2>1. ASSUME NEW m \in 1 .. b, m <= n - i
        PROVE  Continued(s, m) <=> \A q \in 2 .. m : bytes[i + q] = "c"
    <3>1. \A q \in 2 .. m : q \in 1 .. n - i
      BY <1>1, <1>3, <2>1
    <3>2. \A q \in 2 .. m : s[q] = bytes[i + q]
      BY <1>2, <3>1
    <3> QED
      BY <3>2 DEF Continued
  <2>2. ScalarBytes(s[1]) = b /\ Len(s) = n - i
    BY <1>2, <1>4 DEF b
  <2> QED
    BY <2>1, <2>2
<1>6. k = CHOOSE m \in fits : \A j \in fits : j <= m
  BY <1>5, Zenon DEF FirstScalar
<1>7. fits \in SUBSET (0 .. 3) /\ fits /= {}
  <2>1. 1 \in fits
    BY <1>1, <1>3
  <2>2. \A m \in 1 .. b : m \in 0 .. 3
    BY <1>3
  <2> QED
    BY <2>1, <2>2
<1>8. k \in fits /\ \A j \in fits : j <= k
  <2> HIDE DEF fits, k
  <2>1. \E m \in fits : \A j \in fits : j <= m
    BY <1>7, GreatestNumber
  <2> QED
    BY <1>6, <2>1, Zenon
<1> HIDE DEF k
<1>9. k \in 1 .. b /\ k \in 1 .. 3 /\ i + k <= n /\ \A q \in 2 .. k : bytes[i + q] = "c"
  BY <1>1, <1>3, <1>8
<1>10. k = b \/ i + k = n \/ bytes[i + k + 1] /= "c"
  <2>1. SUFFICES ASSUME k /= b, i + k /= n, bytes[i + k + 1] = "c"
                 PROVE  FALSE
    OBVIOUS
  <2>2. k + 1 \in 1 .. b /\ k + 1 <= n - i /\ i + (k + 1) = i + k + 1
    BY <1>1, <1>3, <1>9, <2>1
  <2>3. \A q \in 2 .. k + 1 : q \in 2 .. k \/ q = k + 1
    BY <1>9
  <2>4. k + 1 \in fits
    BY <1>9, <2>1, <2>2, <2>3
  <2> HIDE DEF fits
  <2>5. k + 1 <= k /\ k \in Nat
    BY <1>8, <1>9, <2>4
  <2> QED
    BY <2>5
<1> QED
  BY <1>3, <1>9, <1>10 DEF k, b, n, s

\* Whether the byte at offset j continues a scalar that begins at x or later:
\* it follows a lead, or the first byte after a lead of three.
Inner(bytes, x, j) ==
    /\ bytes[j + 1] = "c"
    /\ \/ j - 1 >= x /\ bytes[j] \in {"2", "3"}
       \/ j - 2 >= x /\ bytes[j] = "c" /\ bytes[j - 1] = "3"

\* From the start of a scalar on, scalars begin there and after it.
LEMMA ScalarSkips ==
    ASSUME NEW bytes \in Seq(Bytes), NEW i \in 0 .. Len(bytes) - 1, NEW j \in i .. Len(bytes) - 1
    PROVE  LET k == FirstScalar(Slice(bytes, i, Len(bytes)))
           IN  ~ Inner(bytes, i, j) <=> j = i \/ (j >= i + k /\ ~ Inner(bytes, i + k, j))
<1> DEFINE n == Len(bytes)
           k == FirstScalar(Slice(bytes, i, n))
           b == ScalarBytes(bytes[i + 1])
<1>1. n \in Nat /\ i \in Nat /\ j \in Nat /\ i <= j /\ j < n /\ bytes[i + 1] \in Bytes
  OBVIOUS
<1>2. /\ k \in 1 .. 3 /\ i + k <= n /\ k <= b /\ \A q \in 2 .. k : bytes[i + q] = "c"
      /\ k = b \/ i + k = n \/ bytes[i + k + 1] /= "c"
  BY ScalarAt
<1>3. /\ bytes[i + 1] \notin {"2", "3"} => b = 1
      /\ bytes[i + 1] = "2" => b = 2
      /\ bytes[i + 1] = "3" => b = 3
  BY <1>1 DEF ScalarBytes, Bytes, IsAscii
<1>0. SUFFICES ~ Inner(bytes, i, j) <=> j = i \/ (j >= i + k /\ ~ Inner(bytes, i + k, j))
  OBVIOUS
<1> HIDE DEF n, k, b
<1>4. CASE j = i
  BY <1>1, <1>4 DEF Inner
<1>5. CASE j > i /\ j < i + k
  <2>1. CASE j = i + 1
    <3>1. bytes[j + 1] = "c" /\ k >= 2 /\ j = i + 1
      <4>1. k >= 2 /\ 2 \in 2 .. k
        BY <1>1, <1>2, <1>5, <2>1
      <4>2. bytes[i + 2] = "c"
        BY <1>2, <4>1
      <4>3. j + 1 = i + 2
        BY <1>1, <2>1
      <4> QED
        BY <4>1, <4>2, <4>3, <2>1
    <3>2. bytes[j] \in {"2", "3"}
      BY <1>2, <1>3, <3>1
    <3>3. Inner(bytes, i, j)
      BY <1>1, <1>5, <3>1, <3>2 DEF Inner
    <3> QED
      BY <1>1, <1>2, <1>5, <3>3
  <2>2. CASE j /= i + 1
    <3>1. j = i + 2 /\ k = 3 /\ 2 \in 2 .. k /\ 3 \in 2 .. k
      BY <1>1, <1>2, <1>5, <2>2
    <3>2. bytes[i + 2] = "c" /\ bytes[i + 3] = "c"
      BY <1>2, <3>1
    <3>3. bytes[i + 1] = "3"
      BY <1>1, <1>2, <1>3, <3>1 DEF Bytes
    <3>4. j + 1 = i + 3 /\ j = i + 2 /\ j - 1 = i + 1 /\ j - 2 >= i
      BY <1>1, <3>1
    <3>5. bytes[j + 1] = "c" /\ bytes[j] = "c" /\ bytes[j - 1] = "3"
      BY <3>2, <3>3, <3>4
    <3>6. Inner(bytes, i, j)
      BY <1>1, <1>5, <3>4, <3>5 DEF Inner
    <3> QED
      BY <1>1, <1>2, <1>5, <3>6
  <2> QED
    BY <2>1, <2>2
<1>6. CASE j >= i + k
  <2>1. Inner(bytes, i + k, j) => Inner(bytes, i, j)
    BY <1>1, <1>2 DEF Inner
  <2>2. ASSUME Inner(bytes, i, j), ~ Inner(bytes, i + k, j)
        PROVE  FALSE
    <3>1. bytes[j + 1] = "c" /\ (j = i + k \/ j = i + k + 1)
      BY <1>1, <1>2, <1>6, <2>2 DEF Inner
    <3>2. CASE j = i + k
      <4>1. k = b
        BY <1>1, <1>2, <3>1, <3>2
      <4>2. CASE k = 1
        <5>1. bytes[i + 1] \notin {"2", "3"}
          BY <1>3, <4>1, <4>2
        <5>2. j = i + 1 /\ ~ (j - 2 >= i)
          BY <1>1, <3>2, <4>2
        <5> QED
          BY <2>2, <5>1, <5>2 DEF Inner
      <4>3. CASE k = 2
        <5>1. bytes[i + 1] = "2" /\ 2 \in 2 .. k
          BY <1>1, <1>3, <4>1, <4>3 DEF Bytes
        <5>2. bytes[i + 2] = "c"
          BY <1>2, <5>1
        <5>3. j = i + 2 /\ j - 1 = i + 1
          BY <1>1, <3>2, <4>3
        <5> QED
          BY <2>2, <5>1, <5>2, <5>3 DEF Inner
      <4>4. CASE k = 3
        <5>1. 2 \in 2 .. k /\ 3 \in 2 .. k
          BY <4>4
        <5>2. bytes[i + 2] = "c" /\ bytes[i + 3] = "c"
          BY <1>2, <5>1
        <5>3. j = i + 3 /\ j - 1 = i + 2
          BY <1>1, <3>2, <4>4
        <5> QED
          BY <2>2, <5>2, <5>3 DEF Inner
      <4> QED
        BY <1>2, <4>2, <4>3, <4>4
    <3>3. CASE j = i + k + 1
      <4>1. bytes[j] = "c" /\ bytes[j - 1] = "3" /\ j = i + k + 1 /\ j - 1 = i + k
        BY <1>1, <1>2, <2>2, <3>3 DEF Inner
      <4>2. k = b
        BY <1>1, <1>2, <3>3, <4>1
      <4>3. CASE k = 1
        BY <1>3, <4>1, <4>2, <4>3
      <4>4. CASE k /= 1
        <5>1. k \in 2 .. k
          BY <1>2, <4>4
        <5>2. bytes[i + k] = "c"
          BY <1>2, <5>1
        <5> QED
          BY <4>1, <5>2
      <4> QED
        BY <4>3, <4>4
    <3> QED
      BY <3>1, <3>2, <3>3
  <2> QED
    BY <1>1, <1>2, <1>6, <2>1, <2>2
<1> QED
  BY <1>1, <1>2, <1>4, <1>5, <1>6

\* The scalars of a text begin at the bytes that continue none.
LEMMA StartsAre ==
    ASSUME NEW bytes \in Seq(Bytes)
    PROVE  Starts(bytes) = {j \in 0 .. Len(bytes) - 1 : ~ Inner(bytes, 0, j)}
<1> DEFINE n == Len(bytes)
           w(i) == FirstScalar(Slice(bytes, i, n))
           I(i, j) == Inner(bytes, i, j)
           g == [i \in 0 .. n |-> {j \in i .. n - 1 : ~ I(i, j)}]
           f == CHOOSE f : f = [i \in 0 .. n |-> IF i = n THEN {} ELSE {i} \cup f[i + w(i)]]
<1>1. n \in Nat
  OBVIOUS
<1>2. \A i \in 0 .. n - 1 : w(i) \in 1 .. 3 /\ i + w(i) <= n
  BY ScalarAt
<1>3. \A i \in 0 .. n - 1 : \A j \in i .. n - 1 : ~ I(i, j) <=> j = i \/ (j >= i + w(i) /\ ~ I(i + w(i), j))
  BY ScalarSkips
<1>4. Starts(bytes) = f[0]
  BY Zenon DEF Starts
<1> HIDE DEF n, w, I
<1>5. \A i \in 0 .. n - 1 : i + w(i) \in 0 .. n /\ i + w(i) > i
  BY <1>1, <1>2
<1>6. g = [i \in 0 .. n |-> IF i = n THEN {} ELSE {i} \cup g[i + w(i)]]
  <2>1. g[n] = {}
    BY <1>1
  <2>2. ASSUME NEW i \in 0 .. n - 1
        PROVE  g[i] = {i} \cup g[i + w(i)]
    <3> DEFINE m == i + w(i)
    <3>1. m \in 0 .. n /\ m > i /\ i \in Nat /\ i \in 0 .. n
      BY <1>1, <1>5
    <3>2. \A j \in i .. n - 1 : ~ I(i, j) <=> j = i \/ (j >= m /\ ~ I(m, j))
      BY <1>3
    <3> HIDE DEF m
    <3>3. g[i] = {j \in i .. n - 1 : ~ I(i, j)} /\ g[m] = {j \in m .. n - 1 : ~ I(m, j)}
      BY <3>1
    <3>4. \A j \in m .. n - 1 : j \in i .. n - 1 /\ j >= m
      BY <1>1, <3>1
    <3>5. \A j \in i .. n - 1 : j >= m => j \in m .. n - 1
      BY <1>1, <3>1
    <3>6. i \in i .. n - 1
      BY <1>1
    <3> HIDE DEF g
    <3>7. g[i] = {i} \cup g[m]
      BY <3>2, <3>3, <3>4, <3>5, <3>6
    <3> QED
      BY <3>7 DEF m
  <2>3. \A i \in 0 .. n : i = n \/ i \in 0 .. n - 1
    BY <1>1
  <2>4. \A i \in 0 .. n : g[i] = IF i = n THEN {} ELSE {i} \cup g[i + w(i)]
    BY <2>1, <2>2, <2>3
  <2>5. g = [i \in 0 .. n |-> g[i]]
    OBVIOUS
  <2> HIDE DEF g
  <2> QED
    BY <2>4, <2>5
<1> HIDE DEF g
<1>7. f = [i \in 0 .. n |-> IF i = n THEN {} ELSE {i} \cup f[i + w(i)]]
  BY <1>6, Zenon
<1> HIDE DEF f
<1> DEFINE B == {i \in 0 .. n : f[i] /= g[i]}
<1>8. B = {}
  <2>1. SUFFICES ASSUME B /= {}
                 PROVE  FALSE
    OBVIOUS
  <2>2. PICK i \in B : \A j \in B : j <= i
    <3>1. B \in SUBSET (0 .. n)
      OBVIOUS
    <3> HIDE DEF B
    <3> QED
      BY <1>1, <2>1, <3>1, GreatestNumber
  <2>3. CASE i = n
    BY <1>6, <1>7, <2>2, <2>3
  <2>4. CASE i /= n
    <3>1. i \in 0 .. n - 1
      BY <1>1, <2>2, <2>4
    <3>2. i + w(i) \in 0 .. n /\ i + w(i) > i
      BY <1>5, <3>1
    <3>3. f[i + w(i)] = g[i + w(i)]
      BY <1>1, <2>2, <3>1, <3>2
    <3>4. f[i] = {i} \cup f[i + w(i)] /\ g[i] = {i} \cup g[i + w(i)]
      BY <1>6, <1>7, <2>2, <2>4
    <3> QED
      BY <2>2, <3>3, <3>4
  <2> QED
    BY <2>3, <2>4
<1>9. f[0] = g[0]
  BY <1>1, <1>8
<1>10. g[0] = {j \in 0 .. n - 1 : ~ I(0, j)}
  BY <1>1 DEF g
<1> QED
  BY <1>4, <1>9, <1>10 DEF I, n

\* And so do those of a slice, of what continues a scalar of the slice.
LEMMA StartsOfSlice ==
    ASSUME NEW bytes \in Seq(Bytes), NEW x \in 0 .. Len(bytes), NEW y \in x .. Len(bytes)
    PROVE  Starts(Slice(bytes, x, y)) = {j \in 0 .. y - x - 1 : ~ Inner(bytes, x, x + j)}
<1> DEFINE s == Slice(bytes, x, y)
           n == Len(bytes)
<1>1. n \in Nat /\ x \in Nat /\ y \in Nat /\ x <= y /\ y <= n
  OBVIOUS
<1>2. s \in Seq(Bytes) /\ Len(s) = y - x /\ \A i \in 1 .. y - x : s[i] = bytes[x + i]
  BY SliceIs
<1> HIDE DEF s, n
<1>3. Starts(s) = {j \in 0 .. y - x - 1 : ~ Inner(s, 0, j)}
  BY <1>2, StartsAre
<1>4. ASSUME NEW j \in 0 .. y - x - 1
      PROVE  Inner(s, 0, j) <=> Inner(bytes, x, x + j)
  <2>1. j \in Nat /\ j < y - x /\ j + 1 \in 1 .. y - x /\ x + j \in Nat /\ x + (j + 1) = (x + j) + 1
    BY <1>1
  <2>2. s[j + 1] = bytes[(x + j) + 1]
    BY <1>2, <2>1
  <2>3. j >= 1 => s[j] = bytes[x + j]
    BY <1>1, <1>2, <2>1
  <2>4. j >= 2 => s[j - 1] = bytes[(x + j) - 1]
    <3>1. SUFFICES ASSUME j >= 2
                   PROVE  s[j - 1] = bytes[(x + j) - 1]
      OBVIOUS
    <3>2. j - 1 \in 1 .. y - x /\ x + (j - 1) = (x + j) - 1
      BY <1>1, <2>1, <3>1
    <3> QED
      BY <1>2, <3>2
  <2>5. /\ j - 1 >= 0 <=> j >= 1
        /\ j - 2 >= 0 <=> j >= 2
        /\ (x + j) - 1 >= x <=> j >= 1
        /\ (x + j) - 2 >= x <=> j >= 2
    BY <1>1, <2>1
  <2>6. Inner(s, 0, j) <=>
            /\ s[j + 1] = "c"
            /\ \/ j >= 1 /\ s[j] \in {"2", "3"}
               \/ j >= 2 /\ s[j] = "c" /\ s[j - 1] = "3"
    BY <2>5, Zenon DEF Inner
  <2>7. Inner(bytes, x, x + j) <=>
            /\ bytes[(x + j) + 1] = "c"
            /\ \/ j >= 1 /\ bytes[x + j] \in {"2", "3"}
               \/ j >= 2 /\ bytes[x + j] = "c" /\ bytes[(x + j) - 1] = "3"
    BY <2>5, Zenon DEF Inner
  <2>8. j >= 2 => j >= 1
    BY <2>1
  <2>9. CASE j >= 2
    BY <2>2, <2>3, <2>4, <2>6, <2>7, <2>8, <2>9, Zenon
  <2>10. CASE ~ (j >= 2)
    BY <2>2, <2>3, <2>6, <2>7, <2>10, Zenon
  <2> QED
    BY <2>9, <2>10
<1> QED
  BY <1>3, <1>4 DEF s

\* Numbers that move by the same distance are as many.
LEMMA Shifting ==
    ASSUME NEW A \in SUBSET Nat, IsFiniteSet(A), NEW c \in Nat, \A a \in A : a >= c
    PROVE  IsFiniteSet({a - c : a \in A}) /\ Cardinality({a - c : a \in A}) = Cardinality(A)
<1> DEFINE T == {a - c : a \in A}
           f == [a \in A |-> a - c]
<1>1. \A a \in A : \A b \in A : a - c = b - c => a = b
  OBVIOUS
<1>2. f \in [A -> T] /\ \A t \in T : \E a \in A : f[a] = t
  OBVIOUS
<1>3. \A a, b \in A : f[a] = f[b] => a = b
  BY <1>1
<1> HIDE DEF T, f
<1>4. f \in Surjection(A, T) /\ f \in Injection(A, T)
  BY <1>2, <1>3 DEF Surjection, Injection, IsInjective
<1>5. IsFiniteSet(T) /\ Cardinality(T) = Cardinality(A)
  BY <1>4, FS_Surjection
<1> QED
  BY <1>5 DEF T

\* The end of a line: the first line end at or after its start.
EndOf(bytes, start) ==
    LET end == {i \in Ends(bytes) : i >= start} \cup {Len(bytes)}
    IN  CHOOSE i \in end : \A j \in end : i <= j

\* The line of an offset holds the offset, or the "\n" after it does: no line
\* ends between its start and the offset.
LEMMA LineHolds ==
    ASSUME NEW bytes \in Seq(Bytes), NEW offset \in 0 .. Len(bytes)
    PROVE  LET k == LineOf(bytes, offset)
               start == LineStarts(bytes)[k]
               e == EndOf(bytes, start)
           IN  /\ start \in 0 .. offset /\ (start = 0 \/ bytes[start] = "n")
               /\ \A s \in start + 1 .. offset : bytes[s] /= "n"
               /\ Line(bytes, k) = Slice(bytes, start, e)
               /\ e \in start .. Len(bytes)
               /\ offset <= e \/ (offset = e + 1 /\ bytes[e + 1] = "r")
<1> DEFINE k == LineOf(bytes, offset)
           start == LineStarts(bytes)[k]
           S == StartsOfLines(bytes)
           e == EndOf(bytes, start)
           n == Len(bytes)
           end == {i \in Ends(bytes) : i >= start} \cup {n}
<1>1. start \in S /\ start <= offset /\ \A s \in S : s <= offset => s <= start
  BY LineOfIs
<1>2. n \in Nat /\ offset \in 0 .. n /\ S = {0} \cup {i \in 1 .. n : bytes[i] = "n"}
  BY DEF StartsOfLines
<1>3. Line(bytes, k) = Slice(bytes, start, e)
  BY Zenon DEF Line, EndOf
<1>4. e = CHOOSE i \in end : \A j \in end : i <= j
  BY Zenon DEF EndOf
<1> HIDE DEF k, e, S
<1>5. start \in 0 .. offset /\ start \in Nat /\ (start = 0 \/ bytes[start] = "n")
  <2> HIDE DEF start, n
  <2> QED
    BY <1>1, <1>2
<1> HIDE DEF start
<1>6. \A s \in start + 1 .. offset : bytes[s] /= "n"
  <2> HIDE DEF n
  <2>1. ASSUME NEW s \in start + 1 .. offset, bytes[s] = "n"
        PROVE  FALSE
    <3>1. s \in 1 .. n /\ s <= offset /\ s > start
      BY <1>2, <1>5
    <3>2. s \in S
      BY <1>2, <2>1, <3>1
    <3> QED
      BY <1>1, <1>5, <3>1, <3>2
  <2> QED
    BY <2>1
<1>7. end \in SUBSET Nat /\ end /= {} /\ \A i \in end : i >= start /\ i <= n
  BY <1>2, <1>5 DEF Ends
<1>8. e \in end /\ \A j \in end : e <= j
  <2> HIDE DEF end
  <2>1. \E i \in end : \A j \in end : i <= j
    BY <1>7, LeastNumber
  <2> QED
    BY <1>4, <2>1, Zenon
<1>9. e \in start .. n
  BY <1>2, <1>5, <1>7, <1>8
<1>10. offset <= e \/ (offset = e + 1 /\ bytes[e + 1] = "r")
  <2>1. CASE e = n
    BY <1>2, <2>1
  <2>2. CASE e /= n
    <3>1. e \in 0 .. n - 1 /\ EndsAt(bytes, e)
      BY <1>8, <2>2 DEF Ends
    <3>2. bytes[e + 1] = "n" => ~ (e + 1 \in start + 1 .. offset)
      BY <1>6
    <3>3. bytes[e + 1] /= "n" => bytes[e + 1] = "r" /\ bytes[e + 2] = "n" /\ e + 2 <= n
      BY <3>1 DEF EndsAt
    <3>4. bytes[e + 2] = "n" => ~ (e + 2 \in start + 1 .. offset)
      BY <1>6
    <3> HIDE DEF n
    <3>5. CASE bytes[e + 1] = "n"
      BY <1>2, <1>5, <1>9, <3>1, <3>2, <3>5
    <3>6. CASE bytes[e + 1] /= "n"
      BY <1>2, <1>5, <1>9, <3>1, <3>3, <3>4, <3>6
    <3> QED
      BY <3>5, <3>6
  <2> QED
    BY <2>1, <2>2
<1> QED
  BY <1>3, <1>5, <1>6, <1>9, <1>10 DEF n, k, start, e

\* The reference counts the lines before, and starts where the line does.
LEMMA LinesPassed ==
    ASSUME NEW bytes \in Seq(Bytes), NEW offset \in 0 .. Len(bytes)
    PROVE  LET k == LineOf(bytes, offset)
               start == LineStarts(bytes)[k]
           IN  ScalarPosition(bytes, offset)
                 = [line |-> k,
                    column |-> Cardinality({s \in Starts(Slice(bytes, start, Len(bytes))) : start + s < offset}) + 1]
<1> DEFINE k == LineOf(bytes, offset)
           start == LineStarts(bytes)[k]
           S == StartsOfLines(bytes)
           n == Len(bytes)
           passed == {i \in 0 .. offset - 1 : bytes[i + 1] = "n"}
           begin == IF passed = {} THEN 0 ELSE (CHOOSE i \in passed : \A j \in passed : j <= i) + 1
<1>1. /\ start \in 0 .. offset /\ (start = 0 \/ bytes[start] = "n")
      /\ \A s \in start + 1 .. offset : bytes[s] /= "n"
  BY LineHolds
<1>2. /\ k \in 1 .. Cardinality(S) /\ start \in S
  BY LineOfIs
<1>3. /\ S \in SUBSET (0 .. n) /\ IsFiniteSet(S) /\ Cardinality(S) \in Nat
      /\ Cardinality({s \in S : s < start}) = k - 1
  BY <1>2, LineStartsAre
<1>4. n \in Nat /\ offset \in 0 .. n /\ S = {0} \cup {i \in 1 .. n : bytes[i] = "n"}
  BY DEF StartsOfLines
<1>5. ScalarPosition(bytes, offset)
        = [line |-> Cardinality(passed) + 1,
           column |-> Cardinality({s \in Starts(Slice(bytes, begin, Len(bytes))) : begin + s < offset}) + 1]
  BY Zenon DEF ScalarPosition
<1> HIDE DEF k, start, S, n
<1>6. passed \in SUBSET Nat /\ \A i \in passed : i + 1 <= start /\ i + 1 \in S /\ i \in Nat
  <2>1. ASSUME NEW i \in passed
        PROVE  i + 1 <= start /\ i + 1 \in S /\ i \in Nat
    <3>1. i \in 0 .. offset - 1 /\ bytes[i + 1] = "n" /\ i \in Nat /\ i + 1 \in 1 .. n
      BY <1>4
    <3>2. ~ (i + 1 \in start + 1 .. offset)
      BY <1>1, <3>1
    <3> QED
      BY <1>1, <1>4, <3>1, <3>2
  <2> HIDE DEF passed
  <2> QED
    BY <2>1
<1>7. start /= 0 => start - 1 \in passed
  <2>1. SUFFICES ASSUME start /= 0
                 PROVE  start - 1 \in passed
    OBVIOUS
  <2>2. start - 1 \in 0 .. offset - 1 /\ (start - 1) + 1 = start
    BY <1>1, <1>4, <2>1
  <2> QED
    BY <1>1, <2>1, <2>2
<1>8. start \in Nat
  BY <1>1, <1>4
<1>9. begin = start
  <2>1. CASE start = 0
    <3>1. passed = {}
      <4> HIDE DEF passed
      <4> QED
        BY <1>6, <2>1
    <3> QED
      BY <2>1, <3>1
  <2>2. CASE start /= 0
    <3> HIDE DEF passed
    <3>1. \A j \in passed : j <= start - 1
      BY <1>6, <1>8
    <3>2. \A i \in passed : (\A j \in passed : j <= i) => i = start - 1
      BY <1>6, <1>7, <1>8, <2>2, <3>1
    <3> DEFINE m == CHOOSE i \in passed : \A j \in passed : j <= i
    <3>3. m \in passed /\ \A j \in passed : j <= m
      BY <1>7, <2>2, <3>1, Zenon
    <3>4. m = start - 1
      BY <3>2, <3>3
    <3>5. begin = m + 1
      BY <1>7, <2>2
    <3> HIDE DEF m, begin
    <3> QED
      BY <1>8, <3>4, <3>5
  <2> QED
    BY <2>1, <2>2
<1> HIDE DEF begin
<1> DEFINE A == {s \in S : s < start}
           T == {s \in S : 0 < s /\ s <= start}
<1>10. \A s \in S : s \in Nat
  BY <1>3, <1>4
<1>11. IsFiniteSet(A) /\ IsFiniteSet(T)
  BY <1>3, FS_Subset
<1>12. Cardinality(A) = k - 1 /\ k \in Nat
  BY <1>2, <1>3
<1>13. Cardinality(T) = k - 1
  <2>1. A \cup {start} = T \cup {0} /\ start \notin A /\ 0 \notin T
    <3>1. 0 \in S
      BY <1>4
    <3>2. \A s \in S : s < start \/ s = start <=> (0 < s /\ s <= start) \/ s = 0
      BY <1>8, <1>10
    <3>3. A \cup {start} = {s \in S : s < start \/ s = start} /\ T \cup {0} = {s \in S : (0 < s /\ s <= start) \/ s = 0}
      BY <1>2, <3>1
    <3>4. ~ (start < start)
      BY <1>8
    <3> QED
      BY <3>2, <3>3, <3>4
  <2> HIDE DEF A, T
  <2>2. Cardinality(A \cup {start}) = Cardinality(A) + 1 /\ Cardinality(T \cup {0}) = Cardinality(T) + 1
    BY <1>11, <2>1, FS_AddElement
  <2>3. Cardinality(A) \in Nat /\ Cardinality(T) \in Nat
    BY <1>11, FS_CardinalityType
  <2>4. Cardinality(T) + 1 = Cardinality(A) + 1
    BY <2>1, <2>2, Zenon
  <2> QED
    BY <1>12, <2>3, <2>4
<1>14. {s - 1 : s \in T} = passed
  <2>1. ASSUME NEW s \in T
        PROVE  s - 1 \in passed
    <3>1. s \in Nat /\ 0 < s /\ s <= start /\ bytes[s] = "n"
      BY <1>4, <1>10
    <3>2. s - 1 \in 0 .. offset - 1 /\ (s - 1) + 1 = s
      BY <1>1, <1>4, <3>1
    <3> QED
      BY <3>1, <3>2
  <2>2. ASSUME NEW i \in passed
        PROVE  i + 1 \in T /\ i = (i + 1) - 1
    BY <1>6
  <2> HIDE DEF T, passed
  <2> QED
    BY <2>1, <2>2
<1>15. T \in SUBSET Nat /\ \A s \in T : s >= 1
  BY <1>10
<1> HIDE DEF A, T, passed
<1>16. Cardinality(passed) = k - 1
  <2>1. Cardinality({s - 1 : s \in T}) = Cardinality(T)
    BY <1>11, <1>15, Shifting
  <2> QED
    BY <1>13, <1>14, <2>1
<1>17. Cardinality(passed) + 1 = k
  BY <1>12, <1>16
<1> QED
  BY <1>5, <1>9, <1>17 DEF k, start

\* Sets that are defined from where a number leads exist: the least ones.
LeadsWithin(I, U, D, item, nxt) == D \in SUBSET I /\ \A i \in D : item[i] \in SUBSET U /\ nxt[i] \in I
Collects(f, I, D, item, nxt) ==
    f = [i \in I |-> f[i]] /\ \A i \in I : f[i] = IF i \in D THEN item[i] \cup f[nxt[i]] ELSE {}

LEMMA LeastSets ==
    ASSUME NEW I, NEW U, NEW D, NEW item, NEW nxt, LeadsWithin(I, U, D, item, nxt)
    PROVE  \E f : Collects(f, I, D, item, nxt)
<1> DEFINE Closed(h) == \A i \in D : item[i] \cup h[nxt[i]] \in SUBSET h[i]
           H == {h \in [I -> SUBSET U] : Closed(h)}
           f == [i \in I |-> {x \in U : \A h \in H : x \in h[i]}]
           g == [i \in I |-> IF i \in D THEN item[i] \cup f[nxt[i]] ELSE {}]
<1>0. D \in SUBSET I /\ \A i \in D : item[i] \in SUBSET U /\ nxt[i] \in I
  BY DEF LeadsWithin
<1>1. f \in [I -> SUBSET U] /\ \A i \in I : \A h \in H : f[i] \in SUBSET h[i]
  OBVIOUS
<1>2. \A i \in I : \A x \in U : (\A h \in H : x \in h[i]) => x \in f[i]
  OBVIOUS
<1> HIDE DEF f
<1>3. \A i \in I : g[i] = IF i \in D THEN item[i] \cup f[nxt[i]] ELSE {}
  OBVIOUS
<1>4. \A i \in D : nxt[i] \in I /\ i \in I /\ item[i] \in SUBSET U
  BY <1>0
<1>5. g \in [I -> SUBSET U]
  <2>1. ASSUME NEW i \in I
        PROVE  (IF i \in D THEN item[i] \cup f[nxt[i]] ELSE {}) \in SUBSET U
    BY <1>1, <1>4
  <2> QED
    BY <2>1
<1> HIDE DEF g, H
<1>6. \A i \in I : g[i] \in SUBSET f[i]
  <2>1. ASSUME NEW i \in D, NEW x \in g[i], NEW h \in H
        PROVE  x \in h[i]
    <3>1. Closed(h)
      BY DEF H
    <3>2. x \in item[i] \/ x \in f[nxt[i]]
      BY <1>3, <1>4
    <3>3. f[nxt[i]] \in SUBSET h[nxt[i]]
      BY <1>1, <1>4
    <3> QED
      BY <3>1, <3>2, <3>3
  <2>2. \A i \in I : i \notin D => g[i] = {}
    BY <1>3
  <2> QED
    BY <1>2, <1>4, <1>5, <2>1, <2>2
<1>7. g \in H
  <2>1. \A i \in D : item[i] \cup g[nxt[i]] \in SUBSET g[i]
    BY <1>3, <1>4, <1>6
  <2> QED
    BY <1>5, <2>1 DEF H
<1>8. \A i \in I : f[i] = g[i]
  BY <1>1, <1>6, <1>7
<1>9. f = [i \in I |-> f[i]]
  BY <1>1
<1>10. \A i \in I : f[i] = IF i \in D THEN item[i] \cup f[nxt[i]] ELSE {}
  BY <1>3, <1>8
<1> HIDE DEF Closed
<1> QED
  BY <1>9, <1>10 DEF Collects

\* A checkpoint is the start of a scalar and counts the scalars before it.
LEMMA CheckpointsCount ==
    ASSUME NEW line \in Seq(Bytes)
    PROVE  \A c \in Checkpoints(line) :
               c.bytes \in Starts(line) /\ c.scalars = Cardinality({t \in Starts(line) : t < c.bytes})
<1> DEFINE n == Len(line) + Stride
           S == Starts(line)
           L == Looked(line)
           beyond(b) == {s \in L : s >= b}
           first(b) == CHOOSE s \in beyond(b) : \A t \in beyond(b) : s <= t
           cp(s) == [bytes |-> s, scalars |-> Cardinality({t \in S : t < s})]
           f == CHOOSE f : f = [b \in 0 .. n |-> IF beyond(b) = {} THEN {}
                                                ELSE {cp(first(b))} \cup f[first(b) + Stride]]
<1>1. Len(line) \in Nat /\ n \in Nat /\ Stride \in Nat /\ Stride > 0
  BY StrideAssumption
<1>2. \A s \in S : s \in Nat /\ s + Stride \in 0 .. n
  <2>1. S \in SUBSET (0 .. Len(line) - 1)
    BY StartsAre
  <2> HIDE DEF S
  <2> QED
    BY <1>1, <2>1
<1>3. Checkpoints(line) = f[Stride]
  BY Zenon DEF Checkpoints
<1>11. L \in SUBSET S
  BY DEF Looked
<1> HIDE DEF n, S, L, cp
<1>4. ASSUME NEW b \in Nat, beyond(b) /= {}
      PROVE  first(b) \in S /\ first(b) >= b
  <2>1. beyond(b) \in SUBSET Nat
    BY <1>2, <1>11
  <2> DEFINE T == beyond(b)
  <2>2. first(b) = CHOOSE s \in T : \A t \in T : s <= t
    OBVIOUS
  <2>3. T \in SUBSET Nat /\ T /= {} /\ \A s \in T : s \in S /\ s >= b
    BY <1>4, <1>11, <2>1
  <2> HIDE DEF T, beyond, first
  <2>4. \E s \in T : \A t \in T : s <= t
    BY <2>3, LeastNumber
  <2>5. first(b) \in T
    BY <2>2, <2>4, Zenon
  <2> QED
    BY <2>3, <2>5
<1> HIDE DEF beyond, first
<1>5. \E g : g = [b \in 0 .. n |-> IF beyond(b) = {} THEN {} ELSE {cp(first(b))} \cup g[first(b) + Stride]]
  <2> DEFINE I == 0 .. n
             D == {b \in I : beyond(b) /= {}}
             U == {cp(s) : s \in S}
             item == [b \in D |-> {cp(first(b))}]
             nxt == [b \in D |-> first(b) + Stride]
  <2>1. D \in SUBSET I
    OBVIOUS
  <2>2. \A b \in D : first(b) \in S /\ first(b) + Stride \in I
    BY <1>1, <1>2, <1>4
  <2>3. \A b \in D : item[b] = {cp(first(b))} /\ nxt[b] = first(b) + Stride
    OBVIOUS
  <2>4. \A b \in D : item[b] \in SUBSET U /\ nxt[b] \in I
    BY <2>2, <2>3
  <2>5. \A b \in I : b \in D <=> beyond(b) /= {}
    OBVIOUS
  <2> HIDE DEF D, U, item, nxt, I
  <2>6. PICK g : Collects(g, I, D, item, nxt)
    <3>1. LeadsWithin(I, U, D, item, nxt)
      BY <2>1, <2>4, Zenon DEF LeadsWithin
    <3> QED
      BY <3>1, LeastSets, Zenon
  <2>7. \A b \in I : (IF b \in D THEN item[b] \cup g[nxt[b]] ELSE {})
                       = IF beyond(b) = {} THEN {} ELSE {cp(first(b))} \cup g[first(b) + Stride]
    BY <2>3, <2>5
  <2>8. g = [b \in I |-> IF beyond(b) = {} THEN {} ELSE {cp(first(b))} \cup g[first(b) + Stride]]
    BY <2>6, <2>7 DEF Collects
  <2> QED
    BY <2>8 DEF I
<1>6. f = [b \in 0 .. n |-> IF beyond(b) = {} THEN {} ELSE {cp(first(b))} \cup f[first(b) + Stride]]
  BY <1>5, Zenon
<1> HIDE DEF f
<1> DEFINE Good(c) == \E s \in S : c = cp(s)
           B == {b \in 0 .. n : \E c \in f[b] : ~ Good(c)}
<1>7. B = {}
  <2>1. SUFFICES ASSUME B /= {}
                 PROVE  FALSE
    OBVIOUS
  <2>2. PICK b \in B : \A d \in B : d <= b
    <3>1. B \in SUBSET (0 .. n)
      OBVIOUS
    <3> HIDE DEF B
    <3> QED
      BY <1>1, <2>1, <3>1, GreatestNumber
  <2>3. PICK c \in f[b] : ~ Good(c)
    BY <2>2
  <2>4. b \in 0 .. n /\ b \in Nat
    BY <1>1, <2>2
  <2>5. beyond(b) /= {} /\ f[b] = {cp(first(b))} \cup f[first(b) + Stride]
    BY <1>6, <2>3, <2>4
  <2>6. first(b) \in S /\ first(b) >= b /\ first(b) \in Nat /\ first(b) + Stride \in 0 .. n
    BY <1>2, <1>4, <2>4, <2>5
  <2>7. c \in f[first(b) + Stride]
    BY <2>3, <2>5, <2>6
  <2>8. first(b) + Stride \in B
    BY <2>3, <2>6, <2>7
  <2>9. first(b) + Stride <= b
    BY <2>2, <2>8
  <2> QED
    BY <1>1, <2>4, <2>6, <2>9
<1>8. \A c \in f[Stride] : Good(c)
  <2>1. Stride \in 0 .. n
    BY <1>1 DEF n
  <2> QED
    BY <1>7, <2>1
<1>9. \A s \in S : cp(s).bytes = s /\ cp(s).scalars = Cardinality({t \in S : t < s})
  BY DEF cp
<1>10. ASSUME NEW c \in f[Stride]
       PROVE  c.bytes \in S /\ c.scalars = Cardinality({t \in S : t < c.bytes})
  <2>1. PICK s \in S : c = cp(s)
    BY <1>8
  <2>2. c.bytes = s /\ c.scalars = Cardinality({t \in S : t < s})
    BY <1>9, <2>1
  <2> QED
    BY <2>2
<1> QED
  BY <1>3, <1>10 DEF S

\* From the start of a scalar on, decoding the rest of a line is decoding the line.
LEMMA InnerFromAScalar ==
    ASSUME NEW bytes \in Seq(Bytes), NEW x \in Nat, NEW q \in Nat, x <= q, ~ Inner(bytes, x, q),
           NEW j \in Nat, q <= j
    PROVE  Inner(bytes, q, j) <=> Inner(bytes, x, j)
<1>1. Inner(bytes, q, j) => Inner(bytes, x, j)
  BY DEF Inner
<1>2. ASSUME Inner(bytes, x, j), ~ Inner(bytes, q, j)
      PROVE  FALSE
  <2>1. j = q \/ j = q + 1
    BY <1>2 DEF Inner
  <2>2. CASE j = q
    BY <1>2, <2>2
  <2>3. CASE j = q + 1
    <3>1. bytes[j] = "c" /\ bytes[j - 1] = "3" /\ j - 2 >= x /\ j = q + 1 /\ j - 1 = q
      BY <1>2, <2>3 DEF Inner
    <3>2. bytes[q + 1] = "c" /\ bytes[q] = "3" /\ q - 1 >= x
      BY <3>1
    <3>3. Inner(bytes, x, q)
      BY <3>2 DEF Inner
    <3> QED
      BY <3>3
  <2> QED
    BY <2>1, <2>2, <2>3
<1> QED
  BY <1>1, <1>2

\* The scalars before an offset are those before a scalar and those from it on.
LEMMA ScalarsBefore ==
    ASSUME NEW bytes \in Seq(Bytes), NEW x \in 0 .. Len(bytes), NEW y \in x .. Len(bytes),
           NEW p \in 0 .. y - x, ~ Inner(bytes, x, x + p)
    PROVE  Cardinality({j \in 0 .. y - x - 1 : ~ Inner(bytes, x, x + j)})
             = Cardinality({j \in 0 .. p - 1 : ~ Inner(bytes, x, x + j)}) + Cardinality(Starts(Slice(bytes, x + p, y)))
<1> DEFINE A == {j \in 0 .. y - x - 1 : ~ Inner(bytes, x, x + j)}
           A1 == {j \in 0 .. p - 1 : ~ Inner(bytes, x, x + j)}
           A2 == {j \in A : j >= p}
           T == {a - p : a \in A2}
           q == x + p
<1>1. x \in Nat /\ y \in Nat /\ x <= y /\ p \in Nat /\ q \in Nat /\ q \in 0 .. Len(bytes) /\ y \in q .. Len(bytes)
  OBVIOUS
<1>2. Starts(Slice(bytes, q, y)) = {j \in 0 .. y - q - 1 : ~ Inner(bytes, q, q + j)}
  <2> HIDE DEF q
  <2> QED
    BY <1>1, StartsOfSlice
<1>3. ASSUME NEW j \in 0 .. y - q - 1
      PROVE  /\ Inner(bytes, q, q + j) <=> Inner(bytes, x, x + (j + p))
             /\ j + p \in 0 .. y - x - 1 /\ j + p >= p /\ (j + p) - p = j
  <2>1. q + j = x + (j + p) /\ x <= q /\ q <= q + j /\ q + j \in Nat /\ ~ Inner(bytes, x, q)
    BY <1>1
  <2>2. Inner(bytes, q, q + j) <=> Inner(bytes, x, q + j)
    BY <1>1, <2>1, InnerFromAScalar
  <2>3. j + p \in 0 .. y - x - 1 /\ j + p >= p /\ (j + p) - p = j
    BY <1>1
  <2> QED
    BY <2>1, <2>2, <2>3
<1>4. T = Starts(Slice(bytes, q, y))
  <2>1. ASSUME NEW a \in A2
        PROVE  a - p \in 0 .. y - q - 1 /\ ~ Inner(bytes, q, q + (a - p))
    <3>1. a \in 0 .. y - x - 1 /\ a >= p /\ ~ Inner(bytes, x, x + a)
      OBVIOUS
    <3>2. a - p \in 0 .. y - q - 1 /\ (a - p) + p = a
      BY <1>1, <3>1
    <3> QED
      BY <1>3, <3>1, <3>2
  <2>2. ASSUME NEW j \in 0 .. y - q - 1, ~ Inner(bytes, q, q + j)
        PROVE  j + p \in A2 /\ (j + p) - p = j
    BY <1>3, <2>2
  <2> HIDE DEF A2, q
  <2>3. \A t \in T : t \in 0 .. y - q - 1 /\ ~ Inner(bytes, q, q + t)
    BY <2>1
  <2>4. \A j \in 0 .. y - q - 1 : ~ Inner(bytes, q, q + j) => j \in T
    BY <2>2
  <2> HIDE DEF T
  <2> QED
    BY <1>2, <2>3, <2>4
<1>5. A = A1 \cup A2 /\ A1 \cap A2 = {}
  <2>1. \A j \in 0 .. y - x - 1 : j >= p \/ j \in 0 .. p - 1
    BY <1>1
  <2>2. \A j \in 0 .. p - 1 : j \in 0 .. y - x - 1 /\ ~ (j >= p)
    BY <1>1
  <2> QED
    BY <2>1, <2>2
<1>6. IsFiniteSet(A1) /\ IsFiniteSet(A2) /\ A2 \in SUBSET Nat /\ \A a \in A2 : a >= p
  <2>1. IsFiniteSet(0 .. p - 1) /\ IsFiniteSet(0 .. y - x - 1)
    BY <1>1, FS_Interval
  <2>2. A1 \in SUBSET (0 .. p - 1) /\ A2 \in SUBSET (0 .. y - x - 1)
    OBVIOUS
  <2>3. IsFiniteSet(A1) /\ IsFiniteSet(A2)
    <3> HIDE DEF A1, A2
    <3> QED
      BY <2>1, <2>2, FS_Subset
  <2> QED
    BY <2>3
<1> HIDE DEF A, A1, A2, T, q
<1>7. Cardinality(A1 \cup A2) = Cardinality(A1) + Cardinality(A2) - Cardinality(A1 \cap A2)
  BY <1>6, FS_Union
<1>8. Cardinality(A1 \cap A2) = 0 /\ Cardinality(A1) \in Nat /\ Cardinality(A2) \in Nat
  BY <1>5, <1>6, FS_EmptySet, FS_CardinalityType
<1>9. Cardinality(T) = Cardinality(A2)
  BY <1>1, <1>6, Shifting DEF T
<1>10. Cardinality(A) = Cardinality(A1) + Cardinality(T)
  BY <1>5, <1>7, <1>8, <1>9
<1> QED
  BY <1>4, <1>10 DEF A, A1, q

\* Every offset of every text has the position the specification gives it,
\* whatever the stride of the checkpoints (line_index.rs offset_to_position,
\* sparse-line-index.md 3).
THEOREM PositionsCountScalars ==
    ASSUME NEW bytes \in Seq(Bytes)
    PROVE  PositionIsTheScalarPosition(bytes)
<1> SUFFICES ASSUME NEW offset \in 0 .. Len(bytes)
             PROVE  Position(bytes, offset) = ScalarPosition(bytes, offset)
  BY DEF PositionIsTheScalarPosition
<1> DEFINE k == LineOf(bytes, offset)
           start == LineStarts(bytes)[k]
           e == EndOf(bytes, start)
           line == Line(bytes, k)
           n == Len(bytes)
           delta == offset - start
           before == {c \in Checkpoints(line) : c.bytes <= delta} \cup {[bytes |-> 0, scalars |-> 0]}
           nearest == CHOOSE c \in before : \A d \in before : d.bytes <= c.bytes
           p == nearest.bytes
           A == {j \in 0 .. delta - 1 : ~ Inner(bytes, start, start + j)}
<1>1. /\ start \in 0 .. offset
      /\ line = Slice(bytes, start, e) /\ e \in start .. n
      /\ offset <= e \/ (offset = e + 1 /\ bytes[e + 1] = "r")
  BY LineHolds
<1>2. Position(bytes, offset)
        = [line |-> k,
           column |-> IF IsSpecial(bytes, k)
                      THEN nearest.scalars + Scalars(Slice(bytes, start + p, offset)) + 1
                      ELSE delta + 1]
  BY Zenon DEF Position
<1>3. ScalarPosition(bytes, offset)
        = [line |-> k,
           column |-> Cardinality({s \in Starts(Slice(bytes, start, n)) : start + s < offset}) + 1]
  BY LinesPassed
<1>4. IsSpecial(bytes, k) <=> \E i \in DOMAIN line : ~ IsAscii(line[i])
  BY DEF IsSpecial
<1>5. n \in Nat /\ offset \in 0 .. n /\ bytes \in Seq(Bytes)
  OBVIOUS
<1> HIDE DEF k, start, e, line, n, nearest
<1>6. start \in Nat /\ e \in Nat /\ offset \in Nat /\ start <= offset /\ offset <= n /\ start <= e /\ e <= n /\ delta \in Nat
  BY <1>1, <1>5
<1>7. start \in 0 .. Len(bytes) /\ e \in start .. Len(bytes) /\ offset \in start .. Len(bytes)
      /\ n \in start .. Len(bytes)
  BY <1>5, <1>6 DEF n
<1>8. {s \in Starts(Slice(bytes, start, n)) : start + s < offset} = A
  <2>1. Starts(Slice(bytes, start, n)) = {j \in 0 .. n - start - 1 : ~ Inner(bytes, start, start + j)}
    BY <1>7, StartsOfSlice
  <2>2. \A j \in 0 .. n - start - 1 : start + j < offset => j \in 0 .. delta - 1
    BY <1>6
  <2>3. ASSUME NEW j \in 0 .. delta - 1
        PROVE  start + j < offset /\ j \in 0 .. n - start - 1
    <3>1. j \in Nat /\ j < offset - start
      BY <1>6
    <3> HIDE DEF delta
    <3>2. start + j < offset
      BY <1>6, <3>1
    <3>3. j \in Nat /\ n - start - 1 \in Int /\ j <= n - start - 1
      BY <1>5, <1>6, <3>1
    <3>4. j \in 0 .. n - start - 1
      BY <3>3
    <3> QED
      BY <3>2, <3>4
  <2> QED
    BY <2>1, <2>2, <2>3
<1>9. /\ line \in Seq(Bytes) /\ Len(line) = e - start
      /\ \A i \in 1 .. e - start : line[i] = bytes[start + i]
      /\ Starts(line) = {j \in 0 .. e - start - 1 : ~ Inner(bytes, start, start + j)}
  BY <1>1, <1>7, SliceIs, StartsOfSlice
<1> HIDE DEF delta
<1>10. CASE ~ IsSpecial(bytes, k)
  <2>1. ASSUME NEW j \in 0 .. delta - 1
        PROVE  bytes[(start + j) + 1] /= "c"
    <3>0. j \in Nat /\ j + 1 <= delta
      BY <1>6
    <3>1. CASE j + 1 <= e - start
      <4>1. j + 1 \in 1 .. e - start /\ start + (j + 1) = (start + j) + 1
        BY <1>6, <3>0, <3>1
      <4>2. j + 1 \in DOMAIN line
        BY <1>6, <1>9, <4>1
      <4>3. IsAscii(line[j + 1])
        BY <1>4, <1>10, <4>2
      <4>4. line[j + 1] = bytes[(start + j) + 1]
        BY <1>9, <4>1
      <4> QED
        BY <4>3, <4>4 DEF IsAscii
    <3>2. CASE ~ (j + 1 <= e - start)
      <4>1. (start + j) + 1 = e + 1 /\ bytes[e + 1] = "r"
        BY <1>1, <1>6, <3>0, <3>2 DEF delta
      <4> QED
        BY <4>1
    <3> QED
      BY <3>1, <3>2
  <2>2. A = 0 .. delta - 1
    BY <2>1 DEF Inner
  <2>3. Cardinality(0 .. delta - 1) = delta
    <3>1. 0 \in Int /\ delta - 1 \in Int
      BY <1>6
    <3>2. Cardinality(0 .. delta - 1) = IF 0 > delta - 1 THEN 0 ELSE (delta - 1) - 0 + 1
      <4> DEFINE m == delta - 1
      <4> HIDE DEF m
      <4>1. m \in Int
        BY <3>1 DEF m
      <4>2. Cardinality(0 .. m) = IF 0 > m THEN 0 ELSE m - 0 + 1
        BY <4>1, <3>1, FS_Interval
      <4> QED
        BY <4>2 DEF m
    <3> QED
      BY <1>6, <3>2
  <2>4. Position(bytes, offset) = [line |-> k, column |-> delta + 1]
    BY <1>2, <1>10
  <2>5. ScalarPosition(bytes, offset) = [line |-> k, column |-> delta + 1]
    BY <1>3, <1>8, <2>2, <2>3
  <2> QED
    BY <2>4, <2>5
<1>11. CASE IsSpecial(bytes, k)
  <2>1. \A c \in Checkpoints(line) :
            c.bytes \in Starts(line) /\ c.scalars = Cardinality({t \in Starts(line) : t < c.bytes})
    BY <1>9, CheckpointsCount
  <2>2. 0 \in Starts(line)
    <3>1. e - start >= 1
      <4>1. PICK i \in DOMAIN line : TRUE
        BY <1>4, <1>11
      <4> QED
        BY <1>6, <1>9, <4>1
    <3>2. 0 \in 0 .. e - start - 1
      BY <1>6, <3>1
    <3>3. ~ Inner(bytes, start, start + 0)
      BY <1>6 DEF Inner
    <3> QED
      BY <1>9, <3>2, <3>3
  <2>3. Cardinality({t \in Starts(line) : t < 0}) = 0
    <3>1. {t \in Starts(line) : t < 0} = {}
      BY <1>6, <1>9
    <3> QED
      BY <3>1, FS_EmptySet
  <2>4. \A c \in before : /\ c.bytes \in Starts(line) /\ c.scalars = Cardinality({t \in Starts(line) : t < c.bytes})
                          /\ c.bytes <= delta
    <3>1. \A c \in before : (c \in Checkpoints(line) /\ c.bytes <= delta) \/ c = [bytes |-> 0, scalars |-> 0]
      OBVIOUS
    <3> HIDE DEF before
    <3>2. ASSUME NEW c \in before, c = [bytes |-> 0, scalars |-> 0]
          PROVE  /\ c.bytes \in Starts(line) /\ c.scalars = Cardinality({t \in Starts(line) : t < c.bytes})
                 /\ c.bytes <= delta
      <4>1. c.bytes = 0 /\ c.scalars = 0
        BY <3>2
      <4> QED
        BY <1>6, <2>2, <2>3, <4>1
    <3> QED
      BY <2>1, <3>1, <3>2
  <2>5. nearest \in before
    <3> DEFINE M == {c.bytes : c \in before}
    <3>1. before /= {}
      OBVIOUS
    <3> HIDE DEF before
    <3>2. M \in SUBSET (0 .. delta) /\ M /= {}
      <4>1. \A b \in Starts(line) : b \in Nat
        BY <1>6, <1>9
      <4>2. \A c \in before : c.bytes \in Nat /\ c.bytes <= delta
        BY <2>4, <4>1
      <4>3. \A c \in before : c.bytes \in 0 .. delta
        BY <1>6, <4>2
      <4> QED
        BY <3>1, <4>3
    <3>3. PICK m \in M : \A l \in M : l <= m
      <4> HIDE DEF M
      <4> QED
        BY <1>6, <3>2, GreatestNumber
    <3>4. \E c \in before : \A d \in before : d.bytes <= c.bytes
      BY <3>3
    <3> QED
      BY <3>4, Zenon DEF nearest
  <2>6. p \in Starts(line) /\ nearest.scalars = Cardinality({t \in Starts(line) : t < p}) /\ p <= delta
    BY <2>4, <2>5
  <2> HIDE DEF p, before
  <2>7. p \in 0 .. e - start - 1 /\ p \in 0 .. delta /\ ~ Inner(bytes, start, start + p)
    BY <1>6, <1>9, <2>6
  <2>8. {t \in Starts(line) : t < p} = {j \in 0 .. p - 1 : ~ Inner(bytes, start, start + j)}
    <3>1. \A j \in 0 .. e - start - 1 : j < p => j \in 0 .. p - 1
      BY <1>6, <2>7
    <3>2. \A j \in 0 .. p - 1 : j < p /\ j \in 0 .. e - start - 1
      BY <1>6, <2>7
    <3> QED
      BY <1>9, <3>1, <3>2
  <2>9. Cardinality(A) = Cardinality({j \in 0 .. p - 1 : ~ Inner(bytes, start, start + j)})
                           + Cardinality(Starts(Slice(bytes, start + p, offset)))
    BY <1>7, <2>7, ScalarsBefore DEF delta
  <2>10. Cardinality(A) = nearest.scalars + Scalars(Slice(bytes, start + p, offset))
    BY <2>6, <2>8, <2>9 DEF Scalars
  <2>11. Position(bytes, offset) = [line |-> k, column |-> Cardinality(A) + 1]
    BY <1>2, <1>11, <2>10 DEF p
  <2> QED
    BY <1>3, <1>8, <2>11
<1> QED
  BY <1>10, <1>11

\* A scalar, or an invalid run, of the line begins at the offset; the one
\* position is before the other.
BeginsScalar(bytes, offset) == ~ Inner(bytes, LineStarts(bytes)[LineOf(bytes, offset)], offset)
Precedes(p, q) == p.line < q.line \/ (p.line = q.line /\ p.column < q.column)

\* Offsets at which scalars begin have positions of their own, in the order of
\* the offsets: one inside a scalar may share the position of the next
\* (line_index.rs offset_to_position, sparse-line-index.md 3).
THEOREM PositionsKeepTheOrder ==
    ASSUME NEW bytes \in Seq(Bytes), NEW i \in 0 .. Len(bytes), NEW j \in 0 .. Len(bytes), i < j,
           BeginsScalar(bytes, i)
    PROVE  Precedes(Position(bytes, i), Position(bytes, j))
<1> DEFINE n == Len(bytes)
           starts == LineStarts(bytes)
           k == LineOf(bytes, i)
           l == LineOf(bytes, j)
           start == starts[k]
           c == Cardinality(StartsOfLines(bytes))
           X == Starts(Slice(bytes, start, n))
           A == {s \in X : start + s < i}
           B == {s \in X : start + s < j}
<1>1. /\ k \in 1 .. c /\ start <= i
      /\ l \in 1 .. c /\ \A m \in 1 .. c : starts[m] <= j => m <= l
  BY LineOfIs
<1>2. start \in 0 .. i /\ n \in Nat /\ i \in Nat /\ j \in Nat /\ j <= n /\ c \in Nat
  BY LineHolds, LineStartsAre
<1>3. Position(bytes, i) = [line |-> k, column |-> Cardinality(A) + 1]
  <2>1. Position(bytes, i) = ScalarPosition(bytes, i)
    BY PositionsCountScalars DEF PositionIsTheScalarPosition
  <2> QED
    BY <2>1, LinesPassed
<1>4. Position(bytes, j)
        = [line |-> l,
           column |-> Cardinality({s \in Starts(Slice(bytes, starts[l], n)) : starts[l] + s < j}) + 1]
  <2>1. Position(bytes, j) = ScalarPosition(bytes, j)
    BY PositionsCountScalars DEF PositionIsTheScalarPosition
  <2> QED
    BY <2>1, LinesPassed
<1>5. ~ Inner(bytes, start, i)
  BY DEF BeginsScalar
<1>6. X = {m \in 0 .. n - start - 1 : ~ Inner(bytes, start, start + m)}
  <2> HIDE DEF start
  <2>1. start \in 0 .. Len(bytes) /\ n \in start .. Len(bytes)
    BY <1>2
  <2> QED
    BY <2>1, StartsOfSlice
<1> HIDE DEF k, l, starts, start, n, c, X
<1>7. k <= l
  BY <1>1, <1>2 DEF start
<1>8. ASSUME k = l
      PROVE  Cardinality(A) < Cardinality(B) /\ Cardinality(A) \in Nat /\ Cardinality(B) \in Nat
  <2>1. i - start \in 0 .. n - start - 1 /\ start + (i - start) = i /\ start \in Nat
    BY <1>2
  <2>2. i - start \in X
    BY <1>5, <1>6, <2>1
  <2>3. X \in SUBSET (0 .. n - start - 1) /\ IsFiniteSet(0 .. n - start - 1)
    <3>1. 0 \in Int /\ n - start - 1 \in Int
      BY <1>2, <2>1
    <3>2. X \in SUBSET (0 .. n - start - 1)
      BY <1>6
    <3> DEFINE m == n - start - 1
    <3> HIDE DEF m
    <3>3. IsFiniteSet(0 .. m)
      BY <3>1, FS_Interval DEF m
    <3> QED
      BY <3>2, <3>3 DEF m
  <2>4. A \in SUBSET B /\ i - start \in B /\ i - start \notin A
    <3>1. \A s \in X : s \in Nat
      BY <1>6
    <3>2. \A s \in X : start + s < i => start + s < j
      BY <1>2, <2>1, <3>1
    <3> QED
      BY <1>2, <2>1, <2>2, <3>2
  <2>5. IsFiniteSet(B)
    <3>1. B \in SUBSET (0 .. n - start - 1)
      BY <2>3
    <3> HIDE DEF B
    <3> QED
      BY <2>3, <3>1, FS_Subset
  <2> HIDE DEF A, B
  <2>6. IsFiniteSet(A) /\ Cardinality(A) <= Cardinality(B) /\ (Cardinality(B) = Cardinality(A) => B = A)
    BY <2>4, <2>5, FS_Subset
  <2>7. Cardinality(A) \in Nat /\ Cardinality(B) \in Nat /\ A /= B
    BY <2>4, <2>5, <2>6, FS_CardinalityType
  <2> QED
    BY <2>6, <2>7
<1>9. CASE k = l
  <2>1. Position(bytes, j) = [line |-> l, column |-> Cardinality(B) + 1]
    BY <1>4, <1>9 DEF start, X
  <2>2. Cardinality(A) < Cardinality(B) /\ Cardinality(A) \in Nat /\ Cardinality(B) \in Nat
    BY <1>8, <1>9
  <2> HIDE DEF A, B
  <2>3. Cardinality(A) + 1 < Cardinality(B) + 1
    BY <2>2
  <2> QED
    BY <1>3, <1>9, <2>1, <2>3 DEF Precedes
<1>10. CASE k /= l
  <2>1. k < l
    BY <1>1, <1>2, <1>7, <1>10
  <2> HIDE DEF A
  <2> QED
    BY <1>3, <1>4, <2>1 DEF Precedes
<1> QED
  BY <1>9, <1>10

-----------------------------------------------------------------------------
(* The inputs a run chooses.                                               *)

InputIsChosen ==
    \/ input = Nothing
    \/ input.of = "text" /\ input = [of |-> "text", bytes |-> input.bytes] /\ input.bytes \in Seq(Bytes)
    \/ /\ input.of = "context"
       /\ input.roots \in SUBSET {1, 2, 3} /\ input.targets \in [1 .. 3 -> Targets]
       /\ input.size \in [1 .. 3 -> Measures] /\ input.budget \in 0 .. 5
    \/ input.of = "config" /\ IsFile(input.user) /\ IsFile(input.project) /\ IsFile(input.explicit)

LEMMA ConfigFilesAreFiles == \A file \in ConfigFiles : IsFile(file)
<1>1. IsFile(Missing) /\ IsFile(Unparsed)
  BY DEF IsFile, Missing, Unparsed
<1>2. ASSUME NEW file \in ConfigFiles, file /= Missing, file /= Unparsed
      PROVE  file.parses = TRUE /\ file.missing = FALSE
  BY <1>2 DEF ConfigFiles
<1> QED
  BY <1>1, <1>2 DEF IsFile

LEMMA InputChosen == MCSpec => []InputIsChosen
<1>1. MCInit => InputIsChosen
  BY DEF MCInit, InputIsChosen
<1>2. InputIsChosen /\ [MCNext]_<<vars, input>> => InputIsChosen'
  <2> SUFFICES ASSUME InputIsChosen, [MCNext]_<<vars, input>>
               PROVE  InputIsChosen'
    OBVIOUS
  <2>1. CASE UNCHANGED input
    BY <2>1 DEF InputIsChosen, IsFile
  <2>2. CASE ReadText
    <3>1. input' = [of |-> "text", bytes |-> <<>>] /\ <<>> \in Seq(Bytes)
      BY <2>2 DEF ReadText
    <3>2. input'.of = "text" /\ input'.bytes = <<>>
      BY <3>1
    <3> QED
      BY <3>1, <3>2 DEF InputIsChosen
  <2>3. CASE ReadByte
    <3>1. input.of = "text" /\ input = [of |-> "text", bytes |-> input.bytes] /\ input.bytes \in Seq(Bytes)
      BY <2>3 DEF ReadByte, InputIsChosen, Nothing
    <3>2. PICK b \in Bytes : input' = [input EXCEPT !.bytes = Append(@, b)]
      BY <2>3 DEF ReadByte
    <3>3. input' = [of |-> "text", bytes |-> Append(input.bytes, b)]
      BY <3>1, <3>2
    <3>4. Append(input.bytes, b) \in Seq(Bytes)
      BY <3>1, <3>2
    <3>5. input'.of = "text" /\ input'.bytes = Append(input.bytes, b)
      BY <3>3
    <3> QED
      BY <3>3, <3>4, <3>5 DEF InputIsChosen
  <2>4. CASE AskContext
    <3>1. PICK roots \in SUBSET {1, 2, 3}, present \in SUBSET {1, 2, 3}, targets \in [1 .. 3 -> Targets],
               size \in [1 .. 3 -> Measures], budget \in 0 .. 5 :
               input' = [of |-> "context", roots |-> roots, rows |-> present, targets |-> targets,
                         size |-> size, budget |-> budget]
      BY <2>4 DEF AskContext
    <3>2. /\ input'.of = "context" /\ input'.roots = roots /\ input'.targets = targets
          /\ input'.size = size /\ input'.budget = budget
      BY <3>1
    <3> QED
      BY <3>1, <3>2 DEF InputIsChosen
  <2>5. CASE LoadConfig
    <3>1. \E user, project, explicit :
             /\ IsFile(user) /\ IsFile(project) /\ IsFile(explicit)
             /\ input' = [of |-> "config", user |-> user, project |-> project, explicit |-> explicit]
      <4>1. IsFile(Missing)
        BY DEF IsFile, Missing
      <4> QED
        BY <2>5, <4>1, ConfigFilesAreFiles DEF LoadConfig
    <3> QED
      BY <3>1 DEF InputIsChosen, IsFile
  <2> QED
    BY <2>1, <2>2, <2>3, <2>4, <2>5 DEF MCNext, Traverse
<1> QED
  BY <1>1, <1>2, PTL DEF MCSpec

\* A configuration that is loaded has the precedence of its layers.
THEOREM LayersHavePrecedenceHolds == MCSpec => []LayersHavePrecedence
<1>1. InputIsChosen => LayersHavePrecedence
  BY LayersDecide DEF InputIsChosen, LayersHavePrecedence, Nothing
<1> QED
  BY <1>1, InputChosen, PTL

\* A configuration that is loaded has the keys the user's file and the built-in
\* names give its providers (config/mod.rs validate_project_toml_str).
THEOREM ProjectsNameNoKeysHolds == MCSpec => []ProjectsNameNoKeys
<1>1. InputIsChosen => ProjectsNameNoKeys
  BY KeysStayTheUsers DEF InputIsChosen, ProjectsNameNoKeys, Nothing
<1> QED
  BY <1>1, InputChosen, PTL

\* A context that is asked for is the same, assembled under its budget and
\* packed to it (repin-context/src/lib.rs).
THEOREM BudgetedContextsAgreeHolds == MCSpec => []BudgetedContextsAgree
<1>1. InputIsChosen => BudgetedContextsAgree
  <2> SUFFICES ASSUME InputIsChosen, input.of = "context"
               PROVE  BudgetsAgree(input.roots, input.rows, input.targets, input.size, input.budget)
    BY DEF BudgetedContextsAgree
  <2> DEFINE N == {1, 2, 3}
  <2>1. /\ input.roots \in SUBSET N /\ input.targets \in [1 .. 3 -> Targets]
        /\ input.size \in [1 .. 3 -> Measures] /\ input.budget \in 0 .. 5
    BY DEF InputIsChosen, Nothing
  <2>2. 1 .. 3 = N /\ N \in SUBSET Nat /\ IsFiniteSet(N)
    <3>1. 1 .. 3 = N
      OBVIOUS
    <3>2. \A n \in Nat : IsFiniteSet(1 .. n)
      BY FS_Interval
    <3>3. IsFiniteSet(1 .. 3)
      BY <3>2
    <3> QED
      BY <3>1, <3>3
  <2>3. IsFiniteSet(input.roots)
    BY <2>1, <2>2, FS_Subset
  <2>4. \A t \in Targets : t \in Seq(N)
    <3>1. 1 \in N /\ 2 \in N /\ 3 \in N
      OBVIOUS
    <3> HIDE DEF N
    <3>2. <<>> \in Seq(N) /\ <<1>> \in Seq(N) /\ <<2, 3>> \in Seq(N) /\ <<3, 1, 2>> \in Seq(N)
      BY <3>1
    <3> QED
      BY <3>2 DEF Targets
  <2>5. Measures \in SUBSET [bytes : Nat, lines : Nat, units : Nat]
    BY DEF Measures
  <2> HIDE DEF N
  <2>6. input.targets \in [N -> Seq(N)]
    BY <2>1, <2>2, <2>4
  <2>7. input.size \in Sizes(N)
    BY <2>1, <2>2, <2>5 DEF Sizes
  <2>8. input.budget \in Nat \cup {Unlimited}
    BY <2>1
  <2> QED
    BY <2>1, <2>2, <2>3, <2>6, <2>7, <2>8, BudgetsAlwaysAgree
<1> QED
  BY <1>1, InputChosen, PTL

\* The offsets of a text that is read have the positions the specification of
\* the line index gives them (line_index.rs offset_to_position).
THEOREM PositionsAreScalarPositionsHolds == MCSpec => []PositionsAreScalarPositions
<1>1. InputIsChosen => PositionsAreScalarPositions
  BY PositionsCountScalars DEF InputIsChosen, PositionsAreScalarPositions, Nothing
<1> QED
  BY <1>1, InputChosen, PTL

\* The bytes the previews of a text are cut from are whole lines and hold their
\* matches (direct_scanner.rs scan_snapshot).
THEOREM PreviewSpansHoldTheMatchHolds == MCSpec => []PreviewSpansHoldTheMatch
<1>1. InputIsChosen => PreviewSpansHoldTheMatch
  BY SpansHold DEF InputIsChosen, PreviewSpansHoldTheMatch, Nothing
<1> QED
  BY <1>1, InputChosen, PTL

-----------------------------------------------------------------------------
(* Traversals: what holds of a query while it runs.                        *)

Graphs == [rows : SUBSET Nodes, edges : SUBSET EdgeIds]
Steps == [node : Nodes, depth : Nat]
Items == [node : Nodes, depth : Nat, via : EdgeIds]
Paths == [nodes : Seq(Nodes), edges : Seq(EdgeIds)]
Shown == [node : Nodes, next : EdgeIds \cup {NoEdge}]
Found == [path : Seq(EdgeIds), segments : Seq(Shown)]

\* Nothing is held while no query runs; the last revision is the graph; rows
\* of a path are read by a running path query only.
TypeOfQuery ==
    /\ rows \in SUBSET Nodes /\ edges \in SUBSET EdgeIds
    /\ revisions \in Seq(Graphs) /\ failures \in Nat
    /\ place \in Nat /\ segments \in Seq(Shown)
    /\ place = 0 => segments = <<>>
    /\ place > 0 => state = "running" /\ query.op = "paths"
    /\ \/ state = "idle" /\ query = NoQuery
       \/ /\ state \in {"asked", "running", "answered"}
          /\ revisions /= <<>> /\ revisions[Len(revisions)] = Graph
          /\ \/ /\ state /= "running"
                /\ query.op = "lookup" /\ query.source \in Nodes /\ query.depth \in Nat
             \/ /\ state /= "asked"
                /\ query \in [op : {"impact"}, target : Nodes, depth : Nat]
                /\ queue \in Seq(Steps) /\ batch \in Seq(EdgeIds)
                /\ visited \in SUBSET Nodes /\ answer \in Seq(Items)
             \/ /\ state /= "asked"
                /\ query \in [op : {"paths"}, target : Nodes, source : Nodes, depth : Nat]
                /\ queue \in Seq(Paths) /\ batch = <<>> /\ answer \in Seq(Found)
    /\ state \in {"idle", "asked"} => queue = <<>> /\ batch = <<>> /\ visited = {} /\ answer = <<>>
    /\ state = "answered" => queue = <<>> /\ batch = <<>>

\* The edges still to follow are ones to the node at the head of the queue;
\* what is queued or listed has been met, and is the target only at depth 0.
ImpactIsRead ==
    /\ query.target \in visited
    /\ batch /= <<>> => queue /= <<>>
    /\ \A i \in DOMAIN batch : batch[i] \in ReadEdges /\ To[batch[i]] = queue[1].node
    /\ \A i \in DOMAIN queue : /\ queue[i].node \in visited
                               /\ queue[i].depth = 0 <=> queue[i].node = query.target
    /\ \A i \in DOMAIN answer :
          /\ answer[i].node \in visited \cap ReadNodes /\ answer[i].node /= query.target
          /\ answer[i].via \in ReadEdges /\ From[answer[i].via] = answer[i].node
          /\ answer[i].depth >= 1
          /\ answer[i].depth = 1 <=> To[answer[i].via] = query.target
          /\ \A j \in 1 .. i - 1 : answer[j].node /= answer[i].node

\* The nodes from which at most k of the edges lead to a node, and those at
\* that distance from it.
Within(es, t, k) == {t} \cup
    {n \in Nodes : \E j \in 1 .. k : \E s \in [1 .. j -> es] : IsWalk(s, n, t)}
AtDistance(es, t, n, d) == n \in Within(es, t, d) /\ \A k \in Nat : k < d => n \notin Within(es, t, k)
Near(k) == Within(edges, query.target, k)
Distance(n, d) == AtDistance(edges, query.target, n, d)

Expanded(n) == \A e \in edges : To[e] = n => From[e] \in visited
Queued(n) == \E i \in DOMAIN queue : queue[i].node = n

\* In a graph that stands still: the queue holds nodes by distance, of two
\* distances at most.
ImpactByDistance ==
    /\ \A i \in DOMAIN queue :
          /\ Distance(queue[i].node, queue[i].depth)
          /\ queue[i].depth <= query.depth /\ queue[i].depth <= queue[1].depth + 1
          /\ \A j \in DOMAIN queue : i < j => queue[i].depth <= queue[j].depth
    /\ batch /= <<>> => queue[1].depth < query.depth
    /\ \A i \in DOMAIN answer :
          /\ Distance(answer[i].node, answer[i].depth)
          /\ queue /= <<>> => answer[i].depth <= queue[1].depth + 1
          /\ \A j \in DOMAIN answer : i < j => answer[i].depth <= answer[j].depth

\* Every node that was met is still queued, or was expanded, or is too far away
\* to be; the one at the head may be half expanded.
ImpactIsComplete ==
    /\ \A n \in visited : Queued(n) \/ Expanded(n) \/ \A k \in Nat : k < query.depth => n \notin Near(k)
    /\ batch /= <<>> => \A e \in edges : To[e] = queue[1].node =>
                            From[e] \in visited \/ \E i \in DOMAIN batch : batch[i] = e
    /\ visited \subseteq Near(query.depth)
    /\ {answer[i].node : i \in DOMAIN answer} = (visited \ {query.target}) \cap rows

\* The inductive invariant of an impact query.
ImpactInv ==
    query.op = "impact" => /\ ImpactIsRead
                           /\ Quiet => ImpactByDistance /\ ImpactIsComplete

\* A path is a walk of the edges from a node, at no node twice.
Trail(path, es, s) ==
    /\ Len(path.nodes) = Len(path.edges) + 1
    /\ path.nodes[1] = s
    /\ \A i \in 1 .. Len(path.edges) : /\ path.edges[i] \in es
                                       /\ From[path.edges[i]] = path.nodes[i]
                                       /\ To[path.edges[i]] = path.nodes[i + 1]
    /\ \A i, j \in 1 .. Len(path.nodes) : path.nodes[i] = path.nodes[j] => i = j

Simple(es, s, t, depth) ==
    {p \in UNION {[1 .. k -> es] : k \in 1 .. depth} : IsWalk(p, s, t) /\ IsInjective(NodesOf(p))}

\* What is queued or found leads from the source over edges that were read.
PathsAreRead ==
    /\ \A i \in DOMAIN queue : Trail(queue[i], ReadEdges, query.source)
    /\ \A i \in DOMAIN answer :
          answer[i].path \in Simple(ReadEdges, query.source, query.target, query.depth)

\* The sets of nodes of which a row may have been found: one, while the graph
\* stands still and can be read.
Present == IF Quiet THEN {rows} ELSE SUBSET ReadNodes

\* What is left of the first m nodes of a path when one of these sets was found.
IsTrace(trace, es, m, presents) ==
    \E present \in presents : AreSegments(trace, es, {k \in 1 .. m : NodesOf(es)[k] \in present})

\* The traces that are complete, and the one of the path at the head of the queue.
PathsAreTraced ==
    /\ \A i \in DOMAIN answer :
          IsTrace(answer[i].segments, answer[i].path, Len(answer[i].path) + 1, Present)
    /\ place > 0 => /\ queue /= <<>> /\ ~ TooLong(queue[1]) /\ Arrived(queue[1])
                    /\ place <= Len(queue[1].nodes)
                    /\ IsTrace(segments, queue[1].edges, place - 1, Present)

StartsWith(es, start) == Len(start) <= Len(es) /\ \A i \in 1 .. Len(start) : es[i] = start[i]

\* In a graph that stands still: the queue holds paths by length, of two
\* lengths at most, none the start of another or found already.
PathsByLength ==
    /\ \A i \in DOMAIN queue :
          /\ Len(queue[i].edges) <= Len(queue[1].edges) + 1
          /\ \A j \in DOMAIN queue :
                /\ i < j => Len(queue[i].edges) <= Len(queue[j].edges)
                /\ i /= j => ~ StartsWith(queue[j].edges, queue[i].edges)
    /\ \A i \in DOMAIN answer :
          /\ queue /= <<>> => Len(answer[i].path) <= Len(queue[1].edges)
          /\ \A j \in DOMAIN queue : answer[i].path /= queue[j].edges
          /\ \A j \in DOMAIN answer : i < j => /\ answer[i].path /= answer[j].path
                                               /\ Len(answer[i].path) <= Len(answer[j].path)

\* Every simple path was found or starts with one of the queue.
PathsAreComplete ==
    \A es \in Simple(edges, query.source, query.target, query.depth) :
        \/ \E i \in DOMAIN answer : answer[i].path = es
        \/ \E i \in DOMAIN queue : StartsWith(es, queue[i].edges)

\* The inductive invariant of a path query.
PathsInv ==
    query.op = "paths" => /\ PathsAreRead /\ PathsAreTraced
                          /\ Quiet => PathsByLength /\ PathsAreComplete

TraversalInv == TypeOfQuery /\ ImpactInv /\ PathsInv
-----------------------------------------------------------------------------
(* Sequences and listings.                                                 *)

LEMMA Dropped ==
    ASSUME NEW S, NEW s \in Seq(S), s /= <<>>
    PROVE  /\ Tail(s) \in Seq(S) /\ Len(Tail(s)) = Len(s) - 1
           /\ \A i \in DOMAIN Tail(s) : i + 1 \in DOMAIN s /\ Tail(s)[i] = s[i + 1]
           /\ \A i \in DOMAIN s : i > 1 => i - 1 \in DOMAIN Tail(s) /\ Tail(s)[i - 1] = s[i]
           /\ Head(s) = s[1] /\ 1 \in DOMAIN s
OBVIOUS

\* A listing has the edges of its set, each once.
LEMMA ListingLists ==
    ASSUME NEW es, es \subseteq EdgeIds, NEW s \in Listings(es)
    PROVE  /\ s \in Seq(EdgeIds)
           /\ \A i \in DOMAIN s : s[i] \in es
           /\ \A e \in es : \E i \in DOMAIN s : s[i] = e
           /\ \A i, j \in DOMAIN s : s[i] = s[j] => i = j
<1>1. IsFiniteSet(es) /\ Cardinality(es) \in Nat
  BY FS_Subset, FS_CardinalityType, GraphAssumption
<1>2. s \in [1 .. Cardinality(es) -> es]
  BY DEF Listings
<1>3. s \in Seq(EdgeIds)
  BY <1>1, <1>2
<1>4. \A i \in DOMAIN s : s[i] \in es
  BY <1>2
<1>5. \A e \in es : \E i \in DOMAIN s : s[i] = e
  BY DEF Listings, ToSet
<1>6. \A i, j \in DOMAIN s : i < j => s[i] < s[j]
  BY DEF Listings
<1>7. \A i \in DOMAIN s : i \in Nat /\ s[i] \in Nat
  <2>1. DOMAIN s \subseteq Nat
    BY <1>1, <1>2
  <2>2. es \subseteq Nat
    BY GraphAssumption
  <2> QED
    BY <1>4, <2>1, <2>2
<1>8. \A i, j \in DOMAIN s : s[i] = s[j] => i = j
  BY <1>6, <1>7
<1> QED
  BY <1>3, <1>4, <1>5, <1>8

\* The node a name stands for is in the database.
LEMMA LookupFinds ==
    ASSUME rows \in SUBSET Nodes, NEW name, NEW n \in LookupEntity(name)
    PROVE  n \in rows
<1> DEFINE found == {m \in rows : NameOf[m] = name}
<1>1. found /= {} /\ n = CHOOSE m \in found : \A k \in found : m <= k
  BY DEF LookupEntity
<1>2. \E m \in found : \A k \in found : m <= k
  BY <1>1, LeastNumber, GraphAssumption
<1> QED
  BY <1>1, <1>2

-----------------------------------------------------------------------------
(* Walks to the target.                                                    *)

LEMMA BallIsWithin == \A k : Ball(k) = Near(k)
BY DEF Ball, Near, Within

LEMMA WithinZero == \A es, t : Within(es, t, 0) = {t}
BY DEF Within

LEMMA WithinGrows ==
    ASSUME NEW es, NEW t, NEW j \in Nat, NEW k \in Nat, j <= k
    PROVE  Within(es, t, j) \subseteq Within(es, t, k)
<1>1. 1 .. j \subseteq 1 .. k
  OBVIOUS
<1> QED
  BY <1>1 DEF Within

\* One edge further from the target: a walk and an edge before it.
LEMMA WithinReachesBack ==
    ASSUME NEW G \in SUBSET EdgeIds, NEW t, NEW k \in Nat, NEW e \in G, To[e] \in Within(G, t, k)
    PROVE  From[e] \in Within(G, t, k + 1)
<1>1. From[e] \in Nodes /\ To[e] \in Nodes
  BY GraphAssumption
<1>2. CASE To[e] = t
  <2> DEFINE es == [i \in 1 .. 1 |-> e]
  <2>1. es \in [1 .. 1 -> G] /\ Len(es) = 1
    OBVIOUS
  <2>2. IsWalk(es, From[e], t)
    BY <2>1, <1>2 DEF IsWalk, Last
  <2>3. 1 \in 1 .. k + 1
    OBVIOUS
  <2> QED
    BY <1>1, <2>1, <2>2, <2>3 DEF Within
<1>3. CASE To[e] /= t
  <2>1. PICK j \in 1 .. k : \E s \in [1 .. j -> G] : IsWalk(s, To[e], t)
    BY <1>3 DEF Within
  <2>2. PICK s \in [1 .. j -> G] : IsWalk(s, To[e], t)
    BY <2>1
  <2> DEFINE es == [i \in 1 .. j + 1 |-> IF i = 1 THEN e ELSE s[i - 1]]
  <2>3. j \in Nat /\ j >= 1 /\ Len(s) = j /\ Len(es) = j + 1
    OBVIOUS
  <2>4. es \in [1 .. j + 1 -> G]
    OBVIOUS
  <2>5. es[1] = e /\ \A i \in 1 .. j : es[i + 1] = s[i]
    BY <2>3
  <2>6. From[s[1]] = To[e] /\ To[s[j]] = t
    BY <2>2, <2>3 DEF IsWalk, Last
  <2>7. \A i \in 1 .. j - 1 : To[s[i]] = From[s[i + 1]]
    BY <2>2, <2>3 DEF IsWalk
  <2> HIDE DEF es
  <2>8. \A i \in 1 .. j : To[es[i]] = From[es[i + 1]]
    <3> SUFFICES ASSUME NEW i \in 1 .. j
                 PROVE  To[es[i]] = From[es[i + 1]]
      OBVIOUS
    <3>1. CASE i = 1
      BY <3>1, <2>5, <2>6
    <3>2. CASE i > 1
      <4>1. i - 1 \in 1 .. j - 1 /\ i - 1 \in 1 .. j /\ (i - 1) + 1 = i
        BY <3>2
      <4>2. es[i] = s[i - 1] /\ es[i + 1] = s[i]
        BY <4>1, <2>5
      <4>3. To[s[i - 1]] = From[s[i]]
        BY <4>1, <2>7
      <4> QED
        BY <4>2, <4>3
    <3> QED
      BY <3>1, <3>2
  <2>9. IsWalk(es, From[e], t)
    BY <2>3, <2>5, <2>6, <2>8 DEF IsWalk, Last
  <2>10. j + 1 \in 1 .. k + 1
    OBVIOUS
  <2> QED
    BY <1>1, <2>4, <2>9, <2>10 DEF Within
<1> QED
  BY <1>2, <1>3

\* And back: the first edge of a walk, and the rest.
LEMMA WithinIsReached ==
    ASSUME NEW G \in SUBSET EdgeIds, NEW t, NEW k \in Nat, NEW n \in Within(G, t, k + 1), n /= t
    PROVE  \E e \in G : From[e] = n /\ To[e] \in Within(G, t, k)
<1>1. PICK j \in 1 .. k + 1 : \E s \in [1 .. j -> G] : IsWalk(s, n, t)
  BY DEF Within
<1>2. PICK s \in [1 .. j -> G] : IsWalk(s, n, t)
  BY <1>1
<1>3. j \in Nat /\ j >= 1 /\ Len(s) = j /\ s[1] \in G
  OBVIOUS
<1>4. From[s[1]] = n /\ To[s[j]] = t
  BY <1>2, <1>3 DEF IsWalk, Last
<1>5. \A i \in 1 .. j - 1 : To[s[i]] = From[s[i + 1]]
  BY <1>2, <1>3 DEF IsWalk
<1>6. CASE j = 1
  BY <1>3, <1>4, <1>6 DEF Within
<1>7. CASE j > 1
  <2> DEFINE es == [i \in 1 .. j - 1 |-> s[i + 1]]
  <2>1. es \in [1 .. j - 1 -> G] /\ Len(es) = j - 1 /\ j - 1 \in 1 .. k
    BY <1>3, <1>7
  <2>2. \A i \in 1 .. j - 1 : es[i] = s[i + 1]
    OBVIOUS
  <2> HIDE DEF es
  <2>3. From[es[1]] = To[s[1]] /\ To[es[j - 1]] = t
    BY <1>3, <1>4, <1>5, <1>7, <2>2
  <2>4. \A i \in 1 .. (j - 1) - 1 : To[es[i]] = From[es[i + 1]]
    <3> SUFFICES ASSUME NEW i \in 1 .. (j - 1) - 1
                 PROVE  To[es[i]] = From[es[i + 1]]
      OBVIOUS
    <3>1. i \in 1 .. j - 1 /\ i + 1 \in 1 .. j - 1
      OBVIOUS
    <3> QED
      BY <3>1, <2>2, <1>5
  <2>5. IsWalk(es, To[s[1]], t)
    BY <2>1, <2>3, <2>4 DEF IsWalk, Last
  <2>6. To[s[1]] \in Nodes
    BY <1>3, GraphAssumption
  <2> QED
    BY <1>3, <1>4, <2>1, <2>5, <2>6 DEF Within
<1> QED
  BY <1>3, <1>6, <1>7

-----------------------------------------------------------------------------
(* Types, and what has been read.                                          *)

LEMMA ImpactTypes ==
    ASSUME TypeOfQuery, query.op = "impact"
    PROVE  /\ state \in {"running", "answered"} /\ failures \in Nat
           /\ rows \in SUBSET Nodes /\ edges \in SUBSET EdgeIds
           /\ revisions \in Seq(Graphs) /\ revisions /= <<>> /\ revisions[Len(revisions)] = Graph
           /\ query.target \in Nodes /\ query.depth \in Nat
           /\ queue \in Seq(Steps) /\ batch \in Seq(EdgeIds)
           /\ visited \in SUBSET Nodes /\ answer \in Seq(Items)
BY DEF TypeOfQuery, NoQuery

LEMMA PathsTypes ==
    ASSUME TypeOfQuery, query.op = "paths"
    PROVE  /\ state \in {"running", "answered"} /\ failures \in Nat
           /\ rows \in SUBSET Nodes /\ edges \in SUBSET EdgeIds
           /\ revisions \in Seq(Graphs) /\ revisions /= <<>> /\ revisions[Len(revisions)] = Graph
           /\ query.target \in Nodes /\ query.source \in Nodes /\ query.depth \in Nat
           /\ queue \in Seq(Paths) /\ batch = <<>> /\ answer \in Seq(Found)
BY DEF TypeOfQuery, NoQuery

\* The graph is among those that were read; alone while it stands still.
LEMMA GraphIsRead ==
    ASSUME TypeOfQuery, state /= "idle"
    PROVE  /\ rows \subseteq ReadNodes /\ edges \subseteq ReadEdges
           /\ ReadNodes \subseteq Nodes /\ ReadEdges \subseteq EdgeIds
           /\ Quiet => ReadNodes = rows /\ ReadEdges = edges
<1>1. /\ revisions \in Seq(Graphs) /\ revisions /= <<>>
      /\ revisions[Len(revisions)].rows = rows /\ revisions[Len(revisions)].edges = edges
  BY DEF TypeOfQuery, Graph
<1>2. Len(revisions) \in DOMAIN revisions
  BY <1>1
<1>3. rows \subseteq ReadNodes /\ edges \subseteq ReadEdges
  BY <1>1, <1>2 DEF ReadNodes, ReadEdges
<1>4. \A i \in DOMAIN revisions : revisions[i].rows \subseteq Nodes /\ revisions[i].edges \subseteq EdgeIds
  <2>1. \A i \in DOMAIN revisions : revisions[i] \in Graphs
    BY <1>1
  <2> QED
    BY <2>1 DEF Graphs
<1>5. ReadNodes \subseteq Nodes /\ ReadEdges \subseteq EdgeIds
  BY <1>4 DEF ReadNodes, ReadEdges
<1>6. ASSUME Quiet
      PROVE  ReadNodes = rows /\ ReadEdges = edges
  <2>1. DOMAIN revisions = {1} /\ Len(revisions) = 1
    BY <1>1, <1>6 DEF Quiet
  <2> QED
    BY <1>1, <2>1 DEF ReadNodes, ReadEdges
<1> QED
  BY <1>3, <1>5, <1>6

\* A change of the graph is one more to be read.
LEMMA ChangeIsSeen ==
    ASSUME TypeOfQuery, NEW newRows \in SUBSET Nodes, NEW newEdges \in SUBSET EdgeIds,
           Change(newRows, newEdges)
    PROVE  /\ TypeOfQuery'
           /\ ReadNodes \subseteq ReadNodes' /\ ReadEdges \subseteq ReadEdges' /\ ~ Quiet'
           /\ UNCHANGED <<query, queue, batch, visited, segments, place, answer>>
<1>1. /\ state \in {"asked", "running"}
      /\ UNCHANGED <<query, queue, batch, visited, segments, place, answer, state, failures>>
      /\ rows' = newRows /\ edges' = newEdges /\ revisions' = Append(revisions, Graph')
  BY DEF Change, arrived
<1>2. Graph' \in Graphs
  BY <1>1 DEF Graph, Graphs
<1>3. revisions \in Seq(Graphs) /\ revisions /= <<>>
  BY <1>1 DEF TypeOfQuery
<1>4. /\ revisions' \in Seq(Graphs) /\ revisions' /= <<>> /\ Len(revisions') = Len(revisions) + 1
      /\ revisions'[Len(revisions')] = Graph'
      /\ \A i \in DOMAIN revisions : i \in DOMAIN revisions' /\ revisions'[i] = revisions[i]
  BY <1>1, <1>2, <1>3
<1>5. TypeOfQuery'
  BY <1>1, <1>4 DEF TypeOfQuery
<1>6. ReadNodes \subseteq ReadNodes' /\ ReadEdges \subseteq ReadEdges'
  BY <1>4 DEF ReadNodes, ReadEdges
<1>7. ~ Quiet'
  BY <1>3, <1>4 DEF Quiet
<1> QED
  BY <1>1, <1>5, <1>6, <1>7

\* Every node that is near enough has been met, once only farther ones are queued.
LEMMA QueueCovers ==
    ASSUME TypeOfQuery, query.op = "impact", ImpactIsRead, ImpactByDistance, ImpactIsComplete,
           NEW k \in Nat, k <= query.depth, \A i \in DOMAIN queue : queue[i].depth >= k
    PROVE  Near(k) \subseteq visited
<1> USE ImpactTypes
<1> DEFINE Holes == {j \in Nat : j <= k /\ ~ (Near(j) \subseteq visited)}
<1> SUFFICES ASSUME Holes /= {}
             PROVE  FALSE
  OBVIOUS
<1>1. PICK j \in Holes : \A i \in Holes : j <= i
  BY LeastNumber
<1>2. j /= 0
  BY <1>1, WithinZero DEF ImpactIsRead, Near
<1>3. j - 1 \in Nat /\ (j - 1) + 1 = j /\ j - 1 <= k /\ j - 1 \notin Holes
  <2>1. j \in Nat /\ j <= k
    BY <1>1
  <2>2. \A i \in Holes : j <= i
    BY <1>1
  <2> HIDE DEF Holes
  <2> QED
    BY <2>1, <2>2, <1>2
<1>4. Near(j - 1) \subseteq visited
  BY <1>3
<1>5. PICK n \in Near(j) : n \notin visited
  BY <1>1
<1>6. n /= query.target
  BY <1>5 DEF ImpactIsRead
<1>7. PICK e \in edges : From[e] = n /\ To[e] \in Near(j - 1)
  BY <1>3, <1>5, <1>6, WithinIsReached DEF Near
<1>8. To[e] \in visited
  BY <1>4, <1>7
<1>9. ~ Expanded(To[e])
  BY <1>5, <1>7 DEF Expanded
<1>10. ~ \A i \in Nat : i < query.depth => To[e] \notin Near(i)
  BY <1>1, <1>3, <1>7
<1>11. PICK i \in DOMAIN queue : queue[i].node = To[e]
  BY <1>8, <1>9, <1>10 DEF ImpactIsComplete, Queued
<1>12. j - 1 < queue[i].depth
  <2>1. queue[i] \in Steps
    OBVIOUS
  <2>2. queue[i].depth \in Nat /\ queue[i].depth >= k
    BY <2>1 DEF Steps
  <2> QED
    BY <2>2, <1>1, <1>3
<1> QED
  BY <1>3, <1>7, <1>11, <1>12 DEF ImpactByDistance, Distance, AtDistance, Near

-----------------------------------------------------------------------------
(* The steps of an impact query.                                           *)

\* The queue after a step: without its head or with it, and with one more.
Shifted(o) ==
    /\ o \in {0, 1} /\ Len(queue) - o \in Nat /\ Len(queue) - o <= Len(queue')
    /\ \A i \in 1 .. Len(queue) - o : queue'[i] = queue[i + o]

\* The effect of a dequeued node.
DequeuesNode(o) ==
    /\ state = "running" /\ query.op = "impact" /\ batch = <<>> /\ queue /= <<>>
    /\ Shifted(o) /\ Len(queue') = Len(queue) - o
    /\ batch' \in Seq(EdgeIds) /\ queue' \in Seq(Steps)
    /\ \A i \in DOMAIN batch' : batch'[i] \in edges /\ To[batch'[i]] = queue[1].node
    /\ o = 1 <=> batch' = <<>>
    /\ \/ queue[1].depth >= query.depth /\ batch' = <<>>
       \/ ~ Quiet' /\ batch' = <<>>
       \/ /\ queue[1].depth < query.depth
          /\ \A e \in edges : To[e] = queue[1].node => \E i \in DOMAIN batch' : batch'[i] = e
    /\ UNCHANGED <<rows, edges, query, visited, segments, place, answer, state, revisions>>
    /\ failures' \in Nat /\ (Quiet' => Quiet)

\* Nothing that was read is forgotten while the graph stands still.
LEMMA ReadsStay ==
    ASSUME UNCHANGED <<edges, query, revisions>>
    PROVE  /\ ReadNodes' = ReadNodes /\ ReadEdges' = ReadEdges
           /\ failures' = failures => Quiet' = Quiet
           /\ failures \in Nat /\ failures' = failures + 1 => ~ Quiet'
BY DEF ReadNodes, ReadEdges, Quiet

LEMMA DequeueNodeDoes ==
    ASSUME TypeOfQuery, DequeueNode \/ EdgesToFail
    PROVE  \E o \in {0, 1} : DequeuesNode(o)
<1>1. /\ state = "running" /\ query.op = "impact" /\ batch = <<>> /\ queue /= <<>>
      /\ UNCHANGED <<rows, edges, query, visited, segments, place, answer, state, revisions>>
  BY DEF DequeueNode, EdgesToFail, arrived
<1>2. queue \in Seq(Steps) /\ query.depth \in Nat /\ edges \subseteq EdgeIds /\ failures \in Nat
  BY <1>1, ImpactTypes
<1>3. queue[1] \in Steps /\ queue[1].depth \in Nat /\ Head(queue) = queue[1]
  <2>1. queue[1] \in Steps /\ Head(queue) = queue[1]
    BY <1>1, <1>2
  <2> QED
    BY <2>1 DEF Steps
<1>4. ASSUME queue' = Tail(queue)
      PROVE  Shifted(1) /\ Len(queue') = Len(queue) - 1 /\ queue' \in Seq(Steps)
  BY <1>1, <1>2, <1>4, Dropped DEF Shifted
<1>5. ASSUME queue' = queue
      PROVE  Shifted(0) /\ Len(queue') = Len(queue) - 0 /\ queue' \in Seq(Steps)
  BY <1>1, <1>2, <1>5 DEF Shifted
<1>6. CASE EdgesToFail
  <2>1. queue' = Tail(queue) /\ batch' = batch /\ failures' = failures + 1
    BY <1>6 DEF EdgesToFail, Fails
  <2>2. batch' = <<>> /\ batch' \in Seq(EdgeIds) /\ DOMAIN batch' = {}
    BY <1>1, <2>1
  <2>3. failures' \in Nat /\ ~ Quiet'
    BY <1>1, <1>2, <2>1, ReadsStay
  <2> QED
    BY <1>1, <1>4, <2>1, <2>2, <2>3 DEF DequeuesNode
<1>7. ASSUME DequeueNode
      PROVE  failures' \in Nat /\ (Quiet' => Quiet)
  <2>1. failures' = failures
    BY <1>7 DEF DequeueNode
  <2> QED
    BY <1>1, <1>2, <2>1, ReadsStay
<1>8. CASE DequeueNode /\ Head(queue).depth >= query.depth
  <2>1. queue' = Tail(queue) /\ batch' = batch
    BY <1>8 DEF DequeueNode
  <2>2. batch' = <<>> /\ batch' \in Seq(EdgeIds) /\ DOMAIN batch' = {}
    BY <1>1, <2>1
  <2>3. queue[1].depth >= query.depth
    BY <1>3, <1>8
  <2> QED
    BY <1>1, <1>4, <1>7, <1>8, <2>1, <2>2, <2>3 DEF DequeuesNode
<1>9. CASE DequeueNode /\ ~ (Head(queue).depth >= query.depth)
  <2> DEFINE es == {e \in edges : To[e] = queue[1].node}
  <2>1. batch' \in Listings(es) /\ queue' = IF batch' = <<>> THEN Tail(queue) ELSE queue
    BY <1>3, <1>9 DEF DequeueNode, EdgesTo
  <2>2. /\ batch' \in Seq(EdgeIds)
        /\ \A i \in DOMAIN batch' : batch'[i] \in es
        /\ \A e \in es : \E i \in DOMAIN batch' : batch'[i] = e
    BY <1>2, <2>1, ListingLists
  <2>3. queue[1].depth < query.depth
    BY <1>2, <1>3, <1>9
  <2>4. CASE batch' = <<>>
    BY <1>1, <1>4, <1>7, <1>9, <2>1, <2>2, <2>3, <2>4 DEF DequeuesNode
  <2>5. CASE batch' /= <<>>
    BY <1>1, <1>5, <1>7, <1>9, <2>1, <2>2, <2>3, <2>5 DEF DequeuesNode
  <2> QED
    BY <2>4, <2>5
<1> QED
  BY <1>6, <1>8, <1>9

\* The effect of an edge that is followed.
Fresh(e) == From[e] \notin visited
FollowsInEdge(o, e) ==
    /\ state = "running" /\ query.op = "impact" /\ batch /= <<>> /\ e = batch[1]
    /\ queue[1].depth \in Nat
    /\ Shifted(o)
    /\ batch' = Tail(batch) /\ (o = 1 <=> batch' = <<>>)
    /\ queue' \in Seq(Steps) /\ answer' \in Seq(Items) /\ visited' = visited \cup {From[e]}
    /\ \/ ~ Fresh(e) /\ Len(queue') = Len(queue) - o
       \/ /\ Fresh(e) /\ Len(queue') = Len(queue) - o + 1
          /\ queue'[Len(queue')] = [node |-> From[e], depth |-> queue[1].depth + 1]
    /\ \/ (~ Fresh(e) \/ From[e] \notin rows \/ ~ Quiet') /\ answer' = answer
       \/ /\ Fresh(e) /\ From[e] \in rows /\ Len(answer') = Len(answer) + 1
          /\ \A i \in DOMAIN answer : answer'[i] = answer[i]
          /\ answer'[Len(answer')] = [node |-> From[e], depth |-> queue[1].depth + 1, via |-> e]
    /\ UNCHANGED <<rows, edges, query, segments, place, state, revisions>>
    /\ failures' \in Nat /\ (Quiet' => Quiet)

LEMMA FollowInEdgeDoes ==
    ASSUME TypeOfQuery, FollowInEdge \/ InNodeFails, queue /= <<>>
    PROVE  \E o \in {0, 1} : FollowsInEdge(o, batch[1])
<1> DEFINE e == batch[1]
           rest == IF Tail(batch) = <<>> THEN Tail(queue) ELSE queue
           step == [node |-> From[e], depth |-> queue[1].depth + 1]
           item == [node |-> From[e], depth |-> queue[1].depth + 1, via |-> e]
           o == IF Tail(batch) = <<>> THEN 1 ELSE 0
<1>1. /\ state = "running" /\ query.op = "impact" /\ batch /= <<>>
      /\ batch' = Tail(batch)
      /\ UNCHANGED <<rows, edges, query, segments, place, state, revisions>>
  BY DEF FollowInEdge, InNodeFails, arrived
<1>2. queue \in Seq(Steps) /\ batch \in Seq(EdgeIds) /\ answer \in Seq(Items) /\ failures \in Nat
  BY <1>1, ImpactTypes
<1>3. /\ queue[1] \in Steps /\ queue[1].depth \in Nat /\ Head(queue) = queue[1]
      /\ e \in EdgeIds /\ Head(batch) = e
  <2>1. queue[1] \in Steps /\ Head(queue) = queue[1] /\ e \in EdgeIds /\ Head(batch) = e
    BY <1>1, <1>2
  <2> QED
    BY <2>1 DEF Steps
<1>4. step \in Steps /\ item \in Items
  BY <1>3, GraphAssumption DEF Steps, Items
<1>5. /\ visited' = visited \cup {From[e]}
      /\ \/ answer' = IF Fresh(e) /\ From[e] \in rows THEN Append(answer, item) ELSE answer
         \/ ~ Quiet' /\ answer' = answer
      /\ queue' = IF Fresh(e) THEN Append(rest, step) ELSE rest
      /\ failures' \in Nat /\ (Quiet' => Quiet)
  <2>1. CASE FollowInEdge
    <3>1. failures' = failures
      BY <2>1 DEF FollowInEdge
    <3>2. failures' \in Nat /\ (Quiet' => Quiet)
      BY <1>1, <1>2, <3>1, ReadsStay
    <3> QED
      BY <1>3, <2>1, <3>2 DEF FollowInEdge, Fresh
  <2>2. CASE InNodeFails
    <3>1. failures' = failures + 1 /\ answer' = answer
      BY <2>2 DEF InNodeFails, Fails
    <3>2. failures' \in Nat /\ ~ Quiet'
      BY <1>1, <1>2, <3>1, ReadsStay
    <3>3. visited' = visited \cup {From[e]} /\ queue' = IF Fresh(e) THEN Append(rest, step) ELSE rest
      BY <1>3, <2>2 DEF InNodeFails, Fresh
    <3> QED
      BY <3>1, <3>2, <3>3
  <2> QED
    BY <2>1, <2>2
<1>6. o \in {0, 1} /\ (o = 1 <=> batch' = <<>>)
  BY <1>1
<1>7. /\ rest \in Seq(Steps) /\ Len(rest) = Len(queue) - o
      /\ \A i \in 1 .. Len(rest) : rest[i] = queue[i + o]
  <2>1. CASE Tail(batch) = <<>>
    BY <1>2, <2>1, Dropped
  <2>2. CASE Tail(batch) /= <<>>
    BY <1>2, <2>2
  <2> QED
    BY <2>1, <2>2
<1> HIDE DEF rest, o, step, item, e
<1>8. /\ Append(rest, step) \in Seq(Steps) /\ Len(Append(rest, step)) = Len(rest) + 1
      /\ Append(rest, step)[Len(rest) + 1] = step
      /\ \A i \in 1 .. Len(rest) : Append(rest, step)[i] = rest[i]
  BY <1>4, <1>7
<1>9. /\ Append(answer, item) \in Seq(Items) /\ Len(Append(answer, item)) = Len(answer) + 1
      /\ Append(answer, item)[Len(answer) + 1] = item
      /\ \A i \in DOMAIN answer : Append(answer, item)[i] = answer[i]
  BY <1>2, <1>4
<1>10. /\ Shifted(o) /\ queue' \in Seq(Steps)
       /\ \/ ~ Fresh(e) /\ Len(queue') = Len(queue) - o
          \/ /\ Fresh(e) /\ Len(queue') = Len(queue) - o + 1
             /\ queue'[Len(queue')] = step
  <2>1. Len(rest) \in Nat
    BY <1>7
  <2>2. CASE Fresh(e)
    BY <1>5, <1>6, <1>7, <1>8, <2>1, <2>2 DEF Shifted
  <2>3. CASE ~ Fresh(e)
    BY <1>5, <1>6, <1>7, <2>1, <2>3 DEF Shifted
  <2> QED
    BY <2>2, <2>3
<1>11. /\ answer' \in Seq(Items)
       /\ \/ (~ Fresh(e) \/ From[e] \notin rows \/ ~ Quiet') /\ answer' = answer
          \/ /\ Fresh(e) /\ From[e] \in rows /\ Len(answer') = Len(answer) + 1
             /\ \A i \in DOMAIN answer : answer'[i] = answer[i]
             /\ answer'[Len(answer')] = item
  <2>1. CASE ~ Quiet' /\ answer' = answer
    BY <1>2, <2>1
  <2>2. CASE /\ answer' = IF Fresh(e) /\ From[e] \in rows THEN Append(answer, item) ELSE answer
             /\ Fresh(e) /\ From[e] \in rows
    BY <1>9, <2>2
  <2>3. CASE /\ answer' = IF Fresh(e) /\ From[e] \in rows THEN Append(answer, item) ELSE answer
             /\ ~ (Fresh(e) /\ From[e] \in rows)
    BY <1>2, <2>3
  <2> QED
    BY <1>5, <2>1, <2>2, <2>3
<1>12. FollowsInEdge(o, e)
  BY <1>1, <1>3, <1>5, <1>6, <1>10, <1>11 DEF FollowsInEdge, step, item, e
<1> QED
  BY <1>6, <1>12 DEF e

LEMMA QueuedSteps ==
    ASSUME queue \in Seq(Steps)
    PROVE  \A i \in DOMAIN queue : queue[i].node \in Nodes /\ queue[i].depth \in Nat
<1>1. \A i \in DOMAIN queue : queue[i] \in Steps
  OBVIOUS
<1> QED
  BY <1>1 DEF Steps

LEMMA ListedItems ==
    ASSUME answer \in Seq(Items)
    PROVE  \A i \in DOMAIN answer : /\ answer[i].node \in Nodes /\ answer[i].depth \in Nat
                                    /\ answer[i].via \in EdgeIds
<1>1. \A i \in DOMAIN answer : answer[i] \in Items
  OBVIOUS
<1> QED
  BY <1>1 DEF Items

LEMMA DequeuedIsRead ==
    ASSUME TypeOfQuery, ImpactIsRead, NEW o \in {0, 1}, DequeuesNode(o)
    PROVE  ImpactIsRead'
<1>1. /\ query.op = "impact" /\ queue /= <<>> /\ Shifted(o) /\ Len(queue') = Len(queue) - o
      /\ batch' \in Seq(EdgeIds) /\ queue' \in Seq(Steps) /\ (o = 1 <=> batch' = <<>>)
      /\ \A i \in DOMAIN batch' : batch'[i] \in edges /\ To[batch'[i]] = queue[1].node
      /\ UNCHANGED <<rows, edges, query, visited, answer, state, revisions>>
  BY DEF DequeuesNode
<1>2. /\ queue \in Seq(Steps) /\ edges \subseteq ReadEdges
      /\ ReadNodes' = ReadNodes /\ ReadEdges' = ReadEdges
  BY <1>1, ImpactTypes, GraphIsRead, ReadsStay
<1>3. \A i \in DOMAIN queue' : i + o \in DOMAIN queue /\ queue'[i] = queue[i + o]
  BY <1>1, <1>2 DEF Shifted
<1>4. batch' /= <<>> => queue' /= <<>> /\ queue'[1] = queue[1]
  <2>1. batch' /= <<>> => o = 0
    BY <1>1
  <2> QED
    BY <1>1, <1>2, <2>1 DEF Shifted
<1>5. \A i \in DOMAIN batch' : batch'[i] \in ReadEdges' /\ To[batch'[i]] = queue'[1].node
  <2>1. \A i \in DOMAIN batch' : batch' /= <<>>
    BY <1>1
  <2> QED
    BY <1>1, <1>2, <1>4, <2>1
<1>6. \A i \in DOMAIN queue' : /\ queue'[i].node \in visited'
                               /\ queue'[i].depth = 0 <=> queue'[i].node = query'.target
  BY <1>1, <1>3 DEF ImpactIsRead
<1> QED
  BY <1>1, <1>2, <1>4, <1>5, <1>6 DEF ImpactIsRead

LEMMA FollowedIsRead ==
    ASSUME TypeOfQuery, ImpactIsRead, NEW o \in {0, 1}, FollowsInEdge(o, batch[1])
    PROVE  ImpactIsRead'
<1> DEFINE e == batch[1]
<1>1. /\ query.op = "impact" /\ batch /= <<>> /\ queue[1].depth \in Nat
      /\ Shifted(o) /\ batch' = Tail(batch) /\ (o = 1 <=> batch' = <<>>)
      /\ queue' \in Seq(Steps) /\ answer' \in Seq(Items) /\ visited' = visited \cup {From[e]}
      /\ UNCHANGED <<rows, edges, query, state, revisions>>
  BY DEF FollowsInEdge
<1>2. \/ ~ Fresh(e) /\ Len(queue') = Len(queue) - o
      \/ /\ Fresh(e) /\ Len(queue') = Len(queue) - o + 1
         /\ queue'[Len(queue')] = [node |-> From[e], depth |-> queue[1].depth + 1]
  BY DEF FollowsInEdge
<1>3. \/ answer' = answer
      \/ /\ Fresh(e) /\ From[e] \in rows /\ Len(answer') = Len(answer) + 1
         /\ \A i \in DOMAIN answer : answer'[i] = answer[i]
         /\ answer'[Len(answer')] = [node |-> From[e], depth |-> queue[1].depth + 1, via |-> e]
  BY DEF FollowsInEdge
<1>4. /\ queue \in Seq(Steps) /\ batch \in Seq(EdgeIds) /\ answer \in Seq(Items)
      /\ edges \subseteq ReadEdges /\ rows \subseteq ReadNodes
      /\ ReadNodes' = ReadNodes /\ ReadEdges' = ReadEdges
  BY <1>1, ImpactTypes, GraphIsRead, ReadsStay
<1>5. queue /= <<>> /\ 1 \in DOMAIN queue /\ 1 \in DOMAIN batch
  BY <1>1, <1>4 DEF ImpactIsRead
<1>6. e \in ReadEdges /\ To[e] = queue[1].node
  BY <1>5 DEF ImpactIsRead
<1>7. Fresh(e) => From[e] /= query.target
  BY DEF Fresh, ImpactIsRead
<1>8. \A i \in DOMAIN queue' :
         \/ i + o \in DOMAIN queue /\ queue'[i] = queue[i + o]
         \/ Fresh(e) /\ queue'[i] = [node |-> From[e], depth |-> queue[1].depth + 1]
  <2> SUFFICES ASSUME NEW i \in DOMAIN queue'
               PROVE  \/ i + o \in DOMAIN queue /\ queue'[i] = queue[i + o]
                      \/ Fresh(e) /\ queue'[i] = [node |-> From[e], depth |-> queue[1].depth + 1]
    OBVIOUS
  <2>1. Len(queue) \in Nat /\ Len(queue') \in Nat /\ i \in 1 .. Len(queue') /\ DOMAIN queue = 1 .. Len(queue)
    BY <1>1, <1>4, SMTT(30)
  <2>2. CASE i <= Len(queue) - o
    <3>1. i \in 1 .. Len(queue) - o /\ i + o \in 1 .. Len(queue)
      BY <2>1, <2>2
    <3> QED
      BY <1>1, <2>1, <3>1 DEF Shifted
  <2>3. CASE i > Len(queue) - o
    <3>1. i = Len(queue') /\ Fresh(e)
      <4>1. \/ ~ Fresh(e) /\ Len(queue') = Len(queue) - o
            \/ Fresh(e) /\ Len(queue') = Len(queue) - o + 1
        BY <1>2
      <4>2. Len(queue) - o < i /\ i <= Len(queue') /\ i \in Int /\ o \in Int
        BY <2>1, <2>3
      <4>3. Len(queue') /= Len(queue) - o
        <5> DEFINE short == Len(queue) - o
                   long == Len(queue')
        <5>1. short \in Int /\ long \in Int /\ short < i /\ i <= long /\ i \in Int
          BY <4>2, <2>1
        <5> HIDE DEF short, long
        <5>2. long /= short
          BY <5>1
        <5> QED
          BY <5>2 DEF short, long
      <4>4. Len(queue') = Len(queue) - o + 1 => i = Len(queue')
        BY <4>2, <2>1
      <4> QED
        BY <4>1, <4>3, <4>4, Zenon
    <3> QED
      BY <1>2, <3>1
  <2> QED
    BY <2>1, <2>2, <2>3
<1>9. \A i \in DOMAIN queue' : /\ queue'[i].node \in visited'
                               /\ queue'[i].depth = 0 <=> queue'[i].node = query'.target
  <2>1. queue[1].depth + 1 /= 0
    BY <1>1
  <2> QED
    BY <1>1, <1>7, <1>8, <2>1 DEF ImpactIsRead
<1>10. batch' /= <<>> => queue' /= <<>> /\ queue'[1] = queue[1]
  <2> SUFFICES ASSUME batch' /= <<>>
               PROVE  queue' /= <<>> /\ queue'[1] = queue[1]
    OBVIOUS
  <2>1. o = 0
    BY <1>1
  <2>2. Len(queue') >= Len(queue) /\ Len(queue) >= 1 /\ queue'[1] = queue[1 + 0]
    BY <1>1, <1>4, <1>5, <2>1 DEF Shifted
  <2> QED
    BY <1>1, <1>4, <2>2
<1>11. \A i \in DOMAIN batch' : batch'[i] \in ReadEdges' /\ To[batch'[i]] = queue'[1].node
  <2>1. \A i \in DOMAIN batch' : batch' /= <<>>
    BY <1>1, <1>4
  <2>2. \A i \in DOMAIN batch' : i + 1 \in DOMAIN batch /\ batch'[i] = batch[i + 1]
    BY <1>1, <1>4
  <2> QED
    BY <1>4, <1>10, <2>1, <2>2 DEF ImpactIsRead
<1>12. \A i \in DOMAIN answer' :
          /\ answer'[i].node \in visited' \cap ReadNodes' /\ answer'[i].node /= query'.target
          /\ answer'[i].via \in ReadEdges' /\ From[answer'[i].via] = answer'[i].node
          /\ answer'[i].depth >= 1
          /\ answer'[i].depth = 1 <=> To[answer'[i].via] = query'.target
          /\ \A j \in 1 .. i - 1 : answer'[j].node /= answer'[i].node
  <2>1. CASE answer' = answer
    BY <1>1, <1>4, <2>1 DEF ImpactIsRead
  <2>2. CASE /\ Fresh(e) /\ From[e] \in rows /\ Len(answer') = Len(answer) + 1
             /\ \A i \in DOMAIN answer : answer'[i] = answer[i]
             /\ answer'[Len(answer')] = [node |-> From[e], depth |-> queue[1].depth + 1, via |-> e]
    <3>1. DOMAIN answer = 1 .. Len(answer) /\ DOMAIN answer' = 1 .. Len(answer) + 1 /\ Len(answer) \in Nat
      BY <1>1, <1>4, <2>2
    <3>2. \A i \in DOMAIN answer : \A j \in 1 .. i - 1 : j \in DOMAIN answer
      BY <3>1
    <3>3. ASSUME NEW i \in DOMAIN answer
          PROVE  /\ answer'[i].node \in visited' \cap ReadNodes' /\ answer'[i].node /= query'.target
                 /\ answer'[i].via \in ReadEdges' /\ From[answer'[i].via] = answer'[i].node
                 /\ answer'[i].depth >= 1
                 /\ answer'[i].depth = 1 <=> To[answer'[i].via] = query'.target
                 /\ \A j \in 1 .. i - 1 : answer'[j].node /= answer'[i].node
      <4>1. answer'[i] = answer[i] /\ \A j \in 1 .. i - 1 : answer'[j] = answer[j]
        BY <2>2, <3>2
      <4>2. /\ answer[i].node \in visited \cap ReadNodes /\ answer[i].node /= query.target
            /\ answer[i].via \in ReadEdges /\ From[answer[i].via] = answer[i].node
            /\ answer[i].depth >= 1
            /\ answer[i].depth = 1 <=> To[answer[i].via] = query.target
            /\ \A j \in 1 .. i - 1 : answer[j].node /= answer[i].node
        BY DEF ImpactIsRead
      <4> QED
        BY <1>1, <1>4, <4>1, <4>2
    <3> DEFINE k == Len(answer) + 1
    <3>4. answer'[k].node = From[e] /\ answer'[k].depth = queue[1].depth + 1 /\ answer'[k].via = e
      BY <2>2
    <3>5. answer'[k].depth = 1 <=> To[e] = query'.target
      <4>1. queue[1].depth = 0 <=> queue[1].node = query.target
        BY <1>5 DEF ImpactIsRead
      <4> QED
        BY <1>1, <1>6, <3>4, <4>1
    <3>6. \A j \in 1 .. k - 1 : answer'[j].node /= answer'[k].node
      <4>1. \A j \in 1 .. k - 1 : j \in DOMAIN answer
        BY <3>1
      <4>2. \A j \in DOMAIN answer : answer'[j].node \in visited
        BY <2>2 DEF ImpactIsRead
      <4> QED
        BY <2>2, <3>4, <4>1, <4>2 DEF Fresh
    <3>7. /\ answer'[k].node \in visited' \cap ReadNodes' /\ answer'[k].node /= query'.target
          /\ answer'[k].via \in ReadEdges' /\ From[answer'[k].via] = answer'[k].node
          /\ answer'[k].depth >= 1
          /\ answer'[k].depth = 1 <=> To[answer'[k].via] = query'.target
      BY <1>1, <1>4, <1>6, <1>7, <2>2, <3>4, <3>5, SMTT(30)
    <3>8. \A i \in DOMAIN answer' : i \in DOMAIN answer \/ i = k
      BY <3>1
    <3> QED
      BY <3>3, <3>6, <3>7, <3>8
  <2> QED
    BY <1>3, <2>1, <2>2
<1>13. query'.target \in visited'
  BY <1>1 DEF ImpactIsRead
<1> QED
  BY <1>9, <1>10, <1>11, <1>12, <1>13 DEF ImpactIsRead

LEMMA ShiftedQueue ==
    ASSUME queue \in Seq(Steps), queue' \in Seq(Steps), NEW o \in {0, 1}, Shifted(o)
    PROVE  /\ \A i \in DOMAIN queue' : i <= Len(queue) - o => i + o \in DOMAIN queue /\ queue'[i] = queue[i + o]
           /\ \A i \in DOMAIN queue : i > o => i - o \in DOMAIN queue' /\ queue'[i - o] = queue[i]
<1>1. /\ DOMAIN queue = 1 .. Len(queue) /\ DOMAIN queue' = 1 .. Len(queue')
      /\ Len(queue) \in Nat /\ Len(queue') \in Nat /\ o \in Nat
  OBVIOUS
<1>2. /\ Len(queue) - o <= Len(queue')
      /\ \A i \in 1 .. Len(queue) - o : queue'[i] = queue[i + o]
  BY DEF Shifted
<1> DEFINE m == Len(queue)
           n == Len(queue')
<1> HIDE DEF m, n
<1>3. ASSUME NEW i \in DOMAIN queue', i <= Len(queue) - o
      PROVE  i + o \in DOMAIN queue /\ queue'[i] = queue[i + o]
  <2>1. i \in 1 .. Len(queue) - o /\ i + o \in 1 .. Len(queue)
    BY <1>1, <1>3
  <2> QED
    BY <1>1, <1>2, <2>1
<1>4. ASSUME NEW i \in DOMAIN queue, i > o
      PROVE  i - o \in DOMAIN queue' /\ queue'[i - o] = queue[i]
  <2>1. i \in Nat /\ i >= 1 /\ i <= m /\ m \in Nat /\ n \in Nat /\ m - o <= n
    BY <1>1, <1>2 DEF m, n
  <2>2. i - o \in 1 .. m - o /\ i - o \in 1 .. n /\ (i - o) + o = i
    BY <1>1, <1>4, <2>1
  <2> QED
    BY <1>1, <1>2, <2>2 DEF m, n
<1> QED
  BY <1>3, <1>4

LEMMA DequeuedByDistance ==
    ASSUME TypeOfQuery, ImpactIsRead, ImpactByDistance, NEW o \in {0, 1}, DequeuesNode(o)
    PROVE  ImpactByDistance'
<1>1. /\ query.op = "impact" /\ queue /= <<>> /\ Shifted(o) /\ Len(queue') = Len(queue) - o
      /\ batch' \in Seq(EdgeIds) /\ queue' \in Seq(Steps) /\ (o = 1 <=> batch' = <<>>)
      /\ UNCHANGED <<rows, edges, query, visited, answer, state, revisions>>
      /\ queue[1].depth < query.depth \/ batch' = <<>>
  BY DEF DequeuesNode
<1>2. queue \in Seq(Steps) /\ answer \in Seq(Items)
  BY <1>1, ImpactTypes
<1>3. \A i \in DOMAIN queue' : i + o \in DOMAIN queue /\ queue'[i] = queue[i + o]
  <2>1. \A i \in DOMAIN queue' : i <= Len(queue) - o
    BY <1>1
  <2> QED
    BY <1>1, <1>2, <2>1, ShiftedQueue
<1>5. \A i, j \in DOMAIN queue : i < j => queue[i].depth <= queue[j].depth
  BY DEF ImpactByDistance
<1>6. 1 \in DOMAIN queue /\ \A i \in DOMAIN queue : queue[i].depth \in Nat /\ queue[1].depth <= queue[i].depth
  <2>1. 1 \in DOMAIN queue
    BY <1>1, <1>2
  <2>2. \A i \in DOMAIN queue : i \in Nat /\ (i = 1 \/ 1 < i)
    BY <1>2
  <2> QED
    BY <1>2, <1>5, <2>1, <2>2, QueuedSteps
<1>7. queue' /= <<>> => /\ 1 \in DOMAIN queue' /\ queue'[1].depth \in Nat
                        /\ queue[1].depth <= queue'[1].depth
  <2>1. queue' /= <<>> => 1 \in DOMAIN queue'
    BY <1>1
  <2> QED
    BY <1>3, <1>6, <2>1
<1>8. ASSUME NEW i \in DOMAIN queue'
      PROVE  /\ AtDistance(edges', query'.target, queue'[i].node, queue'[i].depth)
             /\ queue'[i].depth <= query'.depth /\ queue'[i].depth <= queue'[1].depth + 1
             /\ \A j \in DOMAIN queue' : i < j => queue'[i].depth <= queue'[j].depth
  <2>1. queue' /= <<>>
    BY <1>1, <1>8
  <2>2. i + o \in DOMAIN queue /\ queue'[i] = queue[i + o]
    BY <1>3
  <2>3. /\ AtDistance(edges, query.target, queue[i + o].node, queue[i + o].depth)
        /\ queue[i + o].depth <= query.depth /\ queue[i + o].depth <= queue[1].depth + 1
    BY <2>2 DEF ImpactByDistance, Distance
  <2>4. queue[i + o].depth <= queue'[1].depth + 1
    BY <1>6, <1>7, <2>1, <2>2, <2>3
  <2>5. ASSUME NEW j \in DOMAIN queue', i < j
        PROVE  queue'[i].depth <= queue'[j].depth
    <3>1. i \in Nat /\ j \in Nat /\ j + o \in DOMAIN queue /\ queue'[j] = queue[j + o]
      BY <1>1, <1>3, SMTT(30)
    <3>2. i + o < j + o
      BY <2>5, <3>1
    <3> QED
      BY <1>5, <2>2, <3>1, <3>2
  <2> QED
    BY <1>1, <2>2, <2>3, <2>4, <2>5
<1>9. batch' /= <<>> => queue'[1].depth < query'.depth
  <2>1. batch' /= <<>> => o = 0
    BY <1>1
  <2>2. o = 0 => queue'[1] = queue[1]
    BY <1>1, <1>2 DEF Shifted
  <2> QED
    BY <1>1, <2>1, <2>2
<1>10. ASSUME NEW i \in DOMAIN answer'
       PROVE  /\ AtDistance(edges', query'.target, answer'[i].node, answer'[i].depth)
              /\ queue' /= <<>> => answer'[i].depth <= queue'[1].depth + 1
              /\ \A j \in DOMAIN answer' : i < j => answer'[i].depth <= answer'[j].depth
  <2>1. /\ AtDistance(edges, query.target, answer[i].node, answer[i].depth)
        /\ answer[i].depth <= queue[1].depth + 1
        /\ \A j \in DOMAIN answer : i < j => answer[i].depth <= answer[j].depth
    BY <1>1, <1>10 DEF ImpactByDistance, Distance
  <2>2. answer[i].depth \in Nat
    BY <1>1, <1>2, ListedItems
  <2>3. queue' /= <<>> => answer[i].depth <= queue'[1].depth + 1
    BY <1>6, <1>7, <2>1, <2>2
  <2> QED
    BY <1>1, <2>1, <2>3
<1> QED
  BY <1>8, <1>9, <1>10 DEF ImpactByDistance, Distance

LEMMA DequeuedIsComplete ==
    ASSUME TypeOfQuery, ImpactIsRead, ImpactByDistance, ImpactIsComplete, Quiet',
           NEW o \in {0, 1}, DequeuesNode(o)
    PROVE  ImpactIsComplete'
<1>1. /\ query.op = "impact" /\ queue /= <<>> /\ Shifted(o) /\ Len(queue') = Len(queue) - o
      /\ batch' \in Seq(EdgeIds) /\ queue' \in Seq(Steps) /\ (o = 1 <=> batch' = <<>>)
      /\ UNCHANGED <<rows, edges, query, visited, answer, state, revisions>>
  BY DEF DequeuesNode
<1>2. \/ queue[1].depth >= query.depth /\ batch' = <<>>
      \/ /\ queue[1].depth < query.depth
         /\ \A e \in edges : To[e] = queue[1].node => \E i \in DOMAIN batch' : batch'[i] = e
  BY DEF DequeuesNode
<1>3. queue \in Seq(Steps) /\ query.depth \in Nat
  BY <1>1, ImpactTypes
<1>4. 1 \in DOMAIN queue /\ queue[1].depth \in Nat
  <2>1. 1 \in DOMAIN queue
    BY <1>1, <1>3
  <2> QED
    BY <1>3, <2>1, QueuedSteps
<1>5. \A k : Near(k)' = Near(k)
  BY <1>1 DEF Near
<1>6. \A n : Expanded(n)' <=> Expanded(n)
  BY <1>1 DEF Expanded
<1>7. ASSUME NEW n \in visited
      PROVE  Queued(n)' \/ Expanded(n) \/ \A k \in Nat : k < query.depth => n \notin Near(k)
  <2>1. CASE Queued(n)
    <3>1. PICK i \in DOMAIN queue : queue[i].node = n
      BY <2>1 DEF Queued
    <3>2. CASE o = 0
      <4>1. i \in DOMAIN queue' /\ queue'[i] = queue[i]
        BY <1>1, <1>3, <3>2 DEF Shifted
      <4> QED
        BY <3>1, <4>1 DEF Queued
    <3>3. CASE o = 1 /\ i > 1
      <4>1. i - 1 \in DOMAIN queue' /\ queue'[i - 1] = queue[i]
        <5>1. i \in 1 .. Len(queue) /\ Len(queue) \in Nat
          BY <1>3
        <5>2. i - 1 \in 1 .. Len(queue) - o /\ (i - 1) + o = i
          BY <3>3, <5>1
        <5>3. DOMAIN queue' = 1 .. Len(queue) - o
          BY <1>1
        <5> QED
          BY <1>1, <5>2, <5>3 DEF Shifted
      <4> QED
        BY <3>1, <4>1 DEF Queued
    <3>4. CASE o = 1 /\ i = 1
      <4>1. CASE queue[1].depth >= query.depth
        <5>1. AtDistance(edges, query.target, n, queue[1].depth)
          BY <1>4, <3>1, <3>4 DEF ImpactByDistance, Distance
        <5>2. \A k \in Nat : k < query.depth => k < queue[1].depth
          BY <1>3, <1>4, <4>1
        <5> QED
          BY <5>1, <5>2 DEF AtDistance, Near
      <4>2. CASE ~ (queue[1].depth >= query.depth)
        <5>1. DOMAIN batch' = {}
          BY <1>1, <3>4
        <5>2. \A e \in edges : To[e] /= queue[1].node
          BY <1>2, <4>2, <5>1
        <5> QED
          BY <3>1, <3>4, <5>2 DEF Expanded
      <4> QED
        BY <4>1, <4>2
    <3>5. i \in Nat /\ i >= 1
      BY <1>3
    <3> QED
      BY <3>2, <3>3, <3>4, <3>5
  <2>2. CASE ~ Queued(n)
    BY <2>2 DEF ImpactIsComplete
  <2> QED
    BY <2>1, <2>2
<1>8. batch' /= <<>> => \A e \in edges : To[e] = queue'[1].node =>
                            From[e] \in visited \/ \E i \in DOMAIN batch' : batch'[i] = e
  <2>1. batch' /= <<>> => o = 0
    BY <1>1
  <2>2. o = 0 => queue'[1] = queue[1]
    BY <1>1, <1>3, <1>4 DEF Shifted
  <2> QED
    BY <1>2, <2>1, <2>2
<1>9. /\ visited' \subseteq Near(query.depth)
      /\ {answer'[i].node : i \in DOMAIN answer'} = (visited' \ {query'.target}) \cap rows'
  BY <1>1 DEF ImpactIsComplete
<1>10. \A n \in visited' : Queued(n)' \/ Expanded(n)' \/ \A k \in Nat : k < query'.depth => n \notin Near(k)'
  BY <1>1, <1>5, <1>6, <1>7
<1>11. visited' \subseteq Near(query.depth)'
  BY <1>1, <1>9 DEF Near
<1> QED
  BY <1>1, <1>8, <1>9, <1>10, <1>11 DEF ImpactIsComplete

\* What every step that follows an edge starts from.
LEMMA FollowedFrom ==
    ASSUME TypeOfQuery, ImpactIsRead, NEW o \in {0, 1}, FollowsInEdge(o, batch[1])
    PROVE  /\ query.op = "impact" /\ batch \in Seq(EdgeIds) /\ batch /= <<>> /\ batch[1] \in ReadEdges
           /\ To[batch[1]] = queue[1].node
           /\ queue \in Seq(Steps) /\ queue' \in Seq(Steps) /\ answer \in Seq(Items) /\ answer' \in Seq(Items)
           /\ 1 \in DOMAIN queue /\ queue[1].depth \in Nat /\ query.depth \in Nat
           /\ edges \in SUBSET EdgeIds
           /\ Shifted(o) /\ batch' = Tail(batch) /\ (o = 1 <=> batch' = <<>>)
           /\ visited' = visited \cup {From[batch[1]]}
           /\ UNCHANGED <<rows, edges, query, segments, place, state, revisions>>
           /\ failures' \in Nat /\ (Quiet' => Quiet)
<1>1. /\ query.op = "impact" /\ batch /= <<>> /\ queue[1].depth \in Nat
      /\ Shifted(o) /\ batch' = Tail(batch) /\ (o = 1 <=> batch' = <<>>)
      /\ queue' \in Seq(Steps) /\ answer' \in Seq(Items) /\ visited' = visited \cup {From[batch[1]]}
      /\ UNCHANGED <<rows, edges, query, segments, place, state, revisions>>
      /\ failures' \in Nat /\ (Quiet' => Quiet)
  BY DEF FollowsInEdge
<1>2. /\ queue \in Seq(Steps) /\ batch \in Seq(EdgeIds) /\ answer \in Seq(Items) /\ query.depth \in Nat
      /\ edges \in SUBSET EdgeIds
  BY <1>1, ImpactTypes
<1>3. 1 \in DOMAIN queue /\ 1 \in DOMAIN batch
  BY <1>1, <1>2 DEF ImpactIsRead
<1> QED
  BY <1>1, <1>2, <1>3 DEF ImpactIsRead

\* A place in the queue afterwards: an old one, or the last one for the new node.
LEMMA FollowedPlaces ==
    ASSUME TypeOfQuery, ImpactIsRead, NEW o \in {0, 1}, FollowsInEdge(o, batch[1]),
           NEW i \in DOMAIN queue'
    PROVE  \/ i + o \in DOMAIN queue /\ queue'[i] = queue[i + o]
           \/ /\ i = Len(queue') /\ Fresh(batch[1])
              /\ queue'[i].node = From[batch[1]] /\ queue'[i].depth = queue[1].depth + 1
<1>1. \/ ~ Fresh(batch[1]) /\ Len(queue') = Len(queue) - o
      \/ /\ Fresh(batch[1]) /\ Len(queue') = Len(queue) - o + 1
         /\ queue'[Len(queue')] = [node |-> From[batch[1]], depth |-> queue[1].depth + 1]
  BY DEF FollowsInEdge
<1> DEFINE m == Len(queue)
           n == Len(queue')
           places == m - o
<1>2. i \in Nat /\ i <= n /\ n \in Nat /\ m \in Nat /\ places \in Int
  BY FollowedFrom
<1> HIDE DEF m, n, places
<1>3. CASE i <= places
  BY <1>3, FollowedFrom, ShiftedQueue DEF places, m
<1>4. CASE i > places
  <2>1. n /= places
    BY <1>2, <1>4
  <2>2. n = places + 1 => i = n
    BY <1>2, <1>4
  <2>3. Fresh(batch[1]) /\ n = places + 1 /\ queue'[n] = [node |-> From[batch[1]], depth |-> queue[1].depth + 1]
    BY <1>1, <2>1, Zenon DEF m, n, places
  <2> QED
    BY <2>2, <2>3 DEF n
<1> QED
  BY <1>2, <1>3, <1>4

LEMMA QueueSorted ==
    ASSUME queue \in Seq(Steps), ImpactByDistance, NEW i \in DOMAIN queue
    PROVE  /\ queue[i].depth \in Nat /\ queue[i].depth >= queue[1].depth
           /\ queue[i].depth <= queue[1].depth + 1 /\ queue[1].depth \in Nat
<1>1. 1 \in DOMAIN queue /\ i \in Nat /\ (i = 1 \/ 1 < i)
  BY QueuedSteps
<1>2. 1 < i => queue[1].depth <= queue[i].depth
  BY <1>1 DEF ImpactByDistance
<1>3. queue[i].depth \in Nat /\ queue[1].depth \in Nat
  BY <1>1, QueuedSteps
<1>4. queue[i].depth <= queue[1].depth + 1
  BY DEF ImpactByDistance
<1> QED
  BY <1>1, <1>2, <1>3, <1>4

\* A node that is met for the first time is one edge further than the head.
LEMMA FollowedDistance ==
    ASSUME TypeOfQuery, ImpactIsRead, ImpactByDistance, ImpactIsComplete, Quiet,
           NEW o \in {0, 1}, FollowsInEdge(o, batch[1])
    PROVE  /\ From[batch[1]] \in Near(queue[1].depth + 1) /\ queue[1].depth + 1 <= query.depth
           /\ Fresh(batch[1]) => Distance(From[batch[1]], queue[1].depth + 1)
<1> DEFINE e == batch[1]
           d == queue[1].depth
<1>1. /\ query.op = "impact" /\ batch /= <<>> /\ e \in ReadEdges /\ To[e] = queue[1].node
      /\ queue \in Seq(Steps) /\ 1 \in DOMAIN queue /\ d \in Nat /\ query.depth \in Nat
      /\ edges \in SUBSET EdgeIds
  BY FollowedFrom
<1>2. e \in edges
  BY <1>1, GraphIsRead, ImpactTypes
<1>3. d < query.depth
  BY <1>1 DEF ImpactByDistance
<1>4. To[e] \in Near(d)
  BY <1>1 DEF ImpactByDistance, Distance, AtDistance, Near
<1> HIDE DEF d
<1>5. From[e] \in Near(d + 1)
  BY <1>1, <1>2, <1>4, WithinReachesBack DEF Near
<1>6. ASSUME Fresh(e)
      PROVE  Distance(From[e], d + 1)
  <2>1. ASSUME NEW k \in Nat, k < d + 1
        PROVE  From[e] \notin Near(k)
    <3>1. k <= d /\ k <= query.depth
      BY <1>1, <1>3, <2>1
    <3>2. \A i \in DOMAIN queue : queue[i].depth >= k
      <4>1. \A i \in DOMAIN queue : queue[i].depth \in Nat /\ queue[i].depth >= d
        BY <1>1, QueueSorted DEF d
      <4> QED
        BY <1>1, <3>1, <4>1
    <3>3. Near(k) \subseteq visited
      BY <1>1, <3>1, <3>2, QueueCovers
    <3> QED
      BY <1>6, <3>3 DEF Fresh
  <2> QED
    BY <1>5, <2>1 DEF Distance, AtDistance, Near
<1> QED
  BY <1>1, <1>3, <1>5, <1>6 DEF d

LEMMA FollowedByDistance ==
    ASSUME TypeOfQuery, ImpactIsRead, ImpactByDistance, ImpactIsComplete, Quiet,
           NEW o \in {0, 1}, FollowsInEdge(o, batch[1])
    PROVE  ImpactByDistance'
<1> DEFINE e == batch[1]
           d == queue[1].depth
           G == edges
           t == query.target
<1>1. /\ query.op = "impact" /\ batch \in Seq(EdgeIds) /\ batch /= <<>>
      /\ queue \in Seq(Steps) /\ queue' \in Seq(Steps) /\ answer \in Seq(Items) /\ answer' \in Seq(Items)
      /\ 1 \in DOMAIN queue /\ d \in Nat /\ query.depth \in Nat
      /\ Shifted(o) /\ batch' = Tail(batch) /\ (o = 1 <=> batch' = <<>>)
      /\ UNCHANGED <<rows, edges, query, state, revisions>>
  BY FollowedFrom
<1>2. /\ d + 1 <= query.depth
      /\ Fresh(e) => AtDistance(G, t, From[e], d + 1)
  BY FollowedDistance DEF Distance
<1>3. \A i \in DOMAIN queue : /\ queue[i].depth \in Nat /\ d <= queue[i].depth /\ queue[i].depth <= d + 1
                              /\ AtDistance(G, t, queue[i].node, queue[i].depth)
                              /\ queue[i].depth <= query.depth
                              /\ \A j \in DOMAIN queue : i < j => queue[i].depth <= queue[j].depth
  BY <1>1, QueueSorted DEF ImpactByDistance, Distance
<1>4. \A i \in DOMAIN queue' :
         \/ i + o \in DOMAIN queue /\ queue'[i] = queue[i + o]
         \/ /\ i = Len(queue') /\ Fresh(e)
            /\ queue'[i].node = From[e] /\ queue'[i].depth = d + 1
  BY FollowedPlaces
<1> HIDE DEF d, e, G, t
<1>5. \A i \in DOMAIN queue' : /\ queue'[i].depth \in Nat /\ d <= queue'[i].depth /\ queue'[i].depth <= d + 1
                               /\ AtDistance(G, t, queue'[i].node, queue'[i].depth)
                               /\ queue'[i].depth <= query.depth
  BY <1>1, <1>2, <1>3, <1>4, SMTT(30)
<1>6. queue' /= <<>> => 1 \in DOMAIN queue'
  BY <1>1
<1>7. ASSUME NEW i \in DOMAIN queue'
      PROVE  /\ AtDistance(G, t, queue'[i].node, queue'[i].depth)
             /\ queue'[i].depth <= query.depth /\ queue'[i].depth <= queue'[1].depth + 1
             /\ \A j \in DOMAIN queue' : i < j => queue'[i].depth <= queue'[j].depth
  <2>1. queue'[1].depth \in Nat /\ d <= queue'[1].depth
    <3>1. queue' /= <<>>
      BY <1>1, <1>7
    <3> QED
      BY <1>5, <1>6, <3>1
  <2>2. ASSUME NEW j \in DOMAIN queue', i < j
        PROVE  queue'[i].depth <= queue'[j].depth
    <3>1. i \in Nat /\ j \in Nat /\ j <= Len(queue') /\ Len(queue') \in Nat
      BY <1>1, SMTT(30)
    <3>2. CASE j + o \in DOMAIN queue /\ queue'[j] = queue[j + o]
      <4>1. i /= Len(queue')
        BY <3>1, <2>2
      <4>2. i + o \in DOMAIN queue /\ queue'[i] = queue[i + o]
        BY <1>4, <4>1
      <4>3. i + o < j + o
        BY <3>1, <2>2
      <4> QED
        BY <1>3, <3>2, <4>2, <4>3
    <3>3. CASE queue'[j].depth = d + 1
      BY <1>5, <3>3
    <3> QED
      BY <1>4, <3>2, <3>3
  <2> QED
    BY <1>1, <1>5, <2>1, <2>2, SMTT(30)
<1>8. batch' /= <<>> => queue'[1].depth < query.depth
  <2>1. batch' /= <<>> => o = 0
    BY <1>1
  <2>2. o = 0 => queue'[1] = queue[1]
    BY <1>1, SMTT(30) DEF Shifted
  <2> QED
    BY <1>1, <1>2, <2>1, <2>2, SMTT(30) DEF d
<1>9. ASSUME NEW i \in DOMAIN answer'
      PROVE  /\ AtDistance(G, t, answer'[i].node, answer'[i].depth)
             /\ queue' /= <<>> => answer'[i].depth <= queue'[1].depth + 1
             /\ \A j \in DOMAIN answer' : i < j => answer'[i].depth <= answer'[j].depth
  <2>1. \/ answer' = answer
        \/ /\ Fresh(e) /\ Len(answer') = Len(answer) + 1
           /\ \A j \in DOMAIN answer : answer'[j] = answer[j]
           /\ answer'[Len(answer')] = [node |-> From[e], depth |-> d + 1, via |-> e]
    BY DEF FollowsInEdge, e, d
  <2>2. \A j \in DOMAIN answer' :
           \/ j \in DOMAIN answer /\ answer'[j] = answer[j]
           \/ j = Len(answer') /\ Fresh(e) /\ answer'[j].node = From[e] /\ answer'[j].depth = d + 1
    <3>1. CASE answer' = answer
      BY <3>1
    <3>2. CASE /\ Fresh(e) /\ Len(answer') = Len(answer) + 1
               /\ \A j \in DOMAIN answer : answer'[j] = answer[j]
               /\ answer'[Len(answer')] = [node |-> From[e], depth |-> d + 1, via |-> e]
      <4>1. \A j \in DOMAIN answer' : j \in DOMAIN answer \/ j = Len(answer')
        BY <1>1, <3>2
      <4> QED
        BY <3>2, <4>1
    <3> QED
      BY <2>1, <3>1, <3>2
  <2>3. \A j \in DOMAIN answer : /\ answer[j].depth \in Nat /\ AtDistance(G, t, answer[j].node, answer[j].depth)
                                 /\ answer[j].depth <= d + 1
                                 /\ \A k \in DOMAIN answer : j < k => answer[j].depth <= answer[k].depth
    <3>1. queue /= <<>>
      BY <1>1
    <3> QED
      BY <1>1, <3>1, ListedItems DEF ImpactByDistance, Distance, G, t, d
  <2>4. \A j \in DOMAIN answer' : /\ answer'[j].depth \in Nat /\ answer'[j].depth <= d + 1
                                  /\ AtDistance(G, t, answer'[j].node, answer'[j].depth)
    BY <1>1, <1>2, <2>2, <2>3, SMTT(30)
  <2>5. queue' /= <<>> => answer'[i].depth <= queue'[1].depth + 1
    <3>1. queue' /= <<>> => queue'[1].depth \in Nat /\ d <= queue'[1].depth
      BY <1>5, <1>6
    <3>2. answer'[i].depth \in Nat /\ answer'[i].depth <= d + 1 /\ d \in Nat
      BY <1>1, <2>4
    <3> QED
      BY <3>1, <3>2
  <2>6. ASSUME NEW j \in DOMAIN answer', i < j
        PROVE  answer'[i].depth <= answer'[j].depth
    <3>1. i \in Nat /\ j \in Nat /\ j <= Len(answer') /\ Len(answer') \in Nat
      BY <1>1, SMTT(30)
    <3>2. CASE j \in DOMAIN answer /\ answer'[j] = answer[j]
      <4>1. i /= Len(answer')
        BY <3>1, <2>6
      <4>2. i \in DOMAIN answer /\ answer'[i] = answer[i]
        BY <2>2, <4>1
      <4> QED
        BY <2>3, <2>6, <3>2, <4>2
    <3>3. CASE answer'[j].depth = d + 1
      BY <2>4, <3>3
    <3> QED
      BY <2>2, <3>2, <3>3
  <2> QED
    BY <2>4, <2>5, <2>6
<1>10. edges' = G /\ query'.target = t /\ query'.depth = query.depth
  BY <1>1 DEF G, t
<1> QED
  BY <1>7, <1>8, <1>9, <1>10 DEF ImpactByDistance, Distance

LEMMA FollowedIsComplete ==
    ASSUME TypeOfQuery, ImpactIsRead, ImpactByDistance, ImpactIsComplete, Quiet, Quiet',
           NEW o \in {0, 1}, FollowsInEdge(o, batch[1])
    PROVE  ImpactIsComplete'
<1> DEFINE e == batch[1]
           met == visited \cup {From[e]}
<1>1. /\ query.op = "impact" /\ batch \in Seq(EdgeIds) /\ batch /= <<>> /\ To[e] = queue[1].node
      /\ queue \in Seq(Steps) /\ queue' \in Seq(Steps) /\ answer \in Seq(Items) /\ answer' \in Seq(Items)
      /\ 1 \in DOMAIN queue /\ queue[1].depth \in Nat /\ query.depth \in Nat
      /\ Shifted(o) /\ batch' = Tail(batch) /\ (o = 1 <=> batch' = <<>>)
      /\ visited' = met
      /\ UNCHANGED <<rows, edges, query, state, revisions>>
  BY FollowedFrom
<1>2. queue[1].depth + 1 <= query.depth /\ From[e] \in Near(queue[1].depth + 1)
  BY FollowedDistance
<1>3. \/ ~ Fresh(e) /\ Len(queue') = Len(queue) - o
      \/ /\ Fresh(e) /\ Len(queue') = Len(queue) - o + 1
         /\ queue'[Len(queue')] = [node |-> From[e], depth |-> queue[1].depth + 1]
  BY DEF FollowsInEdge
<1>4. \/ (~ Fresh(e) \/ From[e] \notin rows) /\ answer' = answer
      \/ /\ Fresh(e) /\ From[e] \in rows /\ Len(answer') = Len(answer) + 1
         /\ \A i \in DOMAIN answer : answer'[i] = answer[i]
         /\ answer'[Len(answer')] = [node |-> From[e], depth |-> queue[1].depth + 1, via |-> e]
  BY DEF FollowsInEdge
<1>5. \A i \in DOMAIN queue : i > o => i - o \in DOMAIN queue' /\ queue'[i - o] = queue[i]
  BY <1>1, ShiftedQueue
<1>6. \A f \in edges : To[f] = queue[1].node => From[f] \in visited \/ \E i \in DOMAIN batch : batch[i] = f
  BY <1>1 DEF ImpactIsComplete
<1>7. \A i \in DOMAIN batch : i = 1 \/ (i - 1 \in DOMAIN batch' /\ batch'[i - 1] = batch[i])
  <2>1. batch \in Seq(EdgeIds) /\ batch /= <<>> /\ batch' = Tail(batch)
    BY <1>1
  <2>2. \A i \in DOMAIN batch : i \in Nat /\ (i = 1 \/ i > 1)
    BY <2>1
  <2>3. \A i \in DOMAIN batch : i > 1 => i - 1 \in DOMAIN Tail(batch) /\ Tail(batch)[i - 1] = batch[i]
    BY <2>1, Dropped
  <2>4. \A i \in DOMAIN batch : i > 1 => i - 1 \in DOMAIN batch' /\ batch'[i - 1] = batch[i]
    BY <2>1, <2>3, Zenon
  <2> QED
    BY <2>2, <2>4
<1>8. \A f \in edges : To[f] = queue[1].node => From[f] \in met \/ \E i \in DOMAIN batch' : batch'[i] = f
  BY <1>6, <1>7
<1>9. ASSUME NEW n \in met
      PROVE  \/ Queued(n)'
             \/ \A f \in edges : To[f] = n => From[f] \in met
             \/ \A k \in Nat : k < query.depth => n \notin Near(k)
  <2>1. CASE n \in visited /\ Queued(n)
    <3>1. PICK i \in DOMAIN queue : queue[i].node = n
      BY <2>1 DEF Queued
    <3>2. CASE i > o
      BY <1>5, <3>1, <3>2 DEF Queued
    <3>3. CASE ~ (i > o)
      <4>1. i \in Nat /\ i >= 1 /\ o \in {0, 1}
        BY <1>1, SMTT(30)
      <4>2. i = 1 /\ o = 1
        BY <3>3, <4>1
      <4>3. DOMAIN batch' = {}
        BY <1>1, <4>2
      <4> QED
        BY <1>8, <3>1, <4>2, <4>3
    <3> QED
      BY <3>2, <3>3
  <2>2. CASE n \in visited /\ ~ Queued(n)
    <3>1. Expanded(n) \/ \A k \in Nat : k < query.depth => n \notin Near(k)
      BY <2>2 DEF ImpactIsComplete
    <3> QED
      BY <3>1 DEF Expanded
  <2>3. CASE n \notin visited
    <3>1. n = From[e] /\ Fresh(e)
      BY <2>3, <1>9 DEF Fresh
    <3>2. Len(queue') \in DOMAIN queue' /\ queue'[Len(queue')].node = n
      <4>1. Len(queue) - o \in Nat
        BY <1>1 DEF Shifted
      <4>2. Len(queue') = Len(queue) - o + 1 /\ queue'[Len(queue')].node = n
        BY <1>3, <3>1
      <4>3. Len(queue') \in Nat /\ Len(queue') >= 1
        BY <4>1, <4>2
      <4>4. queue' \in Seq(Steps)
        BY <1>1
      <4>5. DOMAIN queue' = 1 .. Len(queue')
        BY <4>4
      <4> QED
        BY <4>2, <4>3, <4>5
    <3> QED
      BY <3>2 DEF Queued
  <2> QED
    BY <2>1, <2>2, <2>3
<1>10. batch' /= <<>> => queue'[1] = queue[1]
  <2>1. batch' /= <<>> => o = 0
    BY <1>1
  <2>2. o = 0 => queue'[1] = queue[1]
    <3>1. queue \in Seq(Steps) /\ 1 \in DOMAIN queue /\ Shifted(o)
      BY <1>1
    <3> QED
      BY <3>1 DEF Shifted
  <2> QED
    BY <2>1, <2>2
<1>11. met \subseteq Near(query.depth)
  <2>1. Near(queue[1].depth + 1) \subseteq Near(query.depth)
    BY <1>1, <1>2, WithinGrows DEF Near
  <2> QED
    BY <1>2, <2>1 DEF ImpactIsComplete
<1>12. {answer'[i].node : i \in DOMAIN answer'} = (met \ {query.target}) \cap rows
  <2>1. {answer[i].node : i \in DOMAIN answer} = (visited \ {query.target}) \cap rows
    BY DEF ImpactIsComplete
  <2>2. CASE (~ Fresh(e) \/ From[e] \notin rows) /\ answer' = answer
    BY <2>1, <2>2 DEF Fresh
  <2>3. CASE /\ Fresh(e) /\ From[e] \in rows /\ Len(answer') = Len(answer) + 1
             /\ \A i \in DOMAIN answer : answer'[i] = answer[i]
             /\ answer'[Len(answer')] = [node |-> From[e], depth |-> queue[1].depth + 1, via |-> e]
    <3>1. DOMAIN answer' = DOMAIN answer \cup {Len(answer')}
      BY <1>1, <2>3
    <3>2. answer'[Len(answer')].node = From[e]
      BY <2>3
    <3>3. {answer'[i].node : i \in DOMAIN answer'} = {answer[i].node : i \in DOMAIN answer} \cup {From[e]}
      BY <2>3, <3>1, <3>2
    <3>4. From[e] /= query.target
      BY <2>3 DEF Fresh, ImpactIsRead
    <3> QED
      BY <2>1, <2>3, <3>3, <3>4
  <2> QED
    BY <1>4, <2>2, <2>3
<1> HIDE DEF met
<1>13. \A n \in visited' : Queued(n)' \/ Expanded(n)' \/ \A k \in Nat : k < query'.depth => n \notin Near(k)'
  BY <1>1, <1>9 DEF Expanded, Near
<1>14. visited' \subseteq Near(query.depth)'
  BY <1>1, <1>11 DEF Near
<1>15. batch' /= <<>> => \A f \in edges' : To[f] = queue'[1].node =>
                            From[f] \in visited' \/ \E i \in DOMAIN batch' : batch'[i] = f
  BY <1>1, <1>8, <1>10
<1> QED
  BY <1>1, <1>12, <1>13, <1>14, <1>15 DEF ImpactIsComplete

\* What was read stays read.
LEMMA ImpactStaysRead ==
    ASSUME ImpactIsRead, UNCHANGED <<query, queue, batch, visited, answer>>,
           ReadNodes \subseteq ReadNodes', ReadEdges \subseteq ReadEdges'
    PROVE  ImpactIsRead'
<1>1. \A i \in DOMAIN batch' : batch'[i] \in ReadEdges' /\ To[batch'[i]] = queue'[1].node
  BY DEF ImpactIsRead
<1>2. \A i \in DOMAIN queue' : /\ queue'[i].node \in visited'
                               /\ queue'[i].depth = 0 <=> queue'[i].node = query'.target
  BY DEF ImpactIsRead
<1>3. \A i \in DOMAIN answer' :
          /\ answer'[i].node \in visited' \cap ReadNodes' /\ answer'[i].node /= query'.target
          /\ answer'[i].via \in ReadEdges' /\ From[answer'[i].via] = answer'[i].node
          /\ answer'[i].depth >= 1
          /\ answer'[i].depth = 1 <=> To[answer'[i].via] = query'.target
          /\ \A j \in 1 .. i - 1 : answer'[j].node /= answer'[i].node
  BY DEF ImpactIsRead
<1>4. query'.target \in visited' /\ (batch' /= <<>> => queue' /= <<>>)
  BY DEF ImpactIsRead
<1> QED
  BY <1>1, <1>2, <1>3, <1>4 DEF ImpactIsRead

LEMMA AskedImpact ==
    ASSUME TypeOfQuery, NEW name, NEW depth \in Nat, AskImpact(name, depth)
    PROVE  TypeOfQuery' /\ ImpactInv' /\ PathsInv'
<1>1. /\ state = "idle" /\ state' = "running" /\ revisions' = <<Graph>>
      /\ UNCHANGED <<rows, edges, batch, segments, place, answer, failures>>
  BY DEF AskImpact, arrived
<1>2. /\ batch = <<>> /\ answer = <<>> /\ rows \in SUBSET Nodes /\ edges \in SUBSET EdgeIds
      /\ failures \in Nat /\ place = 0 /\ segments = <<>> /\ segments \in Seq(Shown)
  BY <1>1 DEF TypeOfQuery
<1>3. PICK target \in LookupEntity(name) :
        /\ query' = [op |-> "impact", target |-> target, depth |-> depth]
        /\ queue' = <<[node |-> target, depth |-> 0]>>
        /\ visited' = {target}
  BY DEF AskImpact
<1>4. target \in Nodes
  BY <1>2, LookupFinds
<1>5. [node |-> target, depth |-> 0] \in Steps
  BY <1>4 DEF Steps
<1>6. /\ queue' \in Seq(Steps) /\ queue' /= <<>> /\ DOMAIN queue' = {1} /\ Len(queue') = 1
      /\ queue'[1].node = target /\ queue'[1].depth = 0
  BY <1>3, <1>5
<1>7. /\ batch' = <<>> /\ batch' \in Seq(EdgeIds) /\ DOMAIN batch' = {}
      /\ answer' = <<>> /\ answer' \in Seq(Items) /\ DOMAIN answer' = {}
  BY <1>1, <1>2
<1>8. /\ query'.op = "impact" /\ query'.target = target /\ query'.depth = depth
      /\ query' \in [op : {"impact"}, target : Nodes, depth : Nat]
  BY <1>3, <1>4
<1>9. TypeOfQuery'
  <2>1. Graph' = Graph /\ Graph \in Graphs
    BY <1>1, <1>2 DEF Graph, Graphs
  <2>2. revisions' \in Seq(Graphs) /\ revisions' /= <<>> /\ revisions'[Len(revisions')] = Graph'
    BY <1>1, <2>1
  <2>3. visited' \in SUBSET Nodes
    BY <1>3, <1>4
  <2> QED
    BY <1>1, <1>2, <1>6, <1>7, <1>8, <2>2, <2>3 DEF TypeOfQuery
<1>10. ImpactIsRead'
  BY <1>3, <1>6, <1>7, <1>8 DEF ImpactIsRead
<1>11. Within(edges', target, 0) = {target} /\ Within(edges', target, 0) \subseteq Within(edges', target, depth)
  BY WithinZero, WithinGrows
<1>12. ImpactByDistance'
  <2>1. AtDistance(edges', target, target, 0)
    BY <1>11 DEF AtDistance
  <2> QED
    BY <1>6, <1>7, <1>8, <2>1 DEF ImpactByDistance, Distance
<1>13. ImpactIsComplete'
  <2>1. \A n \in visited' : Queued(n)'
    BY <1>3, <1>6 DEF Queued
  <2>2. visited' \subseteq Near(query.depth)'
    BY <1>3, <1>8, <1>11 DEF Near
  <2>3. {answer'[i].node : i \in DOMAIN answer'} = (visited' \ {query'.target}) \cap rows'
    BY <1>3, <1>7, <1>8
  <2> QED
    BY <1>7, <2>1, <2>2, <2>3 DEF ImpactIsComplete
<1>14. PathsInv'
  BY <1>8 DEF PathsInv
<1> QED
  BY <1>9, <1>10, <1>12, <1>13, <1>14 DEF ImpactInv

LEMMA DequeuedNode ==
    ASSUME TypeOfQuery, ImpactInv, PathsInv, DequeueNode \/ EdgesToFail
    PROVE  TypeOfQuery' /\ ImpactInv' /\ PathsInv'
<1>1. PICK o \in {0, 1} : DequeuesNode(o)
  BY DequeueNodeDoes
<1>2. /\ query.op = "impact" /\ state = "running" /\ batch' \in Seq(EdgeIds) /\ queue' \in Seq(Steps)
      /\ UNCHANGED <<rows, edges, query, visited, segments, place, answer, state, revisions>>
      /\ failures' \in Nat /\ (Quiet' => Quiet)
  BY <1>1 DEF DequeuesNode
<1>3. TypeOfQuery'
  BY <1>2 DEF TypeOfQuery, NoQuery, Graph
<1>4. ImpactIsRead'
  BY <1>1, <1>2, DequeuedIsRead DEF ImpactInv
<1>6. Quiet' => ImpactByDistance' /\ ImpactIsComplete'
  BY <1>1, <1>2, DequeuedByDistance, DequeuedIsComplete DEF ImpactInv
<1> QED
  BY <1>2, <1>3, <1>4, <1>6 DEF ImpactInv, PathsInv

LEMMA FollowedInEdge ==
    ASSUME TypeOfQuery, ImpactInv, PathsInv, FollowInEdge \/ InNodeFails
    PROVE  TypeOfQuery' /\ ImpactInv' /\ PathsInv'
<1>1. query.op = "impact" /\ batch /= <<>> /\ state = "running"
  BY DEF FollowInEdge, InNodeFails
<1>2. queue /= <<>> /\ ImpactIsRead
  BY <1>1 DEF ImpactInv, ImpactIsRead
<1>3. PICK o \in {0, 1} : FollowsInEdge(o, batch[1])
  BY <1>2, FollowInEdgeDoes
<1>4. /\ batch \in Seq(EdgeIds) /\ queue' \in Seq(Steps) /\ answer' \in Seq(Items)
      /\ batch' = Tail(batch) /\ visited' = visited \cup {From[batch[1]]} /\ batch[1] \in ReadEdges
      /\ UNCHANGED <<rows, edges, query, segments, place, state, revisions>>
      /\ failures' \in Nat /\ (Quiet' => Quiet)
  BY <1>2, <1>3, FollowedFrom
<1>5. TypeOfQuery'
  <2>1. batch' \in Seq(EdgeIds)
    BY <1>1, <1>4
  <2>2. From[batch[1]] \in Nodes /\ visited \in SUBSET Nodes
    <3>1. batch[1] \in EdgeIds
      BY <1>1, <1>4
    <3> QED
      BY <1>1, <3>1, ImpactTypes, GraphAssumption
  <2>3. visited' \in SUBSET Nodes
    BY <1>4, <2>2
  <2> QED
    BY <1>1, <1>4, <2>1, <2>3 DEF TypeOfQuery, NoQuery, Graph
<1>6. ImpactIsRead'
  BY <1>2, <1>3, FollowedIsRead
<1>8. Quiet' => ImpactByDistance' /\ ImpactIsComplete'
  BY <1>1, <1>2, <1>3, <1>4, FollowedByDistance, FollowedIsComplete DEF ImpactInv
<1> QED
  BY <1>1, <1>4, <1>5, <1>6, <1>8 DEF ImpactInv, PathsInv

-----------------------------------------------------------------------------
(* Simple paths.                                                           *)

LEMMA SimplePathsAreSimple ==
    \A s, t, depth : SimplePaths(s, t, depth) = Simple(edges, s, t, depth)
BY DEF SimplePaths, Simple

LEMMA JoinedNodes ==
    ASSUME NEW s \in Seq(Nodes), NEW t \in Seq(Nodes)
    PROVE  /\ s \o t \in Seq(Nodes) /\ Len(s \o t) = Len(s) + Len(t)
           /\ \A i \in 1 .. Len(s) : (s \o t)[i] = s[i]
           /\ \A i \in 1 .. Len(t) : (s \o t)[Len(s) + i] = t[i]
OBVIOUS

LEMMA JoinedPaths ==
    ASSUME NEW s \in Seq(Paths), NEW t \in Seq(Paths)
    PROVE  /\ s \o t \in Seq(Paths) /\ Len(s \o t) = Len(s) + Len(t)
           /\ \A i \in 1 .. Len(s) : (s \o t)[i] = s[i]
           /\ \A i \in 1 .. Len(t) : (s \o t)[Len(s) + i] = t[i]
OBVIOUS

\* The nodes of a path are where it starts and where its edges lead.
LEMMA NodesAlong ==
    ASSUME NEW es \in Seq(EdgeIds), es /= <<>>
    PROVE  /\ NodesOf(es) \in Seq(Nodes) /\ Len(NodesOf(es)) = Len(es) + 1
           /\ NodesOf(es)[1] = From[es[1]]
           /\ \A i \in 1 .. Len(es) : NodesOf(es)[i + 1] = To[es[i]]
<1> DEFINE first == <<From[es[1]]>>
           others == [i \in 1 .. Len(es) |-> To[es[i]]]
<1>1. Len(es) \in Nat /\ Len(es) >= 1 /\ \A i \in 1 .. Len(es) : es[i] \in EdgeIds
  OBVIOUS
<1>2. first \in Seq(Nodes) /\ Len(first) = 1 /\ first[1] = From[es[1]]
  BY <1>1, GraphAssumption
<1>3. /\ others \in Seq(Nodes) /\ Len(others) = Len(es)
      /\ \A i \in 1 .. Len(es) : others[i] = To[es[i]]
  <2>1. \A i \in 1 .. Len(es) : To[es[i]] \in Nodes
    BY <1>1, GraphAssumption
  <2> QED
    BY <1>1, <2>1
<1>4. NodesOf(es) = first \o others
  BY DEF NodesOf
<1> HIDE DEF first, others
<1>5. /\ first \o others \in Seq(Nodes) /\ Len(first \o others) = 1 + Len(es)
      /\ (first \o others)[1] = first[1]
      /\ \A i \in 1 .. Len(es) : (first \o others)[1 + i] = others[i]
  <2>1. /\ first \o others \in Seq(Nodes) /\ Len(first \o others) = Len(first) + Len(others)
        /\ \A i \in 1 .. Len(first) : (first \o others)[i] = first[i]
        /\ \A i \in 1 .. Len(others) : (first \o others)[Len(first) + i] = others[i]
    <3>1. first \in Seq(Nodes) /\ others \in Seq(Nodes)
      BY <1>2, <1>3
    <3> QED
      BY <3>1, JoinedNodes
  <2>2. 1 \in 1 .. Len(first)
    BY <1>2
  <2> QED
    BY <1>2, <1>3, <2>1, <2>2
<1> QED
  BY <1>1, <1>2, <1>3, <1>4, <1>5

\* No node twice: the edges lead to different nodes, and not to the first.
NoNodeTwice(es) ==
    \A i \in 1 .. Len(es) : /\ To[es[i]] /= From[es[1]]
                            /\ \A j \in 1 .. Len(es) : To[es[i]] = To[es[j]] => i = j

LEMMA NodesOnce ==
    ASSUME NEW es \in Seq(EdgeIds), es /= <<>>
    PROVE  IsInjective(NodesOf(es)) <=> NoNodeTwice(es)
<1> DEFINE N == NodesOf(es)
           n == Len(es)
<1>1. n \in Nat /\ n >= 1
  OBVIOUS
<1>2. DOMAIN N = 1 .. n + 1 /\ N[1] = From[es[1]] /\ \A i \in 1 .. n : N[i + 1] = To[es[i]]
  <2>1. N \in Seq(Nodes) /\ Len(N) = n + 1
    BY NodesAlong
  <2>2. DOMAIN N = 1 .. n + 1
    BY <2>1
  <2> QED
    BY <2>2, NodesAlong
<1> HIDE DEF N, n
<1>3. ASSUME IsInjective(N)
      PROVE  \A i \in 1 .. n : /\ To[es[i]] /= From[es[1]]
                               /\ \A j \in 1 .. n : To[es[i]] = To[es[j]] => i = j
  <2> SUFFICES ASSUME NEW i \in 1 .. n
               PROVE  /\ To[es[i]] /= From[es[1]]
                      /\ \A j \in 1 .. n : To[es[i]] = To[es[j]] => i = j
    OBVIOUS
  <2>1. \A a, b \in 1 .. n + 1 : N[a] = N[b] => a = b
    BY <1>2, <1>3 DEF IsInjective
  <2>2. 1 \in 1 .. n + 1 /\ i + 1 \in 1 .. n + 1 /\ i + 1 /= 1
    BY <1>1
  <2>3. To[es[i]] /= From[es[1]]
    BY <1>2, <2>1, <2>2
  <2>4. ASSUME NEW j \in 1 .. n, To[es[i]] = To[es[j]]
        PROVE  i = j
    <3>1. j + 1 \in 1 .. n + 1 /\ N[i + 1] = N[j + 1]
      BY <1>1, <1>2, <2>4, SMTT(30)
    <3>2. i + 1 = j + 1
      BY <2>1, <2>2, <3>1
    <3> QED
      BY <3>2
  <2> QED
    BY <2>3, <2>4
<1>4. ASSUME \A i \in 1 .. n : /\ To[es[i]] /= From[es[1]]
                               /\ \A j \in 1 .. n : To[es[i]] = To[es[j]] => i = j
      PROVE  IsInjective(N)
  <2>1. ASSUME NEW a \in 1 .. n + 1, NEW b \in 1 .. n + 1, N[a] = N[b]
        PROVE  a = b
    <3>1. a = 1 \/ (a - 1 \in 1 .. n /\ N[a] = To[es[a - 1]])
      <4>1. a /= 1 => a - 1 \in 1 .. n /\ (a - 1) + 1 = a
        BY <1>1
      <4> QED
        BY <1>2, <4>1
    <3>2. b = 1 \/ (b - 1 \in 1 .. n /\ N[b] = To[es[b - 1]])
      <4>1. b /= 1 => b - 1 \in 1 .. n /\ (b - 1) + 1 = b
        BY <1>1
      <4> QED
        BY <1>2, <4>1
    <3>3. CASE a = 1
      BY <1>2, <1>4, <2>1, <3>2, <3>3
    <3>4. CASE b = 1
      BY <1>2, <1>4, <2>1, <3>1, <3>4
    <3>5. CASE a /= 1 /\ b /= 1
      <4>1. a - 1 = b - 1
        BY <1>4, <2>1, <3>1, <3>2, <3>5
      <4> QED
        BY <1>1, <4>1
    <3> QED
      BY <3>3, <3>4, <3>5
  <2> QED
    BY <1>2, <2>1 DEF IsInjective
<1> QED
  BY <1>3, <1>4 DEF NoNodeTwice, N, n

\* What a simple path is, edge by edge.
LEMMA SimpleEdges ==
    ASSUME NEW G \in SUBSET EdgeIds, NEW s, NEW t, NEW depth \in Nat, NEW es \in Simple(G, s, t, depth)
    PROVE  /\ es \in Seq(G) /\ es \in Seq(EdgeIds) /\ es /= <<>> /\ Len(es) \in 1 .. depth
           /\ \A i \in 1 .. Len(es) : es[i] \in G
           /\ From[es[1]] = s /\ To[es[Len(es)]] = t
           /\ \A i \in 1 .. Len(es) - 1 : To[es[i]] = From[es[i + 1]]
           /\ NoNodeTwice(es)
<1>1. PICK k \in 1 .. depth : es \in [1 .. k -> G]
  BY DEF Simple
<1>2. IsWalk(es, s, t) /\ IsInjective(NodesOf(es))
  BY DEF Simple
<1>3. es \in Seq(G) /\ es \in Seq(EdgeIds) /\ es /= <<>> /\ Len(es) = k
  BY <1>1
<1>4. NoNodeTwice(es)
  BY <1>2, <1>3, NodesOnce
<1> QED
  BY <1>1, <1>2, <1>3, <1>4 DEF IsWalk, Last

-----------------------------------------------------------------------------
(* The steps of a path query.                                              *)

\* An edge that leads on from a path, to a node it has not been at.
LeadsOn(path, e) ==
    /\ e \in edges /\ From[e] = path.nodes[Len(path.nodes)]
    /\ \A i \in 1 .. Len(path.nodes) : path.nodes[i] /= To[e]

LEMMA ExtendedPath ==
    ASSUME NEW path \in Paths, NEW e \in EdgeIds
    PROVE  /\ Extend(path, e) \in Paths
           /\ Len(Extend(path, e).nodes) = Len(path.nodes) + 1
           /\ Len(Extend(path, e).edges) = Len(path.edges) + 1
           /\ \A i \in 1 .. Len(path.nodes) : Extend(path, e).nodes[i] = path.nodes[i]
           /\ \A i \in 1 .. Len(path.edges) : Extend(path, e).edges[i] = path.edges[i]
           /\ Extend(path, e).nodes[Len(path.nodes) + 1] = To[e]
           /\ Extend(path, e).edges[Len(path.edges) + 1] = e
<1>1. path.nodes \in Seq(Nodes) /\ path.edges \in Seq(EdgeIds) /\ To[e] \in Nodes
  BY GraphAssumption DEF Paths
<1>2. /\ Extend(path, e).nodes = Append(path.nodes, To[e])
      /\ Extend(path, e).edges = Append(path.edges, e)
  BY DEF Extend
<1>3. /\ Append(path.nodes, To[e]) \in Seq(Nodes) /\ Len(Append(path.nodes, To[e])) = Len(path.nodes) + 1
      /\ \A i \in 1 .. Len(path.nodes) : Append(path.nodes, To[e])[i] = path.nodes[i]
      /\ Append(path.nodes, To[e])[Len(path.nodes) + 1] = To[e]
  BY <1>1
<1>4. /\ Append(path.edges, e) \in Seq(EdgeIds) /\ Len(Append(path.edges, e)) = Len(path.edges) + 1
      /\ \A i \in 1 .. Len(path.edges) : Append(path.edges, e)[i] = path.edges[i]
      /\ Append(path.edges, e)[Len(path.edges) + 1] = e
  BY <1>1
<1>5. Extend(path, e) \in Paths
  BY <1>3, <1>4 DEF Extend, Paths
<1> QED
  BY <1>2, <1>3, <1>4, <1>5

\* The effect of a dequeued path: the others move up, and it is dropped, found
\* or replaced by its extensions.
New(i) == i + 1 \notin DOMAIN queue
DequeuesPath ==
    /\ state = "running" /\ query.op = "paths" /\ queue /= <<>>
    /\ queue' \in Seq(Paths) /\ answer' \in Seq(Found)
    /\ \A i \in DOMAIN queue : i > 1 => i - 1 \in DOMAIN queue' /\ queue'[i - 1] = queue[i]
    /\ \A i \in DOMAIN queue' :
          \/ ~ New(i) /\ queue'[i] = queue[i + 1]
          \/ /\ New(i) /\ ~ Arrived(queue[1])
             /\ \E e : LeadsOn(queue[1], e) /\ queue'[i] = Extend(queue[1], e)
    /\ \A i, j \in DOMAIN queue' : New(i) /\ New(j) /\ queue'[i] = queue'[j] => i = j
    /\ \/ TooLong(queue[1]) /\ answer' = answer
       \/ /\ ~ TooLong(queue[1]) /\ Arrived(queue[1])
          /\ Len(answer') = Len(answer) + 1 /\ \A i \in DOMAIN answer : answer'[i] = answer[i]
          /\ answer'[Len(answer')].path = queue[1].edges
       \/ /\ ~ TooLong(queue[1]) /\ ~ Arrived(queue[1]) /\ answer' = answer
          /\ Quiet' => \A e : LeadsOn(queue[1], e) =>
                          \E i \in DOMAIN queue' : queue'[i] = Extend(queue[1], e)
    /\ UNCHANGED <<rows, edges, query, batch, visited, state, revisions>>
    /\ failures' \in Nat /\ (Quiet' => Quiet)

\* Dropping the head moves the others up.
LEMMA DroppedHead ==
    ASSUME queue \in Seq(Paths), queue /= <<>>, queue' = Tail(queue)
    PROVE  /\ queue' \in Seq(Paths)
           /\ \A i \in DOMAIN queue : i > 1 => i - 1 \in DOMAIN queue' /\ queue'[i - 1] = queue[i]
           /\ \A i \in DOMAIN queue' : ~ New(i) /\ queue'[i] = queue[i + 1]
<1>1. /\ queue' \in Seq(Paths)
      /\ \A i \in DOMAIN queue : i > 1 => i - 1 \in DOMAIN queue' /\ queue'[i - 1] = queue[i]
      /\ \A i \in DOMAIN queue' : i + 1 \in DOMAIN queue /\ queue'[i] = queue[i + 1]
  BY Dropped
<1> QED
  BY <1>1 DEF New

\* A path leaves the queue and its extensions join at the end, each once.
LEMMA ReplacedHead ==
    ASSUME queue \in Seq(Paths), queue /= <<>>, edges \in SUBSET EdgeIds,
           NEW onward \in Onward(queue[1]),
           queue' = Tail(queue) \o [i \in DOMAIN onward |-> Extend(queue[1], onward[i])]
    PROVE  /\ queue' \in Seq(Paths)
           /\ \A i \in DOMAIN queue : i > 1 => i - 1 \in DOMAIN queue' /\ queue'[i - 1] = queue[i]
           /\ \A i \in DOMAIN queue' :
                 \/ ~ New(i) /\ queue'[i] = queue[i + 1]
                 \/ New(i) /\ \E e : LeadsOn(queue[1], e) /\ queue'[i] = Extend(queue[1], e)
           /\ \A i, j \in DOMAIN queue' : New(i) /\ New(j) /\ queue'[i] = queue'[j] => i = j
           /\ \A e : LeadsOn(queue[1], e) => \E i \in DOMAIN queue' : queue'[i] = Extend(queue[1], e)
<1> DEFINE p == queue[1]
           rest == Tail(queue)
           ext == [i \in DOMAIN onward |-> Extend(p, onward[i])]
           leading == {e \in EdgesFrom(Last(p.nodes)) : ~ Contains(p.nodes, To[e])}
           m == Len(rest)
           n == Len(onward)
<1>1. p \in Paths
  OBVIOUS
<1>2. \A e : e \in leading <=> LeadsOn(p, e)
  BY DEF LeadsOn, EdgesFrom, Last, Contains
<1>3. /\ onward \in Seq(EdgeIds)
      /\ \A i \in DOMAIN onward : onward[i] \in leading
      /\ \A e \in leading : \E i \in DOMAIN onward : onward[i] = e
      /\ \A i, j \in DOMAIN onward : onward[i] = onward[j] => i = j
  <2>1. leading \subseteq EdgeIds
    BY DEF EdgesFrom
  <2>2. onward \in Listings(leading)
    BY DEF Onward
  <2> QED
    BY <2>1, <2>2, ListingLists
<1>4. rest \in Seq(Paths) /\ m = Len(queue) - 1 /\ m \in Nat /\ n \in Nat /\ DOMAIN onward = 1 .. n
  BY <1>3, Dropped
<1>5. \A i \in 1 .. n : onward[i] \in EdgeIds /\ Extend(p, onward[i]) \in Paths
  BY <1>1, <1>3, <1>4, ExtendedPath
<1>6. ext \in Seq(Paths) /\ Len(ext) = n /\ \A i \in 1 .. n : ext[i] = Extend(p, onward[i])
  BY <1>4, <1>5
<1>7. queue' = rest \o ext
  OBVIOUS
<1>8. DOMAIN queue = 1 .. m + 1 /\ \A i \in 1 .. m : rest[i] = queue[i + 1]
  BY <1>4, Dropped
<1> HIDE DEF p, ext, rest, m, n, leading
<1>9. /\ queue' \in Seq(Paths) /\ DOMAIN queue' = 1 .. m + n
      /\ \A i \in 1 .. m : queue'[i] = queue[i + 1]
      /\ \A i \in 1 .. n : queue'[m + i] = Extend(p, onward[i])
  <2>1. /\ rest \o ext \in Seq(Paths) /\ Len(rest \o ext) = Len(rest) + Len(ext)
        /\ \A i \in 1 .. Len(rest) : (rest \o ext)[i] = rest[i]
        /\ \A i \in 1 .. Len(ext) : (rest \o ext)[Len(rest) + i] = ext[i]
    BY <1>4, <1>6, JoinedPaths
  <2>2. Len(rest) = m
    BY DEF m
  <2>3. queue' \in Seq(Paths) /\ Len(queue') = m + n
    BY <1>6, <1>7, <2>1, <2>2
  <2>4. \A i \in 1 .. m : queue'[i] = queue[i + 1]
    BY <1>7, <1>8, <2>1, <2>2
  <2>5. \A i \in 1 .. n : queue'[m + i] = Extend(p, onward[i])
    BY <1>6, <1>7, <2>1, <2>2
  <2>6. DOMAIN queue' = 1 .. m + n
    BY <2>3
  <2> QED
    BY <2>3, <2>4, <2>5, <2>6
<1>10. \A i \in DOMAIN queue : i > 1 => i - 1 \in DOMAIN queue' /\ queue'[i - 1] = queue[i]
  <2> SUFFICES ASSUME NEW i \in DOMAIN queue, i > 1
               PROVE  i - 1 \in DOMAIN queue' /\ queue'[i - 1] = queue[i]
    OBVIOUS
  <2>1. i - 1 \in 1 .. m /\ i - 1 \in 1 .. m + n /\ (i - 1) + 1 = i
    BY <1>4, <1>8
  <2> QED
    BY <1>9, <2>1
<1>11. \A i \in DOMAIN queue' : New(i) => i - m \in 1 .. n /\ m + (i - m) = i
  BY <1>4, <1>8, <1>9 DEF New
<1>12. ASSUME NEW i \in DOMAIN queue'
       PROVE  \/ ~ New(i) /\ queue'[i] = queue[i + 1]
              \/ New(i) /\ \E e : LeadsOn(p, e) /\ queue'[i] = Extend(p, e)
  <2>1. CASE ~ New(i)
    <3>1. i \in 1 .. m
      BY <1>4, <1>8, <1>9, <2>1 DEF New
    <3> QED
      BY <1>9, <2>1, <3>1
  <2>2. CASE New(i)
    <3>1. i - m \in 1 .. n /\ queue'[i] = Extend(p, onward[i - m])
      BY <1>9, <1>11, <2>2
    <3>2. LeadsOn(p, onward[i - m])
      BY <1>2, <1>3, <1>4, <3>1
    <3> QED
      BY <2>2, <3>1, <3>2
  <2> QED
    BY <2>1, <2>2
<1>13. ASSUME NEW i \in DOMAIN queue', NEW j \in DOMAIN queue', New(i), New(j), queue'[i] = queue'[j]
       PROVE  i = j
  <2>1. /\ i - m \in 1 .. n /\ queue'[i] = Extend(p, onward[i - m])
        /\ j - m \in 1 .. n /\ queue'[j] = Extend(p, onward[j - m])
    BY <1>9, <1>11, <1>13
  <2>2. onward[i - m] = onward[j - m]
    <3>1. /\ Extend(p, onward[i - m]).edges[Len(p.edges) + 1] = onward[i - m]
          /\ Extend(p, onward[j - m]).edges[Len(p.edges) + 1] = onward[j - m]
      BY <1>1, <1>5, <2>1, ExtendedPath
    <3>2. Extend(p, onward[i - m]) = Extend(p, onward[j - m])
      BY <1>13, <2>1
    <3> QED
      BY <3>1, <3>2
  <2>3. i - m = j - m
    BY <1>3, <1>4, <2>1, <2>2
  <2> QED
    BY <1>4, <1>9, <2>3
<1>14. ASSUME NEW e, LeadsOn(p, e)
       PROVE  \E i \in DOMAIN queue' : queue'[i] = Extend(p, e)
  <2>1. PICK i \in 1 .. n : onward[i] = e
    BY <1>2, <1>3, <1>4, <1>14
  <2>2. m + i \in 1 .. m + n
    BY <1>4
  <2> QED
    BY <1>9, <2>1, <2>2
<1> QED
  BY <1>9, <1>10, <1>12, <1>13, <1>14 DEF p

LEMMA DequeuePathDoes ==
    ASSUME TypeOfQuery, DequeuePath \/ EdgesFromFail, place' = 0
    PROVE  DequeuesPath /\ answer' = answer /\ segments' = <<>>
<1> DEFINE path == queue[1]
<1>1. /\ state = "running" /\ query.op = "paths" /\ queue /= <<>> /\ place = 0
      /\ UNCHANGED <<rows, edges, query, batch, visited, segments, answer, state, revisions>>
  BY DEF DequeuePath, EdgesFromFail, arrived
<1>2. /\ queue \in Seq(Paths) /\ answer \in Seq(Found) /\ rows \in SUBSET Nodes
      /\ edges \in SUBSET EdgeIds /\ failures \in Nat
  BY <1>1, PathsTypes
<1>3. Head(queue) = path /\ path \in Paths
  BY <1>1, <1>2
<1>4. segments' = <<>> /\ answer' = answer /\ answer' \in Seq(Found)
  BY <1>1, <1>2 DEF TypeOfQuery
<1>5. CASE EdgesFromFail
  <2>1. /\ ~ TooLong(path) /\ ~ Arrived(path) /\ queue' = Tail(queue) /\ failures' = failures + 1
    BY <1>3, <1>5 DEF EdgesFromFail, Fails
  <2>2. failures' \in Nat /\ ~ Quiet'
    BY <1>1, <1>2, <2>1, ReadsStay
  <2> QED
    BY <1>1, <1>2, <1>4, <2>1, <2>2, DroppedHead DEF DequeuesPath
<1>6. ASSUME DequeuePath
      PROVE  /\ failures' \in Nat /\ (Quiet' => Quiet)
             /\ \/ TooLong(path) /\ queue' = Tail(queue)
                \/ /\ ~ TooLong(path) /\ ~ Arrived(path)
                   /\ \E onward \in Onward(path) :
                         queue' = Tail(queue) \o [i \in DOMAIN onward |-> Extend(path, onward[i])]
  <2>1. failures' = failures
    BY <1>6 DEF DequeuePath
  <2>2. failures' \in Nat /\ (Quiet' => Quiet)
    BY <1>1, <1>2, <2>1, ReadsStay
  <2>3. \/ TooLong(path) /\ queue' = Tail(queue)
        \/ place' = 1
        \/ /\ ~ TooLong(path) /\ ~ Arrived(path)
           /\ \E onward \in Onward(path) :
                 queue' = Tail(queue) \o [i \in DOMAIN onward |-> Extend(path, onward[i])]
    BY <1>3, <1>6 DEF DequeuePath
  <2>4. place' /= 1
    OBVIOUS
  <2> QED
    BY <2>2, <2>3, <2>4, Zenon
<1>7. CASE DequeuePath /\ TooLong(path) /\ queue' = Tail(queue)
  BY <1>1, <1>2, <1>4, <1>6, <1>7, DroppedHead DEF DequeuesPath
<1>8. CASE /\ DequeuePath /\ ~ TooLong(path) /\ ~ Arrived(path)
           /\ \E onward \in Onward(path) :
                 queue' = Tail(queue) \o [i \in DOMAIN onward |-> Extend(path, onward[i])]
  <2>1. PICK onward \in Onward(path) :
          queue' = Tail(queue) \o [i \in DOMAIN onward |-> Extend(path, onward[i])]
    BY <1>8
  <2>2. /\ queue' \in Seq(Paths)
        /\ \A i \in DOMAIN queue : i > 1 => i - 1 \in DOMAIN queue' /\ queue'[i - 1] = queue[i]
        /\ \A i \in DOMAIN queue' :
              \/ ~ New(i) /\ queue'[i] = queue[i + 1]
              \/ New(i) /\ \E e : LeadsOn(path, e) /\ queue'[i] = Extend(path, e)
        /\ \A i, j \in DOMAIN queue' : New(i) /\ New(j) /\ queue'[i] = queue'[j] => i = j
        /\ \A e : LeadsOn(path, e) => \E i \in DOMAIN queue' : queue'[i] = Extend(path, e)
    BY <1>1, <1>2, <2>1, ReplacedHead
  <2> QED
    BY <1>1, <1>2, <1>4, <1>6, <1>8, <2>2 DEF DequeuesPath
<1> QED
  BY <1>4, <1>5, <1>6, <1>7, <1>8

-----------------------------------------------------------------------------
(* Trails: how they grow, arrive and start a simple path.                  *)

LEMMA MoreEdges ==
    ASSUME NEW A, NEW B, A \subseteq B, NEW s
    PROVE  /\ \A path : Trail(path, A, s) => Trail(path, B, s)
           /\ \A t, depth : Simple(A, s, t, depth) \subseteq Simple(B, s, t, depth)
<1>1. \A path : Trail(path, A, s) => Trail(path, B, s)
  BY DEF Trail
<1>2. \A t, depth : Simple(A, s, t, depth) \subseteq Simple(B, s, t, depth)
  BY DEF Simple
<1> QED
  BY <1>1, <1>2

LEMMA TrailExtends ==
    ASSUME NEW path \in Paths, NEW s, Trail(path, ReadEdges, s), NEW e, LeadsOn(path, e),
           edges \subseteq ReadEdges, ReadEdges \subseteq EdgeIds
    PROVE  Trail(Extend(path, e), ReadEdges, s)
<1> DEFINE longer == Extend(path, e)
           k == Len(path.edges)
<1>1. /\ e \in ReadEdges /\ e \in EdgeIds /\ From[e] = path.nodes[Len(path.nodes)]
      /\ \A i \in 1 .. Len(path.nodes) : path.nodes[i] /= To[e]
  BY DEF LeadsOn
<1>2. /\ Len(path.nodes) = k + 1 /\ path.nodes[1] = s /\ k \in Nat
      /\ \A i \in 1 .. k : /\ path.edges[i] \in ReadEdges
                           /\ From[path.edges[i]] = path.nodes[i]
                           /\ To[path.edges[i]] = path.nodes[i + 1]
      /\ \A i, j \in 1 .. k + 1 : path.nodes[i] = path.nodes[j] => i = j
  BY DEF Trail, Paths
<1>3. /\ longer \in Paths /\ Len(longer.nodes) = k + 2 /\ Len(longer.edges) = k + 1
      /\ \A i \in 1 .. k + 1 : longer.nodes[i] = path.nodes[i]
      /\ \A i \in 1 .. k : longer.edges[i] = path.edges[i]
      /\ longer.nodes[k + 2] = To[e] /\ longer.edges[k + 1] = e
  <2>1. /\ longer \in Paths
        /\ Len(longer.nodes) = Len(path.nodes) + 1
        /\ Len(longer.edges) = Len(path.edges) + 1
        /\ \A i \in 1 .. Len(path.nodes) : longer.nodes[i] = path.nodes[i]
        /\ \A i \in 1 .. Len(path.edges) : longer.edges[i] = path.edges[i]
        /\ longer.nodes[Len(path.nodes) + 1] = To[e]
        /\ longer.edges[Len(path.edges) + 1] = e
    BY <1>1, ExtendedPath
  <2> HIDE DEF longer
  <2>2. Len(path.nodes) + 1 = k + 2 /\ Len(path.edges) + 1 = k + 1
    BY <1>2
  <2> QED
    BY <1>2, <2>1, <2>2
<1> HIDE DEF longer, k
<1>4. \A i \in 1 .. k + 1 : /\ longer.edges[i] \in ReadEdges
                            /\ From[longer.edges[i]] = longer.nodes[i]
                            /\ To[longer.edges[i]] = longer.nodes[i + 1]
  <2> SUFFICES ASSUME NEW i \in 1 .. k + 1
               PROVE  /\ longer.edges[i] \in ReadEdges
                      /\ From[longer.edges[i]] = longer.nodes[i]
                      /\ To[longer.edges[i]] = longer.nodes[i + 1]
    OBVIOUS
  <2>1. CASE i = k + 1
    <3>1. k + 1 \in 1 .. k + 1 /\ (k + 1) + 1 = k + 2
      BY <1>2
    <3>2. From[e] = path.nodes[k + 1] /\ longer.nodes[k + 1] = path.nodes[k + 1]
      BY <1>1, <1>2, <1>3, <3>1
    <3> QED
      BY <1>1, <1>3, <2>1, <3>1, <3>2
  <2>2. CASE i /= k + 1
    <3>1. i \in 1 .. k /\ i + 1 \in 1 .. k + 1
      BY <1>2, <2>2
    <3> QED
      BY <1>2, <1>3, <3>1
  <2> QED
    BY <2>1, <2>2
<1>5. ASSUME NEW i \in 1 .. k + 2, NEW j \in 1 .. k + 2, longer.nodes[i] = longer.nodes[j]
      PROVE  i = j
  <2>1. (i = k + 2 \/ i \in 1 .. k + 1) /\ (j = k + 2 \/ j \in 1 .. k + 1)
    BY <1>2
  <2>2. \A m \in 1 .. k + 1 : longer.nodes[m] /= To[e]
    BY <1>1, <1>2, <1>3
  <2> QED
    BY <1>2, <1>3, <1>5, <2>1, <2>2
<1>6. longer.nodes[1] = s
  BY <1>2, <1>3
<1>7. Trail(longer, ReadEdges, s)
  <2>1. Len(longer.nodes) = Len(longer.edges) + 1
    BY <1>2, <1>3
  <2> QED
    BY <1>3, <1>4, <1>5, <1>6, <2>1 DEF Trail
<1> QED
  BY <1>7 DEF longer

\* A trail that has arrived within the depth is a simple path.
LEMMA TrailArrives ==
    ASSUME NEW path \in Paths, NEW G \in SUBSET EdgeIds, NEW s, NEW t, NEW depth \in Nat,
           Trail(path, G, s), path.nodes[Len(path.nodes)] = t,
           Len(path.nodes) > 1, Len(path.nodes) <= depth + 1
    PROVE  path.edges \in Simple(G, s, t, depth)
<1> DEFINE es == path.edges
           k == Len(es)
<1>1. es \in Seq(EdgeIds) /\ k \in Nat /\ path.nodes \in Seq(Nodes)
  BY DEF Paths
<1>2. /\ Len(path.nodes) = k + 1 /\ path.nodes[1] = s
      /\ \A i \in 1 .. k : /\ es[i] \in G
                           /\ From[es[i]] = path.nodes[i]
                           /\ To[es[i]] = path.nodes[i + 1]
      /\ \A i, j \in 1 .. k + 1 : path.nodes[i] = path.nodes[j] => i = j
  BY DEF Trail
<1>3. k \in 1 .. depth /\ es /= <<>>
  BY <1>1, <1>2
<1>4. es \in [1 .. k -> G]
  <2>1. DOMAIN es = 1 .. k /\ es = [i \in 1 .. k |-> es[i]]
    BY <1>1
  <2> QED
    BY <1>2, <2>1
<1> HIDE DEF es, k
<1>5. From[es[1]] = s /\ To[es[k]] = t
  BY <1>2, <1>3
<1>6. \A i \in 1 .. k - 1 : To[es[i]] = From[es[i + 1]]
  <2> SUFFICES ASSUME NEW i \in 1 .. k - 1
               PROVE  To[es[i]] = From[es[i + 1]]
    OBVIOUS
  <2>1. i \in 1 .. k /\ i + 1 \in 1 .. k
    BY <1>1
  <2> QED
    BY <1>2, <2>1
<1>7. IsWalk(es, s, t)
  BY <1>5, <1>6 DEF IsWalk, Last, k
<1>8. NoNodeTwice(es)
  <2> SUFFICES ASSUME NEW i \in 1 .. k
               PROVE  /\ To[es[i]] /= From[es[1]]
                      /\ \A j \in 1 .. k : To[es[i]] = To[es[j]] => i = j
    BY DEF NoNodeTwice, k
  <2>1. i + 1 \in 1 .. k + 1 /\ 1 \in 1 .. k + 1 /\ i + 1 /= 1 /\ 1 \in 1 .. k
    BY <1>1, <1>3
  <2>2. To[es[i]] /= From[es[1]]
    BY <1>2, <2>1
  <2>3. ASSUME NEW j \in 1 .. k, To[es[i]] = To[es[j]]
        PROVE  i = j
    <3>1. j + 1 \in 1 .. k + 1 /\ path.nodes[i + 1] = path.nodes[j + 1]
      BY <1>1, <1>2, <2>3
    <3>2. i + 1 = j + 1
      BY <1>2, <2>1, <3>1
    <3> QED
      BY <3>2
  <2> QED
    BY <2>2, <2>3
<1>9. IsInjective(NodesOf(es))
  BY <1>1, <1>3, <1>8, NodesOnce
<1>10. es \in Simple(G, s, t, depth)
  BY <1>3, <1>4, <1>7, <1>9 DEF Simple
<1> QED
  BY <1>10 DEF es

\* Where the start of a simple path has led: the path is not too long, is all
\* of it once the start has arrived, and otherwise goes on with its next edge.
LEMMA TrailStarts ==
    ASSUME NEW path \in Paths, edges \subseteq EdgeIds,
           NEW s, NEW t, NEW depth \in Nat, NEW es \in Simple(edges, s, t, depth),
           Trail(path, edges, s), StartsWith(es, path.edges)
    PROVE  /\ Len(path.nodes) <= depth + 1
           /\ path.nodes[Len(path.nodes)] = t /\ Len(path.nodes) > 1 => path.edges = es
           /\ ~ (path.nodes[Len(path.nodes)] = t /\ Len(path.nodes) > 1) =>
                 \E e : LeadsOn(path, e) /\ StartsWith(es, Extend(path, e).edges)
<1> DEFINE k == Len(path.edges)
           n == Len(es)
<1>1. /\ es \in Seq(edges) /\ es \in Seq(EdgeIds) /\ n \in 1 .. depth
      /\ \A i \in 1 .. n : es[i] \in edges
      /\ From[es[1]] = s /\ To[es[n]] = t
      /\ \A i \in 1 .. n - 1 : To[es[i]] = From[es[i + 1]]
      /\ \A i \in 1 .. n : /\ To[es[i]] /= From[es[1]]
                           /\ \A j \in 1 .. n : To[es[i]] = To[es[j]] => i = j
  <2>1. /\ es \in Seq(edges) /\ es \in Seq(EdgeIds) /\ es /= <<>> /\ n \in 1 .. depth
        /\ \A i \in 1 .. n : es[i] \in edges
        /\ From[es[1]] = s /\ To[es[n]] = t
        /\ \A i \in 1 .. n - 1 : To[es[i]] = From[es[i + 1]]
        /\ NoNodeTwice(es)
    <3>1. edges \in SUBSET EdgeIds
      OBVIOUS
    <3> QED
      BY <3>1, SimpleEdges
  <2> QED
    BY <2>1 DEF NoNodeTwice
<1>2. /\ path.edges \in Seq(EdgeIds) /\ k \in Nat /\ Len(path.nodes) = k + 1 /\ path.nodes[1] = s
      /\ \A i \in 1 .. k : To[path.edges[i]] = path.nodes[i + 1]
  BY DEF Trail, Paths
<1>3. k <= n /\ \A i \in 1 .. k : es[i] = path.edges[i]
  BY DEF StartsWith
<1>4. n \in Nat /\ 1 <= n /\ n <= depth
  BY <1>1
<1>5. Len(path.edges) = k /\ Len(es) = n
  OBVIOUS
<1> HIDE DEF k, n
<1>6. \A i \in 1 .. k : i \in 1 .. n /\ path.nodes[i + 1] = To[es[i]]
  <2>1. \A i \in 1 .. k : i \in 1 .. n
    BY <1>2, <1>3, <1>4
  <2> QED
    BY <1>2, <1>3, <2>1
<1>7. Len(path.nodes) <= depth + 1
  BY <1>2, <1>3, <1>4
<1>8. ASSUME path.nodes[Len(path.nodes)] = t, Len(path.nodes) > 1
      PROVE  path.edges = es
  <2>1. k \in 1 .. k /\ k \in 1 .. n /\ n \in 1 .. n
    BY <1>2, <1>3, <1>4, <1>8
  <2>2. To[es[k]] = To[es[n]]
    BY <1>1, <1>2, <1>6, <1>8, <2>1
  <2>3. k = n
    BY <1>1, <2>1, <2>2
  <2> QED
    BY <1>1, <1>2, <1>3, <1>5, <2>3
<1>9. ASSUME ~ (path.nodes[Len(path.nodes)] = t /\ Len(path.nodes) > 1)
      PROVE  \E e : LeadsOn(path, e) /\ StartsWith(es, Extend(path, e).edges)
  <2>1. k /= n
    <3> SUFFICES ASSUME k = n
                 PROVE  FALSE
      OBVIOUS
    <3>1. n \in 1 .. k
      BY <1>4
    <3>2. path.nodes[k + 1] = t /\ k + 1 > 1
      BY <1>1, <1>4, <1>6, <3>1
    <3> QED
      BY <1>2, <1>9, <3>2
  <2>2. k + 1 \in 1 .. n /\ k < n
    BY <1>2, <1>3, <1>4, <2>1
  <2> DEFINE e == es[k + 1]
  <2>3. e \in edges /\ e \in EdgeIds
    BY <1>1, <2>2
  <2>4. From[e] = path.nodes[k + 1]
    <3>1. CASE k = 0
      BY <1>1, <1>2, <3>1
    <3>2. CASE k /= 0
      <4>1. k \in 1 .. k /\ k \in 1 .. n - 1
        BY <1>2, <1>4, <2>2, <3>2
      <4> QED
        BY <1>1, <1>6, <4>1
    <3> QED
      BY <3>1, <3>2
  <2>5. ASSUME NEW i \in 1 .. k + 1
        PROVE  path.nodes[i] /= To[e]
    <3>1. CASE i = 1
      BY <1>1, <1>2, <2>2, <3>1
    <3>2. CASE i /= 1
      <4>1. i - 1 \in 1 .. k /\ (i - 1) + 1 = i /\ i - 1 /= k + 1
        BY <1>2, <3>2
      <4>2. i - 1 \in 1 .. n /\ path.nodes[i] = To[es[i - 1]]
        BY <1>6, <4>1
      <4> QED
        BY <1>1, <2>2, <4>1, <4>2
    <3> QED
      BY <3>1, <3>2
  <2>6. LeadsOn(path, e)
    BY <1>2, <2>3, <2>4, <2>5 DEF LeadsOn
  <2>7. StartsWith(es, Extend(path, e).edges)
    <3> DEFINE longer == Extend(path, e).edges
    <3>1. /\ Len(longer) = k + 1 /\ longer[k + 1] = e
          /\ \A i \in 1 .. k : longer[i] = path.edges[i]
      BY <1>5, <2>3, ExtendedPath
    <3> HIDE DEF longer
    <3>2. \A i \in 1 .. k + 1 : es[i] = longer[i]
      <4>1. \A i \in 1 .. k + 1 : i = k + 1 \/ i \in 1 .. k
        BY <1>2
      <4> QED
        BY <1>3, <3>1, <4>1
    <3>3. StartsWith(es, longer)
      BY <1>5, <2>2, <3>1, <3>2 DEF StartsWith
    <3> QED
      BY <3>3 DEF longer
  <2> QED
    BY <2>6, <2>7
<1> QED
  BY <1>7, <1>8, <1>9

-----------------------------------------------------------------------------
(* A dequeued path keeps the invariant of a path query.                    *)

LEMMA QueuedPaths ==
    ASSUME queue \in Seq(Paths)
    PROVE  \A i \in DOMAIN queue : /\ queue[i] \in Paths
                                   /\ queue[i].edges \in Seq(EdgeIds) /\ Len(queue[i].edges) \in Nat
                                   /\ queue[i].nodes \in Seq(Nodes)
<1>1. \A i \in DOMAIN queue : queue[i] \in Paths
  OBVIOUS
<1>2. \A p \in Paths : p.edges \in Seq(EdgeIds) /\ Len(p.edges) \in Nat /\ p.nodes \in Seq(Nodes)
  BY DEF Paths
<1> QED
  BY <1>1, <1>2

LEMMA PathIsRead ==
    ASSUME TypeOfQuery, PathsAreRead, DequeuesPath
    PROVE  PathsAreRead'
<1> DEFINE path == queue[1]
<1>1. /\ state = "running" /\ query.op = "paths" /\ queue /= <<>>
      /\ UNCHANGED <<edges, query, revisions>>
  BY DEF DequeuesPath
<1>2. /\ queue \in Seq(Paths) /\ query.depth \in Nat /\ path \in Paths /\ 1 \in DOMAIN queue
      /\ answer \in Seq(Found)
  BY <1>1, PathsTypes
<1>3. edges \subseteq ReadEdges /\ ReadEdges \subseteq EdgeIds /\ ReadEdges' = ReadEdges
  BY <1>1, GraphIsRead, ReadsStay
<1>4. Trail(path, ReadEdges, query.source)
  BY <1>2 DEF PathsAreRead
<1>5. ASSUME NEW i \in DOMAIN queue'
      PROVE  Trail(queue'[i], ReadEdges, query.source)
  <2>1. CASE ~ New(i) /\ queue'[i] = queue[i + 1]
    BY <2>1 DEF New, PathsAreRead
  <2>2. CASE \E e : LeadsOn(path, e) /\ queue'[i] = Extend(path, e)
    BY <1>2, <1>3, <1>4, <2>2, TrailExtends
  <2> QED
    BY <2>1, <2>2 DEF DequeuesPath
<1>6. ASSUME ~ TooLong(path), Arrived(path)
      PROVE  path.edges \in Simple(ReadEdges, query.source, query.target, query.depth)
  <2>1. /\ path.nodes[Len(path.nodes)] = query.target /\ Len(path.nodes) > 1
        /\ Len(path.nodes) <= query.depth + 1
    <3>1. Len(path.nodes) \in Nat
      BY <1>2 DEF Paths
    <3> QED
      BY <1>2, <1>6, <3>1 DEF TooLong, Arrived, Last
  <2> QED
    BY <1>2, <1>3, <1>4, <2>1, TrailArrives
<1>7. ASSUME NEW i \in DOMAIN answer'
      PROVE  answer'[i].path \in Simple(ReadEdges, query.source, query.target, query.depth)
  <2>1. \A j \in DOMAIN answer :
          answer[j].path \in Simple(ReadEdges, query.source, query.target, query.depth)
    BY DEF PathsAreRead
  <2>2. CASE answer' = answer
    BY <2>1, <2>2
  <2>3. CASE /\ ~ TooLong(path) /\ Arrived(path)
             /\ Len(answer') = Len(answer) + 1 /\ \A j \in DOMAIN answer : answer'[j] = answer[j]
             /\ answer'[Len(answer')].path = path.edges
    <3>1. i \in DOMAIN answer \/ i = Len(answer')
      <4>1. answer' \in Seq(Found)
        BY DEF DequeuesPath
      <4> QED
        BY <1>2, <2>3, <4>1
    <3> QED
      BY <1>6, <2>1, <2>3, <3>1
  <2> QED
    BY <2>2, <2>3 DEF DequeuesPath
<1> QED
  BY <1>1, <1>3, <1>5, <1>7 DEF PathsAreRead

LEMMA PathIsComplete ==
    ASSUME TypeOfQuery, PathsAreRead, PathsAreComplete, DequeuesPath, Quiet, Quiet'
    PROVE  PathsAreComplete'
<1> DEFINE path == queue[1]
<1>1. /\ state = "running" /\ query.op = "paths" /\ queue /= <<>>
      /\ UNCHANGED <<edges, query, revisions>>
  BY DEF DequeuesPath
<1>2. /\ queue \in Seq(Paths) /\ query.depth \in Nat /\ path \in Paths /\ 1 \in DOMAIN queue
      /\ answer \in Seq(Found) /\ answer' \in Seq(Found)
  BY <1>1, PathsTypes DEF DequeuesPath
<1>3. edges = ReadEdges /\ edges \subseteq EdgeIds
  BY <1>1, GraphIsRead
<1>4. Trail(path, edges, query.source)
  BY <1>2, <1>3 DEF PathsAreRead
<1> SUFFICES ASSUME NEW es \in Simple(edges, query.source, query.target, query.depth)
             PROVE  \/ \E i \in DOMAIN answer' : answer'[i].path = es
                    \/ \E i \in DOMAIN queue' : StartsWith(es, queue'[i].edges)
  BY <1>1 DEF PathsAreComplete
<1>5. \A i \in DOMAIN answer : i \in DOMAIN answer' /\ answer'[i] = answer[i]
  <2>1. CASE answer' = answer
    BY <2>1
  <2>2. CASE Len(answer') = Len(answer) + 1 /\ \A j \in DOMAIN answer : answer'[j] = answer[j]
    BY <1>2, <2>2
  <2> QED
    BY <2>1, <2>2 DEF DequeuesPath
<1>6. CASE \E i \in DOMAIN answer : answer[i].path = es
  BY <1>5, <1>6
<1>7. CASE \E i \in DOMAIN queue : i /= 1 /\ StartsWith(es, queue[i].edges)
  <2>1. PICK i \in DOMAIN queue : i /= 1 /\ StartsWith(es, queue[i].edges)
    BY <1>7
  <2>2. i > 1
    BY <1>2, <2>1
  <2> QED
    BY <2>1, <2>2 DEF DequeuesPath
<1>8. CASE StartsWith(es, path.edges)
  <2>1. /\ Len(path.nodes) <= query.depth + 1
        /\ path.nodes[Len(path.nodes)] = query.target /\ Len(path.nodes) > 1 => path.edges = es
        /\ ~ (path.nodes[Len(path.nodes)] = query.target /\ Len(path.nodes) > 1) =>
              \E e : LeadsOn(path, e) /\ StartsWith(es, Extend(path, e).edges)
    BY <1>2, <1>3, <1>4, <1>8, TrailStarts
  <2>2. ~ TooLong(path)
    <3>1. Len(path.nodes) \in Nat
      BY <1>2 DEF Paths
    <3> QED
      BY <1>2, <2>1, <3>1 DEF TooLong
  <2>3. CASE Arrived(path)
    <3>1. path.edges = es
      BY <2>1, <2>3 DEF Arrived, Last
    <3>2. Len(answer') = Len(answer) + 1 /\ answer'[Len(answer')].path = path.edges
      BY <2>2, <2>3 DEF DequeuesPath
    <3>3. Len(answer') \in DOMAIN answer'
      BY <1>2, <3>2
    <3> QED
      BY <3>1, <3>2, <3>3
  <2>4. CASE ~ Arrived(path)
    <3>1. PICK e : LeadsOn(path, e) /\ StartsWith(es, Extend(path, e).edges)
      BY <2>1, <2>4 DEF Arrived, Last
    <3>2. \E i \in DOMAIN queue' : queue'[i] = Extend(path, e)
      BY <2>2, <2>4, <3>1 DEF DequeuesPath
    <3> QED
      BY <3>1, <3>2
  <2> QED
    BY <2>3, <2>4
<1> QED
  BY <1>6, <1>7, <1>8 DEF PathsAreComplete

LEMMA StartsAreOrdered ==
    ASSUME NEW a \in Seq(EdgeIds), NEW b \in Seq(EdgeIds), NEW c \in Seq(EdgeIds)
    PROVE  /\ StartsWith(a, a)
           /\ StartsWith(a, b) /\ StartsWith(b, c) => StartsWith(a, c)
           /\ StartsWith(a, b) /\ StartsWith(a, c) /\ Len(c) <= Len(b) => StartsWith(b, c)
<1>1. Len(a) \in Nat /\ Len(b) \in Nat /\ Len(c) \in Nat
  OBVIOUS
<1>2. \A m, n \in Nat : m <= n => \A i \in 1 .. m : i \in 1 .. n
  OBVIOUS
<1>3. StartsWith(a, a)
  BY <1>1 DEF StartsWith
<1>4. StartsWith(a, b) /\ StartsWith(b, c) => StartsWith(a, c)
  BY <1>1, <1>2 DEF StartsWith
<1>5. StartsWith(a, b) /\ StartsWith(a, c) /\ Len(c) <= Len(b) => StartsWith(b, c)
  BY <1>1, <1>2 DEF StartsWith
<1> QED
  BY <1>3, <1>4, <1>5

\* The paths of the next queue: those that moved up do not start like the one
\* that was dequeued, and those that joined are one edge longer than it.
LEMMA DequeuedPlaces ==
    ASSUME TypeOfQuery, PathsByLength, DequeuesPath
    PROVE  \A i \in DOMAIN queue' :
              /\ queue'[i].edges \in Seq(EdgeIds)
              /\ Len(queue'[i].edges) \in {Len(queue[1].edges), Len(queue[1].edges) + 1}
              /\ New(i) => /\ Len(queue'[i].edges) = Len(queue[1].edges) + 1
                           /\ StartsWith(queue'[i].edges, queue[1].edges)
                           /\ queue'[i] = Extend(queue[1], queue'[i].edges[Len(queue[1].edges) + 1])
              /\ ~ New(i) => /\ i + 1 \in DOMAIN queue /\ queue'[i] = queue[i + 1]
                             /\ ~ StartsWith(queue'[i].edges, queue[1].edges)
<1> DEFINE path == queue[1]
           k == Len(path.edges)
<1>1. /\ query.op = "paths" /\ queue /= <<>> /\ queue \in Seq(Paths)
      /\ 1 \in DOMAIN queue /\ edges \subseteq EdgeIds
  <2>1. query.op = "paths" /\ queue /= <<>>
    BY DEF DequeuesPath
  <2>2. queue \in Seq(Paths) /\ edges \subseteq EdgeIds
    BY <2>1, PathsTypes
  <2> QED
    BY <2>1, <2>2
<1>2. path \in Paths /\ path.edges \in Seq(EdgeIds) /\ k \in Nat
  BY <1>1, QueuedPaths
<1> SUFFICES ASSUME NEW i \in DOMAIN queue'
             PROVE  /\ queue'[i].edges \in Seq(EdgeIds)
                    /\ Len(queue'[i].edges) \in {k, k + 1}
                    /\ New(i) => /\ Len(queue'[i].edges) = k + 1
                                 /\ StartsWith(queue'[i].edges, path.edges)
                                 /\ queue'[i] = Extend(path, queue'[i].edges[k + 1])
                    /\ ~ New(i) => /\ i + 1 \in DOMAIN queue /\ queue'[i] = queue[i + 1]
                                   /\ ~ StartsWith(queue'[i].edges, path.edges)
  OBVIOUS
<1>3. CASE ~ New(i) /\ queue'[i] = queue[i + 1]
  <2>1. i + 1 \in DOMAIN queue /\ i \in Nat /\ i >= 1
    <3>1. queue' \in Seq(Paths)
      BY DEF DequeuesPath
    <3> QED
      BY <1>3, <3>1 DEF New
  <2>2. i + 1 /= 1 /\ 1 < i + 1
    BY <2>1
  <2>3. /\ k <= Len(queue[i + 1].edges) /\ Len(queue[i + 1].edges) <= k + 1
        /\ ~ StartsWith(queue[i + 1].edges, path.edges)
    BY <1>1, <2>1, <2>2 DEF PathsByLength
  <2>4. queue[i + 1].edges \in Seq(EdgeIds) /\ Len(queue[i + 1].edges) \in Nat
    BY <1>1, <2>1, QueuedPaths
  <2> HIDE DEF k
  <2>5. Len(queue[i + 1].edges) \in {k, k + 1}
    BY <1>2, <2>3, <2>4
  <2> QED
    BY <1>3, <2>1, <2>3, <2>4, <2>5
<1>4. CASE New(i) /\ \E e : LeadsOn(path, e) /\ queue'[i] = Extend(path, e)
  <2>1. PICK e : LeadsOn(path, e) /\ queue'[i] = Extend(path, e)
    BY <1>4
  <2>2. e \in EdgeIds
    BY <1>1, <2>1 DEF LeadsOn
  <2>3. /\ Extend(path, e) \in Paths /\ Len(Extend(path, e).edges) = k + 1
        /\ \A j \in 1 .. k : Extend(path, e).edges[j] = path.edges[j]
        /\ Extend(path, e).edges[k + 1] = e
    BY <1>2, <2>2, ExtendedPath
  <2>4. Extend(path, e).edges \in Seq(EdgeIds)
    BY <2>3 DEF Paths
  <2>5. StartsWith(Extend(path, e).edges, path.edges)
    BY <1>2, <2>3 DEF StartsWith
  <2> QED
    BY <1>4, <2>1, <2>3, <2>4, <2>5
<1> QED
  BY <1>3, <1>4 DEF DequeuesPath

LEMMA PathByLength ==
    ASSUME TypeOfQuery, PathsAreRead, PathsByLength, DequeuesPath
    PROVE  PathsByLength'
<1> DEFINE path == queue[1]
           k == Len(path.edges)
<1>1. /\ state = "running" /\ query.op = "paths" /\ queue /= <<>> /\ queue' \in Seq(Paths)
      /\ answer' \in Seq(Found)
  BY DEF DequeuesPath
<1>2. queue \in Seq(Paths) /\ 1 \in DOMAIN queue /\ answer \in Seq(Found)
  BY <1>1, PathsTypes
<1>3. path \in Paths /\ path.edges \in Seq(EdgeIds) /\ k \in Nat
  BY <1>2, QueuedPaths
<1>4. \A i \in DOMAIN queue' :
          /\ queue'[i].edges \in Seq(EdgeIds) /\ Len(queue'[i].edges) \in {k, k + 1}
          /\ New(i) => /\ Len(queue'[i].edges) = k + 1
                       /\ StartsWith(queue'[i].edges, path.edges)
                       /\ queue'[i] = Extend(path, queue'[i].edges[k + 1])
          /\ ~ New(i) => /\ i + 1 \in DOMAIN queue /\ queue'[i] = queue[i + 1]
                         /\ ~ StartsWith(queue'[i].edges, path.edges)
  BY DequeuedPlaces
<1>5. \A i \in DOMAIN answer :
          /\ Len(answer[i].path) \in Nat /\ Len(answer[i].path) <= k
          /\ answer[i].path /= path.edges
          /\ \A j \in DOMAIN answer : i < j => /\ answer[i].path /= answer[j].path
                                               /\ Len(answer[i].path) <= Len(answer[j].path)
  <2>1. \A i \in DOMAIN answer :
          answer[i].path \in Simple(ReadEdges, query.source, query.target, query.depth)
    BY DEF PathsAreRead
  <2>2. ReadEdges \in SUBSET EdgeIds /\ query.depth \in Nat
    BY <1>1, GraphIsRead, PathsTypes
  <2>3. \A i \in DOMAIN answer : Len(answer[i].path) \in Nat
    <3>1. \A es \in Simple(ReadEdges, query.source, query.target, query.depth) : es \in Seq(EdgeIds)
      BY <2>2, SimpleEdges
    <3> QED
      BY <2>1, <3>1
  <2> QED
    BY <1>1, <1>2, <2>3 DEF PathsByLength
<1>6. \A i, j \in DOMAIN queue' : i < j /\ ~ New(j) => ~ New(i)
  <2>1. DOMAIN queue = 1 .. Len(queue) /\ DOMAIN queue' = 1 .. Len(queue') /\ Len(queue) \in Nat /\ Len(queue') \in Nat
    BY <1>1, <1>2
  <2> QED
    BY <2>1 DEF New
<1>7. \A i \in DOMAIN queue' : Len(queue'[i].edges) <= Len(queue'[1].edges) + 1
  <2> SUFFICES ASSUME NEW i \in DOMAIN queue'
               PROVE  Len(queue'[i].edges) <= Len(queue'[1].edges) + 1
    OBVIOUS
  <2>1. 1 \in DOMAIN queue'
    BY <1>1
  <2> HIDE DEF k
  <2>2. Len(queue'[1].edges) \in {k, k + 1} /\ Len(queue'[i].edges) \in {k, k + 1}
    BY <1>4, <2>1
  <2> QED
    BY <1>3, <2>2
<1>8. ASSUME NEW i \in DOMAIN queue', NEW j \in DOMAIN queue', i < j
      PROVE  Len(queue'[i].edges) <= Len(queue'[j].edges)
  <2>1. CASE New(j)
    <3> HIDE DEF k
    <3>1. Len(queue'[j].edges) = k + 1 /\ Len(queue'[i].edges) \in {k, k + 1}
      BY <1>4, <2>1
    <3> QED
      BY <1>3, <3>1
  <2>2. CASE ~ New(j)
    <3>1. ~ New(i)
      BY <1>6, <1>8, <2>2
    <3>2. /\ i + 1 \in DOMAIN queue /\ queue'[i] = queue[i + 1]
          /\ j + 1 \in DOMAIN queue /\ queue'[j] = queue[j + 1]
      BY <1>4, <2>2, <3>1
    <3>3. i + 1 < j + 1
      BY <1>1, <1>8
    <3> QED
      BY <3>2, <3>3 DEF PathsByLength
  <2> QED
    BY <2>1, <2>2
<1>9. ASSUME NEW i \in DOMAIN queue', NEW j \in DOMAIN queue', i /= j
      PROVE  ~ StartsWith(queue'[j].edges, queue'[i].edges)
  <2> DEFINE a == queue'[j].edges
             b == queue'[i].edges
  <2> SUFFICES ASSUME StartsWith(a, b)
               PROVE  FALSE
    OBVIOUS
  <2>1. /\ a \in Seq(EdgeIds) /\ b \in Seq(EdgeIds) /\ Len(a) \in {k, k + 1} /\ Len(b) \in {k, k + 1}
        /\ New(j) => Len(a) = k + 1 /\ StartsWith(a, path.edges)
        /\ New(i) => Len(b) = k + 1 /\ StartsWith(b, path.edges)
        /\ ~ New(j) => ~ StartsWith(a, path.edges)
        /\ ~ New(i) => ~ StartsWith(b, path.edges)
    BY <1>4
  <2>2. k <= Len(b)
    <3> HIDE DEF k, a, b
    <3> QED
      BY <1>3, <2>1
  <2>3. StartsWith(a, path.edges) <=> StartsWith(b, path.edges)
    <3> HIDE DEF a, b
    <3> QED
      BY <1>3, <2>1, <2>2, StartsAreOrdered
  <2>4. CASE ~ New(i) /\ ~ New(j)
    <3>1. /\ i + 1 \in DOMAIN queue /\ queue'[i] = queue[i + 1]
          /\ j + 1 \in DOMAIN queue /\ queue'[j] = queue[j + 1]
      BY <1>4, <2>4
    <3>2. i + 1 /= j + 1
      BY <1>1, <1>9
    <3> QED
      BY <3>1, <3>2 DEF PathsByLength
  <2>5. CASE New(i) /\ New(j)
    <3>1. /\ queue'[i] = Extend(path, b[k + 1]) /\ queue'[j] = Extend(path, a[k + 1])
          /\ Len(b) = k + 1
      BY <1>4, <2>5
    <3>2. k + 1 \in 1 .. Len(b)
      <4> HIDE DEF k, b
      <4> QED
        BY <1>3, <3>1
    <3>3. a[k + 1] = b[k + 1]
      BY <3>2 DEF StartsWith
    <3>4. queue'[i] = queue'[j]
      BY <3>1, <3>3
    <3> QED
      BY <1>9, <2>5, <3>4 DEF DequeuesPath
  <2>6. CASE (New(i) /\ ~ New(j)) \/ (~ New(i) /\ New(j))
    BY <2>1, <2>3, <2>6
  <2> QED
    BY <2>4, <2>5, <2>6
<1>10. \/ answer' = answer
       \/ /\ \A j \in DOMAIN queue' : ~ New(j)
          /\ Len(answer') = Len(answer) + 1 /\ \A j \in DOMAIN answer : answer'[j] = answer[j]
          /\ answer'[Len(answer')].path = path.edges
  <2>1. CASE Arrived(path)
    BY <2>1 DEF DequeuesPath
  <2>2. CASE ~ Arrived(path)
    BY <2>2 DEF DequeuesPath
  <2> QED
    BY <2>1, <2>2
<1>11. \A i \in DOMAIN answer' :
          \/ i \in DOMAIN answer /\ answer'[i] = answer[i]
          \/ /\ i = Len(answer) + 1 /\ answer'[i].path = path.edges
             /\ \A j \in DOMAIN queue' : ~ New(j)
  <2>1. CASE answer' = answer
    BY <2>1
  <2>2. CASE /\ \A j \in DOMAIN queue' : ~ New(j)
             /\ Len(answer') = Len(answer) + 1 /\ \A j \in DOMAIN answer : answer'[j] = answer[j]
             /\ answer'[Len(answer')].path = path.edges
    <3>1. \A i \in DOMAIN answer' : i \in DOMAIN answer \/ i = Len(answer')
      BY <1>1, <1>2, <2>2
    <3> QED
      BY <2>2, <3>1
  <2> QED
    BY <1>10, <2>1, <2>2
<1>12. ASSUME NEW i \in DOMAIN answer', queue' /= <<>>
       PROVE  Len(answer'[i].path) <= Len(queue'[1].edges)
  <2>1. 1 \in DOMAIN queue'
    BY <1>1, <1>12
  <2>2. Len(answer'[i].path) \in Nat /\ Len(answer'[i].path) <= k
    <3>1. CASE i \in DOMAIN answer /\ answer'[i] = answer[i]
      BY <1>5, <3>1
    <3>2. CASE answer'[i].path = path.edges
      BY <1>3, <3>2
    <3> QED
      BY <1>11, <3>1, <3>2
  <2>3. Len(queue'[1].edges) \in {k, k + 1}
    BY <1>4, <2>1
  <2> HIDE DEF k
  <2> QED
    BY <1>3, <2>2, <2>3
<1>13. ASSUME NEW i \in DOMAIN answer', NEW j \in DOMAIN queue'
       PROVE  answer'[i].path /= queue'[j].edges
  <2>1. CASE i \in DOMAIN answer /\ answer'[i] = answer[i]
    <3>1. CASE New(j)
      <4>1. Len(queue'[j].edges) = k + 1
        BY <1>4, <3>1
      <4>2. Len(answer[i].path) \in Nat /\ Len(answer[i].path) <= k
        BY <1>5, <2>1
      <4> HIDE DEF k
      <4> QED
        BY <1>3, <2>1, <4>1, <4>2
    <3>2. CASE ~ New(j)
      BY <1>4, <2>1, <3>2 DEF PathsByLength
    <3> QED
      BY <3>1, <3>2
  <2>2. CASE answer'[i].path = path.edges /\ ~ New(j)
    <3>1. ~ StartsWith(queue'[j].edges, path.edges)
      BY <1>4, <2>2
    <3>2. StartsWith(path.edges, path.edges)
      BY <1>3, StartsAreOrdered
    <3> QED
      BY <2>2, <3>1, <3>2
  <2> QED
    BY <1>11, <2>1, <2>2
<1>14. ASSUME NEW i \in DOMAIN answer', NEW j \in DOMAIN answer', i < j
       PROVE  /\ answer'[i].path /= answer'[j].path
              /\ Len(answer'[i].path) <= Len(answer'[j].path)
  <2>1. i \in DOMAIN answer /\ answer'[i] = answer[i]
    <3>1. CASE i = Len(answer) + 1
      <4>1. j \in DOMAIN answer \/ j = Len(answer) + 1
        BY <1>11
      <4> QED
        BY <1>2, <1>14, <3>1, <4>1
    <3> QED
      BY <1>11, <3>1
  <2>2. CASE j \in DOMAIN answer /\ answer'[j] = answer[j]
    BY <1>5, <1>14, <2>1, <2>2
  <2>3. CASE answer'[j].path = path.edges
    BY <1>5, <2>1, <2>3
  <2> QED
    BY <1>11, <2>2, <2>3
<1> QED
  BY <1>7, <1>8, <1>9, <1>12, <1>13, <1>14 DEF PathsByLength

-----------------------------------------------------------------------------
(* The traces of the paths.                                                *)

NodesDiffer(es) == \A i, j \in 1 .. Len(es) + 1 : NodesOf(es)[i] = NodesOf(es)[j] => i = j

\* The edges of a path lead over its nodes.
LEMMA TrailNodes ==
    ASSUME NEW path \in Paths, NEW G \in SUBSET EdgeIds, NEW s, Trail(path, G, s), Len(path.nodes) > 1
    PROVE  /\ path.edges \in Seq(EdgeIds) /\ path.edges /= <<>>
           /\ Len(path.nodes) = Len(path.edges) + 1
           /\ \A i \in 1 .. Len(path.nodes) : NodesOf(path.edges)[i] = path.nodes[i]
           /\ NodesDiffer(path.edges)
<1> DEFINE es == path.edges
           k == Len(es)
<1>1. /\ es \in Seq(EdgeIds) /\ k \in Nat /\ Len(path.nodes) = k + 1
      /\ \A i \in 1 .. k : /\ From[es[i]] = path.nodes[i]
                           /\ To[es[i]] = path.nodes[i + 1]
      /\ \A i, j \in 1 .. k + 1 : path.nodes[i] = path.nodes[j] => i = j
  BY DEF Trail, Paths
<1>2. es /= <<>> /\ k >= 1
  BY <1>1
<1>3. NodesOf(es)[1] = From[es[1]] /\ \A i \in 1 .. k : NodesOf(es)[i + 1] = To[es[i]]
  BY <1>1, <1>2, NodesAlong
<1> HIDE DEF es, k
<1>4. ASSUME NEW i \in 1 .. k + 1
      PROVE  NodesOf(es)[i] = path.nodes[i]
  <2>1. CASE i = 1
    <3>1. 1 \in 1 .. k
      BY <1>1, <1>2
    <3> QED
      BY <1>1, <1>3, <2>1, <3>1
  <2>2. CASE i /= 1
    <3>1. i - 1 \in 1 .. k /\ (i - 1) + 1 = i
      BY <1>1, <2>2
    <3>2. NodesOf(es)[(i - 1) + 1] = path.nodes[(i - 1) + 1]
      BY <1>1, <1>3, <3>1
    <3> QED
      BY <3>1, <3>2
  <2> QED
    BY <2>1, <2>2
<1>5. NodesDiffer(es)
  BY <1>1, <1>4 DEF NodesDiffer, k
<1> QED
  BY <1>1, <1>2, <1>4, <1>5 DEF es, k

\* One more segment, of a place behind the others.
LEMMA SegmentJoins ==
    ASSUME NEW es \in Seq(EdgeIds), NodesDiffer(es), NEW m \in 1 .. Len(es) + 1,
           NEW trace \in Seq(Shown), NEW places \in SUBSET (1 .. m - 1), AreSegments(trace, es, places)
    PROVE  AreSegments(Append(trace, Segment(es, m)), es, places \cup {m})
<1> DEFINE longer == Append(trace, Segment(es, m))
           n == Len(trace)
<1>1. /\ n \in Nat /\ Len(longer) = n + 1 /\ longer[n + 1] = Segment(es, m)
      /\ \A k \in 1 .. n : longer[k] = trace[k]
  OBVIOUS
<1>2. /\ Len(es) \in Nat /\ \A i \in places : i \in 1 .. Len(es) + 1 /\ i < m
      /\ \A i \in places \cup {m} : i \in 1 .. Len(es) + 1 /\ i \in Nat
  OBVIOUS
<1>3. \A i, j \in 1 .. Len(es) + 1 : Segment(es, i) = Segment(es, j) => i = j
  BY DEF Segment, NodesDiffer
<1>4. /\ {trace[k] : k \in 1 .. n} = {Segment(es, i) : i \in places}
      /\ \A k, l \in 1 .. n : \A i, j \in places :
            trace[k] = Segment(es, i) /\ trace[l] = Segment(es, j) => (k < l <=> i < j)
  BY DEF AreSegments
<1> HIDE DEF longer, n
<1>5. \A k \in 1 .. n + 1 : k \in 1 .. n \/ k = n + 1
  BY <1>1
<1>6. {longer[k] : k \in 1 .. n + 1} = {Segment(es, i) : i \in places \cup {m}}
  <2>1. {longer[k] : k \in 1 .. n + 1} = {longer[k] : k \in 1 .. n} \cup {longer[n + 1]}
    BY <1>1
  <2>2. {longer[k] : k \in 1 .. n} = {trace[k] : k \in 1 .. n}
    BY <1>1
  <2> QED
    BY <1>1, <1>4, <2>1, <2>2
\* Which place a segment is of.
<1>7. ASSUME NEW k \in 1 .. n + 1, NEW i \in places \cup {m}, longer[k] = Segment(es, i)
      PROVE  \/ k \in 1 .. n /\ trace[k] = Segment(es, i) /\ i \in places
             \/ k = n + 1 /\ i = m
  <2>1. CASE k \in 1 .. n
    <3> DEFINE met == {trace[l] : l \in 1 .. n}
    <3>a. trace[k] \in met /\ met = {Segment(es, j) : j \in places}
      BY <1>4, <2>1
    <3> HIDE DEF met
    <3>1. trace[k] = Segment(es, i) /\ \E j \in places : trace[k] = Segment(es, j)
      BY <1>1, <1>7, <2>1, <3>a
    <3>2. i \in places
      BY <1>2, <1>3, <3>1
    <3> QED
      BY <2>1, <3>1, <3>2
  <2>2. CASE k = n + 1
    <3>1. i = m
      BY <1>1, <1>2, <1>3, <1>7, <2>2
    <3> QED
      BY <2>2, <3>1
  <2> QED
    BY <1>5, <2>1, <2>2
<1>8. ASSUME NEW k \in 1 .. n + 1, NEW l \in 1 .. n + 1, NEW i \in places \cup {m}, NEW j \in places \cup {m},
             longer[k] = Segment(es, i), longer[l] = Segment(es, j)
      PROVE  k < l <=> i < j
  <2>1. /\ \/ k \in 1 .. n /\ trace[k] = Segment(es, i) /\ i \in places
           \/ k = n + 1 /\ i = m
        /\ \/ l \in 1 .. n /\ trace[l] = Segment(es, j) /\ j \in places
           \/ l = n + 1 /\ j = m
    BY <1>7, <1>8
  <2>2. CASE k \in 1 .. n /\ i \in places /\ l \in 1 .. n /\ j \in places
    <3>1. trace[k] = Segment(es, i) /\ trace[l] = Segment(es, j)
      BY <1>1, <1>8, <2>2
    <3> QED
      BY <1>4, <2>2, <3>1
  <2>3. CASE ~ (k \in 1 .. n /\ i \in places /\ l \in 1 .. n /\ j \in places)
    <3>1. k \in Nat /\ l \in Nat /\ k <= n + 1 /\ l <= n + 1 /\ i \in Nat /\ j \in Nat /\ m \in Nat /\ n \in Nat
      BY <1>1, <1>2
    <3>2. (k \in 1 .. n => k <= n) /\ (l \in 1 .. n => l <= n) /\ (i \in places => i < m) /\ (j \in places => j < m)
      BY <1>1, <1>2
    <3>3. \/ k = n + 1 /\ i = m /\ l <= n /\ j < m
          \/ k = n + 1 /\ i = m /\ l = n + 1 /\ j = m
          \/ k <= n /\ i < m /\ l = n + 1 /\ j = m
      BY <2>1, <2>3, <3>2
    <3> QED
      BY <3>1, <3>3
  <2> QED
    BY <2>2, <2>3
<1> QED
  BY <1>1, <1>6, <1>8 DEF AreSegments, longer

\* The row of the next node is found or is not.
LEMMA TraceGrows ==
    ASSUME NEW es \in Seq(EdgeIds), NodesDiffer(es), NEW m \in 1 .. Len(es) + 1,
           NEW trace \in Seq(Shown), NEW present,
           AreSegments(trace, es, {k \in 1 .. m - 1 : NodesOf(es)[k] \in present})
    PROVE  /\ AreSegments(Append(trace, Segment(es, m)), es,
                          {k \in 1 .. m : NodesOf(es)[k] \in present \cup {NodesOf(es)[m]}})
           /\ AreSegments(trace, es, {k \in 1 .. m : NodesOf(es)[k] \in present \ {NodesOf(es)[m]}})
<1> DEFINE N == NodesOf(es)
           places == {k \in 1 .. m - 1 : N[k] \in present}
<1>1. Len(es) \in Nat /\ \A k \in 1 .. m - 1 : k \in 1 .. m /\ k /= m /\ k \in 1 .. Len(es) + 1
  OBVIOUS
<1>2. \A k \in 1 .. m : k \in 1 .. m - 1 \/ k = m
  OBVIOUS
<1>3. \A k \in 1 .. m - 1 : N[k] /= N[m]
  BY <1>1 DEF NodesDiffer
<1>4. m \in 1 .. m
  OBVIOUS
<1> HIDE DEF N
<1>5. {k \in 1 .. m : N[k] \in present \cup {N[m]}} = places \cup {m}
  BY <1>1, <1>2, <1>3, <1>4
<1>6. {k \in 1 .. m : N[k] \in present \ {N[m]}} = places
  BY <1>1, <1>2, <1>3
<1>7. places \in SUBSET (1 .. m - 1) /\ AreSegments(trace, es, places)
  BY DEF N
<1> HIDE DEF places
<1>8. AreSegments(Append(trace, Segment(es, m)), es, places \cup {m})
  BY <1>7, SegmentJoins
<1> QED
  BY <1>5, <1>6, <1>7, <1>8 DEF N

\* What reads may have found stays among it.
LEMMA PresentStays ==
    ASSUME TypeOfQuery, state /= "idle", ReadNodes \subseteq ReadNodes', Quiet' => Quiet /\ rows' = rows
    PROVE  /\ rows \in Present /\ Present \subseteq Present'
           /\ \A trace, es, m : IsTrace(trace, es, m, Present) => IsTrace(trace, es, m, Present')
<1>1. rows \subseteq ReadNodes
  BY GraphIsRead
<1>2. rows \in Present /\ Present \subseteq Present'
  BY <1>1 DEF Present
<1> QED
  BY <1>2 DEF IsTrace

\* The effect of a row that was read or could not be.
ReadsSegment(shown) ==
    /\ state = "running" /\ query.op = "paths" /\ place > 0
    /\ Traced(shown)
    /\ IF shown THEN queue[1].nodes[place] \in rows ELSE queue[1].nodes[place] \notin rows \/ ~ Quiet'
    /\ UNCHANGED <<rows, edges, query, batch, visited, state, revisions>>
    /\ failures' \in Nat /\ (Quiet' => Quiet)

LEMMA ReadSegmentDoes ==
    ASSUME TypeOfQuery, queue /= <<>>, ReadSegment \/ SegmentFails
    PROVE  \E shown \in BOOLEAN : ReadsSegment(shown)
<1>1. /\ state = "running" /\ place > 0 /\ query.op = "paths"
      /\ UNCHANGED <<rows, edges, query, batch, visited, state, revisions>>
  BY DEF ReadSegment, SegmentFails, TypeOfQuery
<1>2. queue \in Seq(Paths) /\ failures \in Nat
  BY <1>1, PathsTypes
<1>3. Head(queue) = queue[1]
  BY <1>2
<1>4. CASE ReadSegment
  <2> DEFINE shown == queue[1].nodes[place] \in rows
  <2>1. Traced(shown) /\ failures' = failures
    BY <1>3, <1>4 DEF ReadSegment
  <2>2. failures' \in Nat /\ (Quiet' => Quiet)
    BY <1>1, <1>2, <2>1, ReadsStay
  <2>3. shown \in BOOLEAN
    OBVIOUS
  <2>4. ReadsSegment(shown)
    BY <1>1, <2>1, <2>2 DEF ReadsSegment
  <2> QED
    BY <2>3, <2>4
<1>5. CASE SegmentFails
  <2>1. Traced(FALSE) /\ failures' = failures + 1
    BY <1>5 DEF SegmentFails, Fails
  <2>2. failures' \in Nat /\ ~ Quiet'
    BY <1>1, <1>2, <2>1, ReadsStay
  <2>3. ReadsSegment(FALSE)
    BY <1>1, <2>1, <2>2 DEF ReadsSegment
  <2> QED
    BY <2>3
<1> QED
  BY <1>4, <1>5

More(shown) == IF shown THEN Append(segments, Segment(queue[1].edges, place)) ELSE segments

LEMMA TracedMore ==
    ASSUME TypeOfQuery, PathsAreRead, PathsAreTraced, NEW shown \in BOOLEAN, ReadsSegment(shown)
    PROVE  /\ queue \in Seq(Paths) /\ queue /= <<>> /\ answer \in Seq(Found) /\ segments \in Seq(Shown)
           /\ place \in 1 .. Len(queue[1].nodes) /\ ~ TooLong(queue[1]) /\ Arrived(queue[1])
           /\ queue[1].edges \in Seq(EdgeIds) /\ Len(queue[1].nodes) = Len(queue[1].edges) + 1
           /\ Len(queue[1].edges) \in Nat
           /\ More(shown) \in Seq(Shown)
           /\ IsTrace(More(shown), queue[1].edges, place, Present')
<1> DEFINE path == queue[1]
           es == queue[1].edges
           n == path.nodes[place]
<1>1. /\ state = "running" /\ query.op = "paths" /\ place > 0 /\ place \in Nat /\ segments \in Seq(Shown)
      /\ UNCHANGED <<rows, edges, query, revisions>> /\ (Quiet' => Quiet)
      /\ IF shown THEN n \in rows ELSE n \notin rows \/ ~ Quiet'
  BY DEF ReadsSegment, TypeOfQuery
<1>2. queue \in Seq(Paths) /\ answer \in Seq(Found)
  BY <1>1, PathsTypes
<1>3. /\ queue /= <<>> /\ ~ TooLong(path) /\ Arrived(path) /\ place <= Len(path.nodes)
      /\ IsTrace(segments, es, place - 1, Present)
  BY <1>1 DEF PathsAreTraced
<1>4. path \in Paths /\ 1 \in DOMAIN queue /\ Len(path.nodes) > 1 /\ Len(path.nodes) \in Nat
  <2>1. queue[1] \in Paths /\ 1 \in DOMAIN queue
    BY <1>2, <1>3
  <2>2. Len(queue[1].nodes) > 1
    BY <1>3 DEF Arrived
  <2> QED
    BY <2>1, <2>2 DEF Paths
<1>5. /\ ReadEdges \in SUBSET EdgeIds /\ ReadNodes' = ReadNodes /\ rows \subseteq ReadNodes
      /\ Quiet => ReadNodes = rows
  BY <1>1, GraphIsRead, ReadsStay
<1>6. Trail(path, ReadEdges, query.source)
  BY <1>4 DEF PathsAreRead
<1>7. /\ es \in Seq(EdgeIds) /\ es /= <<>> /\ Len(path.nodes) = Len(es) + 1
      /\ \A i \in 1 .. Len(path.nodes) : NodesOf(es)[i] = path.nodes[i]
      /\ NodesDiffer(es)
  BY <1>4, <1>5, <1>6, TrailNodes
<1>8. place \in 1 .. Len(path.nodes) /\ place \in 1 .. Len(es) + 1 /\ Len(es) \in Nat
  BY <1>1, <1>3, <1>4, <1>7
<1>9. NodesOf(es)[place] = n
  BY <1>7, <1>8
<1> HIDE DEF n
<1>10. Segment(es, place) \in Shown
  <2>1. NodesOf(es) \in Seq(Nodes) /\ Len(NodesOf(es)) = Len(es) + 1
    BY <1>7, NodesAlong
  <2>2. NodesOf(es)[place] \in Nodes
    BY <1>8, <2>1
  <2>3. place <= Len(es) => es[place] \in EdgeIds
    BY <1>7, <1>8
  <2> QED
    BY <2>2, <2>3 DEF Segment, Shown
<1>11. More(shown) \in Seq(Shown)
  BY <1>1, <1>10 DEF More
<1>12. PICK present \in Present : AreSegments(segments, es, {k \in 1 .. place - 1 : NodesOf(es)[k] \in present})
  BY <1>3 DEF IsTrace
<1>13. /\ AreSegments(Append(segments, Segment(es, place)), es,
                      {k \in 1 .. place : NodesOf(es)[k] \in present \cup {n}})
       /\ AreSegments(segments, es, {k \in 1 .. place : NodesOf(es)[k] \in present \ {n}})
  <2> DEFINE m == place
             trace == segments
  <2>1. /\ es \in Seq(EdgeIds) /\ NodesDiffer(es) /\ m \in 1 .. Len(es) + 1 /\ trace \in Seq(Shown)
        /\ AreSegments(trace, es, {k \in 1 .. m - 1 : NodesOf(es)[k] \in present})
        /\ NodesOf(es)[m] = n
    BY <1>1, <1>7, <1>8, <1>9, <1>12
  <2> HIDE DEF m, trace, es
  <2>2. /\ AreSegments(Append(trace, Segment(es, m)), es,
                       {k \in 1 .. m : NodesOf(es)[k] \in present \cup {NodesOf(es)[m]}})
        /\ AreSegments(trace, es, {k \in 1 .. m : NodesOf(es)[k] \in present \ {NodesOf(es)[m]}})
    BY <2>1, TraceGrows
  <2>3. NodesOf(es)[m] = n
    BY <2>1
  <2> QED
    BY <2>2, <2>3 DEF m, trace, es
<1>14. Present' = IF Quiet' THEN {rows} ELSE SUBSET ReadNodes
  BY <1>1, <1>5 DEF Present
<1>15. present \in SUBSET ReadNodes /\ (Quiet => present = rows)
  BY <1>5, <1>12 DEF Present
<1>16. CASE shown
  <2>1. present \cup {n} \in Present'
    BY <1>1, <1>5, <1>14, <1>15, <1>16
  <2>2. More(shown) = Append(segments, Segment(es, place))
    BY <1>16 DEF More
  <2>3. IsTrace(Append(segments, Segment(es, place)), es, place, Present')
    BY <1>13, <2>1 DEF IsTrace
  <2> QED
    BY <1>1, <1>2, <1>3, <1>7, <1>8, <1>11, <2>2, <2>3
<1>17. CASE ~ shown
  <2>1. present \ {n} \in Present'
    BY <1>1, <1>5, <1>14, <1>15, <1>17
  <2>2. More(shown) = segments
    BY <1>17 DEF More
  <2>3. IsTrace(segments, es, place, Present')
    BY <1>13, <2>1 DEF IsTrace
  <2> QED
    BY <1>1, <1>2, <1>3, <1>7, <1>8, <1>11, <2>2, <2>3
<1> QED
  BY <1>16, <1>17

-----------------------------------------------------------------------------
(* The steps of a path query keep its invariant.                           *)

\* When the trace is complete the path leaves the queue.
LEMMA CompletedTrace ==
    ASSUME TypeOfQuery, PathsAreRead, PathsAreTraced, NEW shown \in BOOLEAN, ReadsSegment(shown),
           ~ (place < Len(queue[1].nodes))
    PROVE  DequeuesPath /\ PathsAreTraced' /\ place' = 0 /\ segments' = <<>>
<1> DEFINE found == [path |-> queue[1].edges, segments |-> More(shown)]
<1>1. /\ queue \in Seq(Paths) /\ queue /= <<>> /\ answer \in Seq(Found)
      /\ place \in 1 .. Len(queue[1].nodes) /\ ~ TooLong(queue[1]) /\ Arrived(queue[1])
      /\ queue[1].edges \in Seq(EdgeIds) /\ Len(queue[1].nodes) = Len(queue[1].edges) + 1
      /\ Len(queue[1].edges) \in Nat
      /\ More(shown) \in Seq(Shown)
      /\ IsTrace(More(shown), queue[1].edges, place, Present')
  BY TracedMore
<1>2. Head(queue) = queue[1] /\ place = Len(queue[1].edges) + 1
  BY <1>1
<1>3. /\ state = "running" /\ query.op = "paths"
      /\ UNCHANGED <<rows, edges, query, batch, visited, state, revisions>>
      /\ failures' \in Nat /\ (Quiet' => Quiet)
  BY DEF ReadsSegment
<1>4. answer' = Append(answer, found) /\ queue' = Tail(queue) /\ segments' = <<>> /\ place' = 0
  BY <1>2 DEF ReadsSegment, Traced, More
<1>5. found \in Found /\ found.path = queue[1].edges /\ found.segments = More(shown)
  BY <1>1 DEF Found
<1> HIDE DEF found
<1>6. /\ answer' \in Seq(Found) /\ Len(answer') = Len(answer) + 1
      /\ \A i \in DOMAIN answer : answer'[i] = answer[i]
      /\ answer'[Len(answer')] = found
      /\ \A i \in DOMAIN answer' : i \in DOMAIN answer \/ i = Len(answer')
  BY <1>1, <1>4, <1>5
<1>7. DequeuesPath
  BY <1>1, <1>3, <1>4, <1>5, <1>6, DroppedHead DEF DequeuesPath
<1>8. \A i \in DOMAIN answer' :
         IsTrace(answer'[i].segments, answer'[i].path, Len(answer'[i].path) + 1, Present')
  <2>1. \A trace, es, m : IsTrace(trace, es, m, Present) => IsTrace(trace, es, m, Present')
    BY <1>3, ReadsStay, PresentStays
  <2>2. \A i \in DOMAIN answer :
          IsTrace(answer[i].segments, answer[i].path, Len(answer[i].path) + 1, Present')
    BY <2>1 DEF PathsAreTraced
  <2>3. IsTrace(found.segments, found.path, Len(found.path) + 1, Present')
    BY <1>1, <1>2, <1>5
  <2> QED
    BY <1>6, <2>2, <2>3
<1> QED
  BY <1>4, <1>7, <1>8 DEF PathsAreTraced

\* A path that leaves the queue, with a trace or without one.
LEMMA LeftPath ==
    ASSUME TypeOfQuery, ImpactInv, PathsInv, DequeuesPath, PathsAreTraced', place' = 0, segments' = <<>>
    PROVE  TypeOfQuery' /\ ImpactInv' /\ PathsInv'
<1>1. /\ query.op = "paths" /\ state = "running" /\ queue' \in Seq(Paths) /\ answer' \in Seq(Found)
      /\ UNCHANGED <<rows, edges, query, batch, visited, state, revisions>>
      /\ failures' \in Nat /\ (Quiet' => Quiet)
  BY DEF DequeuesPath
<1>2. segments' \in Seq(Shown) /\ place' \in Nat
  OBVIOUS
<1>3. TypeOfQuery'
  BY <1>1, <1>2 DEF TypeOfQuery, NoQuery, Graph
<1>4. PathsAreRead'
  BY <1>1, PathIsRead DEF PathsInv
<1>5. Quiet' => PathsByLength' /\ PathsAreComplete'
  BY <1>1, PathByLength, PathIsComplete DEF PathsInv
<1> QED
  BY <1>1, <1>3, <1>4, <1>5 DEF ImpactInv, PathsInv

\* A path that stays at the head of the queue while its rows are read.
LEMMA KeptPath ==
    ASSUME TypeOfQuery, ImpactInv, PathsInv, state = "running", query.op = "paths",
           UNCHANGED <<rows, edges, query, queue, batch, visited, answer, state, revisions>>,
           failures' \in Nat, Quiet' => Quiet,
           place' \in Nat, place' > 0, segments' \in Seq(Shown),
           queue /= <<>>, ~ TooLong(queue[1]), Arrived(queue[1]), place' <= Len(queue[1].nodes),
           IsTrace(segments', queue[1].edges, place' - 1, Present')
    PROVE  TypeOfQuery' /\ ImpactInv' /\ PathsInv'
<1>1. TypeOfQuery'
  BY SMTT(30) DEF TypeOfQuery, NoQuery, Graph
<1>2. ReadNodes' = ReadNodes /\ ReadEdges' = ReadEdges
  BY ReadsStay
<1>3. PathsAreRead'
  BY <1>2 DEF PathsInv, PathsAreRead
<1>4. Quiet' => PathsByLength' /\ PathsAreComplete'
  BY DEF PathsInv, PathsByLength, PathsAreComplete
<1>5. PathsAreTraced'
  <2>1. \A trace, es, m : IsTrace(trace, es, m, Present) => IsTrace(trace, es, m, Present')
    BY <1>2, PresentStays
  <2>2. \A i \in DOMAIN answer' :
          IsTrace(answer'[i].segments, answer'[i].path, Len(answer'[i].path) + 1, Present')
    BY <2>1 DEF PathsInv, PathsAreTraced
  <2>3. queue' /= <<>> /\ ~ TooLong(queue[1])' /\ Arrived(queue[1])'
    BY DEF TooLong, Arrived
  <2> QED
    BY <2>2, <2>3 DEF PathsAreTraced
<1> QED
  BY <1>1, <1>3, <1>4, <1>5 DEF ImpactInv, PathsInv

LEMMA DequeuedPath ==
    ASSUME TypeOfQuery, ImpactInv, PathsInv, DequeuePath \/ EdgesFromFail
    PROVE  TypeOfQuery' /\ ImpactInv' /\ PathsInv'
<1>1. /\ state = "running" /\ query.op = "paths" /\ queue /= <<>> /\ place = 0
      /\ UNCHANGED <<rows, edges, query, batch, visited, segments, answer, state, revisions>>
  BY DEF DequeuePath, EdgesFromFail, arrived
<1>2. queue \in Seq(Paths) /\ failures \in Nat /\ segments = <<>> /\ ReadNodes' = ReadNodes
  BY <1>1, PathsTypes, ReadsStay DEF TypeOfQuery
<1>3. CASE place' = 0
  <2>1. DequeuesPath /\ answer' = answer /\ segments' = <<>> /\ (Quiet' => Quiet)
    BY <1>3, DequeuePathDoes DEF DequeuesPath
  <2>2. \A trace, es, m : IsTrace(trace, es, m, Present) => IsTrace(trace, es, m, Present')
    BY <1>1, <1>2, <2>1, PresentStays
  <2>3. PathsAreTraced'
    BY <1>1, <1>3, <2>1, <2>2 DEF PathsInv, PathsAreTraced
  <2> QED
    BY <1>3, <2>1, <2>3, LeftPath
<1>4. CASE place' /= 0
  <2>1. Head(queue) = queue[1] /\ queue[1] \in Paths
    BY <1>1, <1>2
  <2>2. DequeuePath
    BY <1>1, <1>4 DEF EdgesFromFail, arrived
  <2>3. /\ ~ TooLong(queue[1]) /\ Arrived(queue[1]) /\ place' = 1 /\ queue' = queue
        /\ failures' = failures
    BY <1>1, <1>4, <2>1, <2>2 DEF DequeuePath
  <2>4. Quiet' = Quiet /\ failures' \in Nat
    BY <1>1, <1>2, <2>3, ReadsStay
  <2>5. Len(queue[1].nodes) \in Nat /\ 1 <= Len(queue[1].nodes)
    BY <2>1, <2>3 DEF Arrived, Paths
  <2>6. IsTrace(segments', queue[1].edges, place' - 1, Present')
    <3>1. rows \in Present'
      BY <1>1, <1>2, <2>4, PresentStays
    <3>2. place' - 1 = 0 /\ segments' = <<>> /\ {k \in 1 .. 0 : NodesOf(queue[1].edges)[k] \in rows} = {}
      BY <1>1, <1>2, <2>3
    <3>3. AreSegments(<<>>, queue[1].edges, {})
      BY DEF AreSegments
    <3> QED
      BY <3>1, <3>2, <3>3 DEF IsTrace
  <2>7. segments' \in Seq(Shown) /\ place' \in Nat /\ place' > 0
    BY <1>1, <1>2, <2>3
  <2> QED
    BY <1>1, <2>3, <2>4, <2>5, <2>6, <2>7, KeptPath
<1> QED
  BY <1>3, <1>4

LEMMA TracedPath ==
    ASSUME TypeOfQuery, ImpactInv, PathsInv, ReadSegment \/ SegmentFails
    PROVE  TypeOfQuery' /\ ImpactInv' /\ PathsInv'
<1>1. /\ state = "running" /\ query.op = "paths" /\ place > 0
      /\ PathsAreRead /\ PathsAreTraced /\ queue /= <<>>
  BY DEF ReadSegment, SegmentFails, TypeOfQuery, PathsInv, PathsAreTraced
<1>2. PICK shown \in BOOLEAN : ReadsSegment(shown)
  BY <1>1, ReadSegmentDoes
<1>3. CASE place < Len(queue[1].nodes)
  <2>1. /\ queue \in Seq(Paths) /\ place \in 1 .. Len(queue[1].nodes)
        /\ ~ TooLong(queue[1]) /\ Arrived(queue[1])
        /\ More(shown) \in Seq(Shown) /\ Len(queue[1].nodes) = Len(queue[1].edges) + 1
        /\ Len(queue[1].edges) \in Nat
        /\ IsTrace(More(shown), queue[1].edges, place, Present')
    BY <1>1, <1>2, TracedMore
  <2>2. Head(queue) = queue[1]
    BY <1>1, <2>1
  <2>3. /\ segments' = More(shown) /\ place' = place + 1 /\ UNCHANGED <<queue, answer>>
        /\ UNCHANGED <<rows, edges, query, batch, visited, state, revisions>>
        /\ failures' \in Nat /\ (Quiet' => Quiet)
    BY <1>2, <1>3, <2>2 DEF ReadsSegment, Traced, More
  <2>4. place' \in Nat /\ place' > 0 /\ place' <= Len(queue[1].nodes) /\ place' - 1 = place
    BY <1>3, <2>1, <2>3
  <2> QED
    BY <1>1, <2>1, <2>3, <2>4, KeptPath
<1>4. CASE ~ (place < Len(queue[1].nodes))
  <2>1. DequeuesPath /\ PathsAreTraced' /\ place' = 0 /\ segments' = <<>>
    BY <1>1, <1>2, <1>4, CompletedTrace
  <2> QED
    BY <2>1, LeftPath
<1> QED
  BY <1>3, <1>4

LEMMA AskedPaths ==
    ASSUME TypeOfQuery, NEW from, NEW to, NEW depth \in Nat, AskPaths(from, to, depth)
    PROVE  TypeOfQuery' /\ ImpactInv' /\ PathsInv'
<1>1. /\ state = "idle" /\ state' = "asked" /\ revisions' = <<Graph>>
      /\ UNCHANGED <<rows, edges, queue, batch, visited, segments, place, answer, failures>>
  BY DEF AskPaths, arrived
<1>2. /\ rows \in SUBSET Nodes /\ edges \in SUBSET EdgeIds
      /\ queue = <<>> /\ batch = <<>> /\ visited = {} /\ answer = <<>>
      /\ failures \in Nat /\ place = 0 /\ segments = <<>> /\ segments \in Seq(Shown)
  BY <1>1 DEF TypeOfQuery
<1>3. PICK f \in LookupEntity(from) : query' = [op |-> "lookup", source |-> f, to |-> to, depth |-> depth]
  BY DEF AskPaths
<1>4. query'.op = "lookup" /\ query'.source \in Nodes /\ query'.depth \in Nat
  BY <1>2, <1>3, LookupFinds
<1>5. TypeOfQuery'
  <2>1. Graph' = Graph /\ Graph \in Graphs
    BY <1>1, <1>2 DEF Graph, Graphs
  <2>2. revisions' \in Seq(Graphs) /\ revisions' /= <<>> /\ revisions'[Len(revisions')] = Graph'
    BY <1>1, <2>1
  <2> QED
    BY <1>1, <1>2, <1>4, <2>2 DEF TypeOfQuery
<1> QED
  BY <1>4, <1>5 DEF ImpactInv, PathsInv

LEMMA FoundTarget ==
    ASSUME TypeOfQuery, LookupTarget
    PROVE  TypeOfQuery' /\ ImpactInv' /\ PathsInv'
<1>1. /\ state = "asked" /\ state' = "running"
      /\ UNCHANGED <<rows, edges, batch, visited, segments, place, answer, revisions, failures>>
  BY DEF LookupTarget, arrived
<1>2. /\ rows \in SUBSET Nodes /\ edges \in SUBSET EdgeIds
      /\ batch = <<>> /\ answer = <<>> /\ query.source \in Nodes /\ query.depth \in Nat
      /\ failures \in Nat /\ place = 0 /\ segments = <<>> /\ segments \in Seq(Shown)
      /\ revisions \in Seq(Graphs) /\ revisions /= <<>> /\ revisions[Len(revisions)] = Graph
  BY <1>1 DEF TypeOfQuery, NoQuery
<1>3. PICK t \in LookupEntity(query.to) :
        query' = [op |-> "paths", target |-> t, source |-> query.source, depth |-> query.depth]
  BY DEF LookupTarget
<1> DEFINE f == query.source
<1>4. f \in Nodes /\ t \in Nodes /\ queue' = <<PathFrom(f)>>
  BY <1>2, LookupFinds DEF LookupTarget
<1>5. PathFrom(f) \in Paths /\ PathFrom(f).nodes = <<f>> /\ PathFrom(f).edges = <<>>
  BY <1>4 DEF PathFrom, Paths
<1>6. /\ query'.op = "paths" /\ query'.source = f
      /\ query' \in [op : {"paths"}, target : Nodes, source : Nodes, depth : Nat]
  BY <1>2, <1>3, <1>4
<1> HIDE DEF f
<1>7. /\ queue' \in Seq(Paths) /\ queue' /= <<>> /\ DOMAIN queue' = {1} /\ queue'[1] = PathFrom(f)
  BY <1>4, <1>5
<1>8. /\ batch' = <<>> /\ answer' = <<>> /\ answer' \in Seq(Found) /\ DOMAIN answer' = {}
      /\ place' = 0
  BY <1>1, <1>2
<1>9. TypeOfQuery'
  <2>1. Graph' = Graph
    BY <1>1 DEF Graph
  <2> QED
    BY <1>1, <1>2, <1>6, <1>7, <1>8, <2>1 DEF TypeOfQuery
<1>10. PathsAreRead'
  <2>1. \A es : Trail(PathFrom(f), es, f)
    <3>1. Len(<<f>>) = 1 /\ Len(<<>>) = 0 /\ <<f>>[1] = f
      OBVIOUS
    <3> QED
      BY <1>5, <3>1 DEF Trail
  <2> QED
    BY <1>6, <1>7, <1>8, <2>1 DEF PathsAreRead
<1>11. Len(queue'[1].edges) = 0
  BY <1>5, <1>7
<1>12. PathsByLength'
  BY <1>7, <1>8, <1>11 DEF PathsByLength
<1>13. PathsAreComplete'
  <2> SUFFICES ASSUME NEW es \in Simple(edges', query'.source, query'.target, query'.depth)
               PROVE  StartsWith(es, queue'[1].edges)
    BY <1>7 DEF PathsAreComplete
  <2>1. es \in Seq(EdgeIds)
    <3>1. edges' \in SUBSET EdgeIds /\ query'.depth \in Nat
      BY <1>1, <1>2, <1>6
    <3> QED
      BY <3>1, SimpleEdges
  <2> QED
    BY <1>11, <2>1 DEF StartsWith
<1>14. PathsAreTraced'
  BY <1>8 DEF PathsAreTraced
<1>15. ImpactInv'
  BY <1>6 DEF ImpactInv
<1> QED
  BY <1>9, <1>10, <1>12, <1>13, <1>14, <1>15 DEF PathsInv

LEMMA NoTarget ==
    ASSUME TypeOfQuery, TargetNotFound
    PROVE  TypeOfQuery' /\ ImpactInv' /\ PathsInv'
<1>1. /\ state = "asked" /\ state' = "answered"
      /\ UNCHANGED <<rows, edges, query, queue, batch, visited, segments, place, answer, revisions>>
      /\ failures' = failures \/ failures' = failures + 1
  BY DEF TargetNotFound, arrived, Fails
<1>2. query.op = "lookup" /\ failures' \in Nat
  BY <1>1 DEF TypeOfQuery, NoQuery
<1>3. TypeOfQuery'
  BY <1>1, <1>2 DEF TypeOfQuery, NoQuery, Graph
<1> QED
  BY <1>1, <1>2, <1>3 DEF ImpactInv, PathsInv

-----------------------------------------------------------------------------
(* The other steps, and the invariant.                                     *)

LEMMA GivenAnswer ==
    ASSUME TypeOfQuery, ImpactInv, PathsInv, Answer
    PROVE  TypeOfQuery' /\ ImpactInv' /\ PathsInv'
<1>1. /\ state = "running" /\ state' = "answered" /\ queue = <<>> /\ batch = <<>>
      /\ UNCHANGED <<rows, edges, query, queue, batch, visited, segments, place, answer, revisions, failures>>
  BY DEF Answer, arrived
<1>2. query.op = "paths" => place = 0
  BY <1>1 DEF PathsInv, PathsAreTraced, TypeOfQuery
<1>3. place = 0
  BY <1>2 DEF TypeOfQuery
<1>4. TypeOfQuery'
  BY <1>1, <1>3 DEF TypeOfQuery, Graph
<1>5. ImpactInv' /\ PathsInv'
  <2>1. ReadNodes' = ReadNodes /\ ReadEdges' = ReadEdges /\ Quiet' = Quiet
    BY <1>1, ReadsStay
  <2>2. ImpactIsRead => ImpactIsRead'
    BY <1>1, <2>1, ImpactStaysRead
  <2>3. PathsAreRead => PathsAreRead'
    BY <1>1, <2>1 DEF PathsAreRead
  <2>4. (ImpactByDistance => ImpactByDistance') /\ (ImpactIsComplete => ImpactIsComplete')
    BY <1>1 DEF ImpactByDistance, ImpactIsComplete, Distance, Near, Queued, Expanded
  <2>5. (PathsByLength => PathsByLength') /\ (PathsAreComplete => PathsAreComplete')
    BY <1>1 DEF PathsByLength, PathsAreComplete
  <2>6. PathsAreTraced => PathsAreTraced'
    BY <1>1, <1>3, <2>1, PresentStays DEF PathsAreTraced
  <2> QED
    BY <1>1, <2>1, <2>2, <2>3, <2>4, <2>5, <2>6 DEF ImpactInv, PathsInv
<1> QED
  BY <1>4, <1>5

LEMMA GraphChanged ==
    ASSUME TypeOfQuery, ImpactInv, PathsInv,
           NEW newRows \in SUBSET Nodes, NEW newEdges \in SUBSET EdgeIds, Change(newRows, newEdges)
    PROVE  TypeOfQuery' /\ ImpactInv' /\ PathsInv'
<1>1. /\ TypeOfQuery'
      /\ ReadNodes \subseteq ReadNodes' /\ ReadEdges \subseteq ReadEdges' /\ ~ Quiet'
      /\ UNCHANGED <<query, queue, batch, visited, segments, place, answer>>
  BY ChangeIsSeen
<1>2. ImpactIsRead => ImpactIsRead'
  BY <1>1, ImpactStaysRead
<1>3. PathsAreRead => PathsAreRead'
  <2> SUFFICES ASSUME PathsAreRead
               PROVE  PathsAreRead'
    OBVIOUS
  <2>1. /\ \A path : Trail(path, ReadEdges, query.source) => Trail(path, ReadEdges', query.source)
        /\ Simple(ReadEdges, query.source, query.target, query.depth) \subseteq
              Simple(ReadEdges', query.source, query.target, query.depth)
    BY <1>1, MoreEdges
  <2> QED
    BY <1>1, <2>1 DEF PathsAreRead
<1>4. PathsAreTraced => PathsAreTraced'
  <2> SUFFICES ASSUME PathsAreTraced
               PROVE  PathsAreTraced'
    OBVIOUS
  <2>1. state /= "idle"
    BY DEF Change
  <2>2. \A trace, es, m : IsTrace(trace, es, m, Present) => IsTrace(trace, es, m, Present')
    BY <1>1, <2>1, PresentStays
  <2>3. \A path : (TooLong(path)' <=> TooLong(path)) /\ (Arrived(path)' <=> Arrived(path))
    BY <1>1 DEF TooLong, Arrived
  <2>4. \A i \in DOMAIN answer' :
          IsTrace(answer'[i].segments, answer'[i].path, Len(answer'[i].path) + 1, Present')
    BY <1>1, <2>2 DEF PathsAreTraced
  <2>5. place' > 0 => /\ queue' /= <<>> /\ ~ TooLong(queue[1])' /\ Arrived(queue[1])'
                      /\ place' <= Len(queue'[1].nodes)
                      /\ IsTrace(segments', queue'[1].edges, place' - 1, Present')
    BY <1>1, <2>2 DEF PathsAreTraced, TooLong, Arrived
  <2> QED
    BY <2>4, <2>5 DEF PathsAreTraced
<1> QED
  BY <1>1, <1>2, <1>3, <1>4 DEF ImpactInv, PathsInv

LEMMA NothingHappens ==
    ASSUME TypeOfQuery, ImpactInv, PathsInv, UNCHANGED vars
    PROVE  TypeOfQuery' /\ ImpactInv' /\ PathsInv'
<1>1. UNCHANGED <<rows, edges, query, queue, batch, visited, segments, place, answer, state, revisions, failures>>
  BY DEF vars
<1>2. TypeOfQuery'
  BY <1>1 DEF TypeOfQuery, Graph
<1>3. ReadNodes' = ReadNodes /\ ReadEdges' = ReadEdges /\ Quiet' = Quiet
  BY <1>1, ReadsStay
<1>4. (ImpactIsRead => ImpactIsRead') /\ (PathsAreRead => PathsAreRead')
  BY <1>1, <1>3, ImpactStaysRead DEF PathsAreRead
<1>5. (ImpactByDistance => ImpactByDistance') /\ (ImpactIsComplete => ImpactIsComplete')
  BY <1>1 DEF ImpactByDistance, ImpactIsComplete, Distance, Near, Queued, Expanded
<1>6. (PathsByLength => PathsByLength') /\ (PathsAreComplete => PathsAreComplete')
  BY <1>1 DEF PathsByLength, PathsAreComplete
<1>7. PathsAreTraced => PathsAreTraced'
  <2>1. Present' = Present
    BY <1>1, <1>3 DEF Present
  <2> QED
    BY <1>1, <2>1 DEF PathsAreTraced, TooLong, Arrived
<1> QED
  BY <1>1, <1>2, <1>3, <1>4, <1>5, <1>6, <1>7 DEF ImpactInv, PathsInv

LEMMA TraversalInvariant == Spec => []TraversalInv
<1>1. Init => TraversalInv
  BY DEF Init, TraversalInv, TypeOfQuery, ImpactInv, PathsInv, NoQuery
<1>2. TraversalInv /\ [Next]_vars => TraversalInv'
  <2> SUFFICES ASSUME TypeOfQuery, ImpactInv, PathsInv, [Next]_vars
               PROVE  TypeOfQuery' /\ ImpactInv' /\ PathsInv'
    BY DEF TraversalInv
  <2> USE GraphAssumption
  <2>1. CASE \E name \in Names, depth \in 0 .. MaxDepth : AskImpact(name, depth)
    BY <2>1, AskedImpact
  <2>2. CASE \E from, to \in Names, depth \in 0 .. MaxDepth : AskPaths(from, to, depth)
    BY <2>2, AskedPaths
  <2>3. CASE LookupTarget
    BY <2>3, FoundTarget
  <2>4. CASE TargetNotFound
    BY <2>4, NoTarget
  <2>5. CASE DequeueNode \/ EdgesToFail
    BY <2>5, DequeuedNode
  <2>6. CASE FollowInEdge \/ InNodeFails
    BY <2>6, FollowedInEdge
  <2>7. CASE DequeuePath \/ EdgesFromFail
    BY <2>7, DequeuedPath
  <2>8. CASE ReadSegment \/ SegmentFails
    BY <2>8, TracedPath
  <2>9. CASE Answer
    BY <2>9, GivenAnswer
  <2>10. rows \in SUBSET Nodes /\ edges \in SUBSET EdgeIds
    BY DEF TypeOfQuery
  <2>11. CASE \E n \in Nodes : RemoveNode(n)
    <3>1. PICK n \in Nodes : Change(rows \ {n}, {e \in edges : n \notin {From[e], To[e]}})
      BY <2>11 DEF RemoveNode
    <3>2. rows \ {n} \in SUBSET Nodes /\ {e \in edges : n \notin {From[e], To[e]}} \in SUBSET EdgeIds
      BY <2>10
    <3> QED
      BY <3>1, <3>2, GraphChanged
  <2>12. CASE \E e \in EdgeIds : RemoveEdge(e) \/ PutEdge(e)
    <3>1. PICK e \in EdgeIds : Change(rows, edges \ {e}) \/ Change(rows, edges \cup {e})
      BY <2>12 DEF RemoveEdge, PutEdge
    <3>2. edges \ {e} \in SUBSET EdgeIds /\ edges \cup {e} \in SUBSET EdgeIds
      BY <2>10
    <3> QED
      BY <2>10, <3>1, <3>2, GraphChanged
  <2>13. CASE UNCHANGED vars
    BY <2>13, NothingHappens
  <2> QED
    BY <2>1, <2>2, <2>3, <2>4, <2>5, <2>6, <2>7, <2>8, <2>9, <2>11, <2>12, <2>13 DEF Next
<1> QED
  BY <1>1, <1>2, PTL DEF Spec

-----------------------------------------------------------------------------
(* What is answered.                                                       *)

\* A trace has the segments of some places of its path, in order.
LEMMA TracesOfPlaces ==
    ASSUME NEW es \in Seq(EdgeIds), NodesDiffer(es), NEW trace, NEW places \in SUBSET (1 .. Len(es) + 1),
           AreSegments(trace, es, places)
    PROVE  AreSegments(trace, es, {k \in 1 .. Len(es) + 1 : Segment(es, k) \in {trace[i] : i \in 1 .. Len(trace)}})
<1> DEFINE met == {trace[i] : i \in 1 .. Len(trace)}
<1>1. \A i, j \in 1 .. Len(es) + 1 : Segment(es, i) = Segment(es, j) => i = j
  BY DEF Segment, NodesDiffer
<1>2. met = {Segment(es, i) : i \in places}
  BY DEF AreSegments
<1> HIDE DEF met
<1>3. {k \in 1 .. Len(es) + 1 : Segment(es, k) \in met} = places
  BY <1>1, <1>2
<1> QED
  BY <1>3 DEF met

\* Whatever is written or fails while a query runs, its answer holds what was
\* in the database during the query: nodes and edges at the depths it states,
\* or the nodes of a simple path, and nothing twice (traversal.rs lookup_impact
\* and lookup_paths over a read view).
THEOREM AnswersWereReadHolds == Spec => []AnswersWereRead
<1>1. TraversalInv => AnswersWereRead
  <2> SUFFICES ASSUME TypeOfQuery, ImpactInv, PathsInv
               PROVE  AnswersWereRead
    BY DEF TraversalInv
  <2>1. ASSUME query.op = "impact", NEW i \in 1 .. Len(answer)
        PROVE  /\ answer[i].node \in ReadNodes /\ answer[i].via \in ReadEdges
               /\ From[answer[i].via] = answer[i].node
               /\ \A j \in 1 .. i - 1 : answer[j].node /= answer[i].node
               /\ answer[i].node /= query.target
               /\ answer[i].depth = 1 <=> To[answer[i].via] = query.target
    <3>1. i \in DOMAIN answer
      BY <2>1, ImpactTypes
    <3> QED
      BY <2>1, <3>1 DEF ImpactInv, ImpactIsRead
  <2>2. ASSUME query.op = "paths", NEW i \in 1 .. Len(answer)
        PROVE  /\ ToSet(answer[i].path) \subseteq ReadEdges
               /\ IsWalk(answer[i].path, query.source, query.target)
               /\ IsInjective(NodesOf(answer[i].path))
               /\ \A k \in 1 .. Len(answer[i].segments) : answer[i].segments[k].node \in ReadNodes
               /\ AreSegments(answer[i].segments, answer[i].path,
                      {k \in 1 .. Len(answer[i].path) + 1 :
                          Segment(answer[i].path, k) \in ToSet(answer[i].segments)})
    <3> DEFINE es == answer[i].path
               trace == answer[i].segments
    <3>1. i \in DOMAIN answer /\ answer[i] \in Found
      BY <2>2, PathsTypes
    <3>2. es \in Simple(ReadEdges, query.source, query.target, query.depth)
      BY <2>2, <3>1 DEF PathsInv, PathsAreRead
    <3>3. IsTrace(trace, es, Len(es) + 1, Present)
      BY <2>2, <3>1 DEF PathsInv, PathsAreTraced
    <3>4. trace \in Seq(Shown) /\ es \in Seq(EdgeIds)
      BY <3>1 DEF Found
    <3> HIDE DEF es, trace
    <3>5. IsWalk(es, query.source, query.target) /\ IsInjective(NodesOf(es))
      BY <3>2 DEF Simple
    <3>6. PICK n \in 1 .. query.depth : es \in [1 .. n -> ReadEdges]
      BY <3>2 DEF Simple
    <3>7. ToSet(es) \subseteq ReadEdges
      BY <3>6 DEF ToSet
    <3>8. NodesDiffer(es)
      <4>1. es /= <<>>
        BY <3>6
      <4>2. NodesOf(es) \in Seq(Nodes) /\ Len(NodesOf(es)) = Len(es) + 1
        BY <3>4, <4>1, NodesAlong
      <4> QED
        BY <3>5, <4>2 DEF IsInjective, NodesDiffer
    <3>9. state /= "idle"
      BY <2>2 DEF TypeOfQuery, NoQuery
    <3>10. Present \subseteq SUBSET ReadNodes
      BY <3>9, GraphIsRead DEF Present
    <3>11. PICK present \in Present :
             AreSegments(trace, es, {k \in 1 .. Len(es) + 1 : NodesOf(es)[k] \in present})
      BY <3>3 DEF IsTrace
    <3> DEFINE places == {k \in 1 .. Len(es) + 1 : NodesOf(es)[k] \in present}
    <3>12. ASSUME NEW k \in 1 .. Len(trace)
           PROVE  trace[k].node \in ReadNodes
      <4>1. PICK m \in places : trace[k] = Segment(es, m)
        BY <3>11 DEF AreSegments
      <4>2. trace[k].node = NodesOf(es)[m] /\ NodesOf(es)[m] \in present
        BY <4>1 DEF Segment
      <4> QED
        BY <3>10, <3>11, <4>2
    <3>13. AreSegments(trace, es, {k \in 1 .. Len(es) + 1 : Segment(es, k) \in ToSet(trace)})
      <4>1. ToSet(trace) = {trace[k] : k \in 1 .. Len(trace)}
        BY <3>4 DEF ToSet
      <4>2. places \in SUBSET (1 .. Len(es) + 1) /\ AreSegments(trace, es, places)
        BY <3>11
      <4> HIDE DEF places
      <4> QED
        BY <3>4, <3>8, <4>1, <4>2, TracesOfPlaces
    <3> QED
      BY <3>5, <3>7, <3>12, <3>13 DEF es, trace
  <2> QED
    BY <2>1, <2>2 DEF AnswersWereRead
<1> QED
  BY <1>1, TraversalInvariant, PTL

\* In a graph that stands still and can be read an impact query lists every
\* node within the depth once, with its distance, nearest first (traversal.rs lookup_impact),
\* whatever the graph, its cycles and the depth.
THEOREM ImpactIsTheBallHolds == Spec => []ImpactIsTheBall
<1>1. TraversalInv => ImpactIsTheBall
  <2> SUFFICES ASSUME TypeOfQuery, ImpactInv, Answered("impact"), Quiet
               PROVE  /\ {answer[i].node : i \in 1 .. Len(answer)} = (Ball(query.depth) \ {query.target}) \cap rows
                      /\ \A i \in 1 .. Len(answer) : answer[i].node \in Ball(answer[i].depth) \ Ball(answer[i].depth - 1)
                      /\ \A i, j \in 1 .. Len(answer) : i < j => /\ answer[i].node /= answer[j].node
                                                                 /\ answer[i].depth <= answer[j].depth
    BY DEF TraversalInv, ImpactIsTheBall
  <2>1. /\ query.op = "impact" /\ state = "answered"
        /\ ImpactIsRead /\ ImpactByDistance /\ ImpactIsComplete
    BY DEF Answered, ImpactInv
  <2>2. queue = <<>> /\ answer \in Seq(Items) /\ query.depth \in Nat /\ DOMAIN answer = 1 .. Len(answer)
    <3>1. queue = <<>>
      BY <2>1 DEF TypeOfQuery
    <3> QED
      BY <2>1, <3>1, ImpactTypes
  <2>3. Near(query.depth) = visited
    <3>1. Near(query.depth) \subseteq visited
      BY <2>1, <2>2, QueueCovers
    <3> QED
      BY <2>1, <3>1 DEF ImpactIsComplete
  <2>4. {answer[i].node : i \in 1 .. Len(answer)} = (Ball(query.depth) \ {query.target}) \cap rows
    BY <2>1, <2>2, <2>3, BallIsWithin DEF ImpactIsComplete
  <2>5. ASSUME NEW i \in 1 .. Len(answer)
        PROVE  answer[i].node \in Ball(answer[i].depth) \ Ball(answer[i].depth - 1)
    <3>1. answer[i].depth \in Nat /\ answer[i].depth >= 1
      BY <2>1, <2>2, ListedItems DEF ImpactIsRead
    <3>2. answer[i].depth - 1 \in Nat /\ answer[i].depth - 1 < answer[i].depth
      BY <3>1
    <3>3. Distance(answer[i].node, answer[i].depth)
      BY <2>1, <2>2 DEF ImpactByDistance
    <3>4. answer[i].node \in Near(answer[i].depth) /\ answer[i].node \notin Near(answer[i].depth - 1)
      BY <3>2, <3>3 DEF Distance, AtDistance, Near
    <3> QED
      BY <3>4, BallIsWithin
  <2>6. ASSUME NEW i \in 1 .. Len(answer), NEW j \in 1 .. Len(answer), i < j
        PROVE  answer[i].node /= answer[j].node /\ answer[i].depth <= answer[j].depth
    <3>1. i \in 1 .. j - 1
      BY <2>6
    <3> QED
      BY <2>1, <2>2, <2>6, <3>1 DEF ImpactIsRead, ImpactByDistance
  <2> QED
    BY <2>4, <2>5, <2>6
<1> QED
  BY <1>1, TraversalInvariant, PTL

\* In a graph that stands still and can be read a path query traces every
\* simple path of at most that many edges once, shortest first, each by the
\* segments of its nodes that have a row (traversal.rs lookup_paths).
THEOREM PathsAreTheSimplePathsHolds == Spec => []PathsAreTheSimplePaths
<1>1. TraversalInv => PathsAreTheSimplePaths
  <2> SUFFICES ASSUME TypeOfQuery, PathsInv, Answered("paths"), Quiet
               PROVE  /\ {answer[i].path : i \in 1 .. Len(answer)} =
                            SimplePaths(query.source, query.target, query.depth)
                      /\ \A i, j \in 1 .. Len(answer) : i < j => /\ answer[i].path /= answer[j].path
                                                                 /\ Len(answer[i].path) <= Len(answer[j].path)
                      /\ \A i \in 1 .. Len(answer) :
                            AreSegments(answer[i].segments, answer[i].path,
                                {k \in 1 .. Len(answer[i].path) + 1 : NodesOf(answer[i].path)[k] \in rows})
    BY DEF TraversalInv, PathsAreTheSimplePaths
  <2>1. /\ query.op = "paths" /\ state = "answered"
        /\ PathsAreRead /\ PathsAreTraced /\ PathsByLength /\ PathsAreComplete
    BY DEF Answered, PathsInv
  <2>2. queue = <<>> /\ DOMAIN answer = 1 .. Len(answer)
    <3>1. queue = <<>>
      BY <2>1 DEF TypeOfQuery
    <3> QED
      BY <2>1, <3>1, PathsTypes
  <2>3. ReadEdges = edges
    BY <2>1, GraphIsRead
  <2>4. {answer[i].path : i \in DOMAIN answer} = Simple(edges, query.source, query.target, query.depth)
    <3>1. \A i \in DOMAIN answer : answer[i].path \in Simple(edges, query.source, query.target, query.depth)
      BY <2>1, <2>3 DEF PathsAreRead
    <3>2. \A es \in Simple(edges, query.source, query.target, query.depth) :
            \E i \in DOMAIN answer : answer[i].path = es
      BY <2>1, <2>2 DEF PathsAreComplete
    <3> QED
      BY <3>1, <3>2
  <2>5. {answer[i].path : i \in 1 .. Len(answer)} = SimplePaths(query.source, query.target, query.depth)
    BY <2>2, <2>4, SimplePathsAreSimple
  <2>6. \A i \in 1 .. Len(answer) :
           AreSegments(answer[i].segments, answer[i].path,
               {k \in 1 .. Len(answer[i].path) + 1 : NodesOf(answer[i].path)[k] \in rows})
    BY <2>1, <2>2 DEF PathsAreTraced, IsTrace, Present
  <2> QED
    BY <2>1, <2>2, <2>5, <2>6 DEF PathsByLength
<1> QED
  BY <1>1, TraversalInvariant, PTL

\* The queries of a run are queries of any graph, among other inputs.
LEMMA QueriesTraverse == MCSpec => Spec
<1>1. MCInit => Init
  BY DEF MCInit
<1>2. [MCNext]_<<vars, input>> => [Next]_vars
  BY DEF MCNext, Traverse, ReadText, ReadByte, AskContext, LoadConfig, vars
<1> QED
  BY <1>1, <1>2, PTL DEF MCSpec, Spec
=============================================================================
