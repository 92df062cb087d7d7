--------------------------- MODULE Configuration ---------------------------
(***************************************************************************)
(* The effective configuration: defaults, the user's file, the project's   *)
(* file or the one named on the command line (repin-core/src/config,       *)
(* repin/src/cli/discovery.rs load_effective_config).                      *)
(*                                                                         *)
(* A configuration gives every scalar setting a value; the exclusion lists *)
(* are sets; provider profiles are functions from names. Values are        *)
(* "default", "unset" for an option without one, and what a file says; the *)
(* value "invalid" stands for one validate refuses.                        *)
(***************************************************************************)
EXTENDS Naturals, Functions, TLC

ProjectFields == {"project.name", "project.roots", "project.languages"}
IndexingFields == {"indexing.max_file_size_bytes", "indexing.respect_gitignore", "indexing.index_docs",
                   "indexing.index_config"}
ExtractionFields == {"extraction.tree_sitter_fallback"}
RetrievalFields == {"retrieval.default_mode", "retrieval.default_limit", "retrieval.centrality_boost",
                    "retrieval.regex_size_limit_bytes"}
ContextFields == {"context.default_token_budget", "context.padding_lines", "context.include_blast_radius",
                  "context.include_verbatim_source"}
StorageFields == {"storage.wal_checkpoint_mode", "storage.checkpoint_interval"}
DaemonFields == {"daemon.watch_debounce_ms", "daemon.idle_timeout_secs"}
CapabilityFields == {"intelligence.lexical.enabled", "intelligence.graph.enabled"}
EmbeddingFields == {"embedding.provider", "embedding.model", "embedding.dimension", "embedding.auto_download",
                    "embedding.endpoint", "embedding.api_key_env"}
RerankFields == {"rerank.provider", "rerank.model", "rerank.top_n", "rerank.deadline_ms", "rerank.agent_cmd",
                 "rerank.endpoint", "rerank.api_key_env"}
EnrichmentFields == {"enrichment.provider", "enrichment.model", "enrichment.endpoint", "enrichment.api_key_env"}
Settings == ProjectFields \cup IndexingFields \cup ExtractionFields \cup RetrievalFields \cup ContextFields
           \cup StorageFields \cup DaemonFields \cup CapabilityFields \cup EmbeddingFields \cup RerankFields
           \cup EnrichmentFields
Lists == {"indexing.exclude_paths", "indexing.exclude_extensions"}

\* The fields of the three model capabilities that name a provider.
Capabilities == {"embedding", "rerank", "enrichment"}
Provider == [embedding |-> "embedding.provider", rerank |-> "rerank.provider",
             enrichment |-> "enrichment.provider"]
Endpoint == [embedding |-> "embedding.endpoint", rerank |-> "rerank.endpoint",
             enrichment |-> "enrichment.endpoint"]
ApiKeyEnv == [embedding |-> "embedding.api_key_env", rerank |-> "rerank.api_key_env",
              enrichment |-> "enrichment.api_key_env"]
Options == {Endpoint[c] : c \in Capabilities} \cup {ApiKeyEnv[c] : c \in Capabilities}

NoProviders == <<>>
Default ==
    [scalars |-> [f \in Settings |-> CASE f \in Options -> "unset"
                                      [] f \in {Provider[c] : c \in Capabilities} -> "none"
                                      [] OTHER -> "default"],
     lists |-> [l \in Lists |-> {}], providers |-> NoProviders]

\* A TOML file: whether it parses, the schema version it states (0 for none),
\* and what it sets. A missing file is Missing, one that does not parse Unparsed.
Missing == [parses |-> FALSE, schema |-> 0, scalars |-> <<>>, lists |-> [l \in Lists |-> {}],
            providers |-> NoProviders, missing |-> TRUE]
Unparsed == [Missing EXCEPT !.missing = FALSE]

-----------------------------------------------------------------------------
(* repin-core/src/config/partial.rs, mod.rs.                               *)

\* PartialProviderProfile::apply_to, over a profile that may not exist yet.
NoProfile == [endpoint |-> "unset", api_key_env |-> "unset"]
ProfileOf(providers, name) == IF name \in DOMAIN providers THEN providers[name] ELSE NoProfile
ApplyProfile(profile, set) == [o \in {"endpoint", "api_key_env"} |-> IF set[o] = "unset" THEN profile[o] ELSE set[o]]

\* A mutant: a setting that is there already is kept.
ApplyFirst(config, file) ==
    [scalars |-> [f \in Settings |-> IF f \in DOMAIN file.scalars /\ config.scalars[f] = Default.scalars[f]
                                    THEN file.scalars[f] ELSE config.scalars[f]],
     lists |-> [l \in Lists |-> config.lists[l] \cup file.lists[l]],
     providers |-> config.providers]

\* PartialRepinConfig::apply_to: a setting of the file replaces the one that
\* was there, exclusions add up, profiles are merged by name and by field.
ApplyTo(config, file) ==
    [scalars |-> [f \in Settings |-> IF f \in DOMAIN file.scalars THEN file.scalars[f] ELSE config.scalars[f]],
     lists |-> [l \in Lists |-> config.lists[l] \cup file.lists[l]],
     providers |-> [n \in DOMAIN config.providers \cup DOMAIN file.providers |->
                      IF n \in DOMAIN file.providers
                      THEN ApplyProfile(ProfileOf(config.providers, n), file.providers[n])
                      ELSE config.providers[n]]]

\* RepinConfig::validate.
Validated == {"project.roots", "retrieval.regex_size_limit_bytes", "indexing.max_file_size_bytes",
              "retrieval.default_mode", "storage.wal_checkpoint_mode"}
Valid(config) == \A f \in Validated : config.scalars[f] /= "invalid"

\* RepinConfig::merge_toml_str: what is validated has been applied.
Refuses(file) == ~ file.parses \/ file.schema \notin {0, 1}
MergeTomlStr(config, file) ==
    IF Refuses(file) THEN [config |-> config, ok |-> FALSE]
    ELSE [config |-> ApplyTo(config, file), ok |-> Valid(ApplyTo(config, file))]

\* A mutant: the check forgets one capability.
ValidProjectButEnrichment(file) ==
    /\ file.parses
    /\ file.providers = NoProviders
    /\ {ApiKeyEnv[c] : c \in Capabilities \ {"enrichment"}} \cap DOMAIN file.scalars = {}

\* RepinConfig::validate_project_toml_str.
ValidProject(file) ==
    /\ file.parses
    /\ file.providers = NoProviders
    /\ {ApiKeyEnv[c] : c \in Capabilities} \cap DOMAIN file.scalars = {}

-----------------------------------------------------------------------------
(* repin/src/cli/discovery.rs.                                             *)

\* Names that are no remote provider, and what is built in for the others.
LocalProviders == {"none", "embedded", "agent", "empty"}
BuiltInEndpoint(c, p) ==
    CASE p \in {"openai", "ollama"} -> p
      [] p = "google" /\ c \in {"embedding", "enrichment"} -> p
      [] OTHER -> "unset"
BuiltInKey(c, p) ==
    CASE p = "openai" -> "OPENAI_API_KEY"
      [] p = "google" /\ c \in {"embedding", "enrichment"} -> "GEMINI_API_KEY"
      [] OTHER -> "unset"

\* resolve_intelligence_providers: an option without a value takes it from the
\* provider's profile, or from what is built in when there is no profile.
Resolved(config, field, option, c, builtIn) ==
    LET p == config.scalars[Provider[c]] IN
    CASE p \in LocalProviders \/ config.scalars[field] /= "unset" -> config.scalars[field]
      [] p \notin LocalProviders /\ config.scalars[field] = "unset" ->
            IF p \in DOMAIN config.providers THEN config.providers[p][option] ELSE builtIn
Resolve(config) ==
    [config EXCEPT !.scalars = [f \in Settings |->
        IF f \in Options
        THEN LET c == CHOOSE c \in Capabilities : f \in {Endpoint[c], ApiKeyEnv[c]}
                 p == config.scalars[Provider[c]]
             IN  IF f = Endpoint[c] THEN Resolved(config, f, "endpoint", c, BuiltInEndpoint(c, p))
                                    ELSE Resolved(config, f, "api_key_env", c, BuiltInKey(c, p))
        ELSE @[f]]]

\* load_effective_config. The user's file may fail to parse or to be valid: its
\* error is dropped, and what it had set by then stays. An explicit file takes
\* the place of the project's, and is not checked for providers.
Failed == [ok |-> FALSE, config |-> Default]
LoadEffectiveConfig(user, project, explicit) ==
    LET base == IF user.missing THEN Default ELSE MergeTomlStr(Default, user).config
        top == IF explicit.missing THEN project ELSE explicit
        merged == IF top.missing THEN [config |-> base, ok |-> TRUE] ELSE MergeTomlStr(base, top)
        allowed == explicit.missing /\ ~ project.missing => ValidProject(project)
    IN  IF allowed /\ merged.ok /\ Valid(merged.config)
        THEN [ok |-> TRUE, config |-> Resolve(merged.config)] ELSE Failed

-----------------------------------------------------------------------------
(* Properties of every input.                                              *)

\* The highest layer that sets a value decides, down to the default, and every
\* layer adds to the exclusions (ADR-021). Options are resolved afterwards and
\* are only decided by a layer that sets them.
HighestLayerDecides(user, project, explicit) ==
    LET loaded == LoadEffectiveConfig(user, project, explicit)
        top == IF explicit.missing THEN project ELSE explicit
        counts(file) == ~ file.missing /\ ~ Refuses(file)
        decided(f) == CASE counts(top) /\ f \in DOMAIN top.scalars -> top.scalars[f]
                        [] ~ (counts(top) /\ f \in DOMAIN top.scalars) ->
                              IF counts(user) /\ f \in DOMAIN user.scalars THEN user.scalars[f]
                              ELSE Default.scalars[f]
    IN  loaded.ok =>
          /\ \A f \in Settings : loaded.config.scalars[f] = decided(f) \/ (f \in Options /\ decided(f) = "unset")
          /\ \A l \in Lists : /\ counts(user) => user.lists[l] \subseteq loaded.config.lists[l]
                              /\ counts(top) => top.lists[l] \subseteq loaded.config.lists[l]

\* What the user's file and what is built in make of an option of provider p:
\* the field for it, the profile of p, or the built-in value.
UsersOption(user, field, option, p, builtIn) ==
    LET counts == ~ user.missing /\ ~ Refuses(user)
        named == IF counts /\ field \in DOMAIN user.scalars THEN user.scalars[field] ELSE "unset"
    IN  CASE named /= "unset" \/ p \in LocalProviders -> named
          [] named = "unset" /\ p \notin LocalProviders ->
                IF counts /\ p \in DOMAIN user.providers THEN user.providers[p][option] ELSE builtIn

\* Whatever provider a project's file picks, the key that is used with it is the
\* one the user's file names, for the capability or for that provider, or the
\* one built in for that provider.
KeysAreTheUsers(user, project) ==
    LET loaded == LoadEffectiveConfig(user, project, Missing) IN
    loaded.ok => \A c \in Capabilities :
        LET p == loaded.config.scalars[Provider[c]] IN
        loaded.config.scalars[ApiKeyEnv[c]] = UsersOption(user, ApiKeyEnv[c], "api_key_env", p, BuiltInKey(c, p))

\* "All API endpoints and credentials resolve strictly from the user's private
\* global configuration" (ADR-022), said of endpoints: not true of the code; see
\* the README.
EndpointsAreTheUsers(user, project) ==
    LET loaded == LoadEffectiveConfig(user, project, Missing) IN
    loaded.ok => \A c \in Capabilities :
        LET p == loaded.config.scalars[Provider[c]] IN
        loaded.config.scalars[Endpoint[c]] = UsersOption(user, Endpoint[c], "endpoint", p, BuiltInEndpoint(c, p))

\* A user's file that is refused changes nothing: not true of the code, which
\* validates after it has applied; see the README.
RefusedFilesChangeNothing(user, project) ==
    ~ MergeTomlStr(Default, user).ok =>
        LoadEffectiveConfig(user, project, Missing) = LoadEffectiveConfig(Missing, project, Missing)
=============================================================================
