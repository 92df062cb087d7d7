----------------------------- MODULE MCQueries -----------------------------
(***************************************************************************)
(* What queries compute: traversals of a graph, and the functions that     *)
(* find positions, fill a budget and load a configuration, each over every *)
(* small input.                                                            *)
(***************************************************************************)
EXTENDS Traversal, LineIndex, ContextAssembly, Configuration

CONSTANT MaxBytes  \* of a text

\* Two nodes of one name; a cycle, a self-reference and two edges between the
\* same nodes.
MCNameOf == 1 :> "f" @@ 2 :> "g" @@ 3 :> "g" @@ 4 :> "h"
MCFrom == 1 :> 1 @@ 2 :> 2 @@ 3 :> 1 @@ 4 :> 3 @@ 5 :> 2 @@ 6 :> 3
MCTo   == 1 :> 2 @@ 2 :> 3 @@ 3 :> 2 @@ 4 :> 1 @@ 5 :> 2 @@ 6 :> 4

VARIABLE input  \* of a function, or Nothing while a traversal runs

Nothing == [of |-> "nothing"]
Unasked == state = "idle" /\ rows = {} /\ edges = {} /\ input = Nothing

MCInit == Init /\ input = Nothing
Traverse == Next /\ UNCHANGED input

\* Texts grow by a byte.
ReadText ==
    /\ Unasked
    /\ input' = [of |-> "text", bytes |-> <<>>]
    /\ UNCHANGED vars
ReadByte ==
    /\ input.of = "text" /\ Len(input.bytes) < MaxBytes
    /\ \E b \in Bytes : input' = [input EXCEPT !.bytes = Append(@, b)]
    /\ UNCHANGED vars

\* Three nodes, with a row or without, that lead to one another; each of the
\* measures is large for one of them.
Targets == {<<>>, <<1>>, <<2, 3>>, <<3, 1, 2>>}
Measures == [bytes : 1 .. 2, lines : {1}, units : {1}]
AskContext ==
    /\ Unasked
    /\ \E roots \in SUBSET {1, 2, 3}, present \in SUBSET {1, 2, 3}, targets \in [1 .. 3 -> Targets],
          size \in [1 .. 3 -> Measures], budget \in 0 .. 5 :
          input' = [of |-> "context", roots |-> roots, rows |-> present, targets |-> targets,
                    size |-> size, budget |-> budget]
    /\ UNCHANGED vars

\* Files that set a validated setting, well or not, or a plain one; name a
\* provider, an endpoint, a key or a profile; and add an exclusion.
MCSettings ==
    {<<>>, "retrieval.default_mode" :> "invalid", "retrieval.default_mode" :> "graph",
     "daemon.idle_timeout_secs" :> "short",
     "enrichment.provider" :> "custom", "enrichment.provider" :> "google" @@ "retrieval.default_mode" :> "graph",
     "enrichment.endpoint" :> "elsewhere", "enrichment.api_key_env" :> "KEY", "embedding.api_key_env" :> "KEY" @@ "embedding.provider" :> "openai"}
Profiles == {NoProviders, "custom" :> [endpoint |-> "url", api_key_env |-> "unset"],
             "custom" :> [endpoint |-> "unset", api_key_env |-> "CUSTOM_KEY"]}
Exclusions == {[l \in Lists |-> {}], [l \in Lists |-> {"vendor"}]}
ConfigFiles == {Missing, Unparsed}
    \cup [parses : {TRUE}, schema : {0, 1, 2}, scalars : MCSettings, lists : Exclusions, providers : Profiles,
          missing : {FALSE}]
LoadConfig ==
    /\ Unasked
    /\ \E user, project \in ConfigFiles, explicit \in {Missing} \cup {f \in ConfigFiles : f.schema = 1} :
          /\ explicit.missing \/ project.missing
          /\ input' = [of |-> "config", user |-> user, project |-> project, explicit |-> explicit]
    /\ UNCHANGED vars

MCNext == Traverse \/ ReadText \/ ReadByte \/ AskContext \/ LoadConfig

MCSpec == MCInit /\ [][MCNext]_<<vars, input>>

-----------------------------------------------------------------------------
(* Properties, of the input that was chosen.                               *)

\* Offsets become the positions the line index specification gives them,
\* through any checkpoints (line_index.rs offset_to_position).
PositionsAreScalarPositions == input.of = "text" => PositionIsTheScalarPosition(input.bytes)

\* The bytes the preview of a match is cut from are whole lines and hold the
\* match (direct_scanner.rs scan_snapshot).
PreviewSpansHoldTheMatch == input.of = "text" => SpanHoldsTheMatch(input.bytes)

\* Assembling under a budget and packing to it give the same context
\* (repin-context/src/lib.rs).
BudgetedContextsAgree ==
    input.of = "context" => BudgetsAgree(input.roots, input.rows, input.targets, input.size, input.budget)

\* Layers have the precedence ADR-021 states (discovery.rs load_effective_config).
LayersHavePrecedence == input.of = "config" => HighestLayerDecides(input.user, input.project, input.explicit)

\* A project's file may pick a provider, never the key that is used with it
\* (ADR-022; config/mod.rs validate_project_toml_str).
ProjectsNameNoKeys ==
    input.of = "config" /\ input.explicit.missing => KeysAreTheUsers(input.user, input.project)

\* Not true of the code; see the README.
CheckpointsAtEveryStride ==
    input.of = "text" => \A k \in DOMAIN LineStarts(input.bytes) : CheckpointAtEveryStride(Line(input.bytes, k))
OffsetsInsideScalarsAreRejected == input.of = "text" => OffsetsAreRejectedOrDistinct(input.bytes)
ProjectsNameNoEndpoints ==
    input.of = "config" /\ input.explicit.missing => EndpointsAreTheUsers(input.user, input.project)
BadUserFilesAreIgnored ==
    input.of = "config" /\ input.explicit.missing => RefusedFilesChangeNothing(input.user, input.project)
=============================================================================
