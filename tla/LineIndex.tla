----------------------------- MODULE LineIndex -----------------------------
(***************************************************************************)
(* From byte offsets to lines and columns (repin-core/src/line_index.rs)   *)
(* and the lines a match touches, from which its preview is cut            *)
(* (repin-direct-search/src/direct_scanner.rs).                            *)
(*                                                                         *)
(* A byte is a member of a small set: "a" any ASCII byte but the two of    *)
(* line ends, "n" and "r"; "2" and "3" lead a scalar of two and of three   *)
(* bytes and "c" continues one, where UTF-8 allows it. Offsets count from  *)
(* zero as in the code, positions of a sequence from one.                  *)
(***************************************************************************)
EXTENDS Naturals, FiniteSets, Sequences, Ascending

CONSTANT Stride  \* CHECKPOINT_STRIDE

ASSUME StrideAssumption == Stride \in Nat \ {0}

Bytes == {"a", "n", "r", "2", "3", "c"}
IsAscii(b) == b \in {"a", "n", "r"}

\* bytes[from .. to) of the code.
Slice(bytes, from, to) == SubSeq(bytes, from + 1, to)

-----------------------------------------------------------------------------
(* std::str::from_utf8: the length of the scalar, or of the maximal        *)
(* invalid run, that begins a slice. A scalar cut off by the end of the    *)
(* slice reaches to that end.                                              *)

ScalarBytes(b) == CASE IsAscii(b) -> 1 [] b = "2" -> 2 [] b = "3" -> 3 [] b = "c" -> 1
Continued(bytes, k) == \A i \in 2 .. k : bytes[i] = "c"
FirstScalar(bytes) ==
    LET fits == {k \in 1 .. ScalarBytes(bytes[1]) : k <= Len(bytes) /\ Continued(bytes, k)}
    IN  CHOOSE k \in fits : \A j \in fits : j <= k

\* Offsets at which a scalar or an invalid run of a slice begins.
Starts(bytes) ==
    LET startsAt[i \in 0 .. Len(bytes)] ==
            IF i = Len(bytes) THEN {}
            ELSE {i} \cup startsAt[i + FirstScalar(Slice(bytes, i, Len(bytes)))]
    IN  startsAt[0]

Scalars(bytes) == Cardinality(Starts(bytes))

-----------------------------------------------------------------------------
(* LineIndex::build.                                                       *)

\* A line ends before "\n", or before "\r\n".
EndsAt(bytes, i) == \/ bytes[i + 1] = "n" /\ (i = 0 \/ bytes[i] /= "r")
                    \/ bytes[i + 1] = "r" /\ i + 2 <= Len(bytes) /\ bytes[i + 2] = "n"
Ends(bytes) == {i \in 0 .. Len(bytes) - 1 : EndsAt(bytes, i)}
AfterEnd(bytes, i) == IF bytes[i + 1] = "n" THEN i + 1 ELSE i + 2
LineStarts(bytes) == Ascending({0} \cup {AfterEnd(bytes, i) : i \in Ends(bytes)})

\* Bytes of a line without its end.
Line(bytes, k) ==
    LET start == LineStarts(bytes)[k]
        end == {i \in Ends(bytes) : i >= start} \cup {Len(bytes)}
    IN  Slice(bytes, start, CHOOSE i \in end : \A j \in end : i <= j)
IsSpecial(bytes, k) == \E i \in DOMAIN Line(bytes, k) : ~ IsAscii(Line(bytes, k)[i])

\* A maximal invalid run begins these bytes, cut off by their end or not.
IsInvalid(bytes) == bytes[1] = "c" \/ FirstScalar(bytes) < ScalarBytes(bytes[1])

\* compute_checkpoints looks for a boundary before every scalar and every
\* invalid run, but not before a run that follows a valid scalar.
Looked(line) ==
    LET Invalid(s) == IsInvalid(Slice(line, s, Len(line)))
        After(s) == s + FirstScalar(Slice(line, s, Len(line)))
    IN  {s \in Starts(line) : Invalid(s) => \A r \in Starts(line) : After(r) = s => Invalid(r)}

\* A mutant: the scalar at the checkpoint is counted before it.
CheckpointsCountOneMore(line) ==
    LET after[boundary \in 0 .. Len(line) + Stride] ==
            LET beyond == {s \in Looked(line) : s >= boundary}
            IN  IF beyond = {} THEN {}
                ELSE LET s == CHOOSE s \in beyond : \A t \in beyond : s <= t
                     IN  {[bytes |-> s, scalars |-> Cardinality({t \in Starts(line) : t <= s})]}
                         \cup after[s + Stride]
    IN  after[Stride]

\* compute_checkpoints: at the first place the code looks at, at or beyond a
\* stride after the checkpoint before, the bytes and the scalars up to it.
Checkpoints(line) ==
    LET after[boundary \in 0 .. Len(line) + Stride] ==
            LET beyond == {s \in Looked(line) : s >= boundary}
            IN  IF beyond = {} THEN {}
                ELSE LET s == CHOOSE s \in beyond : \A t \in beyond : s <= t
                     IN  {[bytes |-> s, scalars |-> Cardinality({t \in Starts(line) : t < s})]}
                         \cup after[s + Stride]
    IN  after[Stride]

-----------------------------------------------------------------------------
(* LineIndex::offset_to_position.                                          *)

LineOf(bytes, offset) ==
    LET starts == LineStarts(bytes) IN
    CHOOSE k \in DOMAIN starts : starts[k] <= offset /\ \A j \in DOMAIN starts : starts[j] <= offset => j <= k

Position(bytes, offset) ==
    LET k == LineOf(bytes, offset)
        start == LineStarts(bytes)[k]
        delta == offset - start
        before == {c \in Checkpoints(Line(bytes, k)) : c.bytes <= delta} \cup {[bytes |-> 0, scalars |-> 0]}
        nearest == CHOOSE c \in before : \A d \in before : d.bytes <= c.bytes
    IN  [line |-> k,
         column |-> IF IsSpecial(bytes, k)
                    THEN nearest.scalars + Scalars(Slice(bytes, start + nearest.bytes, offset)) + 1
                    ELSE delta + 1]

\* A mutant: the span ends where the line of the match's start ends.
SpanOfFirstLine(bytes, from, to) ==
    LET starts == LineStarts(bytes)
        first == LineOf(bytes, from)
    IN  [from |-> starts[first], to |-> IF first + 1 \in DOMAIN starts THEN starts[first + 1] ELSE Len(bytes)]

\* DirectScanner::scan_snapshot: the lines of the positions where a match begins
\* and ends, the source of its preview.
PreviewSpan(bytes, from, to) ==
    LET starts == LineStarts(bytes)
        first == LineOf(bytes, from)
        last == LineOf(bytes, to)
    IN  [from |-> starts[first], to |-> IF last + 1 \in DOMAIN starts THEN starts[last + 1] ELSE Len(bytes)]

-----------------------------------------------------------------------------
(* Reference: docs/code/specifications/sparse-line-index.md, 3.            *)

\* The line counts the line ends before the offset, the column the scalars of
\* the line, decoded as a whole, that begin before it; the stride changes
\* nothing.
ScalarPosition(bytes, offset) ==
    LET passed == {i \in 0 .. offset - 1 : bytes[i + 1] = "n"}
        start == IF passed = {} THEN 0 ELSE (CHOOSE i \in passed : \A j \in passed : j <= i) + 1
    IN  [line |-> Cardinality(passed) + 1,
         column |-> Cardinality({s \in Starts(Slice(bytes, start, Len(bytes))) : start + s < offset}) + 1]

PositionIsTheScalarPosition(bytes) ==
    \A offset \in 0 .. Len(bytes) : Position(bytes, offset) = ScalarPosition(bytes, offset)

\* The bytes a preview is cut from, before they are trimmed and redacted, are
\* whole lines and hold the match.
SpanHoldsTheMatch(bytes) ==
    \A from \in 0 .. Len(bytes) : \A to \in from .. Len(bytes) :
        LET span == PreviewSpan(bytes, from, to)
        IN  /\ span.from <= from /\ to <= span.to
            /\ span.from = 0 \/ bytes[span.from] = "n"
            /\ span.to = Len(bytes) \/ bytes[span.to] = "n"

\* "The implementation places a checkpoint at the first decoded scalar boundary
\* at or beyond each stride boundary, never in the middle of a UTF-8 sequence or
\* maximal invalid run": until the line ends, the next scalar or run a stride
\* beyond a checkpoint, or beyond the start, holds one. Not true of the code; see
\* the README.
CheckpointAtEveryStride(line) ==
    LET placed == {c.bytes : c \in Checkpoints(line)}
    IN  /\ placed \subseteq Starts(line)
        /\ \A from \in {0} \cup placed, s \in Starts(line) :
              /\ s >= from + Stride
              /\ \A t \in Starts(line) : t >= from + Stride => s <= t
              => s \in placed

\* "Offsets inside a multi-byte scalar or invalid run are not valid evidence
\* boundaries. The adapter must reject them": two offsets of one line never
\* have one position. Not true of the code; see the README.
OffsetsAreRejectedOrDistinct(bytes) ==
    \A i, j \in 0 .. Len(bytes) : i /= j => Position(bytes, i) /= Position(bytes, j)
=============================================================================
