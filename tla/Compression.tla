---------------------------- MODULE Compression -----------------------------
(***************************************************************************)
(* Values compressed by runs of equal bytes (compression.rs): `compress`,  *)
(* `decompress` and the statistics of what was stored, one step per turn   *)
(* of their loops.  A caller compresses values and reads them back, or     *)
(* reads back an entry it did not get from `compress`, whose fields are    *)
(* public and may be anything.                                             *)
(***************************************************************************)
EXTENDS Integers, Sequences, SequencesExt, FiniteSetsExt

CONSTANTS
    Base,       \* a byte is one of 0 .. Base - 1 (256)
    MinRun,     \* MIN_RUN (4)
    MinSizes,   \* the CompressionConfig.min_size a caller may choose
    Plain,      \* the values that are compressed
    Foreign,    \* the entries that did not come from compress
    MaxValues   \* BOUND on the values a caller compresses

Byte == 0 .. Base - 1
Marker == Base - 1          \* MARKER, 0xFF
RunTag == 0
EscapeTag == 1
MaxRun == Base * Base - 1   \* 65535

Entries == [data : Seq(Byte), size : Nat, compressed : BOOLEAN]

ASSUME CompressionAssumption ==
    /\ Base \in Nat /\ Base >= 3
    /\ MinRun \in Nat \ {0}
    /\ MinSizes \subseteq Nat
    /\ Plain \subseteq Seq(Byte)
    /\ Foreign \subseteq Entries
    /\ MaxValues \in Nat

NoStats == [compressedCount |-> 0, skippedCount |-> 0, totalOriginal |-> 0, totalStored |-> 0]

VARIABLES
    step,      \* "chosen", "pack", "packed", "read" or "read back"
    minSize,
    source,    \* the value to compress
    ours,      \* whether the entry comes from compress
    entry,     \* the CompressedEntry
    i,         \* the bytes the loop has consumed
    out,       \* the bytes it has written
    verdict,   \* what decompress returns: "ok" with the bytes of out, or an error
    stats      \* CompressionStats

vars == <<step, minSize, source, ours, entry, i, out, verdict, stats>>

Raw(data) == [data |-> data, size |-> Len(data), compressed |-> FALSE]

Init ==
    /\ minSize \in MinSizes
    /\ i = 0 /\ out = <<>> /\ verdict = "none" /\ stats = NoStats
    /\ \/ /\ ours = TRUE /\ step = "chosen"
          /\ source \in Plain /\ entry = Raw(<<>>)
       \/ /\ ours = FALSE /\ step = "packed"
          /\ source = <<>> /\ entry \in Foreign

-----------------------------------------------------------------------------
\* Mutant: the length of a run is not limited to what its two bytes hold.
RunUncapped(data, n) ==
    Max({1} \cup {r \in 1 .. Len(data) - n : \A m \in 1 .. r : data[n + m] = data[n + 1]})

\* The length of the run of equal bytes at offset n.
RunLength(data, n) ==
    Max({r \in 1 .. Min({Len(data) - n, MaxRun}) :
            \A m \in 1 .. r : data[n + m] = data[n + 1]})

\* Consume n bytes of the input and write the bytes w.
Turn(n, w) ==
    /\ i' = i + n
    /\ out' = out \o w
    /\ UNCHANGED <<step, minSize, source, ours, entry, verdict, stats>>

\* compress: a value below min_size is kept as it is.
Pack ==
    /\ step = "chosen"
    /\ i' = 0 /\ out' = <<>>
    /\ IF Len(source) < minSize
       THEN step' = "packed" /\ entry' = Raw(source)
       ELSE step' = "pack" /\ UNCHANGED entry
    /\ UNCHANGED <<minSize, source, ours, verdict, stats>>

Packing == step = "pack" /\ i < Len(source)

PackRun ==
    /\ Packing
    /\ LET n == RunLength(source, i)
       IN  /\ n >= MinRun
           /\ Turn(n, <<Marker, RunTag, source[i + 1], (n \div Base) % Base, n % Base>>)

PackMarker ==
    /\ Packing /\ RunLength(source, i) < MinRun /\ source[i + 1] = Marker
    /\ Turn(1, <<Marker, EscapeTag>>)

PackByte ==
    /\ Packing /\ RunLength(source, i) < MinRun /\ source[i + 1] # Marker
    /\ Turn(1, <<source[i + 1]>>)

\* The packed form is kept only when it is shorter.
Kept(data, packed) ==
    IF Len(packed) >= Len(data) THEN Raw(data)
    ELSE [data |-> packed, size |-> Len(data), compressed |-> TRUE]

PackEnd ==
    /\ step = "pack" /\ i = Len(source)
    /\ step' = "packed"
    /\ entry' = Kept(source, out)
    /\ UNCHANGED <<minSize, source, ours, i, out, verdict, stats>>

-----------------------------------------------------------------------------
ReturnWith(v) ==
    /\ step' = "read back"
    /\ verdict' = v
    /\ UNCHANGED <<minSize, source, ours, entry, i, out, stats>>

ExactLength(bytes, expected) ==
    IF Len(bytes) > expected THEN "too long"
    ELSE IF Len(bytes) < expected THEN "too short" ELSE "ok"

\* decompress: an entry kept as it is needs only the right length.
Unpack ==
    /\ step = "packed"
    /\ IF entry.compressed
       THEN step' = "read" /\ out' = <<>> /\ UNCHANGED verdict
       ELSE step' = "read back" /\ out' = entry.data
            /\ verdict' = ExactLength(entry.data, entry.size)
    /\ i' = 0
    /\ UNCHANGED <<minSize, source, ours, entry, stats>>

Reading == step = "read" /\ i < Len(entry.data)
Room == entry.size - Len(out)
At(n) == entry.data[i + n]
AtMarker == Reading /\ At(1) = Marker
Tagged(tag) == AtMarker /\ i + 2 <= Len(entry.data) /\ At(2) = tag

ReadByte ==
    /\ Reading /\ At(1) # Marker
    /\ IF Room = 0 THEN ReturnWith("too long") ELSE Turn(1, <<At(1)>>)

ReadNoTag == AtMarker /\ i + 2 > Len(entry.data) /\ ReturnWith("truncated")

\* Mutant: the loop moves on by the length of the run.
ReadRunByLength ==
    /\ Tagged(RunTag)
    /\ IF i + 5 > Len(entry.data) THEN ReturnWith("truncated")
       ELSE LET n == At(4) * Base + At(5)
            IN  IF n > Room THEN ReturnWith("too long")
                ELSE Turn(n, [m \in 1 .. n |-> At(3)])

\* Mutant: a run is written before its length is looked at.
ReadRunUnbounded ==
    /\ Tagged(RunTag)
    /\ IF i + 5 > Len(entry.data) THEN ReturnWith("truncated")
       ELSE Turn(5, [m \in 1 .. At(4) * Base + At(5) |-> At(3)])

ReadRun ==
    /\ Tagged(RunTag)
    /\ IF i + 5 > Len(entry.data) THEN ReturnWith("truncated")
       ELSE LET n == At(4) * Base + At(5)
            IN  IF n > Room THEN ReturnWith("too long")
                ELSE Turn(5, [m \in 1 .. n |-> At(3)])

ReadEscape ==
    /\ Tagged(EscapeTag)
    /\ IF Room = 0 THEN ReturnWith("too long") ELSE Turn(2, <<Marker>>)

ReadUnknown ==
    /\ AtMarker /\ i + 2 <= Len(entry.data)
    /\ At(2) \notin {RunTag, EscapeTag}
    /\ ReturnWith("unknown tag")

ReadEnd ==
    /\ step = "read" /\ i >= Len(entry.data)
    /\ ReturnWith(ExactLength(out, entry.size))

-----------------------------------------------------------------------------
\* What CompressionStats::record makes of the statistics.
Recorded(s, e) ==
    [s EXCEPT !.totalOriginal = @ + e.size,
              !.totalStored = @ + Len(e.data),
              !.compressedCount = @ + (IF e.compressed THEN 1 ELSE 0),
              !.skippedCount = @ + (IF e.compressed THEN 0 ELSE 1)]

\* The caller counts the entry and turns to its next value.
RecordAndGoOn ==
    /\ step = "read back" /\ ours
    /\ stats.compressedCount + stats.skippedCount < MaxValues
    /\ stats' = Recorded(stats, entry)
    /\ source' \in Plain
    /\ step' = "chosen" /\ i' = 0 /\ out' = <<>> /\ verdict' = "none"
    /\ UNCHANGED <<minSize, ours, entry>>

PackStep == Pack \/ PackRun \/ PackMarker \/ PackByte \/ PackEnd

UnpackStep ==
    \/ Unpack \/ ReadByte \/ ReadNoTag \/ ReadRun \/ ReadEscape
    \/ ReadUnknown \/ ReadEnd

Next == PackStep \/ UnpackStep \/ RecordAndGoOn

\* Each function runs to its end once called.
Spec == Init /\ [][Next]_vars /\ WF_vars(PackStep \/ UnpackStep)

-----------------------------------------------------------------------------
TypeOK ==
    /\ step \in {"chosen", "pack", "packed", "read", "read back"}
    /\ minSize \in MinSizes
    /\ source \in Seq(Byte)
    /\ ours \in BOOLEAN
    /\ entry \in Entries
    /\ i \in Nat
    /\ out \in Seq(Byte)
    /\ verdict \in {"none", "ok", "truncated", "unknown tag", "too long", "too short"}
    /\ stats \in [compressedCount : Nat, skippedCount : Nat, totalOriginal : Nat, totalStored : Nat]

\* What compress packed, decompress gives back byte for byte (compression.rs,
\* rle_compress and rle_decompress): markers in the value, runs of markers, runs
\* longer than their two length bytes hold, and packed forms that do not pay.
RoundTrip == step = "read back" /\ ours => verdict = "ok" /\ out = source

\* Reading back never writes more than the entry's original_size, whatever its
\* bytes say (compression.rs, rle_decompress): the room that is left, which the
\* code subtracts as usize, is never below zero, and what is returned as good has
\* exactly that size.
NeverOverrun ==
    /\ step = "read" => Len(out) <= entry.size
    /\ verdict = "ok" => Len(out) = entry.size

\* compress and decompress end, on every value and on every entry (compression.rs,
\* the two while loops): a run of length 0 does not hold the reading loop where
\* it is.
CallsEnd == step # "read back" ~> step = "read back"

=============================================================================
