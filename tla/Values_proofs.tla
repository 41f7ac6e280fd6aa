--------------------------- MODULE Values_proofs ----------------------------
(***************************************************************************)
(* Proofs about values that are compressed or encrypted, for every         *)
(* alphabet, value, key and entry whatsoever.                              *)
(*                                                                         *)
(* Reading back stays in bounds because each turn of the reading loop      *)
(* looks at the room left before it writes, and because the bytes a run's  *)
(* length is made of are bytes.  It gives back what was packed because     *)
(* the packed form and the value can be cut into pieces that correspond:   *)
(* packing adds a piece a turn, and reading takes one.  Entries that were  *)
(* decrypted compare as their plaintexts do because each was checked       *)
(* against the digest it was handed in with.                               *)
(***************************************************************************)
EXTENDS Compression, CryptoCache, Counting

-----------------------------------------------------------------------------
(* Runs.                                                                   *)

\* A run has at least the byte it starts with, is of equal bytes, ends within the
\* data, and is no longer than its two length bytes hold.
LEMMA RunLengthType ==
    ASSUME NEW data \in Seq(Byte), NEW n \in Nat, n < Len(data)
    PROVE  /\ RunLength(data, n) \in Nat
           /\ RunLength(data, n) >= 1 /\ n + RunLength(data, n) <= Len(data)
           /\ RunLength(data, n) <= MaxRun
           /\ \A m \in 1 .. RunLength(data, n) : data[n + m] = data[n + 1]
<1> DEFINE top == Min({Len(data) - n, MaxRun})
           runs == {r \in 1 .. top : \A m \in 1 .. r : data[n + m] = data[n + 1]}
<1>1. /\ Len(data) \in Nat /\ Len(data) - n \in Nat \ {0}
      /\ MaxRun \in Nat \ {0}
  <2>1. Base * Base >= Base
    BY CompressionAssumption
  <2>2. Base * Base \in Nat
    BY CompressionAssumption
  <2> QED
    BY <2>1, <2>2, CompressionAssumption DEF MaxRun
<1>2. top \in Nat \ {0} /\ top <= Len(data) - n /\ top <= MaxRun
  <2>1. \E x \in {Len(data) - n, MaxRun} : \A y \in {Len(data) - n, MaxRun} : x <= y
    BY <1>1
  <2>2. /\ top \in {Len(data) - n, MaxRun}
        /\ \A y \in {Len(data) - n, MaxRun} : top <= y
    BY <2>1 DEF Min
  <2> QED
    BY <1>1, <2>2
<1> HIDE DEF top
<1>3. 1 \in runs /\ runs \in SUBSET Nat /\ runs \subseteq 1 .. top
  BY <1>2
<1>4. IsFiniteSet(runs)
  <2>1. 1 \in Int /\ top \in Int
    BY <1>2
  <2>2. IsFiniteSet(1 .. top)
    BY <2>1, FS_Interval
  <2> QED
    BY <1>3, <2>2, FS_Subset
<1>5. RunLength(data, n) = Max(runs)
  BY DEF RunLength, top
<1>6. \A r \in runs : \A m \in 1 .. r : data[n + m] = data[n + 1]
  OBVIOUS
<1> HIDE DEF runs
<1>7. Max(runs) \in runs
  BY <1>3, <1>4, MaxOfNaturals
<1>8. RunLength(data, n) \in 1 .. top
  BY <1>3, <1>5, <1>7
<1>9. \A m \in 1 .. RunLength(data, n) : data[n + m] = data[n + 1]
  BY <1>5, <1>6, <1>7
<1> QED
  BY <1>1, <1>2, <1>8, <1>9

-----------------------------------------------------------------------------
(* The inductive invariant.                                                *)

Stats == [compressedCount : Nat, skippedCount : Nat, totalOriginal : Nat, totalStored : Nat]

\* What is not kept packed is kept as it is.
RawIsSource ==
    ours /\ step \in {"packed", "read", "read back"} /\ ~entry.compressed => entry.data = source

Inv ==
    /\ TypeOK
    /\ NeverOverrun
    /\ RawIsSource
    /\ step # "read back" => verdict = "none"
    /\ step = "pack" => ours /\ i <= Len(source)
    /\ step = "chosen" => ours
    /\ ours /\ step \in {"packed", "read", "read back"} => entry.size = Len(source)

LEMMA ByteType ==
    /\ Marker \in Byte /\ RunTag \in Byte /\ EscapeTag \in Byte
    /\ \A n \in Nat : n % Base \in Byte
    /\ Byte \subseteq Nat
  BY CompressionAssumption DEF Byte, Marker, RunTag, EscapeTag

LEMMA RawType ==
    ASSUME NEW data \in Seq(Byte)
    PROVE  /\ Raw(data) \in Entries /\ Raw(data).data = data
           /\ Raw(data).size = Len(data) /\ Raw(data).compressed = FALSE
  BY DEF Raw, Entries

LEMMA EntryType ==
    ASSUME Inv
    PROVE  /\ entry.data \in Seq(Byte) /\ entry.size \in Nat /\ entry.compressed \in BOOLEAN
           /\ Len(entry.data) \in Nat
           /\ source \in Seq(Byte) /\ out \in Seq(Byte) /\ i \in Nat
           /\ Len(source) \in Nat /\ Len(out) \in Nat
<1>1. entry.data \in Seq(Byte) /\ entry.size \in Nat /\ entry.compressed \in BOOLEAN
  BY DEF Inv, TypeOK, Entries
<1>2. source \in Seq(Byte) /\ out \in Seq(Byte) /\ i \in Nat
  BY DEF Inv, TypeOK
<1>3. Len(entry.data) \in Nat /\ Len(source) \in Nat /\ Len(out) \in Nat
  BY <1>1, <1>2
<1> QED
  BY <1>1, <1>2, <1>3

LEMMA InitInv == Init => Inv
<1> SUFFICES ASSUME Init PROVE Inv
  OBVIOUS
<1>1. NoStats \in Stats
  BY DEF NoStats, Stats
<1>2. <<>> \in Seq(Byte)
  OBVIOUS
<1>3. TypeOK
  BY <1>1, <1>2, RawType, CompressionAssumption DEF Init, TypeOK, Stats
<1>4. step \in {"chosen", "packed"} /\ verdict = "none"
  BY DEF Init
<1>5. NeverOverrun
  BY <1>4 DEF NeverOverrun
<1>6. ours => step = "chosen"
  BY DEF Init
<1>7. step = "chosen" => ours
  BY DEF Init
<1>8. RawIsSource
  BY <1>6 DEF RawIsSource
<1> QED
  BY <1>3, <1>4, <1>5, <1>6, <1>7, <1>8 DEF Inv

\* A turn that writes bytes, in the room that is left when it reads.
LEMMA TurnStep ==
    ASSUME Inv, NEW n \in Nat, NEW w \in Seq(Byte), Turn(n, w),
           step \in {"pack", "read"},
           step = "pack" => i + n <= Len(source),
           step = "read" => Len(w) <= Room
    PROVE  Inv'
<1>1. /\ i' = i + n /\ out' = out \o w
      /\ UNCHANGED <<step, minSize, source, ours, entry, verdict, stats>>
  BY DEF Turn
<1>2. out' \in Seq(Byte) /\ Len(out') = Len(out) + Len(w) /\ i' \in Nat
  BY <1>1, EntryType
<1>3. TypeOK'
  BY <1>1, <1>2 DEF Inv, TypeOK
<1>4. verdict' = "none"
  BY <1>1 DEF Inv
<1>5. NeverOverrun'
  BY <1>1, <1>2, <1>4, EntryType DEF NeverOverrun, Room
<1>6. RawIsSource'
  BY <1>1 DEF Inv, RawIsSource
<1> QED
  BY <1>1, <1>3, <1>4, <1>5, <1>6 DEF Inv

\* The end of a read.
LEMMA FinishStep ==
    ASSUME Inv, step = "read", NEW v, ReturnWith(v),
           v \in {"truncated", "unknown tag", "too long", "too short", "ok"},
           v = "ok" => Len(out) = entry.size
    PROVE  Inv'
<1>1. /\ step' = "read back" /\ verdict' = v
      /\ UNCHANGED <<minSize, source, ours, entry, i, out, stats>>
  BY DEF ReturnWith
<1>2. TypeOK'
  BY <1>1 DEF Inv, TypeOK
<1>3. NeverOverrun' /\ RawIsSource'
  BY <1>1 DEF Inv, NeverOverrun, RawIsSource
<1> QED
  BY <1>1, <1>2, <1>3 DEF Inv

\* The room that is left to read is never below zero.
LEMMA RoomLeft ==
    ASSUME Inv, step = "read"
    PROVE  Room \in Nat
<1>1. Len(out) <= entry.size
  BY DEF Inv, NeverOverrun
<1>2. Len(out) \in Nat /\ entry.size \in Nat
  BY EntryType
<1> QED
  BY <1>1, <1>2 DEF Room

LEMMA ExactLengthSays ==
    ASSUME NEW bytes \in Seq(Byte), NEW expected \in Nat
    PROVE  /\ ExactLength(bytes, expected) \in {"too long", "too short", "ok"}
           /\ ExactLength(bytes, expected) = "ok" => Len(bytes) = expected
  BY DEF ExactLength

-----------------------------------------------------------------------------
(* compress.                                                               *)

LEMMA PackKeeps ==
    ASSUME Inv, PackStep
    PROVE  Inv'
<1>1. ASSUME Pack PROVE Inv'
  <2>1. /\ step = "chosen" /\ i' = 0 /\ out' = <<>>
        /\ UNCHANGED <<minSize, source, ours, verdict, stats>>
        /\ \/ step' = "packed" /\ entry' = Raw(source)
           \/ step' = "pack" /\ entry' = entry
    BY <1>1 DEF Pack
  <2>2. TypeOK'
    <3>1. entry' \in Entries
      BY <2>1, EntryType, RawType DEF Inv, TypeOK
    <3>2. step' \in {"chosen", "pack", "packed", "read", "read back"}
      BY <2>1
    <3>3. i' \in Nat /\ out' \in Seq(Byte)
      BY <2>1
    <3> QED
      BY <2>1, <3>1, <3>2, <3>3 DEF Inv, TypeOK
  <2>3. NeverOverrun' /\ RawIsSource'
    BY <2>1, EntryType, RawType DEF Inv, NeverOverrun, RawIsSource
  <2>4. verdict' = "none" /\ ours' /\ i' = 0
    BY <2>1 DEF Inv
  <2>5. step' = "packed" => entry'.size = Len(source')
    BY <2>1, EntryType, RawType
  <2>6. step' \in {"pack", "packed"} /\ i' <= Len(source')
    BY <2>1, EntryType
  <2> QED
    BY <2>2, <2>3, <2>4, <2>5, <2>6 DEF Inv
<1>2. ASSUME PackRun PROVE Inv'
  <2> DEFINE n == RunLength(source, i)
             w == <<Marker, RunTag, source[i + 1], (n \div Base) % Base, n % Base>>
  <2>1. step = "pack" /\ i < Len(source) /\ Turn(n, w)
    BY <1>2 DEF PackRun, Packing
  <2>2. n \in Nat /\ i + n <= Len(source)
    BY <2>1, EntryType, RunLengthType
  <2>3. source[i + 1] \in Byte
    BY <2>1, EntryType
  <2>4. (n \div Base) \in Nat
    BY <2>2, CompressionAssumption
  <2>5. w \in Seq(Byte)
    BY <2>2, <2>3, <2>4, ByteType
  <2> HIDE DEF n, w
  <2> QED
    BY <2>1, <2>2, <2>5, TurnStep
<1>3. ASSUME PackMarker PROVE Inv'
  <2>1. step = "pack" /\ i < Len(source) /\ Turn(1, <<Marker, EscapeTag>>)
    BY <1>3 DEF PackMarker, Packing
  <2>2. <<Marker, EscapeTag>> \in Seq(Byte) /\ i + 1 <= Len(source) /\ 1 \in Nat
    BY <2>1, EntryType, ByteType
  <2> QED
    BY <2>1, <2>2, TurnStep
<1>4. ASSUME PackByte PROVE Inv'
  <2>1. step = "pack" /\ i < Len(source) /\ Turn(1, <<source[i + 1]>>)
    BY <1>4 DEF PackByte, Packing
  <2>2. <<source[i + 1]>> \in Seq(Byte) /\ i + 1 <= Len(source) /\ 1 \in Nat
    BY <2>1, EntryType
  <2> QED
    BY <2>1, <2>2, TurnStep
<1>5. ASSUME PackEnd PROVE Inv'
  <2>1. /\ step = "pack" /\ step' = "packed" /\ entry' = Kept(source, out)
        /\ UNCHANGED <<minSize, source, ours, i, out, verdict, stats>>
    BY <1>5 DEF PackEnd
  <2>2. /\ entry' \in Entries /\ entry'.size = Len(source)
        /\ IF entry'.compressed THEN Len(entry'.data) < entry'.size
           ELSE entry'.data = source
    <3>1. CASE Len(out) >= Len(source)
      <4>1. entry' = Raw(source)
        BY <2>1, <3>1 DEF Kept
      <4> QED
        BY <4>1, EntryType, RawType
    <3>2. CASE ~(Len(out) >= Len(source))
      <4>1. entry' = [data |-> out, size |-> Len(source), compressed |-> TRUE]
        BY <2>1, <3>2 DEF Kept
      <4>2. Len(out) < Len(source)
        BY <3>2, EntryType
      <4>3. entry' \in Entries
        BY <4>1, EntryType DEF Entries
      <4> QED
        BY <4>1, <4>2, <4>3
    <3> QED
      BY <3>1, <3>2
  <2>3. TypeOK'
    BY <2>1, <2>2 DEF Inv, TypeOK
  <2>4. NeverOverrun' /\ RawIsSource'
    BY <2>1, <2>2 DEF Inv, NeverOverrun, RawIsSource
  <2> QED
    BY <2>1, <2>2, <2>3, <2>4 DEF Inv
<1> QED
  BY <1>1, <1>2, <1>3, <1>4, <1>5 DEF PackStep

-----------------------------------------------------------------------------
(* decompress.                                                             *)

LEMMA UnpackKeeps ==
    ASSUME Inv, UnpackStep
    PROVE  Inv'
<1> USE DEF Reading, AtMarker, Tagged, At
<1>1. ASSUME Unpack PROVE Inv'
  <2>1. /\ step = "packed" /\ i' = 0
        /\ UNCHANGED <<minSize, source, ours, entry, stats>>
        /\ \/ step' = "read" /\ out' = <<>> /\ verdict' = verdict
           \/ /\ step' = "read back" /\ out' = entry.data
              /\ verdict' = ExactLength(entry.data, entry.size)
    BY <1>1 DEF Unpack
  <2>2. /\ ExactLength(entry.data, entry.size) \in {"too long", "too short", "ok"}
        /\ ExactLength(entry.data, entry.size) = "ok" => Len(entry.data) = entry.size
    BY EntryType, ExactLengthSays
  <2>3. TypeOK'
    <3>1. out' \in Seq(Byte) /\ i' \in Nat
      <4>1. i' = 0 /\ (out' = <<>> \/ out' = entry.data)
        BY <2>1
      <4>2. entry.data \in Seq(Byte) /\ <<>> \in Seq(Byte) /\ 0 \in Nat
        BY EntryType
      <4> QED
        BY <4>1, <4>2
    <3>2. /\ step' \in {"read", "read back"}
          /\ verdict' \in {"none", "ok", "too long", "too short"}
      BY <2>1, <2>2 DEF Inv
    <3> QED
      BY <2>1, <3>1, <3>2 DEF Inv, TypeOK
  <2>4. NeverOverrun' /\ RawIsSource'
    <3>1. step' = "read" => Len(out') <= entry'.size
      <4>1. Len(<<>>) = 0 /\ entry.size \in Nat
        BY EntryType
      <4> QED
        BY <2>1, <4>1
    <3>2. verdict' = "ok" => Len(out') = entry'.size
      BY <2>1, <2>2 DEF Inv
    <3>3. RawIsSource'
      BY <2>1 DEF Inv, RawIsSource
    <3> QED
      BY <3>1, <3>2, <3>3 DEF NeverOverrun
  <2> QED
    BY <2>1, <2>3, <2>4 DEF Inv
<1>2. ASSUME ReadByte PROVE Inv'
  <2>1. /\ step = "read" /\ i < Len(entry.data)
        /\ IF Room = 0 THEN ReturnWith("too long") ELSE Turn(1, <<entry.data[i + 1]>>)
    BY <1>2 DEF ReadByte
  <2>2. <<entry.data[i + 1]>> \in Seq(Byte) /\ 1 \in Nat /\ Len(<<entry.data[i + 1]>>) = 1
    <3>1. entry.data \in Seq(Byte) /\ i \in Nat
      BY EntryType
    <3>2. i < Len(entry.data)
      BY <2>1
    <3>3. entry.data[i + 1] \in Byte
      BY <3>1, <3>2
    <3> QED
      BY <3>3
  <2>3. CASE Room = 0
    BY <2>1, <2>3, FinishStep
  <2>4. CASE Room # 0
    <3>1. Room \in Nat
      BY <2>1, RoomLeft
    <3>2. 1 <= Room
      BY <2>4, <3>1
    <3> QED
      BY <2>1, <2>2, <2>4, <3>2, TurnStep
  <2> QED
    BY <2>3, <2>4
<1>3. ASSUME ReadNoTag PROVE Inv'
  BY <1>3, FinishStep DEF ReadNoTag
<1>4. ASSUME ReadRun PROVE Inv'
  <2> DEFINE n == entry.data[i + 4] * Base + entry.data[i + 5]
             w == [m \in 1 .. n |-> entry.data[i + 3]]
  <2>1. step = "read"
    BY <1>4 DEF ReadRun
  <2>2. CASE i + 5 > Len(entry.data)
    BY <1>4, <2>1, <2>2, FinishStep DEF ReadRun
  <2> DEFINE fits == i + 5 <= Len(entry.data)
  <2>6. fits <=> ~(i + 5 > Len(entry.data))
    BY EntryType
  <2>3. CASE fits /\ n > Room
    <3>1. ReturnWith("too long")
      BY <1>4, <2>3, <2>6 DEF ReadRun
    <3> QED
      BY <2>1, <3>1, FinishStep
  <2>4. CASE fits /\ ~(n > Room)
    <3>1. Turn(5, w)
      BY <1>4, <2>4, <2>6 DEF ReadRun
    <3>2. /\ entry.data[i + 3] \in Byte /\ entry.data[i + 4] \in Byte
          /\ entry.data[i + 5] \in Byte
      BY <2>4, EntryType
    <3>3. n \in Nat
      BY <3>2, CompressionAssumption DEF Byte
    <3>4. w \in Seq(Byte) /\ Len(w) = n
      <4> HIDE DEF n
      <4> QED
        BY <3>2, <3>3
    <3>5. Room \in Int
      BY EntryType DEF Room
    <3> HIDE DEF n, w
    <3> QED
      BY <2>1, <2>4, <3>1, <3>3, <3>4, <3>5, TurnStep
  <2> QED
    BY <2>2, <2>3, <2>4, <2>6
<1>5. ASSUME ReadEscape PROVE Inv'
  <2>1. /\ step = "read"
        /\ IF Room = 0 THEN ReturnWith("too long") ELSE Turn(2, <<Marker>>)
    BY <1>5 DEF ReadEscape
  <2>2. <<Marker>> \in Seq(Byte) /\ 2 \in Nat /\ Len(<<Marker>>) = 1
    BY ByteType
  <2>3. CASE Room = 0
    BY <2>1, <2>3, FinishStep
  <2>4. CASE Room # 0
    <3>1. Room \in Nat
      BY <2>1, RoomLeft
    <3>2. 1 <= Room
      BY <2>4, <3>1
    <3> QED
      BY <2>1, <2>2, <2>4, <3>2, TurnStep
  <2> QED
    BY <2>3, <2>4
<1>6. ASSUME ReadUnknown PROVE Inv'
  BY <1>6, FinishStep DEF ReadUnknown
<1>7. ASSUME ReadEnd PROVE Inv'
  BY <1>7, EntryType, ExactLengthSays, FinishStep DEF ReadEnd
<1> QED
  BY <1>1, <1>2, <1>3, <1>4, <1>5, <1>6, <1>7 DEF UnpackStep

\* The statistics of an entry that was made by compress.
LEMMA RecordKeeps ==
    ASSUME Inv, RecordAndGoOn
    PROVE  Inv'
<1>1. /\ step = "read back" /\ ours /\ stats' = Recorded(stats, entry)
      /\ source' \in Plain /\ step' = "chosen" /\ i' = 0 /\ out' = <<>>
      /\ verdict' = "none" /\ UNCHANGED <<minSize, ours, entry>>
  BY DEF RecordAndGoOn
<1>2. /\ stats \in Stats
      /\ entry.size \in Nat /\ Len(entry.data) \in Nat /\ entry.compressed \in BOOLEAN
  BY EntryType DEF Inv, TypeOK, Stats
<1>3. stats' \in Stats
  <2> DEFINE c == stats.compressedCount + (IF entry.compressed THEN 1 ELSE 0)
             k == stats.skippedCount + (IF entry.compressed THEN 0 ELSE 1)
             o == stats.totalOriginal + entry.size
             t == stats.totalStored + Len(entry.data)
  <2>1. c \in Nat /\ k \in Nat /\ o \in Nat /\ t \in Nat
    <3>1. /\ stats.compressedCount \in Nat /\ stats.skippedCount \in Nat
          /\ stats.totalOriginal \in Nat /\ stats.totalStored \in Nat
      BY <1>2 DEF Stats
    <3>2. c \in Nat /\ k \in Nat
      BY <1>2, <3>1
    <3> QED
      BY <1>2, <3>1, <3>2
  <2>2. stats' = [compressedCount |-> c, skippedCount |-> k,
                  totalOriginal |-> o, totalStored |-> t]
    BY <1>1, <1>2 DEF Recorded, Stats
  <2> HIDE DEF c, k
  <2> QED
    BY <2>1, <2>2 DEF Stats
<1>4. TypeOK'
  <2>1. source' \in Seq(Byte)
    BY <1>1, CompressionAssumption
  <2>2. out' \in Seq(Byte) /\ i' \in Nat
    <3>1. out' = <<>> /\ i' = 0
      BY DEF RecordAndGoOn
    <3> QED
      BY <3>1
  <2>3. /\ step' \in {"chosen", "pack", "packed", "read", "read back"}
        /\ verdict' \in {"none", "ok", "truncated", "unknown tag", "too long", "too short"}
    <3>1. step' = "chosen" /\ verdict' = "none"
      BY DEF RecordAndGoOn
    <3> QED
      BY <3>1
  <2> QED
    BY <1>1, <1>3, <2>1, <2>2, <2>3 DEF Inv, TypeOK, Stats
<1> QED
  BY <1>1, <1>4 DEF Inv, NeverOverrun, RawIsSource

-----------------------------------------------------------------------------
(* What is packed stands for its source.  The two are cut into pieces that *)
(* correspond: a byte, a marker with its tag, or a run with its length.    *)
(* Packing adds a piece at a time; reading goes from one cut to the next.  *)

\* The bytes of p behind a, up to b, are a piece that stands for those of s
\* behind c, up to d.
BytePiece(p, a, b, s, c, d) ==
    b = a + 1 /\ d = c + 1 /\ p[a + 1] = s[c + 1] /\ p[a + 1] # Marker

MarkerPiece(p, a, b, s, c, d) ==
    /\ b = a + 2 /\ d = c + 1
    /\ p[a + 1] = Marker /\ p[a + 2] = EscapeTag /\ s[c + 1] = Marker

RunPiece(p, a, b, s, c, d) ==
    /\ b = a + 5
    /\ p[a + 1] = Marker /\ p[a + 2] = RunTag
    /\ p[a + 4] * Base + p[a + 5] = d - c
    /\ \A x \in c + 1 .. d : s[x] = p[a + 3]

Piece(p, a, b, s, c, d) ==
    /\ a < b /\ b <= Len(p) /\ c < d /\ d <= Len(s)
    /\ \/ BytePiece(p, a, b, s, c, d)
       \/ MarkerPiece(p, a, b, s, c, d)
       \/ RunPiece(p, a, b, s, c, d)

\* Cuts at which p and the first n bytes of s can be taken to pieces: from every
\* cut there is a piece to the next, until both end.
Cuts(C, p, s, n) ==
    /\ C \subseteq Nat \X Nat
    /\ <<0, 0>> \in C /\ <<Len(p), n>> \in C
    /\ \A q \in C : \/ q = <<Len(p), n>>
                    \/ \E r \in C : Piece(p, q[1], r[1], s, q[2], r[2])

StandsFor(p, s, n) == \E C \in SUBSET (Nat \X Nat) : Cuts(C, p, s, n)

\* What has been read back is at a place where the source and the entry are cut.
ReadSoFar ==
    \E C \in SUBSET (Nat \X Nat) :
        Cuts(C, entry.data, source, Len(source)) /\ <<i, Len(out)>> \in C

Begins(o, s) == Len(o) <= Len(s) /\ \A x \in 1 .. Len(o) : o[x] = s[x]

Faithful ==
    /\ step = "pack" => StandsFor(out, source, i)
    /\ step = "packed" /\ ours /\ entry.compressed
         => StandsFor(entry.data, source, Len(source))
    /\ step = "read" /\ ours => ReadSoFar /\ Begins(out, source)
    /\ RoundTrip

\* Nothing stands for nothing.
LEMMA NothingStands ==
    ASSUME NEW s \in Seq(Byte)
    PROVE  StandsFor(<<>>, s, 0)
<1>1. Cuts({<<0, 0>>}, <<>>, s, 0)
  BY DEF Cuts
<1> QED
  BY <1>1 DEF StandsFor

\* One piece more.
LEMMA PieceMore ==
    ASSUME NEW p \in Seq(Byte), NEW s \in Seq(Byte), NEW n \in Nat, NEW d \in Nat,
           NEW w \in Seq(Byte), StandsFor(p, s, n),
           Piece(p \o w, Len(p), Len(p \o w), s, n, d)
    PROVE  StandsFor(p \o w, s, d)
<1> DEFINE p2 == p \o w
<1>1. PICK C \in SUBSET (Nat \X Nat) : Cuts(C, p, s, n)
  BY DEF StandsFor
<1>2. /\ p2 \in Seq(Byte) /\ Len(p2) = Len(p) + Len(w) /\ Len(p) \in Nat /\ Len(w) \in Nat
      /\ \A x \in 1 .. Len(p) : p2[x] = p[x]
  OBVIOUS
<1> DEFINE end == <<Len(p2), d>>
           D == C \cup {end}
<1>3. D \subseteq Nat \X Nat /\ <<0, 0>> \in D /\ end \in D
  BY <1>1, <1>2 DEF Cuts
<1>4. ASSUME NEW q \in C, NEW r \in C, Piece(p, q[1], r[1], s, q[2], r[2])
      PROVE  Piece(p2, q[1], r[1], s, q[2], r[2])
  <2> DEFINE a == q[1]
             b == r[1]
             c == q[2]
             e == r[2]
  <2>1. a \in Nat /\ b \in Nat /\ c \in Nat /\ e \in Nat
    BY <1>1
  <2>2. Piece(p, a, b, s, c, e)
    BY <1>4
  <2> HIDE DEF a, b, c, e, p2
  <2>3. a < b /\ b <= Len(p) /\ c < e /\ e <= Len(s) /\ b <= Len(p2)
    BY <1>2, <2>1, <2>2 DEF Piece
  <2>4. \A x \in 1 .. b : p2[x] = p[x]
    BY <1>2, <2>1, <2>3
  <2>5. ASSUME BytePiece(p, a, b, s, c, e)
        PROVE  Piece(p2, a, b, s, c, e)
    <3>1. p2[a + 1] = p[a + 1]
      <4>1. a + 1 \in 1 .. b
        BY <2>1, <2>5 DEF BytePiece
      <4> QED
        BY <2>4, <4>1
    <3> QED
      BY <2>3, <2>5, <3>1 DEF Piece, BytePiece
  <2>6. ASSUME MarkerPiece(p, a, b, s, c, e)
        PROVE  Piece(p2, a, b, s, c, e)
    <3>1. p2[a + 1] = p[a + 1] /\ p2[a + 2] = p[a + 2]
      <4>1. a + 1 \in 1 .. b /\ a + 2 \in 1 .. b
        BY <2>1, <2>6 DEF MarkerPiece
      <4> QED
        BY <2>4, <4>1
    <3> QED
      BY <2>3, <2>6, <3>1 DEF Piece, MarkerPiece
  <2>7. ASSUME RunPiece(p, a, b, s, c, e)
        PROVE  Piece(p2, a, b, s, c, e)
    <3>1. /\ p2[a + 1] = p[a + 1] /\ p2[a + 2] = p[a + 2] /\ p2[a + 3] = p[a + 3]
          /\ p2[a + 4] = p[a + 4] /\ p2[a + 5] = p[a + 5]
      <4>1. /\ a + 1 \in 1 .. b /\ a + 2 \in 1 .. b /\ a + 3 \in 1 .. b
            /\ a + 4 \in 1 .. b /\ a + 5 \in 1 .. b
        BY <2>1, <2>7 DEF RunPiece
      <4> QED
        BY <2>4, <4>1
    <3> QED
      BY <2>3, <2>7, <3>1 DEF Piece, RunPiece
  <2>8. Piece(p2, a, b, s, c, e)
    BY <2>2, <2>5, <2>6, <2>7 DEF Piece
  <2> QED
    BY <2>8 DEF a, b, c, e
<1>5. Piece(p2, <<Len(p), n>>[1], end[1], s, <<Len(p), n>>[2], end[2])
  OBVIOUS
<1> HIDE DEF p2
<1>6. ASSUME NEW q \in D
      PROVE  q = end \/ \E r \in D : Piece(p2, q[1], r[1], s, q[2], r[2])
  <2>1. CASE q = end
    BY <2>1
  <2>2. CASE q \in C /\ q = <<Len(p), n>>
    <3>1. Piece(p2, q[1], end[1], s, q[2], end[2])
      BY <1>5, <2>2
    <3> QED
      BY <1>3, <3>1
  <2>3. ASSUME q \in C, q # <<Len(p), n>>
        PROVE  \E r \in D : Piece(p2, q[1], r[1], s, q[2], r[2])
    <3>1. PICK r \in C : Piece(p, q[1], r[1], s, q[2], r[2])
      BY <1>1, <2>3 DEF Cuts
    <3>2. Piece(p2, q[1], r[1], s, q[2], r[2])
      BY <1>4, <2>3, <3>1
    <3> QED
      BY <3>2
  <2> QED
    BY <2>1, <2>2, <2>3
<1>7. Cuts(D, p2, s, d)
  BY <1>3, <1>6 DEF Cuts
<1>8. D \in SUBSET (Nat \X Nat)
  BY <1>3
<1> HIDE DEF D
<1> QED
  BY <1>7, <1>8 DEF StandsFor, p2

LEMMA Appended ==
    ASSUME NEW p \in Seq(Byte), NEW w \in Seq(Byte)
    PROVE  /\ p \o w \in Seq(Byte) /\ Len(p \o w) = Len(p) + Len(w)
           /\ \A k \in 1 .. Len(w) : (p \o w)[Len(p) + k] = w[k]
           /\ \A k \in 1 .. Len(p) : (p \o w)[k] = p[k]
  OBVIOUS

LEMMA InitFaithful == Init => Faithful
  BY DEF Init, Faithful, RoundTrip

\* A turn of the packing loop writes a piece.
LEMMA PackTurn ==
    ASSUME Inv, Faithful, step = "pack", NEW n \in Nat, NEW w \in Seq(Byte), Turn(n, w),
           Piece(out \o w, Len(out), Len(out \o w), source, i, i + n)
    PROVE  Faithful'
<1>1. /\ i' = i + n /\ out' = out \o w /\ step' = "pack" /\ source' = source
  BY DEF Turn
<1>2. source \in Seq(Byte) /\ out \in Seq(Byte) /\ i \in Nat /\ i + n \in Nat
  BY EntryType
<1>3. StandsFor(out, source, i)
  BY DEF Faithful
<1>4. StandsFor(out \o w, source, i + n)
  BY <1>2, <1>3, PieceMore
<1>5. StandsFor(out', source', i')
  BY <1>1, <1>4
<1> QED
  BY <1>1, <1>5 DEF Faithful, RoundTrip

LEMMA TwoDigits ==
    ASSUME NEW n \in Nat, n <= MaxRun
    PROVE  ((n \div Base) % Base) * Base + (n % Base) = n
<1>1. Base \in Nat /\ Base >= 3
  BY CompressionAssumption
<1> DEFINE q == n \div Base
           r == n % Base
<1>a. Base \in Nat \ {0} /\ n \in Nat
  BY <1>1
<1>b. /\ n \div Base \in Nat /\ n % Base \in 0 .. Base - 1
      /\ n = Base * (n \div Base) + (n % Base)
  BY <1>a, Division, Zenon
<1>2. q \in Nat /\ r \in 0 .. Base - 1 /\ n = Base * q + r
  BY <1>b DEF q, r
<1>c. ((n \div Base) % Base) * Base + (n % Base) = (q % Base) * Base + r
  BY Zenon DEF q, r
<1> HIDE DEF q, r
<1>3. q < Base
  <2>1. SUFFICES ASSUME Base <= q PROVE FALSE
    BY <1>1, <1>2
  <2>2. Base * Base <= Base * q
    BY <1>1, <1>2, <2>1
  <2>3. Base * Base \in Nat /\ n <= Base * Base - 1
    BY <1>1 DEF MaxRun
  <2> QED
    BY <1>1, <1>2, <2>2, <2>3
<1>4. q % Base = q
  BY <1>1, <1>2, <1>3
<1>5. q * Base + r = n
  BY <1>1, <1>2
<1> QED
  BY <1>4, <1>5, <1>c

LEMMA PackFaithful ==
    ASSUME Inv, Faithful, PackStep
    PROVE  Faithful'
<1>0. source \in Seq(Byte) /\ out \in Seq(Byte) /\ i \in Nat /\ Len(source) \in Nat
      /\ Len(out) \in Nat
  BY EntryType
<1>1. ASSUME Pack PROVE Faithful'
  <2>1. /\ i' = 0 /\ out' = <<>> /\ source' = source
        /\ \/ step' = "packed" /\ entry' = Raw(source)
           \/ step' = "pack"
    BY <1>1 DEF Pack
  <2>2. StandsFor(out', source', i')
    BY <1>0, <2>1, NothingStands
  <2>3. step' = "packed" => ~entry'.compressed
    BY <1>0, <2>1, RawType
  <2> QED
    BY <2>1, <2>2, <2>3 DEF Faithful, RoundTrip
<1>2. ASSUME PackRun PROVE Faithful'
  <2> DEFINE n == RunLength(source, i)
             hi == (n \div Base) % Base
             lo == n % Base
             w == <<Marker, RunTag, source[i + 1], hi, lo>>
  <2>1. step = "pack" /\ i < Len(source) /\ Turn(n, w)
    BY <1>2 DEF PackRun, Packing
  <2>2. /\ n \in Nat /\ i + n <= Len(source) /\ n <= MaxRun /\ n >= 1
        /\ \A m \in 1 .. n : source[i + m] = source[i + 1]
    BY <1>0, <2>1, RunLengthType
  <2>3. source[i + 1] \in Byte /\ hi \in Byte /\ lo \in Byte
    <3>1. source[i + 1] \in Byte
      BY <1>0, <2>1
    <3>2. n \div Base \in Nat
      BY <2>2, CompressionAssumption
    <3> HIDE DEF n
    <3> QED
      BY <2>2, <3>1, <3>2, ByteType
  <2>4. hi * Base + lo = n
    <3>1. ((n \div Base) % Base) * Base + (n % Base) = n
      <4> HIDE DEF n
      <4> QED
        BY <2>2, TwoDigits
    <3> QED
      BY <3>1, Zenon DEF hi, lo
  <2> HIDE DEF n, hi, lo
  <2>5. w \in Seq(Byte) /\ Len(w) = 5
    BY <2>3, ByteType
  <2>6. /\ (out \o w)[Len(out) + 1] = Marker /\ (out \o w)[Len(out) + 2] = RunTag
        /\ (out \o w)[Len(out) + 3] = source[i + 1]
        /\ (out \o w)[Len(out) + 4] = hi /\ (out \o w)[Len(out) + 5] = lo
        /\ Len(out \o w) = Len(out) + 5
    <3> DEFINE x == w
    <3>1. x[1] = Marker /\ x[2] = RunTag /\ x[3] = source[i + 1] /\ x[4] = hi /\ x[5] = lo
      OBVIOUS
    <3>2. x \in Seq(Byte) /\ Len(x) = 5
      BY <2>5
    <3> HIDE DEF x
    <3>a. /\ Len(out \o x) = Len(out) + Len(x)
          /\ \A k \in 1 .. Len(x) : (out \o x)[Len(out) + k] = x[k]
      BY <1>0, <3>2, Appended
    <3>3. /\ Len(out \o x) = Len(out) + 5
          /\ \A k \in 1 .. 5 : (out \o x)[Len(out) + k] = x[k]
      BY <3>2, <3>a
    <3>4. /\ (out \o x)[Len(out) + 1] = x[1] /\ (out \o x)[Len(out) + 2] = x[2]
          /\ (out \o x)[Len(out) + 3] = x[3] /\ (out \o x)[Len(out) + 4] = x[4]
          /\ (out \o x)[Len(out) + 5] = x[5]
      BY <3>3
    <3> QED
      BY <3>1, <3>3, <3>4 DEF x
  <2> HIDE DEF w
  <2>7. RunPiece(out \o w, Len(out), Len(out \o w), source, i, i + n)
    <3>1. \A x \in i + 1 .. i + n : source[x] = source[i + 1]
      <4>1. ASSUME NEW x \in i + 1 .. i + n
            PROVE  source[x] = source[i + 1]
        <5>1. x - i \in 1 .. n /\ i + (x - i) = x
          BY <1>0, <2>2
        <5> QED
          BY <2>2, <5>1
      <4> QED
        BY <4>1
    <3>2. (i + n) - i = n
      BY <1>0, <2>2
    <3> QED
      BY <2>4, <2>6, <3>1, <3>2 DEF RunPiece
  <2>8. Piece(out \o w, Len(out), Len(out \o w), source, i, i + n)
    BY <1>0, <2>2, <2>6, <2>7 DEF Piece
  <2> QED
    BY <2>1, <2>2, <2>5, <2>8, PackTurn
<1>3. ASSUME PackMarker PROVE Faithful'
  <2> DEFINE w == <<Marker, EscapeTag>>
  <2>1. step = "pack" /\ i < Len(source) /\ Turn(1, w) /\ source[i + 1] = Marker
    BY <1>3 DEF PackMarker, Packing
  <2>2. w \in Seq(Byte) /\ Len(w) = 2 /\ w[1] = Marker /\ w[2] = EscapeTag
    BY ByteType
  <2> HIDE DEF w
  <2>3. /\ (out \o w)[Len(out) + 1] = Marker /\ (out \o w)[Len(out) + 2] = EscapeTag
        /\ Len(out \o w) = Len(out) + 2
    <3>1. /\ Len(out \o w) = Len(out) + Len(w)
          /\ \A k \in 1 .. Len(w) : (out \o w)[Len(out) + k] = w[k]
      BY <1>0, <2>2, Appended
    <3>2. 1 \in 1 .. Len(w) /\ 2 \in 1 .. Len(w)
      BY <2>2
    <3>3. (out \o w)[Len(out) + 1] = w[1] /\ (out \o w)[Len(out) + 2] = w[2]
      BY <3>1, <3>2
    <3> QED
      BY <2>2, <3>1, <3>3
  <2>4. Piece(out \o w, Len(out), Len(out \o w), source, i, i + 1)
    BY <1>0, <2>1, <2>3 DEF Piece, MarkerPiece
  <2> QED
    BY <2>1, <2>2, <2>4, PackTurn
<1>4. ASSUME PackByte PROVE Faithful'
  <2> DEFINE w == <<source[i + 1]>>
  <2>1. step = "pack" /\ i < Len(source) /\ Turn(1, w) /\ source[i + 1] # Marker
    BY <1>4 DEF PackByte, Packing
  <2>2. w \in Seq(Byte) /\ Len(w) = 1 /\ w[1] = source[i + 1]
    BY <1>0, <2>1
  <2> HIDE DEF w
  <2>3. (out \o w)[Len(out) + 1] = source[i + 1] /\ Len(out \o w) = Len(out) + 1
    <3>1. /\ Len(out \o w) = Len(out) + Len(w)
          /\ \A k \in 1 .. Len(w) : (out \o w)[Len(out) + k] = w[k]
      BY <1>0, <2>2, Appended
    <3>2. 1 \in 1 .. Len(w)
      BY <2>2
    <3> QED
      BY <2>2, <3>1, <3>2
  <2>4. Piece(out \o w, Len(out), Len(out \o w), source, i, i + 1)
    BY <1>0, <2>1, <2>3 DEF Piece, BytePiece
  <2> QED
    BY <2>1, <2>2, <2>4, PackTurn
<1>5. ASSUME PackEnd PROVE Faithful'
  <2>1. /\ step = "pack" /\ i = Len(source) /\ step' = "packed" /\ source' = source
        /\ entry' = Kept(source, out)
    BY <1>5 DEF PackEnd
  <2>2. entry'.compressed => entry'.data = out
    BY <1>0, <2>1, RawType DEF Kept
  <2>3. StandsFor(out, source, Len(source))
    BY <2>1 DEF Faithful
  <2>4. entry'.compressed => StandsFor(entry'.data, source', Len(source'))
    BY <2>1, <2>2, <2>3
  <2> QED
    BY <2>1, <2>4 DEF Faithful, RoundTrip
<1> QED
  BY <1>1, <1>2, <1>3, <1>4, <1>5 DEF PackStep

\* The reading loop is at a cut: at the end of both, or before a piece.
LEMMA AtCut ==
    ASSUME Inv, Faithful, step = "read", ours
    PROVE  \E C \in SUBSET (Nat \X Nat) :
             /\ Cuts(C, entry.data, source, Len(source))
             /\ \/ i = Len(entry.data) /\ Len(out) = Len(source)
                \/ \E r \in C : /\ r[1] \in Nat /\ r[2] \in Nat
                                /\ Piece(entry.data, i, r[1], source, Len(out), r[2])
<1>1. PICK C \in SUBSET (Nat \X Nat) :
        Cuts(C, entry.data, source, Len(source)) /\ <<i, Len(out)>> \in C
  BY DEF Faithful, ReadSoFar
<1> DEFINE q == <<i, Len(out)>>
<1>2. q[1] = i /\ q[2] = Len(out)
  OBVIOUS
<1>3. \/ q = <<Len(entry.data), Len(source)>>
      \/ \E r \in C : Piece(entry.data, q[1], r[1], source, q[2], r[2])
  BY <1>1 DEF Cuts
<1>4. \A r \in C : r[1] \in Nat /\ r[2] \in Nat
  OBVIOUS
<1>5. CASE q = <<Len(entry.data), Len(source)>>
  BY <1>1, <1>5
<1>6. CASE \E r \in C : Piece(entry.data, q[1], r[1], source, q[2], r[2])
  BY <1>1, <1>2, <1>4, <1>6
<1> QED
  BY <1>3, <1>5, <1>6

\* A turn of the reading loop writes what the piece stands for.
LEMMA ReadTurn ==
    ASSUME Inv, Faithful, step = "read", ours,
           NEW C \in SUBSET (Nat \X Nat), Cuts(C, entry.data, source, Len(source)),
           NEW n \in Nat, NEW w \in Seq(Byte), Turn(n, w),
           <<i + n, Len(out) + Len(w)>> \in C, Len(out) + Len(w) <= Len(source),
           \A x \in 1 .. Len(w) : w[x] = source[Len(out) + x]
    PROVE  Faithful'
<1>1. /\ i' = i + n /\ out' = out \o w
      /\ step' = "read" /\ source' = source /\ entry' = entry /\ ours' = ours
  BY DEF Turn
<1>2. source \in Seq(Byte) /\ out \in Seq(Byte) /\ Len(out) \in Nat /\ Len(w) \in Nat
  BY EntryType
<1>3. /\ Len(out \o w) = Len(out) + Len(w)
      /\ \A k \in 1 .. Len(w) : (out \o w)[Len(out) + k] = w[k]
      /\ \A k \in 1 .. Len(out) : (out \o w)[k] = out[k]
  BY <1>2, Appended
<1>4. ASSUME NEW x \in 1 .. Len(out) + Len(w)
      PROVE  (out \o w)[x] = source[x]
  <2>1. CASE x \in 1 .. Len(out)
    BY <1>3, <2>1 DEF Faithful, Begins
  <2>2. CASE x \notin 1 .. Len(out)
    <3>1. x - Len(out) \in 1 .. Len(w) /\ Len(out) + (x - Len(out)) = x
      BY <1>2, <2>2
    <3> QED
      BY <1>3, <3>1
  <2> QED
    BY <2>1, <2>2
<1>5. Begins(out', source')
  BY <1>1, <1>3, <1>4 DEF Begins
<1>6. Cuts(C, entry'.data, source', Len(source')) /\ <<i', Len(out')>> \in C
  BY <1>1, <1>3
<1>7. ReadSoFar'
  BY <1>6 DEF ReadSoFar
<1> QED
  BY <1>1, <1>5, <1>7 DEF Faithful, RoundTrip

LEMMA UnpackFaithful ==
    ASSUME Inv, Faithful, UnpackStep
    PROVE  Faithful'
<1>0. /\ source \in Seq(Byte) /\ out \in Seq(Byte) /\ i \in Nat
      /\ Len(source) \in Nat /\ Len(out) \in Nat
      /\ entry.data \in Seq(Byte) /\ Len(entry.data) \in Nat /\ entry.size \in Nat
  BY EntryType
<1>1. /\ ours' = ours /\ source' = source /\ entry' = entry
      /\ step' \in {"read", "read back"}
  <2>1. \A v : ReturnWith(v) => /\ ours' = ours /\ source' = source /\ entry' = entry
                            /\ step' = "read back"
    BY DEF ReturnWith
  <2>2. \A n, w : step = "read" /\ Turn(n, w) =>
                     /\ ours' = ours /\ source' = source /\ entry' = entry
                     /\ step' = "read"
    BY DEF Turn
  <2> QED
    BY <2>1, <2>2 DEF UnpackStep, Unpack, ReadByte, ReadNoTag, ReadRun, ReadEscape,
       ReadUnknown, ReadEnd, Reading, AtMarker, Tagged
<1>2. CASE ~ours
  BY <1>1, <1>2 DEF Faithful, RoundTrip
<1>3. ASSUME ours, Unpack
      PROVE  Faithful'
  <2>1. step = "packed" /\ i' = 0 /\ entry.size = Len(source)
    BY <1>3 DEF Unpack, Inv
  <2>2. CASE entry.compressed
    <3>1. step' = "read" /\ out' = <<>> /\ Len(out') = 0
      BY <1>3, <2>2 DEF Unpack
    <3>2. PICK C \in SUBSET (Nat \X Nat) : Cuts(C, entry.data, source, Len(source))
      BY <1>3, <2>1, <2>2 DEF Faithful, StandsFor
    <3>3. <<i', Len(out')>> \in C
      BY <2>1, <3>1, <3>2 DEF Cuts
    <3>4. ReadSoFar'
      BY <1>1, <3>2, <3>3 DEF ReadSoFar
    <3>5. Begins(out', source')
      BY <1>0, <1>1, <3>1 DEF Begins
    <3> QED
      BY <1>1, <3>1, <3>4, <3>5 DEF Faithful, RoundTrip
  <2>3. CASE ~entry.compressed
    <3>1. step' = "read back" /\ out' = entry.data /\ verdict' = ExactLength(entry.data, entry.size)
      BY <1>3, <2>3 DEF Unpack
    <3>2. entry.data = source
      BY <1>3, <2>1, <2>3 DEF Inv, RawIsSource
    <3>3. verdict' = "ok"
      <4>1. Len(entry.data) = entry.size
        BY <2>1, <3>2
      <4>2. ~(Len(entry.data) > entry.size) /\ ~(Len(entry.data) < entry.size)
        BY <1>0, <4>1
      <4> QED
        BY <3>1, <4>2 DEF ExactLength
    <3> QED
      BY <1>1, <3>1, <3>2, <3>3 DEF Faithful, RoundTrip
  <2> QED
    BY <2>2, <2>3
<1>4. ASSUME ours, step = "read", ~Unpack
      PROVE  Faithful'
  <2>1. PICK C \in SUBSET (Nat \X Nat) :
          /\ Cuts(C, entry.data, source, Len(source))
          /\ \/ i = Len(entry.data) /\ Len(out) = Len(source)
             \/ \E r \in C : /\ r[1] \in Nat /\ r[2] \in Nat
                             /\ Piece(entry.data, i, r[1], source, Len(out), r[2])
    BY <1>4, AtCut
  <2>2. entry.size = Len(source) /\ Room = Len(source) - Len(out)
        /\ Begins(out, source)
    BY <1>4 DEF Inv, Room, Faithful
  <2>a. ReadByte \/ ReadNoTag \/ ReadRun \/ ReadEscape \/ ReadUnknown \/ ReadEnd
    BY <1>4 DEF UnpackStep
  <2>3. CASE i = Len(entry.data) /\ Len(out) = Len(source)
    <3>1. ReadEnd
      <4>1. ~Reading
        BY <1>0, <2>3 DEF Reading
      <4> QED
        BY <2>a, <4>1 DEF ReadByte, ReadNoTag, ReadRun, ReadEscape,
           ReadUnknown, AtMarker, Tagged
    <3>2. step' = "read back" /\ verdict' = "ok" /\ out' = out
      <4>1. ~(Len(out) > entry.size) /\ ~(Len(out) < entry.size)
        BY <1>0, <2>2, <2>3
      <4> QED
        BY <3>1, <4>1 DEF ReadEnd, ReturnWith, ExactLength
    <3>3. out = source
      <4>1. \A x \in 1 .. Len(source) : out[x] = source[x]
        BY <2>2, <2>3 DEF Begins
      <4> QED
        BY <1>0, <2>3, <4>1
    <3> QED
      BY <1>1, <3>2, <3>3 DEF Faithful, RoundTrip
  <2>4. ASSUME NEW r \in C, r[1] \in Nat, r[2] \in Nat,
               Piece(entry.data, i, r[1], source, Len(out), r[2])
        PROVE  Faithful'
    <3> DEFINE p == entry.data
               b == r[1]
               c == Len(out)
               d == r[2]
    <3>1. /\ i < b /\ b <= Len(p) /\ c < d /\ d <= Len(source)
          /\ b \in Nat /\ d \in Nat /\ Room > 0 /\ Room \in Nat /\ d - c <= Room
      BY <1>0, <2>2, <2>4 DEF Piece
    <3>2. r = <<b, d>>
      OBVIOUS
    <3>3. Reading /\ ~ReadEnd /\ At(1) = p[i + 1] /\ At(2) = p[i + 2] /\ At(3) = p[i + 3]
          /\ At(4) = p[i + 4] /\ At(5) = p[i + 5]
      BY <1>0, <1>4, <3>1 DEF Reading, ReadEnd, At
    <3>4. UnpackStep /\ ~Unpack
      BY <1>4
    <3>5. ASSUME BytePiece(p, i, b, source, c, d)
          PROVE  Faithful'
      <4>1. b = i + 1 /\ d = c + 1 /\ p[i + 1] = source[c + 1] /\ p[i + 1] # Marker
        BY <3>5 DEF BytePiece
      <4>2. Turn(1, <<p[i + 1]>>)
        <5>1. ~AtMarker
          BY <3>3, <4>1 DEF AtMarker
        <5>2. ReadByte
          BY <3>3, <3>4, <5>1 DEF UnpackStep, ReadNoTag, ReadRun, ReadEscape, ReadUnknown,
             Tagged
        <5>3. Room # 0 /\ At(1) = p[i + 1]
          BY <3>1, <3>3
        <5> QED
          BY <5>2, <5>3 DEF ReadByte
      <4> DEFINE w == <<p[i + 1]>>
      <4>3. w \in Seq(Byte) /\ Len(w) = 1 /\ w[1] = source[c + 1]
        BY <1>0, <3>1, <4>1
      <4>4. Turn(1, w)
        BY <4>2
      <4> HIDE DEF w
      <4>5. <<i + 1, Len(out) + Len(w)>> \in C
        BY <3>2, <4>1, <4>3
      <4>6. \A x \in 1 .. Len(w) : w[x] = source[Len(out) + x]
        BY <4>3
      <4>7. Len(out) + Len(w) <= Len(source)
        BY <3>1, <4>1, <4>3
      <4> QED
        BY <1>4, <2>1, <4>3, <4>4, <4>5, <4>6, <4>7, ReadTurn
    <3>6. ASSUME MarkerPiece(p, i, b, source, c, d)
          PROVE  Faithful'
      <4>1. /\ b = i + 2 /\ d = c + 1 /\ p[i + 1] = Marker /\ p[i + 2] = EscapeTag
            /\ source[c + 1] = Marker
        BY <3>6 DEF MarkerPiece
      <4>2. Turn(2, <<Marker>>)
        <5>1. i + 2 <= Len(entry.data) /\ ~(i + 2 > Len(entry.data))
          BY <1>0, <3>1, <4>1
        <5>2. EscapeTag # RunTag /\ Room # 0
          BY <3>1 DEF EscapeTag, RunTag
        <5> QED
          BY <3>3, <3>4, <4>1, <5>1, <5>2 DEF UnpackStep, ReadByte, ReadNoTag, ReadRun,
             ReadEscape, ReadUnknown, AtMarker, Tagged
      <4> DEFINE w == <<Marker>>
      <4>3. w \in Seq(Byte) /\ Len(w) = 1 /\ w[1] = source[c + 1]
        BY <4>1, ByteType
      <4>4. Turn(2, w)
        BY <4>2
      <4> HIDE DEF w
      <4>5. <<i + 2, Len(out) + Len(w)>> \in C
        BY <3>2, <4>1, <4>3
      <4>6. \A x \in 1 .. Len(w) : w[x] = source[Len(out) + x]
        BY <4>3
      <4>7. Len(out) + Len(w) <= Len(source)
        BY <3>1, <4>1, <4>3
      <4> QED
        BY <1>4, <2>1, <4>3, <4>4, <4>5, <4>6, <4>7, ReadTurn
    <3>7. ASSUME RunPiece(p, i, b, source, c, d)
          PROVE  Faithful'
      <4>1. /\ b = i + 5 /\ p[i + 1] = Marker /\ p[i + 2] = RunTag
            /\ p[i + 4] * Base + p[i + 5] = d - c
            /\ \A x \in c + 1 .. d : source[x] = p[i + 3]
        BY <3>7 DEF RunPiece
      <4> DEFINE n == d - c
                 w == [m \in 1 .. n |-> p[i + 3]]
      <4>2. Turn(5, w)
        <5>1. i + 2 <= Len(entry.data) /\ ~(i + 2 > Len(entry.data)) /\ ~(i + 5 > Len(entry.data))
          BY <1>0, <3>1, <4>1
        <5>2. EscapeTag # RunTag /\ ~(n > Room)
          BY <1>0, <3>1 DEF EscapeTag, RunTag
        <5>3. ReadRun
          BY <3>3, <3>4, <4>1, <5>1, <5>2 DEF UnpackStep, ReadByte, ReadNoTag,
             ReadEscape, ReadUnknown, AtMarker, Tagged
        <5>4. At(4) * Base + At(5) = n
          BY <3>3, <4>1
        <5> HIDE DEF n
        <5> QED
          BY <3>3, <5>1, <5>2, <5>3, <5>4 DEF ReadRun
      <4>3. n \in Nat /\ p[i + 3] \in Byte
        BY <1>0, <3>1, <4>1
      <4>4. w \in Seq(Byte) /\ Len(w) = n /\ \A x \in 1 .. n : w[x] = p[i + 3]
        <5> HIDE DEF n, p
        <5> QED
          BY <4>3
      <4> HIDE DEF w
      <4>5. <<i + 5, Len(out) + Len(w)>> \in C
        <5>1. c + n = d
          BY <1>0, <3>1
        <5> QED
          BY <3>2, <4>1, <4>4, <5>1
      <4>6. \A x \in 1 .. Len(w) : w[x] = source[Len(out) + x]
        <5>1. ASSUME NEW x \in 1 .. n
              PROVE  c + x \in c + 1 .. d
          BY <1>0, <3>1
        <5> QED
          BY <4>1, <4>4, <5>1
      <4>7. Len(out) + Len(w) <= Len(source)
        BY <1>0, <3>1, <4>4
      <4> HIDE DEF n
      <4> QED
        BY <1>4, <2>1, <4>2, <4>4, <4>5, <4>6, <4>7, ReadTurn
    <3> QED
      BY <2>4, <3>5, <3>6, <3>7 DEF Piece
  <2> QED
    BY <2>1, <2>3, <2>4
<1>5. step = "read" \/ Unpack
  BY DEF UnpackStep, ReadByte, ReadNoTag, ReadRun, ReadEscape, ReadUnknown, ReadEnd,
     Reading, AtMarker, Tagged
<1> QED
  BY <1>2, <1>3, <1>4, <1>5

-----------------------------------------------------------------------------
(* The theorems.                                                           *)

\* The state of both loops is accounted for, on every value and every entry.
THEOREM Invariance == Spec => []Inv
<1>1. Inv /\ [Next]_vars => Inv'
  <2> SUFFICES ASSUME Inv, [Next]_vars PROVE Inv'
    OBVIOUS
  <2>1. CASE UNCHANGED vars
    BY <2>1 DEF vars, Inv, TypeOK, NeverOverrun, RawIsSource
  <2> QED
    BY <2>1, PackKeeps, UnpackKeeps, RecordKeeps DEF Next
<1> QED
  BY <1>1, InitInv, PTL DEF Spec

\* Values, entries and statistics keep their types (compression.rs).
THEOREM TypeCorrect == Spec => []TypeOK
<1>1. Inv => TypeOK
  BY DEF Inv
<1> QED
  BY <1>1, Invariance, PTL

\* Reading back never writes past the entry's original_size (compression.rs,
\* rle_decompress), whatever the entry holds.
THEOREM Bounded == Spec => []NeverOverrun
<1>1. Inv => NeverOverrun
  BY DEF Inv
<1> QED
  BY <1>1, Invariance, PTL

\* Whatever is compressed is read back byte for byte (compression.rs,
\* rle_compress, rle_decompress): any value over any alphabet, with any runs and
\* markers, and any min_size.
THEOREM ReadsBack == Spec => []RoundTrip
<1>1. Init => Inv /\ Faithful
  BY InitInv, InitFaithful
<1>2. Inv /\ Faithful /\ [Next]_vars => Faithful'
  <2> SUFFICES ASSUME Inv, Faithful, [Next]_vars PROVE Faithful'
    OBVIOUS
  <2>1. CASE UNCHANGED vars
    BY <2>1 DEF vars, Faithful, ReadSoFar, RoundTrip
  <2>2. CASE RecordAndGoOn
    BY <2>2 DEF RecordAndGoOn, Faithful, RoundTrip
  <2> QED
    BY <2>1, <2>2, PackFaithful, UnpackFaithful DEF Next
<1>3. Faithful => RoundTrip
  BY DEF Faithful
<1> QED
  BY <1>1, <1>2, <1>3, Invariance, PTL DEF Spec

\* Both loops get somewhere (compression.rs, rle_compress, rle_decompress): each
\* turn takes at least one byte of its input and none behind its end, a run of
\* length 0 and a truncated entry included; or it is the last.
Advance ==
    /\ step = "pack" /\ PackStep =>
         \/ step' = "pack" /\ i < i' /\ i' <= Len(source) /\ UNCHANGED <<source, entry>>
         \/ step' = "packed"
    /\ step = "read" /\ UnpackStep =>
         \/ step' = "read" /\ i < i' /\ i' <= Len(entry.data) /\ UNCHANGED <<source, entry>>
         \/ step' = "read back"

\* No step of either loop stands still or reads behind the end (compression.rs,
\* rle_compress, rle_decompress): the safety half of CallsEnd.
THEOREM LoopsAdvance == Spec => [][Advance]_vars
<1>1. ASSUME Inv, step = "pack", PackStep
      PROVE  \/ step' = "pack" /\ i < i' /\ i' <= Len(source) /\ UNCHANGED <<source, entry>>
             \/ step' = "packed"
  <2>1. ASSUME NEW n \in Nat \ {0}, i + n <= Len(source), NEW w, Turn(n, w)
        PROVE  step' = "pack" /\ i < i' /\ i' <= Len(source) /\ UNCHANGED <<source, entry>>
    BY <1>1, <2>1, EntryType DEF Turn
  <2>2. ASSUME Packing
        PROVE  /\ RunLength(source, i) \in Nat \ {0} /\ i + RunLength(source, i) <= Len(source)
               /\ 1 \in Nat \ {0} /\ i + 1 <= Len(source)
    BY <1>1, <2>2, EntryType, RunLengthType DEF Packing
  <2>3. CASE PackRun
    BY <2>1, <2>2, <2>3 DEF PackRun
  <2>4. CASE PackMarker
    BY <2>1, <2>2, <2>4 DEF PackMarker
  <2>5. CASE PackByte
    BY <2>1, <2>2, <2>5 DEF PackByte
  <2>6. CASE PackEnd
    BY <2>6 DEF PackEnd
  <2> QED
    BY <1>1, <2>3, <2>4, <2>5, <2>6 DEF PackStep, Pack
<1>2. ASSUME Inv, step = "read", UnpackStep
      PROVE  \/ step' = "read" /\ i < i' /\ i' <= Len(entry.data) /\ UNCHANGED <<source, entry>>
             \/ step' = "read back"
  <2> USE DEF Reading, AtMarker, Tagged
  <2>1. ASSUME NEW n \in Nat \ {0}, i + n <= Len(entry.data), NEW w, Turn(n, w)
        PROVE  step' = "read" /\ i < i' /\ i' <= Len(entry.data) /\ UNCHANGED <<source, entry>>
    BY <1>2, <2>1, EntryType DEF Turn
  <2>2. \A v : ReturnWith(v) => step' = "read back"
    BY DEF ReturnWith
  <2>3. i \in Nat /\ Len(entry.data) \in Nat
    BY <1>2, EntryType
  <2>4. CASE ReadByte
    <3>1. i < Len(entry.data)
      BY <2>4, Zenon DEF ReadByte
    <3>2. 1 \in Nat \ {0} /\ i + 1 <= Len(entry.data)
      BY <2>3, <3>1
    <3> QED
      BY <2>1, <2>2, <2>4, <3>2 DEF ReadByte
  <2>5. CASE ReadRun
    <3>1. CASE i + 5 > Len(entry.data)
      BY <2>2, <2>5, <3>1 DEF ReadRun
    <3>2. CASE ~ (i + 5 > Len(entry.data))
      <4>1. 5 \in Nat \ {0} /\ i + 5 <= Len(entry.data)
        BY <2>3, <3>2
      <4> QED
        BY <2>1, <2>2, <2>5, <3>2, <4>1 DEF ReadRun
    <3> QED
      BY <3>1, <3>2
  <2>6. CASE ReadEscape
    <3>1. i + 2 <= Len(entry.data)
      BY <2>6, Zenon DEF ReadEscape
    <3>2. 2 \in Nat \ {0}
      OBVIOUS
    <3> QED
      BY <2>1, <2>2, <2>6, <3>1, <3>2 DEF ReadEscape
  <2>7. CASE ReadNoTag \/ ReadUnknown \/ ReadEnd
    BY <2>2, <2>7 DEF ReadNoTag, ReadUnknown, ReadEnd
  <2> QED
    BY <1>2, <2>4, <2>5, <2>6, <2>7 DEF UnpackStep, Unpack
<1>3. Inv /\ [Next]_vars => [Advance]_vars
  BY <1>1, <1>2 DEF Advance
<1> QED
  BY <1>3, Invariance, PTL DEF Spec

-----------------------------------------------------------------------------
(* Encrypted entries.                                                      *)

CryptoInv ==
    /\ keyOf \in [Caches -> Keys]
    /\ \A e \in made : \E k \in Keys, p \in Plaintexts : e = EntryOf(k, p)
    /\ \A o \in opened : o.plain \in Plaintexts /\ o.entry.hash = Digest[o.plain]

\* What decrypts is the plaintext of an entry that was made.
LEMMA OpenedWasMade ==
    ASSUME CryptoInv, NEW c \in Caches, NEW e \in Handed, Opens(c, e)
    PROVE  e.ciphertext.plain \in Plaintexts
<1>1. e.ciphertext \in {m.ciphertext : m \in made} \cup {Altered}
  BY DEF Handed
<1>2. PICK m \in made : e.ciphertext = m.ciphertext
  BY <1>1 DEF Opens
<1>3. PICK k \in Keys, p \in Plaintexts : m = EntryOf(k, p)
  BY DEF CryptoInv
<1> QED
  BY <1>2, <1>3 DEF EntryOf, Sealed

LEMMA CryptoStep ==
    ASSUME CryptoInv, CryptoNext
    PROVE  CryptoInv'
<1>1. ASSUME UNCHANGED <<keyOf, made, opened>>
      PROVE  CryptoInv'
  BY <1>1 DEF CryptoInv
<1>2. ASSUME NEW c \in Caches, NEW p \in Plaintexts, Encrypt(c, p)
      PROVE  CryptoInv'
  <2>1. /\ keyOf' = keyOf /\ opened' = opened
        /\ made' = made \cup {EntryOf(keyOf[c], p)}
    BY <1>2 DEF Encrypt
  <2>2. keyOf[c] \in Keys
    BY DEF CryptoInv
  <2>3. \A e \in made' : \E k \in Keys, q \in Plaintexts : e = EntryOf(k, q)
    BY <2>1, <2>2 DEF CryptoInv
  <2> QED
    BY <2>1, <2>3 DEF CryptoInv
<1>3. ASSUME NEW c \in Caches, NEW e \in Handed, Decrypt(c, e)
      PROVE  CryptoInv'
  <2> DEFINE p == e.ciphertext.plain
  <2>1. /\ Opens(c, e) /\ Digest[p] = e.hash
        /\ opened' = opened \cup {[entry |-> e, plain |-> p]}
        /\ keyOf' = keyOf /\ made' = made
    BY <1>3 DEF Decrypt
  <2>2. p \in Plaintexts
    BY <2>1, OpenedWasMade
  <2> HIDE DEF p
  <2>3. \A o \in opened' : o.plain \in Plaintexts /\ o.entry.hash = Digest[o.plain]
    BY <2>1, <2>2 DEF CryptoInv
  <2> QED
    BY <2>1, <2>3 DEF CryptoInv
<1>4. CASE \/ \E c \in Caches : EncryptFails(c)
           \/ \E c \in Caches, e \in Handed : DecryptRefused(c, e) \/ DecryptMismatch(c, e)
           \/ \E p \in Plaintexts : Sign(p) \/ \E q \in Plaintexts : Change(p, Digest[q])
  BY <1>1, <1>4 DEF EncryptFails, DecryptRefused, DecryptMismatch, Sign, Change, cryptoVars
<1> QED
  BY <1>2, <1>3, <1>4 DEF CryptoNext

LEMMA CryptoInvariance == CryptoSpec => []CryptoInv
<1>1. CryptoInit => CryptoInv
  BY DEF CryptoInit, CryptoInv
<1>2. CryptoInv /\ [CryptoNext]_cryptoVars => CryptoInv'
  <2>1. CryptoInv /\ UNCHANGED cryptoVars => CryptoInv'
    BY DEF cryptoVars, CryptoInv
  <2> QED
    BY <2>1, CryptoStep
<1> QED
  BY <1>1, <1>2, PTL DEF CryptoSpec

\* Entries that were decrypted compare equal just when the same plaintext came out
\* of them (crypto_bridge.rs, decrypt, entries_equal), for any number of caches,
\* keys and entries, however ciphertexts and digests were exchanged.
THEOREM EqualOpensAlike == CryptoSpec => []EqualEntriesOpenAlike
<1>1. CryptoInv => EqualEntriesOpenAlike
  <2> SUFFICES ASSUME CryptoInv, NEW a \in opened, NEW b \in opened
               PROVE  EntriesEqual(a.entry, b.entry) <=> a.plain = b.plain
    BY DEF EqualEntriesOpenAlike
  <2>1. /\ a.plain \in Plaintexts /\ a.entry.hash = Digest[a.plain]
        /\ b.plain \in Plaintexts /\ b.entry.hash = Digest[b.plain]
    BY DEF CryptoInv
  <2> QED
    BY <2>1, CryptoAssumption DEF EntriesEqual
<1> QED
  BY <1>1, CryptoInvariance, PTL

=============================================================================
