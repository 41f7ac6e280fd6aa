---------------------------- MODULE MCAlgorithms ----------------------------
(***************************************************************************)
(* The sequential algorithms for TLC, in one run: a behaviour exercises    *)
(* the layouts of a cache in shards, the hash that is then masked, the     *)
(* owners that nodes name for a hash, the compression of values, their     *)
(* encryption, or a signed entry.                                          *)
(*                                                                         *)
(* The constants of cache.rs are scaled down (8 shards by default, 16 at   *)
(* most, 4 slots per shard wanted), with every capacity up to past the     *)
(* point where the default number is reached.  A hashed word is two bytes  *)
(* of two bits.  A node's draw has 3 bits of 6, and a float 6 digits, for  *)
(* every hash and up to 9 nodes.                                           *)
(*                                                                         *)
(* A byte that is packed is 0, 1 or the marker 2, so a run holds at most 8 *)
(* bytes.  The values are all of up to 4 bytes, and runs on both sides of  *)
(* 8 and of 16, of every byte, with something before and behind; the       *)
(* foreign entries are all of up to 4 bytes, and runs of every length with *)
(* more behind.                                                            *)
(***************************************************************************)
EXTENDS JumpHash, ShardLayout, SeededHash, Compression, CryptoCache

MCSizes == {-1} \cup 0 .. 9
MCCapacitiesAsked == 0 .. 40
MCShardsAsked == {1, 2, 4, 8, 16, 32}

MCStir == [add |-> 5, shifts |-> <<2, 1, 2>>, factors |-> <<9, 11>>]
MCFinal == [shifts |-> <<2, 2, 2>>, factors |-> <<13, 3>>]
MCPieces == {<<>>, <<0>>, <<1>>, <<1, 2>>, <<2, 1, 3>>, <<2, 1, 3, 0>>}

Repeat(b, n) == [m \in 1 .. n |-> b]

MCPlain ==
    SeqOf(Byte, 4)
        \cup {Repeat(a, l) \o Repeat(b, n) \o Repeat(c, 1) :
                a \in {1, Marker}, b \in Byte, c \in {0, Marker},
                l \in 0 .. 1, n \in {5, 8, 9, 17}}

MCForeign ==
    [data : SeqOf(Byte, 4), size : 0 .. 3, compressed : {TRUE}]
        \cup [data : SeqOf(Byte, 2), size : 0 .. 3, compressed : {FALSE}]
        \cup [data : {<<Marker, RunTag, b, hi, lo>> \o rest :
                        b \in {0, Marker}, hi \in Byte, lo \in Byte,
                        rest \in SeqOf(Byte, 2)},
              size : {0, 1, 4, 5, 8, 9}, compressed : {TRUE}]

CONSTANTS c1, c2, p1, p2

MCDigest == [p \in {p1, p2} |-> IF p = p1 THEN 1 ELSE 2]

VARIABLE part

\* No value is being compressed or read; no owner is looked for; no cache chose
\* its key.
NoValueAtWork ==
    /\ step = "read back" /\ minSize = 0 /\ source = <<>> /\ ours = FALSE
    /\ entry = Raw(<<>>) /\ i = 0 /\ out = <<>> /\ verdict = "ok" /\ stats = NoStats

NoWalk == walk = [n \in Sizes |-> [key |-> 0, b |-> 0, j |-> n]]
OneKey == \A c \in {c1, c2} : keyOf[c] = 1

MCInit ==
    /\ LayoutInit /\ HashInit /\ CryptoInit
    /\ \/ part = "layout" /\ NoWalk /\ fn = WithSeed(0) /\ NoValueAtWork /\ OneKey
       \/ part = "hash" /\ NoWalk /\ NoValueAtWork /\ OneKey
       \/ part = "owner" /\ WalkInit /\ fn = WithSeed(0) /\ NoValueAtWork /\ OneKey
       \/ part = "compression" /\ NoWalk /\ fn = WithSeed(0) /\ Init /\ OneKey
       \/ part = "encryption" /\ NoWalk /\ fn = WithSeed(0) /\ NoValueAtWork

MCNext ==
    /\ UNCHANGED part
    /\ \/ part = "layout" /\ LayoutNext /\ UNCHANGED <<walk, hashVars, vars, cryptoVars>>
       \/ part = "hash" /\ HashNext /\ UNCHANGED <<walk, cache, vars, cryptoVars>>
       \/ part = "owner" /\ WalkNext /\ UNCHANGED <<cache, hashVars, vars, cryptoVars>>
       \/ part = "compression" /\ Next /\ UNCHANGED <<walk, cache, hashVars, cryptoVars>>
       \/ /\ part = "encryption" /\ CryptoNext /\ UNCHANGED <<walk, cache, hashVars, vars>>
          /\ made' = {} \/ signed' = Nothing

MCSpec ==
    /\ MCInit /\ [][MCNext]_<<walk, cache, hashVars, vars, cryptoVars, part>>
    /\ WF_walk(WalkTurn) /\ WF_vars(PackStep \/ UnpackStep)

=============================================================================
