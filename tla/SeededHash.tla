----------------------------- MODULE SeededHash -----------------------------
(***************************************************************************)
(* The hash of a fixed seed (seed.rs): how a seed becomes a function, and  *)
(* how a hasher folds what a key writes to it.  The arithmetic is the      *)
(* code's, on words of WordBytes bytes instead of eight.  Two hashers of   *)
(* one function are fed side by side, as for two keys of one type; and the *)
(* bytes they write go through jump_hash.rs's FNV-1a as well, the hash by  *)
(* which a byte string is given an owner.                                  *)
(***************************************************************************)
EXTENDS Integers, Sequences, SequencesExt, PowersOfTwo

CONSTANTS
    ByteBits,     \* bits of a byte (8)
    WordBytes,    \* bytes of a word (8)
    Stir,         \* splitmix64: [add, shifts, factors]
    Salt,         \* TABLE_SEED_SALT
    Factor,       \* MUL
    Rotation,     \* the bits rotate_left turns by (29)
    Final,        \* fmix64: [shifts, factors]
    FnvOffset, FnvPrime,   \* FNV_OFFSET, FNV_PRIME
    Seeds,
    Pieces,       \* what a key may write at a time: byte strings
    MaxWrites     \* BOUND on the writes of a key

WordBits == ByteBits * WordBytes
Modulus == Two[WordBits]
Words == 0 .. Modulus - 1
Bytes == 0 .. Two[ByteBits] - 1
Odd(n) == n % 2 = 1

ASSUME SeedAssumption ==
    /\ ByteBits \in Nat \ {0} /\ WordBytes \in Nat \ {0}
    /\ Rotation \in 0 .. WordBits
    /\ \A n \in {Factor, FnvPrime} : n \in Words /\ Odd(n)
    /\ \A mix \in {Stir, Final} :
         /\ \A i \in 1 .. 3 : mix.shifts[i] \in Nat \ {0}
         /\ \A i \in 1 .. 2 : mix.factors[i] \in Words /\ Odd(mix.factors[i])
    /\ {Stir.add, Salt, FnvOffset} \subseteq Words
    /\ Seeds \subseteq Words
    /\ Pieces \subseteq Seq(Bytes)

Bit(a, n) == (a \div Two[n]) % 2

\* a ^ b, the word of the bits in which a and b differ.
Xors == [a \in Words |-> [b \in Words |->
            CHOOSE c \in Words :
                \A n \in 0 .. WordBits - 1 : Bit(c, n) = 1 <=> Bit(a, n) # Bit(b, n)]]
Xor(a, b) == Xors[a][b]

Times(x, n) == (x * n) % Modulus
Shifted(x, s) == Xor(x, x \div Two[s])

\* Three shifts with a multiplication after the first and the second.
Mixed(x, mix) ==
    Shifted(Times(Shifted(Times(Shifted(x, mix.shifts[1]), mix.factors[1]),
                          mix.shifts[2]), mix.factors[2]), mix.shifts[3])

Splitmix(x) == Mixed((x + Stir.add) % Modulus, Stir)
Fmix(x) == Mixed(x, Final)

\* SeededState: the function of a seed, and that of the tables in its shards.
WithSeed(seed) == [k0 |-> Splitmix(seed), k1 |-> Splitmix(Splitmix(seed))]
TableFor(seed) == WithSeed(Xor(Splitmix(seed), Salt))

\* Mutant: the bits are shifted and not rotated.
ShiftedOut(x) == Times(x, Two[Rotation])

RotatedLeft(x) == Times(x, Two[Rotation]) + x \div Two[WordBits - Rotation]

NewHasher(state) == [state |-> state.k0, k1 |-> state.k1, len |-> 0]

Absorb(state, word) == RotatedLeft(Times(Xor(state, word), Factor))

\* A word of up to WordBytes bytes, the first one lowest, padded with zeros.
Before(word, byte) == byte + Two[ByteBits] * word
WordOf(bytes) == FoldLeft(Before, 0, Reverse(bytes))

\* The words a byte string is absorbed as.
WordsOf(bytes) ==
    LET first(n) == (n - 1) * WordBytes + 1
        last(n) == IF n * WordBytes <= Len(bytes) THEN n * WordBytes ELSE Len(bytes)
    IN  [n \in 1 .. (Len(bytes) + WordBytes - 1) \div WordBytes |->
            WordOf(SubSeq(bytes, first(n), last(n)))]

Write(hasher, bytes) ==
    [hasher EXCEPT !.state = FoldLeft(Absorb, @, WordsOf(bytes)),
                   !.len = (@ + Len(bytes)) % Modulus]

WriteWord(hasher, word) ==
    [hasher EXCEPT !.state = Absorb(@, word), !.len = (@ + WordBytes) % Modulus]

Finish(hasher) == Fmix(Xor(Xor(hasher.state, hasher.k1), hasher.len))

\* fnv1a_hash, gone on with from h.
FnvByte(h, byte) == Times(Xor(h, byte), FnvPrime)
Fnv(h, bytes) == FoldLeft(FnvByte, h, bytes)

-----------------------------------------------------------------------------
VARIABLES
    fn,         \* the SeededState both use
    one, other, \* the hashers
    writes,     \* how many writes there were
    apart,      \* history: the words, of all the two absorbed, that differed;
                \* Many when their numbers differed
    fnvOne, fnvOther, \* the FNV-1a hashes of the bytes that each wrote as such
    bytesApart  \* history: the bytes of these that differed, in the same way

hashVars == <<fn, one, other, writes, apart, fnvOne, fnvOther, bytesApart>>

Many == 2

HashInit ==
    /\ \E seed \in Seeds : fn \in {WithSeed(seed), TableFor(seed)}
    /\ one = NewHasher(fn) /\ other = NewHasher(fn)
    /\ fnvOne = FnvOffset /\ fnvOther = FnvOffset
    /\ writes = 0 /\ apart = 0 /\ bytesApart = 0

Differing(v, w) ==
    IF Len(v) # Len(w) THEN Many ELSE Cardinality({n \in 1 .. Len(v) : v[n] # w[n]})

UpToMany(d) == IF d > Many THEN Many ELSE d

Count(d) ==
    /\ writes < MaxWrites
    /\ writes' = writes + 1
    /\ apart' = UpToMany(apart + d)
    /\ UNCHANGED fn

\* write, and the write_u8 to write_u128 that go through it.
WriteBytes(a, b) ==
    /\ one' = Write(one, a) /\ other' = Write(other, b)
    /\ fnvOne' = Fnv(fnvOne, a) /\ fnvOther' = Fnv(fnvOther, b)
    /\ bytesApart' = UpToMany(bytesApart + Differing(a, b))
    /\ Count(Differing(WordsOf(a), WordsOf(b)))

\* write_u64 and write_usize.
WriteWords(a, b) ==
    /\ one' = WriteWord(one, a) /\ other' = WriteWord(other, b)
    /\ Count(Differing(<<a>>, <<b>>))
    /\ UNCHANGED <<fnvOne, fnvOther, bytesApart>>

\* One key writes a number, the other its bytes.
WriteEither(word, bytes) ==
    /\ one' = WriteWord(one, word) /\ other' = Write(other, bytes)
    /\ Count(Differing(<<word>>, WordsOf(bytes)))
    /\ UNCHANGED <<fnvOne, fnvOther, bytesApart>>

Numbers == {WordOf(p) : p \in {p \in Pieces : Len(p) <= WordBytes}}

HashNext ==
    \/ \E a, b \in Pieces : WriteBytes(a, b)
    \/ \E a, b \in Numbers : WriteWords(a, b)
    \/ \E a \in Numbers, b \in Pieces : WriteEither(a, b)

HashSpec == HashInit /\ [][HashNext]_hashVars

-----------------------------------------------------------------------------
\* Words are words, however the arithmetic went, and both hashers are of one
\* function.
HashTypeOK ==
    /\ fn \in [k0 : Words, k1 : Words]
    /\ \A h \in {one, other} : h \in [state : Words, k1 : {fn.k1}, len : Words]
    /\ fnvOne \in Words /\ fnvOther \in Words
    /\ apart \in 0 .. Many /\ bytesApart \in 0 .. Many

\* No cheap collision (seed.rs, absorb, write and finish): for every seed, two
\* keys whose words differ in one place hash differently, and so do keys of
\* different lengths whose words are the same because the last is padded with
\* zeros; while a number hashes like its bytes, lowest first.  And byte strings
\* that differ in one byte do not share their FNV-1a (jump_hash.rs, fnv1a_hash).
DifferenceTells ==
    /\ one.len = other.len /\ apart = 1 => Finish(one) # Finish(other)
    /\ one.len # other.len /\ apart = 0 => Finish(one) # Finish(other)
    /\ one.len = other.len /\ apart = 0 => Finish(one) = Finish(other)
    /\ bytesApart = 1 => fnvOne # fnvOther

=============================================================================
