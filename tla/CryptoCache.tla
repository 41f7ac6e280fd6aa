---------------------------- MODULE CryptoCache -----------------------------
(***************************************************************************)
(* Encrypted and signed entries (crypto_bridge.rs).  The cipher and the    *)
(* hash come from another crate: `open` gives the plaintext back exactly   *)
(* for what `seal` made under the same key, and a digest tells plaintexts  *)
(* apart.  Where entries are kept is not trusted: `decrypt` may be handed  *)
(* any ciphertext there is, or one that was altered, with any digest.      *)
(***************************************************************************)
EXTENDS Naturals, FiniteSets

CONSTANTS
    Caches,       \* the CryptoCaches
    Keys,         \* the cipher's keys
    Plaintexts,
    Digest,       \* the hash of each plaintext
    Altered,      \* a ciphertext that no seal made
    Nothing,      \* no signed entry yet
    MaxCalls      \* BOUND on the entries a cache encrypts, and on those it decrypts

ASSUME CryptoAssumption ==
    /\ Digest \in [Plaintexts -> Nat]
    /\ \A p, q \in Plaintexts : Digest[p] = Digest[q] => p = q
    /\ MaxCalls \in Nat

VARIABLES
    keyOf,        \* CryptoCache.key
    encrypted,    \* encrypted_count
    decrypted,    \* decrypted_count
    failures,     \* integrity_failures
    made,         \* the entries encrypt returned
    opened,       \* history: the entries decrypted, with the plaintexts returned
    signed        \* a SignedEntry, and the data it was made from

cryptoVars == <<keyOf, encrypted, decrypted, failures, made, opened, signed>>

Sealed(key, p) == [key |-> key, plain |-> p]

\* What encrypt returns: EncryptedEntry.
EntryOf(key, p) == [ciphertext |-> Sealed(key, p), hash |-> Digest[p]]

\* new and with_key: two caches may be given one key.
CryptoInit ==
    /\ keyOf \in [Caches -> Keys]
    /\ encrypted = [c \in Caches |-> 0]
    /\ decrypted = [c \in Caches |-> 0]
    /\ failures = [c \in Caches |-> 0]
    /\ made = {}
    /\ opened = {}
    /\ signed = Nothing

Encrypt(c, p) ==
    /\ encrypted[c] < MaxCalls
    /\ encrypted' = [encrypted EXCEPT ![c] = @ + 1]
    /\ made' = made \cup {EntryOf(keyOf[c], p)}
    /\ UNCHANGED <<keyOf, decrypted, failures, opened, signed>>

\* The cipher may fail to seal; nothing was counted yet.
EncryptFails(c) == UNCHANGED cryptoVars

\* What decrypt may be handed.
Handed ==
    [ciphertext : {e.ciphertext : e \in made} \cup {Altered},
     hash : {Digest[p] : p \in Plaintexts}]

Opens(c, e) == e.ciphertext # Altered /\ e.ciphertext.key = keyOf[c]

\* open refuses: decrypt returns before it counts anything.
DecryptRefused(c, e) == ~Opens(c, e) /\ UNCHANGED cryptoVars

DecryptMismatch(c, e) ==
    /\ Opens(c, e)
    /\ Digest[e.ciphertext.plain] # e.hash
    /\ failures[c] < MaxCalls
    /\ failures' = [failures EXCEPT ![c] = @ + 1]
    /\ UNCHANGED <<keyOf, encrypted, decrypted, made, opened, signed>>

\* Mutant: the plaintext is returned without a look at its digest.
DecryptUnchecked(c, e) ==
    /\ Opens(c, e)
    /\ decrypted[c] < MaxCalls
    /\ decrypted' = [decrypted EXCEPT ![c] = @ + 1]
    /\ opened' = opened \cup {[entry |-> e, plain |-> e.ciphertext.plain]}
    /\ UNCHANGED <<keyOf, encrypted, failures, made, signed>>

Decrypt(c, e) ==
    /\ Opens(c, e)
    /\ Digest[e.ciphertext.plain] = e.hash
    /\ decrypted[c] < MaxCalls
    /\ decrypted' = [decrypted EXCEPT ![c] = @ + 1]
    /\ opened' = opened \cup {[entry |-> e, plain |-> e.ciphertext.plain]}
    /\ UNCHANGED <<keyOf, encrypted, failures, made, signed>>

\* SignedEntry::new, a change of its two fields (both are public), and verify.
Sign(p) ==
    /\ signed' = [data |-> p, hash |-> Digest[p], origin |-> p]
    /\ UNCHANGED <<keyOf, encrypted, decrypted, failures, made, opened>>

Change(p, h) ==
    /\ signed # Nothing
    /\ signed' = [signed EXCEPT !.data = p, !.hash = h]
    /\ UNCHANGED <<keyOf, encrypted, decrypted, failures, made, opened>>

Verify(s) == Digest[s.data] = s.hash
EntriesEqual(a, b) == a.hash = b.hash

CryptoNext ==
    \/ \E c \in Caches :
         \/ \E p \in Plaintexts : Encrypt(c, p)
         \/ EncryptFails(c)
         \/ \E e \in Handed : DecryptRefused(c, e) \/ DecryptMismatch(c, e) \/ Decrypt(c, e)
    \/ \E p \in Plaintexts : Sign(p) \/ \E q \in Plaintexts : Change(p, Digest[q])

CryptoSpec == CryptoInit /\ [][CryptoNext]_cryptoVars

-----------------------------------------------------------------------------
CryptoTypeOK ==
    /\ keyOf \in [Caches -> Keys]
    /\ encrypted \in [Caches -> Nat]
    /\ decrypted \in [Caches -> Nat]
    /\ failures \in [Caches -> Nat]
    /\ \A o \in opened : o.plain \in Plaintexts

\* An answer can be told from the entry alone (crypto_bridge.rs, decrypt and
\* entries_equal, "contain the same plaintext (without decrypting)"): entries that
\* were decrypted, by whichever caches and keys, compare equal just when the same
\* plaintext came out of them, though digests and ciphertexts are exchanged between
\* entries on their way.
EqualEntriesOpenAlike ==
    \A a, b \in opened : EntriesEqual(a.entry, b.entry) <=> a.plain = b.plain

\* What the comment of verify says of it (crypto_bridge.rs:33): it tells whether the
\* data was modified since creation.  It compares two fields of the entry, both of
\* which may have been replaced.
VerifyTellsModified ==
    signed # Nothing => (Verify(signed) <=> signed.data = signed.origin)

=============================================================================
