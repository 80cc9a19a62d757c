------------------------------- MODULE Container -------------------------------
(***************************************************************************)
(* The encrypted container of Dht: iv, tag and ciphertext in one byte      *)
(* string (aes_gcm_encryptor.cpp, aes_gcm_decryptor.cpp), and the OpenSSL  *)
(* AES-256-GCM functions they call, as an ideal authenticated cipher:      *)
(* a ciphertext byte depends on key, iv, position and plaintext byte, a    *)
(* tag byte on key, iv and the whole ciphertext, and different inputs give *)
(* different bytes.                                                        *)
(***************************************************************************)
EXTENDS Integers, Sequences

CONSTANTS Byte,                \* bytes of plaintexts, and of ivs
          Noise,               \* a byte decrypted with the wrong key stream
          AES_KEY_LENGTH,
          MIN_PASSWORD_LENGTH,
          AES_IV_LENGTH,
          AES_TAG_LENGTH,
          INT_MAX              \* the largest value of a C int

ASSUME LengthsAssumption ==
  /\ AES_KEY_LENGTH \in Nat \ {0}
  /\ MIN_PASSWORD_LENGTH \in Nat /\ MIN_PASSWORD_LENGTH >= AES_KEY_LENGTH
  /\ AES_IV_LENGTH \in Nat \ {0}
  /\ AES_TAG_LENGTH \in Nat \ {0}
ASSUME NoiseAssumption == Noise \notin Byte
ASSUME IntAssumption == INT_MAX \in Nat

-----------------------------------------------------------------------------
\* A stored byte: one that is not output of the cipher, a ciphertext byte or
\* a tag byte.
RawCell(b) == [kind |-> "raw", byte |-> b]
CtCell(key, iv, i, b) == [kind |-> "ct", key |-> key, iv |-> iv, at |-> i, byte |-> b]
TagCell(key, iv, ct, i) == [kind |-> "tag", key |-> key, iv |-> iv, of |-> ct, at |-> i]

\* The byte a cell decrypts to at position i: xor with the key stream undoes
\* exactly the encryption at that place, and yields noise anywhere else.
ByteOf(key, iv, i, c) ==
  IF \E b \in Byte : c = CtCell(key, iv, i, b)
  THEN CHOOSE b \in Byte : c = CtCell(key, iv, i, b)
  ELSE Noise

EncryptBytes(key, iv, d) == [i \in 1..Len(d) |-> CtCell(key, iv, i, d[i])]
DecryptBytes(key, iv, ct) == [i \in 1..Len(ct) |-> ByteOf(key, iv, i, ct[i])]
GcmTag(key, iv, ct) == [i \in 1..AES_TAG_LENGTH |-> TagCell(key, iv, ct, i)]

-----------------------------------------------------------------------------
\* The key is the first AES_KEY_LENGTH bytes of the password.
KeyOf(password) == SubSeq(password, 1, AES_KEY_LENGTH)

\* A faulty variant: the size is masked to a non-negative int.
NarrowMasked(n) == n % (INT_MAX + 1)

\* A size_t passed as the `int inl' of EVP_EncryptUpdate/EVP_DecryptUpdate.
Narrow(n) ==
  LET m == n % (2 * (INT_MAX + 1)) IN
  IF m <= INT_MAX THEN m ELSE m - 2 * (INT_MAX + 1)

\* The bytes of d that EVP_*Update processes when it is given d.size().
Processed(d) == SubSeq(d, 1, Narrow(Len(d)))

\* A faulty variant: the tag comes first.
AssembleSwapped(iv, tag, ciphertext) == tag \o iv \o ciphertext

\* result: iv, tag, ciphertext.
Assemble(iv, tag, ciphertext) == iv \o tag \o ciphertext

\* encryptedData.size() < AES_IV_LENGTH + AES_TAG_LENGTH.
TooShort(c) == Len(c) < AES_IV_LENGTH + AES_TAG_LENGTH
IvOf(c) == SubSeq(c, 1, AES_IV_LENGTH)
TagOf(c) == SubSeq(c, AES_IV_LENGTH + 1, AES_IV_LENGTH + AES_TAG_LENGTH)
CiphertextOf(c) == SubSeq(c, AES_IV_LENGTH + AES_TAG_LENGTH + 1, Len(c))

\* A faulty variant: the result of EVP_DecryptFinal_ex is not looked at.
TagUnchecked(c, key) == TRUE

\* EVP_DecryptFinal_ex succeeds: the tag in c is that of the bytes processed.
TagVerifies(c, key) ==
  TagOf(c) = GcmTag(key, IvOf(c), Processed(CiphertextOf(c)))

-----------------------------------------------------------------------------
(***************************************************************************)
(* What the two functions promise, as their callers see it: how a call may *)
(* end.  AesGcm, which has every OpenSSL call as a step, keeps to it.      *)
(***************************************************************************)
Weak(p) == Len(p) < MIN_PASSWORD_LENGTH

\* The container encryptData makes of d with key and iv.
Seal(key, iv, d) ==
  LET ct == EncryptBytes(key, iv, Processed(d))
  IN  Assemble(iv, GcmTag(key, iv, ct), ct)

\* The bytes decryptData decrypts of container c.
Unseal(key, c) == DecryptBytes(key, IvOf(c), Processed(CiphertextOf(c)))

EncryptDataMay(d, p, iv, outcome, result) ==
  \/ Weak(p) /\ outcome = "WeakPasswordError"
  \/ ~Weak(p) /\ outcome \in {"DhtError", "bad_alloc"}
  \/ /\ ~Weak(p) /\ Narrow(Len(d)) >= 0
     /\ outcome = "ok" /\ result = Seal(KeyOf(p), iv, d)

DecryptDataMay(c, p, outcome, result) ==
  \/ Weak(p) /\ outcome = "WeakPasswordError"
  \/ ~Weak(p) /\ TooShort(c) /\ outcome = "CorruptedFileError"
  \/ /\ ~Weak(p) /\ ~TooShort(c)
     /\ \/ outcome \in {"DhtError", "DecryptionFailedError", "bad_alloc"}
        \/ ~TagVerifies(c, KeyOf(p)) /\ outcome = "InvalidPasswordError"
        \/ /\ TagVerifies(c, KeyOf(p))
           /\ outcome = "ok"
           /\ result = Unseal(KeyOf(p), c)

=============================================================================
