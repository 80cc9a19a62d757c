---------------------------- MODULE ContainerProofs ----------------------------
(***************************************************************************)
(* What the container and its ideal cipher guarantee, for every length of  *)
(* iv, tag and key and every width of int: the facts the proofs about      *)
(* encryptData, decryptData and the file functions rest on.                *)
(***************************************************************************)
EXTENDS Container, SequenceTheorems, TLAPS

RawCells == {RawCell(b) : b \in Byte}
CtCells(key, iv) == {CtCell(key, iv, i, b) : i \in Nat, b \in Byte}
TagCells(key, iv, ct) == {TagCell(key, iv, ct, i) : i \in Nat}

-----------------------------------------------------------------------------
\* A function on 1..n is a sequence of length n.
LEMMA FunctionIsSeq ==
  ASSUME NEW S, NEW n \in Nat, NEW f \in [1..n -> S]
  PROVE  f \in Seq(S) /\ Len(f) = n
<1>1. f \in Seq(S)
  BY SeqDef
<1>2. Len(f) \in Nat /\ DOMAIN f = 1..Len(f) /\ DOMAIN f = 1..n
  BY <1>1, LenProperties
<1> QED
  BY <1>1, <1>2

\* The int that EVP_*Update is given: never more than the size it stands for,
\* and that size as long as it fits.
LEMMA NarrowProperties ==
  ASSUME NEW n \in Nat
  PROVE  /\ Narrow(n) \in Int /\ Narrow(n) <= INT_MAX /\ Narrow(n) <= n
         /\ n <= INT_MAX => Narrow(n) = n
         /\ n < 2 * (INT_MAX + 1) /\ Narrow(n) >= 0 => Narrow(n) = n
<1> DEFINE M == 2 * (INT_MAX + 1)
<1>1. INT_MAX \in Nat /\ M \in Nat \ {0} /\ M > INT_MAX /\ M = 2 * INT_MAX + 2
  BY IntAssumption
<1> HIDE DEF M
<1>2. n % M \in 0..(M - 1) /\ n % M <= n /\ (n < M => n % M = n)
  BY <1>1
<1>3. Narrow(n) = IF n % M <= INT_MAX THEN n % M ELSE (n % M) - M
  BY DEF Narrow, M
<1>4. M = 2 * (INT_MAX + 1)
  BY DEF M
<1> QED
  BY <1>1, <1>2, <1>3, <1>4

\* What EVP_*Update processes of a byte string is its first Narrow(size) bytes.
LEMMA ProcessedIs ==
  ASSUME NEW S, NEW d \in Seq(S), Narrow(Len(d)) >= 0
  PROVE  /\ Processed(d) \in Seq(S)
         /\ Len(Processed(d)) = Narrow(Len(d))
         /\ Len(Processed(d)) \in Nat /\ Len(Processed(d)) <= INT_MAX
<1> DEFINE n == Narrow(Len(d))
<1>1. Len(d) \in Nat /\ n \in Nat /\ n <= Len(d) /\ n <= INT_MAX
  BY LenProperties, NarrowProperties
<1> HIDE DEF n
<1>2. \A i \in 1..n : d[i] \in S
  BY <1>1, ElementOfSeq
<1>3. /\ SubSeq(d, 1, n) \in Seq(S)
      /\ Len(SubSeq(d, 1, n)) = IF 1 <= n THEN n - 1 + 1 ELSE 0
  BY <1>1, <1>2, SubSeqProperties
<1> QED
  BY <1>1, <1>3 DEF Processed, n

\* A byte string whose size fits an int is processed whole.
LEMMA ProcessedWhole ==
  ASSUME NEW S, NEW d \in Seq(S), Len(d) <= INT_MAX
  PROVE  Processed(d) = d
  BY LenProperties, NarrowProperties, SubSeqFull DEF Processed

-----------------------------------------------------------------------------
\* Encryption makes one ciphertext byte of each plaintext byte.
LEMMA EncryptBytesType ==
  ASSUME NEW key, NEW iv, NEW d \in Seq(Byte)
  PROVE  /\ EncryptBytes(key, iv, d) \in Seq(CtCells(key, iv))
         /\ Len(EncryptBytes(key, iv, d)) = Len(d)
         /\ \A i \in 1..Len(d) : EncryptBytes(key, iv, d)[i] = CtCell(key, iv, i, d[i])
<1>1. Len(d) \in Nat /\ \A i \in 1..Len(d) : d[i] \in Byte
  BY LenProperties, ElementOfSeq
<1>2. \A i \in 1..Len(d) : CtCell(key, iv, i, d[i]) \in CtCells(key, iv)
  BY <1>1 DEF CtCells
<1>3. EncryptBytes(key, iv, d) \in [1..Len(d) -> CtCells(key, iv)]
  BY <1>2 DEF EncryptBytes
<1> QED
  BY <1>1, <1>3, FunctionIsSeq DEF EncryptBytes

\* The tag has AES_TAG_LENGTH bytes.
LEMMA GcmTagType ==
  ASSUME NEW key, NEW iv, NEW ct
  PROVE  /\ GcmTag(key, iv, ct) \in Seq(TagCells(key, iv, ct))
         /\ Len(GcmTag(key, iv, ct)) = AES_TAG_LENGTH
<1>1. AES_TAG_LENGTH \in Nat
  BY LengthsAssumption
<1>2. GcmTag(key, iv, ct) \in [1..AES_TAG_LENGTH -> TagCells(key, iv, ct)]
  BY <1>1 DEF GcmTag, TagCells
<1> QED
  BY <1>1, <1>2, FunctionIsSeq

\* The key stream undoes the encryption of a byte at its own place.
LEMMA ByteOfCtCell ==
  ASSUME NEW key, NEW iv, NEW i, NEW b \in Byte
  PROVE  ByteOf(key, iv, i, CtCell(key, iv, i, b)) = b
<1>1. \A x \in Byte : CtCell(key, iv, i, b) = CtCell(key, iv, i, x) => x = b
  BY DEF CtCell
<1>2. \E x \in Byte : CtCell(key, iv, i, b) = CtCell(key, iv, i, x)
  OBVIOUS
<1>3. (CHOOSE x \in Byte : CtCell(key, iv, i, b) = CtCell(key, iv, i, x)) = b
  BY <1>1, <1>2, Zenon
<1> QED
  BY <1>2, <1>3, Zenon DEF ByteOf

\* Decryption with the same key and iv undoes encryption.
LEMMA DecryptEncrypt ==
  ASSUME NEW key, NEW iv, NEW d \in Seq(Byte)
  PROVE  DecryptBytes(key, iv, EncryptBytes(key, iv, d)) = d
<1> DEFINE ct == EncryptBytes(key, iv, d)
<1>1. /\ Len(ct) = Len(d) /\ Len(d) \in Nat
      /\ \A i \in 1..Len(d) : d[i] \in Byte /\ ct[i] = CtCell(key, iv, i, d[i])
  BY EncryptBytesType, LenProperties, ElementOfSeq
<1> HIDE DEF ct
<1>2. \A i \in 1..Len(d) : ByteOf(key, iv, i, ct[i]) = d[i]
  BY <1>1, ByteOfCtCell
<1>3. DecryptBytes(key, iv, ct) = [i \in 1..Len(d) |-> d[i]]
  BY <1>1, <1>2 DEF DecryptBytes
<1>4. d = [i \in 1..Len(d) |-> d[i]]
  BY LenProperties
<1> QED
  BY <1>3, <1>4 DEF ct

-----------------------------------------------------------------------------
\* Cutting c apart at the lengths of u, v and w gives u, v and w.
CutsInto(c, u, v, w) ==
  /\ Len(c) = Len(u) + Len(v) + Len(w)
  /\ SubSeq(c, 1, Len(u)) = u
  /\ SubSeq(c, Len(u) + 1, Len(u) + Len(v)) = v
  /\ SubSeq(c, Len(u) + Len(v) + 1, Len(c)) = w

\* Three byte strings joined can be cut apart again at their lengths.
LEMMA JoinAndCut ==
  ASSUME NEW S, NEW u \in Seq(S), NEW v \in Seq(S), NEW w \in Seq(S)
  PROVE  u \o v \o w \in Seq(S) /\ CutsInto(u \o v \o w, u, v, w)
<1> DEFINE c == u \o v \o w
<1> HIDE DEF c
<1>1. Len(u) \in Nat /\ Len(v) \in Nat /\ Len(w) \in Nat
  BY LenProperties
<1>2. /\ u \o v \in Seq(S) /\ Len(u \o v) = Len(u) + Len(v)
      /\ \A i \in 1..(Len(u) + Len(v)) :
           (u \o v)[i] = IF i <= Len(u) THEN u[i] ELSE v[i - Len(u)]
  BY ConcatProperties
<1>3. /\ c \in Seq(S) /\ Len(c) = Len(u) + Len(v) + Len(w)
      /\ \A i \in 1..(Len(u) + Len(v) + Len(w)) :
           c[i] = IF i <= Len(u) + Len(v) THEN (u \o v)[i] ELSE w[i - (Len(u) + Len(v))]
  <2>1. /\ (u \o v) \o w \in Seq(S) /\ Len((u \o v) \o w) = Len(u \o v) + Len(w)
        /\ \A i \in 1..(Len(u \o v) + Len(w)) :
             ((u \o v) \o w)[i] = IF i <= Len(u \o v) THEN (u \o v)[i] ELSE w[i - Len(u \o v)]
    BY <1>2, ConcatProperties
  <2> QED
    BY <1>2, <2>1 DEF c
<1>4. /\ \A i \in 1..Len(u) : c[i] = u[i]
      /\ \A i \in 1..Len(v) : c[Len(u) + i] = v[i]
      /\ \A i \in 1..Len(w) : c[Len(u) + Len(v) + i] = w[i]
  <2>1. ASSUME NEW i \in 1..Len(u) PROVE c[i] = u[i]
    BY <1>1, <1>2, <1>3
  <2>2. ASSUME NEW i \in 1..Len(v) PROVE c[Len(u) + i] = v[i]
    <3>1. /\ Len(u) + i \in 1..(Len(u) + Len(v)) /\ ~(Len(u) + i <= Len(u))
          /\ Len(u) + i - Len(u) = i
          /\ Len(u) + i \in 1..(Len(u) + Len(v) + Len(w))
          /\ Len(u) + i <= Len(u) + Len(v)
      BY <1>1
    <3>2. c[Len(u) + i] = (u \o v)[Len(u) + i]
      BY <1>3, <3>1
    <3> QED
      BY <1>2, <3>1, <3>2
  <2>3. ASSUME NEW i \in 1..Len(w) PROVE c[Len(u) + Len(v) + i] = w[i]
    <3>1. /\ Len(u) + Len(v) + i \in 1..(Len(u) + Len(v) + Len(w))
          /\ ~(Len(u) + Len(v) + i <= Len(u) + Len(v))
          /\ Len(u) + Len(v) + i - (Len(u) + Len(v)) = i
      BY <1>1
    <3> QED
      BY <1>3, <3>1
  <2> QED
    BY <2>1, <2>2, <2>3
<1>5. \A i \in 1..Len(c) : c[i] \in S
  BY <1>3, ElementOfSeq
<1>6. SubSeq(c, 1, Len(u)) = u
  <2>1. \A i \in 1..Len(u) : c[i] \in S
    BY <1>1, <1>3, <1>5
  <2>2. /\ SubSeq(c, 1, Len(u)) \in Seq(S)
        /\ Len(SubSeq(c, 1, Len(u))) = IF 1 <= Len(u) THEN Len(u) - 1 + 1 ELSE 0
        /\ \A i \in 1..(Len(u) - 1 + 1) : SubSeq(c, 1, Len(u))[i] = c[1 + i - 1]
    BY <1>1, <2>1, SubSeqProperties
  <2>3. Len(SubSeq(c, 1, Len(u))) = Len(u)
    BY <1>1, <2>2
  <2>4. \A i \in 1..Len(SubSeq(c, 1, Len(u))) : SubSeq(c, 1, Len(u))[i] = u[i]
    BY <1>1, <1>4, <2>2, <2>3
  <2> QED
    BY <2>2, <2>3, <2>4, SeqEqual, Zenon
<1>7. SubSeq(c, Len(u) + 1, Len(u) + Len(v)) = v
  <2> DEFINE t == SubSeq(c, Len(u) + 1, Len(u) + Len(v))
  <2>1. \A i \in (Len(u) + 1)..(Len(u) + Len(v)) : c[i] \in S
    BY <1>1, <1>3, <1>5
  <2>2. /\ t \in Seq(S)
        /\ Len(t) = IF Len(u) + 1 <= Len(u) + Len(v)
                    THEN Len(u) + Len(v) - (Len(u) + 1) + 1 ELSE 0
        /\ \A i \in 1..(Len(u) + Len(v) - (Len(u) + 1) + 1) : t[i] = c[Len(u) + 1 + i - 1]
    BY <1>1, <2>1, SubSeqProperties
  <2> HIDE DEF t
  <2>3. Len(t) = Len(v)
    BY <1>1, <2>2
  <2>4. ASSUME NEW i \in 1..Len(t) PROVE t[i] = v[i]
    <3>1. /\ i \in 1..Len(v) /\ Len(u) + 1 + i - 1 = Len(u) + i
          /\ i \in 1..(Len(u) + Len(v) - (Len(u) + 1) + 1)
      BY <1>1, <2>3
    <3>2. t[i] = c[Len(u) + 1 + i - 1]
      BY <2>2, <3>1
    <3> QED
      BY <1>4, <3>1, <3>2
  <2>5. t = v
    BY <2>2, <2>3, <2>4, SeqEqual, Zenon
  <2> QED
    BY <2>5 DEF t
<1>8. SubSeq(c, Len(u) + Len(v) + 1, Len(c)) = w
  <2> DEFINE t == SubSeq(c, Len(u) + Len(v) + 1, Len(c))
  <2>1. \A i \in (Len(u) + Len(v) + 1)..Len(c) : c[i] \in S
    BY <1>1, <1>3, <1>5
  <2>2. /\ t \in Seq(S)
        /\ Len(t) = IF Len(u) + Len(v) + 1 <= Len(c)
                    THEN Len(c) - (Len(u) + Len(v) + 1) + 1 ELSE 0
        /\ \A i \in 1..(Len(c) - (Len(u) + Len(v) + 1) + 1) :
             t[i] = c[Len(u) + Len(v) + 1 + i - 1]
    BY <1>1, <1>3, <2>1, SubSeqProperties
  <2> HIDE DEF t
  <2>3. Len(t) = Len(w)
    BY <1>1, <1>3, <2>2
  <2>4. ASSUME NEW i \in 1..Len(t) PROVE t[i] = w[i]
    <3>1. /\ i \in 1..Len(w) /\ Len(u) + Len(v) + 1 + i - 1 = Len(u) + Len(v) + i
          /\ i \in 1..(Len(c) - (Len(u) + Len(v) + 1) + 1)
      BY <1>1, <1>3, <2>3
    <3>2. t[i] = c[Len(u) + Len(v) + 1 + i - 1]
      BY <2>2, <3>1
    <3> QED
      BY <1>4, <3>1, <3>2
  <2>5. t = w
    BY <2>2, <2>3, <2>4, SeqEqual, Zenon
  <2> QED
    BY <2>5 DEF t
<1> QED
  BY <1>3, <1>6, <1>7, <1>8 DEF c, CutsInto

\* A container that encryptData makes splits into the parts it was made of,
\* and its bytes are bytes of the iv, of the ciphertext or of its tag.
LEMMA SealParts ==
  ASSUME NEW key, NEW iv \in Seq(RawCells), Len(iv) = AES_IV_LENGTH,
         NEW d \in Seq(Byte), Narrow(Len(d)) >= 0,
         NEW ct \in {EncryptBytes(key, iv, Processed(d))},
         NEW c \in {Seal(key, iv, d)}
  PROVE  /\ c \in Seq(RawCells \cup TagCells(key, iv, ct) \cup CtCells(key, iv))
         /\ Len(c) = AES_IV_LENGTH + AES_TAG_LENGTH + Narrow(Len(d))
         /\ ~TooShort(c)
         /\ IvOf(c) = iv /\ TagOf(c) = GcmTag(key, iv, ct) /\ CiphertextOf(c) = ct
         /\ Processed(ct) = ct
<1> DEFINE S == RawCells \cup TagCells(key, iv, ct) \cup CtCells(key, iv)
           tag == GcmTag(key, iv, ct)
<1>1. /\ Processed(d) \in Seq(Byte) /\ Len(Processed(d)) = Narrow(Len(d))
      /\ Len(Processed(d)) \in Nat /\ Len(Processed(d)) <= INT_MAX
  BY ProcessedIs
<1>2. ct \in Seq(CtCells(key, iv)) /\ Len(ct) = Narrow(Len(d))
  BY <1>1, EncryptBytesType
<1>3. tag \in Seq(TagCells(key, iv, ct)) /\ Len(tag) = AES_TAG_LENGTH
  BY GcmTagType
<1>4. c = iv \o tag \o ct
  BY DEF Seal, Assemble
<1> HIDE DEF tag
<1>5. iv \in Seq(S) /\ tag \in Seq(S) /\ ct \in Seq(S)
  BY <1>2, <1>3, SeqMonotonic
<1> HIDE DEF S
<1>6. /\ c \in Seq(S) /\ Len(c) = Len(iv) + Len(tag) + Len(ct)
      /\ SubSeq(c, 1, Len(iv)) = iv
      /\ SubSeq(c, Len(iv) + 1, Len(iv) + Len(tag)) = tag
      /\ SubSeq(c, Len(iv) + Len(tag) + 1, Len(c)) = ct
  <2>1. iv \o tag \o ct \in Seq(S) /\ CutsInto(iv \o tag \o ct, iv, tag, ct)
    BY <1>5, JoinAndCut, Zenon
  <2> QED
    BY <1>4, <2>1 DEF CutsInto
<1>7. AES_IV_LENGTH \in Nat /\ AES_TAG_LENGTH \in Nat
  BY LengthsAssumption
<1>8. Len(c) = AES_IV_LENGTH + AES_TAG_LENGTH + Narrow(Len(d)) /\ ~TooShort(c)
  BY <1>1, <1>2, <1>3, <1>6, <1>7 DEF TooShort
<1>9. IvOf(c) = iv /\ TagOf(c) = tag /\ CiphertextOf(c) = ct
  BY <1>3, <1>6 DEF IvOf, TagOf, CiphertextOf
<1>10. Processed(ct) = ct
  BY <1>1, <1>2, ProcessedWhole
<1> QED
  BY <1>6, <1>8, <1>9, <1>10 DEF S, tag

\* An unharmed container opens with its key, and to what was processed of the
\* data when it was made (aes_gcm_encryptor.cpp:40-63, aes_gcm_decryptor.cpp:36-62).
THEOREM SealThenUnseal ==
  ASSUME NEW key, NEW iv \in Seq(RawCells), Len(iv) = AES_IV_LENGTH,
         NEW d \in Seq(Byte), Narrow(Len(d)) >= 0
  PROVE  /\ ~TooShort(Seal(key, iv, d))
         /\ TagVerifies(Seal(key, iv, d), key)
         /\ Unseal(key, Seal(key, iv, d)) = Processed(d)
<1> DEFINE ct == EncryptBytes(key, iv, Processed(d))
           c == Seal(key, iv, d)
<1>1. Processed(d) \in Seq(Byte)
  BY ProcessedIs
<1>2. /\ ~TooShort(c) /\ IvOf(c) = iv /\ TagOf(c) = GcmTag(key, iv, ct)
      /\ CiphertextOf(c) = ct /\ Processed(ct) = ct
  BY SealParts
<1>3. DecryptBytes(key, iv, ct) = Processed(d)
  BY <1>1, DecryptEncrypt
<1> HIDE DEF ct, c
<1>4. TagVerifies(c, key) /\ Unseal(key, c) = Processed(d)
  BY <1>2, <1>3 DEF TagVerifies, Unseal
<1> QED
  BY <1>2, <1>4 DEF c

\* The first byte of a tag that verifies names key, iv and the ciphertext.
LEMMA VerifiedTag ==
  ASSUME NEW S, NEW c \in Seq(S), ~TooShort(c), NEW key, TagVerifies(c, key)
  PROVE  TagCell(key, IvOf(c), Processed(CiphertextOf(c)), 1) \in S
<1> DEFINE t == TagCell(key, IvOf(c), Processed(CiphertextOf(c)), 1)
<1>1. /\ AES_IV_LENGTH \in Nat /\ AES_TAG_LENGTH \in Nat \ {0}
      /\ Len(c) \in Nat /\ Len(c) >= AES_IV_LENGTH + AES_TAG_LENGTH
  BY LengthsAssumption, LenProperties DEF TooShort
<1>2. \A i \in (AES_IV_LENGTH + 1)..(AES_IV_LENGTH + AES_TAG_LENGTH) : c[i] \in S
  BY <1>1, ElementOfSeq
<1>3. /\ TagOf(c) \in Seq(S)
      /\ \A i \in 1..AES_TAG_LENGTH : TagOf(c)[i] = c[AES_IV_LENGTH + i]
  <2>1. /\ TagOf(c) \in Seq(S)
        /\ \A i \in 1..(AES_IV_LENGTH + AES_TAG_LENGTH - (AES_IV_LENGTH + 1) + 1) :
             TagOf(c)[i] = c[AES_IV_LENGTH + 1 + i - 1]
    BY <1>1, <1>2, SubSeqProperties DEF TagOf
  <2> QED
    BY <1>1, <2>1
<1>4. TagOf(c)[1] \in S
  BY <1>1, <1>2, <1>3
<1>5. TagOf(c)[1] = t
  BY <1>1 DEF TagVerifies, GcmTag
<1> QED
  BY <1>4, <1>5

\* A container holds no tag bytes but those of its own ciphertext.
LEMMA TagOfSeal ==
  ASSUME NEW key, NEW iv \in Seq(RawCells), Len(iv) = AES_IV_LENGTH,
         NEW d \in Seq(Byte), Narrow(Len(d)) >= 0,
         NEW i \in DOMAIN Seal(key, iv, d), NEW k, NEW v, NEW x, NEW j,
         Seal(key, iv, d)[i] = TagCell(k, v, x, j)
  PROVE  k = key /\ v = iv /\ x = EncryptBytes(key, iv, Processed(d))
<1> DEFINE ct == EncryptBytes(key, iv, Processed(d))
           c == Seal(key, iv, d)
<1>1. c \in Seq(RawCells \cup TagCells(key, iv, ct) \cup CtCells(key, iv))
  BY SealParts
<1> HIDE DEF ct, c
<1>2. i \in DOMAIN c /\ c[i] = TagCell(k, v, x, j)
  BY DEF c
<1>3. c[i] \in RawCells \cup TagCells(key, iv, ct) \cup CtCells(key, iv)
  BY <1>1, <1>2, LenProperties, ElementOfSeq
<1>4. c[i].kind = "tag"
  BY <1>2 DEF TagCell
<1>5. c[i] \in TagCells(key, iv, ct)
  BY <1>3, <1>4 DEF RawCells, RawCell, CtCells, CtCell
<1>6. PICK n \in Nat : TagCell(k, v, x, j) = TagCell(key, iv, ct, n)
  BY <1>2, <1>5 DEF TagCells
<1>7. k = key /\ v = iv /\ x = ct
  BY <1>6 DEF TagCell
<1> QED
  BY <1>7 DEF ct

\* Authenticity: whatever a byte string is made of, when its tag verifies and
\* that tag's first byte is a byte of the container of d, then it was made
\* with the same key and opens to what was processed of d.
THEOREM OnlySealedOpens ==
  ASSUME NEW c, NEW k, TagVerifies(c, k),
         NEW key, NEW iv \in Seq(RawCells), Len(iv) = AES_IV_LENGTH,
         NEW d \in Seq(Byte), Narrow(Len(d)) >= 0,
         NEW i \in DOMAIN Seal(key, iv, d),
         Seal(key, iv, d)[i] = TagCell(k, IvOf(c), Processed(CiphertextOf(c)), 1)
  PROVE  k = key /\ Unseal(k, c) = Processed(d)
<1>1. /\ k = key /\ IvOf(c) = iv
      /\ Processed(CiphertextOf(c)) = EncryptBytes(key, iv, Processed(d))
  BY TagOfSeal
<1>2. Processed(d) \in Seq(Byte)
  BY ProcessedIs
<1> QED
  BY <1>1, <1>2, DecryptEncrypt DEF Unseal

=============================================================================
