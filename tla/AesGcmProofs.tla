----------------------------- MODULE AesGcmProofs -----------------------------
(***************************************************************************)
(* Proofs about encryptData and decryptData for every password, plaintext, *)
(* iv and stored byte string, and every failure of an OpenSSL call.        *)
(***************************************************************************)
EXTENDS AesGcm, ContainerProofs

-----------------------------------------------------------------------------
(***************************************************************************)
(* The inductive invariant.  What a call returns depends on what its local *)
(* variables hold at each OpenSSL call (Arguments, IvHeld, BufHeld); that  *)
(* only sealed data comes out depends on every container being the Seal of *)
(* its data (MadeIsSealed), for then a tag byte found anywhere names the   *)
(* container it is from.                                                   *)
(***************************************************************************)
Encrypting == {"RAND_bytes", "EVP_EncryptFinal_ex", "EVP_CTRL_GCM_GET_TAG"}
Decrypting == {"split", "EVP_CTRL_GCM_SET_TAG", "EVP_DecryptFinal_ex"}
HoldsContext == {"EVP_Init_ex", "buffer", "EVP_Update", "EVP_EncryptFinal_ex",
                 "EVP_CTRL_GCM_GET_TAG", "EVP_CTRL_GCM_SET_TAG", "EVP_DecryptFinal_ex"}

RightFunction ==
  /\ pc \in Encrypting => op = "encrypt"
  /\ pc \in Decrypting => op = "decrypt"
Arguments ==
  /\ pc # "idle" => ~Weak(password)
  /\ pc # "idle" /\ op = "encrypt" => input \in Plaintexts
  /\ pc # "idle" /\ op = "decrypt" => ~TooShort(input)
  /\ op = "decrypt" => input \in Seq(KnownCells) /\ calls > 0
IvHeld ==
  pc \in HoldsContext \cup {"EVP_CIPHER_CTX_new"} =>
    IF op = "encrypt" THEN iv \in Ivs ELSE iv = IvOf(input)
BufHeld ==
  /\ pc \in {"EVP_EncryptFinal_ex", "EVP_CTRL_GCM_GET_TAG"} =>
       /\ Narrow(Len(input)) >= 0
       /\ buf = EncryptBytes(KeyOf(password), iv, Processed(input))
  /\ pc \in {"EVP_CTRL_GCM_SET_TAG", "EVP_DecryptFinal_ex"} =>
       buf = Unseal(KeyOf(password), input)
MadeIsSealed ==
  \A m \in made : /\ Narrow(Len(m.data)) >= 0
                  /\ m.container = Seal(m.key, m.iv, m.data)

IInv ==
  /\ TypeOK /\ RightFunction /\ Arguments /\ IvHeld /\ BufHeld /\ MadeIsSealed
  /\ ContractKept /\ ContextsFreed

-----------------------------------------------------------------------------
\* The assumptions on the callers, in the terms of the container lemmas.
LEMMA Callers ==
  /\ \A d \in Plaintexts : d \in Seq(Byte)
  /\ \A v \in Ivs : v \in Seq(RawCells) /\ Len(v) = AES_IV_LENGTH
  /\ MaxCalls \in Nat
  BY CallersAssumption DEF RawCells

\* A call that throws, from wherever it stands, keeps the invariant when its
\* contract allows the exception and it has freed what it must.
LEMMA ThrowKeeps ==
  ASSUME IInv, pc # "idle", NEW e \in Outcome, NEW freed \in BOOLEAN, Throw(e, freed),
         badAllocs' \in Nat, live' = badAllocs',
         e # "ok", e # "none",
         op = "encrypt" => e \in {"DhtError", "bad_alloc"},
         op = "decrypt" => \/ e \in {"DhtError", "DecryptionFailedError", "bad_alloc"}
                           \/ ~TagVerifies(input, KeyOf(password)) /\ e = "InvalidPasswordError"
  PROVE  IInv'
<1> USE DEF IInv
<1>1. /\ pc' = "idle" /\ outcome' = e
      /\ UNCHANGED <<op, input, password, iv, buf, made, calls>>
  BY DEF Throw, args
<1>2. TypeOK'
  BY <1>1 DEF TypeOK
<1>3. RightFunction' /\ IvHeld' /\ BufHeld' /\ MadeIsSealed'
  BY <1>1 DEF RightFunction, Encrypting, Decrypting, IvHeld, HoldsContext, BufHeld,
     MadeIsSealed
<1>4. Arguments'
  BY <1>1 DEF Arguments, KnownCells
<1>5. ContextsFreed'
  <2>1. \A n \in Nat : n = n + 0
    OBVIOUS
  <2>2. live' = badAllocs' + 0
    BY <2>1
  <2> QED
    BY <1>1, <2>2 DEF ContextsFreed
<1>6. ContractKept'
  <2>1. ~Weak(password) /\ op \in {"encrypt", "decrypt"}
    BY DEF Arguments, TypeOK
  <2>2. CASE op = "encrypt"
    BY <1>1, <2>1, <2>2 DEF ContractKept, EncryptDataMay
  <2>3. CASE op = "decrypt"
    <3>1. ~TooShort(input)
      BY <2>3 DEF Arguments
    <3> QED
      BY <1>1, <2>1, <2>3, <3>1 DEF ContractKept, DecryptDataMay
  <2> QED
    BY <2>1, <2>2, <2>3
<1> QED
  BY <1>2, <1>3, <1>4, <1>5, <1>6

\* While the cipher context exists, one more is live than std::bad_alloc leaked.
LEMMA OneContext ==
  ASSUME IInv
  PROVE  /\ live \in Nat /\ badAllocs \in Nat
         /\ pc \in HoldsContext => live = badAllocs + 1
         /\ pc \notin HoldsContext => live = badAllocs
  BY DEF IInv, TypeOK, ContextsFreed, HoldsContext

\* An OpenSSL call that succeeds takes the function to its next call.
LEMMA GotoKeeps ==
  ASSUME IInv, pc # "idle", NEW l, Goto(l),
         l \in Encrypting \cup Decrypting \cup HoldsContext \cup {"EVP_CIPHER_CTX_new"},
         l \in HoldsContext <=> pc \in HoldsContext,
         l \in Encrypting => op = "encrypt", l \in Decrypting => op = "decrypt",
         IvHeld', BufHeld'
  PROVE  IInv'
<1> USE DEF IInv
<1>1. pc' = l /\ UNCHANGED <<op, input, password, live, outcome, result, made, calls, badAllocs>>
  BY DEF Goto, args
<1>2. TypeOK'
  BY <1>1 DEF TypeOK, Encrypting, Decrypting, HoldsContext
<1>3. RightFunction' /\ MadeIsSealed'
  BY <1>1 DEF RightFunction, MadeIsSealed
<1>4. Arguments'
  BY <1>1 DEF Arguments, KnownCells
<1>5. ContextsFreed'
  BY <1>1, OneContext DEF ContextsFreed, HoldsContext
<1>6. ContractKept'
  BY <1>1 DEF ContractKept, Encrypting, Decrypting, HoldsContext
<1> QED
  BY <1>2, <1>3, <1>4, <1>5, <1>6

\* Every step of a call, and the beginning of one, keeps the invariant.
LEMMA InvariantStep ==
  IInv /\ [Next]_vars => IInv'
<1> SUFFICES ASSUME IInv, [Next]_vars PROVE IInv'
  OBVIOUS
<1> USE DEF IInv
<1>1. ASSUME NEW d \in Plaintexts, NEW p \in Passwords, CallEncrypt(d, p)
      PROVE  IInv'
  <2>1. /\ pc = "idle" /\ calls < MaxCalls /\ calls' = calls + 1
        /\ op' = "encrypt" /\ input' = d /\ password' = p
        /\ UNCHANGED <<live, made, badAllocs>>
        /\ \/ Weak(p) /\ pc' = "idle" /\ outcome' = "WeakPasswordError"
           \/ ~Weak(p) /\ pc' = "RAND_bytes" /\ outcome' = "none"
    BY <1>1 DEF CallEncrypt, Enter
  <2>2. TypeOK'
    BY <2>1, Callers DEF TypeOK, Outcome
  <2>3. ContextsFreed'
    BY <2>1 DEF ContextsFreed
  <2>4. ContractKept'
    BY <2>1 DEF ContractKept, EncryptDataMay
  <2>5. RightFunction' /\ Arguments' /\ IvHeld' /\ BufHeld' /\ MadeIsSealed'
    BY <2>1 DEF RightFunction, Encrypting, Decrypting, Arguments, IvHeld, HoldsContext,
       BufHeld, MadeIsSealed
  <2> QED
    BY <2>2, <2>3, <2>4, <2>5
<1>2. ASSUME NEW c \in Seq(KnownCells), NEW p \in Passwords, CallDecrypt(c, p)
      PROVE  IInv'
  <2>1. /\ pc = "idle" /\ calls < MaxCalls /\ calls' = calls + 1
        /\ op' = "decrypt" /\ input' = c /\ password' = p
        /\ UNCHANGED <<live, made, badAllocs>>
        /\ \/ Weak(p) /\ pc' = "idle" /\ outcome' = "WeakPasswordError"
           \/ ~Weak(p) /\ TooShort(c) /\ pc' = "idle" /\ outcome' = "CorruptedFileError"
           \/ ~Weak(p) /\ ~TooShort(c) /\ pc' = "split" /\ outcome' = "none"
    BY <1>2 DEF CallDecrypt, Enter
  <2>2. TypeOK'
    BY <2>1, Callers DEF TypeOK, Outcome
  <2>3. ContextsFreed'
    BY <2>1 DEF ContextsFreed
  <2>4. ContractKept'
    BY <2>1 DEF ContractKept, DecryptDataMay
  <2>5. RightFunction' /\ IvHeld' /\ BufHeld' /\ MadeIsSealed'
    BY <2>1 DEF RightFunction, Encrypting, Decrypting, IvHeld, HoldsContext, BufHeld,
       MadeIsSealed
  <2>6. KnownCells' = KnownCells /\ calls' > 0
    BY <2>1 DEF KnownCells, TypeOK
  <2>7. Arguments'
    BY <2>1, <2>6 DEF Arguments
  <2> QED
    BY <2>2, <2>3, <2>4, <2>5, <2>7
<1>3. CASE GenerateIv
  <2>1. pc = "RAND_bytes" /\ op = "encrypt" /\ live = badAllocs
    BY <1>3, OneContext DEF GenerateIv, RightFunction, Encrypting, HoldsContext
  <2>2. ASSUME NEW v \in Ivs, iv' = v, Goto("EVP_CIPHER_CTX_new")
        PROVE  IInv'
    <3>1. IvHeld' /\ BufHeld'
      BY <2>1, <2>2 DEF Goto, args, IvHeld, BufHeld
    <3> QED
      BY <2>1, <2>2, <3>1, GotoKeeps DEF HoldsContext, Encrypting, Decrypting
  <2>3. ASSUME NEW e \in {"DhtError", "bad_alloc"}, Fail(e, FALSE)
        PROVE  IInv'
    BY <2>1, <2>3, OneContext, ThrowKeeps DEF Fail, Throw, Outcome
  <2> QED
    BY <1>3, <2>2, <2>3 DEF GenerateIv
<1>4. CASE Split
  <2>1. pc = "split" /\ op = "decrypt" /\ live = badAllocs
    BY <1>4, OneContext DEF Split, RightFunction, Decrypting, HoldsContext
  <2>2. CASE iv' = IvOf(input) /\ Goto("EVP_CIPHER_CTX_new")
    <3>1. IvHeld' /\ BufHeld'
      BY <2>1, <2>2 DEF Goto, args, IvHeld, BufHeld
    <3> QED
      BY <2>1, <2>2, <3>1, GotoKeeps DEF HoldsContext, Encrypting, Decrypting
  <2>3. CASE Fail("bad_alloc", FALSE)
    BY <2>1, <2>3, OneContext, ThrowKeeps DEF Fail, Throw, Outcome
  <2> QED
    BY <1>4, <2>2, <2>3 DEF Split
<1>5. CASE NewContext
  <2>1. pc = "EVP_CIPHER_CTX_new" /\ live = badAllocs
    BY <1>5, OneContext DEF NewContext, HoldsContext
  <2>2. CASE Fail("DhtError", FALSE)
    BY <2>1, <2>2, OneContext, ThrowKeeps DEF Fail, Throw, Outcome
  <2>3. CASE /\ live' = live + 1
             /\ pc' = "EVP_Init_ex"
             /\ UNCHANGED <<args, iv, buf, outcome, result, made, calls, badAllocs>>
    <3>1. TypeOK' /\ ContextsFreed'
      BY <2>1, <2>3, OneContext DEF TypeOK, ContextsFreed, args
    <3>2. RightFunction' /\ IvHeld' /\ BufHeld' /\ MadeIsSealed' /\ ContractKept'
      BY <2>1, <2>3 DEF RightFunction, Encrypting, Decrypting, IvHeld, HoldsContext, BufHeld,
         MadeIsSealed, ContractKept, args
    <3>3. Arguments'
      BY <2>1, <2>3 DEF Arguments, KnownCells, args
    <3> QED
      BY <3>1, <3>2, <3>3
  <2> QED
    BY <1>5, <2>2, <2>3 DEF NewContext
<1>6. CASE InitContext
  <2>1. pc = "EVP_Init_ex" /\ live = badAllocs + 1
    BY <1>6, OneContext DEF InitContext, HoldsContext
  <2>2. CASE Goto("buffer") /\ UNCHANGED <<iv, buf>>
    <3>1. IvHeld' /\ BufHeld'
      BY <2>1, <2>2 DEF Goto, args, IvHeld, BufHeld, HoldsContext
    <3> QED
      BY <2>1, <2>2, <3>1, GotoKeeps DEF HoldsContext, Encrypting, Decrypting
  <2>3. CASE Fail(IF op = "encrypt" THEN "DhtError" ELSE "DecryptionFailedError", TRUE)
    <3>1. live' = badAllocs' /\ badAllocs' \in Nat
      BY <2>1, <2>3, OneContext DEF Fail, Throw
    <3> QED
      BY <2>1, <2>3, <3>1, ThrowKeeps DEF Fail, Outcome
  <2> QED
    BY <1>6, <2>2, <2>3 DEF InitContext
<1>7. CASE AllocateBuffer
  <2>1. pc = "buffer" /\ live = badAllocs + 1
    BY <1>7, OneContext DEF AllocateBuffer, HoldsContext
  <2>2. CASE Goto("EVP_Update") /\ UNCHANGED <<iv, buf>>
    <3>1. IvHeld' /\ BufHeld'
      BY <2>1, <2>2 DEF Goto, args, IvHeld, BufHeld, HoldsContext
    <3> QED
      BY <2>1, <2>2, <3>1, GotoKeeps DEF HoldsContext, Encrypting, Decrypting
  <2>3. CASE Leak
    <3>1. live' = badAllocs' /\ badAllocs' \in Nat
      BY <2>1, <2>3, OneContext DEF Leak, Throw
    <3> QED
      BY <2>1, <2>3, <3>1, ThrowKeeps DEF Leak, Outcome
  <2> QED
    BY <1>7, <2>2, <2>3 DEF AllocateBuffer
<1>8. CASE EncryptUpdate
  <2>1. pc = "EVP_Update" /\ op = "encrypt" /\ live = badAllocs + 1
    BY <1>8, OneContext DEF EncryptUpdate, HoldsContext
  <2>2. CASE /\ Narrow(Len(input)) >= 0
             /\ buf' = EncryptBytes(KeyOf(password), iv, Processed(input))
             /\ UNCHANGED iv
             /\ Goto("EVP_EncryptFinal_ex")
    <3>1. IvHeld' /\ BufHeld'
      BY <2>1, <2>2 DEF Goto, args, IvHeld, BufHeld, HoldsContext
    <3> QED
      BY <2>1, <2>2, <3>1, GotoKeeps DEF HoldsContext, Encrypting, Decrypting
  <2>3. CASE Fail("DhtError", TRUE)
    <3>1. live' = badAllocs' /\ badAllocs' \in Nat
      BY <2>1, <2>3, OneContext DEF Fail, Throw
    <3> QED
      BY <2>1, <2>3, <3>1, ThrowKeeps DEF Fail, Outcome
  <2> QED
    BY <1>8, <2>2, <2>3 DEF EncryptUpdate
<1>9. CASE EncryptFinal
  <2>1. pc = "EVP_EncryptFinal_ex" /\ op = "encrypt" /\ live = badAllocs + 1
    BY <1>9, OneContext DEF EncryptFinal, HoldsContext, RightFunction, Encrypting
  <2>2. CASE Goto("EVP_CTRL_GCM_GET_TAG") /\ UNCHANGED <<iv, buf>>
    <3>1. IvHeld' /\ BufHeld'
      BY <2>1, <2>2 DEF Goto, args, IvHeld, BufHeld, HoldsContext
    <3> QED
      BY <2>1, <2>2, <3>1, GotoKeeps DEF HoldsContext, Encrypting, Decrypting
  <2>3. CASE Fail("DhtError", TRUE)
    <3>1. live' = badAllocs' /\ badAllocs' \in Nat
      BY <2>1, <2>3, OneContext DEF Fail, Throw
    <3> QED
      BY <2>1, <2>3, <3>1, ThrowKeeps DEF Fail, Outcome
  <2> QED
    BY <1>9, <2>2, <2>3 DEF EncryptFinal
<1>10. CASE GetTag
  <2>1. pc = "EVP_CTRL_GCM_GET_TAG" /\ op = "encrypt" /\ live = badAllocs + 1
    BY <1>10, OneContext DEF GetTag, HoldsContext, RightFunction, Encrypting
  <2>2. CASE /\ result' = Assemble(iv, GcmTag(KeyOf(password), iv, buf), buf)
             /\ outcome' = "ok" /\ pc' = "idle"
             /\ live' = live - 1
             /\ made' = made \cup {Made(input, password, iv, result')}
             /\ UNCHANGED <<args, iv, buf, calls, badAllocs>>
    <3>1. /\ iv \in Ivs /\ input \in Plaintexts /\ ~Weak(password)
          /\ Narrow(Len(input)) >= 0
          /\ buf = EncryptBytes(KeyOf(password), iv, Processed(input))
      BY <2>1 DEF IvHeld, Arguments, BufHeld, HoldsContext
    <3>2. result' = Seal(KeyOf(password), iv, input)
      BY <2>2, <3>1 DEF Seal
    <3>3. \A m \in made' : m \in made \/ (/\ m.data = input /\ m.key = KeyOf(password)
                                           /\ m.iv = iv /\ m.container = result')
      BY <2>2 DEF Made
    <3>4. TypeOK'
      BY <2>1, <2>2, <3>1, <3>3, OneContext DEF TypeOK, Outcome, args
    <3>5. MadeIsSealed'
      BY <3>1, <3>2, <3>3 DEF MadeIsSealed
    <3>6. ContractKept'
      BY <2>1, <2>2, <3>1, <3>2 DEF ContractKept, EncryptDataMay, args
    <3>7. ContextsFreed'
      BY <2>1, <2>2, OneContext DEF ContextsFreed
    <3>8. RightFunction' /\ Arguments' /\ IvHeld' /\ BufHeld'
      BY <2>1, <2>2 DEF RightFunction, Encrypting, Decrypting, Arguments, IvHeld,
         HoldsContext, BufHeld, args
    <3> QED
      BY <3>4, <3>5, <3>6, <3>7, <3>8
  <2>3. ASSUME NEW e \in {"DhtError", "bad_alloc"}, Fail(e, TRUE)
        PROVE  IInv'
    <3>1. live' = badAllocs' /\ badAllocs' \in Nat
      BY <2>1, <2>3, OneContext DEF Fail, Throw
    <3> QED
      BY <2>1, <2>3, <3>1, ThrowKeeps DEF Fail, Outcome
  <2>4. CASE Leak
    <3>1. live' = badAllocs' /\ badAllocs' \in Nat
      BY <2>1, <2>4, OneContext DEF Leak, Throw
    <3> QED
      BY <2>1, <2>4, <3>1, ThrowKeeps DEF Leak, Outcome
  <2> QED
    BY <1>10, <2>2, <2>3, <2>4 DEF GetTag
<1>11. CASE DecryptUpdate
  <2>1. pc = "EVP_Update" /\ op = "decrypt" /\ live = badAllocs + 1
    BY <1>11, OneContext DEF DecryptUpdate, HoldsContext
  <2>2. CASE /\ buf' = DecryptBytes(KeyOf(password), iv, Processed(CiphertextOf(input)))
             /\ UNCHANGED iv
             /\ Goto("EVP_CTRL_GCM_SET_TAG")
    <3>1. iv = IvOf(input)
      BY <2>1 DEF IvHeld, HoldsContext
    <3>2. IvHeld' /\ BufHeld'
      BY <2>1, <2>2, <3>1 DEF Goto, args, IvHeld, BufHeld, HoldsContext, Unseal
    <3> QED
      BY <2>1, <2>2, <3>2, GotoKeeps DEF HoldsContext, Encrypting, Decrypting
  <2>3. CASE Fail("DecryptionFailedError", TRUE)
    <3>1. live' = badAllocs' /\ badAllocs' \in Nat
      BY <2>1, <2>3, OneContext DEF Fail, Throw
    <3> QED
      BY <2>1, <2>3, <3>1, ThrowKeeps DEF Fail, Outcome
  <2> QED
    BY <1>11, <2>2, <2>3 DEF DecryptUpdate
<1>12. CASE SetTag
  <2>1. pc = "EVP_CTRL_GCM_SET_TAG" /\ op = "decrypt" /\ live = badAllocs + 1
    BY <1>12, OneContext DEF SetTag, HoldsContext, RightFunction, Decrypting
  <2>2. CASE Goto("EVP_DecryptFinal_ex") /\ UNCHANGED <<iv, buf>>
    <3>1. IvHeld' /\ BufHeld'
      BY <2>1, <2>2 DEF Goto, args, IvHeld, BufHeld, HoldsContext
    <3> QED
      BY <2>1, <2>2, <3>1, GotoKeeps DEF HoldsContext, Encrypting, Decrypting
  <2>3. CASE Fail("DecryptionFailedError", TRUE)
    <3>1. live' = badAllocs' /\ badAllocs' \in Nat
      BY <2>1, <2>3, OneContext DEF Fail, Throw
    <3> QED
      BY <2>1, <2>3, <3>1, ThrowKeeps DEF Fail, Outcome
  <2> QED
    BY <1>12, <2>2, <2>3 DEF SetTag
<1>13. CASE DecryptFinal
  <2>1. pc = "EVP_DecryptFinal_ex" /\ op = "decrypt" /\ live = badAllocs + 1
    BY <1>13, OneContext DEF DecryptFinal, HoldsContext, RightFunction, Decrypting
  <2>2. CASE /\ TagVerifies(input, KeyOf(password))
             /\ result' = buf
             /\ outcome' = "ok" /\ pc' = "idle"
             /\ live' = live - 1
             /\ UNCHANGED <<args, iv, buf, made, calls, badAllocs>>
    <3>1. /\ ~TooShort(input) /\ ~Weak(password)
          /\ result' = Unseal(KeyOf(password), input)
      BY <2>1, <2>2 DEF Arguments, BufHeld
    <3>2. ContractKept'
      BY <2>1, <2>2, <3>1 DEF ContractKept, DecryptDataMay, args
    <3>3. TypeOK' /\ ContextsFreed'
      BY <2>1, <2>2, OneContext DEF TypeOK, ContextsFreed, Outcome, args
    <3>4. RightFunction' /\ IvHeld' /\ BufHeld' /\ MadeIsSealed'
      BY <2>1, <2>2 DEF RightFunction, Encrypting, Decrypting, IvHeld, HoldsContext, BufHeld,
         MadeIsSealed, args
    <3>5. Arguments'
      BY <2>1, <2>2 DEF Arguments, KnownCells, args
    <3> QED
      BY <3>2, <3>3, <3>4, <3>5
  <2>3. CASE ~TagVerifies(input, KeyOf(password)) /\ Fail("InvalidPasswordError", TRUE)
    <3>1. live' = badAllocs' /\ badAllocs' \in Nat
      BY <2>1, <2>3, OneContext DEF Fail, Throw
    <3> QED
      BY <2>1, <2>3, <3>1, ThrowKeeps DEF Fail, Outcome
  <2> QED
    BY <1>13, <2>2, <2>3 DEF DecryptFinal
<1>14. CASE UNCHANGED vars
  BY <1>14 DEF vars, args, TypeOK, RightFunction, Arguments, IvHeld, BufHeld, MadeIsSealed,
     ContractKept, ContextsFreed, KnownCells
<1> QED
  BY <1>1, <1>2, <1>3, <1>4, <1>5, <1>6, <1>7, <1>8, <1>9, <1>10, <1>11, <1>12,
     <1>13, <1>14
  DEF Next, Work, Stopped

\* The invariant holds however calls follow each other.
LEMMA InvariantHolds == Spec => []IInv
<1>1. Init => IInv
  BY Callers
  DEF Init, IInv, TypeOK, RightFunction, Encrypting, Decrypting, Arguments, IvHeld,
      HoldsContext, BufHeld, MadeIsSealed, ContractKept, ContextsFreed, Outcome
<1> QED
  BY <1>1, InvariantStep, PTL DEF Spec

\* encryptData and decryptData keep their variables within their types.
THEOREM TypeCorrect == Spec => []TypeOK
<1>1. IInv => TypeOK
  BY DEF IInv
<1> QED
  BY <1>1, InvariantHolds, PTL

\* However OpenSSL calls and allocations fail, no path out of encryptData or
\* decryptData frees the cipher context twice or leaves it behind, but for a
\* std::bad_alloc thrown while it exists.
THEOREM ContextsAreFreed == Spec => []ContextsFreed
<1>1. IInv => ContextsFreed
  BY DEF IInv
<1> QED
  BY <1>1, InvariantHolds, PTL

\* Each call ends as the contract in Container says, whatever its arguments.
THEOREM ContractHolds == Spec => []ContractKept
<1>1. IInv => ContractKept
  BY DEF IInv
<1> QED
  BY <1>1, InvariantHolds, PTL

-----------------------------------------------------------------------------
\* The containers encryptData returns, in the terms of the container lemmas.
LEMMA MadeContainer ==
  ASSUME IInv, NEW m \in made
  PROVE  /\ m.iv \in Seq(RawCells) /\ Len(m.iv) = AES_IV_LENGTH
         /\ m.data \in Seq(Byte) /\ Narrow(Len(m.data)) >= 0
         /\ m.container = Seal(m.key, m.iv, m.data)
  BY Callers DEF IInv, TypeOK, MadeIsSealed

\* encryptData drops no byte of data whose size fits an int: for every length
\* of iv and tag, a container is as long as its parts, or the data has
\* 2 * (INT_MAX + 1) bytes or more.
THEOREM ContainersComplete == Spec => []CompleteUnlessSizeWraps
<1>1. IInv => CompleteUnlessSizeWraps
  <2> SUFFICES ASSUME IInv, NEW m \in made, ~(Len(m.data) >= 2 * (INT_MAX + 1))
               PROVE  Len(m.container) = AES_IV_LENGTH + AES_TAG_LENGTH + Len(m.data)
    BY DEF CompleteUnlessSizeWraps
  <2>1. Len(m.data) \in Nat /\ Narrow(Len(m.data)) >= 0
    BY MadeContainer, LenProperties
  <2>2. Len(m.container) = AES_IV_LENGTH + AES_TAG_LENGTH + Narrow(Len(m.data))
    <3>1. /\ m.iv \in Seq(RawCells) /\ Len(m.iv) = AES_IV_LENGTH
          /\ m.data \in Seq(Byte) /\ Narrow(Len(m.data)) >= 0
          /\ m.container \in {Seal(m.key, m.iv, m.data)}
      BY MadeContainer
    <3>2. PICK ct : ct \in {EncryptBytes(m.key, m.iv, Processed(m.data))}
      OBVIOUS
    <3> QED
      BY <3>1, <3>2, SealParts
  <2>3. Len(m.data) < 2 * (INT_MAX + 1)
    BY <2>1, IntAssumption
  <2>4. Narrow(Len(m.data)) = Len(m.data)
    BY <2>1, <2>3, NarrowProperties
  <2> QED
    BY <2>2, <2>4
<1> QED
  BY <1>1, InvariantHolds, PTL

\* However stored containers were cut, joined and mixed, what decryptData
\* returns is the processed part of data that encryptData sealed with the key
\* the password gives: a tag byte exists only in the container it was made for.
THEOREM OnlySealedDataReturned == Spec => []OnlySealedDataComesOut
<1>1. IInv => OnlySealedDataComesOut
  <2> SUFFICES ASSUME IInv, Decrypted
               PROVE  \E m \in made : SameKey(m) /\ result = Processed(m.data)
    BY DEF OnlySealedDataComesOut
  <2> DEFINE key == KeyOf(password)
             t == TagCell(key, IvOf(input), Processed(CiphertextOf(input)), 1)
  <2>1. pc = "idle" /\ op = "decrypt" /\ outcome = "ok" /\ calls > 0
        /\ input \in Seq(KnownCells)
    BY DEF Decrypted, IInv, Arguments
  <2>2. /\ ~Weak(password) /\ ~TooShort(input) /\ TagVerifies(input, key)
        /\ result = Unseal(key, input)
    BY <2>1 DEF IInv, ContractKept, DecryptDataMay
  <2>3. t \in KnownCells
    BY <2>1, <2>2, VerifiedTag
  <2>4. t.kind = "tag"
    BY DEF TagCell
  <2>5. \A b \in Byte : t # RawCell(b)
    BY <2>4 DEF RawCell
  <2>6. PICK m \in made : \E i \in DOMAIN m.container : m.container[i] = t
    BY <2>3, <2>5 DEF KnownCells
  <2>7. PICK i \in DOMAIN m.container : m.container[i] = t
    BY <2>6
  <2>8. key = m.key /\ Unseal(key, input) = Processed(m.data)
    BY <2>2, <2>7, MadeContainer, OnlySealedOpens
  <2> QED
    BY <2>2, <2>8 DEF SameKey
<1> QED
  BY <1>1, InvariantHolds, PTL

\* A container that comes back unharmed opens for every password with its
\* key, and to its data: decryptData never calls it corrupt, nor the password
\* wrong.
THEOREM SealedDataWillOpen == Spec => []SealedDataOpens
<1>1. IInv => SealedDataOpens
  <2> SUFFICES ASSUME IInv, NEW m \in made,
                      pc = "idle", op = "decrypt", input = m.container, SameKey(m)
               PROVE  /\ outcome \notin {"CorruptedFileError", "InvalidPasswordError"}
                      /\ outcome = "ok" => result = Processed(m.data)
    BY DEF SealedDataOpens
  <2>1. ~Weak(password) /\ m.key = KeyOf(password) /\ calls > 0
    BY DEF SameKey, IInv, Arguments
  <2>2. /\ ~TooShort(input) /\ TagVerifies(input, KeyOf(password))
        /\ Unseal(KeyOf(password), input) = Processed(m.data)
    BY <2>1, MadeContainer, SealThenUnseal
  <2>3. DecryptDataMay(input, password, outcome, result)
    BY <2>1 DEF IInv, ContractKept
  <2> QED
    BY <2>1, <2>2, <2>3 DEF DecryptDataMay
<1> QED
  BY <1>1, InvariantHolds, PTL

=============================================================================
