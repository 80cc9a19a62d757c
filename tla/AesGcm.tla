-------------------------------- MODULE AesGcm --------------------------------
(***************************************************************************)
(* encryptData() and decryptData() of src/core/crypto, one after another   *)
(* in one process, every OpenSSL call of theirs a step that may fail.      *)
(* Between calls the containers made so far may be damaged, cut, joined    *)
(* and mixed before they come back to decryptData.                         *)
(*                                                                         *)
(* pc names the call the function is about to make; "idle" is outside.     *)
(***************************************************************************)
EXTENDS Container

CONSTANTS Passwords,   \* the passwords callers use
          Plaintexts,  \* the data encryptData is called with
          Ivs,         \* what RAND_bytes may deliver
          Stored(_),   \* Stored(made): byte strings decryptData is called with
          MaxCalls     \* bound on the number of calls

ASSUME CallersAssumption ==
  /\ Passwords \subseteq Seq(Byte)
  /\ Plaintexts \subseteq Seq(Byte)
  /\ \A iv \in Ivs : /\ iv \in Seq({RawCell(b) : b \in Byte})
                     /\ Len(iv) = AES_IV_LENGTH
  /\ MaxCalls \in Nat

VARIABLES
  pc,
  op,         \* which of the two functions is running, or ran last
  input,      \* data, or encryptedData
  password,
  iv,
  buf,        \* ciphertext, or plaintext
  live,       \* EVP_CIPHER_CTX objects allocated and not freed
  outcome,    \* "ok" or the exception of the last call
  result,     \* what the last call returned
  made,       \* history: the containers encryptData returned
  calls,      \* history: calls begun
  badAllocs   \* history: calls std::bad_alloc ended while their context existed

vars == <<pc, op, input, password, iv, buf, live, outcome, result, made, calls,
          badAllocs>>
args == <<op, input, password>>

\* A container with what it was made from.
Made(d, p, v, c) == [data |-> d, key |-> KeyOf(p), iv |-> v, container |-> c]

\* The cells a stored byte string can consist of: no one but encryptData
\* produces tag bytes or ciphertext.
KnownCells ==
  {RawCell(b) : b \in Byte} \cup UNION {{m.container[i] : i \in DOMAIN m.container} : m \in made}

Outcome == {"none", "ok", "WeakPasswordError", "CorruptedFileError", "DhtError",
            "DecryptionFailedError", "InvalidPasswordError", "bad_alloc"}

Init ==
  /\ pc = "idle" /\ op = "encrypt"
  /\ input = <<>> /\ password = <<>>
  /\ iv = <<>> /\ buf = <<>> /\ result = <<>>
  /\ live = 0
  /\ outcome = "none"
  /\ made = {} /\ calls = 0 /\ badAllocs = 0

-----------------------------------------------------------------------------
\* A faulty variant: the context is freed where there is none.
ThrowAlwaysFrees(e, freed) ==
  /\ pc' = "idle" /\ outcome' = e /\ result' = <<>>
  /\ live' = live - 1
  /\ UNCHANGED <<args, iv, buf, made, calls>>

\* The function throws e; EVP_CIPHER_CTX_free(ctx) was called where `freed'.
Throw(e, freed) ==
  /\ pc' = "idle" /\ outcome' = e /\ result' = <<>>
  /\ live' = IF freed THEN live - 1 ELSE live
  /\ UNCHANGED <<args, iv, buf, made, calls>>

Fail(e, freed) == Throw(e, freed) /\ UNCHANGED badAllocs

Goto(l) == pc' = l /\ UNCHANGED <<args, live, outcome, result, made, calls, badAllocs>>

Enter(o, d, p) ==
  /\ pc = "idle" /\ calls < MaxCalls
  /\ calls' = calls + 1
  /\ op' = o /\ input' = d /\ password' = p
  /\ iv' = <<>> /\ buf' = <<>> /\ result' = <<>>
  /\ UNCHANGED <<live, made, badAllocs>>

\* encryptData(d, p) up to RAND_bytes: validatePassword.
CallEncrypt(d, p) ==
  /\ Enter("encrypt", d, p)
  /\ IF Weak(p) THEN pc' = "idle" /\ outcome' = "WeakPasswordError"
                ELSE pc' = "RAND_bytes" /\ outcome' = "none"

\* key and iv are allocated, and iv is filled.
GenerateIv ==
  /\ pc = "RAND_bytes"
  /\ \/ \E v \in Ivs : iv' = v /\ UNCHANGED buf /\ Goto("EVP_CIPHER_CTX_new")
     \/ Fail("DhtError", FALSE)
     \/ Fail("bad_alloc", FALSE)

\* A faulty variant: the size is checked before the password.
CallDecryptSizeFirst(c, p) ==
  /\ Enter("decrypt", c, p)
  /\ CASE TooShort(c) -> pc' = "idle" /\ outcome' = "CorruptedFileError"
       [] ~TooShort(c) /\ Weak(p) -> pc' = "idle" /\ outcome' = "WeakPasswordError"
       [] OTHER -> pc' = "split" /\ outcome' = "none"

\* decryptData(c, p): the password, then the size of c are checked.
CallDecrypt(c, p) ==
  /\ Enter("decrypt", c, p)
  /\ CASE Weak(p) -> pc' = "idle" /\ outcome' = "WeakPasswordError"
       [] ~Weak(p) /\ TooShort(c) -> pc' = "idle" /\ outcome' = "CorruptedFileError"
       [] OTHER -> pc' = "split" /\ outcome' = "none"

\* iv, tag and ciphertext are copied out of encryptedData.
Split ==
  /\ pc = "split"
  /\ \/ iv' = IvOf(input) /\ UNCHANGED buf /\ Goto("EVP_CIPHER_CTX_new")
     \/ Fail("bad_alloc", FALSE)

NewContext ==
  /\ pc = "EVP_CIPHER_CTX_new"
  /\ \/ /\ live' = live + 1
        /\ pc' = "EVP_Init_ex"
        /\ UNCHANGED <<args, iv, buf, outcome, result, made, calls, badAllocs>>
     \/ Fail("DhtError", FALSE)

\* A faulty variant: the error path does not free the context.
InitContextLeaks ==
  /\ pc = "EVP_Init_ex"
  /\ \/ Goto("buffer") /\ UNCHANGED <<iv, buf>>
     \/ Fail(IF op = "encrypt" THEN "DhtError" ELSE "DecryptionFailedError", FALSE)

\* EVP_EncryptInit_ex / EVP_DecryptInit_ex with key and iv.
InitContext ==
  /\ pc = "EVP_Init_ex"
  /\ \/ Goto("buffer") /\ UNCHANGED <<iv, buf>>
     \/ Fail(IF op = "encrypt" THEN "DhtError" ELSE "DecryptionFailedError", TRUE)

\* A std::vector cannot be allocated while ctx is a bare pointer: no one
\* frees ctx.
Leak == Throw("bad_alloc", FALSE) /\ badAllocs' = badAllocs + 1

\* The std::vector for the output is allocated.
AllocateBuffer ==
  /\ pc = "buffer"
  /\ \/ Goto("EVP_Update") /\ UNCHANGED <<iv, buf>>
     \/ Leak

-----------------------------------------------------------------------------
\* EVP_EncryptUpdate(ctx, ..., data.size()): a negative inl is refused.
EncryptUpdate ==
  /\ pc = "EVP_Update" /\ op = "encrypt"
  /\ \/ /\ Narrow(Len(input)) >= 0
        /\ buf' = EncryptBytes(KeyOf(password), iv, Processed(input))
        /\ UNCHANGED iv
        /\ Goto("EVP_EncryptFinal_ex")
     \/ Fail("DhtError", TRUE)

EncryptFinal ==
  /\ pc = "EVP_EncryptFinal_ex"
  /\ \/ Goto("EVP_CTRL_GCM_GET_TAG") /\ UNCHANGED <<iv, buf>>
     \/ Fail("DhtError", TRUE)

\* The tag is allocated and fetched, ctx freed and the container put together.
GetTag ==
  /\ pc = "EVP_CTRL_GCM_GET_TAG"
  /\ \/ /\ result' = Assemble(iv, GcmTag(KeyOf(password), iv, buf), buf)
        /\ outcome' = "ok" /\ pc' = "idle"
        /\ live' = live - 1
        /\ made' = made \cup {Made(input, password, iv, result')}
        /\ UNCHANGED <<args, iv, buf, calls, badAllocs>>
     \/ Fail("DhtError", TRUE)
     \/ Leak
     \/ Fail("bad_alloc", TRUE)

-----------------------------------------------------------------------------
DecryptUpdate ==
  /\ pc = "EVP_Update" /\ op = "decrypt"
  /\ \/ /\ Narrow(Len(CiphertextOf(input))) >= 0
        /\ buf' = DecryptBytes(KeyOf(password), iv, Processed(CiphertextOf(input)))
        /\ UNCHANGED iv
        /\ Goto("EVP_CTRL_GCM_SET_TAG")
     \/ Fail("DecryptionFailedError", TRUE)

SetTag ==
  /\ pc = "EVP_CTRL_GCM_SET_TAG"
  /\ \/ Goto("EVP_DecryptFinal_ex") /\ UNCHANGED <<iv, buf>>
     \/ Fail("DecryptionFailedError", TRUE)

DecryptFinal ==
  /\ pc = "EVP_DecryptFinal_ex"
  /\ \/ /\ TagVerifies(input, KeyOf(password))
        /\ result' = buf
        /\ outcome' = "ok" /\ pc' = "idle"
        /\ live' = live - 1
        /\ UNCHANGED <<args, iv, buf, made, calls, badAllocs>>
     \/ ~TagVerifies(input, KeyOf(password)) /\ Fail("InvalidPasswordError", TRUE)

-----------------------------------------------------------------------------
Work ==
  \/ GenerateIv \/ Split \/ NewContext \/ InitContext \/ AllocateBuffer
  \/ EncryptUpdate \/ EncryptFinal \/ GetTag
  \/ DecryptUpdate \/ SetTag \/ DecryptFinal

\* The bound on calls is reached.
Stopped == pc = "idle" /\ calls = MaxCalls /\ UNCHANGED vars

Next ==
  \/ \E d \in Plaintexts, p \in Passwords : CallEncrypt(d, p)
  \/ \E c \in Stored(made), p \in Passwords :
       c \in Seq(KnownCells) /\ CallDecrypt(c, p)
  \/ Work
  \/ Stopped

Spec == Init /\ [][Next]_vars

-----------------------------------------------------------------------------
(***************************************************************************)
(* Properties                                                              *)
(***************************************************************************)

TypeOK ==
  /\ pc \in {"idle", "RAND_bytes", "split", "EVP_CIPHER_CTX_new", "EVP_Init_ex",
             "buffer", "EVP_Update", "EVP_EncryptFinal_ex", "EVP_CTRL_GCM_GET_TAG",
             "EVP_CTRL_GCM_SET_TAG", "EVP_DecryptFinal_ex"}
  /\ op \in {"encrypt", "decrypt"}
  /\ live \in Nat /\ badAllocs \in Nat
  /\ outcome \in Outcome
  /\ calls \in 0..MaxCalls
  /\ \A m \in made : m.data \in Plaintexts /\ m.iv \in Ivs

\* Container m was made with the key the current password gives.
SameKey(m) == ~Weak(password) /\ m.key = KeyOf(password)

Decrypted == pc = "idle" /\ op = "decrypt" /\ outcome = "ok"

\* decryptData hands out nothing but what encryptData once protected under
\* the same key: however stored containers were cut, mixed or extended, a
\* normal return is the protected part of the data of a container made with
\* that key (aes_gcm_decryptor.cpp:54-59).
OnlySealedDataComesOut ==
  Decrypted => \E m \in made : SameKey(m) /\ result = Processed(m.data)

\* An unharmed container opens for every password with the same key: it is
\* never reported as corrupt, nor the password as wrong.
SealedDataOpens ==
  \A m \in made :
    pc = "idle" /\ op = "decrypt" /\ input = m.container /\ SameKey(m)
      => /\ outcome \notin {"CorruptedFileError", "InvalidPasswordError"}
         /\ outcome = "ok" => result = Processed(m.data)

\* encryptData never returns a container that lacks part of its data while
\* the size of the data fits the int that EVP_EncryptUpdate takes; only from
\* 2 * (INT_MAX + 1) bytes on does the narrowed size drop data silently
\* (aes_gcm_encryptor.cpp:40).
CompleteUnlessSizeWraps ==
  \A m \in made :
    Len(m.container) = AES_IV_LENGTH + AES_TAG_LENGTH + Len(m.data)
    \/ Len(m.data) >= 2 * (INT_MAX + 1)

\* However the OpenSSL calls inside them fail, both functions end as their
\* contract in Container says: the exception names the first check that
\* failed, and a normal return carries the whole container or plaintext.
ContractKept ==
  pc = "idle" /\ calls > 0 =>
    IF op = "encrypt" THEN EncryptDataMay(input, password, iv, outcome, result)
                      ELSE DecryptDataMay(input, password, outcome, result)

\* Every path out of both functions frees the cipher context once, except a
\* std::bad_alloc thrown while the context exists, which leaks it.
ContextsFreed ==
  live = badAllocs + (IF pc \in {"EVP_Init_ex", "buffer", "EVP_Update",
                                 "EVP_EncryptFinal_ex", "EVP_CTRL_GCM_GET_TAG",
                                 "EVP_CTRL_GCM_SET_TAG", "EVP_DecryptFinal_ex"}
                      THEN 1 ELSE 0)

=============================================================================
