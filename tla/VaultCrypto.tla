---------------------------- MODULE VaultCrypto ----------------------------
(***************************************************************************)
(* The cryptography of a vault (internal/store/crypto.go) as the rest of   *)
(* the store sees it.                                                      *)
(*                                                                         *)
(* Argon2id is an injective function of the password and the salt, so a    *)
(* key is the pair of the two.  AES-256-GCM authenticates: a ciphertext    *)
(* opens under the key that sealed it and fails under every other one, so  *)
(* a ciphertext is the pair of its key and its text.  A salt is 32 random  *)
(* bytes that never repeat: a number drawn from a counter.  The random     *)
(* nonce makes two encryptions of one text differ, which no operation of   *)
(* the store looks at, and is left out.                                    *)
(***************************************************************************)
EXTENDS Naturals

CONSTANTS Passwords, \* the master passwords people type
          Values,    \* the secrets, each one serialized to JSON
          Nil        \* no key, no ciphertext, no value

Magic == "omnivault-v1"

Salts == Nat
Keys == [password : Passwords, salt : Salts]
Ciphertexts == [key : Keys, text : Values]
Blobs == [key : Keys, text : {Magic}]

\* Sentinels are none of the things they stand for the absence of, and no
\* secret is the magic text of the verification blob (a secret is a JSON
\* object).
ASSUME CryptoConstants ==
  /\ Nil \notin Keys
  /\ Nil \notin Ciphertexts
  /\ Nil \notin Values
  /\ Magic \notin Values

DeriveKey(password, salt) == [password |-> password, salt |-> salt]

Encrypt(key, text) == [key |-> key, text |-> text]

Decryptable(key, cipher) == cipher.key = key

Decrypt(cipher) == cipher.text

CreateVerificationBlob(key) == Encrypt(key, Magic)

\* VerifyPassword derives a key with the salt the Crypto holds, which need
\* not be the salt the blob was sealed under.
VerifyPassword(salt, password, blob) ==
  /\ Decryptable(DeriveKey(password, salt), blob)
  /\ Decrypt(blob) = Magic
=============================================================================
