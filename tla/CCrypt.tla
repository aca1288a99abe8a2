------------------------------- MODULE CCrypt -------------------------------
(***************************************************************************)
(* HMAC-MD5 and CRAM-MD5 (CCrypt) over symbolic bytes, beside the          *)
(* definitions of RFC 2104 and RFC 2195 that they are to compute.  MD5,    *)
(* the exclusive or, base64 and hex are terms: two are equal only if their *)
(* arguments are.                                                          *)
(***************************************************************************)
EXTENDS Integers, Sequences

CONSTANTS
  BlockSize,  \* 64 bytes in the code
  DigestSize  \* 16 bytes in the code

ASSUME CryptAssumption ==
  /\ BlockSize \in Nat \ {0}
  /\ DigestSize \in 1..BlockSize

Byte(n) == <<"byte", n>>
Xor(b, c) == <<"xor", b, c>>
Md5(text) == [i \in 1..DigestSize |-> <<"md5", text, i>>]
ToHex(text) == <<"hex", text>>
ToBase64(text) == <<"base64", text>>
FromBase64(token) == IF token[1] = "base64" THEN token[2] ELSE <<>>

ipad == Byte("36")
opad == Byte("5c")

\* bcopy of the key to a zeroed array, and the exclusive or of each byte.
Padded(key, pad) ==
  [i \in 1..BlockSize |-> Xor(IF i <= Len(key) THEN key[i] ELSE Byte(0), pad)]

\* Mutant: a key of exactly one block is hashed, too.
hmac_md5_off(k, text) ==
  LET key == IF Len(k) >= BlockSize THEN Md5(k) ELSE k
  IN Md5(Padded(key, opad) \o Md5(Padded(key, ipad) \o text))

hmac_md5(k, text) ==
  LET key == IF Len(k) > BlockSize THEN Md5(k) ELSE k
      digest == Md5(Padded(key, ipad) \o text)
  IN Md5(Padded(key, opad) \o digest)

cram_md5(user, password, challenge) ==
  ToBase64(<<user, ToHex(hmac_md5(password, FromBase64(challenge)))>>)

-----------------------------------------------------------------------------
(* RFC 2104: the key, hashed if it is longer than a block, is filled up    *)
(* with zeros; H(K xor opad, H(K xor ipad, text)).                         *)

FilledUp(key) ==
  (IF Len(key) <= BlockSize THEN key ELSE Md5(key))
    \o [i \in 1..BlockSize - (IF Len(key) <= BlockSize THEN Len(key)
                              ELSE DigestSize) |-> Byte(0)]

HMAC(key, text) ==
  LET With(pad) == [i \in 1..BlockSize |-> Xor(FilledUp(key)[i], pad)]
  IN Md5(With(opad) \o Md5(With(ipad) \o text))

\* RFC 2195: what the server expects for the challenge it sent.
Expected(user, password, text) == ToBase64(<<user, ToHex(HMAC(password, text))>>)

=============================================================================
