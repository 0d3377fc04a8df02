------------------------------ MODULE Passkey ------------------------------
(***************************************************************************)
(* What the software passkey of fido2.go puts on the wire to enrol itself: *)
(* a hand-written CBOR encoder, the COSE key, the authenticator data and   *)
(* the attestation object.  A reader that follows the formats (RFC 8949,   *)
(* WebAuthn) stands for the IdP; SignIn relies on its getting out of a     *)
(* registration the key and the credential id that the identity holds.     *)
(*                                                                         *)
(* Abstraction: only the bytes that carry something are modelled; client   *)
(* data, hashes and signatures are not.                                    *)
(***************************************************************************)
EXTENDS Integers, Sequences

CONSTANTS
  qaAAGUID,     \* the model id of the authenticator
  rpHash,       \* SHA-256 of the relying party id
  Coordinates,  \* coordinates of public keys, to be checked
  Credentials,  \* credential ids, to be checked
  Lengths       \* lengths, to be checked

Byte == 0..255
Bytes == Seq(Byte)

ASSUME PasskeyAssumption ==
  /\ qaAAGUID \in Bytes /\ Len(qaAAGUID) = 16
  /\ rpHash \in Bytes /\ Len(rpHash) = 32
  /\ Coordinates \subseteq Bytes /\ \A c \in Coordinates : Len(c) = 32
  /\ Credentials \subseteq Bytes /\ \A c \in Credentials : Len(c) < 65536
  /\ Lengths \subseteq {n \in Nat : n <= 2147483647}

(***************************************************************************)
(* fido2.go: the encoder                                                   *)
(***************************************************************************)

\* The head of an item: its major type and its number, in the fewest bytes of four
\* widths; of a larger number the lower 32 bits.
cborUint(major, n) ==
  IF n < 24 THEN <<32 * major + n>>
  ELSE IF n < 256 THEN <<32 * major + 24, n>>
  ELSE IF n < 65536 THEN <<32 * major + 25, n \div 256, n % 256>>
  ELSE <<32 * major + 26, (n \div 16777216) % 256, (n \div 65536) % 256, (n \div 256) % 256, n % 256>>

cborBytes(b) == cborUint(2, Len(b)) \o b
cborText(s) == cborUint(3, Len(s)) \o s
cborMapHeader(n) == cborUint(5, n)

\* Mutant: -1 is not encoded as zero.
cborNegIntOffByOne(v) == cborUint(1, -v)

cborNegInt(v) == cborUint(1, -v - 1)
cborPosInt(v) == cborUint(0, v)

\* kty: EC2, alg: ES256, crv: P-256, x and y.
coseKey(x, y) ==
  cborMapHeader(5)
    \o (cborPosInt(1) \o cborPosInt(2))
    \o (cborPosInt(3) \o cborNegInt(-7))
    \o (cborNegInt(-1) \o cborPosInt(1))
    \o (cborNegInt(-2) \o cborBytes(x))
    \o (cborNegInt(-3) \o cborBytes(y))

\* Register: user present, user verified and attested credential included, a
\* counter of zero, and the credential with its length in two bytes.
authData(cred, x, y) ==
  rpHash \o <<69, 0, 0, 0, 0>> \o qaAAGUID
    \o <<(Len(cred) \div 256) % 256, Len(cred) % 256>> \o (cred \o coseKey(x, y))

\* The member names, and the format of an attestation that attests nothing.
Text ==
  [fmt |-> <<102, 109, 116>>, none |-> <<110, 111, 110, 101>>,
   attStmt |-> <<97, 116, 116, 83, 116, 109, 116>>,
   authData |-> <<97, 117, 116, 104, 68, 97, 116, 97>>]

attestationObject(data) ==
  cborMapHeader(3)
    \o (cborText(Text.fmt) \o cborText(Text.none))
    \o (cborText(Text.attStmt) \o cborMapHeader(0))
    \o (cborText(Text.authData) \o cborBytes(data))

(***************************************************************************)
(* External: the reader                                                    *)
(***************************************************************************)

From(s, n) == SubSeq(s, n + 1, Len(s))

\* The head at the start of s, and what follows it.
ReadHead(s) ==
  LET major == s[1] \div 32
      info == s[1] % 32
      head(value, size) == [major |-> major, value |-> value, rest |-> From(s, size)]
  IN
  IF info < 24 THEN head(info, 1)
  ELSE IF info = 24 THEN head(s[2], 2)
  ELSE IF info = 25 THEN head(256 * s[2] + s[3], 3)
  ELSE head(16777216 * s[2] + 65536 * s[3] + 256 * s[4] + s[5], 5)

\* A number, or a string of bytes or text.
ReadItem(s) ==
  LET h == ReadHead(s) IN
  IF h.major = 0 THEN [item |-> h.value, rest |-> h.rest]
  ELSE IF h.major = 1 THEN [item |-> -1 - h.value, rest |-> h.rest]
  ELSE [item |-> SubSeq(h.rest, 1, h.value), rest |-> From(h.rest, h.value)]

ReadEntry(s) ==
  LET name == ReadItem(s)
      value == ReadItem(name.rest)
  IN
  [name |-> name.item, value |-> value.item, rest |-> value.rest]

\* A COSE key, by label; nothing may follow it.
ReadKey(s) ==
  LET h == ReadHead(s)
      kty == ReadEntry(h.rest)
      alg == ReadEntry(kty.rest)
      crv == ReadEntry(alg.rest)
      x == ReadEntry(crv.rest)
      y == ReadEntry(x.rest)
  IN
  [entries |-> h.value, names |-> <<kty.name, alg.name, crv.name, x.name, y.name>>,
   params |-> <<kty.value, alg.value, crv.value>>, x |-> x.value, y |-> y.value, rest |-> y.rest]

\* What the IdP must find in authenticator data: the key, beside the credential id.
KeyRead(x, y) ==
  [entries |-> 5, names |-> <<1, 3, -1, -2, -3>>, params |-> <<2, -7, 1>>,
   x |-> x, y |-> y, rest |-> <<>>]

CredentialLength(data) == 256 * data[54] + data[55]
ReadCredential(data) == SubSeq(data, 56, 55 + CredentialLength(data))
ReadCredentialKey(data) == ReadKey(From(data, 55 + CredentialLength(data)))

\* The authenticator data in an attestation object, after its other two members.
ReadAttestation(s) ==
  LET fmt == ReadEntry(ReadHead(s).rest)
      attStmt == ReadItem(fmt.rest)
      data == ReadEntry(ReadHead(attStmt.rest).rest)
  IN
  data.value

(***************************************************************************)
(* What a registration must carry                                          *)
(***************************************************************************)

\* The IdP reads the credential id and the key out of it, and a head gives back its
\* type and its number at every width.
ReadsBack ==
  /\ \A n \in Lengths, major \in 0..7 :
       ReadHead(cborUint(major, n)) = [major |-> major, value |-> n, rest |-> <<>>]
  /\ \A cred \in Credentials, x, y \in Coordinates :
       LET data == ReadAttestation(attestationObject(authData(cred, x, y))) IN
       ReadCredential(data) = cred /\ ReadCredentialKey(data) = KeyRead(x, y)
=============================================================================
