------------------------------ MODULE Base64 ------------------------------
(***************************************************************************)
(* The text of a picture: base64_encode writes the bytes of a JPEG as      *)
(* characters for the JSON of an update message, and base64_decode reads   *)
(* them back (IOUtils.cpp); the program itself only encodes, the decoder   *)
(* says what the text stands for.  One step is one round of a loop: three  *)
(* bytes become four characters, and four characters three bytes.          *)
(*                                                                         *)
(* A character is its place in base64_chars, counted from 0; the sign '='  *)
(* is the next number, which is no place of that table.                    *)
(***************************************************************************)
EXTENDS Integers, Sequences

CONSTANTS
    Bytes,      \* values of the bytes of a picture
    MaxLen      \* bound: bytes of a picture

ASSUME Base64Assumption ==
    /\ Bytes \subseteq 0..255
    /\ MaxLen \in Nat

VARIABLES
    pc,         \* "encode", "decode" or "done"
    bytes,      \* the picture, bytes_to_encode
    iter,       \* number of its bytes that are encoded
    ret,        \* the text
    in_,        \* number of its characters that are decoded
    decoded     \* the `ret' of base64_decode

vars == <<pc, bytes, iter, ret, in_, decoded>>

-----------------------------------------------------------------------------
Digits == 0..63

Pad == 64

\* (unsigned char) std::string::npos: find('\0') in base64_chars.
NotFound == 255

TypeOK ==
    /\ pc \in {"encode", "decode", "done"}
    /\ bytes \in Seq(Bytes) /\ Len(bytes) <= MaxLen
    /\ iter \in 0..Len(bytes)
    /\ ret \in Seq(Digits \cup {Pad})
    /\ in_ \in 0..Len(ret)
    /\ decoded \in Seq(0..255)

Init ==
    /\ pc = "encode"
    /\ \E n \in 0..MaxLen : bytes \in [1..n -> Bytes]
    /\ iter = 0
    /\ ret = <<>>
    /\ in_ = 0
    /\ decoded = <<>>

-----------------------------------------------------------------------------
\* Mutant: low bits are not moved up.
QuadUnshifted(a, b, c) ==
    <<a \div 4, (a % 4) * 16 + b \div 16, (b % 16) + c \div 64, c % 64>>

\* char_array_4 of char_array_3: 24 bits as four groups of six.
Quad(a, b, c) ==
    <<a \div 4,
      (a % 4) * 16 + b \div 16,
      (b % 16) * 4 + c \div 64,
      c % 64>>

\* char_array_3 of char_array_4, an array of unsigned char.
Triple(w, x, y, z) ==
    <<(w * 4 + (x % 64) \div 16) % 256,
      ((x % 16) * 16 + (y % 64) \div 4) % 256,
      ((y % 4) * 64 + z) % 256>>

EncodeGroup ==
    /\ pc = "encode" /\ Len(bytes) - iter >= 3
    /\ ret' = ret \o Quad(bytes[iter + 1], bytes[iter + 2], bytes[iter + 3])
    /\ iter' = iter + 3
    /\ UNCHANGED <<pc, bytes, in_, decoded>>

\* The last bytes: i of them, with zeros for the ones that are missing.
\* Mutant: no sign '=' is written.
TailUnpadded(i, a, b) == [j \in 1..(i + 1) |-> Quad(a, b, 0)[j]]

TailText(i, a, b) ==
    [j \in 1..4 |-> IF j <= i + 1 THEN Quad(a, b, 0)[j] ELSE Pad]

EncodeTail ==
    LET i == Len(bytes) - iter
    IN /\ pc = "encode" /\ i < 3
       /\ ret' = IF i = 0 THEN ret
                 ELSE ret \o TailText(i, bytes[iter + 1],
                                      IF i = 2 THEN bytes[iter + 2] ELSE 0)
       /\ iter' = Len(bytes)
       /\ pc' = "decode"
       /\ UNCHANGED <<bytes, in_, decoded>>

\* The loop of base64_decode goes on while the next character is a digit.
IsDigit(k) == k <= Len(ret) /\ ret[k] \in Digits

DecodeGroup ==
    /\ pc = "decode" /\ \A j \in 1..4 : IsDigit(in_ + j)
    /\ decoded' = decoded \o Triple(ret[in_ + 1], ret[in_ + 2],
                                    ret[in_ + 3], ret[in_ + 4])
    /\ in_' = in_ + 4
    /\ UNCHANGED <<pc, bytes, iter, ret>>

\* i characters are left before the first one that is no digit.  The places
\* of the missing ones are looked up all the same.
DecodeTail ==
    /\ pc = "decode"
    /\ \E i \in 0..3 :
          LET At(j) == IF j <= i THEN ret[in_ + j] ELSE NotFound
          IN /\ \A j \in 1..i : IsDigit(in_ + j)
             /\ ~IsDigit(in_ + i + 1)
             /\ in_' = in_ + i
             /\ decoded' = decoded \o
                   [j \in 1..(i - 1) |-> Triple(At(1), At(2), At(3), At(4))[j]]
    /\ pc' = "done"
    /\ UNCHANGED <<bytes, iter, ret>>

Next == EncodeGroup \/ EncodeTail \/ DecodeGroup \/ DecodeTail

Spec == Init /\ [][Next]_vars

-----------------------------------------------------------------------------
(* Properties.                                                             *)

\* base64_decode gives back what base64_encode was given, whatever the number
\* of bytes in the last group, and the places that are not found leave no
\* trace.
RoundTrip == pc = "done" => decoded = bytes

\* The server's decoder relies on it: the text is whole groups of four, with
\* signs '=' at its end only, for the one or two bytes the last group lacks.
WellFormed ==
    pc # "encode" =>
        /\ Len(ret) = 4 * ((Len(bytes) + 2) \div 3)
        /\ \A k \in 1..Len(ret) :
              ret[k] = Pad <=> k > Len(ret) - ((3 - (Len(bytes) % 3)) % 3)
=============================================================================
