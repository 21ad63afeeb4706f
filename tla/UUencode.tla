------------------------------- MODULE UUencode -------------------------------
(***************************************************************************)
(* UUencode.cpp: lines of up to 45 bytes, three bytes in four characters.  *)
(* A buffer is a function on addresses, a line a sequence of characters.   *)
(***************************************************************************)
EXTENDS Integers, Sequences

CR == 13
LF == 10

UU_ENCODE_BYTE(a) == IF a = 0 THEN 96 ELSE a + 32
UU_DECODE_BYTE(a) == IF a = 0 THEN 96 ELSE a - 32

(* (a & mask) >> n of the source is the field of a that begins at the      *)
(* power of two `unit` and has `values` values.                            *)
Field(a, unit, values) == (a \div unit) % values

UUencodeBase(a, b, c) ==
  <<UU_ENCODE_BYTE(Field(a, 4, 64)),
    UU_ENCODE_BYTE(Field(a, 1, 4) * 16 + Field(b, 16, 16)),
    UU_ENCODE_BYTE(Field(b, 1, 16) * 4 + Field(c, 64, 4)),
    UU_ENCODE_BYTE(Field(c, 1, 64))>>

(* Mutant: the results are kept wider than a char.                         *)
UUdecodeWide(w, x, y, z) ==
  LET p == UU_DECODE_BYTE(w)  q == UU_DECODE_BYTE(x)
      r == UU_DECODE_BYTE(y)  s == UU_DECODE_BYTE(z)
  IN <<p * 4 + Field(q, 16, 4),
       Field(q, 1, 16) * 16 + Field(r, 4, 16),
       Field(r, 1, 4) * 64 + Field(s, 1, 64)>>

(* The results are stored in chars, modulo 256.                            *)
UUdecodeBase(w, x, y, z) ==
  LET p == UU_DECODE_BYTE(w)  q == UU_DECODE_BYTE(x)
      r == UU_DECODE_BYTE(y)  s == UU_DECODE_BYTE(z)
  IN <<(p * 4 + Field(q, 16, 4)) % 256,
       (Field(q, 1, 16) * 16 + Field(r, 4, 16)) % 256,
       (Field(r, 1, 4) * 64 + Field(s, 1, 64)) % 256>>

Groups(len) == len \div 3 + (IF len % 3 = 0 THEN 0 ELSE 1)

Encodable(len) == len \in 1..45

(* The last group of a line whose length is no multiple of three takes the *)
(* bytes behind the data: the branch that would pad it is never reached.   *)
UUencodeLine(input, at, len) ==
  [j \in 1..(4 * Groups(len) + 3) |->
     CASE j = 1                      -> len + 32
       [] j = 4 * Groups(len) + 2    -> CR
       [] j = 4 * Groups(len) + 3    -> LF
       [] j \in 2..(4 * Groups(len) + 1) ->
            LET i == at + 3 * ((j - 2) \div 4)
            IN UUencodeBase(input[i], input[i + 1], input[i + 2])[1 + ((j - 2) % 4)]]

(* The buffer after the line that starts at text[p] is decoded to address  *)
(* `at': whole groups are written, then a NUL behind the last byte.        *)
UUdecodeLine(text, p, output, at) ==
  LET len == text[p] - 32
      group == [g \in 0..(Groups(len) - 1) |->
                  LET c == p + 4 * g + 1
                  IN UUdecodeBase(text[c], text[c + 1], text[c + 2], text[c + 3])]
  IN IF ~Encodable(len) THEN output
     ELSE [a \in DOMAIN output |->
             IF a = at + len THEN 0
             ELSE IF a \in at..(at + 3 * Groups(len) - 1)
                    THEN group[(a - at) \div 3][1 + ((a - at) % 3)]
             ELSE output[a]]
===============================================================================
