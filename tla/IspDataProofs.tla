---------------------------- MODULE IspDataProofs ----------------------------
(***************************************************************************)
(* The bytes of the ISP exchanges for every buffer and every length the    *)
(* checks let pass: uuencoding a group, a line and a whole text and        *)
(* decoding it gives the bytes back, the checksum line is found, and a     *)
(* signed first block is valid code.                                       *)
(***************************************************************************)
EXTENDS IspData, SequenceTheorems, TLAPS

(* A character of the encoding is printable, so never a CR or an LF, and   *)
(* decodes to its six bits; zero, written as a grave accent, decodes to 64,*)
(* of which the masks keep nothing.                                        *)
LEMMA Sextet ==
  ASSUME NEW v \in 0..63
  PROVE  /\ UU_ENCODE_BYTE(v) \in 33..96
         /\ UU_DECODE_BYTE(UU_ENCODE_BYTE(v)) = IF v = 0 THEN 64 ELSE v
BY DEF UU_ENCODE_BYTE, UU_DECODE_BYTE

(* The four sextets of a group.                                            *)
LEMMA GroupSextets ==
  ASSUME NEW a \in 0..255, NEW b \in 0..255, NEW c \in 0..255
  PROVE  /\ Field(a, 4, 64) \in 0..63
         /\ Field(a, 1, 4) * 16 + Field(b, 16, 16) \in 0..63
         /\ Field(b, 1, 16) * 4 + Field(c, 64, 4) \in 0..63
         /\ Field(c, 1, 64) \in 0..63
BY DEF Field

(* What the decoder stores are bytes, whatever characters it is given.     *)
LEMMA GroupTypes ==
  ASSUME NEW w \in Int, NEW x \in Int, NEW y \in Int, NEW z \in Int, NEW k \in 1..3
  PROVE  UUdecodeBase(w, x, y, z)[k] \in 0..255
<1>1. ASSUME NEW v \in Int PROVE UU_DECODE_BYTE(v) \in Int
  BY DEF UU_DECODE_BYTE
<1>2. ASSUME NEW v \in Int PROVE v % 256 \in 0..255
  OBVIOUS
<1>3. ASSUME NEW p \in Int, NEW q \in Int
      PROVE  /\ p * 4 + Field(q, 16, 4) \in Int
             /\ Field(p, 1, 16) * 16 + Field(q, 4, 16) \in Int
             /\ Field(p, 1, 4) * 64 + Field(q, 1, 64) \in Int
  BY DEF Field
<1> DEFINE p == UU_DECODE_BYTE(w)
           q == UU_DECODE_BYTE(x)
           r == UU_DECODE_BYTE(y)
           s == UU_DECODE_BYTE(z)
<1>4. p \in Int /\ q \in Int /\ r \in Int /\ s \in Int
  BY <1>1
<1>5. /\ (p * 4 + Field(q, 16, 4)) % 256 \in 0..255
      /\ (Field(q, 1, 16) * 16 + Field(r, 4, 16)) % 256 \in 0..255
      /\ (Field(r, 1, 4) * 64 + Field(s, 1, 64)) % 256 \in 0..255
  <2> HIDE DEF p, q, r, s
  <2>1. QED
    BY <1>2, <1>3, <1>4
<1>6. CASE k = 1
  BY <1>5, <1>6 DEF UUdecodeBase
<1>7. CASE k = 2
  BY <1>5, <1>7 DEF UUdecodeBase
<1>8. CASE k = 3
  BY <1>5, <1>8 DEF UUdecodeBase
<1>9. QED
  BY <1>6, <1>7, <1>8

(* Decoding a group of three bytes gives them back.                        *)
LEMMA GroupInverse ==
  ASSUME NEW a \in 0..255, NEW b \in 0..255, NEW c \in 0..255,
         NEW e, e = UUencodeBase(a, b, c)
  PROVE  UUdecodeBase(e[1], e[2], e[3], e[4]) = <<a, b, c>>
<1> DEFINE s1 == Field(a, 4, 64)
           s2 == Field(a, 1, 4) * 16 + Field(b, 16, 16)
           s3 == Field(b, 1, 16) * 4 + Field(c, 64, 4)
           s4 == Field(c, 1, 64)
           Dec(s) == IF s = 0 THEN 64 ELSE s
<1>1. /\ UU_DECODE_BYTE(e[1]) = Dec(s1) /\ UU_DECODE_BYTE(e[2]) = Dec(s2)
      /\ UU_DECODE_BYTE(e[3]) = Dec(s3) /\ UU_DECODE_BYTE(e[4]) = Dec(s4)
  <2>1. s1 \in 0..63 /\ s2 \in 0..63 /\ s3 \in 0..63 /\ s4 \in 0..63
    BY DEF Field
  <2>2. /\ e[1] = UU_ENCODE_BYTE(s1) /\ e[2] = UU_ENCODE_BYTE(s2)
        /\ e[3] = UU_ENCODE_BYTE(s3) /\ e[4] = UU_ENCODE_BYTE(s4)
    BY DEF UUencodeBase
  <2>3. \A v \in 0..63 : UU_DECODE_BYTE(UU_ENCODE_BYTE(v)) = Dec(v)
    BY Sextet
  <2> HIDE DEF s1, s2, s3, s4, Dec
  <2>4. QED
    BY <2>1, <2>2, <2>3
<1>2. (Dec(s1) * 4 + Field(Dec(s2), 16, 4)) % 256 = a
  BY DEF Field
<1>3. (Field(Dec(s2), 1, 16) * 16 + Field(Dec(s3), 4, 16)) % 256 = b
  BY DEF Field
<1>4. (Field(Dec(s3), 1, 4) * 64 + Field(Dec(s4), 1, 64)) % 256 = c
  BY DEF Field
<1>5. QED
  BY <1>1, <1>2, <1>3, <1>4 DEF UUdecodeBase

-------------------------------------------------------------------------------
(* The groups of a line cover its bytes, and two bytes more at most.       *)
LEMMA GroupsFacts ==
  ASSUME NEW len \in 1..45
  PROVE  /\ Groups(len) \in 1..15 /\ len <= 3 * Groups(len) /\ 3 * Groups(len) <= len + 2
         /\ len = 45 => Groups(len) = 15
BY DEF Groups

(* The bytes that the encoder reads for a line: two more than it is for.   *)
HoldsBytes(input, at, len) == \A i \in at..(at + len + 1) : input[i] \in 0..255

(* A line, character by character.                                         *)
IsLineFor(l, input, at, len) ==
  LET G == Groups(len)
  IN /\ l \in Seq(Nat) /\ Len(l) = 4 * G + 3
     /\ l[1] = len + 32 /\ l[4 * G + 2] = CR /\ l[4 * G + 3] = LF
     /\ \A j \in 1..(4 * G + 1) : l[j] \in 33..96
     /\ \A g \in 0..(G - 1) :
          LET i == at + 3 * g
              e == UUencodeBase(input[i], input[i + 1], input[i + 2])
          IN /\ input[i] \in 0..255 /\ input[i + 1] \in 0..255 /\ input[i + 2] \in 0..255
             /\ \A k \in 1..4 : l[4 * g + 1 + k] = e[k]

(* A line lies in a text from p on.                                        *)
LiesAt(l, t, p) == \A j \in 1..Len(l) : t[p + j - 1] = l[j]

(* UUencodeLine makes such a line of every buffer, for every length it     *)
(* accepts.                                                                *)
LEMMA LineFacts ==
  ASSUME NEW len \in 1..45, NEW at \in Nat, NEW input, HoldsBytes(input, at, len)
  PROVE  IsLineFor(UUencodeLine(input, at, len), input, at, len)
<1> DEFINE l == UUencodeLine(input, at, len)
           G == Groups(len)
<1> DEFINE Base(g) == UUencodeBase(input[at + 3 * g], input[at + 3 * g + 1],
                                   input[at + 3 * g + 2])
           Char(j) == CASE j = 1                      -> len + 32
                        [] j = 4 * G + 2              -> CR
                        [] j = 4 * G + 3              -> LF
                        [] j \in 2..(4 * G + 1)       ->
                             Base((j - 2) \div 4)[1 + ((j - 2) % 4)]
<1>1. G \in 1..15 /\ len <= 3 * G /\ 3 * G <= len + 2
  BY GroupsFacts
<1>2. l = [j \in 1..(4 * G + 3) |-> Char(j)]
  BY DEF UUencodeLine
<1> HIDE DEF l, G
<1>3. ASSUME NEW g \in 0..(G - 1)
      PROVE  /\ input[at + 3 * g] \in 0..255 /\ input[at + 3 * g + 1] \in 0..255
             /\ input[at + 3 * g + 2] \in 0..255
  <2>1. /\ at + 3 * g \in at..(at + len + 1) /\ at + 3 * g + 1 \in at..(at + len + 1)
        /\ at + 3 * g + 2 \in at..(at + len + 1)
    BY <1>1
  <2>2. QED
    BY <2>1 DEF HoldsBytes
<1>4. ASSUME NEW g \in 0..(G - 1), NEW k \in 1..4 PROVE Base(g)[k] \in 33..96
  <2> DEFINE a == input[at + 3 * g]
             b == input[at + 3 * g + 1]
             c == input[at + 3 * g + 2]
  <2>1. a \in 0..255 /\ b \in 0..255 /\ c \in 0..255
    BY <1>3
  <2>2. Base(g) = UUencodeBase(a, b, c)
    OBVIOUS
  <2> HIDE DEF a, b, c, Base
  <2>3. /\ UU_ENCODE_BYTE(Field(a, 4, 64)) \in 33..96
        /\ UU_ENCODE_BYTE(Field(a, 1, 4) * 16 + Field(b, 16, 16)) \in 33..96
        /\ UU_ENCODE_BYTE(Field(b, 1, 16) * 4 + Field(c, 64, 4)) \in 33..96
        /\ UU_ENCODE_BYTE(Field(c, 1, 64)) \in 33..96
    BY <2>1 DEF Field, UU_ENCODE_BYTE
  <2>4. QED
    BY <2>2, <2>3 DEF UUencodeBase
<1> HIDE DEF Base
<1>5. Char(1) = len + 32 /\ Char(4 * G + 2) = CR /\ Char(4 * G + 3) = LF
  BY <1>1
<1>6. ASSUME NEW g \in 0..(G - 1), NEW k \in 1..4
      PROVE  /\ 4 * g + 1 + k \in 2..(4 * G + 1)
             /\ Char(4 * g + 1 + k) = Base(g)[k]
  <2> DEFINE j == 4 * g + 1 + k
  <2>1. /\ j \in 2..(4 * G + 1) /\ (j - 2) \div 4 = g /\ 1 + ((j - 2) % 4) = k
        /\ j # 1 /\ j # 4 * G + 2 /\ j # 4 * G + 3
    BY <1>1
  <2> HIDE DEF j
  <2>2. Char(j) = Base((j - 2) \div 4)[1 + ((j - 2) % 4)]
    BY <2>1
  <2>3. QED
    BY <2>1, <2>2 DEF j
<1>7. ASSUME NEW j \in 2..(4 * G + 1) PROVE Char(j) \in 33..96
  <2>1. (j - 2) \div 4 \in 0..(G - 1) /\ 1 + ((j - 2) % 4) \in 1..4
        /\ j # 1 /\ j # 4 * G + 2 /\ j # 4 * G + 3
    BY <1>1
  <2>2. Char(j) = Base((j - 2) \div 4)[1 + ((j - 2) % 4)]
    BY <2>1
  <2>3. QED
    BY <1>4, <2>1, <2>2
<1> HIDE DEF Char
<1>8. ASSUME NEW j \in 1..(4 * G + 3)
      PROVE  Char(j) \in Nat /\ (j <= 4 * G + 1 => Char(j) \in 33..96)
  <2>1. CASE j = 1
    BY <1>5, <2>1
  <2>2. CASE j \in 2..(4 * G + 1)
    BY <1>7, <2>2
  <2>3. CASE j \in {4 * G + 2, 4 * G + 3}
    BY <1>1, <1>5, <2>3 DEF CR, LF
  <2>4. QED
    BY <1>1, <2>1, <2>2, <2>3
<1>9. l \in Seq(Nat) /\ Len(l) = 4 * G + 3 /\ \A j \in 1..(4 * G + 3) : l[j] = Char(j)
  <2> DEFINE n == 4 * G + 3
  <2>1. n \in Nat
    BY <1>1
  <2>2. \A j \in 1..n : Char(j) \in Nat
    BY <1>8
  <2>3. l = [j \in 1..n |-> Char(j)]
    BY <1>2
  <2> HIDE DEF n
  <2>4. l \in [1..n -> Nat] /\ \A j \in 1..n : l[j] = Char(j)
    BY <2>2, <2>3
  <2>5. l \in Seq(Nat) /\ Len(l) = n
    BY <2>1, <2>4
  <2>6. QED
    BY <2>4, <2>5 DEF n
<1>10. ASSUME NEW g \in 0..(G - 1), NEW k \in 1..4
       PROVE  l[4 * g + 1 + k] = Base(g)[k]
  <2>1. 4 * g + 1 + k \in 1..(4 * G + 3)
    BY <1>1, <1>6
  <2>2. QED
    BY <1>6, <1>9, <2>1
<1>11. /\ l[1] = len + 32 /\ l[4 * G + 2] = CR /\ l[4 * G + 3] = LF
       /\ \A j \in 1..(4 * G + 1) : l[j] \in 33..96
  <2>1. /\ 1 \in 1..(4 * G + 3) /\ 4 * G + 2 \in 1..(4 * G + 3) /\ 4 * G + 3 \in 1..(4 * G + 3)
        /\ \A j \in 1..(4 * G + 1) : j \in 1..(4 * G + 3) /\ j <= 4 * G + 1
    BY <1>1
  <2>2. l[1] = len + 32 /\ l[4 * G + 2] = CR /\ l[4 * G + 3] = LF
    BY <1>5, <1>9, <2>1
  <2>3. ASSUME NEW j \in 1..(4 * G + 1) PROVE l[j] \in 33..96
    BY <1>8, <1>9, <2>1
  <2>4. QED
    BY <2>2, <2>3
<1>12. ASSUME NEW g \in 0..(G - 1)
       PROVE  LET i == at + 3 * g
                  e == UUencodeBase(input[i], input[i + 1], input[i + 2])
              IN /\ input[i] \in 0..255 /\ input[i + 1] \in 0..255 /\ input[i + 2] \in 0..255
                 /\ \A k \in 1..4 : l[4 * g + 1 + k] = e[k]
  BY <1>3, <1>10, Zenon DEF Base
<1>13. QED
  BY <1>9, <1>11, <1>12, Zenon DEF IsLineFor, l, G

(* A buffer of bytes at 0 to N.                                            *)
BytesTo(N) == [0..N -> 0..255]

(* What decoding a line of len bytes at `at' does to a buffer: the bytes   *)
(* are at `to', what lies before them stays, and it still holds bytes.     *)
HasDecoded(out, output, N, to, input, at, len) ==
  /\ out \in BytesTo(N)
  /\ \A a \in 0..N : a < to => out[a] = output[a]
  /\ \A j \in 0..(len - 1) : to + j <= N => out[to + j] = input[at + j]

(* That is what UUdecodeLine does with a line that lies in a text at p.    *)
LEMMA DecodeFacts ==
  ASSUME NEW len \in 1..45, NEW at \in Nat, NEW input,
         NEW l, IsLineFor(l, input, at, len),
         NEW t, NEW p \in Nat, LiesAt(l, t, p),
         NEW N \in Nat, NEW output \in BytesTo(N), NEW to \in Nat
  PROVE  HasDecoded(UUdecodeLine(t, p, output, to), output, N, to, input, at, len)
<1> DEFINE out == UUdecodeLine(t, p, output, to)
           G == Groups(len)
           Group(n) == [g \in 0..(Groups(n) - 1) |->
                          LET c == p + 4 * g + 1
                          IN UUdecodeBase(t[c], t[c + 1], t[c + 2], t[c + 3])]
           Cell(n, a) == IF a = to + n THEN 0
                         ELSE IF a \in to..(to + 3 * Groups(n) - 1)
                                THEN Group(n)[(a - to) \div 3][1 + ((a - to) % 3)]
                         ELSE output[a]
           group == Group(len)
           New(a) == Cell(len, a)
<1>1. G \in 1..15 /\ len <= 3 * G /\ 3 * G <= len + 2
  BY GroupsFacts
<1>2. /\ Len(l) = 4 * G + 3 /\ l[1] = len + 32
      /\ \A g \in 0..(G - 1) :
           LET i == at + 3 * g
               e == UUencodeBase(input[i], input[i + 1], input[i + 2])
           IN /\ input[i] \in 0..255 /\ input[i + 1] \in 0..255 /\ input[i + 2] \in 0..255
              /\ \A k \in 1..4 : l[4 * g + 1 + k] = e[k]
  BY Zenon DEF IsLineFor
<1>3. out = IF ~Encodable(t[p] - 32) THEN output
            ELSE [a \in DOMAIN output |-> Cell(t[p] - 32, a)]
  BY Zenon DEF UUdecodeLine
<1> HIDE DEF Cell, Group, G, out
<1>4. t[p] - 32 = len
  <2>1. 1 \in 1..Len(l) /\ p + 1 - 1 = p
    BY <1>1, <1>2
  <2>2. t[p] = l[1]
    BY <2>1 DEF LiesAt
  <2>3. QED
    BY <1>2, <2>2
<1>5. out = [a \in 0..N |-> New(a)]
  <2>1. DOMAIN output = 0..N
    BY DEF BytesTo
  <2>2. Encodable(len)
    BY DEF Encodable
  <2>3. QED
    BY <1>3, <1>4, <2>1, <2>2, Zenon
<1> HIDE DEF group
<1>6. ASSUME NEW g \in 0..(G - 1)
      PROVE  group[g] = <<input[at + 3 * g], input[at + 3 * g + 1], input[at + 3 * g + 2]>>
  <2> DEFINE i == at + 3 * g
             e == UUencodeBase(input[i], input[i + 1], input[i + 2])
             c == p + 4 * g + 1
  <2>1. /\ input[i] \in 0..255 /\ input[i + 1] \in 0..255 /\ input[i + 2] \in 0..255
        /\ \A k \in 1..4 : l[4 * g + 1 + k] = e[k]
    BY <1>2, Zenon
  <2>2. ASSUME NEW k \in 1..4 PROVE t[p + 4 * g + k] = e[k]
    <3>1. 4 * g + 1 + k \in 1..(4 * G + 3) /\ p + (4 * g + 1 + k) - 1 = p + 4 * g + k
      BY <1>1
    <3>2. t[p + 4 * g + k] = l[4 * g + 1 + k]
      BY <1>2, <3>1 DEF LiesAt
    <3>3. QED
      BY <2>1, <3>2
  <2>3. t[c] = e[1] /\ t[c + 1] = e[2] /\ t[c + 2] = e[3] /\ t[c + 3] = e[4]
    <3> HIDE DEF e
    <3>1. c + 1 = p + 4 * g + 2 /\ c + 2 = p + 4 * g + 3 /\ c + 3 = p + 4 * g + 4
      OBVIOUS
    <3>2. QED
      BY <2>2, <3>1
  <2>4. group[g] = UUdecodeBase(t[c], t[c + 1], t[c + 2], t[c + 3])
    BY Zenon DEF group, Group, G
  <2>5. UUdecodeBase(e[1], e[2], e[3], e[4]) = <<input[i], input[i + 1], input[i + 2]>>
    <3>1. \A x, y, z \in 0..255 :
             LET f == UUencodeBase(x, y, z)
             IN UUdecodeBase(f[1], f[2], f[3], f[4]) = <<x, y, z>>
      BY GroupInverse, Zenon
    <3>2. QED
      BY <2>1, <3>1, Zenon
  <2>6. QED
    BY <2>3, <2>4, <2>5, Zenon
<1>7. ASSUME NEW g \in 0..(G - 1), NEW k \in 0..2
      PROVE  /\ group[g][1 + k] = input[at + 3 * g + k]
             /\ input[at + 3 * g + k] \in 0..255
  <2>1. CASE k = 0
    BY <1>2, <1>6, <2>1
  <2>2. CASE k = 1
    BY <1>2, <1>6, <2>2
  <2>3. CASE k = 2
    BY <1>2, <1>6, <2>3
  <2>4. QED
    BY <2>1, <2>2, <2>3
<1>8. ASSUME NEW a \in 0..N, a \in to..(to + 3 * G - 1)
      PROVE  /\ group[(a - to) \div 3][1 + ((a - to) % 3)] = input[at + (a - to)]
             /\ input[at + (a - to)] \in 0..255
  <2>1. /\ (a - to) \div 3 \in 0..(G - 1) /\ (a - to) % 3 \in 0..2
        /\ at + 3 * ((a - to) \div 3) + ((a - to) % 3) = at + (a - to)
    BY <1>1, <1>8
  <2>2. /\ group[(a - to) \div 3][1 + ((a - to) % 3)]
             = input[at + 3 * ((a - to) \div 3) + ((a - to) % 3)]
        /\ input[at + 3 * ((a - to) \div 3) + ((a - to) % 3)] \in 0..255
    BY <1>7, <2>1, Zenon
  <2>3. QED
    BY <2>1, <2>2, Zenon
<1>9. ASSUME NEW a \in 0..N
      PROVE  /\ New(a) \in 0..255
             /\ a < to => New(a) = output[a]
             /\ a - to \in 0..(len - 1) => New(a) = input[at + (a - to)]
  <2>1. CASE a = to + len
    <3>1. New(a) = 0 /\ ~(a < to) /\ a - to \notin 0..(len - 1)
      BY <1>1, <2>1 DEF Cell
    <3>2. QED
      BY <3>1
  <2>2. CASE a # to + len /\ a \in to..(to + 3 * G - 1)
    <3>1. New(a) = group[(a - to) \div 3][1 + ((a - to) % 3)]
      BY <2>2, Zenon DEF Cell, group, G
    <3>2. ~(a < to)
      BY <1>1, <2>2
    <3> HIDE DEF New
    <3>3. New(a) = input[at + (a - to)] /\ input[at + (a - to)] \in 0..255
      BY <1>8, <2>2, <3>1
    <3>4. QED
      BY <3>2, <3>3
  <2>3. CASE a # to + len /\ a \notin to..(to + 3 * G - 1)
    <3>1. New(a) = output[a]
      BY <2>3, Zenon DEF Cell, G
    <3>2. a - to \notin 0..(len - 1)
      BY <1>1, <2>3
    <3>3. output[a] \in 0..255
      BY DEF BytesTo
    <3> HIDE DEF New
    <3>4. QED
      BY <3>1, <3>2, <3>3
  <2>4. QED
    BY <2>1, <2>2, <2>3
<1> HIDE DEF New
<1>10. ASSUME NEW j \in 0..(len - 1), to + j <= N
       PROVE  out[to + j] = input[at + j]
  <2>1. to + j \in 0..N /\ (to + j) - to = j
    BY <1>10
  <2>2. New(to + j) = input[at + j]
    BY <1>9, <2>1
  <2>3. QED
    BY <1>5, <2>1, <2>2
<1>11. out \in BytesTo(N)
  BY <1>5, <1>9 DEF BytesTo
<1>12. \A a \in 0..N : a < to => out[a] = output[a]
  BY <1>5, <1>9
<1>13. QED
  BY <1>10, <1>11, <1>12, Zenon DEF out, HasDecoded

-------------------------------------------------------------------------------
(* Both loops cut a block of n bytes into the same lines.                  *)
LEMMA LinesFacts ==
  ASSUME NEW n \in 1..MaxSize
  PROVE  /\ Lines(n) \in 1..12 /\ 45 * (Lines(n) - 1) < n /\ n <= 45 * Lines(n)
         /\ n % 45 # 0 => n % 45 = n - 45 * (Lines(n) - 1)
         /\ n % 45 = 0 => n = 45 * Lines(n)
BY DEF MaxSize, Lines

(* The number of bytes of the boot loader's line l.                        *)
BootBytes(l) ==
  LET at == 45 * (l - 1) IN IF size - at < 45 THEN size - at ELSE 45

(* A block of the size the checks let pass, in a buffer of bytes.          *)
Block == Accepted(size) /\ data \in [0..(size + 2) -> 0..255]

(* Every line but the last is full and together they have all the bytes.   *)
LEMMA BootBytesFacts ==
  ASSUME Block, NEW l \in 1..Lines(size)
  PROVE  /\ size \in 1..MaxSize /\ Lines(size) \in 1..12
         /\ BootBytes(l) \in 1..45 /\ 45 * (l - 1) + BootBytes(l) <= size
         /\ l < Lines(size) => BootBytes(l) = 45
         /\ l = Lines(size) => BootBytes(l) = size - 45 * (l - 1)
<1>1. size \in 1..MaxSize
  BY DEF Block, Accepted
<1>2. /\ Lines(size) \in 1..12 /\ 45 * (Lines(size) - 1) < size /\ size <= 45 * Lines(size)
  BY <1>1, LinesFacts
<1>3. QED
  BY <1>1, <1>2 DEF BootBytes, MaxSize

(* The boot loader's lines are lines for the data it has been given.       *)
LEMMA BootLineFacts ==
  ASSUME Block, NEW l \in 1..Lines(size)
  PROVE  /\ IsLineFor(BootLine(l), Memory, 45 * (l - 1), BootBytes(l))
         /\ BootLine(l) \in Seq(Nat) /\ Len(BootLine(l)) = 4 * Groups(BootBytes(l)) + 3
         /\ l < Lines(size) => Len(BootLine(l)) = 63
         /\ Len(BootLine(l)) \in 7..63
<1>1. /\ size \in 1..MaxSize /\ Lines(size) \in 1..12
      /\ BootBytes(l) \in 1..45 /\ 45 * (l - 1) + BootBytes(l) <= size
      /\ l < Lines(size) => BootBytes(l) = 45
  BY BootBytesFacts
<1>2. HoldsBytes(Memory, 45 * (l - 1), BootBytes(l))
  <2>1. ASSUME NEW i \in (45 * (l - 1))..(45 * (l - 1) + BootBytes(l) + 1)
        PROVE  Memory[i] \in 0..255
    <3>1. i \in 0..(size + 2)
      BY <1>1 DEF MaxSize
    <3>2. Memory[i] = IF i < size THEN data[i] ELSE 0
      BY <3>1 DEF Memory
    <3>3. data[i] \in 0..255
      BY <3>1 DEF Block
    <3>4. QED
      BY <3>2, <3>3
  <2>2. QED
    BY <2>1 DEF HoldsBytes
<1>3. BootLine(l) = UUencodeLine(Memory, 45 * (l - 1), BootBytes(l))
  BY Zenon DEF BootLine, BootBytes
<1>4. IsLineFor(BootLine(l), Memory, 45 * (l - 1), BootBytes(l))
  <2>1. 45 * (l - 1) \in Nat
    BY <1>1
  <2>2. QED
    BY <1>1, <1>2, <1>3, <2>1, LineFacts
<1>5. BootLine(l) \in Seq(Nat) /\ Len(BootLine(l)) = 4 * Groups(BootBytes(l)) + 3
  BY <1>4, Zenon DEF IsLineFor
<1>6. Groups(BootBytes(l)) \in 1..15 /\ (l < Lines(size) => Groups(BootBytes(l)) = 15)
  BY <1>1, GroupsFacts
<1>7. /\ 4 * Groups(BootBytes(l)) + 3 \in 7..63
      /\ l < Lines(size) => 4 * Groups(BootBytes(l)) + 3 = 63
  BY <1>6
<1>8. QED
  BY <1>4, <1>5, <1>7, Zenon

(* ISP_readMemory finds line l at the fixed distance of 63 characters from *)
(* the one before, and behind the last line there is only the checksum.    *)
LEMMA TextFacts ==
  ASSUME Block
  PROVE  LET all == BootText \o Checksum
         IN /\ all \in Seq(Nat)
            /\ Len(all) = 63 * (Lines(size) - 1) + Len(BootLine(Lines(size))) + 3
            /\ \A l \in 1..Lines(size) : LiesAt(BootLine(l), all, 1 + 63 * (l - 1))
<1> DEFINE L == Lines(size)
           lines == [l \in 1..L |-> BootLine(l)]
           Width(l) == Len(lines[l])
           len == 63 * (L - 1) + Width(L)
           Char(p) == lines[1 + ((p - 1) \div 63)][1 + ((p - 1) % 63)]
           all == BootText \o Checksum
<1>1. L \in 1..12
  BY LinesFacts DEF Block, Accepted
<1>2. ASSUME NEW l \in 1..L
      PROVE  /\ lines[l] \in Seq(Nat) /\ Width(l) \in 7..63 /\ lines[l] = BootLine(l)
             /\ l < L => Width(l) = 63
  <2>1. lines[l] = BootLine(l)
    OBVIOUS
  <2>2. /\ BootLine(l) \in Seq(Nat) /\ Len(BootLine(l)) \in 7..63
        /\ l < L => Len(BootLine(l)) = 63
    BY BootLineFacts
  <2>3. QED
    BY <2>1, <2>2, Zenon
<1>3. BootText = [p \in 1..len |-> Char(p)]
  BY Zenon DEF BootText
<1> HIDE DEF L, lines, Width
<1>4. L \in 1..L /\ Width(L) \in 7..63 /\ len \in Nat
  <2>1. L \in 1..L
    BY <1>1
  <2>2. Width(L) \in 7..63
    BY <1>2, <2>1
  <2>3. QED
    BY <1>1, <2>1, <2>2
<1>5. ASSUME NEW l \in 1..L, NEW j \in 1..Width(l)
      PROVE  /\ 63 * (l - 1) + j \in 1..len
             /\ Char(63 * (l - 1) + j) = lines[l][j]
  <2> DEFINE p == 63 * (l - 1) + j
  <2>1. Width(l) \in 7..63 /\ (l < L => Width(l) = 63)
    BY <1>2
  <2>2. p \in 1..len
    <3>1. CASE l = L
      BY <1>1, <1>4, <2>1, <3>1
    <3>2. CASE l < L
      BY <1>1, <1>4, <2>1, <3>2
    <3>3. QED
      BY <1>1, <3>1, <3>2
  <2>3. 1 + ((p - 1) \div 63) = l /\ 1 + ((p - 1) % 63) = j
    BY <1>1, <2>1
  <2> HIDE DEF p
  <2>4. Char(p) = lines[l][j]
    BY <2>3
  <2>5. QED
    BY <2>2, <2>4 DEF p
<1>6. ASSUME NEW p \in 1..len PROVE Char(p) \in Nat
  <2> DEFINE l == 1 + ((p - 1) \div 63)
             j == 1 + ((p - 1) % 63)
  <2>1. l \in 1..L /\ j \in 1..63 /\ p = 63 * (l - 1) + j
    BY <1>1, <1>4
  <2> HIDE DEF l, j
  <2>2. j \in 1..Width(l)
    <3>1. CASE l = L
      BY <1>1, <1>4, <2>1, <3>1
    <3>2. CASE l < L
      BY <1>2, <2>1, <3>2
    <3>3. QED
      BY <1>1, <2>1, <3>1, <3>2
  <2>3. lines[l] \in Seq(Nat)
    BY <1>2, <2>1
  <2>4. lines[l][j] \in Nat
    BY <2>2, <2>3 DEF Width
  <2>5. QED
    BY <2>4 DEF l, j
<1> HIDE DEF Char, len
<1>7. BootText \in Seq(Nat) /\ Len(BootText) = len
      /\ \A p \in 1..len : BootText[p] = Char(p)
  <2>1. BootText \in [1..len -> Nat] /\ \A p \in 1..len : BootText[p] = Char(p)
    BY <1>3, <1>6
  <2>2. QED
    BY <1>4, <2>1
<1>8. Checksum \in Seq(Nat) /\ Len(Checksum) = 3
  BY DEF Checksum, CR, LF
<1>9. /\ all \in Seq(Nat) /\ Len(all) = len + 3
      /\ \A p \in 1..len : all[p] = BootText[p]
  <2>1. Len(all) = Len(BootText) + Len(Checksum)
    BY <1>7, <1>8, ConcatProperties
  <2>2. ASSUME NEW p \in 1..len PROVE all[p] = BootText[p]
    <3>1. p \in 1..(Len(BootText) + Len(Checksum)) /\ p <= Len(BootText)
      BY <1>4, <1>7, <1>8
    <3>2. QED
      BY <1>7, <1>8, <3>1, ConcatProperties
  <2>3. all \in Seq(Nat)
    BY <1>7, <1>8, ConcatProperties
  <2>4. QED
    BY <1>7, <1>8, <2>1, <2>2, <2>3
<1> HIDE DEF all
<1>10. ASSUME NEW l \in 1..L PROVE LiesAt(BootLine(l), all, 1 + 63 * (l - 1))
  <2>1. ASSUME NEW j \in 1..Width(l)
        PROVE  all[1 + 63 * (l - 1) + j - 1] = lines[l][j]
    <3>1. 1 + 63 * (l - 1) + j - 1 = 63 * (l - 1) + j
      BY <1>1, <1>2
    <3>2. all[63 * (l - 1) + j] = lines[l][j]
      BY <1>5, <1>7, <1>9
    <3>3. QED
      BY <3>1, <3>2
  <2>2. lines[l] = BootLine(l)
    BY <1>2
  <2>3. QED
    BY <2>1, <2>2, Zenon DEF LiesAt, Width
<1>11. lines[L] = BootLine(L)
  BY <1>2, <1>4
<1>12. Len(all) = 63 * (L - 1) + Len(BootLine(L)) + 3
  BY <1>9, <1>11 DEF len, Width
<1>13. \A l \in 1..L : LiesAt(BootLine(l), all, 1 + 63 * (l - 1))
  BY <1>10
<1>14. QED
  BY <1>9, <1>12, <1>13, Zenon DEF all, L

(* The first end of line that FindChecksum meets from the last line on is  *)
(* that line's own: no character before it is a CR, whatever the data is.  *)
LEMMA ChecksumFacts ==
  ASSUME Block
  PROVE  LET t == BootText \o Checksum
         IN 2 + (CHOOSE j \in LastLine..(Len(t) - 1) :
                   /\ t[j] = CR /\ t[j + 1] = LF
                   /\ \A k \in LastLine..(j - 1) : ~(t[k] = CR /\ t[k + 1] = LF))
              = Len(t) - 2
<1> DEFINE t == BootText \o Checksum
           L == Lines(size)
           l == BootLine(L)
           G == Groups(BootBytes(L))
           start == LastLine
           First(j) == /\ t[j] = CR /\ t[j + 1] = LF
                       /\ \A k \in start..(j - 1) : ~(t[k] = CR /\ t[k + 1] = LF)
           end == start + 4 * G + 1
<1>1. L \in 1..12 /\ L \in 1..L
  BY LinesFacts DEF Block, Accepted
<1>2. G \in 1..15
  <2>1. BootBytes(L) \in 1..45
    BY <1>1, BootBytesFacts
  <2>2. QED
    BY <2>1, GroupsFacts
<1>3. IsLineFor(l, Memory, 45 * (L - 1), BootBytes(L))
  BY <1>1, BootLineFacts
<1>4. /\ Len(l) = 4 * G + 3 /\ l[4 * G + 2] = CR /\ l[4 * G + 3] = LF
      /\ \A j \in 1..(4 * G + 1) : l[j] \in 33..96
  BY <1>3, Zenon DEF IsLineFor
<1>5. start = 1 + 63 * (L - 1)
  BY DEF LastLine
<1>6. LiesAt(l, t, start) /\ Len(t) = 63 * (L - 1) + Len(l) + 3
  <2>1. LiesAt(l, t, 1 + 63 * (L - 1)) /\ Len(t) = 63 * (L - 1) + Len(l) + 3
    BY <1>1, TextFacts, Zenon
  <2>2. QED
    BY <1>5, <2>1, Zenon
<1> HIDE DEF t, L, l, G, start
<1>7. start \in Nat /\ end \in Nat /\ Len(t) = end + 4 /\ start < end
  BY <1>1, <1>2, <1>4, <1>5, <1>6
<1>8. ASSUME NEW j \in 1..(4 * G + 3) PROVE t[start + j - 1] = l[j]
  BY <1>4, <1>6 DEF LiesAt
<1>9. ASSUME NEW k \in start..(end - 1) PROVE t[k] # CR
  <2> DEFINE j == k - start + 1
  <2>1. j \in 1..(4 * G + 1) /\ j \in 1..(4 * G + 3) /\ start + j - 1 = k
    BY <1>2, <1>7
  <2> HIDE DEF j
  <2>2. t[k] = l[j] /\ l[j] \in 33..96
    BY <1>4, <1>8, <2>1
  <2>3. QED
    BY <2>2 DEF CR
<1>10. t[end] = CR /\ t[end + 1] = LF
  <2>1. /\ 4 * G + 2 \in 1..(4 * G + 3) /\ start + (4 * G + 2) - 1 = end
        /\ 4 * G + 3 \in 1..(4 * G + 3) /\ start + (4 * G + 3) - 1 = end + 1
    BY <1>2, <1>7
  <2>2. t[start + (4 * G + 2) - 1] = CR /\ t[start + (4 * G + 3) - 1] = LF
    BY <1>4, <1>8, <2>1
  <2>3. QED
    BY <2>1, <2>2, Zenon
<1> HIDE DEF end
<1>11. end \in start..(Len(t) - 1)
  BY <1>7
<1>12. First(end)
  BY <1>9, <1>10
<1>13. ASSUME NEW j \in start..(Len(t) - 1), First(j) PROVE j = end
  <2>1. t[j] = CR
    BY <1>13
  <2>2. j \notin start..(end - 1)
    BY <1>9, <2>1
  <2>3. end \notin start..(j - 1)
    BY <1>10, <1>13
  <2>4. QED
    BY <1>7, <2>2, <2>3
<1> HIDE DEF First
<1>14. (CHOOSE j \in start..(Len(t) - 1) : First(j)) = end
  BY <1>11, <1>12, <1>13
<1>15. 2 + end = Len(t) - 2
  BY <1>7
<1>16. QED
  BY <1>14, <1>15, Zenon DEF First, start, t

-------------------------------------------------------------------------------
(* A half: what is left of a number modulo 2^16.                           *)
IsHalf(v) == v \in Nat /\ v < Half

(* Any number has a half below a multiple of 2^16.                         *)
LEMMA HalfDivision ==
  ASSUME NEW v \in Nat
  PROVE  IsHalf(v % Half) /\ v \div Half \in Nat /\ v = Half * (v \div Half) + (v % Half)
BY DEF Half, IsHalf

(* A half and its two bytes.                                               *)
LEMMA HalfBytes ==
  ASSUME NEW v, IsHalf(v)
  PROVE  v % 256 \in 0..255 /\ v \div 256 \in 0..255 /\ v = (v % 256) + (v \div 256) * 256
BY DEF Half, IsHalf

(* The negative of a sum of 32 bits in two halves, added to it, is zero:   *)
(* the one of ~tmp + 1 is carried exactly when the lower half is zero.     *)
LEMMA NegatedSum ==
  ASSUME NEW low \in Nat, NEW high \in Nat
  PROVE  LET n == Negated(<<low % Half, (high + (low \div Half)) % Half>>)
         IN /\ IsHalf(n[1]) /\ IsHalf(n[2])
            /\ (low + n[1]) % Half = 0
            /\ (high + n[2] + ((low + n[1]) \div Half)) % Half = 0
<1> DEFINE a == low % Half
           q == low \div Half
           b == (high + q) % Half
           r == (high + q) \div Half
           n1 == (Half - a) % Half
           n2 == (Half - 1 - b + ((Half - a) \div Half)) % Half
<1>1. IsHalf(a) /\ q \in Nat /\ low = Half * q + a
  BY HalfDivision
<1>2. IsHalf(b) /\ r \in Nat /\ high + q = Half * r + b
  <2>1. high + q \in Nat
    BY <1>1
  <2> HIDE DEF q
  <2>2. QED
    BY <2>1, HalfDivision
<1>3. Negated(<<a, b>>) = <<n1, n2>>
  <2> HIDE DEF a, b
  <2>1. QED
    BY DEF Negated
<1> HIDE DEF a, b, q, r
<1>4. CASE a = 0
  <2>1. n1 = 0 /\ (Half - a) \div Half = 1
    BY <1>4 DEF Half
  <2>2. (low + n1) % Half = 0 /\ (low + n1) \div Half = q
    BY <1>1, <1>4, <2>1 DEF Half
  <2>3. CASE b = 0
    <3>1. n2 = 0
      BY <2>1, <2>3 DEF Half
    <3>2. high + n2 + q = Half * r
      BY <1>1, <1>2, <2>3, <3>1 DEF Half
    <3> HIDE DEF n1, n2
    <3>3. (high + n2 + q) % Half = 0
      BY <1>2, <3>2 DEF Half
    <3>4. QED
      BY <1>3, <2>1, <2>2, <3>1, <3>3 DEF Half, IsHalf, a, b, q
  <2>4. CASE b # 0
    <3>1. n2 = Half - b
      BY <1>2, <2>1, <2>4 DEF Half, IsHalf
    <3>2. high + n2 + q = Half * (r + 1)
      BY <1>1, <1>2, <3>1 DEF Half, IsHalf
    <3> HIDE DEF n1, n2
    <3>3. (high + n2 + q) % Half = 0
      BY <1>2, <3>2 DEF Half
    <3>4. IsHalf(n2)
      <4>1. b \in Nat /\ b < Half
        BY <1>2 DEF IsHalf
      <4>2. b > 0
        BY <2>4, <4>1
      <4>3. QED
        BY <3>1, <4>1, <4>2 DEF Half, IsHalf
    <3>5. IsHalf(n1)
      BY <2>1 DEF Half, IsHalf
    <3>6. QED
      BY <1>3, <2>1, <2>2, <3>3, <3>4, <3>5 DEF a, b, q
  <2>5. QED
    BY <2>3, <2>4
<1>5. CASE a # 0
  <2>1. n1 = Half - a /\ (Half - a) \div Half = 0
    BY <1>1, <1>5 DEF Half, IsHalf
  <2>2. (low + n1) % Half = 0 /\ (low + n1) \div Half = q + 1
    <3> HIDE DEF n1
    <3>1. low + n1 = Half * (q + 1)
      BY <1>1, <2>1 DEF Half, IsHalf
    <3>2. QED
      BY <1>1, <3>1 DEF Half
  <2>3. n2 = Half - 1 - b
    BY <1>2, <2>1 DEF Half, IsHalf
  <2> HIDE DEF n1, n2
  <2>4. high + n2 + (q + 1) = Half * (r + 1)
    BY <1>1, <1>2, <2>3 DEF Half, IsHalf
  <2>5. (high + n2 + (q + 1)) % Half = 0 /\ IsHalf(n1) /\ IsHalf(n2)
    BY <1>1, <1>2, <1>5, <2>1, <2>3, <2>4 DEF Half, IsHalf
  <2>6. QED
    BY <1>3, <2>2, <2>5 DEF a, b, q
<1>6. QED
  BY <1>4, <1>5

(* "modify vector at 0x1c" makes a first block of bytes valid code, and    *)
(* leaves it a block of bytes.                                             *)
LEMMA SignedBlock ==
  ASSUME NEW N \in Nat, N >= 31, NEW d \in BytesTo(N)
  PROVE  LET e == [i \in DOMAIN d |->
                     IF i \in 28..31 THEN Byte(Negated(VectorSum(d)), i - 28) ELSE d[i]]
         IN e \in BytesTo(N) /\ ValidCode(e)
<1> DEFINE low  == Column(d, 0) + Column(d, 1) * 256
           high == Column(d, 2) + Column(d, 3) * 256
           n == Negated(VectorSum(d))
           e == [i \in DOMAIN d |-> IF i \in 28..31 THEN Byte(n, i - 28) ELSE d[i]]
<1>1. ASSUME NEW i \in Nat, i <= 31 PROVE d[i] \in Nat /\ d[i] \in 0..255
  <2>1. i \in 0..N
    BY <1>1
  <2>2. d[i] \in 0..255
    BY <2>1 DEF BytesTo
  <2>3. QED
    BY <2>2
<1>2. ASSUME NEW p \in 0..3 PROVE Column(d, p) \in Nat
  <2>1. /\ d[p] \in Nat /\ d[p + 4] \in Nat /\ d[p + 8] \in Nat
        /\ d[p + 12] \in Nat /\ d[p + 16] \in Nat /\ d[p + 20] \in Nat
        /\ d[p + 24] \in Nat
    BY <1>1
  <2>2. QED
    BY <2>1 DEF Column
<1>3. low \in Nat /\ high \in Nat
  BY <1>2
<1>4. n = Negated(<<low % Half, (high + (low \div Half)) % Half>>)
  BY Zenon DEF VectorSum
<1>5. e = [i \in 0..N |-> IF i \in 28..31 THEN Byte(n, i - 28) ELSE d[i]]
  <2> HIDE DEF n
  <2>1. QED
    BY DEF BytesTo
<1> HIDE DEF low, high, n, e
<1>6. /\ IsHalf(n[1]) /\ IsHalf(n[2])
      /\ (low + n[1]) % Half = 0
      /\ (high + n[2] + ((low + n[1]) \div Half)) % Half = 0
  BY <1>3, <1>4, NegatedSum, Zenon
<1>7. /\ Byte(n, 0) = n[1] % 256 /\ Byte(n, 1) = n[1] \div 256
      /\ Byte(n, 2) = n[2] % 256 /\ Byte(n, 3) = n[2] \div 256
  <2>1. /\ 0 % 2 = 0 /\ 1 % 2 = 1 /\ 2 % 2 = 0 /\ 3 % 2 = 1
        /\ 1 + (0 \div 2) = 1 /\ 1 + (1 \div 2) = 1 /\ 1 + (2 \div 2) = 2 /\ 1 + (3 \div 2) = 2
    OBVIOUS
  <2>2. QED
    BY <2>1 DEF Byte
<1>8. /\ Byte(n, 0) \in 0..255 /\ Byte(n, 1) \in 0..255
      /\ n[1] = Byte(n, 0) + Byte(n, 1) * 256
  BY <1>6, <1>7, HalfBytes
<1>9. /\ Byte(n, 2) \in 0..255 /\ Byte(n, 3) \in 0..255
      /\ n[2] = Byte(n, 2) + Byte(n, 3) * 256
  BY <1>6, <1>7, HalfBytes
<1>10. /\ e[28] = Byte(n, 0) /\ e[29] = Byte(n, 1) /\ e[30] = Byte(n, 2) /\ e[31] = Byte(n, 3)
       /\ \A i \in Nat : i <= 27 => e[i] = d[i]
  BY <1>5
<1>11. e \in BytesTo(N)
  <2>1. ASSUME NEW i \in 28..31 PROVE Byte(n, i - 28) \in 0..255
    <3>1. i - 28 \in {0, 1, 2, 3}
      OBVIOUS
    <3>2. QED
      BY <1>8, <1>9, <3>1
  <2>2. \A i \in 0..N : d[i] \in 0..255
    BY DEF BytesTo
  <2>3. QED
    BY <1>5, <2>1, <2>2 DEF BytesTo
<1>12. ASSUME NEW w \in 0..6
       PROVE  /\ Low(e, w) = d[4 * w] + d[4 * w + 1] * 256
              /\ High(e, w) = d[4 * w + 2] + d[4 * w + 3] * 256
  BY <1>10 DEF Low, High
<1>13. Low(e, 7) = n[1] /\ High(e, 7) = n[2] /\ n[1] \in Nat /\ n[2] \in Nat
  BY <1>6, <1>8, <1>9, <1>10 DEF Low, High, IsHalf
<1>14. Low(e, 0) + Low(e, 1) + Low(e, 2) + Low(e, 3) + Low(e, 4) + Low(e, 5)
            + Low(e, 6) = low
  <2>1. /\ d[0] \in Nat /\ d[4] \in Nat /\ d[8] \in Nat /\ d[12] \in Nat
        /\ d[16] \in Nat /\ d[20] \in Nat /\ d[24] \in Nat
        /\ d[1] \in Nat /\ d[5] \in Nat /\ d[9] \in Nat /\ d[13] \in Nat
        /\ d[17] \in Nat /\ d[21] \in Nat /\ d[25] \in Nat
    BY <1>1
  <2>2. QED
    BY <1>12, <2>1 DEF low, Column
<1>15. High(e, 0) + High(e, 1) + High(e, 2) + High(e, 3) + High(e, 4) + High(e, 5)
            + High(e, 6) = high
  <2>1. /\ d[2] \in Nat /\ d[6] \in Nat /\ d[10] \in Nat /\ d[14] \in Nat
        /\ d[18] \in Nat /\ d[22] \in Nat /\ d[26] \in Nat
        /\ d[3] \in Nat /\ d[7] \in Nat /\ d[11] \in Nat /\ d[15] \in Nat
        /\ d[19] \in Nat /\ d[23] \in Nat /\ d[27] \in Nat
    BY <1>1
  <2>2. QED
    BY <1>12, <2>1 DEF high, Column
<1>16. ValidCode(e)
  BY <1>6, <1>13, <1>14, <1>15 DEF ValidCode
<1>17. QED
  BY <1>11, <1>16, Zenon DEF e, n

-------------------------------------------------------------------------------
(* The inductive invariant.  Every line the boot loader has got is the     *)
(* encoding of its part of the buffer, unless the encoder refused it.      *)
SentIsEncoded ==
  \A l \in 1..Len(sent) :
     Encodable(LineBytes(l - 1)) =>
        sent[l] = UUencodeLine(data, 45 * (l - 1), LineBytes(l - 1))

(* What ISP_readMemory has decoded so far are the bytes of the buffer: the *)
(* NUL and the padding written behind a line are overwritten by the next.  *)
DecodedSoFar ==
  phase \in {"read", "done"} =>
     \A i \in 0..(size - 1) : i < 45 * line => readBack[i] = data[i]

DataInv ==
  /\ TypeOK
  /\ sent \in Seq(Seq(Nat)) /\ encode \in Seq(Nat) /\ text \in Seq(Nat)
  /\ phase = "load" => first /\ line = 0
  /\ phase \in {"load", "send"} => Len(sent) = line
  /\ phase \in {"read", "done"} =>
        Len(sent) = Lines(size) /\ text = BootText \o Checksum
  /\ IF phase = "done" THEN line = Lines(size) /\ checksumAt = Len(text) - 2
                       ELSE checksumAt = 0
  /\ first /\ phase # "load" => ValidCode(data)
  /\ SentIsEncoded
  /\ DecodedSoFar

(* The sizes and buffers of a reachable state.                             *)
LEMMA SizeFacts ==
  ASSUME TypeOK
  PROVE  /\ Block /\ size \in 1..MaxSize /\ Lines(size) \in 1..12 /\ line \in 0..Lines(size)
         /\ 45 * (Lines(size) - 1) < size /\ size <= 45 * Lines(size)
         /\ data \in BytesTo(size + 2) /\ readBack \in BytesTo(size + 2)
<1>1. Accepted(size) /\ line \in 0..Lines(size)
  BY DEF TypeOK
<1>2. data \in BytesTo(size + 2) /\ readBack \in BytesTo(size + 2)
  BY Zenon DEF TypeOK, BytesTo
<1>3. Block
  BY <1>1, <1>2, Zenon DEF Block, BytesTo
<1>4. size \in 1..MaxSize
  BY <1>1 DEF Accepted
<1>5. QED
  BY <1>1, <1>2, <1>3, <1>4, LinesFacts

(* The text of the boot loader depends on the block alone.                 *)
LEMMA TextFrame ==
  ASSUME size' = size, data' = data
  PROVE  BootText' = BootText
<1> DEFINE lines == [l \in 1..Lines(size) |-> BootLine(l)]
           Joined(ls, n) == [p \in 1..(63 * (Lines(n) - 1) + Len(ls[Lines(n)])) |->
                               ls[1 + ((p - 1) \div 63)][1 + ((p - 1) % 63)]]
<1>1. Memory' = Memory
  BY DEF Memory
<1>2. ASSUME NEW l PROVE BootLine(l)' = BootLine(l)
  BY <1>1 DEF BootLine
<1>3. lines' = lines
  BY <1>2
<1>4. BootText = Joined(lines, size) /\ BootText' = Joined(lines', size')
  BY Zenon DEF BootText
<1> HIDE DEF lines, Joined
<1>5. QED
  BY <1>3, <1>4

(* The lines sent depend on the block and on nothing else.                 *)
LEMMA SentFrame ==
  ASSUME size' = size, data' = data, sent' = sent, SentIsEncoded
  PROVE  SentIsEncoded'
BY DEF SentIsEncoded, LineBytes

(* A buffer about to be signed or sent satisfies the invariant.            *)
THEOREM InitData == Init => DataInv
<1> SUFFICES ASSUME Init PROVE DataInv
  OBVIOUS
<1>1. Accepted(size) /\ size \in Sizes /\ first \in {FALSE, size = MaxSize}
  BY DEF Init
<1>2. size \in 1..MaxSize
  BY <1>1 DEF Accepted
<1>3. Lines(size) \in 1..12
  BY <1>2, LinesFacts
<1>4. data \in [0..(size + 2) -> 0..255]
  <2>1. PICK buffer \in Buffers : data = [i \in 0..(size + 2) |-> buffer[i]]
    BY DEF Init
  <2>2. buffer \in BytesTo(MaxSize + 2)
    BY IspDataAssumption DEF IspDataAssumption, BytesTo
  <2>3. ASSUME NEW i \in 0..(size + 2) PROVE buffer[i] \in 0..255
    <3>1. i \in 0..(MaxSize + 2)
      BY <1>2 DEF MaxSize
    <3>2. QED
      BY <2>2, <3>1 DEF BytesTo
  <2>4. QED
    BY <2>1, <2>3
<1>5. readBack \in [0..(size + 2) -> 0..255]
  <2>1. readBack = [i \in 0..(size + 2) |-> 255]
    BY DEF Init
  <2>2. 255 \in 0..255
    OBVIOUS
  <2>3. QED
    BY <2>1, <2>2, Zenon
<1>6. /\ phase = (IF first THEN "load" ELSE "send") /\ line = 0 /\ checksumAt = 0
      /\ sent = <<>> /\ encode = <<>> /\ text = <<>>
  BY DEF Init
<1>7. /\ sent \in Seq(Seq(Nat)) /\ encode \in Seq(Nat) /\ text \in Seq(Nat)
      /\ Len(sent) = 0 /\ Len(text) = 0
  BY <1>6, EmptySeq
<1>8. phase \in {"load", "send"} /\ (phase = "load" <=> first)
  <2>1. CASE first
    BY <1>6, <2>1
  <2>2. CASE ~first
    BY <1>6, <2>2
  <2>3. QED
    BY <2>1, <2>2
<1>9. TypeOK
  <2>1. line \in 0..Lines(size) /\ Len(sent) <= Lines(size) /\ checksumAt \in 0..(Len(text) + 2)
    BY <1>3, <1>6, <1>7
  <2>2. QED
    BY <1>1, <1>4, <1>5, <1>8, <2>1, Zenon DEF TypeOK
<1>10. SentIsEncoded /\ DecodedSoFar
  BY <1>7, <1>8 DEF SentIsEncoded, DecodedSoFar
<1>11. QED
  BY <1>6, <1>7, <1>8, <1>9, <1>10 DEF DataInv

(* Signing leaves a block of bytes; nothing has been sent yet.             *)
LEMMA ModifyData ==
  ASSUME DataInv, ModifyVector
  PROVE  DataInv'
<1>1. /\ phase = "load" /\ phase' = "send"
      /\ UNCHANGED <<first, size, line, encode, sent, text, readBack, checksumAt>>
      /\ data' = [i \in DOMAIN data |->
                    IF i \in 28..31 THEN Byte(Negated(VectorSum(data)), i - 28) ELSE data[i]]
  BY DEF ModifyVector
<1>2. /\ TypeOK /\ first /\ line = 0 /\ Len(sent) = 0 /\ checksumAt = 0
      /\ sent \in Seq(Seq(Nat)) /\ encode \in Seq(Nat) /\ text \in Seq(Nat)
  BY <1>1 DEF DataInv
<1>3. size = MaxSize
  BY <1>2 DEF TypeOK
<1>4. data' \in BytesTo(size + 2) /\ ValidCode(data')
  <2>1. data \in BytesTo(size + 2)
    BY <1>2, SizeFacts
  <2>2. size + 2 \in Nat /\ size + 2 >= 31
    BY <1>3 DEF MaxSize
  <2>3. QED
    BY <1>1, <2>1, <2>2, SignedBlock, Zenon
<1>5. TypeOK'
  <2>1. data' \in [0..(size + 2) -> 0..255]
    BY <1>4, Zenon DEF BytesTo
  <2>2. QED
    BY <1>1, <1>2, <2>1, Zenon DEF TypeOK
<1>6. SentIsEncoded' /\ DecodedSoFar'
  BY <1>1, <1>2 DEF SentIsEncoded, DecodedSoFar
<1>7. QED
  BY <1>1, <1>2, <1>4, <1>5, <1>6 DEF DataInv

(* The line sent is the encoding of the part the loop has reached.         *)
LEMMA SendData ==
  ASSUME DataInv, SendLine
  PROVE  DataInv'
<1> DEFINE n == LineBytes(line)
<1>1. /\ phase = "send" /\ line < Lines(size)
      /\ encode' = IF Encodable(n) THEN UUencodeLine(data, 45 * line, n) ELSE encode
      /\ sent' = Append(sent, encode') /\ line' = line + 1
      /\ UNCHANGED <<phase, first, size, data, text, readBack, checksumAt>>
  BY DEF SendLine
<1>2. /\ TypeOK /\ Len(sent) = line /\ checksumAt = 0
      /\ sent \in Seq(Seq(Nat)) /\ encode \in Seq(Nat) /\ text \in Seq(Nat)
      /\ SentIsEncoded /\ (first => ValidCode(data))
  BY <1>1 DEF DataInv
<1>3. /\ size \in 1..MaxSize /\ Lines(size) \in 1..12 /\ line \in 0..Lines(size)
      /\ 45 * (Lines(size) - 1) < size /\ data \in BytesTo(size + 2)
  BY <1>2, SizeFacts
<1>4. ASSUME Encodable(n) PROVE encode' \in Seq(Nat)
  <2>1. n \in 1..45
    BY <1>4 DEF Encodable
  <2>2. 45 * line + n <= size
    <3>1. CASE line < Lines(size) - 1
      BY <1>3, <2>1, <3>1 DEF MaxSize
    <3>2. CASE line = Lines(size) - 1
      <4>1. n = size % 45
        BY <1>3, <3>2 DEF LineBytes
      <4>2. size % 45 = size - 45 * (Lines(size) - 1)
        BY <1>3, <2>1, <4>1, LinesFacts
      <4>3. QED
        BY <1>3, <3>2, <4>1, <4>2 DEF MaxSize
    <3>3. QED
      BY <1>1, <1>3, <3>1, <3>2
  <2> HIDE DEF n
  <2>3. HoldsBytes(data, 45 * line, n)
    <3>1. ASSUME NEW i \in (45 * line)..(45 * line + n + 1) PROVE data[i] \in 0..255
      <4>1. i \in 0..(size + 2)
        BY <1>3, <2>1, <2>2 DEF MaxSize
      <4>2. QED
        BY <1>3, <4>1 DEF BytesTo
    <3>2. QED
      BY <3>1 DEF HoldsBytes
  <2>4. 45 * line \in Nat
    BY <1>3
  <2>5. IsLineFor(UUencodeLine(data, 45 * line, n), data, 45 * line, n)
    BY <2>1, <2>3, <2>4, LineFacts
  <2>6. UUencodeLine(data, 45 * line, n) \in Seq(Nat)
    BY <2>5, Zenon DEF IsLineFor
  <2>7. QED
    BY <1>1, <1>4, <2>6
<1> HIDE DEF n
<1>5. encode' \in Seq(Nat)
  BY <1>1, <1>2, <1>4
<1>6. /\ sent' \in Seq(Seq(Nat)) /\ Len(sent') = line + 1
      /\ \A l \in 1..line : sent'[l] = sent[l]
      /\ sent'[line + 1] = encode'
  BY <1>1, <1>2, <1>5, AppendProperties
<1>7. SentIsEncoded'
  <2>1. ASSUME NEW l \in 1..Len(sent'), Encodable(LineBytes(l - 1)')
        PROVE  sent'[l] = UUencodeLine(data', 45 * (l - 1), LineBytes(l - 1)')
    <3>1. LineBytes(l - 1)' = LineBytes(l - 1) /\ data' = data
      BY <1>1 DEF LineBytes
    <3>2. CASE l \in 1..line
      BY <1>2, <1>6, <2>1, <3>1, <3>2 DEF SentIsEncoded
    <3>3. CASE l = line + 1
      <4>1. l - 1 = line
        BY <1>3, <3>3
      <4>2. QED
        BY <1>1, <1>6, <2>1, <3>1, <3>3, <4>1 DEF n
    <3>4. QED
      BY <1>3, <1>6, <3>2, <3>3
  <2>2. QED
    BY <2>1, Zenon DEF SentIsEncoded
<1>8. TypeOK'
  <2>1. line' \in 0..Lines(size) /\ Len(sent') <= Lines(size)
    BY <1>1, <1>3, <1>6
  <2>2. QED
    BY <1>1, <1>2, <2>1, Zenon DEF TypeOK
<1>9. DecodedSoFar'
  BY <1>1 DEF DecodedSoFar
<1>10. QED
  BY <1>1, <1>2, <1>5, <1>6, <1>7, <1>8, <1>9 DEF DataInv

(* The boot loader's answer ends the sending and begins the reading.       *)
LEMMA AnswerData ==
  ASSUME DataInv, Answer
  PROVE  DataInv'
<1>1. /\ phase = "send" /\ phase' = "read" /\ line = Lines(size) /\ line' = 0
      /\ text' = BootText \o Checksum
      /\ UNCHANGED <<first, size, data, encode, sent, readBack, checksumAt>>
  BY DEF Answer
<1>2. /\ TypeOK /\ Len(sent) = line /\ checksumAt = 0
      /\ sent \in Seq(Seq(Nat)) /\ encode \in Seq(Nat) /\ SentIsEncoded
      /\ (first => ValidCode(data))
  BY <1>1 DEF DataInv
<1>3. Block /\ size \in 1..MaxSize /\ Lines(size) \in 1..12
  BY <1>2, SizeFacts
<1>4. text' = BootText' \o Checksum /\ text' \in Seq(Nat)
  BY <1>1, <1>3, TextFrame, TextFacts, Zenon
<1>5. TypeOK'
  <2>1. line' \in 0..Lines(size) /\ Len(sent') <= Lines(size)
    BY <1>1, <1>2, <1>3
  <2>2. checksumAt' \in 0..(Len(text') + 2)
    <3>1. Len(text') \in Nat
      BY <1>4
    <3>2. QED
      BY <1>1, <1>2, <3>1
  <2>3. QED
    BY <1>1, <1>2, <2>1, <2>2, Zenon DEF TypeOK
<1>6. DecodedSoFar'
  BY <1>1, <1>3 DEF DecodedSoFar
<1>7. SentIsEncoded'
  BY <1>1, <1>2, SentFrame
<1>8. QED
  BY <1>1, <1>2, <1>4, <1>5, <1>6, <1>7 DEF DataInv

(* Decoding the next line adds its bytes and keeps those before it.        *)
LEMMA DecodeData ==
  ASSUME DataInv, DecodeLine
  PROVE  DataInv'
<1> DEFINE l == line + 1
           at == 45 * line
           p == 1 + 63 * line
           len == BootBytes(l)
<1>1. /\ phase = "read" /\ line < Lines(size) /\ line' = line + 1
      /\ readBack' = UUdecodeLine(text, p, readBack, at)
      /\ UNCHANGED <<phase, first, size, data, encode, sent, text, checksumAt>>
  BY DEF DecodeLine, LineStride
<1>2. /\ TypeOK /\ checksumAt = 0 /\ Len(sent) = Lines(size) /\ text = BootText \o Checksum
      /\ sent \in Seq(Seq(Nat)) /\ encode \in Seq(Nat) /\ text \in Seq(Nat)
      /\ SentIsEncoded /\ DecodedSoFar /\ (first => ValidCode(data))
  BY <1>1 DEF DataInv
<1>3. /\ Block /\ size \in 1..MaxSize /\ Lines(size) \in 1..12 /\ line \in 0..Lines(size)
      /\ data \in BytesTo(size + 2) /\ readBack \in BytesTo(size + 2)
  BY <1>2, SizeFacts
<1>4. /\ l \in 1..Lines(size) /\ 45 * (l - 1) = at /\ 1 + 63 * (l - 1) = p
      /\ at \in Nat /\ p \in Nat /\ size + 2 \in Nat
  BY <1>1, <1>3
<1>5. /\ len \in 1..45 /\ at + len <= size
      /\ l < Lines(size) => len = 45
      /\ l = Lines(size) => len = size - at
  BY <1>3, <1>4, BootBytesFacts
<1>6. IsLineFor(BootLine(l), Memory, at, len)
  BY <1>3, <1>4, BootLineFacts
<1>7. LiesAt(BootLine(l), text, p)
  BY <1>2, <1>3, <1>4, TextFacts, Zenon
<1> HIDE DEF l, at, p, len
<1>8. /\ readBack' \in BytesTo(size + 2)
      /\ \A a \in 0..(size + 2) : a < at => readBack'[a] = readBack[a]
      /\ \A j \in 0..(len - 1) : at + j <= size + 2 => readBack'[at + j] = Memory[at + j]
  <2>1. HasDecoded(readBack', readBack, size + 2, at, Memory, at, len)
    BY <1>1, <1>3, <1>4, <1>5, <1>6, <1>7, DecodeFacts
  <2>2. QED
    BY <2>1, Zenon DEF HasDecoded
<1>9. ASSUME NEW i \in 0..(size - 1), i < 45 * line'
      PROVE  readBack'[i] = data[i]
  <2>1. i \in 0..(size + 2)
    BY <1>3 DEF MaxSize
  <2>2. CASE i < at
    <3>1. readBack[i] = data[i]
      BY <1>1, <1>2, <2>2 DEF DecodedSoFar, at
    <3>2. QED
      BY <1>8, <2>1, <2>2, <3>1
  <2>3. CASE i >= at
    <3> DEFINE j == i - at
    <3>1. j \in 0..(len - 1) /\ at + j = i /\ i <= size + 2
      <4>1. CASE l < Lines(size)
        BY <1>1, <1>3, <1>4, <1>5, <1>9, <2>3, <4>1 DEF at
      <4>2. CASE l = Lines(size)
        BY <1>3, <1>4, <1>5, <2>3, <4>2
      <4>3. QED
        BY <1>3, <1>4, <4>1, <4>2
    <3> HIDE DEF j
    <3>2. readBack'[i] = Memory[i]
      <4>1. readBack'[at + j] = Memory[at + j]
        BY <1>8, <3>1
      <4>2. QED
        BY <3>1, <4>1, Zenon
    <3>3. Memory[i] = data[i]
      <4>1. size \in Nat /\ i < size
        BY <1>3
      <4>2. QED
        BY <2>1, <4>1 DEF Memory
    <3>4. QED
      BY <3>2, <3>3
  <2>4. QED
    BY <1>3, <1>4, <2>2, <2>3
<1>10. DecodedSoFar'
  BY <1>1, <1>9 DEF DecodedSoFar
<1>11. SentIsEncoded'
  BY <1>1, <1>2, SentFrame
<1>12. TypeOK'
  <2>1. line' \in 0..Lines(size)
    BY <1>1, <1>3
  <2>2. readBack' \in [0..(size + 2) -> 0..255]
    BY <1>8, Zenon DEF BytesTo
  <2>3. QED
    BY <1>1, <1>2, <2>1, <2>2, Zenon DEF TypeOK
<1>13. text' = BootText' \o Checksum
  BY <1>1, <1>2, TextFrame
<1>14. QED
  BY <1>1, <1>2, <1>10, <1>11, <1>12, <1>13 DEF DataInv

(* The checksum is looked for when every line has been decoded.            *)
LEMMA FindData ==
  ASSUME DataInv, FindChecksum
  PROVE  DataInv'
<1>1. /\ phase = "read" /\ phase' = "done" /\ line = Lines(size)
      /\ checksumAt' = 2 + CHOOSE j \in LastLine..(Len(text) - 1) :
                             /\ text[j] = CR /\ text[j + 1] = LF
                             /\ \A k \in LastLine..(j - 1) : ~(text[k] = CR /\ text[k + 1] = LF)
      /\ UNCHANGED <<first, size, data, line, encode, sent, text, readBack>>
  BY DEF FindChecksum
<1>2. /\ TypeOK /\ Len(sent) = Lines(size) /\ text = BootText \o Checksum
      /\ sent \in Seq(Seq(Nat)) /\ encode \in Seq(Nat) /\ text \in Seq(Nat)
      /\ SentIsEncoded /\ DecodedSoFar /\ (first => ValidCode(data))
  BY <1>1 DEF DataInv
<1>3. Block /\ size \in 1..MaxSize /\ Lines(size) \in 1..12
  BY <1>2, SizeFacts
<1>4. checksumAt' = Len(text) - 2
  BY <1>1, <1>2, <1>3, ChecksumFacts, Zenon
<1>5. Len(text) \in Nat /\ Len(text) >= 3
  <2>1. Len(text) = 63 * (Lines(size) - 1) + Len(BootLine(Lines(size))) + 3
    BY <1>2, <1>3, TextFacts, Zenon
  <2>2. Len(BootLine(Lines(size))) \in 7..63
    <3>1. Lines(size) \in 1..Lines(size)
      BY <1>3
    <3>2. QED
      BY <1>3, <3>1, BootLineFacts
  <2>3. \A v \in 1..12, b \in 7..63 :
           63 * (v - 1) + b + 3 \in Nat /\ 63 * (v - 1) + b + 3 >= 3
    OBVIOUS
  <2>4. QED
    BY <1>3, <2>1, <2>2, <2>3, Zenon
<1>6. TypeOK'
  <2>1. checksumAt' \in 0..(Len(text) + 2)
    BY <1>4, <1>5
  <2>2. QED
    BY <1>1, <1>2, <2>1, Zenon DEF TypeOK
<1>7. text' = BootText' \o Checksum
  BY <1>1, <1>2, TextFrame
<1>8. DecodedSoFar'
  BY <1>1, <1>2 DEF DecodedSoFar
<1>9. SentIsEncoded'
  BY <1>1, <1>2, SentFrame
<1>10. QED
  BY <1>1, <1>2, <1>4, <1>6, <1>7, <1>8, <1>9 DEF DataInv

(* Every step of the two exchanges keeps the invariant.                    *)
THEOREM StepData == DataInv /\ [Next]_dataVars => DataInv'
<1> SUFFICES ASSUME DataInv, [Next]_dataVars PROVE DataInv'
  OBVIOUS
<1>1. CASE ModifyVector
  BY <1>1, ModifyData
<1>2. CASE SendLine
  BY <1>2, SendData
<1>3. CASE Answer
  BY <1>3, AnswerData
<1>4. CASE DecodeLine
  BY <1>4, DecodeData
<1>5. CASE FindChecksum
  BY <1>5, FindData
<1>6. CASE UNCHANGED dataVars
  <2>1. UNCHANGED <<phase, first, size, data, line, encode, sent, text, readBack, checksumAt>>
    BY <1>6 DEF dataVars
  <2>2. TypeOK'
    BY <2>1, Zenon DEF DataInv, TypeOK
  <2>3. SentIsEncoded'
    BY <2>1, SentFrame DEF DataInv
  <2>4. DecodedSoFar'
    BY <2>1 DEF DataInv, DecodedSoFar
  <2>5. BootText' = BootText
    BY <2>1, TextFrame
  <2>6. QED
    BY <2>1, <2>2, <2>3, <2>4, <2>5, Zenon DEF DataInv
<1>7. QED
  BY <1>1, <1>2, <1>3, <1>4, <1>5, <1>6 DEF Next, Done

(* The invariant of both loops holds throughout the exchanges.             *)
THEOREM DataIsInvariant == Spec => []DataInv
<1>1. Init => DataInv
  BY InitData
<1>2. DataInv /\ [Next]_dataVars => DataInv'
  BY StepData
<1>3. QED
  BY <1>1, <1>2, PTL DEF Spec

(* The types of the two exchanges: the checksum is looked for inside the   *)
(* text, and no loop runs past the last line.                              *)
THEOREM DataTypes == Spec => []TypeOK
<1>1. DataInv => TypeOK
  BY DEF DataInv
<1>2. QED
  BY <1>1, DataIsInvariant, PTL

(* ISP_readMemory gives back what the memory holds, whatever the bytes of  *)
(* the block and whatever accepted length it has.                          *)
THEOREM BlockIsReadBack == Spec => []ReadBackIsData
<1>1. DataInv => ReadBackIsData
  <2> SUFFICES ASSUME DataInv, phase = "done" PROVE Bytes(readBack) = Bytes(data)
    BY DEF ReadBackIsData
  <2>1. TypeOK /\ line = Lines(size) /\ DecodedSoFar
    BY DEF DataInv
  <2>2. size \in 1..MaxSize /\ Lines(size) \in 1..12 /\ size <= 45 * Lines(size)
    BY <2>1, SizeFacts
  <2>3. ASSUME NEW j \in 1..size PROVE readBack[j - 1] = data[j - 1]
    <3>1. j - 1 \in 0..(size - 1) /\ j - 1 < 45 * line
      BY <2>1, <2>2 DEF MaxSize
    <3>2. QED
      BY <2>1, <3>1 DEF DecodedSoFar
  <2>4. QED
    BY <2>3, Zenon DEF Bytes
<1>2. QED
  BY <1>1, DataIsInvariant, PTL

(* The checksum is found behind the last line, whatever the data encodes   *)
(* to.                                                                     *)
THEOREM ChecksumIsFound == Spec => []ChecksumFound
<1>1. DataInv => ChecksumFound
  <2> SUFFICES ASSUME DataInv, phase = "done"
               PROVE  checksumAt = Len(text) - Len(Checksum) + 1
    BY DEF ChecksumFound
  <2>1. checksumAt = Len(text) - 2 /\ Len(text) \in Nat
    BY DEF DataInv
  <2>2. Len(Checksum) = 3
    BY DEF Checksum
  <2>3. QED
    BY <2>1, <2>2
<1>2. QED
  BY <1>1, DataIsInvariant, PTL

(* Whatever bytes a program file has, the first block that the boot loader *)
(* holds and sends back is code it will start.                             *)
THEOREM FirstBlockStarts == Spec => []FirstBlockIsValid
<1>1. DataInv => FirstBlockIsValid
  <2> SUFFICES ASSUME DataInv, phase = "done", first PROVE ValidCode(readBack)
    BY DEF FirstBlockIsValid
  <2>1. TypeOK /\ line = Lines(size) /\ DecodedSoFar /\ ValidCode(data)
    BY DEF DataInv
  <2>2. size \in 1..MaxSize /\ Lines(size) \in 1..12 /\ size <= 45 * Lines(size)
    BY <2>1, SizeFacts
  <2>3. size = MaxSize
    BY <2>1 DEF TypeOK
  <2>4. ASSUME NEW i \in Nat, i <= 31 PROVE readBack[i] = data[i]
    <3>1. i \in 0..(size - 1) /\ i < 45 * line
      BY <2>1, <2>2, <2>3, <2>4 DEF MaxSize
    <3>2. QED
      BY <2>1, <3>1 DEF DecodedSoFar
  <2>5. ASSUME NEW w \in 0..7
        PROVE  Low(readBack, w) = Low(data, w) /\ High(readBack, w) = High(data, w)
    BY <2>4 DEF Low, High
  <2>6. QED
    BY <2>1, <2>5 DEF ValidCode
<1>2. QED
  BY <1>1, DataIsInvariant, PTL

(* If no accepted size is a multiple of 45, as 4, 512 and the other sizes  *)
(* of the firmware are not, the boot loader decodes exactly the bytes of   *)
(* the buffer, those the encoder reads behind it cut off.                  *)
THEOREM LinesArrive ==
  (\A n \in Sizes : n % 45 # 0) => (Spec => []LinesCarryData)
<1> SUFFICES ASSUME \A n \in Sizes : n % 45 # 0 PROVE Spec => []LinesCarryData
  OBVIOUS
<1>1. DataInv => LinesCarryData
  <2> SUFFICES ASSUME DataInv, phase \in {"read", "done"}
               PROVE  Len(sent) = Lines(size) /\ \A l \in 1..Lines(size) : Decoded(sent[l]) = Part(l)
    BY DEF LinesCarryData
  <2>1. TypeOK /\ Len(sent) = Lines(size) /\ SentIsEncoded
    BY DEF DataInv
  <2>2. /\ size \in 1..MaxSize /\ Lines(size) \in 1..12 /\ data \in BytesTo(size + 2)
        /\ 45 * (Lines(size) - 1) < size /\ size <= 45 * Lines(size)
    BY <2>1, SizeFacts
  <2>3. size % 45 # 0
    BY <2>1 DEF TypeOK
  <2>4. size % 45 = size - 45 * (Lines(size) - 1)
    BY <2>2, <2>3, LinesFacts
  <2>5. ASSUME NEW l \in 1..Lines(size) PROVE Decoded(sent[l]) = Part(l)
    <3> DEFINE at == 45 * (l - 1)
               n == LineBytes(l - 1)
               s == sent[l]
               zeros == [a \in 0..n |-> 0]
               out == UUdecodeLine(s, 1, zeros, 0)
    <3>1. /\ n = (IF l < Lines(size) THEN 45 ELSE size - at) /\ at \in Nat
          /\ n \in 1..45 /\ at + n <= size
      <4>1. CASE l < Lines(size)
        BY <2>2, <4>1 DEF LineBytes, MaxSize
      <4>2. CASE l = Lines(size)
        <5>1. n = size % 45
          BY <2>2, <4>2 DEF LineBytes
        <5>2. at = 45 * (Lines(size) - 1)
          BY <4>2
        <5> HIDE DEF n, at
        <5>3. n = size - at
          BY <2>4, <5>1, <5>2
        <5>4. size \in Nat /\ Lines(size) \in Nat /\ Lines(size) >= 1
          BY <2>2
        <5>5. at \in Nat /\ at < size /\ size <= at + 45
          BY <2>2, <5>2, <5>4
        <5>6. n \in 1..45 /\ at + n <= size
          BY <5>3, <5>4, <5>5
        <5>7. QED
          BY <4>2, <5>3, <5>4, <5>5, <5>6
      <4>3. QED
        BY <2>2, <4>1, <4>2
    <3>2. Part(l) = [j \in 1..n |-> data[at + j - 1]]
      <4>1. n = (IF l < Lines(size) THEN 45 ELSE size - 45 * (l - 1))
        BY <3>1
      <4> HIDE DEF n
      <4>2. QED
        BY <4>1, Zenon DEF Part
    <3>3. s = UUencodeLine(data, at, n)
      BY <2>1, <3>1 DEF SentIsEncoded, Encodable
    <3> HIDE DEF at, n
    <3>4. HoldsBytes(data, at, n)
      <4>1. ASSUME NEW i \in at..(at + n + 1) PROVE data[i] \in 0..255
        <5>1. i \in 0..(size + 2)
          BY <2>2, <3>1 DEF MaxSize
        <5>2. QED
          BY <2>2, <5>1 DEF BytesTo
      <4>2. QED
        BY <4>1 DEF HoldsBytes
    <3>5. IsLineFor(s, data, at, n)
      BY <3>1, <3>3, <3>4, LineFacts
    <3>6. s[1] = n + 32
      BY <3>5, Zenon DEF IsLineFor
    <3>7. Decoded(s) = [j \in 1..n |-> out[j - 1]]
      <4>1. s[1] - 32 = n
        BY <3>1, <3>6
      <4>2. QED
        BY <4>1, Zenon DEF Decoded
    <3>8. LiesAt(s, s, 1)
      <4>1. \A j \in 1..Len(s) : 1 + j - 1 = j
        BY <3>1
      <4>2. QED
        BY <4>1, Zenon DEF LiesAt
    <3>9. zeros \in BytesTo(n)
      BY <3>1 DEF BytesTo
    <3> HIDE DEF s, zeros, out
    <3>10. HasDecoded(out, zeros, n, 0, data, at, n)
      BY <3>1, <3>5, <3>8, <3>9, DecodeFacts DEF out
    <3>11. ASSUME NEW j \in 1..n PROVE out[j - 1] = data[at + j - 1]
      <4>1. j - 1 \in 0..(n - 1) /\ 0 + (j - 1) = j - 1 /\ j - 1 <= n
            /\ at + (j - 1) = at + j - 1
        BY <3>1
      <4>2. out[0 + (j - 1)] = data[at + (j - 1)]
        BY <3>10, <4>1 DEF HasDecoded
      <4>3. QED
        BY <4>1, <4>2
    <3>12. QED
      BY <3>2, <3>7, <3>11, Zenon DEF s
  <2>6. QED
    BY <2>1, <2>5
<1>2. QED
  BY <1>1, DataIsInvariant, PTL
=============================================================================
