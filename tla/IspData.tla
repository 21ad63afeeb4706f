-------------------------------- MODULE IspData --------------------------------
(***************************************************************************)
(* The data of the two long exchanges of program.cpp: ISP_WriteToRAM cuts  *)
(* a buffer into encoded lines and ISP_readMemory finds the lines and the  *)
(* checksum in the text the boot loader sends.  Everything else of the     *)
(* exchange is in IspBurn.tla.  Before that, programBinFileV1 signs the    *)
(* first block of a program: the boot loader starts a program only if the  *)
(* first eight words of its flash add up to zero.                          *)
(***************************************************************************)
EXTENDS UUencode

CONSTANTS Sizes,        \* numbers of bytes asked for
          Buffers       \* what the buffer and the two bytes behind it may hold

(* ISP_MAX_SIZE_WRITE *)
MaxSize == 512

ASSUME IspDataAssumption ==
  Sizes \subseteq Nat \ {0} /\ Buffers \subseteq [0..(MaxSize + 2) -> 0..255]

VARIABLES phase,        \* "load", "send", "read" or "done"
          first,        \* is it the first block of a program?
          size, data,
          line,         \* the index i of both loops
          encode,       \* the line buffer of ISP_WriteToRAM
          sent,         \* the lines the boot loader has got
          text,         \* what it sends back, from p on
          readBack,     \* the buffer ISP_readMemory fills
          checksumAt    \* where ISP_readMemory looks for the checksum

dataVars == <<phase, first, size, data, line, encode, sent, text, readBack, checksumAt>>

(* What the checks of ISP_WriteToRAM and ISP_readMemory let pass.          *)
Accepted(n) == n % 4 = 0 /\ n \in 1..MaxSize

Lines(n) == n \div 45 + (IF n % 45 = 0 THEN 0 ELSE 1)

Init ==
  /\ size \in {n \in Sizes : Accepted(n)}
  /\ first \in {FALSE, size = MaxSize}
  /\ phase = IF first THEN "load" ELSE "send"
  /\ \E buffer \in Buffers : data = [i \in 0..(size + 2) |-> buffer[i]]
  /\ line = 0
  /\ encode = <<>> /\ sent = <<>> /\ text = <<>>
  /\ readBack = [i \in 0..(size + 2) |-> 255]
  /\ checksumAt = 0

(* The 32 bits of tmp are two halves, <<low, high>>.                       *)
Half == 65536

(* Byte p of the seven words before the checksum.                          *)
Column(d, p) ==
  d[p] + d[p + 4] + d[p + 8] + d[p + 12] + d[p + 16] + d[p + 20] + d[p + 24]

(* The sum of the bytes, each shifted to its place: modulo 2^32 it does    *)
(* not matter when the carries are dropped.                                *)
VectorSum(d) ==
  LET low  == Column(d, 0) + Column(d, 1) * 256
      high == Column(d, 2) + Column(d, 3) * 256
  IN <<low % Half, (high + (low \div Half)) % Half>>

(* Mutant: the complement is one short of the negative.                    *)
Inverted(t) == <<Half - 1 - t[1], Half - 1 - t[2]>>

(* ~tmp + 1 *)
Negated(t) ==
  LET low == Half - t[1]
  IN <<low % Half, (Half - 1 - t[2] + (low \div Half)) % Half>>

Byte(t, j) ==
  LET half == t[1 + (j \div 2)]
  IN IF j % 2 = 0 THEN half % 256 ELSE half \div 256

(* "modify vector at 0x1c"                                                 *)
ModifyVector ==
  /\ phase = "load"
  /\ phase' = "send"
  /\ data' = [i \in DOMAIN data |->
                IF i \in 28..31 THEN Byte(Negated(VectorSum(data)), i - 28) ELSE data[i]]
  /\ UNCHANGED <<first, size, line, encode, sent, text, readBack, checksumAt>>

(* Mutant: the last line is a byte short.                                  *)
ShortLastLine(i) == IF i < Lines(size) - 1 THEN 45 ELSE (size % 45) - 1

LineBytes(i) == IF i < Lines(size) - 1 THEN 45 ELSE size % 45

(* UUencodeLine refuses an empty line and leaves the buffer as it was.     *)
SendLine ==
  /\ phase = "send" /\ line < Lines(size)
  /\ encode' = IF Encodable(LineBytes(line))
                 THEN UUencodeLine(data, 45 * line, LineBytes(line)) ELSE encode
  /\ sent' = Append(sent, encode')
  /\ line' = line + 1
  /\ UNCHANGED <<phase, first, size, data, text, readBack, checksumAt>>

(* The boot loader answers ISP_readMemory with the same bytes, in lines of *)
(* its own, followed by the checksum; its padding is zero.                 *)
Memory == [i \in 0..(size + 2) |-> IF i < size THEN data[i] ELSE 0]

BootLine(l) ==
  LET at == 45 * (l - 1)
  IN UUencodeLine(Memory, at, IF size - at < 45 THEN size - at ELSE 45)

Checksum == <<48, CR, LF>>

(* Every line but the last has 63 characters.                              *)
BootText ==
  LET lines == [l \in 1..Lines(size) |-> BootLine(l)]
  IN [p \in 1..(63 * (Lines(size) - 1) + Len(lines[Lines(size)])) |->
        lines[1 + ((p - 1) \div 63)][1 + ((p - 1) % 63)]]

Answer ==
  /\ phase = "send" /\ line = Lines(size)
  /\ phase' = "read" /\ line' = 0
  /\ text' = BootText \o Checksum
  /\ UNCHANGED <<first, size, data, encode, sent, readBack, checksumAt>>

(* Mutant: the end of line is forgotten in the distance of two lines.      *)
ShortStride == 62

LineStride == 63

DecodeLine ==
  /\ phase = "read" /\ line < Lines(size)
  /\ readBack' = UUdecodeLine(text, 1 + LineStride * line, readBack, 45 * line)
  /\ line' = line + 1
  /\ UNCHANGED <<phase, first, size, data, encode, sent, text, checksumAt>>

(* Mutant: the search starts a line too early.                             *)
LineBeforeLast == 1 + 63 * (IF Lines(size) = 1 THEN 0 ELSE Lines(size) - 2)

LastLine == 1 + 63 * (Lines(size) - 1)

FindChecksum ==
  /\ phase = "read" /\ line = Lines(size)
  /\ phase' = "done"
  /\ checksumAt' = 2 + CHOOSE j \in LastLine..(Len(text) - 1) :
                         /\ text[j] = CR /\ text[j + 1] = LF
                         /\ \A k \in LastLine..(j - 1) : ~(text[k] = CR /\ text[k + 1] = LF)
  /\ UNCHANGED <<first, size, data, line, encode, sent, text, readBack>>

Done == phase = "done" /\ UNCHANGED dataVars

Next == ModifyVector \/ SendLine \/ Answer \/ DecodeLine \/ FindChecksum \/ Done

Spec == Init /\ [][Next]_dataVars

-------------------------------------------------------------------------------
(* What a decoder that knows nothing of the sender makes of its lines: the *)
(* announced number of bytes of each.                                      *)
Decoded(l) ==
  LET n == l[1] - 32
      out == UUdecodeLine(l, 1, [a \in 0..n |-> 0], 0)
  IN [j \in 1..n |-> out[j - 1]]

(* The bytes a line is for.                                                *)
Part(l) ==
  [j \in 1..(IF l < Lines(size) THEN 45 ELSE size - 45 * (l - 1)) |->
      data[45 * (l - 1) + j - 1]]

Bytes(buffer) == [j \in 1..size |-> buffer[j - 1]]

TypeOK ==
  /\ phase \in {"load", "send", "read", "done"}
  /\ size \in {n \in Sizes : Accepted(n)} /\ first \in {FALSE, size = MaxSize}
  /\ data \in [0..(size + 2) -> 0..255]
  /\ line \in 0..Lines(size)
  /\ Len(sent) <= Lines(size)
  /\ readBack \in [0..(size + 2) -> 0..255]
  /\ checksumAt \in 0..(Len(text) + 2)

(* Every size the check of ISP_WriteToRAM accepts reaches the boot loader  *)
(* as the bytes of the buffer, the bytes the encoder reads behind it cut   *)
(* off by the length of the last line.                                     *)
LinesCarryData ==
  phase \in {"read", "done"} =>
     Len(sent) = Lines(size) /\ \A l \in 1..Lines(size) : Decoded(sent[l]) = Part(l)

(* ISP_readMemory finds every line by its fixed distance and the NUL that  *)
(* a decoded line writes behind its bytes never survives inside the data.  *)
ReadBackIsData == phase = "done" => Bytes(readBack) = Bytes(data)

(* The first eight words of memory add up to zero, modulo 2^32.            *)
Low(m, w)  == m[4 * w] + m[4 * w + 1] * 256
High(m, w) == m[4 * w + 2] + m[4 * w + 3] * 256

ValidCode(m) ==
  LET low  == Low(m, 0) + Low(m, 1) + Low(m, 2) + Low(m, 3)
                + Low(m, 4) + Low(m, 5) + Low(m, 6) + Low(m, 7)
      high == High(m, 0) + High(m, 1) + High(m, 2) + High(m, 3)
                + High(m, 4) + High(m, 5) + High(m, 6) + High(m, 7)
  IN low % Half = 0 /\ (high + (low \div Half)) % Half = 0

(* The boot loader will start the program: what has been read back of its  *)
(* first block is valid code, whatever bytes the file had, also where the  *)
(* sum of its vectors is zero or runs over 32 bits.                        *)
FirstBlockIsValid == phase = "done" /\ first => ValidCode(readBack)

(* It finds the checksum behind the last line, whatever characters the     *)
(* data encodes to.                                                        *)
ChecksumFound == phase = "done" => checksumAt = Len(text) - Len(Checksum) + 1
===============================================================================
