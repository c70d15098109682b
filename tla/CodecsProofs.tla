---------------------------- MODULE CodecsProofs ----------------------------
(***************************************************************************)
(* What the codecs guarantee for any frames, cut at any places, and for a  *)
(* byte of any size. Recursive functions of the model (FlattenSeq, the     *)
(* rounds of push) are shown to exist and reasoned about by an induction   *)
(* over the natural numbers that is itself proved here.                    *)
(***************************************************************************)
EXTENDS CodecsInvariant, SequenceTheorems, FiniteSetTheorems, FunctionTheorems,
        TLAPS

(* Induction over the natural numbers, for a set of them instead of a      *)
(* predicate: were n missing from S, to add one would map the members of S *)
(* up to n into themselves without 0, a pigeonhole too few.                *)
LEMMA Induction ==
  ASSUME NEW S, 0 \in S, \A n \in Nat : n \in S => n + 1 \in S
  PROVE  \A n \in Nat : n \in S
<1> SUFFICES ASSUME NEW n \in Nat, n \notin S PROVE FALSE
  OBVIOUS
<1> DEFINE T == {m \in 0 .. n : m \in S}
           U == T \ {0}
           f == [m \in T |-> m + 1]
<1>1. IsFiniteSet(0 .. n)
  BY FS_Interval
<1>2. IsFiniteSet(T)
  BY <1>1, FS_Subset
<1>3. 0 \in T
  OBVIOUS
<1>4. IsFiniteSet(U) /\ Cardinality(U) = Cardinality(T) - 1
  BY <1>2, <1>3, FS_RemoveElement
<1>5. f \in [T -> U]
  <2> SUFFICES ASSUME NEW m \in T PROVE m + 1 \in U
    OBVIOUS
  <2>1. m \in Nat /\ m <= n /\ m \in S /\ m # n
    OBVIOUS
  <2> QED
    BY <2>1
<1>6. Cardinality(T) \in Nat
  BY <1>2, FS_CardinalityType
<1>7. Cardinality(U) < Cardinality(T)
  BY <1>4, <1>6
<1> HIDE DEF f, U
<1>8. \E x, y \in T : x # y /\ f[x] = f[y]
  BY <1>2, <1>4, <1>5, <1>7, FS_PigeonHole
<1>9. \A x \in T : f[x] = x + 1 /\ x \in Nat
  BY DEF f
<1> QED
  BY <1>8, <1>9

(* Quotient and remainder, for any divisor.                                *)
LEMMA DivMod ==
  ASSUME NEW b \in Nat \ {0}, NEW n \in Nat
  PROVE  n \div b \in Nat /\ n % b \in 0 .. b - 1 /\ n = b * (n \div b) + (n % b)
  OBVIOUS

(* A number has one quotient and one remainder.                            *)
LEMMA OneQuotient ==
  ASSUME NEW b \in Nat \ {0}, NEW p \in Nat, NEW q \in Nat, NEW r \in 0 .. b - 1, NEW s \in 0 .. b - 1,
         b * p + r = b * q + s
  PROVE  p = q /\ r = s
<1>1. ASSUME NEW x \in Nat, NEW y \in Nat, x < y PROVE b * x + b <= b * y
  <2>1. PICK k \in Nat : y = x + 1 + k
    <3>1. y - x - 1 \in Nat /\ y = x + 1 + (y - x - 1)
      BY <1>1
    <3> QED BY <3>1
  <2>2. b * y = b * x + b + b * k
    BY <2>1
  <2>3. b * k \in Nat
    OBVIOUS
  <2>4. b * x \in Nat
    OBVIOUS
  <2> QED BY <2>2, <2>3, <2>4
<1>2. b * p \in Nat /\ b * q \in Nat
  OBVIOUS
<1>3. ~(p < q) BY <1>1, <1>2
<1>4. ~(q < p) BY <1>1, <1>2
<1> QED BY <1>3, <1>4, <1>2

(* What they are is told from any such sum.                                *)
LEMMA Quotient ==
  ASSUME NEW b \in Nat \ {0}, NEW q \in Nat, NEW r \in 0 .. b - 1
  PROVE  (b * q + r) \div b = q /\ (b * q + r) % b = r
<1>1. b * q + r \in Nat
  OBVIOUS
<1> QED BY <1>1, DivMod, OneQuotient

(* Division by a product, as bytes are shifted out one by one.             *)
LEMMA DivDiv ==
  ASSUME NEW b \in Nat \ {0}, NEW c \in Nat \ {0}, NEW n \in Nat
  PROVE  /\ n \div (c * b) = (n \div b) \div c
         /\ n % (c * b) = b * ((n \div b) % c) + (n % b)
<1>1. PICK q \in Nat, r \in 0 .. b - 1 : q = n \div b /\ r = n % b /\ n = b * q + r
  BY DivMod
<1>2. PICK p \in Nat, s \in 0 .. c - 1 : p = q \div c /\ s = q % c /\ q = c * p + s
  BY DivMod
<1>3. n = (c * b) * p + (b * s + r)
  <2>1. n = b * (c * p + s) + r
    BY <1>1, <1>2
  <2> QED BY <2>1
<1>4. b * s + r \in 0 .. (c * b) - 1
  <2>1. PICK k \in Nat : c = s + 1 + k
    <3>1. c - s - 1 \in Nat /\ c = s + 1 + (c - s - 1)
      OBVIOUS
    <3> QED BY <3>1
  <2>2. c * b = b * s + b + b * k
    BY <2>1
  <2>3. b * k \in Nat /\ b * s \in Nat
    OBVIOUS
  <2> QED BY <2>2, <2>3
<1>5. c * b \in Nat \ {0}
  OBVIOUS
<1>6. PICK d \in Nat \ {0} : d = c * b
  BY <1>5
<1>7. PICK t \in 0 .. d - 1 : t = b * s + r
  BY <1>4, <1>6
<1>8. n = d * p + t
  BY <1>3, <1>6, <1>7
<1>9. n \div d = p /\ n % d = t
  BY <1>8, Quotient
<1> QED BY <1>1, <1>2, <1>6, <1>7, <1>9

(* A byte has more values than there are opcodes.                          *)
LEMMA BaseType == Base \in Nat \ {0} /\ Base > 4
  BY BleAssumption

(* A number below the divisor is its own remainder.                        *)
LEMMA OwnRemainder ==
  ASSUME NEW b \in Nat \ {0}, NEW n \in 0 .. b - 1
  PROVE  n % b = n
<1>1. b * 0 + n = n
  OBVIOUS
<1>2. (b * 0 + n) % b = n
  BY Quotient
<1> QED BY <1>1, <1>2

(* A byte is a byte.                                                       *)
LEMMA ByteType ==
  ASSUME NEW n \in Nat
  PROVE  Byte(n) \in 0 .. Base - 1
  BY BaseType, DivMod DEF Byte

(* What two, three and four bytes of a number hold together: the number    *)
(* cut to as many.                                                         *)
LEMMA LowBytes ==
  ASSUME NEW n \in Nat
  PROVE  /\ Uint16(Byte(n \div Base), Byte(n)) = n % (Base * Base)
         /\ Uint24(Byte(n \div (Base * Base)), Byte(n \div Base), Byte(n)) = n % (Base * Base * Base)
         /\ Uint32(Byte(n \div (Base * Base * Base)), Byte(n \div (Base * Base)), Byte(n \div Base), Byte(n))
              = n % (Base * Base * Base * Base)
<1>1. Base * Base \in Nat \ {0} /\ Base * Base * Base \in Nat \ {0}
  BY BaseType
<1>2. PICK b \in Nat \ {0}, b2 \in Nat \ {0}, b3 \in Nat \ {0} :
        b = Base /\ b2 = Base * Base /\ b3 = Base * Base * Base
  BY <1>1, BaseType
<1>3. n % (b * b) = b * ((n \div b) % b) + (n % b)
  BY DivDiv
<1>4. n % (b * b2) = b2 * ((n \div b2) % b) + (n % b2)
  BY DivDiv
<1>5. n % (b * b3) = b3 * ((n \div b3) % b) + (n % b3)
  BY DivDiv
<1>6. PICK d0 \in Nat, d1 \in Nat, d2 \in Nat, d3 \in Nat :
        d0 = n % b /\ d1 = (n \div b) % b /\ d2 = (n \div b2) % b /\ d3 = (n \div b3) % b
  <2>1. n \div b \in Nat /\ n \div b2 \in Nat /\ n \div b3 \in Nat
    BY DivMod
  <2>2. /\ n % b \in Nat /\ (n \div b) % b \in Nat
        /\ (n \div b2) % b \in Nat /\ (n \div b3) % b \in Nat
    BY <2>1, DivMod
  <2> QED BY <2>2
<1>7. Base * Base = b * b /\ Base * Base * Base = b * b2 /\ Base * Base * Base * Base = b * b3
      /\ b2 = b * b /\ b3 = b * b2
  BY <1>2, BaseType
<1>8. n % b2 = b * d1 + d0
  BY <1>3, <1>6, <1>7
<1>9. n % b3 = b2 * d2 + (b * d1 + d0)
  BY <1>4, <1>6, <1>7, <1>8
<1>10. n % (b * b3) = b3 * d3 + (b2 * d2 + (b * d1 + d0))
  BY <1>5, <1>6, <1>9
<1>11. /\ Byte(n) = d0 /\ Byte(n \div Base) = d1
       /\ Byte(n \div (Base * Base)) = d2 /\ Byte(n \div (Base * Base * Base)) = d3
  BY <1>2, <1>6 DEF Byte
<1>12. Uint16(d1, d0) = n % b2
  BY <1>2, <1>8 DEF Uint16
<1>13. Uint24(d2, d1, d0) = n % b3
  <2>1. Uint24(d2, d1, d0) = (d2 * b + d1) * b + d0
    BY <1>2 DEF Uint24, Uint16
  <2>2. (d2 * b + d1) * b + d0 = (b * b) * d2 + (b * d1 + d0)
    OBVIOUS
  <2> QED BY <2>1, <2>2, <1>9, <1>7
<1>14. Uint32(d3, d2, d1, d0) = n % (b * b3)
  <2>1. Uint32(d3, d2, d1, d0) = ((d3 * b + d2) * b + d1) * b + d0
    BY <1>2 DEF Uint32, Uint24, Uint16
  <2>2. ((d3 * b + d2) * b + d1) * b + d0 = (b * (b * b)) * d3 + ((b * b) * d2 + (b * d1 + d0))
    OBVIOUS
  <2> QED BY <2>1, <2>2, <1>10, <1>7
<1> QED BY <1>11, <1>12, <1>13, <1>14, <1>7

(* A number of two bytes is read back.                                     *)
LEMMA Uint16ReadsBack ==
  ASSUME NEW n \in 0 .. MAX_UINT16
  PROVE  Uint16(Byte(n \div Base), Byte(n)) = n
<1>1. PICK d \in Nat \ {0} : d = Base * Base
  BY BaseType
<1>2. n \in 0 .. d - 1
  BY <1>1 DEF MAX_UINT16
<1>3. n % d = n
  BY <1>2, OwnRemainder
<1> QED BY <1>1, <1>2, <1>3, LowBytes

(* A number of three bytes is read back.                                   *)
LEMMA Uint24ReadsBack ==
  ASSUME NEW n \in 0 .. MAX_UINT24
  PROVE  Uint24(Byte(n \div (Base * Base)), Byte(n \div Base), Byte(n)) = n
<1>1. PICK d \in Nat \ {0} : d = Base * Base * Base
  BY BaseType
<1>2. n \in 0 .. d - 1
  BY <1>1 DEF MAX_UINT24
<1>3. n % d = n
  BY <1>2, OwnRemainder
<1> QED BY <1>1, <1>2, <1>3, LowBytes

-----------------------------------------------------------------------------
(* The bytes of a command frame, one by one.                               *)
LEMMA TenBytes ==
  ASSUME NEW a \in Nat, NEW b \in Nat, NEW c \in Nat, NEW op \in Nat,
         NEW d \in Nat, NEW e \in Nat, NEW f \in Nat, NEW g \in Nat,
         NEW frame, frame = <<a, b, c>> \o <<0, 0, op>> \o <<d, e, f, g>>
  PROVE  /\ frame \in Seq(Nat) /\ Len(frame) = 10
         /\ frame[1] = a /\ frame[2] = b /\ frame[3] = c
         /\ frame[4] = 0 /\ frame[5] = 0 /\ frame[6] = op
         /\ frame[7] = d /\ frame[8] = e /\ frame[9] = f /\ frame[10] = g
<1>1. PICK front : front = <<a, b, c>> \o <<0, 0, op>>
  OBVIOUS
<1>2. /\ front \in Seq(Nat) /\ Len(front) = 6
      /\ front[1] = a /\ front[2] = b /\ front[3] = c
      /\ front[4] = 0 /\ front[5] = 0 /\ front[6] = op
  BY <1>1
<1>3. frame = front \o <<d, e, f, g>>
  BY <1>1
<1>4. /\ frame \in Seq(Nat) /\ Len(frame) = 10
      /\ \A i \in 1 .. 6 : frame[i] = front[i]
  BY <1>2, <1>3
<1>5. frame[7] = d /\ frame[8] = e /\ frame[9] = f /\ frame[10] = g
  BY <1>2, <1>3
<1> QED BY <1>2, <1>4, <1>5

(* The first byte of the argument and the other three.                     *)
LEMMA FourBytes ==
  ASSUME NEW d \in Nat, NEW e \in Nat, NEW f \in Nat, NEW g \in Nat
  PROVE  <<d>> \o <<e, f, g>> = <<d, e, f, g>>
<1>1. PICK s : s = <<d>> \o <<e, f, g>>
  OBVIOUS
<1>2. PICK t : t = <<d, e, f, g>>
  OBVIOUS
<1>3. s \in Seq(Nat) /\ Len(s) = 4 /\ s[1] = d /\ s[2] = e /\ s[3] = f /\ s[4] = g
  BY <1>1
<1>4. t \in Seq(Nat) /\ Len(t) = 4 /\ t[1] = d /\ t[2] = e /\ t[3] = f /\ t[4] = g
  BY <1>2
<1>5. \A i \in 1 .. 4 : s[i] = t[i]
  BY <1>3, <1>4
<1> QED BY <1>1, <1>2, <1>3, <1>4, <1>5, SeqEqual

(* The bytes of a data frame, one by one.                                  *)
LEMMA HeaderAndPayload ==
  ASSUME NEW a \in Nat, NEW b \in Nat, NEW c \in Nat, NEW d \in Nat, NEW e \in Nat,
         NEW payload \in Seq(Nat),
         NEW frame, frame = <<a, b, c>> \o <<d, e>> \o payload
  PROVE  /\ frame \in Seq(Nat) /\ Len(frame) = 5 + Len(payload)
         /\ frame[1] = a /\ frame[2] = b /\ frame[3] = c /\ frame[4] = d /\ frame[5] = e
         /\ \A i \in 1 .. Len(payload) : frame[5 + i] = payload[i]
  OBVIOUS

(* The bytes of a number are natural numbers.                              *)
LEMMA ShiftedBytes ==
  ASSUME NEW n \in Nat
  PROVE  /\ Byte(n) \in Nat /\ Byte(n \div Base) \in Nat
         /\ Byte(n \div (Base * Base)) \in Nat /\ Byte(n \div (Base * Base * Base)) \in Nat
<1>1. Base * Base \in Nat \ {0} /\ Base * Base * Base \in Nat \ {0}
  BY BaseType
<1>2. ASSUME NEW b \in Nat \ {0} PROVE Byte(n \div b) \in Nat
  <2>1. n \div b \in Nat
    BY DivMod
  <2> QED BY <2>1, ByteType, BaseType
<1>3. Byte(n) \in Nat
  BY ByteType, BaseType
<1> QED BY <1>1, <1>2, <1>3, BaseType

(* The limits of the length fields.                                        *)
LEMMA MaximaType == MAX_UINT16 \in Nat /\ MAX_UINT24 \in Nat
<1>1. Base * Base \in Nat \ {0} /\ Base * Base * Base \in Nat \ {0}
  BY BaseType
<1> QED BY <1>1 DEF MAX_UINT16, MAX_UINT24

(* The fields that decodeBleFrame reads in the encoding of a command.      *)
LEMMA FrameOfCommand ==
  ASSUME NEW c \in Commands, NEW frame, frame = EncodeCommand(c)
  PROVE  /\ frame \in Seq(Nat) /\ Len(frame) = 10
         /\ Uint24(frame[1], frame[2], frame[3]) = c.totalLength
         /\ frame[4] = 0 /\ frame[5] = 0 /\ frame[6] = c.opcode
         /\ c.opcode = 0 => frame[7] = Byte(c.argument)
         /\ c.opcode # 0 => Uint32(frame[7], frame[8], frame[9], frame[10])
                              = c.argument % (Base * Base * Base * Base)
<1>1. PICK t \in Nat, op \in Nat, n \in Nat : t = c.totalLength /\ op = c.opcode /\ n = c.argument
  BY MaximaType DEF Commands
<1>2. t \in 0 .. MAX_UINT24
  BY <1>1 DEF Commands
<1>3. PICK t2 \in Nat, t1 \in Nat, t0 \in Nat :
        t2 = Byte(t \div (Base * Base)) /\ t1 = Byte(t \div Base) /\ t0 = Byte(t)
  BY ShiftedBytes
<1>4. PICK n3 \in Nat, n2 \in Nat, n1 \in Nat, n0 \in Nat :
        /\ n3 = Byte(n \div (Base * Base * Base)) /\ n2 = Byte(n \div (Base * Base))
        /\ n1 = Byte(n \div Base) /\ n0 = Byte(n)
  BY ShiftedBytes
<1>5. Uint24(t2, t1, t0) = t
  BY <1>2, <1>3, Uint24ReadsBack
<1>6. Uint32(n3, n2, n1, n0) = n % (Base * Base * Base * Base)
  BY <1>4, LowBytes
<1>7. frame = <<t2, t1, t0>> \o <<0, 0, op>> \o ArgumentBytes(op, n)
  BY <1>1, <1>3 DEF EncodeCommand, Uint24Bytes
<1>8. CASE op = 0
  <2>1. ArgumentBytes(op, n) = <<n0, 0, 0, 0>>
    BY <1>8, <1>4 DEF ArgumentBytes, BleOpcode
  <2>2. frame = <<t2, t1, t0>> \o <<0, 0, op>> \o <<n0, 0, 0, 0>>
    BY <1>7, <2>1
  <2>3. /\ frame \in Seq(Nat) /\ Len(frame) = 10
        /\ frame[1] = t2 /\ frame[2] = t1 /\ frame[3] = t0
        /\ frame[4] = 0 /\ frame[5] = 0 /\ frame[6] = op /\ frame[7] = n0
    BY <2>2, TenBytes
  <2> QED BY <2>3, <1>1, <1>4, <1>5, <1>8
<1>9. CASE op # 0
  <2>1. ArgumentBytes(op, n) = <<n3>> \o <<n2, n1, n0>>
    BY <1>9, <1>4 DEF ArgumentBytes, BleOpcode, Uint32Bytes, Uint24Bytes
  <2>4. <<n3>> \o <<n2, n1, n0>> = <<n3, n2, n1, n0>>
    BY FourBytes
  <2>2. frame = <<t2, t1, t0>> \o <<0, 0, op>> \o <<n3, n2, n1, n0>>
    BY <1>7, <2>1, <2>4
  <2>3. /\ frame \in Seq(Nat) /\ Len(frame) = 10
        /\ frame[1] = t2 /\ frame[2] = t1 /\ frame[3] = t0
        /\ frame[4] = 0 /\ frame[5] = 0 /\ frame[6] = op
        /\ frame[7] = n3 /\ frame[8] = n2 /\ frame[9] = n1 /\ frame[10] = n0
    BY <2>2, TenBytes
  <2> QED BY <2>3, <1>1, <1>5, <1>6, <1>9
<1> QED BY <1>8, <1>9

(* The fields that it reads in the encoding of a data frame.               *)
LEMMA FrameOfBlock ==
  ASSUME NEW d \in Blocks, NEW frame, frame = EncodeData(d)
  PROVE  /\ frame \in Seq(Nat) /\ Len(frame) = 5 + Len(d.payload)
         /\ Uint24(frame[1], frame[2], frame[3]) = d.offset
         /\ Uint16(frame[4], frame[5]) = Len(d.payload)
         /\ \A i \in 1 .. Len(d.payload) : frame[5 + i] = d.payload[i]
<1>1. PICK o \in Nat, p \in Seq(Nat), n \in Nat : o = d.offset /\ p = d.payload /\ n = Len(d.payload)
  BY MaximaType DEF Blocks
<1>2. o \in 0 .. MAX_UINT24 /\ n \in 0 .. MAX_UINT16
  BY <1>1, MaximaType DEF Blocks
<1>3. PICK o2 \in Nat, o1 \in Nat, o0 \in Nat :
        o2 = Byte(o \div (Base * Base)) /\ o1 = Byte(o \div Base) /\ o0 = Byte(o)
  BY ShiftedBytes
<1>4. PICK n1 \in Nat, n0 \in Nat : n1 = Byte(n \div Base) /\ n0 = Byte(n)
  BY ShiftedBytes
<1>5. Uint24(o2, o1, o0) = o
  BY <1>2, <1>3, Uint24ReadsBack
<1>6. Uint16(n1, n0) = n
  BY <1>2, <1>4, Uint16ReadsBack
<1>7. frame = <<o2, o1, o0>> \o <<n1, n0>> \o p
  BY <1>1, <1>3, <1>4 DEF EncodeData, Uint24Bytes, Uint16Bytes
<1>8. /\ frame \in Seq(Nat) /\ Len(frame) = 5 + Len(p)
      /\ frame[1] = o2 /\ frame[2] = o1 /\ frame[3] = o0 /\ frame[4] = n1 /\ frame[5] = n0
      /\ \A i \in 1 .. Len(p) : frame[5 + i] = p[i]
  BY <1>7, HeaderAndPayload
<1> QED BY <1>1, <1>5, <1>6, <1>8

(* A command is read back, but for what its argument loses: a START keeps  *)
(* one byte of it, other opcodes four.                                     *)
LEMMA CommandReadsBack ==
  ASSUME NEW c \in Commands
  PROVE  Decode(EncodeCommand(c)) = Kept(c)
<1>1. PICK frame : frame = EncodeCommand(c)
  OBVIOUS
<1>2. /\ Len(frame) = 10
      /\ Uint24(frame[1], frame[2], frame[3]) = c.totalLength
      /\ frame[4] = 0 /\ frame[5] = 0 /\ frame[6] = c.opcode
      /\ c.opcode = 0 => frame[7] = Byte(c.argument)
      /\ c.opcode # 0 => Uint32(frame[7], frame[8], frame[9], frame[10])
                           = c.argument % (Base * Base * Base * Base)
  BY <1>1, FrameOfCommand
<1>3. Uint16(frame[4], frame[5]) = 0
  BY <1>2, BaseType DEF Uint16
<1>4. Decode(frame) = DecodeCommand(frame)
  BY <1>2, <1>3 DEF Decode, TooShort, DATA_FRAME_HEADER_SIZE, COMMAND_FRAME_SIZE
<1>5. DecodeCommand(frame) =
        Command(c.totalLength, c.opcode,
                IF c.opcode = 0 THEN Byte(c.argument)
                ELSE c.argument % (Base * Base * Base * Base))
  BY <1>2 DEF DecodeCommand, BleOpcode
<1>6. Kept(c) =
        Command(c.totalLength, c.opcode,
                IF c.opcode = 0 THEN Byte(c.argument)
                ELSE c.argument % (Base * Base * Base * Base))
  BY DEF Kept, Command, Commands, BleOpcode
<1> QED BY <1>1, <1>4, <1>5, <1>6

(* A data frame is read back, and is not taken for a command.              *)
LEMMA BlockReadsBack ==
  ASSUME NEW d \in Blocks
  PROVE  Decode(EncodeData(d)) = Kept(d)
<1>1. PICK frame : frame = EncodeData(d)
  OBVIOUS
<1>2. PICK p \in Seq(Nat), n \in Nat : p = d.payload /\ n = Len(p) /\ n > 0
  BY MaximaType DEF Blocks
<1>3. /\ frame \in Seq(Nat) /\ Len(frame) = 5 + n
      /\ Uint24(frame[1], frame[2], frame[3]) = d.offset
      /\ Uint16(frame[4], frame[5]) = n
      /\ \A i \in 1 .. n : frame[5 + i] = p[i]
  BY <1>1, <1>2, FrameOfBlock
<1>4. Decode(frame) = DecodeData(frame, n)
  <2>1. ~(5 + n < 5) /\ n # 0
    BY <1>2
  <2>2. ~TooShort(frame, n)
    BY <1>2, <1>3 DEF TooShort, DATA_FRAME_HEADER_SIZE, COMMAND_FRAME_SIZE
  <2> QED BY <2>1, <2>2, <1>3 DEF Decode, DATA_FRAME_HEADER_SIZE
<1>5. SubSeq(frame, 6, 5 + n) = p
  <2>1. /\ SubSeq(frame, 6, 5 + n) \in Seq(Nat) /\ Len(SubSeq(frame, 6, 5 + n)) = n
        /\ \A i \in 1 .. n : SubSeq(frame, 6, 5 + n)[i] = frame[5 + i]
    <3>1. ASSUME NEW i \in 6 .. 5 + n PROVE frame[i] \in Nat
      <4>1. i \in 1 .. Len(frame)
        BY <1>2, <1>3
      <4> QED BY <4>1, <1>3, ElementOfSeq
    <3>2. PICK lo \in Int, hi \in Int : lo = 6 /\ hi = 5 + n
      OBVIOUS
    <3>3. /\ SubSeq(frame, lo, hi) \in Seq(Nat)
          /\ Len(SubSeq(frame, lo, hi)) = IF lo <= hi THEN hi - lo + 1 ELSE 0
          /\ \A i \in 1 .. hi - lo + 1 : SubSeq(frame, lo, hi)[i] = frame[lo + i - 1]
      BY <3>1, <3>2, SubSeqProperties
    <3>4. \A i \in 1 .. n : lo + i - 1 = 5 + i
      BY <3>2
    <3> QED BY <3>2, <3>3, <3>4, <1>2
  <2> QED BY <2>1, <1>2, <1>3, SeqEqual
<1>6. DecodeData(frame, n) = Data(d.offset, p)
  <2>1. Smaller(5 + n, Len(frame)) = 5 + n /\ 5 + 1 = 6
    BY <1>3 DEF Smaller
  <2> QED BY <2>1, <1>3, <1>5 DEF DecodeData, DATA_FRAME_HEADER_SIZE
<1>7. Kept(d) = Data(d.offset, p)
  BY <1>2 DEF Kept, Data, Blocks
<1> QED BY <1>1, <1>4, <1>6, <1>7

(* A command broken off anywhere is refused.                               *)
LEMMA BrokenCommand ==
  ASSUME NEW c \in Commands, NEW n \in 0 .. Len(EncodeCommand(c)) - 1
  PROVE  Decode(SubSeq(EncodeCommand(c), 1, n)) = Invalid
<1>1. PICK frame : frame = EncodeCommand(c)
  OBVIOUS
<1>2. frame \in Seq(Nat) /\ Len(frame) = 10 /\ frame[4] = 0 /\ frame[5] = 0
  BY <1>1, FrameOfCommand
<1>3. PICK front : front = SubSeq(frame, 1, n)
  OBVIOUS
<1>4. n \in 0 .. 9
  BY <1>1, <1>2
<1>5. Len(front) = n /\ \A i \in 1 .. n : front[i] = frame[i]
  BY <1>2, <1>3, <1>4
<1>6. n >= 5 => Uint16(front[4], front[5]) = 0
  BY <1>2, <1>4, <1>5, BaseType DEF Uint16
<1> QED BY <1>1, <1>3, <1>4, <1>5, <1>6 DEF Decode, TooShort, DATA_FRAME_HEADER_SIZE, COMMAND_FRAME_SIZE

(* So is a data frame broken off anywhere.                                 *)
LEMMA BrokenBlock ==
  ASSUME NEW d \in Blocks, NEW n \in 0 .. Len(EncodeData(d)) - 1
  PROVE  Decode(SubSeq(EncodeData(d), 1, n)) = Invalid
<1>1. PICK frame : frame = EncodeData(d)
  OBVIOUS
<1>2. PICK m \in Nat : m = Len(d.payload)
  BY DEF Blocks
<1>3. frame \in Seq(Nat) /\ Len(frame) = 5 + m /\ Uint16(frame[4], frame[5]) = m
  BY <1>1, <1>2, FrameOfBlock
<1>4. PICK front : front = SubSeq(frame, 1, n)
  OBVIOUS
<1>5. n \in 0 .. 4 + m
  BY <1>1, <1>3
<1>6. Len(front) = n /\ \A i \in 1 .. n : front[i] = frame[i]
  BY <1>2, <1>3, <1>4, <1>5
<1>7. n >= 5 => Uint16(front[4], front[5]) = m
  BY <1>2, <1>3, <1>5, <1>6
<1> QED BY <1>1, <1>2, <1>4, <1>5, <1>6, <1>7 DEF Decode, TooShort, DATA_FRAME_HEADER_SIZE, COMMAND_FRAME_SIZE

-----------------------------------------------------------------------------
(* The maximum of a set of places is one of them.                          *)
LEMMA MaximumExists ==
  ASSUME NEW n \in Nat, NEW T \in SUBSET (1 .. n), T # {}
  PROVE  Max(T) \in T /\ \A y \in T : Max(T) >= y
<1> DEFINE S == {m \in Nat : \A U \in SUBSET (1 .. m) :
                               U # {} => \E x \in U : \A y \in U : x >= y}
<1>1. 0 \in S
  <2>1. 1 .. 0 = {}
    OBVIOUS
  <2> QED BY <2>1
<1>2. ASSUME NEW m \in Nat, m \in S PROVE m + 1 \in S
  <2> SUFFICES ASSUME NEW U \in SUBSET (1 .. m + 1), U # {}
               PROVE  \E x \in U : \A y \in U : x >= y
    OBVIOUS
  <2>1. CASE m + 1 \in U
    BY <2>1
  <2>2. CASE m + 1 \notin U
    <3>1. U \in SUBSET (1 .. m)
      BY <2>2
    <3> QED BY <3>1, <1>2
  <2> QED BY <2>1, <2>2
<1> HIDE DEF S
<1>3. n \in S
  BY <1>1, <1>2, Induction
<1>4. \E x \in T : \A y \in T : x >= y
  BY <1>3 DEF S
<1> QED BY <1>4 DEF Max

(* A command after other frames moves no data frame.                       *)
LEMMA AddNoData ==
  ASSUME NEW F, NEW frames \in Seq(F), NEW f \in F, f.kind # "data",
         NEW more, more = frames \o <<f>>
  PROVE  DataAt(more) = DataAt(frames) /\ Reached(more) = Reached(frames)
<1>1. more \in Seq(F) /\ Len(more) = Len(frames) + 1 /\ more[Len(frames) + 1] = f
      /\ \A i \in 1 .. Len(frames) : more[i] = frames[i]
  OBVIOUS
<1>2. DOMAIN frames = 1 .. Len(frames) /\ DOMAIN more = 1 .. Len(frames) + 1 /\ Len(frames) \in Nat
  BY <1>1
<1>3. DataAt(more) = DataAt(frames)
  BY <1>1, <1>2 DEF DataAt
<1>4. CASE DataAt(frames) # {}
  <2>1. DataAt(frames) \in SUBSET (1 .. Len(frames))
    BY <1>2 DEF DataAt
  <2>2. Max(DataAt(frames)) \in 1 .. Len(frames)
    BY <2>1, <1>2, <1>4, MaximumExists
  <2>3. more[Max(DataAt(frames))] = frames[Max(DataAt(frames))]
    BY <2>2, <1>1
  <2> QED BY <2>3, <1>3 DEF Reached
<1> QED BY <1>3, <1>4 DEF Reached

(* A data frame after others is the last, and they reach as far as it      *)
(* does.                                                                   *)
LEMMA AddBlock ==
  ASSUME NEW F, NEW frames \in Seq(F), NEW d \in F, d.kind = "data",
         NEW more, more = frames \o <<d>>
  PROVE  /\ DataAt(more) = DataAt(frames) \cup {Len(frames) + 1}
         /\ Reached(more) = d.offset + Len(d.payload)
<1>1. more \in Seq(F) /\ Len(more) = Len(frames) + 1 /\ more[Len(frames) + 1] = d
      /\ \A i \in 1 .. Len(frames) : more[i] = frames[i]
  OBVIOUS
<1>2. DOMAIN frames = 1 .. Len(frames) /\ DOMAIN more = 1 .. Len(frames) + 1 /\ Len(frames) \in Nat
  BY <1>1
<1>3. DataAt(more) = DataAt(frames) \cup {Len(frames) + 1}
  BY <1>1, <1>2 DEF DataAt
<1>4. DataAt(more) \in SUBSET (1 .. Len(frames) + 1)
  BY <1>2 DEF DataAt
<1>5. PICK m : m = Max(DataAt(more))
  OBVIOUS
<1>6. m \in DataAt(more) /\ \A y \in DataAt(more) : m >= y
  <2>1. PICK n, T : n = Len(frames) + 1 /\ n \in Nat /\ T = DataAt(more)
    BY <1>2
  <2>2. T \in SUBSET (1 .. n) /\ T # {}
    BY <2>1, <1>3, <1>4
  <2> QED BY <2>1, <2>2, <1>5, MaximumExists
<1>7. m = Len(frames) + 1
  BY <1>2, <1>3, <1>4, <1>6
<1> QED BY <1>1, <1>3, <1>5, <1>7 DEF Reached

(* What comes after leaves the front alone.                                *)
LEMMA FrontIsKept ==
  ASSUME NEW F, NEW frames \in Seq(F), NEW f \in F, NEW more, more = frames \o <<f>>,
         NEW i \in 1 .. Len(frames) + 1
  PROVE  SubSeq(more, 1, i - 1) = SubSeq(frames, 1, i - 1)
<1>1. more \in Seq(F) /\ Len(more) = Len(frames) + 1 /\ \A k \in 1 .. Len(frames) : more[k] = frames[k]
  OBVIOUS
<1>2. PICK n \in 0 .. Len(frames) : n = i - 1
  OBVIOUS
<1>3. PICK s : s = SubSeq(more, 1, n)
  OBVIOUS
<1>4. PICK t : t = SubSeq(frames, 1, n)
  OBVIOUS
<1>5. /\ s \in Seq(F) /\ Len(s) = n /\ \A k \in 1 .. n : s[k] = more[k]
  BY <1>1, <1>3
<1>6. /\ t \in Seq(F) /\ Len(t) = n /\ \A k \in 1 .. n : t[k] = frames[k]
  BY <1>4
<1>7. \A k \in 1 .. n : s[k] = t[k]
  BY <1>1, <1>5, <1>6
<1> QED BY <1>2, <1>3, <1>4, <1>5, <1>6, <1>7, SeqEqual

-----------------------------------------------------------------------------
(* The fields of a transfer.                                               *)
LEMMA TransferType ==
  ASSUME NEW t \in Transfer
  PROVE  /\ t.selector \in Selectors /\ t.length \in Nat /\ t.chunkSize \in Nat
         /\ t.argument \in Nat
  BY BleAssumption DEF Transfer

(* An encoding is a sequence of bytes.                                     *)
LEMMA EncodedType ==
  ASSUME NEW f \in Commands \cup Blocks
  PROVE  Encoded(f) \in Seq(Nat)
<1>1. CASE f \in Commands
  <2>1. f.kind = "command"
    BY <1>1 DEF Commands
  <2> QED BY <1>1, <2>1, FrameOfCommand DEF Encoded
<1>2. CASE f \in Blocks
  <2>1. f.kind = "data"
    BY <1>2 DEF Blocks
  <2> QED BY <1>2, <2>1, FrameOfBlock DEF Encoded
<1> QED BY <1>1, <1>2

(* bleCommandSequence: commands that are not refused fit, and so does the  *)
(* payload they announce.                                                  *)
LEMMA CommandSequenceType ==
  ASSUME NEW t \in Transfer, NEW commands, commands = CommandSequence(t),
         ~ \E i \in DOMAIN commands : CommandRefused(commands[i].totalLength)
  PROVE  commands \in Seq(Commands) /\ t.length <= MAX_UINT24
<1>1. t.length \in Nat /\ t.argument \in Nat /\ t.selector \in Selectors
  BY TransferType
<1>2. PICK last : last = Command(t.length, BleOpcode.ANNOUNCE_LENGTH, t.argument)
  OBVIOUS
<1>3. last.totalLength = t.length
  BY <1>2 DEF Command
<1>4. MAX_UINT24 \in Nat
  BY MaximaType
<1>5. ASSUME NEW n \in Nat, NEW op \in 0 .. 4, NEW a \in Nat, n <= MAX_UINT24
      PROVE  Command(n, op, a) \in Commands
  BY <1>4, <1>5 DEF Command, Commands
<1>6. CASE FirstCommands(t) = << >>
  <2>1. commands = <<last>>
    BY <1>2, <1>6 DEF CommandSequence
  <2>2. ~CommandRefused(last.totalLength)
    BY <2>1
  <2>3. t.length <= MAX_UINT24
    BY <2>2, <1>1, <1>3, <1>4 DEF CommandRefused
  <2>4. last \in Commands
    BY <1>1, <1>2, <1>5, <2>3 DEF BleOpcode
  <2> QED BY <2>1, <2>3, <2>4
<1>7. ASSUME NEW n \in Nat, NEW op \in 0 .. 4, NEW a \in Nat, n = t.length \/ n = 0,
             FirstCommands(t) = <<Command(n, op, a)>>
      PROVE  commands \in Seq(Commands) /\ t.length <= MAX_UINT24
  <2>0. PICK first : first = Command(n, op, a)
    OBVIOUS
  <2>1. commands = Append(<<first>>, last)
    BY <1>2, <1>7, <2>0 DEF CommandSequence
  <2>6. commands \in Seq({first, last}) /\ Len(commands) = 2 /\ commands[1] = first
        /\ commands[2] = last
    BY <2>1
  <2>2. ~CommandRefused(last.totalLength)
    BY <2>6
  <2>3. t.length <= MAX_UINT24
    BY <2>2, <1>1, <1>3, <1>4 DEF CommandRefused
  <2>4. last \in Commands
    BY <1>1, <1>2, <1>5, <2>3 DEF BleOpcode
  <2>5. first \in Commands
    BY <1>1, <1>4, <1>5, <1>7, <2>0, <2>3
  <2> QED BY <2>3, <2>4, <2>5, <2>6, SeqMonotonic
<1>8. CASE t.selector = "PHOTO_START"
  BY <1>1, <1>7, <1>8 DEF FirstCommands, BleOpcode
<1>9. CASE t.selector = "LENGTH_ONLY"
  BY <1>6, <1>9 DEF FirstCommands
<1>10. CASE t.selector = "FIRMWARE_BLOCK"
  BY <1>1, <1>7, <1>10 DEF FirstCommands, BleOpcode
<1>11. CASE t.selector = "FIRMWARE_FINALIZE"
  BY <1>1, <1>7, <1>11 DEF FirstCommands, BleOpcode
<1> QED BY <1>1, <1>8, <1>9, <1>10, <1>11 DEF Selectors

(* Frames that are sent join what was asked and the capture in the same    *)
(* order.                                                                  *)
LEMMA SendsEncoded ==
  ASSUME asked \in Seq(Commands \cup Blocks), capture \in Seq(Seq(Nat)), CaptureIsEncoded,
         NEW frames \in Seq(Commands \cup Blocks), NEW encoded \in Seq(Seq(Nat)),
         Len(encoded) = Len(frames),
         \A i \in DOMAIN frames : encoded[i] = Encoded(frames[i]),
         Sends(frames, encoded)
  PROVE  asked' \in Seq(Commands \cup Blocks) /\ capture' \in Seq(Seq(Nat)) /\ CaptureIsEncoded'
<1>1. asked' = asked \o frames /\ capture' = capture \o encoded
  BY DEF Sends
<1>0. /\ Len(asked) \in Nat /\ DOMAIN asked = 1 .. Len(asked)
      /\ Len(frames) \in Nat /\ DOMAIN frames = 1 .. Len(frames)
  BY LenProperties
<1>2. /\ asked' \in Seq(Commands \cup Blocks) /\ Len(asked') = Len(asked) + Len(frames)
      /\ \A i \in 1 .. Len(asked) + Len(frames) :
           asked'[i] = IF i <= Len(asked) THEN asked[i] ELSE frames[i - Len(asked)]
  BY <1>1, ConcatProperties
<1>3. /\ capture' \in Seq(Seq(Nat)) /\ Len(capture') = Len(capture) + Len(encoded)
      /\ \A i \in 1 .. Len(capture) + Len(encoded) :
           capture'[i] = IF i <= Len(capture) THEN capture[i] ELSE encoded[i - Len(capture)]
  <2>1. PICK c \in Seq(Seq(Nat)) : c = capture
    OBVIOUS
  <2>2. /\ c \o encoded \in Seq(Seq(Nat)) /\ Len(c \o encoded) = Len(c) + Len(encoded)
        /\ \A i \in 1 .. Len(c) + Len(encoded) :
             (c \o encoded)[i] = IF i <= Len(c) THEN c[i] ELSE encoded[i - Len(c)]
    BY ConcatProperties
  <2> QED BY <1>1, <2>1, <2>2
<1>4. Len(capture) = Len(asked) /\ Len(asked) \in Nat /\ Len(frames) \in Nat
      /\ \A i \in 1 .. Len(asked) : capture[i] = Encoded(asked[i])
  BY <1>0 DEF CaptureIsEncoded
<1>5. \A i \in 1 .. Len(frames) : encoded[i] = Encoded(frames[i])
  BY <1>0
<1>6. DOMAIN (asked') = 1 .. Len(asked')
  BY <1>2
<1>7. ASSUME NEW i \in 1 .. Len(asked') PROVE capture'[i] = Encoded(asked'[i])
  <2>0. i \in 1 .. Len(asked) + Len(frames)
    BY <1>2
  <2>1. CASE i <= Len(asked)
    <3>1. i \in 1 .. Len(asked)
      BY <2>1, <2>0, <1>4
    <3> QED BY <2>0, <2>1, <3>1, <1>2, <1>3, <1>4
  <2>2. CASE ~(i <= Len(asked))
    <3>1. i - Len(asked) \in 1 .. Len(frames)
      BY <2>2, <2>0, <1>4
    <3> QED BY <2>0, <2>2, <3>1, <1>2, <1>3, <1>4, <1>5
  <2> QED BY <2>1, <2>2
<1>8. Len(capture') = Len(asked')
  BY <1>2, <1>3, <1>4
<1> QED BY <1>2, <1>3, <1>6, <1>7, <1>8 DEF CaptureIsEncoded, Encoded, EncodeData, EncodeCommand, ArgumentBytes

(* A command leaves the data frames in place.                              *)
LEMMA InPlaceWithCommand ==
  ASSUME NEW F, NEW frames \in Seq(F), NEW f \in F, f.kind # "data",
         NEW more, more = frames \o <<f>>, InPlace(frames)
  PROVE  InPlace(more)
<1>1. DataAt(more) = DataAt(frames)
  BY AddNoData
<1>2. SUFFICES ASSUME NEW i \in DataAt(frames)
               PROVE  more[i].offset = Reached(SubSeq(more, 1, i - 1))
  BY <1>1 DEF InPlace
<1>3. i \in 1 .. Len(frames) /\ Len(frames) \in Nat
  BY DEF DataAt
<1>4. more[i] = frames[i]
  BY <1>3
<1>5. i \in 1 .. Len(frames) + 1
  BY <1>3
<1>6. SubSeq(more, 1, i - 1) = SubSeq(frames, 1, i - 1)
  BY <1>5, FrontIsKept
<1> QED BY <1>4, <1>6 DEF InPlace

(* A data frame that starts where they end is in place too.                *)
LEMMA InPlaceWithBlock ==
  ASSUME NEW F, NEW frames \in Seq(F), NEW d \in F, d.kind = "data", d.offset = Reached(frames),
         NEW more, more = frames \o <<d>>, InPlace(frames)
  PROVE  InPlace(more)
<1>1. DataAt(more) = DataAt(frames) \cup {Len(frames) + 1}
  BY AddBlock
<1>2. SUFFICES ASSUME NEW i \in DataAt(frames) \cup {Len(frames) + 1}
               PROVE  more[i].offset = Reached(SubSeq(more, 1, i - 1))
  BY <1>1 DEF InPlace
<1>3. Len(frames) \in Nat /\ DataAt(frames) \subseteq 1 .. Len(frames)
  BY DEF DataAt
<1>4. i \in 1 .. Len(frames) + 1
  BY <1>3
<1>5. SubSeq(more, 1, i - 1) = SubSeq(frames, 1, i - 1)
  BY <1>4, FrontIsKept
<1>6. CASE i \in DataAt(frames)
  <2>1. more[i] = frames[i]
    BY <1>3, <1>6
  <2> QED BY <2>1, <1>5, <1>6 DEF InPlace
<1>7. CASE i = Len(frames) + 1
  <2>1. more[i] = d
    BY <1>3, <1>7
  <2>2. i - 1 = Len(frames)
    BY <1>3, <1>7
  <2>3. SubSeq(frames, 1, i - 1) = frames
    BY <2>2, SubSeqFull
  <2> QED BY <2>1, <2>3, <1>5
<1> QED BY <1>6, <1>7

(* A slice of the payload: it starts at the cursor, ends at the next or at *)
(* the end of the payload, and is not empty.                               *)
LEMMA ChunkType ==
  ASSUME NEW t \in Transfer, NEW from \in Nat, t.chunkSize > 0, from < t.length,
         NEW d, d = Chunk(t, from)
  PROVE  /\ d = [kind |-> "data", offset |-> from, payload |-> d.payload]
         /\ d.payload \in Seq(Nat)
         /\ Len(d.payload) = Smaller(from + t.chunkSize, t.length) - from
         /\ Len(d.payload) > 0
<1>1. t.chunkSize \in Nat /\ t.length \in Nat
  BY TransferType
<1>2. PICK n \in Nat : n = Smaller(from + t.chunkSize, t.length) - from /\ n > 0
  BY <1>1 DEF Smaller
<1>3. PICK p : p = [i \in 1 .. n |-> Byte(from + i)]
  OBVIOUS
<1>4. \A i \in 1 .. n : Byte(from + i) \in Nat
  BY ByteType, BaseType
<1>5. p \in Seq(Nat) /\ Len(p) = n
  BY <1>3, <1>4
<1>6. d = [kind |-> "data", offset |-> from, payload |-> p]
  BY <1>2, <1>3 DEF Chunk, Payload, Data
<1> QED BY <1>2, <1>5, <1>6

(* One frame that is sent.                                                 *)
LEMMA SendsOneFrame ==
  ASSUME asked \in Seq(Commands \cup Blocks), capture \in Seq(Seq(Nat)), CaptureIsEncoded,
         NEW f \in Commands \cup Blocks, Sends(<<f>>, <<Encoded(f)>>)
  PROVE  /\ asked' \in Seq(Commands \cup Blocks) /\ capture' \in Seq(Seq(Nat))
         /\ CaptureIsEncoded'
         /\ asked' = asked \o <<f>>
<1>1. PICK e \in Seq(Nat) : e = Encoded(f)
  BY EncodedType
<1>2. <<f>> \in Seq(Commands \cup Blocks) /\ Len(<<f>>) = 1 /\ <<f>>[1] = f
      /\ <<e>> \in Seq(Seq(Nat)) /\ Len(<<e>>) = 1 /\ <<e>>[1] = e
  OBVIOUS
<1>3. \A i \in DOMAIN <<f>> : <<e>>[i] = Encoded(<<f>>[i])
  BY <1>1, <1>2
<1>4. Sends(<<f>>, <<e>>)
  BY <1>1
<1>5. /\ asked' \in Seq(Commands \cup Blocks) /\ capture' \in Seq(Seq(Nat))
      /\ CaptureIsEncoded'
  BY <1>2, <1>3, <1>4, SendsEncoded
<1> QED BY <1>4, <1>5 DEF Sends

(* bleCommandSequence: the commands go out, or the first that is refused   *)
(* ends the transfer before any did.                                       *)
LEMMA CommandsStep ==
  ASSUME BleInv, SendCommands
  PROVE  BleInv'
<1> USE DEF BleInv
<1>1. /\ transfer \in Transfer /\ step = "command" /\ cursor = 0 /\ asked = << >>
      /\ transfer' = transfer /\ cursor' = cursor
  BY DEF BleTypeOK, CursorIsInStep, SendCommands
<1>2. PICK commands : commands = CommandSequence(transfer)
  OBVIOUS
<1>3. CASE \E i \in DOMAIN commands : CommandRefused(commands[i].totalLength)
  <2>1. step' = "thrown" /\ asked' = asked /\ capture' = capture
    BY <1>2, <1>3 DEF SendCommands
  <2>2. DataAt(asked') = {}
    BY <1>1, <2>1 DEF DataAt
  <2>3. BleTypeOK'
    BY <1>1, <2>1 DEF BleTypeOK, Transfer
  <2>4. CaptureIsEncoded'
    BY <2>1 DEF CaptureIsEncoded, Encoded, EncodeData, EncodeCommand, ArgumentBytes
  <2>5. CursorIsInStep'
    BY <1>1, <2>1, <2>2 DEF CursorIsInStep
  <2>6. TransferIsWhole'
    BY <2>1, <2>2 DEF TransferIsWhole
  <2> QED BY <2>3, <2>4, <2>5, <2>6
<1>4. CASE ~ \E i \in DOMAIN commands : CommandRefused(commands[i].totalLength)
  <2>1. commands \in Seq(Commands) /\ transfer.length <= MAX_UINT24
    BY <1>1, <1>2, <1>4, CommandSequenceType
  <2>2. PICK encoded : encoded = [i \in DOMAIN commands |-> EncodeCommand(commands[i])]
    OBVIOUS
  <2>3. step' = AfterCommands(transfer) /\ Sends(commands, encoded)
    BY <1>2, <1>4, <2>2 DEF SendCommands
  <2>4. commands \in Seq(Commands \cup Blocks) /\ Len(commands) \in Nat
        /\ DOMAIN commands = 1 .. Len(commands)
        /\ \A i \in 1 .. Len(commands) : commands[i] \in Commands
    BY <2>1, SeqMonotonic
  <2>5. ASSUME NEW i \in 1 .. Len(commands)
        PROVE  EncodeCommand(commands[i]) \in Seq(Nat) /\ commands[i].kind = "command"
               /\ EncodeCommand(commands[i]) = Encoded(commands[i])
    <3>1. commands[i] \in Commands
      BY <2>4
    <3>2. commands[i].kind = "command"
      BY <3>1 DEF Commands
    <3> QED BY <3>1, <3>2, FrameOfCommand DEF Encoded
  <2>6. encoded \in Seq(Seq(Nat)) /\ Len(encoded) = Len(commands)
        /\ \A i \in DOMAIN commands : encoded[i] = Encoded(commands[i])
    BY <2>2, <2>4, <2>5
  <2>7. asked' \in Seq(Commands \cup Blocks) /\ capture' \in Seq(Seq(Nat)) /\ CaptureIsEncoded'
    BY <2>3, <2>4, <2>6, SendsEncoded DEF BleTypeOK
  <2>8. asked' = commands
    <3>1. asked' = << >> \o commands
      BY <1>1, <2>3 DEF Sends
    <3> QED BY <3>1, <2>4, ConcatEmptySeq
  <2>9. DataAt(asked') = {}
    BY <2>8, <2>4, <2>5 DEF DataAt
  <2>10. step' \in {"data", "done"}
    BY <2>3 DEF AfterCommands
  <2>11. BleTypeOK'
    BY <1>1, <2>7, <2>10 DEF BleTypeOK, Transfer
  <2>12. CursorIsInStep'
    <3>1. Reached(asked') = 0
      BY <2>9 DEF Reached
    <3>2. Smaller(cursor', transfer'.length) = 0
      BY <1>1, TransferType DEF Smaller
    <3> QED BY <3>1, <3>2, <1>1, <2>1, <2>9, <2>10 DEF CursorIsInStep, Smaller, Reached, DataAt
  <2>13. TransferIsWhole'
    <3>1. step' = "done" => AfterCommands(transfer') # "data"
      BY <2>3, <1>1
    <3> QED BY <3>1, <2>9, <2>10 DEF TransferIsWhole
  <2> QED BY <2>7, <2>11, <2>12, <2>13
<1> QED BY <1>3, <1>4

(* bleCancelFrames: a CANCEL is no data.                                   *)
LEMMA CancelStep ==
  ASSUME BleInv, SendCancel
  PROVE  BleInv'
<1> USE DEF BleInv
<1>1. /\ transfer \in Transfer /\ step = "data" /\ step' = "cancelled"
      /\ transfer' = transfer /\ cursor' = cursor
      /\ asked \in Seq(Commands \cup Blocks) /\ capture \in Seq(Seq(Nat))
  BY DEF BleTypeOK, SendCancel
<1>2. PICK cancel : cancel = Command(0, BleOpcode.CANCEL, 0)
  OBVIOUS
<1>3. cancel \in Commands /\ cancel.kind # "data"
  BY <1>2, MaximaType DEF Command, Commands, BleOpcode
<1>4. Sends(<<cancel>>, <<Encoded(cancel)>>)
  BY <1>2, <1>3 DEF SendCancel, Encoded
<1>5. /\ asked' \in Seq(Commands \cup Blocks) /\ capture' \in Seq(Seq(Nat)) /\ CaptureIsEncoded'
      /\ asked' = asked \o <<cancel>>
  BY <1>1, <1>3, <1>4, SendsOneFrame
<1>6. DataAt(asked') = DataAt(asked) /\ Reached(asked') = Reached(asked)
  <2>1. PICK F, frames, more : F = Commands \cup Blocks /\ frames = asked /\ more = asked'
    OBVIOUS
  <2>2. frames \in Seq(F) /\ cancel \in F /\ more = frames \o <<cancel>>
    BY <2>1, <1>1, <1>3, <1>5
  <2>3. DataAt(more) = DataAt(frames) /\ Reached(more) = Reached(frames)
    BY <2>2, <1>3, AddNoData
  <2> QED BY <2>1, <2>3
<1>7. InPlace(asked')
  <2>1. PICK F, frames, more : F = Commands \cup Blocks /\ frames = asked /\ more = asked'
    OBVIOUS
  <2>2. frames \in Seq(F) /\ cancel \in F /\ more = frames \o <<cancel>>
    BY <2>1, <1>1, <1>3, <1>5
  <2>3. InPlace(frames)
    BY <2>1 DEF TransferIsWhole, InPlace
  <2>4. InPlace(more)
    BY <2>2, <2>3, <1>3, InPlaceWithCommand
  <2> QED BY <2>1, <2>4
<1>8. BleTypeOK'
  BY <1>1, <1>5 DEF BleTypeOK, Transfer
<1>9. CursorIsInStep'
  BY <1>1, <1>6 DEF CursorIsInStep, Smaller
<1>10. TransferIsWhole'
  BY <1>1, <1>7 DEF TransferIsWhole, InPlace
<1> QED BY <1>5, <1>8, <1>9, <1>10

(* One turn of the loop of bleDataFrames: an accepted slice goes on where  *)
(* the data frames end, and one can be refused only before the first.      *)
LEMMA ChunkStep ==
  ASSUME BleInv, SendChunk
  PROVE  BleInv'
<1> USE DEF BleInv
<1>1. /\ transfer \in Transfer /\ step = "data" /\ cursor \in Nat
      /\ transfer' = transfer
      /\ asked \in Seq(Commands \cup Blocks) /\ capture \in Seq(Seq(Nat))
  BY DEF BleTypeOK, SendChunk
<1>2. PICK n \in Nat, size \in Nat, from \in Nat :
        n = transfer.length /\ size = transfer.chunkSize /\ from = cursor
  BY <1>1, TransferType
<1>3. /\ n <= MAX_UINT24 /\ Reached(asked) = Smaller(from, n)
      /\ from > 0 => size > 0 /\ Smaller(size, n) <= MAX_UINT16
      /\ from = 0 => DataAt(asked) = {}
  BY <1>1, <1>2 DEF CursorIsInStep
<1>4. PICK d : d = Chunk(transfer, from)
  OBVIOUS
<1>5. size > 0 /\ from < n =>
        /\ d = [kind |-> "data", offset |-> from, payload |-> d.payload]
        /\ d.payload \in Seq(Nat) /\ Len(d.payload) = Smaller(from + size, n) - from
        /\ Len(d.payload) > 0
  BY <1>1, <1>2, <1>4, ChunkType
<1>6. MAX_UINT16 \in Nat /\ MAX_UINT24 \in Nat
  BY MaximaType
<1>7. CASE UNCHANGED <<cursor, asked, capture>> /\ step' = "done" /\ size > 0 /\ from >= n
  <2>1. Reached(asked) = n
    BY <1>3, <1>7 DEF Smaller
  <2>2. BleTypeOK'
    BY <1>1, <1>7 DEF BleTypeOK, Transfer
  <2>3. CaptureIsEncoded'
    BY <1>7 DEF CaptureIsEncoded, Encoded, EncodeData, EncodeCommand, ArgumentBytes
  <2>4. CursorIsInStep'
    BY <1>1, <1>7 DEF CursorIsInStep, Smaller
  <2>5. TransferIsWhole'
    BY <1>1, <1>2, <1>7, <2>1 DEF TransferIsWhole
  <2> QED BY <2>2, <2>3, <2>4, <2>5
<1>8. CASE /\ size = 0 \/ (from < n /\ DataRefused(d))
           /\ UNCHANGED <<cursor, asked, capture>> /\ step' = "thrown"
  <2>1. from = 0
    <3>1. CASE size = 0
      BY <3>1, <1>3
    <3>2. CASE size > 0 /\ from < n /\ DataRefused(d) /\ from > 0
      <4>1. d.offset = from /\ d.payload # << >>
        BY <3>2, <1>5
      <4>2. Len(d.payload) > MAX_UINT16
        BY <3>2, <4>1, <1>3, <1>6 DEF DataRefused
      <4>3. Smaller(from + size, n) - from <= Smaller(size, n)
        BY <3>2 DEF Smaller
      <4>4. Smaller(from + size, n) \in Nat /\ Smaller(size, n) \in Nat
        BY DEF Smaller
      <4> QED BY <3>2, <4>2, <4>3, <4>4, <1>3, <1>5, <1>6
    <3> QED BY <3>1, <3>2, <1>8
  <2>2. DataAt(asked') = {}
    BY <2>1, <1>3, <1>8 DEF DataAt
  <2>3. BleTypeOK'
    BY <1>1, <1>8 DEF BleTypeOK, Transfer
  <2>4. CaptureIsEncoded'
    BY <1>8 DEF CaptureIsEncoded, Encoded, EncodeData, EncodeCommand, ArgumentBytes
  <2>5. CursorIsInStep'
    BY <2>1, <2>2, <1>2, <1>8 DEF CursorIsInStep
  <2>6. TransferIsWhole'
    BY <2>2, <1>8 DEF TransferIsWhole
  <2> QED BY <2>3, <2>4, <2>5, <2>6
<1>9. CASE /\ size > 0 /\ from < n /\ ~DataRefused(d)
           /\ Sends(<<d>>, <<EncodeData(d)>>)
           /\ cursor' = from + size /\ step' = step
  <2>1. d.kind = "data" /\ d.offset = from
    BY <1>5, <1>9
  <2>2. Len(d.payload) \in 1 .. MAX_UINT16
    BY <1>5, <1>6, <1>9, LenProperties DEF DataRefused
  <2>3. d \in Blocks
    BY <1>3, <1>5, <1>6, <1>9, <2>2 DEF Blocks
  <2>4. Sends(<<d>>, <<Encoded(d)>>)
    BY <1>9, <2>1 DEF Encoded
  <2>5. /\ asked' \in Seq(Commands \cup Blocks) /\ capture' \in Seq(Seq(Nat)) /\ CaptureIsEncoded'
        /\ asked' = asked \o <<d>>
    BY <1>1, <2>3, <2>4, SendsOneFrame
  <2>6. Reached(asked) = from
    BY <1>3, <1>9 DEF Smaller
  <2>7. Reached(asked') = Smaller(from + size, n)
    <3>1. PICK F, frames, more : F = Commands \cup Blocks /\ frames = asked /\ more = asked'
      OBVIOUS
    <3>4. frames \in Seq(F) /\ d \in F /\ more = frames \o <<d>>
      BY <3>1, <1>1, <2>3, <2>5
    <3>2. Reached(more) = d.offset + Len(d.payload)
      BY <3>4, <2>1, AddBlock
    <3>3. Smaller(from + size, n) \in Nat
      BY DEF Smaller
    <3> QED BY <3>1, <3>2, <3>3, <2>1, <1>5, <1>9
  <2>8. InPlace(asked')
    <3>1. PICK F, frames, more : F = Commands \cup Blocks /\ frames = asked /\ more = asked'
      OBVIOUS
    <3>4. frames \in Seq(F) /\ d \in F /\ more = frames \o <<d>>
      BY <3>1, <1>1, <2>3, <2>5
    <3>2. InPlace(frames) /\ d.offset = Reached(frames)
      BY <3>1, <2>1, <2>6 DEF TransferIsWhole, InPlace
    <3>3. InPlace(more)
      BY <3>2, <3>4, <2>1, InPlaceWithBlock
    <3> QED BY <3>1, <3>3
  <2>9. Smaller(size, n) <= MAX_UINT16
    <3>1. CASE from > 0
      BY <3>1, <1>3
    <3>2. CASE from = 0
      <4>1. Len(d.payload) = Smaller(size, n)
        BY <3>2, <1>5, <1>9 DEF Smaller
      <4> QED BY <4>1, <2>2, <1>6
    <3> QED BY <3>1, <3>2
  <2>10. BleTypeOK'
    BY <1>1, <1>9, <2>5 DEF BleTypeOK, Transfer
  <2>11. CursorIsInStep'
    <3>1. cursor' > 0 /\ cursor' # 0
      BY <1>9
    <3> QED BY <3>1, <1>1, <1>2, <1>3, <1>9, <2>7, <2>9 DEF CursorIsInStep
  <2>12. TransferIsWhole'
    BY <1>1, <1>9, <2>8 DEF TransferIsWhole, InPlace
  <2> QED BY <2>5, <2>10, <2>11, <2>12
<1> QED
  BY <1>1, <1>2, <1>4, <1>7, <1>8, <1>9 DEF SendChunk

(* BleInv holds before anything is sent.                                   *)
LEMMA BleStart ==
  ASSUME BleInit
  PROVE  BleInv
<1>1. transfer \in Transfer /\ step = "command" /\ cursor = 0 /\ asked = << >> /\ capture = << >>
  BY DEF BleInit
<1>2. DataAt(asked) = {}
  BY <1>1 DEF DataAt
<1>3. BleTypeOK
  BY <1>1 DEF BleTypeOK
<1>4. CaptureIsEncoded
  BY <1>1 DEF CaptureIsEncoded
<1>5. CursorIsInStep
  BY <1>1, <1>2 DEF CursorIsInStep
<1>6. TransferIsWhole
  BY <1>1, <1>2 DEF TransferIsWhole
<1> QED BY <1>3, <1>4, <1>5, <1>6 DEF BleInv

(* BleInv speaks of the BLE part alone.                                    *)
LEMMA BleUnchanged ==
  ASSUME BleInv, UNCHANGED bleVars
  PROVE  BleInv'
<1> USE DEF BleInv, bleVars
<1>1. BleTypeOK'
  BY DEF BleTypeOK, Transfer
<1>2. CaptureIsEncoded'
  BY DEF CaptureIsEncoded, Encoded, EncodeData, EncodeCommand, ArgumentBytes
<1>3. CursorIsInStep'
  BY DEF CursorIsInStep
<1>4. TransferIsWhole'
  BY DEF TransferIsWhole
<1> QED BY <1>1, <1>2, <1>3, <1>4

(* The properties of the BLE frames follow.                                *)
LEMMA BleReads ==
  ASSUME BleInv
  PROVE  FramesReadBack /\ BrokenFramesAreRefused /\ TransferIsWhole
<1>1. /\ asked \in Seq(Commands \cup Blocks) /\ capture \in Seq(Seq(Nat))
      /\ Len(capture) = Len(asked) /\ DOMAIN asked = 1 .. Len(asked)
      /\ \A i \in 1 .. Len(asked) : capture[i] = Encoded(asked[i]) /\ asked[i] \in Commands \cup Blocks
  <2>1. /\ asked \in Seq(Commands \cup Blocks) /\ capture \in Seq(Seq(Nat))
        /\ Len(capture) = Len(asked)
        /\ \A i \in DOMAIN asked : capture[i] = Encoded(asked[i])
    BY DEF BleInv, BleTypeOK, CaptureIsEncoded
  <2>2. DOMAIN asked = 1 .. Len(asked)
    BY <2>1
  <2>3. \A i \in 1 .. Len(asked) : asked[i] \in Commands \cup Blocks
    BY <2>1, ElementOfSeq
  <2> QED BY <2>1, <2>2, <2>3
<1>2. DOMAIN capture = 1 .. Len(asked)
  BY <1>1
<1>3. ASSUME NEW f \in Commands \cup Blocks
      PROVE  /\ Decode(Encoded(f)) = Kept(f)
             /\ \A n \in 0 .. Len(Encoded(f)) - 1 : Decode(SubSeq(Encoded(f), 1, n)) = Invalid
  <2>1. CASE f \in Commands
    <3>1. Encoded(f) = EncodeCommand(f)
      BY <2>1 DEF Encoded, Commands
    <3> QED BY <2>1, <3>1, CommandReadsBack, BrokenCommand
  <2>2. CASE f \in Blocks
    <3>1. Encoded(f) = EncodeData(f)
      BY <2>2 DEF Encoded, Blocks
    <3> QED BY <2>2, <3>1, BlockReadsBack, BrokenBlock
  <2> QED BY <2>1, <2>2
<1>4. FramesReadBack
  BY <1>1, <1>2, <1>3 DEF FramesReadBack
<1>5. BrokenFramesAreRefused
  BY <1>1, <1>2, <1>3 DEF BrokenFramesAreRefused
<1> QED BY <1>4, <1>5 DEF BleInv

-----------------------------------------------------------------------------
(* The function by which FlattenSeq is defined exists, whatever is         *)
(* flattened.                                                              *)
LEMMA FlattenExists ==
  ASSUME NEW T, NEW seqs \in Seq(Seq(T))
  PROVE  \E g \in [1 .. Len(seqs) -> Seq(T)] :
           g = [i \in 1 .. Len(seqs) |-> IF i = 1 THEN seqs[i] ELSE g[i - 1] \o seqs[i]]
<1> DEFINE At(g, i) == IF i = 1 THEN seqs[i] ELSE g[i - 1] \o seqs[i]
           Has(n) == n <= Len(seqs) =>
                       \E g \in [1 .. n -> Seq(T)] : \A i \in 1 .. n : g[i] = At(g, i)
           S == {n \in Nat : Has(n)}
<1>0. Len(seqs) \in Nat /\ \A i \in 1 .. Len(seqs) : seqs[i] \in Seq(T)
  OBVIOUS
<1>1. Has(0)
  <2>1. [i \in 1 .. 0 |-> << >>] \in [1 .. 0 -> Seq(T)] /\ 1 .. 0 = {}
    OBVIOUS
  <2> QED BY <2>1
<1>2. ASSUME NEW n \in Nat, Has(n) PROVE Has(n + 1)
  <2> SUFFICES ASSUME n + 1 <= Len(seqs)
               PROVE  \E g \in [1 .. n + 1 -> Seq(T)] : \A i \in 1 .. n + 1 : g[i] = At(g, i)
    OBVIOUS
  <2>1. PICK h \in [1 .. n -> Seq(T)] : \A i \in 1 .. n : h[i] = At(h, i)
    <3>1. n <= Len(seqs)
      BY <1>0
    <3> QED BY <3>1, <1>2
  <2>2. PICK g : g = [i \in 1 .. n + 1 |-> IF i = n + 1 THEN At(h, n + 1) ELSE h[i]]
    OBVIOUS
  <2>3. At(h, n + 1) \in Seq(T)
    <3>1. seqs[n + 1] \in Seq(T)
      BY <1>0
    <3>2. n > 0 => h[n] \in Seq(T)
      OBVIOUS
    <3> QED BY <3>1, <3>2, ConcatProperties
  <2>4. g \in [1 .. n + 1 -> Seq(T)]
    BY <2>2, <2>3
  <2>5. ASSUME NEW i \in 1 .. n + 1 PROVE g[i] = At(g, i)
    <3>1. CASE i = n + 1
      <4>1. i > 1 => g[i - 1] = h[i - 1]
        BY <2>2, <3>1
      <4> QED BY <4>1, <2>2, <3>1
    <3>2. CASE i # n + 1
      <4>1. i \in 1 .. n /\ g[i] = h[i]
        BY <2>2, <3>2
      <4>2. h[i] = At(h, i)
        BY <4>1, <2>1
      <4>3. i > 1 => g[i - 1] = h[i - 1]
        BY <2>2, <4>1
      <4> QED BY <4>1, <4>2, <4>3
    <3> QED BY <3>1, <3>2
  <2> QED BY <2>4, <2>5
<1> HIDE DEF Has
<1>3. Len(seqs) \in S
  <2>1. 0 \in S
    BY <1>1
  <2>2. \A n \in Nat : n \in S => n + 1 \in S
    BY <1>2
  <2> HIDE DEF S
  <2> QED BY <1>0, <2>1, <2>2, Induction
<1>4. Has(Len(seqs))
  BY <1>3
<1>5. PICK g \in [1 .. Len(seqs) -> Seq(T)] : \A i \in 1 .. Len(seqs) : g[i] = At(g, i)
  BY <1>0, <1>4 DEF Has
<1>6. g = [i \in 1 .. Len(seqs) |-> At(g, i)]
  BY <1>5
<1> QED BY <1>6

(* So FlattenSeq is what that function ends with.                          *)
LEMMA FlattenDef ==
  ASSUME NEW T, NEW seqs \in Seq(Seq(T)), Len(seqs) # 0
  PROVE  \E g : /\ g = [i \in 1 .. Len(seqs) |-> IF i = 1 THEN seqs[i] ELSE g[i - 1] \o seqs[i]]
                /\ FlattenSeq(seqs) = g[Len(seqs)]
<1>1. \E g : g = [i \in 1 .. Len(seqs) |-> IF i = 1 THEN seqs[i] ELSE g[i - 1] \o seqs[i]]
  <2>1. PICK g \in [1 .. Len(seqs) -> Seq(T)] :
          g = [i \in 1 .. Len(seqs) |-> IF i = 1 THEN seqs[i] ELSE g[i - 1] \o seqs[i]]
    BY FlattenExists
  <2> QED BY <2>1
<1> QED BY <1>1 DEF FlattenSeq

(* Nothing to flatten.                                                     *)
LEMMA FlattenEmpty ==
  ASSUME NEW seqs, Len(seqs) = 0
  PROVE  FlattenSeq(seqs) = seqs
  BY DEF FlattenSeq

(* FlattenSeq step by step.                                                *)
LEMMA FlattenStages ==
  ASSUME NEW T, NEW seqs \in Seq(Seq(T)), Len(seqs) # 0
  PROVE  \E g \in [1 .. Len(seqs) -> Seq(T)] :
            /\ g[1] = seqs[1]
            /\ \A i \in 2 .. Len(seqs) : g[i] = g[i - 1] \o seqs[i]
            /\ FlattenSeq(seqs) = g[Len(seqs)]
<1>0. Len(seqs) \in Nat /\ \A i \in 1 .. Len(seqs) : seqs[i] \in Seq(T)
  OBVIOUS
<1>1. PICK g : /\ g = [i \in 1 .. Len(seqs) |-> IF i = 1 THEN seqs[i] ELSE g[i - 1] \o seqs[i]]
               /\ FlattenSeq(seqs) = g[Len(seqs)]
  BY FlattenDef
<1>2. /\ \A i \in 1 .. Len(seqs) : g[i] = IF i = 1 THEN seqs[i] ELSE g[i - 1] \o seqs[i]
      /\ DOMAIN g = 1 .. Len(seqs) /\ g = [i \in 1 .. Len(seqs) |-> g[i]]
  BY <1>1
<1>3. g[1] = seqs[1] /\ \A i \in 2 .. Len(seqs) : g[i] = g[i - 1] \o seqs[i]
  <2>1. 1 \in 1 .. Len(seqs)
    BY <1>0
  <2>2. ASSUME NEW i \in 2 .. Len(seqs) PROVE g[i] = g[i - 1] \o seqs[i]
    <3>1. i \in 1 .. Len(seqs) /\ i # 1
      BY <1>0
    <3> QED BY <3>1, <1>2
  <2> QED BY <2>1, <2>2, <1>2
<1> DEFINE S == {n \in Nat : n + 1 <= Len(seqs) => g[n + 1] \in Seq(T)}
<1>4. 0 \in S
  BY <1>0, <1>3
<1>5. ASSUME NEW n \in Nat, n \in S PROVE n + 1 \in S
  <2> SUFFICES ASSUME n + 2 <= Len(seqs) PROVE g[n + 2] \in Seq(T)
    OBVIOUS
  <2>1. g[n + 1] \in Seq(T)
    BY <1>0, <1>5
  <2>2. g[n + 2] = g[n + 1] \o seqs[n + 2] /\ seqs[n + 2] \in Seq(T)
    <3>1. PICK k \in 2 .. Len(seqs) : k = n + 2 /\ k - 1 = n + 1 /\ k \in 1 .. Len(seqs)
      BY <1>0
    <3>2. g[k] = g[k - 1] \o seqs[k] /\ seqs[k] \in Seq(T)
      BY <3>1, <1>0, <1>3
    <3> QED BY <3>1, <3>2
  <2> QED BY <2>1, <2>2, ConcatProperties
<1> HIDE DEF S
<1>6. \A n \in Nat : n \in S
  BY <1>4, <1>5, Induction
<1>7. ASSUME NEW i \in 1 .. Len(seqs) PROVE g[i] \in Seq(T)
  <2>1. PICK n \in Nat : n + 1 = i
    <3>1. i - 1 \in Nat /\ (i - 1) + 1 = i
      BY <1>0
    <3> QED BY <3>1
  <2>2. n \in S
    BY <1>6
  <2>3. n + 1 <= Len(seqs) => g[n + 1] \in Seq(T)
    BY <2>2 DEF S
  <2> QED BY <2>1, <2>3, <1>0
<1>8. g \in [1 .. Len(seqs) -> Seq(T)]
  BY <1>2, <1>7
<1> QED BY <1>1, <1>3, <1>8

(* To flatten one sequence more is to append it.                           *)
LEMMA FlattenAppend ==
  ASSUME NEW T, NEW seqs \in Seq(Seq(T)), NEW s \in Seq(T)
  PROVE  /\ FlattenSeq(seqs) \in Seq(T)
         /\ FlattenSeq(Append(seqs, s)) = FlattenSeq(seqs) \o s
<1>00. PICK more : more = Append(seqs, s)
  OBVIOUS
<1>0. Len(seqs) \in Nat /\ \A i \in 1 .. Len(seqs) : seqs[i] \in Seq(T)
  OBVIOUS
<1>1. /\ more \in Seq(Seq(T)) /\ Len(more) = Len(seqs) + 1 /\ more[Len(seqs) + 1] = s
      /\ \A i \in 1 .. Len(seqs) : more[i] = seqs[i]
  BY <1>00, AppendProperties
<1>2. PICK h \in [1 .. Len(more) -> Seq(T)] :
        /\ h[1] = more[1]
        /\ \A i \in 2 .. Len(more) : h[i] = h[i - 1] \o more[i]
        /\ FlattenSeq(more) = h[Len(more)]
  <2>1. Len(more) # 0
    BY <1>0, <1>1
  <2> QED BY <2>1, <1>1, FlattenStages
<1>3. CASE Len(seqs) = 0
  <2>1. seqs = << >> /\ FlattenSeq(seqs) = << >>
    BY <1>3, FlattenEmpty, EmptySeq
  <2>2. FlattenSeq(more) = s
    BY <1>1, <1>2, <1>3
  <2> QED BY <1>00, <2>1, <2>2, EmptySeq, ConcatEmptySeq
<1>4. CASE Len(seqs) # 0
  <2>1. PICK g \in [1 .. Len(seqs) -> Seq(T)] :
          /\ g[1] = seqs[1]
          /\ \A i \in 2 .. Len(seqs) : g[i] = g[i - 1] \o seqs[i]
          /\ FlattenSeq(seqs) = g[Len(seqs)]
    BY <1>4, FlattenStages
  <2> DEFINE S == {n \in Nat : n + 1 <= Len(seqs) => g[n + 1] = h[n + 1]}
  <2>2. 0 \in S
    BY <1>0, <1>1, <1>2, <2>1
  <2>3. ASSUME NEW n \in Nat, n \in S PROVE n + 1 \in S
    <3> SUFFICES ASSUME n + 2 <= Len(seqs) PROVE g[n + 2] = h[n + 2]
      OBVIOUS
    <3>1. g[n + 1] = h[n + 1]
      BY <1>0, <2>3
    <3>2. n + 2 \in 2 .. Len(seqs) /\ n + 2 \in 2 .. Len(more) /\ (n + 2) - 1 = n + 1
      BY <1>0, <1>1
    <3>3. more[n + 2] = seqs[n + 2]
      BY <3>2, <1>0, <1>1
    <3> QED BY <3>1, <3>2, <3>3, <1>2, <2>1
  <2> HIDE DEF S
  <2>4. \A n \in Nat : n \in S
    BY <2>2, <2>3, Induction
  <2>5. g[Len(seqs)] = h[Len(seqs)]
    <3>1. PICK n \in Nat : n + 1 = Len(seqs)
      <4>1. Len(seqs) - 1 \in Nat /\ (Len(seqs) - 1) + 1 = Len(seqs)
        BY <1>0, <1>4
      <4> QED BY <4>1
    <3>2. n \in S
      BY <2>4
    <3>3. n + 1 <= Len(seqs) => g[n + 1] = h[n + 1]
      BY <3>2 DEF S
    <3> QED BY <3>1, <3>3, <1>0
  <2>6. h[Len(more)] = h[Len(seqs)] \o s
    <3>1. Len(more) \in 2 .. Len(more) /\ Len(more) - 1 = Len(seqs)
      BY <1>0, <1>1, <1>4
    <3> QED BY <3>1, <1>1, <1>2
  <2>7. g[Len(seqs)] \in Seq(T)
    <3>1. Len(seqs) \in 1 .. Len(seqs)
      BY <1>0, <1>4
    <3> QED BY <3>1
  <2> QED BY <1>00, <1>2, <2>1, <2>5, <2>6, <2>7
<1> QED BY <1>3, <1>4

(* A function on an initial range is a sequence.                           *)
LEMMA FunctionIsSeq ==
  ASSUME NEW T, NEW n \in Nat, NEW s \in [1 .. n -> T]
  PROVE  s \in Seq(T) /\ Len(s) = n
  OBVIOUS

(* The header of either framing, and where its length is.                  *)
LEMMA HeaderType ==
  ASSUME decoder \in {"frame", "adb"}
  PROVE  /\ HeaderWords \in {2, 6} /\ LengthWord \in 2 .. HeaderWords
         /\ LengthWord \in {2, 4}
  BY DEF HeaderWords, LengthWord

(* An encoded frame: where its opcode, its length and its payload are.     *)
LEMMA EncodedFrame ==
  ASSUME decoder \in {"frame", "adb"}, NEW f \in Frames, NEW e, e = Encode(f)
  PROVE  /\ f \in Frame /\ f.opcode \in Nat /\ f.payload \in Seq(Nat)
         /\ f = [opcode |-> f.opcode, payload |-> f.payload]
         /\ Len(f.payload) \in Nat /\ Len(f.payload) < SignBit
         /\ e \in Seq(Nat) /\ Len(e) = HeaderWords + Len(f.payload)
         /\ e[1] = f.opcode /\ e[LengthWord] = Len(f.payload)
         /\ \A i \in 1 .. Len(f.payload) : e[HeaderWords + i] = f.payload[i]
<1>1. PICK h \in {2, 6}, l \in {2, 4} : h = HeaderWords /\ l = LengthWord /\ l <= h
  BY HeaderType
<1>2. f \in Frame
  BY DecoderAssumption
<1>3. PICK op \in Nat, p \in Seq(Nat), n \in Nat : op = f.opcode /\ p = f.payload /\ n = Len(p)
  BY <1>2 DEF Frame
<1>4. f = [opcode |-> f.opcode, payload |-> f.payload]
  BY <1>2 DEF Frame
<1>5. n < SignBit
  BY <1>3, DecoderAssumption
<1>6. PICK header : header = [i \in 1 .. h |-> IF i = l THEN n ELSE op]
  OBVIOUS
<1>7. header \in Seq(Nat) /\ Len(header) = h /\ header[1] = op /\ header[l] = n
  BY <1>1, <1>6
<1>8. e = header \o p
  BY <1>1, <1>3, <1>6 DEF Encode
<1>9. /\ e \in Seq(Nat) /\ Len(e) = Len(header) + Len(p)
      /\ \A i \in 1 .. Len(header) + Len(p) :
           e[i] = IF i <= Len(header) THEN header[i] ELSE p[i - Len(header)]
  BY <1>7, <1>8, ConcatProperties
<1>10. e[1] = op /\ e[l] = n
  <2>1. 1 \in 1 .. h + n /\ l \in 1 .. h + n /\ 1 <= h /\ l <= h
    BY <1>1
  <2> QED BY <2>1, <1>3, <1>7, <1>9
<1>11. ASSUME NEW i \in 1 .. n PROVE e[h + i] = p[i]
  <2>1. h + i \in 1 .. h + n /\ ~(h + i <= h) /\ (h + i) - h = i
    OBVIOUS
  <2> QED BY <2>1, <1>3, <1>7, <1>9
<1> QED BY <1>1, <1>2, <1>3, <1>4, <1>5, <1>7, <1>9, <1>10, <1>11

(* No frames, no words.                                                    *)
LEMMA NoWords == Words(<< >>) = << >>
<1>1. [i \in DOMAIN << >> |-> Encode(<< >>[i])] = << >>
  OBVIOUS
<1>2. Len(<< >>) = 0
  OBVIOUS
<1> QED BY <1>1, <1>2, FlattenEmpty DEF Words

(* One more frame adds its encoding.                                       *)
LEMMA WordsOfOneMore ==
  ASSUME decoder \in {"frame", "adb"}, NEW fs \in Seq(Frames), NEW f \in Frames,
         NEW more, more = Append(fs, f)
  PROVE  Words(fs) \in Seq(Nat) /\ Words(more) = Words(fs) \o Encode(f)
<1>1. PICK e : e = Encode(f)
  OBVIOUS
<1>2. /\ more \in Seq(Frames) /\ Len(more) = Len(fs) + 1 /\ more[Len(fs) + 1] = f
      /\ \A i \in 1 .. Len(fs) : more[i] = fs[i]
  BY AppendProperties
<1>3. PICK n \in Nat : n = Len(fs) /\ DOMAIN fs = 1 .. n /\ DOMAIN more = 1 .. n + 1
  BY <1>2
<1>4. PICK encoded : encoded = [i \in 1 .. n |-> Encode(fs[i])]
  OBVIOUS
<1>0. PICK m \in Nat : m = n + 1
  OBVIOUS
<1>5. PICK longer : longer = [i \in 1 .. m |-> Encode(more[i])]
  OBVIOUS
<1>6. \A i \in 1 .. m : Encode(more[i]) \in Seq(Nat)
  BY <1>0, <1>2, <1>3, EncodedFrame
<1>7. \A i \in 1 .. n : Encode(fs[i]) \in Seq(Nat)
  BY <1>3, EncodedFrame
<1>8. encoded \in Seq(Seq(Nat)) /\ Len(encoded) = n
  BY <1>4, <1>7
<1>9. longer \in Seq(Seq(Nat)) /\ Len(longer) = m
  <2>1. longer \in [1 .. m -> Seq(Nat)]
    BY <1>5, <1>6
  <2> QED BY <2>1, FunctionIsSeq
<1>10. e \in Seq(Nat)
  BY <1>1, EncodedFrame
<1>11. longer = Append(encoded, e)
  <2>1. PICK t : t = Append(encoded, e)
    OBVIOUS
  <2>2. t \in Seq(Seq(Nat)) /\ Len(t) = m /\ t[m] = e
        /\ \A i \in 1 .. n : t[i] = encoded[i]
    BY <2>1, <1>0, <1>8, <1>10, AppendProperties
  <2>3. longer[m] = e /\ \A i \in 1 .. n : longer[i] = encoded[i]
    BY <1>0, <1>1, <1>2, <1>3, <1>4, <1>5
  <2>4. ASSUME NEW i \in 1 .. m PROVE longer[i] = t[i]
    <3>1. i = m \/ i \in 1 .. n
      BY <1>0
    <3> QED BY <3>1, <2>2, <2>3
  <2> QED BY <2>1, <2>2, <2>4, <1>9, SeqEqual
<1>12. Words(fs) = FlattenSeq(encoded) /\ Words(more) = FlattenSeq(longer)
  BY <1>0, <1>3, <1>4, <1>5 DEF Words
<1>13. FlattenSeq(encoded) \in Seq(Nat) /\ FlattenSeq(longer) = FlattenSeq(encoded) \o e
  <2>1. PICK T : T = Nat
    OBVIOUS
  <2>2. encoded \in Seq(Seq(T)) /\ e \in Seq(T)
    BY <2>1, <1>8, <1>10
  <2>3. FlattenSeq(encoded) \in Seq(T) /\ FlattenSeq(longer) = FlattenSeq(encoded) \o e
    BY <2>2, <1>11, FlattenAppend
  <2> QED BY <2>1, <2>3
<1> QED BY <1>1, <1>12, <1>13

(* The words of frames are words.                                          *)
LEMMA WordsType ==
  ASSUME decoder \in {"frame", "adb"}, NEW fs \in Seq(Frames)
  PROVE  Words(fs) \in Seq(Nat)
<1>1. CASE fs = << >>
  BY <1>1, NoWords, EmptySeq
<1>2. CASE fs # << >>
  <2>1. fs[1] \in Frames
    BY <1>2
  <2> QED BY <2>1, WordsOfOneMore
<1> QED BY <1>1, <1>2

(* How the parts of a stream are grouped does not matter.                  *)
LEMMA Regrouped == \A f, e, w \in Seq(Nat) : (f \o e) \o w = f \o (e \o w)
  BY ConcatAssociative

(* To take one element more is to append it.                               *)
LEMMA OneMoreTaken ==
  ASSUME NEW T, NEW s \in Seq(T), NEW k \in Nat, k + 1 <= Len(s)
  PROVE  /\ SubSeq(s, 1, k) \in Seq(T) /\ Len(SubSeq(s, 1, k)) = k /\ s[k + 1] \in T
         /\ SubSeq(s, 1, k + 1) = Append(SubSeq(s, 1, k), s[k + 1])
<1>1. PICK n \in Nat, j \in Nat : n = Len(s) /\ j = k + 1
  OBVIOUS
<1>2. \A i \in 1 .. n : s[i] \in T
  BY <1>1
<1>3. PICK a : a = SubSeq(s, 1, k)
  OBVIOUS
<1>4. PICK b : b = SubSeq(s, 1, j)
  OBVIOUS
<1>5. a \in Seq(T) /\ Len(a) = k /\ \A i \in 1 .. k : a[i] = s[i]
  <2>1. \A i \in 1 .. k : s[i] \in T
    BY <1>1, <1>2
  <2> QED BY <2>1, <1>3, SubSeqProperties
<1>6. b \in Seq(T) /\ Len(b) = j /\ \A i \in 1 .. j : b[i] = s[i]
  <2>1. \A i \in 1 .. j : s[i] \in T
    BY <1>1, <1>2
  <2> QED BY <2>1, <1>1, <1>4, SubSeqProperties
<1>7. s[j] \in T
  BY <1>1, <1>2
<1>8. PICK c : c = Append(a, s[j])
  OBVIOUS
<1>9. c \in Seq(T) /\ Len(c) = k + 1 /\ c[k + 1] = s[j] /\ \A i \in 1 .. k : c[i] = a[i]
  BY <1>5, <1>7, <1>8, AppendProperties
<1>10. ASSUME NEW i \in 1 .. j PROVE b[i] = c[i]
  <2>1. i \in 1 .. k \/ i = k + 1
    BY <1>1
  <2> QED BY <2>1, <1>1, <1>5, <1>6, <1>9
<1>11. b = c
  BY <1>1, <1>6, <1>9, <1>10, SeqEqual
<1> QED BY <1>1, <1>3, <1>4, <1>5, <1>7, <1>8, <1>11

(* The words of all frames: those of the first k, of the next one, and     *)
(* some more.                                                              *)
LEMMA WordsFromOneFrame ==
  ASSUME decoder \in {"frame", "adb"}, NEW fs \in Seq(Frames), NEW k \in Nat, k + 1 <= Len(fs)
  PROVE  \E w \in Seq(Nat) :
           Words(fs) = Words(SubSeq(fs, 1, k)) \o (Encode(fs[k + 1]) \o w)
<1>1. PICK front : front = Words(SubSeq(fs, 1, k))
  OBVIOUS
<1>2. PICK e : e = Encode(fs[k + 1])
  OBVIOUS
<1>3. front \in Seq(Nat) /\ e \in Seq(Nat)
      /\ Words(SubSeq(fs, 1, k + 1)) = front \o e
  <2>1. SubSeq(fs, 1, k) \in Seq(Frames) /\ fs[k + 1] \in Frames
        /\ SubSeq(fs, 1, k + 1) = Append(SubSeq(fs, 1, k), fs[k + 1])
    BY OneMoreTaken
  <2> QED BY <2>1, <1>1, <1>2, WordsOfOneMore, EncodedFrame
<1> DEFINE Upto(n) == k + 1 + n <= Len(fs) =>
             \E w \in Seq(Nat) : Words(SubSeq(fs, 1, k + 1 + n)) = front \o (e \o w)
           S == {n \in Nat : Upto(n)}
<1>4. Upto(0)
  <2>1. k + 1 + 0 = k + 1 /\ << >> \in Seq(Nat)
    OBVIOUS
  <2>2. e \o << >> = e
    BY <1>3, ConcatEmptySeq
  <2> QED BY <1>3, <2>1, <2>2
<1>5. ASSUME NEW n \in Nat, Upto(n) PROVE Upto(n + 1)
  <2> SUFFICES ASSUME k + 1 + (n + 1) <= Len(fs)
               PROVE  \E w \in Seq(Nat) :
                        Words(SubSeq(fs, 1, k + 1 + (n + 1))) = front \o (e \o w)
    OBVIOUS
  <2>1. PICK m \in Nat : m = k + 1 + n /\ m + 1 = k + 1 + (n + 1) /\ m + 1 <= Len(fs)
    OBVIOUS
  <2>2. PICK w \in Seq(Nat) : Words(SubSeq(fs, 1, m)) = front \o (e \o w)
    <3>1. k + 1 + n <= Len(fs)
      BY <2>1
    <3>2. \E w \in Seq(Nat) : Words(SubSeq(fs, 1, k + 1 + n)) = front \o (e \o w)
      BY <3>1, <1>5
    <3> QED BY <3>2, <2>1
  <2>3. SubSeq(fs, 1, m) \in Seq(Frames) /\ fs[m + 1] \in Frames
        /\ SubSeq(fs, 1, m + 1) = Append(SubSeq(fs, 1, m), fs[m + 1])
    BY <2>1, OneMoreTaken
  <2>4. PICK x \in Seq(Nat) : x = Encode(fs[m + 1])
    BY <2>3, EncodedFrame
  <2>5. Words(SubSeq(fs, 1, m + 1)) = (front \o (e \o w)) \o x
    BY <2>2, <2>3, <2>4, WordsOfOneMore
  <2>6. (front \o (e \o w)) \o x = front \o (e \o (w \o x))
    <3>1. PICK ew \in Seq(Nat) : ew = e \o w
      BY <1>3, ConcatProperties
    <3>2. front \in Seq(Nat) /\ e \in Seq(Nat)
      BY <1>3
    <3>3. (front \o ew) \o x = front \o (ew \o x)
      BY <3>2, Regrouped
    <3>4. (e \o w) \o x = e \o (w \o x)
      BY <3>2, Regrouped
    <3> QED BY <3>1, <3>3, <3>4
  <2>7. w \o x \in Seq(Nat)
    BY ConcatProperties
  <2> QED BY <2>1, <2>5, <2>6, <2>7
<1> HIDE DEF Upto
<1>6. \A n \in Nat : n \in S
  <2>1. 0 \in S
    BY <1>4
  <2>2. \A n \in Nat : n \in S => n + 1 \in S
    BY <1>5
  <2> HIDE DEF S
  <2> QED BY <2>1, <2>2, Induction
<1>7. PICK n \in Nat : k + 1 + n = Len(fs)
  <2>1. Len(fs) - (k + 1) \in Nat /\ k + 1 + (Len(fs) - (k + 1)) = Len(fs)
    OBVIOUS
  <2> QED BY <2>1
<1>8. Upto(n)
  BY <1>6
<1>9. Len(fs) <= Len(fs) /\ SubSeq(fs, 1, Len(fs)) = fs
  BY SubSeqFull
<1> QED BY <1>1, <1>2, <1>7, <1>8, <1>9 DEF Upto

-----------------------------------------------------------------------------
(* A round of the loop of push cuts a frame off, or leaves everything as   *)
(* it is; what it cuts off is not empty.                                   *)
LEMMA RoundType ==
  ASSUME decoder \in {"frame", "adb"},
         NEW r \in [frames: Seq(Frame), rest: Seq(Nat)]
  PROVE  /\ Round(r) \in [frames: Seq(Frame), rest: Seq(Nat)]
         /\ ~Complete(r.rest) => Round(r) = r
         /\ Complete(r.rest) => Len(Round(r).rest) < Len(r.rest)
<1>1. PICK words \in Seq(Nat), n \in Nat, h \in {2, 6} :
        words = r.rest /\ n = Len(words) /\ h = HeaderWords
  BY HeaderType
<1>2. ASSUME NEW i \in 1 .. n PROVE words[i] \in Nat
  BY <1>1
<1>3. ASSUME Complete(words)
      PROVE  /\ FirstFrame(words) \in Frame /\ AfterFirstFrame(words) \in Seq(Nat)
             /\ Len(AfterFirstFrame(words)) < n
  <2>1. n >= h /\ n >= FrameSize(words)
    BY <1>1, <1>3 DEF Complete
  <2>2. words[1] \in Nat /\ words[LengthWord] \in Nat
    BY <1>1, <1>2, <2>1, HeaderType
  <2>3. PICK p \in Nat : p = PayloadLength(words)
    BY <2>2 DEF PayloadLength
  <2>4. PICK s \in Int, a \in Int, b \in Int :
          s = FrameSize(words) /\ s = h + p /\ a = h + 1 /\ b = s + 1 /\ s <= n
    BY <1>1, <2>1, <2>3 DEF FrameSize
  <2>5. \A i \in a .. s : words[i] \in Nat
    BY <1>2, <2>4
  <2>6. \A i \in b .. n : words[i] \in Nat
    BY <1>2, <2>3, <2>4
  <2>7. SubSeq(words, a, s) \in Seq(Nat)
    BY <2>5, SubSeqProperties
  <2>8. SubSeq(words, b, n) \in Seq(Nat)
        /\ Len(SubSeq(words, b, n)) = IF b <= n THEN n - b + 1 ELSE 0
    BY <2>6, SubSeqProperties
  <2>9. FirstFrame(words) = [opcode |-> words[1], payload |-> SubSeq(words, a, s)]
    BY <1>1, <2>4 DEF FirstFrame
  <2>10. AfterFirstFrame(words) = SubSeq(words, b, n)
    BY <1>1, <2>4 DEF AfterFirstFrame
  <2>11. FirstFrame(words) \in Frame
    BY <2>2, <2>7, <2>9 DEF Frame
  <2>12. Len(SubSeq(words, b, n)) < n
    BY <2>1, <2>4, <2>8, <2>3
  <2> QED BY <2>8, <2>10, <2>11, <2>12
<1>4. CASE Complete(r.rest)
  <2>1. FirstFrame(words) \in Frame /\ AfterFirstFrame(words) \in Seq(Nat)
        /\ Len(AfterFirstFrame(words)) < n
    BY <1>1, <1>3, <1>4
  <2>2. Append(r.frames, FirstFrame(words)) \in Seq(Frame)
    <3>1. r.frames \in Seq(Frame)
      OBVIOUS
    <3> QED BY <3>1, <2>1, AppendProperties
  <2>3. Round(r) = [frames |-> Append(r.frames, FirstFrame(words)), rest |-> AfterFirstFrame(words)]
    BY <1>1, <1>4 DEF Round
  <2> QED BY <2>1, <2>2, <2>3, <1>1, <1>4
<1>5. CASE ~Complete(r.rest)
  BY <1>5 DEF Round
<1> QED BY <1>4, <1>5

(* The function by which Rounds is defined exists, for any number of       *)
(* rounds.                                                                 *)
LEMMA RoundsExist ==
  ASSUME decoder \in {"frame", "adb"}, NEW words \in Seq(Nat), NEW m \in Nat
  PROVE  \E g \in [0 .. m -> [frames: Seq(Frame), rest: Seq(Nat)]] :
           g = [k \in 0 .. m |->
                  IF k = 0 THEN [frames |-> << >>, rest |-> words] ELSE Round(g[k - 1])]
<1> DEFINE R == [frames: Seq(Frame), rest: Seq(Nat)]
           At(g, k) == IF k = 0 THEN [frames |-> << >>, rest |-> words] ELSE Round(g[k - 1])
           Has(n) == \E g \in [0 .. n -> R] : \A k \in 0 .. n : g[k] = At(g, k)
           S == {n \in Nat : Has(n)}
<1>1. Has(0)
  <2>1. PICK start \in R : start = [frames |-> << >>, rest |-> words]
    <3>1. << >> \in Seq(Frame)
      BY EmptySeq
    <3>2. [frames |-> << >>, rest |-> words] \in R
      BY <3>1
    <3> QED BY <3>2
  <2>2. PICK g : g = [k \in 0 .. 0 |-> start]
    OBVIOUS
  <2>3. g \in [0 .. 0 -> R] /\ \A k \in 0 .. 0 : g[k] = At(g, k)
    BY <2>1, <2>2
  <2> QED BY <2>3
<1>2. ASSUME NEW n \in Nat, Has(n) PROVE Has(n + 1)
  <2>1. PICK h \in [0 .. n -> R] : \A k \in 0 .. n : h[k] = At(h, k)
    BY <1>2
  <2>2. PICK last \in R : last = Round(h[n])
    <3>1. h[n] \in R
      OBVIOUS
    <3> QED BY <3>1, RoundType
  <2>3. PICK g : g = [k \in 0 .. n + 1 |-> IF k = n + 1 THEN last ELSE h[k]]
    OBVIOUS
  <2>4. g \in [0 .. n + 1 -> R]
    BY <2>3
  <2>5. ASSUME NEW k \in 0 .. n + 1 PROVE g[k] = At(g, k)
    <3>1. CASE k = n + 1
      <4>1. k # 0 /\ k - 1 = n /\ g[n] = h[n]
        BY <2>3, <3>1
      <4> QED BY <4>1, <2>2, <2>3, <3>1
    <3>2. CASE k # n + 1
      <4>1. k \in 0 .. n /\ g[k] = h[k]
        BY <2>3, <3>2
      <4>2. h[k] = At(h, k)
        BY <4>1, <2>1
      <4>3. k # 0 => g[k - 1] = h[k - 1]
        BY <2>3, <4>1
      <4> QED BY <4>1, <4>2, <4>3
    <3> QED BY <3>1, <3>2
  <2> QED BY <2>4, <2>5
<1> HIDE DEF Has
<1>3. Has(m)
  <2>1. 0 \in S
    BY <1>1
  <2>2. \A n \in Nat : n \in S => n + 1 \in S
    BY <1>2
  <2> HIDE DEF S
  <2>3. m \in S
    BY <2>1, <2>2, Induction
  <2> QED BY <2>3 DEF S
<1>4. PICK g \in [0 .. m -> R] : \A k \in 0 .. m : g[k] = At(g, k)
  BY <1>3 DEF Has
<1>5. g = [k \in 0 .. m |-> At(g, k)]
  BY <1>4
<1> QED BY <1>5

(* Rounds round by round.                                                  *)
LEMMA RoundsStages ==
  ASSUME decoder \in {"frame", "adb"}, NEW words \in Seq(Nat)
  PROVE  \E g :
           /\ g[0] = [frames |-> << >>, rest |-> words]
           /\ \A k \in 1 .. Len(words) : g[k] = Round(g[k - 1])
           /\ Rounds(words) = g[Len(words)]
<1>0. Len(words) \in Nat
  OBVIOUS
<1>1. \E g : g = [k \in 0 .. Len(words) |->
                    IF k = 0 THEN [frames |-> << >>, rest |-> words] ELSE Round(g[k - 1])]
  <2>1. PICK g \in [0 .. Len(words) -> [frames: Seq(Frame), rest: Seq(Nat)]] :
          g = [k \in 0 .. Len(words) |->
                 IF k = 0 THEN [frames |-> << >>, rest |-> words] ELSE Round(g[k - 1])]
    BY <1>0, RoundsExist
  <2> QED BY <2>1
<1>2. PICK g : /\ g = [k \in 0 .. Len(words) |->
                         IF k = 0 THEN [frames |-> << >>, rest |-> words] ELSE Round(g[k - 1])]
               /\ Rounds(words) = g[Len(words)]
  BY <1>1 DEF Rounds
<1>3. \A k \in 0 .. Len(words) :
        g[k] = IF k = 0 THEN [frames |-> << >>, rest |-> words] ELSE Round(g[k - 1])
  BY <1>2
<1>4. g[0] = [frames |-> << >>, rest |-> words]
  <2>1. 0 \in 0 .. Len(words)
    BY <1>0
  <2> QED BY <2>1, <1>3
<1>5. ASSUME NEW k \in 1 .. Len(words) PROVE g[k] = Round(g[k - 1])
  <2>1. k \in 0 .. Len(words) /\ k # 0
    BY <1>0
  <2> QED BY <2>1, <1>3
<1> QED BY <1>2, <1>4, <1>5

(* What holds before the first round and is kept by every round holds      *)
(* after the last, and then no whole frame is left: each round but the     *)
(* last ones shortens what is left.                                        *)
LEMMA RoundsEstablish ==
  ASSUME decoder \in {"frame", "adb"}, NEW words \in Seq(Nat),
         NEW I, I \subseteq [frames: Seq(Frame), rest: Seq(Nat)],
         [frames |-> << >>, rest |-> words] \in I,
         \A r \in I : Round(r) \in I
  PROVE  Rounds(words) \in I /\ ~Complete(Rounds(words).rest)
<1>0. PICK m \in Nat : m = Len(words)
  OBVIOUS
<1>1. PICK g : /\ g[0] = [frames |-> << >>, rest |-> words]
               /\ \A k \in 1 .. m : g[k] = Round(g[k - 1])
               /\ Rounds(words) = g[m]
  BY <1>0, RoundsStages
<1> DEFINE Good(k) == k <= m => /\ g[k] \in I
                                /\ Complete(g[k].rest) => Len(g[k].rest) <= m - k
           S == {k \in Nat : Good(k)}
<1>2. Good(0)
  BY <1>0, <1>1
<1>3. ASSUME NEW k \in Nat, Good(k) PROVE Good(k + 1)
  <2> SUFFICES ASSUME k + 1 <= m
               PROVE  /\ g[k + 1] \in I
                      /\ Complete(g[k + 1].rest) => Len(g[k + 1].rest) <= m - (k + 1)
    OBVIOUS
  <2>1. PICK j \in 1 .. m : j = k + 1 /\ j - 1 = k
    OBVIOUS
  <2>2. g[k] \in I /\ (Complete(g[k].rest) => Len(g[k].rest) <= m - k)
    BY <1>3
  <2>3. g[j] = Round(g[k])
    BY <1>1, <2>1
  <2>4. g[j] \in I
    BY <2>2, <2>3
  <2>5. PICK r \in [frames: Seq(Frame), rest: Seq(Nat)] : r = g[k]
    BY <2>2
  <2>6. PICK q \in [frames: Seq(Frame), rest: Seq(Nat)] : q = g[j]
    BY <2>4
  <2>7. CASE Complete(r.rest)
    <3>1. Len(q.rest) < Len(r.rest) /\ Len(r.rest) <= m - k
      BY <2>2, <2>3, <2>5, <2>6, <2>7, RoundType
    <3>2. Len(q.rest) \in Nat /\ Len(r.rest) \in Nat
      OBVIOUS
    <3> QED BY <3>1, <3>2, <2>1, <2>4, <2>6
  <2>8. CASE ~Complete(r.rest)
    <3>1. q = r
      BY <2>3, <2>5, <2>6, <2>8, RoundType
    <3> QED BY <3>1, <2>1, <2>4, <2>6, <2>8
  <2> QED BY <2>7, <2>8
<1> HIDE DEF Good
<1>4. Good(m)
  <2>1. 0 \in S
    BY <1>2
  <2>2. \A k \in Nat : k \in S => k + 1 \in S
    BY <1>3
  <2> HIDE DEF S
  <2>3. m \in S
    BY <2>1, <2>2, Induction
  <2> QED BY <2>3 DEF S
<1>5. g[m] \in I /\ (Complete(g[m].rest) => Len(g[m].rest) <= 0)
  BY <1>4 DEF Good
<1>6. ~Complete(g[m].rest)
  <2>1. PICK r \in [frames: Seq(Frame), rest: Seq(Nat)] : r = g[m]
    BY <1>5
  <2>2. Complete(r.rest) => Len(r.rest) >= HeaderWords
    BY DEF Complete
  <2>3. Len(r.rest) \in Nat
    OBVIOUS
  <2> QED BY <2>1, <2>2, <2>3, <1>5, HeaderType
<1> QED BY <1>1, <1>5, <1>6

(* If the words after the first j frames are rest and tail, there are none *)
(* when j is all, and otherwise the encoding of the next frame is ahead.   *)
LEMMA NextFrameIsAhead ==
  ASSUME decoder \in {"frame", "adb"}, NEW fs \in Seq(Frames), NEW j \in Nat, j <= Len(fs),
         NEW rest \in Seq(Nat), NEW tail \in Seq(Nat),
         Splits(fs, j, rest, tail)
  PROVE  /\ j = Len(fs) => rest = << >>
         /\ j < Len(fs) => \E w \in Seq(Nat) : Begins(rest, tail, fs[j + 1], w)
                             /\ Words(SubSeq(fs, 1, j + 1)) \in Seq(Nat)
                             /\ Words(fs) = Words(SubSeq(fs, 1, j + 1)) \o w
<1>1. PICK all \in Seq(Nat) : all = rest \o tail
  BY ConcatProperties
<1>2. Words(fs) = Words(SubSeq(fs, 1, j)) \o all
  BY <1>1 DEF Splits
<1>3. ASSUME j = Len(fs) PROVE rest = << >>
  <2>1. SubSeq(fs, 1, j) = fs
    BY <1>3, SubSeqFull
  <2>2. PICK x \in Seq(Nat) : x = Words(fs)
    BY WordsType
  <2>3. x = x \o all
    BY <2>1, <2>2, <1>2
  <2>4. all = << >>
    BY <2>3, ConcatEqualIffEmpty
  <2>5. PICK a \in Nat, b \in Nat : a = Len(rest) /\ b = Len(tail)
    OBVIOUS
  <2>7. Len(all) = a + b
    BY <1>1, <2>5, ConcatProperties
  <2>8. Len(all) = 0
    BY <2>4, EmptySeq
  <2>9. a + b = 0
    BY <2>7, <2>8
  <2>10. a = 0
    BY <2>9
  <2>6. Len(rest) = 0
    BY <2>5, <2>10
  <2> QED BY <2>6, EmptySeq
<1>4. ASSUME j < Len(fs)
      PROVE  \E w \in Seq(Nat) : Begins(rest, tail, fs[j + 1], w)
               /\ Words(SubSeq(fs, 1, j + 1)) \in Seq(Nat)
               /\ Words(fs) = Words(SubSeq(fs, 1, j + 1)) \o w
  <2>1. j + 1 <= Len(fs)
    BY <1>4
  <2>2. PICK w \in Seq(Nat) : Words(fs) = Words(SubSeq(fs, 1, j)) \o (Encode(fs[j + 1]) \o w)
    BY <2>1, WordsFromOneFrame
  <2>3. SubSeq(fs, 1, j) \in Seq(Frames) /\ fs[j + 1] \in Frames
        /\ SubSeq(fs, 1, j + 1) = Append(SubSeq(fs, 1, j), fs[j + 1])
    BY <2>1, OneMoreTaken
  <2>4. PICK front \in Seq(Nat) : front = Words(SubSeq(fs, 1, j))
    BY <2>3, WordsType
  <2>5. PICK e \in Seq(Nat) : e = Encode(fs[j + 1])
    BY <2>3, EncodedFrame
  <2>6. PICK ew \in Seq(Nat) : ew = e \o w
    BY ConcatProperties
  <2>7. front \o all = front \o ew
    BY <2>2, <2>4, <2>5, <2>6, <1>2
  <2>8. all = ew
    BY <2>7, ConcatSimplifications
  <2>9. Words(SubSeq(fs, 1, j + 1)) = front \o e /\ front \o e \in Seq(Nat)
    BY <2>3, <2>4, <2>5, WordsOfOneMore, ConcatProperties
  <2>10. (front \o e) \o w = front \o (e \o w)
    BY Regrouped
  <2>11. Words(fs) = (front \o e) \o w
    BY <2>2, <2>4, <2>5, <2>10
  <2>12. /\ Begins(rest, tail, fs[j + 1], w)
         /\ Words(SubSeq(fs, 1, j + 1)) \in Seq(Nat)
         /\ Words(fs) = Words(SubSeq(fs, 1, j + 1)) \o w
    BY <2>5, <2>6, <2>8, <2>9, <2>11, <1>1 DEF Begins
  <2> QED BY <2>12
<1> QED BY <1>3, <1>4

(* If the encoding of f is ahead and rest is complete, what is cut off     *)
(* rest is f; if rest is not complete it is shorter than f.                *)
LEMMA FrontIsTheFrame ==
  ASSUME decoder \in {"frame", "adb"}, NEW f \in Frames, NEW w \in Seq(Nat),
         NEW rest \in Seq(Nat), NEW tail \in Seq(Nat), Begins(rest, tail, f, w)
  PROVE  /\ Complete(rest) => /\ FirstFrame(rest) = f
                              /\ AfterFirstFrame(rest) \in Seq(Nat)
                              /\ w = AfterFirstFrame(rest) \o tail
         /\ ~Complete(rest) => Len(rest) < Len(Encode(f))
<1>1. PICK h \in Nat, l \in {2, 4} : h = HeaderWords /\ l = LengthWord /\ l <= h /\ h >= 2
  BY HeaderType
<1>2. PICK e \in Seq(Nat) : e = Encode(f)
  BY EncodedFrame
<1>3. PICK p \in Seq(Nat), n \in Nat : p = f.payload /\ n = Len(p) /\ n < SignBit
  BY EncodedFrame
<1>4. /\ f = [opcode |-> f.opcode, payload |-> p]
      /\ Len(e) = h + n /\ e[1] = f.opcode /\ e[l] = n
      /\ \A i \in 1 .. n : e[h + i] = p[i]
  BY <1>1, <1>2, <1>3, EncodedFrame
<1>11. PICK m \in Nat : m = Len(e) /\ m = h + n /\ m >= 2
  BY <1>1, <1>4
<1>5. rest \o tail = e \o w
  BY <1>2 DEF Begins
<1>7. PICK r \in Nat : r = Len(rest)
  OBVIOUS
<1>6. /\ \A i \in 1 .. Len(e) : i <= Len(rest) => rest[i] = e[i]
      /\ Len(e) <= Len(rest) =>
           /\ SubSeq(rest, Len(e) + 1, Len(rest)) \in Seq(Nat)
           /\ w = SubSeq(rest, Len(e) + 1, Len(rest)) \o tail
  <2>1. PICK t \in Nat, v \in Nat : t = Len(tail) /\ v = Len(w)
    OBVIOUS
  <2>2. PICK all : all = rest \o tail /\ all = e \o w
    BY <1>5
  <2>3. /\ Len(all) = r + t
        /\ \A i \in 1 .. r + t : all[i] = IF i <= r THEN rest[i] ELSE tail[i - r]
    <3>1. /\ Len(rest \o tail) = Len(rest) + Len(tail)
          /\ \A i \in 1 .. Len(rest) + Len(tail) :
               (rest \o tail)[i] = IF i <= Len(rest) THEN rest[i] ELSE tail[i - Len(rest)]
      BY ConcatProperties
    <3> QED BY <3>1, <1>7, <2>1, <2>2
  <2>4. /\ Len(all) = m + v
        /\ \A i \in 1 .. m + v : all[i] = IF i <= m THEN e[i] ELSE w[i - m]
    <3>1. /\ Len(e \o w) = Len(e) + Len(w)
          /\ \A i \in 1 .. Len(e) + Len(w) : (e \o w)[i] = IF i <= Len(e) THEN e[i] ELSE w[i - Len(e)]
      BY ConcatProperties
    <3> QED BY <3>1, <1>11, <2>1, <2>2
  <2>5. r + t = m + v
    BY <2>3, <2>4
  <2>6. ASSUME NEW i \in 1 .. m, i <= r PROVE rest[i] = e[i]
    <3>1. i \in 1 .. m + v /\ i \in 1 .. r + t
      BY <2>6
    <3> QED BY <3>1, <2>3, <2>4, <2>6
  <2>7. ASSUME m <= r
        PROVE  /\ SubSeq(rest, m + 1, r) \in Seq(Nat)
               /\ w = SubSeq(rest, m + 1, r) \o tail
    <3>1. PICK a \in Int : a = m + 1
      OBVIOUS
    <3>2. PICK s : s = SubSeq(rest, a, r)
      OBVIOUS
    <3>3. \A i \in a .. r : rest[i] \in Nat
      BY <1>7, <1>11, <2>1, <3>1
    <3>4. /\ s \in Seq(Nat) /\ Len(s) = IF a <= r THEN r - a + 1 ELSE 0
          /\ \A i \in 1 .. r - a + 1 : s[i] = rest[a + i - 1]
      BY <3>2, <3>3, SubSeqProperties
    <3>5. PICK d \in Nat : d = r - m /\ d = Len(s)
      BY <3>1, <3>4, <2>7
    <3>6. /\ s \o tail \in Seq(Nat) /\ Len(s \o tail) = d + t
          /\ \A i \in 1 .. d + t :
               (s \o tail)[i] = IF i <= d THEN s[i] ELSE tail[i - d]
      <4>1. s \in Seq(Nat)
        BY <3>4
      <4>2. /\ s \o tail \in Seq(Nat) /\ Len(s \o tail) = Len(s) + Len(tail)
            /\ \A i \in 1 .. Len(s) + Len(tail) :
                 (s \o tail)[i] = IF i <= Len(s) THEN s[i] ELSE tail[i - Len(s)]
        BY <4>1, ConcatProperties
      <4> QED BY <4>2, <2>1, <3>5
    <3>7. Len(s \o tail) = v
      <4>1. d + t = v
        BY <3>5, <2>5
      <4>2. Len(s \o tail) = d + t
        BY <3>6
      <4> QED BY <4>1, <4>2
    <3>8. ASSUME NEW i \in 1 .. v PROVE w[i] = (s \o tail)[i]
      <4>1. PICK k \in 1 .. m + v : k = m + i /\ ~(k <= m) /\ k - m = i /\ k \in 1 .. r + t
        BY <2>5
      <4>2. w[i] = all[k]
        BY <4>1, <2>4
      <4>3. i \in 1 .. d + t
        BY <2>5, <3>5
      <4>4. CASE i <= d
        <5>1. k <= r /\ a + i - 1 = k /\ i \in 1 .. r - a + 1
          BY <3>1, <3>5, <4>1, <4>4
        <5>2. all[k] = rest[k]
          BY <5>1, <4>1, <2>3
        <5>3. s[i] = rest[k]
          BY <5>1, <3>4
        <5> QED BY <5>2, <5>3, <4>2, <4>3, <4>4, <3>6
      <4>5. CASE ~(i <= d)
        <5>1. ~(k <= r) /\ k - r = i - d
          BY <3>5, <4>1, <4>5
        <5>2. all[k] = tail[k - r]
          BY <5>1, <4>1, <2>3
        <5>3. (s \o tail)[i] = tail[i - d]
          BY <3>6, <4>3, <4>5
        <5> QED BY <5>1, <5>2, <5>3, <4>2
      <4> QED BY <4>4, <4>5
    <3>9. w = s \o tail
      BY <1>7, <1>11, <2>1, <3>6, <3>7, <3>8, SeqEqual
    <3> QED BY <3>1, <3>2, <3>4, <3>9
  <2> QED BY <1>7, <1>11, <2>6, <2>7
<1>8. ASSUME r >= h PROVE FrameSize(rest) = h + n
  <2>1. l \in 1 .. Len(e) /\ l <= Len(rest)
    BY <1>1, <1>7, <1>8, <1>11
  <2>2. rest[l] = n
    BY <2>1, <1>4, <1>6
  <2>3. ~(n >= SignBit)
    BY <1>3, DecoderAssumption
  <2>4. PayloadLength(rest) = n
    BY <2>2, <2>3, <1>1 DEF PayloadLength
  <2> QED BY <2>4, <1>1 DEF FrameSize
<1>9. ASSUME Complete(rest)
      PROVE  /\ FirstFrame(rest) = f /\ AfterFirstFrame(rest) \in Seq(Nat)
             /\ w = AfterFirstFrame(rest) \o tail
  <2>1. r >= h /\ r >= FrameSize(rest)
    BY <1>1, <1>7, <1>9 DEF Complete
  <2>2. PICK s \in Int, a \in Int : s = FrameSize(rest) /\ s = h + n /\ s <= r /\ a = h + 1
    BY <2>1, <1>8
  <2>3. rest[1] = f.opcode
    <3>1. 1 \in 1 .. Len(e) /\ 1 <= Len(rest)
      BY <2>1, <1>1, <1>7, <1>11
    <3> QED BY <3>1, <1>4, <1>6
  <2>4. PICK q : q = SubSeq(rest, a, s)
    OBVIOUS
  <2>5. \A i \in a .. s : rest[i] \in Nat
    <3>1. \A i \in 1 .. r : rest[i] \in Nat
      BY <1>7
    <3> QED BY <3>1, <2>2
  <2>6. /\ q \in Seq(Nat) /\ Len(q) = IF a <= s THEN s - a + 1 ELSE 0
        /\ \A i \in 1 .. s - a + 1 : q[i] = rest[a + i - 1]
    BY <2>4, <2>5, SubSeqProperties
  <2>7. Len(q) = n /\ s - a + 1 = n
    BY <2>2, <2>6
  <2>8. ASSUME NEW i \in 1 .. n PROVE q[i] = p[i]
    <3>1. PICK k \in 1 .. Len(e) : k = h + i /\ k <= Len(rest) /\ a + i - 1 = k
      <4>1. h + i \in 1 .. m /\ h + i <= r /\ a + i - 1 = h + i
        BY <2>2, <1>11
      <4> QED BY <4>1, <1>7, <1>11
    <3>2. q[i] = rest[k]
      BY <3>1, <2>6, <2>7
    <3>3. rest[k] = e[k]
      BY <3>1, <1>6
    <3> QED BY <3>1, <3>2, <3>3, <1>4
  <2>9. q = p
    <3>1. q \in Seq(Nat) /\ Len(q) = Len(p)
      BY <2>6, <2>7, <1>3
    <3>2. \A i \in 1 .. Len(q) : q[i] = p[i]
      BY <3>1, <2>8, <1>3
    <3> QED BY <3>1, <3>2, SeqEqual
  <2>10. FirstFrame(rest) = [opcode |-> rest[1], payload |-> q]
    BY <2>2, <2>4, <1>1 DEF FirstFrame
  <2>11. FirstFrame(rest) = f
    BY <2>3, <2>9, <2>10, <1>4
  <2>12. AfterFirstFrame(rest) = SubSeq(rest, Len(e) + 1, Len(rest))
    BY <2>2, <1>4 DEF AfterFirstFrame
  <2>13. Len(e) <= Len(rest)
    BY <2>2, <1>4, <1>7
  <2> QED BY <2>11, <2>12, <2>13, <1>6
<1>10. ASSUME ~Complete(rest) PROVE Len(rest) < Len(e)
  <2>1. CASE r >= h
    <3>1. ~(r >= h + n)
      BY <2>1, <1>1, <1>7, <1>8, <1>10 DEF Complete
    <3> QED BY <3>1, <1>4, <1>7
  <2>2. CASE r < h
    BY <2>2, <1>4, <1>7
  <2> QED BY <2>1, <2>2
<1> QED BY <1>2, <1>9, <1>10

(* One round of push cuts off the next frame that the device sent.         *)
LEMMA OneRound ==
  ASSUME decoder \in {"frame", "adb"}, NEW fs \in Seq(Frames), NEW j \in Nat, j <= Len(fs),
         NEW rest \in Seq(Nat), NEW tail \in Seq(Nat), Splits(fs, j, rest, tail)
  PROVE  /\ Complete(rest) =>
              /\ j < Len(fs) /\ FirstFrame(rest) = fs[j + 1]
              /\ AfterFirstFrame(rest) \in Seq(Nat)
              /\ Splits(fs, j + 1, AfterFirstFrame(rest), tail)
         /\ ~Complete(rest) /\ j < Len(fs) => Len(rest) < Len(Encode(fs[j + 1]))
<1>1. /\ j = Len(fs) => rest = << >>
      /\ j < Len(fs) => \E w \in Seq(Nat) : Begins(rest, tail, fs[j + 1], w)
                          /\ Words(SubSeq(fs, 1, j + 1)) \in Seq(Nat)
                          /\ Words(fs) = Words(SubSeq(fs, 1, j + 1)) \o w
  BY NextFrameIsAhead
<1>2. CASE j = Len(fs)
  <2>1. ~Complete(rest)
    <3>1. Len(rest) = 0
      BY <1>1, <1>2, EmptySeq
    <3> QED BY <3>1, HeaderType DEF Complete
  <2> QED BY <2>1, <1>2
<1>3. CASE j < Len(fs)
  <2>1. PICK w \in Seq(Nat) : Begins(rest, tail, fs[j + 1], w)
                          /\ Words(SubSeq(fs, 1, j + 1)) \in Seq(Nat)
                          /\ Words(fs) = Words(SubSeq(fs, 1, j + 1)) \o w
    BY <1>1, <1>3
  <2>2. PICK f \in Frames : f = fs[j + 1]
    BY <1>3
  <2>3. /\ Complete(rest) => /\ FirstFrame(rest) = f
                             /\ AfterFirstFrame(rest) \in Seq(Nat)
                             /\ w = AfterFirstFrame(rest) \o tail
        /\ ~Complete(rest) => Len(rest) < Len(Encode(f))
    BY <2>1, <2>2, FrontIsTheFrame
  <2> QED BY <2>1, <2>2, <2>3, <1>3 DEF Splits
<1> QED BY <1>2, <1>3

(* To append to the second of two sequences.                               *)
LEMMA AppendJoins ==
  ASSUME NEW T, NEW s \in Seq(T), NEW c \in Seq(T), NEW f \in T
  PROVE  s \o Append(c, f) = Append(s \o c, f)
<1>1. s \o c \in Seq(T) /\ <<f>> \in Seq(T)
  BY ConcatProperties
<1>2. Append(c, f) = c \o <<f>> /\ Append(s \o c, f) = (s \o c) \o <<f>>
  BY <1>1, AppendIsConcat
<1>3. (s \o c) \o <<f>> = s \o (c \o <<f>>)
  BY <1>1, ConcatAssociative
<1> QED BY <1>2, <1>3

(* push, whatever chunk it is given: what it yields are the next frames    *)
(* the device sent, and what it leaves is too short for one more.          *)
LEMMA PushKeeps ==
  ASSUME decoder \in {"frame", "adb"}, NEW fs \in Seq(Frames), NEW given \in Seq(Frame),
         Leads(given, fs),
         NEW words \in Seq(Nat), NEW tail \in Seq(Nat),
         Splits(fs, Len(given), words, tail),
         NEW last, last = Rounds(words), NEW y, y = given \o last.frames,
         NEW rest, rest = last.rest
  PROVE  /\ Leads(y, fs)
         /\ Splits(fs, Len(y), rest, tail)
         /\ Len(y) < Len(fs) => Len(rest) < Len(Encode(fs[Len(y) + 1]))
<1> USE DEF Leads
<1> DEFINE Holds(q) == /\ Len(given \o q.frames) <= Len(fs)
                       /\ given \o q.frames = SubSeq(fs, 1, Len(given \o q.frames))
                       /\ Splits(fs, Len(given \o q.frames), q.rest, tail)
           I == {q \in [frames: Seq(Frame), rest: Seq(Nat)] : Holds(q)}
<1>1. [frames |-> << >>, rest |-> words] \in I
  <2>1. given \o << >> = given
    BY ConcatEmptySeq
  <2>2. << >> \in Seq(Frame)
    BY EmptySeq
  <2> QED BY <2>1, <2>2
<1>2. ASSUME NEW q \in [frames: Seq(Frame), rest: Seq(Nat)], Holds(q)
      PROVE  Holds(Round(q))
  <2>1. CASE ~Complete(q.rest)
    BY <2>1, <1>2, RoundType
  <2>2. CASE Complete(q.rest)
    <3>1. PICK z \in Seq(Frame), j \in Nat : z = given \o q.frames /\ j = Len(z)
      <4>1. q.frames \in Seq(Frame)
        OBVIOUS
      <4>2. given \o q.frames \in Seq(Frame)
        BY <4>1, ConcatProperties
      <4>3. PICK z \in Seq(Frame) : z = given \o q.frames
        BY <4>2
      <4> QED BY <4>3, LenProperties
    <3>2. j <= Len(fs) /\ z = SubSeq(fs, 1, j) /\ Splits(fs, j, q.rest, tail)
      BY <3>1, <1>2
    <3>3. /\ j < Len(fs) /\ FirstFrame(q.rest) = fs[j + 1]
          /\ Splits(fs, j + 1, AfterFirstFrame(q.rest), tail)
      <4>1. PICK rest0 \in Seq(Nat) : rest0 = q.rest
        OBVIOUS
      <4> QED BY <4>1, <3>2, <2>2, OneRound
    <3>4. PICK f \in Frame : f = fs[j + 1]
      BY <3>3, DecoderAssumption
    <3>5. Round(q) = [frames |-> Append(q.frames, f), rest |-> AfterFirstFrame(q.rest)]
      BY <2>2, <3>3, <3>4 DEF Round
    <3>6. given \o Append(q.frames, f) = Append(z, f)
      <4>1. PICK c \in Seq(Frame) : c = q.frames
        OBVIOUS
      <4>2. PICK T : T = Frame
        OBVIOUS
      <4>3. given \in Seq(T) /\ c \in Seq(T) /\ f \in T
        BY <4>1, <4>2
      <4>4. given \o Append(c, f) = Append(given \o c, f)
        BY <4>3, AppendJoins
      <4> QED BY <3>1, <4>1, <4>4
    <3>7. Append(z, f) = SubSeq(fs, 1, j + 1) /\ Len(Append(z, f)) = j + 1
      <4>1. j + 1 <= Len(fs)
        BY <3>3
      <4>2. SubSeq(fs, 1, j + 1) = Append(SubSeq(fs, 1, j), fs[j + 1])
        BY <4>1, OneMoreTaken
      <4>3. Len(Append(z, f)) = j + 1
        BY <3>1, AppendProperties
      <4> QED BY <4>2, <4>3, <3>2, <3>4
    <3>8. Round(q).frames = Append(q.frames, f) /\ Round(q).rest = AfterFirstFrame(q.rest)
      BY <3>5
    <3>9. given \o Round(q).frames = Append(z, f)
      BY <3>6, <3>8
    <3>10. j + 1 <= Len(fs)
      BY <3>3
    <3> QED BY <3>3, <3>7, <3>8, <3>9, <3>10
  <2> QED BY <2>1, <2>2
<1>3. PICK r \in [frames: Seq(Frame), rest: Seq(Nat)] :
        r = Rounds(words) /\ Holds(r) /\ ~Complete(r.rest)
  <2>1. I \subseteq [frames: Seq(Frame), rest: Seq(Nat)]
    OBVIOUS
  <2>2. \A q \in I : Round(q) \in I
    BY <1>2, RoundType
  <2> HIDE DEF Holds
  <2>3. PICK J : J = I
    OBVIOUS
  <2>4. Rounds(words) \in J /\ ~Complete(Rounds(words).rest)
    <3>1. J \subseteq [frames: Seq(Frame), rest: Seq(Nat)]
      BY <2>1, <2>3
    <3>2. [frames |-> << >>, rest |-> words] \in J /\ \A q \in J : Round(q) \in J
      BY <1>1, <2>2, <2>3
    <3> HIDE DEF I
    <3> QED BY <3>1, <3>2, RoundsEstablish
  <2> QED BY <2>3, <2>4
<1>4. y = given \o r.frames /\ rest = r.rest
  BY <1>3
<1>5. /\ Len(y) <= Len(fs) /\ y = SubSeq(fs, 1, Len(y)) /\ Splits(fs, Len(y), rest, tail)
  BY <1>3, <1>4
<1>6. PICK j \in Nat : j = Len(y)
  <2>1. r.frames \in Seq(Frame)
    OBVIOUS
  <2>2. given \o r.frames \in Seq(Frame)
    BY <2>1, ConcatProperties
  <2> QED BY <2>2, <1>4
<1>7. rest \in Seq(Nat) /\ ~Complete(rest)
  BY <1>3, <1>4
<1>8. j < Len(fs) => Len(rest) < Len(Encode(fs[j + 1]))
  BY <1>5, <1>6, <1>7, OneRound
<1> QED BY <1>5, <1>6, <1>8

-----------------------------------------------------------------------------
(* Sound in the next state; its operators depend on the decoder, which no  *)
(* step changes.                                                           *)
LEMMA SoundNext ==
  ASSUME decoder' = decoder,
         Leads(yielded', sent'),
         Splits(sent', Len(yielded'), buffer', stream'),
         Len(yielded') < Len(sent') => Len(buffer') < Len(Encode(sent'[Len(yielded') + 1]))
  PROVE  Sound'
<1>1. Splits(sent, Len(yielded), buffer, stream)'
  BY DEF Splits, Words, Encode, HeaderWords, LengthWord
<1>2. (Len(yielded) < Len(sent) => Len(buffer) < Len(Encode(sent[Len(yielded) + 1])))'
  BY DEF Encode, HeaderWords, LengthWord
<1> QED BY <1>1, <1>2 DEF Sound, Leads

(* The same of the words of what was sent.                                 *)
LEMMA WordsNext ==
  ASSUME decoder' = decoder, stream' = Words(sent')
  PROVE  (stream = Words(sent))'
  BY DEF Words, Encode, HeaderWords, LengthWord

(* Nothing sent, nothing left, nothing yielded.                            *)
LEMMA SoundAtStart ==
  ASSUME decoder' = decoder, sent' = << >>, stream' = << >>, buffer' = << >>, yielded' = << >>
  PROVE  Sound'
<1>1. Len(<< >>) = 0 /\ SubSeq(<< >>, 1, 0) = << >>
  OBVIOUS
<1>2. << >> \o (<< >> \o << >>) = << >>
  OBVIOUS
<1>3. Splits(sent', Len(yielded'), buffer', stream')
  BY <1>1, <1>2, NoWords DEF Splits
<1>4. Leads(yielded', sent')
  BY <1>1 DEF Leads
<1> QED BY <1>3, <1>4, SoundNext

(* DecodersInv holds before the first connection.                          *)
LEMMA DecodersStart == ASSUME Init PROVE DecodersInv
<1>1. DecodersTypeOK
  BY EmptySeq DEF Init, DecodersTypeOK
<1> QED BY <1>1 DEF Init, DecodersInv

(* DecodersInv speaks of the stream decoders alone.                        *)
LEMMA DecodersUnchanged == ASSUME DecodersInv, UNCHANGED vars PROVE DecodersInv'
<1> USE DEF vars, DecodersInv
<1>1. DecodersTypeOK'
  BY DEF DecodersTypeOK
<1>2. Sound => Sound'
  <2> SUFFICES ASSUME Sound PROVE Sound'
    OBVIOUS
  <2> QED BY SoundNext DEF Sound
<1>3. stream = Words(sent) => (stream = Words(sent))'
  BY WordsNext
<1> QED BY <1>1, <1>2, <1>3

(* A connection begins: an AdbMessageDecoder of its own, a FrameDecoder    *)
(* with what it holds.                                                     *)
LEMMA BeginOpenStep == ASSUME DecodersInv, BeginOpen PROVE DecodersInv'
<1>1. DecodersTypeOK'
  BY EmptySeq DEF DecodersInv, DecodersTypeOK, BeginOpen, Reset
<1>2. (stream = Words(sent))'
  <2>1. stream' = Words(sent')
    BY NoWords DEF BeginOpen
  <2> QED BY <2>1, WordsNext DEF BeginOpen
<1>3. decoder' = "adb" => Sound'
  BY SoundAtStart DEF BeginOpen, Reset
<1> QED BY <1>1, <1>2, <1>3 DEF DecodersInv, BeginOpen

(* The channel opens: the FrameDecoder is reset, and every word is still   *)
(* on its way unless one came early.                                       *)
LEMMA OpenedStep == ASSUME DecodersInv, Opened PROVE DecodersInv'
<1>1. DecodersTypeOK'
  BY EmptySeq DEF DecodersInv, DecodersTypeOK, Opened, Reset
<1>2. CASE decoder = "adb"
  <2>1. Sound
    BY <1>2 DEF DecodersInv, Opened
  <2>2. Sound'
    BY <2>1, <1>2, SoundNext DEF Sound, Opened
  <2> QED BY <1>1, <2>2 DEF DecodersInv, Opened
<1>3. CASE decoder = "frame"
  <2>1. ASSUME ~early PROVE Sound'
    <3>1. stream = Words(sent) /\ stream' = stream /\ sent' = sent /\ decoder' = decoder
      BY <2>1 DEF DecodersInv, Opened
    <3>2. buffer' = << >> /\ yielded' = << >>
      BY <1>3 DEF Opened, Reset
    <3>3. sent \in Seq(Frames) /\ stream \in Seq(Nat)
      BY DEF DecodersInv, DecodersTypeOK
    <3>4. SubSeq(sent, 1, 0) = << >> /\ Len(<< >>) = 0 /\ 0 <= Len(sent)
      BY <3>3
    <3>5. << >> \o (<< >> \o stream) = stream
      BY <3>3, ConcatEmptySeq
    <3>6. Splits(sent', Len(yielded'), buffer', stream')
      BY <3>1, <3>2, <3>4, <3>5, NoWords DEF Splits
    <3>7. 0 < Len(sent) => Len(<< >>) < Len(Encode(sent[0 + 1]))
      <4> SUFFICES ASSUME 0 < Len(sent) PROVE 0 < Len(Encode(sent[1]))
        BY <3>4
      <4>1. decoder \in {"frame", "adb"} /\ sent[1] \in Frames
        BY <3>3, <1>3
      <4>2. PICK e : e = Encode(sent[1])
        OBVIOUS
      <4>3. Len(e) = HeaderWords + Len(sent[1].payload) /\ Len(sent[1].payload) \in Nat
            /\ HeaderWords \in {2, 6}
        BY <4>1, <4>2, EncodedFrame, HeaderType
      <4> QED BY <4>2, <4>3
    <3>8. Leads(yielded', sent')
      BY <3>1, <3>2, <3>4 DEF Leads
    <3> QED BY <3>1, <3>2, <3>6, <3>7, <3>8, SoundNext
  <2>2. phase' = "open" /\ early' = early /\ decoder' # "adb"
    BY <1>3 DEF Opened
  <2> QED BY <1>1, <2>1, <2>2 DEF DecodersInv
<1> QED BY <1>2, <1>3 DEF DecodersInv, DecodersTypeOK

(* The channel closes: nothing is claimed any more.                        *)
LEMMA ClosesStep == ASSUME DecodersInv, Closes PROVE DecodersInv'
<1>1. DecodersTypeOK'
  BY EmptySeq DEF DecodersInv, DecodersTypeOK, Closes
<1> QED BY <1>1 DEF DecodersInv, Closes

(* The device sends a frame: it is the next to be yielded only if nothing  *)
(* else is on its way, and then the buffer is empty.                       *)
LEMMA DeviceSendsStep ==
  ASSUME DecodersInv, NEW f \in Frames, DeviceSends(f)
  PROVE  DecodersInv'
<1>1. /\ decoder \in {"frame", "adb"} /\ decoder' = decoder /\ phase' = phase /\ early' = early
      /\ buffer' = buffer /\ yielded' = yielded
      /\ sent \in Seq(Frames) /\ stream \in Seq(Nat) /\ buffer \in Seq(Nat)
      /\ yielded \in Seq(Frame) /\ phase # "closed"
      /\ sent' = Append(sent, f)
      /\ stream' = stream \o Encode(f)
  BY DEF DecodersInv, DecodersTypeOK, DeviceSends
<1>2. PICK e \in Seq(Nat) : e = Encode(f)
  BY <1>1, EncodedFrame
<1>3. PICK fs \in Seq(Frames) : fs = sent /\ Append(fs, f) \in Seq(Frames)
  BY <1>1
<1>4. PICK s \in Seq(Nat), b \in Seq(Nat) : s = stream /\ b = buffer
  BY <1>1
<1>5. s \o e \in Seq(Nat)
  BY ConcatProperties
<1>6. DecodersTypeOK'
  BY <1>1, <1>2, <1>3, <1>4, <1>5 DEF DecodersInv, DecodersTypeOK, DeviceSends
<1>7. Words(fs) \in Seq(Nat) /\ Words(Append(fs, f)) = Words(fs) \o e
  BY <1>1, <1>2, WordsOfOneMore
<1>8. ASSUME stream = Words(sent) PROVE (stream = Words(sent))'
  <2>1. stream' = Words(sent')
    BY <1>1, <1>2, <1>3, <1>4, <1>7, <1>8
  <2> QED BY <2>1, <1>1, WordsNext
<1>9. ASSUME Sound PROVE Sound'
  <2>1. PICK k \in Nat, n \in Nat : k = Len(yielded) /\ n = Len(fs) /\ k <= n
    <3>1. Len(yielded) \in Nat /\ Len(fs) \in Nat
      BY <1>1
    <3>2. Len(yielded) <= Len(fs)
      BY <1>3, <1>9 DEF Sound, Leads
    <3> QED BY <3>1, <3>2
  <2>2. /\ Len(Append(fs, f)) = n + 1 /\ Append(fs, f)[n + 1] = f
        /\ \A i \in 1 .. n : Append(fs, f)[i] = fs[i]
    BY <2>1, AppendProperties
  <2>3. SubSeq(Append(fs, f), 1, k) = SubSeq(fs, 1, k)
    BY <2>1, <2>2
  <2>4. Leads(yielded', sent')
    BY <2>1, <2>2, <2>3, <1>1, <1>3, <1>9 DEF Sound, Leads
  <2>5. SubSeq(fs, 1, k) \in Seq(Frames)
    BY <2>1
  <2>6. PICK front \in Seq(Nat) : front = Words(SubSeq(fs, 1, k))
    BY <2>5, <1>1, WordsType
  <2>7. Words(fs) = front \o (b \o s)
    BY <2>1, <2>6, <1>3, <1>4, <1>9 DEF Sound, Splits
  <2>8. PICK bs \in Seq(Nat) : bs = b \o s
    BY ConcatProperties
  <2>9. /\ (front \o bs) \o e = front \o (bs \o e)
        /\ (b \o s) \o e = b \o (s \o e)
    <3>1. (front \o bs) \o e = front \o (bs \o e)
      BY Regrouped
    <3>2. (b \o s) \o e = b \o (s \o e)
      BY Regrouped
    <3> QED BY <3>1, <3>2
  <2>10. Words(Append(fs, f)) = front \o (b \o (s \o e))
    BY <1>7, <2>7, <2>8, <2>9
  <2>11. Splits(sent', Len(yielded'), buffer', stream')
    BY <1>1, <1>2, <1>3, <1>4, <2>1, <2>3, <2>6, <2>10 DEF Splits
  <2>12. CASE k < n
    <3>1. Append(fs, f)[k + 1] = fs[k + 1]
      BY <2>12, <2>2
    <3>2. Len(buffer) < Len(Encode(fs[k + 1]))
      BY <2>12, <2>1, <1>3, <1>9 DEF Sound
    <3>3. Len(buffer') < Len(Encode(sent'[Len(yielded') + 1]))
      BY <3>1, <3>2, <1>1, <1>3, <2>1
    <3> QED BY <3>3, <2>4, <2>11, <1>1, SoundNext
  <2>13. CASE k = n
    <3>1. Splits(fs, k, b, s)
      BY <2>1, <1>3, <1>4, <1>9 DEF Sound
    <3>2. b = << >>
      BY <3>1, <2>1, <2>13, <1>1, NextFrameIsAhead
    <3>3. Append(fs, f)[k + 1] = f
      BY <2>13, <2>2
    <3>4. Len(e) = HeaderWords + Len(f.payload) /\ Len(f.payload) \in Nat
          /\ HeaderWords \in {2, 6}
      BY <1>1, <1>2, EncodedFrame, HeaderType
    <3>5. Len(b) < Len(e)
      BY <3>2, <3>4
    <3>6. Len(buffer') < Len(Encode(sent'[Len(yielded') + 1]))
      BY <3>3, <3>5, <1>1, <1>2, <1>3, <1>4, <2>1
    <3> QED BY <3>6, <2>4, <2>11, <1>1, SoundNext
  <2> QED BY <2>1, <2>12, <2>13
<1> QED BY <1>1, <1>6, <1>8, <1>9 DEF DecodersInv

(* A chunk arrives: PushKeeps, in step or not.                             *)
LEMMA ArrivesStep ==
  ASSUME DecodersInv, NEW n \in 1 .. Len(stream), Arrives(n)
  PROVE  DecodersInv'
<1>1. /\ decoder \in {"frame", "adb"} /\ decoder' = decoder /\ phase' = phase
      /\ sent' = sent /\ sent \in Seq(Frames) /\ stream \in Seq(Nat) /\ buffer \in Seq(Nat)
      /\ yielded \in Seq(Frame)
      /\ early' = (early \/ phase = "opening") /\ early \in BOOLEAN
      /\ phase \in {"closed", "opening", "open"}
  BY DEF DecodersInv, DecodersTypeOK, Arrives
<1>2. PICK chunk \in Seq(Nat), tail \in Seq(Nat) :
        /\ chunk = SubSeq(stream, 1, n) /\ tail = SubSeq(stream, n + 1, Len(stream))
        /\ stream = chunk \o tail
  <2>1. PICK s \in Seq(Nat), m \in Nat : s = stream /\ m = Len(s) /\ n \in 1 .. m
    BY <1>1
  <2>2. \A i \in 1 .. m : s[i] \in Nat
    BY <2>1
  <2>3. SubSeq(s, 1, n) \in Seq(Nat) /\ SubSeq(s, n + 1, m) \in Seq(Nat)
    BY <2>1, <2>2
  <2>4. SubSeq(s, 1, n) \o SubSeq(s, n + 1, m) = SubSeq(s, 1, m) /\ SubSeq(s, 1, m) = s
    BY <2>1
  <2> QED BY <2>1, <2>3, <2>4
<1>3. PICK words \in Seq(Nat) : words = buffer \o chunk
  BY <1>1, ConcatProperties
<1>4. buffer' = Rounds(words).rest /\ yielded' = yielded \o Rounds(words).frames
      /\ stream' = tail
  BY <1>2, <1>3 DEF Arrives, Push
<1>5. Rounds(words) \in [frames: Seq(Frame), rest: Seq(Nat)]
  <2>1. PICK I : I = [frames: Seq(Frame), rest: Seq(Nat)]
    OBVIOUS
  <2>2. I \subseteq [frames: Seq(Frame), rest: Seq(Nat)]
        /\ [frames |-> << >>, rest |-> words] \in I
    BY <2>1, EmptySeq
  <2>3. \A r \in I : Round(r) \in I
    BY <2>1, <1>1, RoundType
  <2> QED BY <1>1, <2>1, <2>2, <2>3, RoundsEstablish
<1>6. DecodersTypeOK'
  <2>1. PICK r \in [frames: Seq(Frame), rest: Seq(Nat)] : r = Rounds(words)
    BY <1>5
  <2>2. PICK a \in Seq(Frame), c \in Seq(Frame) : a = yielded /\ c = r.frames
    BY <1>1
  <2>3. a \o c \in Seq(Frame)
    BY ConcatProperties
  <2>4. yielded' \in Seq(Frame) /\ buffer' \in Seq(Nat)
    BY <2>1, <2>2, <2>3, <1>4
  <2> QED BY <2>4, <1>1, <1>2, <1>4 DEF DecodersTypeOK
<1>7. ASSUME Sound PROVE Sound'
  <2>1. PICK fs \in Seq(Frames), given \in Seq(Frame) : fs = sent /\ given = yielded
    BY <1>1
  <2>2. Leads(given, fs) /\ Splits(fs, Len(given), buffer, stream)
    BY <2>1, <1>7 DEF Sound
  <2>3. words \o tail = buffer \o stream
    <3>1. PICK b \in Seq(Nat) : b = buffer
      BY <1>1
    <3>2. (b \o chunk) \o tail = b \o (chunk \o tail)
      BY Regrouped
    <3> QED BY <3>1, <3>2, <1>2, <1>3
  <2>4. Splits(fs, Len(given), words, tail)
    BY <2>2, <2>3 DEF Splits
  <2>5. PICK last, y, rest : /\ last = Rounds(words) /\ y = given \o last.frames
                              /\ rest = last.rest
    OBVIOUS
  <2>6. /\ Leads(y, fs)
        /\ Splits(fs, Len(y), rest, tail)
        /\ Len(y) < Len(fs) => Len(rest) < Len(Encode(fs[Len(y) + 1]))
    BY <2>2, <2>4, <2>5, <1>1, PushKeeps
  <2>7. yielded' = y /\ buffer' = rest /\ sent' = fs
    BY <2>1, <2>5, <1>1, <1>4
  <2> QED BY <2>6, <2>7, <1>1, <1>4, SoundNext
<1> QED BY <1>1, <1>6, <1>7 DEF DecodersInv

(* One lemma per action.                                                   *)
LEMMA DecodersStep == ASSUME DecodersInv, Next PROVE DecodersInv'
  BY BeginOpenStep, OpenedStep, ClosesStep, DeviceSendsStep, ArrivesStep DEF Next

(* The two properties of the decoders are read off the invariant.          *)
LEMMA DecodersRead == DecodersInv => FramesArriveIntact /\ NothingIsHeldBack
<1> SUFFICES ASSUME DecodersInv, InStep
             PROVE  /\ IsPrefix(yielded, sent)
                    /\ Words(sent) = Words(yielded) \o buffer \o stream
                    /\ Len(yielded) + 1 <= Len(sent) =>
                         Len(buffer) < Len(Encode(sent[Len(yielded) + 1]))
  BY DEF FramesArriveIntact, NothingIsHeldBack
<1>1. /\ decoder \in {"frame", "adb"}
      /\ sent \in Seq(Frames) /\ stream \in Seq(Nat) /\ buffer \in Seq(Nat)
      /\ yielded \in Seq(Frame)
  BY DEF DecodersInv, DecodersTypeOK
<1>2. Sound
  BY <1>1 DEF DecodersInv, InStep
<1>3. PICK k \in Nat, m \in Nat : k = Len(yielded) /\ m = Len(sent) /\ k <= m
  <2>1. Len(yielded) \in Nat /\ Len(sent) \in Nat
    BY <1>1
  <2>2. Len(yielded) <= Len(sent)
    BY <1>2 DEF Sound, Leads
  <2> QED BY <2>1, <2>2
<1>4. yielded = SubSeq(sent, 1, k) /\ SubSeq(yielded, 1, k) = yielded
  BY <1>1, <1>2, <1>3, SubSeqFull DEF Sound, Leads
<1>5. IsPrefix(yielded, sent)
  BY <1>3, <1>4 DEF IsPrefix
<1>6. PICK front \in Seq(Nat) : front = Words(yielded)
  <2>1. SubSeq(sent, 1, k) \in Seq(Frames)
    BY <1>1, <1>3
  <2> QED BY <2>1, <1>1, <1>4, WordsType
<1>7. Words(sent) = front \o (buffer \o stream)
  BY <1>2, <1>3, <1>4, <1>6 DEF Sound, Splits
<1>8. (front \o buffer) \o stream = front \o (buffer \o stream)
  BY <1>1, <1>6, Regrouped
<1>9. Len(yielded) + 1 <= Len(sent) => Len(buffer) < Len(Encode(sent[Len(yielded) + 1]))
  BY <1>2, <1>3 DEF Sound
<1> QED BY <1>5, <1>6, <1>7, <1>8, <1>9

-----------------------------------------------------------------------------
(* Init of either part.                                                    *)
LEMMA CodecStart == CodecInit => DecodersInv /\ BleInv
  BY DecodersStart, BleStart DEF CodecInit

(* A step is a step of one part and leaves the other alone.                *)
LEMMA CodecStep ==
  ASSUME DecodersInv, BleInv, [CodecNext]_<<vars, bleVars, kind>>
  PROVE  (DecodersInv /\ BleInv)'
<1>1. CASE BleNext /\ UNCHANGED vars
  <2>1. DecodersInv'
    BY <1>1, DecodersUnchanged
  <2>2. BleInv'
    BY <1>1, CommandsStep, CancelStep, ChunkStep DEF BleNext
  <2> QED BY <2>1, <2>2
<1>2. CASE Next /\ UNCHANGED bleVars
  <2>1. DecodersInv'
    BY <1>2, DecodersStep
  <2>2. BleInv'
    BY <1>2, BleUnchanged
  <2> QED BY <2>1, <2>2
<1>3. CASE UNCHANGED <<vars, bleVars, kind>>
  <2>1. UNCHANGED vars /\ UNCHANGED bleVars
    BY <1>3
  <2> QED BY <2>1, DecodersUnchanged, BleUnchanged
<1> QED BY <1>1, <1>2, <1>3 DEF CodecNext

(* The invariant of the codecs, inductive as it stands.                    *)
THEOREM CodecsInvariance == CodecSpec => [](DecodersInv /\ BleInv)
<1>1. CodecInit => DecodersInv /\ BleInv
  BY CodecStart
<1>2. (DecodersInv /\ BleInv) /\ [CodecNext]_<<vars, bleVars, kind>> => (DecodersInv /\ BleInv)'
  BY CodecStep
<1> QED BY <1>1, <1>2, PTL DEF CodecSpec

(* FrameDecoder.push and AdbMessageDecoder.push: on every connection the   *)
(* decoder yields the frames the device sent, in order and unchanged,      *)
(* wherever the chunks were cut.                                           *)
THEOREM DecodersYieldWhatWasSent == CodecSpec => []FramesArriveIntact
<1>1. DecodersInv /\ BleInv => FramesArriveIntact
  BY DecodersRead
<1> QED BY <1>1, CodecsInvariance, PTL

(* push loses, repeats and withholds no word of what arrived.              *)
THEOREM DecodersHoldNothingBack == CodecSpec => []NothingIsHeldBack
<1>1. DecodersInv /\ BleInv => NothingIsHeldBack
  BY DecodersRead
<1> QED BY <1>1, CodecsInvariance, PTL

(* decodeBleFrame reads every frame that encodeBleCommand and              *)
(* encodeBleData wrote as what it was, and takes none for another.         *)
THEOREM BleFramesReadBack == CodecSpec => []FramesReadBack
<1>1. DecodersInv /\ BleInv => FramesReadBack
  BY BleReads
<1> QED BY <1>1, CodecsInvariance, PTL

(* decodeBleFrame refuses every frame that was broken off.                 *)
THEOREM BleBrokenFramesAreRefused == CodecSpec => []BrokenFramesAreRefused
<1>1. DecodersInv /\ BleInv => BrokenFramesAreRefused
  BY BleReads
<1> QED BY <1>1, CodecsInvariance, PTL

(* bleDataFrames cuts the payload without gap or overlap; unless it is     *)
(* cancelled it goes on to the end, or throws before its first data frame. *)
THEOREM BleTransferIsWhole == CodecSpec => []TransferIsWhole
<1>1. DecodersInv /\ BleInv => TransferIsWhole
  BY BleReads
<1> QED BY <1>1, CodecsInvariance, PTL
=============================================================================
