---------------------------- MODULE XtensaProofs ----------------------------
(***************************************************************************)
(* The decoder.  First what the core (module Cpu) assumes of it: that it   *)
(* is total and well typed.  Then what it makes of each word: windowed     *)
(* code is refused, targets are in reach, decoding can be undone, narrow   *)
(* forms are synonyms of wide ones, and mnemonics name the word.  Each is  *)
(* a fact about Decode at every word and address, table by table, which    *)
(* DecodedInv carries over to the behaviours of DecoderSpec.               *)
(***************************************************************************)
EXTENDS Xtensa, TLAPS

LEMMA DigitType ==
    ASSUME NEW v \in Nat, NEW n \in Nat, n > 0
    PROVE  v % n \in 0 .. n - 1 /\ v % n \in Nat
  BY SMT

(* Fields are digits of the word. *)
LEMMA FieldTypes ==
    ASSUME NEW w \in Nat
    PROVE  /\ T(w) \in Reg /\ S(w) \in Reg /\ R(w) \in Reg
           /\ Imm8(w) \in 0 .. 255 /\ M(w) \in 0 .. 3 /\ N(w) \in 0 .. 3
<1>1. w \div 16 \in Nat /\ w \div 64 \in Nat /\ w \div 256 \in Nat  BY SMT
<1>2. w \div 4096 \in Nat /\ w \div 65536 \in Nat  BY SMT
<1>3. T(w) \in Reg /\ S(w) \in Reg  BY <1>1, DigitType, SMT DEF T, S, Reg
<1>4. R(w) \in Reg /\ Imm8(w) \in 0 .. 255  BY <1>2, DigitType, SMT DEF R, Imm8, Reg
<1>5. M(w) \in 0 .. 3 /\ N(w) \in 0 .. 3  BY <1>1, DigitType, SMT DEF M, N
<1> QED BY <1>3, <1>4, <1>5

LEMMA OffsetTypes ==
    ASSUME NEW w \in Nat
    PROVE  Imm12(w) \in Nat /\ Imm16(w) \in Nat /\ Offset18(w) \in Nat
<1>1. w \div 64 \in Nat /\ w \div 256 \in Nat /\ w \div 4096 \in Nat  BY SMT
<1> QED BY <1>1, DigitType, SMT DEF Imm12, Imm16, Offset18

LEMMA SpaceSize == WORD \in Nat /\ WORD >= 1 /\ Word \subseteq Int
  BY SpaceAssumption, SMT DEF Word

LEMMA WrapType ==
    ASSUME NEW i \in Int
    PROVE  Wrap(i) \in Word
  BY SpaceSize, SMT DEF Wrap, Word

LEMMA RelativeType ==
    ASSUME NEW pc \in Int, NEW offset \in Int
    PROVE  Relative(pc, offset) \in Word
  BY WrapType DEF Relative

LEMMA SignExtendType ==
    ASSUME NEW value \in Nat, NEW range \in Nat
    PROVE  SignExtend(value, range) \in Int
  BY SMT DEF SignExtend

(* Small immediates are words: the address space is not that small. *)
LEMMA SmallIsWord ==
    ASSUME NEW i \in Nat, i < 1024
    PROVE  i \in Word
<1>1. WORD >= 1048576  BY SpaceAssumption, SMT
<1> QED BY <1>1, SpaceSize, SMT DEF Word

LEMMA QrstType ==
    ASSUME NEW w \in Nat
    PROVE  DecodeQrst(w) \in Inst \cup Undecodable
<1> USE DEF Inst, InstOver, Undecodable, AluOp
<1>1. T(w) \in Reg /\ S(w) \in Reg /\ R(w) \in Reg  BY FieldTypes
<1>2. DecodeSnm0(w) \in Inst \cup Undecodable  BY <1>1 DEF DecodeSnm0
<1>3. DecodeSync(w) \in Inst \cup Undecodable  BY DEF DecodeSync
<1>4. DecodeSt0(w) \in Inst \cup Undecodable  BY <1>2, <1>3 DEF DecodeSt0
<1>5. \A alu \in AluOp : Alu(alu, w) \in Inst  BY <1>1 DEF Alu
<1> QED BY <1>4, <1>5 DEF DecodeQrst

LEMMA L32rType ==
    ASSUME NEW pc \in Word, NEW w \in Nat
    PROVE  DecodeL32r(pc, w) \in Inst
<1> USE DEF Inst, InstOver
<1>1. T(w) \in Reg /\ Imm16(w) \in Nat  BY FieldTypes, OffsetTypes
<1>2. pc \in Int  BY SpaceSize
<1>3. Wrap(pc + 3) \in Int
  <2>1. pc + 3 \in Int  BY <1>2
  <2>2. Wrap(pc + 3) \in Word  BY <2>1, WrapType
  <2> QED BY <2>2, SpaceSize
<1>4. WordAligned(Wrap(pc + 3)) + 4 * Imm16(w) - 262144 \in Int
  BY <1>1, <1>3, SMT DEF WordAligned
<1>5. Wrap(WordAligned(Wrap(pc + 3)) + 4 * Imm16(w) - 262144) \in Word
  BY <1>4, WrapType, SMT
<1> QED BY <1>1, <1>5, SMT DEF DecodeL32r

LEMMA LsaiType ==
    ASSUME NEW w \in Nat
    PROVE  DecodeLsai(w) \in Inst \cup Undecodable
<1> USE DEF Inst, InstOver, Undecodable, LoadKind, StoreKind
<1>1. T(w) \in Reg /\ S(w) \in Reg /\ Imm8(w) \in 0 .. 255  BY FieldTypes
<1>2. \A scale \in {1, 2, 4} : Imm8(w) * scale \in Word  BY <1>1, SmallIsWord, SMT
<1>3. \A kind \in LoadKind, scale \in {1, 2, 4} : LoadFrom(kind, scale, w) \in Inst
  BY <1>1, <1>2 DEF LoadFrom
<1>4. \A kind \in StoreKind, scale \in {1, 2, 4} : StoreTo(kind, scale, w) \in Inst
  BY <1>1, <1>2 DEF StoreTo
<1>5. \A scale \in {1, 256} : AddImm(w, scale) \in Inst
  <2>1. \A scale \in {1, 256} : SignExtend(Imm8(w), 256) * scale \in Int
    BY <1>1 DEF SignExtend
  <2> QED BY <1>1, <2>1, WrapType DEF AddImm
<1>6. Wrap(SignExtend(S(w) * 256 + Imm8(w), 4096)) \in Word
  <2>1. S(w) * 256 + Imm8(w) \in Nat  BY <1>1, SMT DEF Reg
  <2>2. SignExtend(S(w) * 256 + Imm8(w), 4096) \in Int  BY <2>1, SMT DEF SignExtend
  <2> QED BY <2>2, WrapType
<1> QED BY <1>1, <1>3, <1>4, <1>5, <1>6 DEF DecodeLsai

LEMMA ControlType ==
    ASSUME NEW pc \in Word, NEW w \in Nat
    PROVE  /\ DecodeCall(pc, w) \in Inst \cup Undecodable
           /\ DecodeSi(pc, w) \in Inst \cup Undecodable
           /\ DecodeB(pc, w) \in Inst \cup Undecodable
<1> USE DEF Inst, InstOver, Undecodable, Cond, ZeroCond
<1>1. /\ T(w) \in Reg /\ S(w) \in Reg /\ M(w) \in 0 .. 3
      /\ Imm8(w) \in Nat /\ Imm12(w) \in Nat /\ Offset18(w) \in Nat
  <2>1. T(w) \in Reg /\ S(w) \in Reg /\ M(w) \in 0 .. 3  BY FieldTypes
  <2>2. Imm8(w) \in 0 .. 255  BY FieldTypes
  <2>3. Imm8(w) \in Nat  BY <2>2
  <2>4. Imm12(w) \in Nat /\ Offset18(w) \in Nat  BY OffsetTypes
  <2> QED BY <2>1, <2>3, <2>4
<1>2. pc \in Int /\ WordAligned(pc) \in Int  BY SpaceSize, SMT DEF WordAligned
<1>3. /\ SignExtend(Offset18(w), 262144) \in Int /\ SignExtend(Offset18(w), 262144) * 4 \in Int
      /\ SignExtend(Imm12(w), 4096) \in Int /\ SignExtend(Imm8(w), 256) \in Int
  BY <1>1, SMT DEF SignExtend
<1>4. /\ Relative(WordAligned(pc), SignExtend(Offset18(w), 262144) * 4) \in Word
      /\ Relative(pc, SignExtend(Offset18(w), 262144)) \in Word
      /\ Relative(pc, SignExtend(Imm12(w), 4096)) \in Word
      /\ Relative(pc, SignExtend(Imm8(w), 256)) \in Word
  BY <1>2, <1>3, RelativeType, SMT
<1>5. DecodeCall(pc, w) \in Inst \cup Undecodable  BY <1>4, SMT DEF DecodeCall
<1>6. DecodeSi(pc, w) \in Inst \cup Undecodable  BY <1>1, <1>4, SMT DEF DecodeSi
<1>7. DecodeB(pc, w) \in Inst \cup Undecodable  BY <1>1, <1>4, SMT DEF DecodeB
<1> QED BY <1>5, <1>6, <1>7

LEMMA NarrowType ==
    ASSUME NEW pc \in Word, NEW w \in Nat
    PROVE  Decode16(pc, w) \in Inst \cup Undecodable
<1> USE DEF Inst, InstOver, Undecodable
<1>1. T(w) \in Reg /\ S(w) \in Reg /\ R(w) \in Reg  BY FieldTypes
<1>2. pc \in Int  BY SpaceSize
<1>3. R(w) * 4 \in Word  BY <1>1, SmallIsWord, SMT DEF Reg
<1>4. Alu("Add", w) \in Inst  BY <1>1 DEF Alu, AluOp
<1>5. Wrap(IF T(w) = 0 THEN -1 ELSE T(w)) \in Word  BY <1>1, WrapType DEF Reg
<1>6. DecodeMoviN(w) \in Inst
  <2>1. (T(w) % 8) * 16 + R(w) \in Int  BY <1>1 DEF Reg
  <2> QED BY <1>1, <2>1, WrapType DEF DecodeMoviN
<1>7. DecodeSt2(pc, w) \in Inst
  <2>1. (T(w) % 4) * 16 + R(w) \in Int  BY <1>1 DEF Reg
  <2>2. Relative(pc, (T(w) % 4) * 16 + R(w)) \in Word  BY <1>2, <2>1, RelativeType, SMT
  <2> QED BY <1>1, <1>6, <2>2 DEF DecodeSt2, ZeroCond
<1>8. DecodeSt3(w) \in Inst \cup Undecodable  BY <1>1 DEF DecodeSt3
<1> QED BY <1>1, <1>3, <1>4, <1>5, <1>7, <1>8 DEF Decode16, LoadKind, StoreKind

(* The decoder is total and well typed: whatever bytes are fetched from    *)
(* wherever, the result is an instruction over the sixteen registers whose *)
(* immediates are words, or one of the two refusals.  It is what           *)
(* DecoderAssumption of module Cpu asks of the decoder it is given.        *)
THEOREM DecodeIsTotal ==
    ASSUME NEW pc \in Word, NEW w \in Nat, NEW size \in {2, 3}
    PROVE  Decode(pc, w, size) \in Inst \cup Undecodable
<1>1. Decode24(pc, w) \in Inst \cup Undecodable
  BY QrstType, L32rType, LsaiType, ControlType DEF Decode24, Undecodable
<1> QED BY <1>1, NarrowType DEF Decode

(* Nothing outside these sets is ever decoded: the type invariant. *)
THEOREM DecoderTyping == DecoderSpec => []DecoderTypeOK
<1>1. DecoderInit => DecoderTypeOK
  BY InputAssumption, SMT DEF DecoderInit, DecoderTypeOK, Fetched, Undecoded
<1>2. DecoderTypeOK /\ [DecodeStep]_decoderVars => DecoderTypeOK'
  <2>1. CASE UNCHANGED decoderVars
    BY <2>1, SMT DEF decoderVars, DecoderTypeOK, Fetched
  <2>2. CASE DecodeStep
    <3> SUFFICES ASSUME DecoderTypeOK PROVE DecoderTypeOK'  BY <2>2
    <3>1. at \in Word /\ word \in Nat /\ Size \in {2, 3}
      BY SMT DEF DecoderTypeOK, Fetched, Size, InstSize
    <3>2. Decode(at, word, Size) \in Inst \cup Undecodable  BY <3>1, DecodeIsTotal
    <3> QED BY <2>2, <3>2, SMT DEF DecodeStep, DecoderTypeOK, Fetched
  <2> QED BY <2>1, <2>2
<1> QED BY <1>1, <1>2, PTL DEF DecoderSpec

-----------------------------------------------------------------------------
(* What has been decoded is Decode of the word, and well typed. *)
DecodedInv ==
    /\ DecoderTypeOK
    /\ result # Undecoded => result = Decode(at, word, Size)

THEOREM DecodedInductive == DecoderSpec => []DecodedInv
<1>1. DecoderInit => (result # Undecoded => result = Decode(at, word, Size))
  BY DEF DecoderInit
<1>2. /\ result # Undecoded => result = Decode(at, word, Size)
      /\ [DecodeStep]_decoderVars
      => (result # Undecoded => result = Decode(at, word, Size))'
  BY DEF DecodeStep, decoderVars, Size
<1> QED BY <1>1, <1>2, DecoderTyping, PTL DEF DecoderSpec, DecodedInv

LEMMA DecodedFacts ==
    ASSUME DecodedInv
    PROVE  at \in Word /\ word \in Nat /\ Size = (IF IsNarrow(word % 256) THEN 2 ELSE 3)
  BY SMT DEF DecodedInv, DecoderTypeOK, Fetched, Size, InstSize

(* Narrow words are those whose first digit is 8 or more. *)
LEMMA NarrowByDigit ==
    ASSUME NEW w \in Nat
    PROVE  IsNarrow(w % 256) <=> Op0(w) >= 8
<1>1. ((w % 256) \div 8) % 2 = 1 <=> w % 16 >= 8
  BY SMT
<1> QED BY <1>1 DEF IsNarrow, Op0

-----------------------------------------------------------------------------
LEMMA WindowedWords ==
    ASSUME NEW pc \in Word, NEW w \in Nat, Windowed(w)
    PROVE  Decode(pc, w, IF IsNarrow(w % 256) THEN 2 ELSE 3) = Unsupported
<1>1. CASE Op0(w) = 5 /\ N(w) # 0
  <2>1. ~ IsNarrow(w % 256)  BY <1>1, NarrowByDigit
  <2> QED BY <1>1, <2>1 DEF Decode, Decode24, DecodeCall
<1>2. CASE Op0(w) = 0 /\ R(w) = 0 /\ Imm8(w) = 0 /\ T(w) \in {9, 13, 14, 15}
  <2>1. ~ IsNarrow(w % 256)  BY <1>2, NarrowByDigit
  <2>2. Op1(w) = 0 /\ Op2(w) = 0
    BY <1>2, SMT DEF Imm8, Op1, Op2
  <2>3. DecodeSnm0(w) = Unsupported  BY <1>2, SMT DEF DecodeSnm0
  <2> QED BY <1>2, <2>1, <2>2, <2>3 DEF Decode, Decode24, DecodeQrst, DecodeSt0
<1>3. CASE Op0(w) = 0 /\ R(w) = 1 /\ Imm8(w) = 0
  <2>1. ~ IsNarrow(w % 256)  BY <1>3, NarrowByDigit
  <2>2. Op1(w) = 0 /\ Op2(w) = 0
    BY <1>3, SMT DEF Imm8, Op1, Op2
  <2> QED BY <1>3, <2>1, <2>2 DEF Decode, Decode24, DecodeQrst, DecodeSt0
<1>4. CASE Op0(w) = 6 /\ T(w) = 3
  <2>1. ~ IsNarrow(w % 256)  BY <1>4, NarrowByDigit
  <2>2. N(w) = 3  BY <1>4, SMT DEF N, T
  <2> QED BY <1>4, <2>1, <2>2 DEF Decode, Decode24, DecodeSi
<1>5. CASE Op0(w) = 13 /\ R(w) = 15 /\ T(w) = 1
  <2>1. IsNarrow(w % 256)  BY <1>5, NarrowByDigit
  <2> QED BY <1>5, <2>1 DEF Decode, Decode16, DecodeSt3
<1> QED BY <1>1, <1>2, <1>3, <1>4, <1>5 DEF Windowed

LEMMA ZeroWord ==
    ASSUME NEW pc \in Word
    PROVE  Decode(pc, 0, IF IsNarrow(0 % 256) THEN 2 ELSE 3) = Illegal
<1>1. 0 % 256 = 0 /\ ~ IsNarrow(0)  BY SMT DEF IsNarrow
<1>2. Op0(0) = 0 /\ Op1(0) = 0 /\ Op2(0) = 0 /\ R(0) = 0 /\ T(0) \div 4 = 0
  BY SMT DEF Op0, Op1, Op2, R, T
<1> QED BY <1>1, <1>2 DEF Decode, Decode24, DecodeQrst, DecodeSt0, DecodeSnm0

(* For every word: code for the windowed ABI is refused, never taken for   *)
(* the Call0 instruction next to it in the tables.                         *)
THEOREM WindowedIsRefused == DecoderSpec => []WindowedCodeIsRefused
<1>1. DecodedInv => WindowedCodeIsRefused
  <2> SUFFICES ASSUME DecodedInv, result # Undecoded
               PROVE  /\ Windowed(word) => result = Unsupported
                      /\ word = 0 => result = Illegal
    BY DEF WindowedCodeIsRefused
  <2>1. result = Decode(at, word, IF IsNarrow(word % 256) THEN 2 ELSE 3)
    BY DecodedFacts DEF DecodedInv
  <2> QED BY <2>1, DecodedFacts, WindowedWords, ZeroWord
<1> QED BY <1>1, DecodedInductive, PTL

-----------------------------------------------------------------------------
(* Arithmetic modulo the address space. *)
LEMMA WrapQuotient ==
    ASSUME NEW i \in Int
    PROVE  /\ Wrap(i) \in 0 .. WORD - 1
           /\ \E k \in Int : Wrap(i) = i + k * WORD
<1>1. WORD \in Nat /\ WORD > 0  BY SpaceSize
<1>2. i % WORD \in 0 .. WORD - 1 /\ i = WORD * (i \div WORD) + (i % WORD) /\ i \div WORD \in Int
  BY <1>1, SMT
<1>3. i % WORD = i + (- (i \div WORD)) * WORD /\ - (i \div WORD) \in Int
  BY <1>1, <1>2, SMT
<1> QED BY <1>2, <1>3 DEF Wrap

(* A word is determined by any number it is congruent to. *)
LEMMA WrapUnique ==
    ASSUME NEW i \in Int, NEW x \in 0 .. WORD - 1, NEW k \in Int, x = i + k * WORD
    PROVE  Wrap(i) = x
<1>1. WORD \in Nat /\ WORD > 0  BY SpaceSize
<1>2. PICK j \in Int : Wrap(i) = i + j * WORD  BY WrapQuotient
<1>3. Wrap(i) \in 0 .. WORD - 1  BY WrapQuotient
<1>4. Wrap(i) - x = (j - k) * WORD  BY <1>1, <1>2, SMT
<1>5. j - k <= 0
  <2>1. SUFFICES ASSUME j - k >= 1 PROVE FALSE  BY SMT
  <2>2. (j - k) * WORD >= WORD  BY <2>1, <1>1, SMT
  <2> QED BY <1>1, <1>3, <1>4, <2>2, SMT
<1>6. j - k >= 0
  <2>1. SUFFICES ASSUME j - k <= -1 PROVE FALSE  BY SMT
  <2>2. (j - k) * WORD <= - WORD  BY <2>1, <1>1, SMT
  <2> QED BY <1>1, <1>3, <1>4, <2>2, SMT
<1>7. j = k  BY <1>5, <1>6, SMT
<1> QED BY <1>1, <1>2, <1>7, SMT

LEMMA WrapCongruent ==
    ASSUME NEW i \in Int, NEW j \in Int, NEW k \in Int, i = j + k * WORD
    PROVE  Wrap(i) = Wrap(j)
<1>1. WORD \in Nat /\ WORD > 0  BY SpaceSize
<1>2. PICK m \in Int : Wrap(i) = i + m * WORD  BY WrapQuotient
<1>3. Wrap(i) = j + (k + m) * WORD  BY <1>1, <1>2, SMT
<1> QED BY <1>3, WrapUnique, WrapQuotient, SMT

(* Wrapping on the way makes no difference. *)
LEMMA WrapSum ==
    ASSUME NEW i \in Int, NEW j \in Int
    PROVE  Wrap(Wrap(i) + j) = Wrap(i + j)
<1>1. WORD \in Nat /\ WORD > 0  BY SpaceSize
<1>2. PICK k \in Int : Wrap(i) = i + k * WORD  BY WrapQuotient
<1>3. Wrap(i) + j \in Int /\ Wrap(i) + j = (i + j) + k * WORD  BY <1>1, <1>2, SMT
<1> QED BY <1>3, WrapCongruent, SMT

(* The way from an address to the one d further on is d, if that is less   *)
(* than half the space.                                                    *)
LEMMA DistanceIs ==
    ASSUME NEW from \in Int, NEW d \in Int, - (WORD \div 2) <= d, d < WORD \div 2
    PROVE  Distance(Wrap(from + d), from) = d
<1>1. WORD \in Nat /\ WORD > 0 /\ WORD \div 2 \in Nat /\ 2 * (WORD \div 2) = WORD
  BY SpaceAssumption, SMT
<1>2. Wrap(Wrap(from + d) - from) = Wrap(d)
  <2>1. Wrap(Wrap(from + d) + (- from)) = Wrap((from + d) + (- from))
    BY WrapSum, SMT
  <2>2. (from + d) + (- from) = d  BY SMT
  <2>3. Wrap(from + d) \in Int  BY WrapQuotient, <1>1
  <2>4. Wrap(from + d) + (- from) = Wrap(from + d) - from  BY <2>3, SMT
  <2> QED BY <2>1, <2>2, <2>4
<1>3. CASE d >= 0
  <2>1. Wrap(d) = d
    <3>1. d \in 0 .. WORD - 1 /\ d = d + 0 * WORD  BY <1>1, <1>3, SMT
    <3> QED BY <3>1, WrapUnique
  <2> QED BY <1>1, <1>2, <1>3, <2>1, SMT DEF Distance, Number, SignExtend
<1>4. CASE d < 0
  <2>1. Wrap(d) = d + WORD
    <3>1. d + WORD \in 0 .. WORD - 1 /\ d + WORD = d + 1 * WORD  BY <1>1, <1>4, SMT
    <3> QED BY <3>1, WrapUnique
  <2>2. d + WORD >= WORD \div 2  BY <1>1, SMT
  <2> QED BY <1>1, <1>2, <2>1, <2>2, SMT DEF Distance, Number, SignExtend
<1> QED BY <1>3, <1>4

LEMMA WrapAligned ==
    ASSUME NEW i \in Int, i % 4 = 0
    PROVE  Wrap(i) % 4 = 0
<1>1. WORD \in Nat /\ WORD > 0 /\ WORD % 4 = 0  BY SpaceAssumption, SMT
<1>2. PICK m \in Int : WORD = 4 * m  BY <1>1, SMT
<1>3. PICK k \in Int : Wrap(i) = i + k * WORD  BY WrapQuotient
<1>4. PICK j \in Int : i = 4 * j  BY SMT
<1>5. Wrap(i) = 4 * (j + k * m)  BY <1>2, <1>3, <1>4, SMT
<1>6. j + k * m \in Int  OBVIOUS
<1> QED BY <1>5, <1>6, SMT

-----------------------------------------------------------------------------
(* TargetsInReach, of one instruction. *)
Reaches(i, a, size) ==
    /\ i.op = "L32r" =>
          /\ i.literal % 4 = 0
          /\ Between(-262144, Distance(i.literal, WordAligned(a + 3)), -4)
    /\ i.op = "Jump" => Between(-131072, Distance(i.target, a + 4), 131071)
    /\ i.op = "Call" =>
          i.target % 4 = 0 /\ Between(-524291, Distance(i.target, a + 4), 524284)
    /\ i.op = "Branch" => Between(-128, Distance(i.target, a + 4), 127)
    /\ i.op = "BranchZero" =>
          IF size = 2 THEN Between(4, Distance(i.target, a), 67)
          ELSE Between(-2048, Distance(i.target, a + 4), 2047)

Targeted == {"L32r", "Jump", "Call", "Branch", "BranchZero"}

LEMMA HalfSpace == WORD \div 2 \in Nat /\ WORD \div 2 > 524291 /\ Word \subseteq Int
<1>1. WORD \div 2 \in Nat /\ WORD \div 2 > 524291  BY SpaceAssumption, SMT
<1> QED BY <1>1, SpaceSize, SMT

LEMMA OffsetRanges ==
    ASSUME NEW w \in Nat
    PROVE  /\ SignExtend(Offset18(w), 262144) \in Int
           /\ Between(-131072, SignExtend(Offset18(w), 262144), 131071)
           /\ SignExtend(Imm12(w), 4096) \in Int
           /\ Between(-2048, SignExtend(Imm12(w), 4096), 2047)
           /\ SignExtend(Imm8(w), 256) \in Int
           /\ Between(-128, SignExtend(Imm8(w), 256), 127)
           /\ Imm16(w) \in Int /\ Between(0, Imm16(w), 65535)
<1>1. /\ w \div 64 \in Nat /\ w \div 256 \in Nat /\ w \div 4096 \in Nat
      /\ w \div 65536 \in Nat
  BY SMT
<1>2. Offset18(w) \in Nat /\ Offset18(w) < 262144  BY <1>1, SMT DEF Offset18
<1>3. Imm12(w) \in Nat /\ Imm12(w) < 4096  BY <1>1, SMT DEF Imm12
<1>4. Imm8(w) \in Nat /\ Imm8(w) < 256  BY <1>1, SMT DEF Imm8
<1>5. Imm16(w) \in Int /\ Between(0, Imm16(w), 65535)  BY <1>1, SMT DEF Imm16, Between
<1>6. /\ SignExtend(Offset18(w), 262144) \in Int
      /\ Between(-131072, SignExtend(Offset18(w), 262144), 131071)
  BY <1>2, SMT DEF SignExtend, Between
<1>7. /\ SignExtend(Imm12(w), 4096) \in Int
      /\ Between(-2048, SignExtend(Imm12(w), 4096), 2047)
  BY <1>3, SMT DEF SignExtend, Between
<1>8. /\ SignExtend(Imm8(w), 256) \in Int
      /\ Between(-128, SignExtend(Imm8(w), 256), 127)
  BY <1>4, SMT DEF SignExtend, Between
<1> QED BY <1>5, <1>6, <1>7, <1>8, SMT

LEMMA RelativeReach ==
    ASSUME NEW a \in Word, NEW d \in Int, Between(-524288, d, 524287)
    PROVE  Distance(Relative(a, d), a + 4) = d
<1>1. a + 4 \in Int /\ - (WORD \div 2) <= d /\ d < WORD \div 2
  BY HalfSpace, SMT DEF Between
<1> QED BY <1>1, DistanceIs, SMT DEF Relative

(* The literal's base is the address, rounded up to a word. *)
LEMMA LiteralReach ==
    ASSUME NEW a \in Word, NEW w \in Nat
    PROVE  /\ DecodeL32r(a, w).literal % 4 = 0
           /\ Between(-262144, Distance(DecodeL32r(a, w).literal, WordAligned(a + 3)), -4)
<1> DEFINE up == Wrap(a + 3)
           m == Imm16(w)
           x == WordAligned(up) + 4 * m - 262144
           d == 4 * m - 262144
           b == WordAligned(a + 3)
<1>1. DecodeL32r(a, w).literal = Wrap(x)  BY SMT DEF DecodeL32r
<1>2. a \in Int /\ a + 3 \in Int /\ m \in Int /\ 0 <= m /\ m <= 65535
  <2>1. a \in Int  BY HalfSpace
  <2>2. m \in Int /\ 0 <= m /\ m <= 65535  BY OffsetRanges, SMT DEF Between
  <2> QED BY <2>1, <2>2, SMT
<1>3. PICK k \in Int : up = a + 3 + k * WORD  BY <1>2, WrapQuotient, SMT
<1>4. up \in Nat  BY <1>2, WrapQuotient, SpaceSize, SMT
<1>5. up % 4 \in 0 .. 3 /\ WordAligned(up) \in Int /\ WordAligned(up) % 4 = 0
  BY <1>4, SMT DEF WordAligned
<1>6. x \in Int /\ x % 4 = 0 /\ d \in Int /\ -262144 <= d /\ d <= -4 /\ b \in Int
  <2> HIDE DEF up, m
  <2>1. x \in Int /\ d \in Int  BY <1>2, <1>5, SMT
  <2>2. -262144 <= d /\ d <= -4 /\ b \in Int  BY <1>2, <1>5, SMT DEF WordAligned
  <2>3. x % 4 = 0  BY <1>2, <1>5, SMT
  <2> QED BY <2>1, <2>2, <2>3, SMT
<1>7. x = (b + d) + k * WORD
  <2> HIDE DEF up, m
  <2>1. PICK j \in Int : k * WORD = 4 * j
    <3> DEFINE n == WORD \div 4
    <3>1. WORD = 4 * n /\ n \in Int  BY SpaceAssumption, SMT
    <3> HIDE DEF n
    <3>2. k * WORD = 4 * (k * n) /\ k * n \in Int  BY <3>1, SMT
    <3> QED BY <3>2
  <2>2. up % 4 = (a + 3) % 4  BY <1>2, <1>3, <2>1, SMT
  <2>3. WordAligned(up) = b + 4 * j  BY <1>2, <1>3, <2>1, <2>2, SMT DEF WordAligned
  <2> QED BY <1>2, <1>6, <2>1, <2>3, SMT
<1>8. Wrap(x) = Wrap(b + d)
  <2> HIDE DEF x, d, b
  <2>1. b + d \in Int  BY <1>6, SMT
  <2> QED BY <1>6, <1>7, <2>1, WrapCongruent, SMT
<1>9. Distance(Wrap(x), b) = d
  <2> HIDE DEF x, d, b
  <2>1. - (WORD \div 2) <= d /\ d < WORD \div 2  BY <1>6, HalfSpace, SMT
  <2> QED BY <1>2, <1>6, <1>8, <2>1, DistanceIs, SMT
<1>10. Wrap(x) % 4 = 0
  <2> HIDE DEF x
  <2> QED BY <1>6, WrapAligned, SMT
<1> HIDE DEF x, d
<1> QED BY <1>1, <1>6, <1>9, <1>10, SMT DEF Between

(* A call's base is the address, rounded down to a word. *)
LEMMA CallReach ==
    ASSUME NEW a \in Word, NEW d \in Int, Between(-131072, d, 131071)
    PROVE  /\ Relative(WordAligned(a), d * 4) % 4 = 0
           /\ Between(-524291, Distance(Relative(WordAligned(a), d * 4), a + 4), 524284)
<1>1. /\ a \in Nat /\ a % 4 \in 0 .. 3 /\ WordAligned(a) \in Int
      /\ WordAligned(a) % 4 = 0
  BY SpaceSize, SMT DEF WordAligned, Word
<1>2. WordAligned(a) + 4 + d * 4 \in Int /\ (WordAligned(a) + 4 + d * 4) % 4 = 0
  BY <1>1, SMT
<1> DEFINE e == d * 4 - (a % 4)
<1>3. e \in Int /\ Between(-524291, e, 524284)  BY <1>1, SMT DEF Between
<1>4. WordAligned(a) + 4 + d * 4 = (a + 4) + e  BY <1>1, SMT DEF WordAligned
<1>5. - (WORD \div 2) <= e /\ e < WORD \div 2 /\ e \in Int /\ a + 4 \in Int
  BY <1>1, <1>3, HalfSpace, SMT DEF Between
<1> HIDE DEF e
<1>6. Distance(Wrap((a + 4) + e), a + 4) = e  BY <1>5, DistanceIs, SMT
<1> QED BY <1>2, <1>3, <1>4, <1>6, WrapAligned, SMT DEF Relative

LEMMA TableReach ==
    ASSUME NEW a \in Word, NEW w \in Nat
    PROVE  /\ DecodeQrst(w).op \notin Targeted /\ DecodeLsai(w).op \notin Targeted
           /\ Reaches(DecodeL32r(a, w), a, 3) /\ Reaches(DecodeCall(a, w), a, 3)
           /\ Reaches(DecodeSi(a, w), a, 3) /\ Reaches(DecodeB(a, w), a, 3)
<1>1. DecodeQrst(w).op \notin Targeted
  BY SMT DEF DecodeQrst, DecodeSt0, DecodeSnm0, DecodeSync, Alu, Targeted, Illegal, Unsupported
<1>2. DecodeLsai(w).op \notin Targeted
  BY SMT DEF DecodeLsai, LoadFrom, StoreTo, AddImm, Targeted, Illegal, Unsupported
<1>3. Reaches(DecodeL32r(a, w), a, 3)
  BY LiteralReach, SMT DEF Reaches, DecodeL32r
<1>4. Reaches(DecodeCall(a, w), a, 3)
  BY CallReach, OffsetRanges, SMT DEF Reaches, DecodeCall, Unsupported
<1>5. /\ Between(-131072, Distance(Relative(a, SignExtend(Offset18(w), 262144)), a + 4), 131071)
      /\ Between(-2048, Distance(Relative(a, SignExtend(Imm12(w), 4096)), a + 4), 2047)
      /\ Between(-128, Distance(Relative(a, SignExtend(Imm8(w), 256)), a + 4), 127)
  <2>1. \A d \in Int :
            Between(-131072, d, 131071) => Distance(Relative(a, d), a + 4) = d
    BY RelativeReach, SMT DEF Between
  <2>2. /\ Between(-131072, SignExtend(Imm12(w), 4096), 131071)
        /\ Between(-131072, SignExtend(Imm8(w), 256), 131071)
    BY OffsetRanges, SMT DEF Between
  <2> QED BY <2>1, <2>2, OffsetRanges, SMT
<1>6. Reaches(DecodeSi(a, w), a, 3)
  BY <1>5, SMT DEF Reaches, DecodeSi, Unsupported
<1>7. Reaches(DecodeB(a, w), a, 3)
  BY <1>5, SMT DEF Reaches, DecodeB, Unsupported
<1> QED BY <1>1, <1>2, <1>3, <1>4, <1>6, <1>7, SMT

LEMMA NarrowReach ==
    ASSUME NEW a \in Word, NEW w \in Nat
    PROVE  Reaches(Decode16(a, w), a, 2)
<1>1. T(w) \in Reg /\ R(w) \in Reg /\ a \in Int  BY FieldTypes, HalfSpace, SMT
<1> DEFINE d == (T(w) % 4) * 16 + R(w)
<1>2. d \in 0 .. 63  BY <1>1, SMT DEF Reg
<1>3. Relative(a, d) = Wrap(a + (4 + d))
  <2>1. a + 4 + d = a + (4 + d)  BY <1>1, <1>2, SMT
  <2> QED BY <2>1, SMT DEF Relative
<1>4. 4 + d \in Int /\ - (WORD \div 2) <= 4 + d /\ 4 + d < WORD \div 2
  BY <1>2, HalfSpace, SMT
<1>5. Distance(Relative(a, d), a) = 4 + d  BY <1>1, <1>3, <1>4, DistanceIs, SMT
<1>6. Between(4, Distance(Relative(a, d), a), 67)  BY <1>2, <1>5, SMT DEF Between
<1>7. CASE Op0(w) = 12 /\ T(w) >= 8
  <2>1. Decode16(a, w).op = "BranchZero" /\ Decode16(a, w).target = Relative(a, d)
    BY <1>1, <1>7, SMT DEF Decode16, DecodeSt2, Reg
  <2> QED BY <1>6, <2>1, SMT DEF Reaches
<1>8. CASE ~ (Op0(w) = 12 /\ T(w) >= 8)
  <2>1. Decode16(a, w).op \notin Targeted
    BY <1>1, <1>8, SMT DEF Decode16, DecodeSt2, DecodeMoviN, DecodeSt3, Alu, Targeted,
                           Illegal, Unsupported, Reg
  <2> QED BY <2>1, SMT DEF Reaches, Targeted
<1> QED BY <1>7, <1>8, SMT

(* For every word at every address, at the ends of the address space too:  *)
(* targets are in the reach of the encoding and not beyond, literals and   *)
(* call targets word aligned.                                              *)
THEOREM ReachIsBounded == DecoderSpec => []TargetsInReach
<1>1. ASSUME NEW a \in Word, NEW w \in Nat
      PROVE  Reaches(Decode(a, w, 3), a, 3) /\ Reaches(Decode(a, w, 2), a, 2)
  <2>1. Reaches(Decode24(a, w), a, 3)
    BY TableReach, SMT DEF Decode24, Reaches, Targeted, Unsupported
  <2> QED BY <2>1, NarrowReach, SMT DEF Decode
<1>2. DecodedInv => TargetsInReach
  <2> SUFFICES ASSUME DecodedInv PROVE TargetsInReach  OBVIOUS
  <2>1. CASE result = Undecoded
    BY <2>1, SMT DEF Undecoded, TargetsInReach
  <2>2. CASE result # Undecoded
    <3>1. Size \in {2, 3} /\ result = Decode(at, word, Size)
      BY <2>2, DecodedFacts, SMT DEF DecodedInv
    <3>2. Reaches(result, at, Size)  BY <1>1, <3>1, DecodedFacts, SMT
    <3> QED BY <3>2, SMT DEF Reaches, TargetsInReach
  <2> QED BY <2>1, <2>2, SMT
<1> QED BY <1>2, DecodedInductive, PTL

-----------------------------------------------------------------------------
(* Words of two bytes, and of three. *)
TwoBytes(w) == w < 65536
ThreeBytes(w) == w < 16777216

(* A word is what its fields make of it. *)
LEMMA NarrowDigits ==
    ASSUME NEW w \in Nat, TwoBytes(w)
    PROVE  w = Rrrn(Op0(w), T(w), S(w), R(w))
<1>1. w = (w % 16) + 16 * (((w \div 16) % 16) + 16 * (((w \div 256) % 16)
              + 16 * ((w \div 4096) % 16)))
  BY SMT DEF TwoBytes
<1> QED BY <1>1, SMT DEF Rrrn, Rri8, Op0, T, S, R

LEMMA WideDigits ==
    ASSUME NEW w \in Nat, ThreeBytes(w)
    PROVE  w = Rri8(Op0(w), T(w), S(w), R(w), Imm8(w))
<1>1. w = (w % 16) + 16 * (((w \div 16) % 16) + 16 * (((w \div 256) % 16)
              + 16 * (((w \div 4096) % 16) + 16 * ((w \div 65536) % 256))))
  BY SMT DEF ThreeBytes
<1> QED BY <1>1, SMT DEF Rri8, Op0, T, S, R, Imm8

(* A signed number survives as a word. *)
LEMMA NumberWrap ==
    ASSUME NEW i \in Int, Between(-524288, i, 524287)
    PROVE  Number(Wrap(i)) = i
<1>1. /\ WORD \in Nat /\ WORD \div 2 > 524291 /\ WORD \div 2 \in Nat
      /\ 2 * (WORD \div 2) = WORD
  BY SpaceAssumption, SMT
<1>2. CASE i >= 0
  <2>1. i \in 0 .. WORD - 1 /\ i = i + 0 * WORD  BY <1>1, <1>2, SMT DEF Between
  <2>2. Wrap(i) = i  BY <2>1, WrapUnique, SMT
  <2> QED BY <1>1, <1>2, <2>2, SMT DEF Number, SignExtend, Between
<1>3. CASE i < 0
  <2>1. i + WORD \in 0 .. WORD - 1 /\ i + WORD = i + 1 * WORD
    BY <1>1, <1>3, SMT DEF Between
  <2>2. Wrap(i) = i + WORD  BY <2>1, WrapUnique, SMT
  <2> QED BY <1>1, <1>3, <2>2, SMT DEF Number, SignExtend, Between
<1> QED BY <1>2, <1>3, SMT

(* A target keeps the digits of its offset. *)
LEMMA TargetDigits ==
    ASSUME NEW a \in Int, NEW offset \in Int
    PROVE  /\ Relative(a, offset) \in Int
           /\ (Relative(a, offset) - a - 4) % 16 = offset % 16
           /\ (Relative(a, offset) - a - 4) % 256 = offset % 256
           /\ (Relative(a, offset) - a - 4) % 4096 = offset % 4096
           /\ (Relative(a, offset) - a - 4) % 262144 = offset % 262144
           /\ (Relative(a, offset) - a - 4) % 1048576 = offset % 1048576
           /\ Wrap(Relative(a, offset) - a - 4) = Wrap(offset)
<1>1. PICK m \in Int : WORD = m * 1048576  BY SpaceAssumption, SMT
<1>2. PICK k \in Int : Wrap(a + 4 + offset) = a + 4 + offset + k * WORD
  <2>1. a + 4 + offset \in Int  BY SMT
  <2> QED BY <2>1, WrapQuotient
<1>3. k * WORD = (k * m) * 1048576 /\ k * m \in Int /\ k * WORD \in Int  BY <1>1, SMT
<1>4. \A p \in Int : Wrap(a + 4 + offset) = a + 4 + offset + p
                     => Wrap(a + 4 + offset) - a - 4 = offset + p
  BY SMT
<1>5. Relative(a, offset) - a - 4 = offset + k * WORD
  BY <1>2, <1>3, <1>4, SMT DEF Relative
<1>6. \A q \in Int :
         /\ (offset + q * 1048576) % 16 = offset % 16
         /\ (offset + q * 1048576) % 256 = offset % 256
         /\ (offset + q * 1048576) % 4096 = offset % 4096
         /\ (offset + q * 1048576) % 262144 = offset % 262144
         /\ (offset + q * 1048576) % 1048576 = offset % 1048576
  BY SMT
<1>7. offset + k * WORD \in Int /\ Relative(a, offset) \in Int
  BY <1>2, <1>3, SMT DEF Relative
<1>8. Wrap(offset + k * WORD) = Wrap(offset)  BY <1>7, WrapCongruent
<1> QED BY <1>3, <1>5, <1>6, <1>7, <1>8, SMT

-----------------------------------------------------------------------------
(* Narrow forms. *)
LEMMA NarrowReassembles ==
    ASSUME NEW a \in Word, NEW w \in Nat, TwoBytes(w), Decode16(a, w) \notin Undecodable
    PROVE  w \in NarrowEncodings(Decode16(a, w), a)
<1>1. /\ w = Rrrn(Op0(w), T(w), S(w), R(w))
      /\ T(w) \in 0 .. 15 /\ S(w) \in 0 .. 15 /\ R(w) \in 0 .. 15
  BY NarrowDigits, FieldTypes DEF Reg
<1>2. CASE Op0(w) = 8
  <2>1. (R(w) * 4) \div 4 = R(w)  BY <1>1, SMT
  <2> QED BY <1>1, <1>2, <2>1 DEF Decode16, NarrowEncodings
<1>3. CASE Op0(w) = 9
  <2>1. (R(w) * 4) \div 4 = R(w)  BY <1>1, SMT
  <2> QED BY <1>1, <1>3, <2>1 DEF Decode16, NarrowEncodings
<1>4. CASE Op0(w) = 10
  BY <1>1, <1>4 DEF Decode16, NarrowEncodings, Alu
<1>5. CASE Op0(w) = 11
  <2>1. T(w) # 0 => Wrap(T(w)) = T(w) /\ T(w) # WORD - 1
    <3>1. T(w) \in 0 .. WORD - 1 /\ T(w) = T(w) + 0 * WORD /\ T(w) # WORD - 1
      BY <1>1, SpaceAssumption, SMT
    <3> QED BY <3>1, WrapUnique, SMT
  <2>2. Wrap(-1) = WORD - 1
    <3>1. WORD - 1 \in 0 .. WORD - 1 /\ WORD - 1 = -1 + 1 * WORD  BY SpaceAssumption, SMT
    <3> QED BY <3>1, WrapUnique, SMT
  <2>3. CASE T(w) = 0
    BY <1>1, <1>5, <2>2, <2>3 DEF Decode16, NarrowEncodings
  <2>4. CASE T(w) # 0
    BY <1>1, <1>5, <2>1, <2>4 DEF Decode16, NarrowEncodings
  <2> QED BY <2>3, <2>4
<1>6. CASE Op0(w) = 12 /\ T(w) < 8
  <2> DEFINE imm7 == T(w) * 16 + R(w)
             v == IF imm7 >= 96 THEN imm7 - 128 ELSE imm7
  <2>1. T(w) % 8 = T(w)  BY <1>1, <1>6, SMT
  <2>2. Decode16(a, w) = [op |-> "Movi", dst |-> S(w), imm |-> Wrap(v)]
    BY <1>6, <2>1 DEF Decode16, DecodeSt2, DecodeMoviN
  <2>3. v \in -32 .. 95 /\ (v % 128) \div 16 = T(w) /\ v % 16 = R(w)
    BY <1>1, <1>6, SMT
  <2> HIDE DEF v
  <2>4. Number(Wrap(v)) = v  BY <2>3, NumberWrap, SMT DEF Between
  <2>5. w \in {Rrrn(12, (imm % 128) \div 16, S(w), imm % 16) :
                   imm \in {j \in -32 .. 95 : j = v}}
    <3>1. w = Rrrn(12, (v % 128) \div 16, S(w), v % 16)  BY <1>1, <1>6, <2>3
    <3>2. v \in {j \in -32 .. 95 : j = v}  BY <2>3
    <3> QED BY <3>1, <3>2
  <2> QED BY <2>2, <2>4, <2>5 DEF NarrowEncodings
<1>7. CASE Op0(w) = 12 /\ T(w) >= 8
  <2> DEFINE d == (T(w) % 4) * 16 + R(w)
             i == Decode16(a, w)
  <2>1. d \in 0 .. 63 /\ d \div 16 = T(w) % 4 /\ d % 16 = R(w) /\ a \in Int
    BY <1>1, SMT, HalfSpace
  <2>2. i.op = "BranchZero" /\ i.src = S(w) /\ i.target = Relative(a, d)
        /\ i.cond = (IF (T(w) \div 4) % 2 = 0 THEN "Eq" ELSE "Ne")
    BY <1>1, <1>7, SMT DEF Decode16, DecodeSt2
  <2> HIDE DEF d, i
  <2>3. (i.target - a - 4) % 16 = d % 16 /\ Wrap(i.target - a - 4) = Wrap(d)
    <3>1. d \in Int  BY <2>1, SMT
    <3>2. /\ (Relative(a, d) - a - 4) % 16 = d % 16
          /\ Wrap(Relative(a, d) - a - 4) = Wrap(d)
      <4>1. a \in Int  BY <2>1
      <4>2. Relative(a, d) \in Int  BY <3>1, <4>1, TargetDigits, SMT
      <4> QED BY <3>1, <4>1, <4>2, TargetDigits, SMT
    <3> QED BY <2>2, <3>2
  <2>4. (i.target - a - 4) % 16 = R(w)  BY <2>1, <2>3
  <2>5. Wrap(i.target - a - 4) = d
    <3>1. d \in Int /\ d \in 0 .. WORD - 1 /\ d = d + 0 * WORD
      BY <2>1, SpaceAssumption, SMT
    <3> QED BY <2>3, <3>1, WrapUnique
  <2>6. 8 + 4 * ZeroRow(i.cond) + (d \div 16) = T(w)
    BY <1>1, <1>7, <2>1, <2>2, SMT DEF ZeroRow
  <2>7. w = Rrrn(12, 8 + 4 * ZeroRow(i.cond) + (Wrap(i.target - a - 4) \div 16), i.src,
                 (i.target - a - 4) % 16)
    BY <1>1, <1>7, <2>2, <2>4, <2>5, <2>6
  <2> QED BY <2>2, <2>7 DEF NarrowEncodings, i
<1>8. CASE Op0(w) = 13
  BY <1>1, <1>8 DEF Decode16, DecodeSt3, NarrowEncodings, Ignoring, Reg, Undecodable
<1>9. CASE Op0(w) \notin {8, 9, 10, 11, 12, 13}
  BY <1>9 DEF Decode16, Undecodable
<1> QED BY <1>1, <1>2, <1>3, <1>4, <1>5, <1>6, <1>7, <1>8, <1>9, SMT

-----------------------------------------------------------------------------
(* Wide forms: the other ways to read the same bits. *)
LEMMA WideViews ==
    ASSUME NEW w \in Nat, ThreeBytes(w)
    PROVE  /\ w = Op0(w) + 16 * T(w) + 256 * Imm16(w)
           /\ w = Op0(w) + 16 * N(w) + 64 * Offset18(w)
           /\ w = Op0(w) + 16 * N(w) + 64 * M(w) + 256 * S(w) + 4096 * Imm12(w)
           /\ Imm8(w) = Op1(w) + 16 * Op2(w)
<1>1. w = (w % 16) + 16 * ((w \div 16) % 16) + 256 * ((w \div 256) % 65536)
  BY SMT DEF ThreeBytes
<1>2. w = (w % 16) + 16 * ((w \div 16) % 4) + 64 * ((w \div 64) % 262144)
  BY SMT DEF ThreeBytes
<1>3. w = (w % 16) + 16 * ((w \div 16) % 4) + 64 * ((w \div 64) % 4)
              + 256 * ((w \div 256) % 16) + 4096 * ((w \div 4096) % 4096)
  BY SMT DEF ThreeBytes
<1>4. (w \div 65536) % 256 = ((w \div 65536) % 16) + 16 * ((w \div 1048576) % 16)
  BY SMT DEF ThreeBytes
<1>5. w = Op0(w) + 16 * T(w) + 256 * Imm16(w)  BY <1>1, SMT DEF Op0, T, Imm16
<1>6. w = Op0(w) + 16 * N(w) + 64 * Offset18(w)  BY <1>2, SMT DEF Op0, N, Offset18
<1>7. w = Op0(w) + 16 * N(w) + 64 * M(w) + 256 * S(w) + 4096 * Imm12(w)
  BY <1>3, SMT DEF Op0, N, M, S, Imm12
<1>8. Imm8(w) = Op1(w) + 16 * Op2(w)  BY <1>4, SMT DEF Imm8, Op1, Op2
<1> QED BY <1>5, <1>6, <1>7, <1>8

(* An offset's low digits are the field it was extended from. *)
LEMMA SignExtendBack ==
    ASSUME NEW w \in Nat
    PROVE  /\ SignExtend(Imm8(w), 256) % 256 = Imm8(w)
           /\ SignExtend(Imm12(w), 4096) % 4096 = Imm12(w)
           /\ SignExtend(Offset18(w), 262144) % 262144 = Offset18(w)
           /\ (SignExtend(Offset18(w), 262144) * 4) % 1048576 = 4 * Offset18(w)
           /\ Imm8(w) \in Nat /\ Imm12(w) \in Nat /\ Offset18(w) \in Nat
<1>1. w \div 64 \in Nat /\ w \div 4096 \in Nat /\ w \div 65536 \in Nat
  BY SMT
<1>2. Offset18(w) \in Nat /\ Offset18(w) < 262144  BY <1>1, SMT DEF Offset18
<1>3. Imm12(w) \in Nat /\ Imm12(w) < 4096  BY <1>1, SMT DEF Imm12
<1>4. Imm8(w) \in Nat /\ Imm8(w) < 256  BY <1>1, SMT DEF Imm8
<1>5. SignExtend(Imm8(w), 256) % 256 = Imm8(w)  BY <1>4, SMT DEF SignExtend
<1>6. SignExtend(Imm12(w), 4096) % 4096 = Imm12(w)  BY <1>3, SMT DEF SignExtend
<1>7. SignExtend(Offset18(w), 262144) % 262144 = Offset18(w)
  BY <1>2, SMT DEF SignExtend
<1>8. (SignExtend(Offset18(w), 262144) * 4) % 1048576 = 4 * Offset18(w)
  BY <1>2, SMT DEF SignExtend
<1> QED BY <1>2, <1>3, <1>4, <1>5, <1>6, <1>7, <1>8, SMT

LEMMA QrstReassembles ==
    ASSUME NEW a, NEW w \in Nat, ThreeBytes(w), Op0(w) = 0, DecodeQrst(w) \notin Undecodable
    PROVE  w \in WideEncodings(DecodeQrst(w), a)
<1>1. /\ w = Rri8(0, T(w), S(w), R(w), Imm8(w)) /\ Imm8(w) = Op1(w) + 16 * Op2(w)
      /\ T(w) \in 0 .. 15 /\ S(w) \in Reg
  BY WideDigits, WideViews, FieldTypes DEF Reg
<1>2. Op1(w) = 0  BY DEF DecodeQrst, Undecodable
<1>3. CASE Op2(w) = 0
  <2>1. Imm8(w) = 0 /\ DecodeQrst(w) = DecodeSt0(w)
    BY <1>1, <1>2, <1>3, SMT DEF DecodeQrst
  <2>2. CASE R(w) = 0
    <3>1. DecodeQrst(w) = DecodeSnm0(w)  BY <2>1, <2>2 DEF DecodeSt0
    <3>2. DecodeSnm0(w) \notin Undecodable  BY <3>1
    <3>3. <<T(w) \div 4, T(w) % 4>> \in {<<2, 0>>, <<2, 2>>, <<3, 0>>}
      BY <3>2, Zenon DEF DecodeSnm0, Undecodable
    <3>4. \A t \in Nat : t = 4 * (t \div 4) + (t % 4)  BY SMT
    <3>5. \/ T(w) = 8 /\ DecodeSnm0(w) = [op |-> "Ret"]
          \/ T(w) = 10 /\ DecodeSnm0(w) = [op |-> "JumpReg", reg |-> S(w)]
          \/ T(w) = 12 /\ DecodeSnm0(w) = [op |-> "CallReg", reg |-> S(w)]
      BY <1>1, <3>3, <3>4, SMT DEF DecodeSnm0
    <3> QED BY <1>1, <2>1, <2>2, <3>1, <3>5 DEF WideEncodings, Ignoring
  <2>3. CASE R(w) = 2
    <3>1. DecodeQrst(w) = DecodeSync(w)  BY <2>1, <2>3 DEF DecodeSt0
    <3>2. DecodeSync(w) \notin Undecodable  BY <3>1
    <3>3. \/ T(w) = 12 /\ DecodeSync(w) = [op |-> "Memw"]
          \/ T(w) = 15 /\ DecodeSync(w) = [op |-> "Nop"]
      BY <3>2 DEF DecodeSync, Undecodable
    <3> QED BY <1>1, <2>1, <2>3, <3>1, <3>3 DEF WideEncodings, Ignoring
  <2>4. R(w) \in {0, 2}
    BY <2>1 DEF DecodeSt0, Undecodable
  <2> QED BY <2>2, <2>3, <2>4
<1>4. CASE Op2(w) # 0
  <2>1. \E alu \in AluOp : DecodeQrst(w) = Alu(alu, w) /\ Op2(w) = AluRow(alu)
    <3>1. Op2(w) \in {1, 2, 3, 8, 12}  BY <1>2, <1>4 DEF DecodeQrst, Undecodable
    <3> QED BY <1>2, <3>1 DEF DecodeQrst, AluRow, AluOp
  <2>2. PICK alu \in AluOp : DecodeQrst(w) = Alu(alu, w) /\ Op2(w) = AluRow(alu)
    BY <2>1
  <2>3. Imm8(w) = 16 * AluRow(alu)
    BY <1>1, <1>2, <2>2, SMT DEF AluRow, AluOp
  <2> QED BY <1>1, <2>2, <2>3 DEF WideEncodings, Alu
<1> QED BY <1>3, <1>4

(* WideEncodings, one operation at a time. *)
LEMMA WideLoad ==
    ASSUME NEW i, NEW a, i.op = "Load"
    PROVE  WideEncodings(i, a) = {LoadEncoding(i)}
  BY SMT DEF WideEncodings

LEMMA WideStore ==
    ASSUME NEW i, NEW a, i.op = "Store"
    PROVE  WideEncodings(i, a) = {StoreEncoding(i)}
  BY SMT DEF WideEncodings

LEMMA WideMovi ==
    ASSUME NEW i, NEW a, i.op = "Movi", NEW v \in Int, Between(-2048, v, 2047), Number(i.imm) = v
    PROVE  Rri8(2, i.dst, (v % 4096) \div 256, 10, v % 256) \in WideEncodings(i, a)
<1> DEFINE e(imm) == Rri8(2, i.dst, (imm % 4096) \div 256, 10, imm % 256)
<1>1. WideEncodings(i, a) = {e(imm) : imm \in {j \in -2048 .. 2047 : j = Number(i.imm)}}
  BY SMT DEF WideEncodings
<1>2. v \in {j \in -2048 .. 2047 : j = Number(i.imm)}
  BY SMT DEF Between
<1> HIDE DEF e
<1>3. e(v) \in {e(imm) : imm \in {j \in -2048 .. 2047 : j = Number(i.imm)}}
  BY <1>2, SMT
<1> QED BY <1>1, <1>3, SMT DEF e

LEMMA WideAddi ==
    ASSUME NEW i, NEW a, i.op = "Addi", NEW v \in Int, Between(-128, v, 127)
    PROVE  /\ Number(i.imm) = v
                => Rri8(2, i.dst, i.src, 12, v % 256) \in WideEncodings(i, a)
           /\ Number(i.imm) = v * 256
                => Rri8(2, i.dst, i.src, 13, v % 256) \in WideEncodings(i, a)
<1>1. ASSUME Number(i.imm) = v
      PROVE  Rri8(2, i.dst, i.src, 12, v % 256) \in WideEncodings(i, a)
  BY <1>1, SMT DEF WideEncodings, Between
<1>2. ASSUME Number(i.imm) = v * 256
      PROVE  Rri8(2, i.dst, i.src, 13, v % 256) \in WideEncodings(i, a)
  BY <1>2, SMT DEF WideEncodings, Between
<1> QED BY <1>1, <1>2

LEMMA LsaiReassembles ==
    ASSUME NEW a, NEW w \in Nat, ThreeBytes(w), Op0(w) = 2, DecodeLsai(w) \notin Undecodable
    PROVE  w \in WideEncodings(DecodeLsai(w), a)
<1> DEFINE t == T(w)
           s == S(w)
           b == Imm8(w)
<1>1. w = Rri8(2, t, s, R(w), b) /\ s \in 0 .. 15 /\ b \in 0 .. 255
  BY WideDigits, FieldTypes DEF Reg
<1>2. b * 1 = b /\ (b * 2) \div 2 = b /\ (b * 4) \div 4 = b
  <2> HIDE DEF b
  <2> QED BY <1>1, SMT
<1>3. CASE R(w) \in {0, 1, 2, 9}
  <2>1. /\ R(w) = 0 => DecodeLsai(w) = LoadFrom("U8", 1, w)
        /\ R(w) = 1 => DecodeLsai(w) = LoadFrom("U16", 2, w)
        /\ R(w) = 2 => DecodeLsai(w) = LoadFrom("U32", 4, w)
        /\ R(w) = 9 => DecodeLsai(w) = LoadFrom("I16", 2, w)
    BY SMT DEF DecodeLsai
  <2>2. ASSUME NEW kind \in LoadKind, NEW scale \in {1, 2, 4},
               LoadEncoding(LoadFrom(kind, scale, w)) = w
        PROVE  w \in WideEncodings(LoadFrom(kind, scale, w), a)
    BY <2>2, WideLoad, SMT DEF LoadFrom
  <2>3. CASE R(w) = 0
    <3>1. LoadEncoding(LoadFrom("U8", 1, w)) = w
      BY <1>1, <1>2, <2>3, Zenon DEF LoadFrom, LoadEncoding
    <3> QED BY <2>1, <2>2, <2>3, <3>1, Zenon DEF LoadKind
  <2>4. CASE R(w) = 1
    <3>1. LoadEncoding(LoadFrom("U16", 2, w)) = w
      BY <1>1, <1>2, <2>4, Zenon DEF LoadFrom, LoadEncoding
    <3> QED BY <2>1, <2>2, <2>4, <3>1, Zenon DEF LoadKind
  <2>5. CASE R(w) = 2
    <3>1. LoadEncoding(LoadFrom("U32", 4, w)) = w
      BY <1>1, <1>2, <2>5, Zenon DEF LoadFrom, LoadEncoding
    <3> QED BY <2>1, <2>2, <2>5, <3>1, Zenon DEF LoadKind
  <2>6. CASE R(w) = 9
    <3>1. LoadEncoding(LoadFrom("I16", 2, w)) = w
      BY <1>1, <1>2, <2>6, Zenon DEF LoadFrom, LoadEncoding
    <3> QED BY <2>1, <2>2, <2>6, <3>1, Zenon DEF LoadKind
  <2> QED BY <1>3, <2>3, <2>4, <2>5, <2>6
<1>4. CASE R(w) \in {4, 5, 6}
  <2>1. /\ R(w) = 4 => DecodeLsai(w) = StoreTo("U8", 1, w)
        /\ R(w) = 5 => DecodeLsai(w) = StoreTo("U16", 2, w)
        /\ R(w) = 6 => DecodeLsai(w) = StoreTo("U32", 4, w)
    BY SMT DEF DecodeLsai
  <2>2. ASSUME NEW kind \in StoreKind, NEW scale \in {1, 2, 4},
               StoreEncoding(StoreTo(kind, scale, w)) = w
        PROVE  w \in WideEncodings(StoreTo(kind, scale, w), a)
    BY <2>2, WideStore, SMT DEF StoreTo
  <2>3. CASE R(w) = 4
    <3>1. StoreEncoding(StoreTo("U8", 1, w)) = w
      BY <1>1, <1>2, <2>3, Zenon DEF StoreTo, StoreEncoding
    <3> QED BY <2>1, <2>2, <2>3, <3>1, Zenon DEF StoreKind
  <2>4. CASE R(w) = 5
    <3>1. StoreEncoding(StoreTo("U16", 2, w)) = w
      BY <1>1, <1>2, <2>4, Zenon DEF StoreTo, StoreEncoding
    <3> QED BY <2>1, <2>2, <2>4, <3>1, Zenon DEF StoreKind
  <2>5. CASE R(w) = 6
    <3>1. StoreEncoding(StoreTo("U32", 4, w)) = w
      BY <1>1, <1>2, <2>5, Zenon DEF StoreTo, StoreEncoding
    <3> QED BY <2>1, <2>2, <2>5, <3>1, Zenon DEF StoreKind
  <2> QED BY <1>4, <2>3, <2>4, <2>5
<1>5. CASE R(w) = 10
  <2> DEFINE v == SignExtend(s * 256 + b, 4096)
  <2>1. DecodeLsai(w) = [op |-> "Movi", dst |-> t, imm |-> Wrap(v)]
    BY <1>5 DEF DecodeLsai
  <2>2. v \in Int /\ Between(-2048, v, 2047) /\ (v % 4096) \div 256 = s /\ v % 256 = b
    <3> HIDE DEF s, b
    <3> QED BY <1>1, SMT DEF SignExtend, Between
  <2> HIDE DEF v
  <2>3. Number(Wrap(v)) = v  BY <2>2, NumberWrap, SMT DEF Between
  <2> QED BY <1>1, <1>5, <2>1, <2>2, <2>3, WideMovi, SMT
<1>6. CASE R(w) \in {12, 13}
  <2> DEFINE v == SignExtend(b, 256)
  <2>1. v \in Int /\ Between(-128, v, 127) /\ v % 256 = b
    <3> HIDE DEF b
    <3> QED BY <1>1, SMT DEF SignExtend, Between
  <2>2. /\ R(w) = 12 => DecodeLsai(w) = AddImm(w, 1)
        /\ R(w) = 13 => DecodeLsai(w) = AddImm(w, 256)
    BY SMT DEF DecodeLsai
  <2>3. \A scale \in {1, 256} :
           AddImm(w, scale) = [op |-> "Addi", dst |-> t, src |-> s, imm |-> Wrap(v * scale)]
    BY DEF AddImm
  <2> HIDE DEF v
  <2>4. CASE R(w) = 12
    <3>1. v * 1 = v  BY <2>1, SMT
    <3>2. Number(Wrap(v)) = v  BY <2>1, NumberWrap, SMT DEF Between
    <3>3. DecodeLsai(w) = [op |-> "Addi", dst |-> t, src |-> s, imm |-> Wrap(v)]
      BY <2>2, <2>3, <2>4, <3>1, SMT
    <3> QED BY <1>1, <2>1, <2>4, <3>2, <3>3, WideAddi, SMT
  <2>5. CASE R(w) = 13
    <3>1. v * 256 \in Int /\ Between(-524288, v * 256, 524287)  BY <2>1, SMT DEF Between
    <3>2. Number(Wrap(v * 256)) = v * 256  BY <3>1, NumberWrap, SMT
    <3>3. DecodeLsai(w) = [op |-> "Addi", dst |-> t, src |-> s, imm |-> Wrap(v * 256)]
      BY <2>2, <2>3, <2>5, SMT
    <3> QED BY <1>1, <2>1, <2>5, <3>2, <3>3, WideAddi, SMT
  <2> QED BY <1>6, <2>4, <2>5
<1>7. R(w) \in {0, 1, 2, 9, 4, 5, 6, 10, 12, 13}
  BY DEF DecodeLsai, Undecodable
<1> QED BY <1>3, <1>4, <1>5, <1>6, <1>7

LEMMA L32rReassembles ==
    ASSUME NEW a \in Word, NEW w \in Nat, ThreeBytes(w), Op0(w) = 1
    PROVE  w \in WideEncodings(DecodeL32r(a, w), a)
<1> DEFINE m == Imm16(w)
           up == Wrap(a + 3)
           x == WordAligned(up) + 4 * m - 262144
           y == WordAligned(a + 3)
<1>1. w = 1 + 16 * T(w) + 256 * m  BY WideViews
<1>2. a \in Int /\ m \in Int /\ 0 <= m /\ m <= 65535
  <2>1. a \in Int  BY HalfSpace
  <2>2. m \in Int /\ 0 <= m /\ m <= 65535  BY OffsetRanges, SMT DEF Between
  <2> QED BY <2>1, <2>2
<1>3. PICK k \in Int : up = a + 3 + k * WORD
  <2>1. a + 3 \in Int  BY <1>2, SMT
  <2> QED BY <2>1, WrapQuotient
<1>4. PICK n \in Int : WORD = 4 * n
  <2>1. WORD \in Nat /\ WORD % 4 = 0  BY SpaceAssumption, SMT
  <2> QED BY <2>1, SMT
<1>5. k * WORD = 4 * (k * n) /\ k * n \in Int /\ k * WORD \in Int  BY <1>4, SMT
<1>6. WordAligned(up) = y + k * WORD /\ y \in Int
  <2>1. \A q \in Int : (a + 3 + 4 * q) - ((a + 3 + 4 * q) % 4) = (a + 3) - ((a + 3) % 4) + 4 * q
    BY <1>2, SMT
  <2>2. up = a + 3 + 4 * (k * n)  BY <1>3, <1>5
  <2>3. WordAligned(up) = y + 4 * (k * n)  BY <1>5, <2>1, <2>2, SMT DEF WordAligned
  <2>4. y \in Int  BY <1>2, SMT DEF WordAligned
  <2> QED BY <1>5, <2>3, <2>4
<1> HIDE DEF m, up, y
<1>7. x \in Int  BY <1>2, <1>5, <1>6, SMT
<1>8. PICK j \in Int : Wrap(x) = x + j * WORD  BY <1>7, WrapQuotient
<1>9. Wrap(x) - y + 262144 = 4 * m + (k + j) * WORD /\ k + j \in Int
  <2>1. WORD \in Int /\ j * WORD \in Int /\ (k + j) * WORD = k * WORD + j * WORD
    BY SpaceSize, SMT
  <2>2. \A p, q \in Int : WordAligned(up) = y + p /\ Wrap(x) = x + q
                            => Wrap(x) - y + 262144 = 4 * m + (p + q)
    BY <1>2, <1>6, <1>7, SMT
  <2> QED BY <1>5, <1>6, <1>8, <2>1, <2>2, SMT
<1>10. Wrap(Wrap(x) - y + 262144) = 4 * m
  <2>1. 4 * m \in Int /\ 4 * m \in 0 .. WORD - 1 /\ 4 * m = 4 * m + 0 * WORD
    BY <1>2, SpaceAssumption, SMT
  <2>2. Wrap(4 * m) = 4 * m  BY <2>1, WrapUnique
  <2>3. (k + j) * WORD \in Int /\ 4 * m + (k + j) * WORD \in Int
    BY <2>1, SpaceSize, SMT
  <2>4. Wrap(4 * m + (k + j) * WORD) = Wrap(4 * m)
    BY <1>9, <2>1, <2>3, WrapCongruent, SMT
  <2> QED BY <1>9, <2>2, <2>4, SMT
<1>11. (4 * m) \div 4 = m  BY <1>2, SMT
<1>12. DecodeL32r(a, w) = [op |-> "L32r", dst |-> T(w), literal |-> Wrap(x)]
  BY SMT DEF DecodeL32r, m, up
<1> HIDE DEF x
<1>13. w = 1 + 16 * T(w) + 256 * (Wrap(Wrap(x) - y + 262144) \div 4)
  BY <1>1, <1>10, <1>11, SMT
<1> QED BY <1>12, <1>13, SMT DEF WideEncodings, y

LEMMA WideTargets ==
    ASSUME NEW i, NEW a
    PROVE  /\ i.op = "Jump"
                => WideEncodings(i, a) = {6 + 64 * ((i.target - a - 4) % 262144)}
           /\ i.op = "Call"
                => WideEncodings(i, a) = {5 + 16 * ((i.target - WordAligned(a) - 4) % 1048576)}
           /\ i.op = "Branch"
                => WideEncodings(i, a)
                       = {Rri8(7, i.rhs, i.lhs, CondRow(i.cond), (i.target - a - 4) % 256)}
           /\ i.op = "BranchZero"
                => WideEncodings(i, a)
                       = {22 + 64 * ZeroRow(i.cond) + 256 * i.src
                             + 4096 * ((i.target - a - 4) % 4096)}
<1>1. ASSUME i.op = "Jump"
      PROVE  WideEncodings(i, a) = {6 + 64 * ((i.target - a - 4) % 262144)}
  BY <1>1, SMT DEF WideEncodings
<1>2. ASSUME i.op = "Call"
      PROVE  WideEncodings(i, a) = {5 + 16 * ((i.target - WordAligned(a) - 4) % 1048576)}
  BY <1>2, SMT DEF WideEncodings
<1>3. ASSUME i.op = "Branch"
      PROVE  WideEncodings(i, a)
                 = {Rri8(7, i.rhs, i.lhs, CondRow(i.cond), (i.target - a - 4) % 256)}
  BY <1>3, SMT DEF WideEncodings
<1>4. ASSUME i.op = "BranchZero"
      PROVE  WideEncodings(i, a)
                 = {22 + 64 * ZeroRow(i.cond) + 256 * i.src + 4096 * ((i.target - a - 4) % 4096)}
  BY <1>4, SMT DEF WideEncodings
<1> QED BY <1>1, <1>2, <1>3, <1>4, SMT

LEMMA ControlReassembles ==
    ASSUME NEW a \in Word, NEW w \in Nat, ThreeBytes(w)
    PROVE  /\ Op0(w) = 5 /\ DecodeCall(a, w) \notin Undecodable
                => w \in WideEncodings(DecodeCall(a, w), a)
           /\ Op0(w) = 6 /\ DecodeSi(a, w) \notin Undecodable
                => w \in WideEncodings(DecodeSi(a, w), a)
           /\ Op0(w) = 7 /\ DecodeB(a, w) \notin Undecodable
                => w \in WideEncodings(DecodeB(a, w), a)
<1> DEFINE o18 == SignExtend(Offset18(w), 262144)
           o12 == SignExtend(Imm12(w), 4096)
           o8 == SignExtend(Imm8(w), 256)
<1>1. /\ a \in Int /\ WordAligned(a) \in Int /\ o18 \in Int /\ o18 * 4 \in Int
      /\ o12 \in Int /\ o8 \in Int
  <2>1. o18 \in Int /\ o12 \in Int /\ o8 \in Int  BY OffsetRanges, SMT
  <2>2. o18 * 4 \in Int
    <3> HIDE DEF o18
    <3> QED BY <2>1, SMT
  <2>3. a \in Int  BY HalfSpace
  <2>4. WordAligned(a) \in Int  BY <2>3, SMT DEF WordAligned
  <2> QED BY <2>1, <2>2, <2>3, <2>4, SMT
<1>2. /\ o18 % 262144 = Offset18(w) /\ (o18 * 4) % 1048576 = 4 * Offset18(w)
      /\ o12 % 4096 = Imm12(w) /\ o8 % 256 = Imm8(w)
      /\ Offset18(w) \in Nat /\ Imm12(w) \in Nat /\ Imm8(w) \in Nat
  BY SignExtendBack, SMT
<1> HIDE DEF o18, o12, o8
<1>3. ASSUME Op0(w) = 5, DecodeCall(a, w) \notin Undecodable
      PROVE  w \in WideEncodings(DecodeCall(a, w), a)
  <2> DEFINE target == Relative(WordAligned(a), o18 * 4)
  <2>1. N(w) = 0  BY <1>3, SMT DEF DecodeCall, Undecodable
  <2>2. DecodeCall(a, w) = [op |-> "Call", target |-> target]
    BY <2>1, SMT DEF DecodeCall, o18
  <2>3. target \in Int  BY <1>1, TargetDigits, SMT
  <2>4. (target - WordAligned(a) - 4) % 1048576 = (o18 * 4) % 1048576
    BY <1>1, <2>3, TargetDigits, SMT
  <2>5. w = 5 + 64 * Offset18(w)  BY <1>2, <1>3, <2>1, WideViews, SMT
  <2> HIDE DEF target
  <2>6. w = 5 + 16 * ((target - WordAligned(a) - 4) % 1048576)
    BY <1>2, <2>4, <2>5, SMT
  <2> QED BY <2>2, <2>6, WideTargets, SMT
<1>4. ASSUME Op0(w) = 6, DecodeSi(a, w) \notin Undecodable
      PROVE  w \in WideEncodings(DecodeSi(a, w), a)
  <2>1. N(w) \in {0, 1}  BY <1>4, SMT DEF DecodeSi, Undecodable
  <2>2. CASE N(w) = 0
    <3> DEFINE target == Relative(a, o18)
    <3>1. DecodeSi(a, w) = [op |-> "Jump", target |-> target]
      BY <2>2, SMT DEF DecodeSi, o18
    <3>2. target \in Int  BY <1>1, TargetDigits, SMT
    <3>3. (target - a - 4) % 262144 = o18 % 262144
      <4>1. a \in Int /\ o18 \in Int /\ Relative(a, o18) \in Int  BY <1>1, <3>2
      <4>2. /\ (Relative(a, o18) - a - 4) % 262144 = o18 % 262144
            /\ Wrap(Relative(a, o18) - a - 4) = Wrap(o18)
        BY <4>1, TargetDigits, SMT
      <4> QED BY <4>2, SMT
    <3>4. w = 6 + 64 * Offset18(w)  BY <1>2, <1>4, <2>2, WideViews, SMT
    <3> HIDE DEF target
    <3>5. w = 6 + 64 * ((target - a - 4) % 262144)  BY <1>2, <3>3, <3>4, SMT
    <3> QED BY <3>1, <3>5, WideTargets, SMT
  <2>3. CASE N(w) = 1
    <3> DEFINE target == Relative(a, o12)
               i == DecodeSi(a, w)
    <3>1. M(w) \in 0 .. 3 /\ S(w) \in Nat  BY FieldTypes DEF Reg
    <3>2. i.op = "BranchZero" /\ i.src = S(w) /\ i.target = target
      BY <2>3, SMT DEF DecodeSi, o12
    <3>3. ZeroRow(i.cond) = M(w)
      BY <2>3, <3>1, SMT DEF DecodeSi, ZeroRow
    <3>4. target \in Int  BY <1>1, TargetDigits, SMT
    <3>5. (target - a - 4) % 4096 = o12 % 4096
      <4>1. a \in Int /\ o12 \in Int /\ Relative(a, o12) \in Int  BY <1>1, <3>4
      <4>2. /\ (Relative(a, o12) - a - 4) % 4096 = o12 % 4096
            /\ Wrap(Relative(a, o12) - a - 4) = Wrap(o12)
        BY <4>1, TargetDigits, SMT
      <4> QED BY <4>2, SMT
    <3>6. w = 22 + 64 * M(w) + 256 * S(w) + 4096 * Imm12(w)
      BY <1>2, <1>4, <2>3, <3>1, WideViews, SMT
    <3> HIDE DEF target, i
    <3>7. w = 22 + 64 * ZeroRow(i.cond) + 256 * i.src + 4096 * ((i.target - a - 4) % 4096)
      BY <1>2, <3>2, <3>3, <3>5, <3>6, SMT
    <3>8. w \in WideEncodings(i, a)  BY <3>2, <3>7, WideTargets, SMT
    <3> QED BY <3>8 DEF i
  <2> QED BY <2>1, <2>2, <2>3
<1>5. ASSUME Op0(w) = 7, DecodeB(a, w) \notin Undecodable
      PROVE  w \in WideEncodings(DecodeB(a, w), a)
  <2> DEFINE target == Relative(a, o8)
             i == DecodeB(a, w)
  <2>1. R(w) \in {1, 2, 3, 9, 10, 11}  BY <1>5, SMT DEF DecodeB, Undecodable
  <2>2. /\ i.op = "Branch" /\ i.lhs = S(w) /\ i.rhs = T(w) /\ i.target = target
        /\ CondRow(i.cond) = R(w)
    BY <2>1, SMT DEF DecodeB, CondRow, o8
  <2>3. target \in Int  BY <1>1, TargetDigits, SMT
  <2>4. (target - a - 4) % 256 = o8 % 256
    <3>1. a \in Int /\ o8 \in Int /\ Relative(a, o8) \in Int  BY <1>1, <2>3
    <3>2. /\ (Relative(a, o8) - a - 4) % 256 = o8 % 256
          /\ Wrap(Relative(a, o8) - a - 4) = Wrap(o8)
      BY <3>1, TargetDigits, SMT
    <3> QED BY <3>2, SMT
  <2>5. w = Rri8(7, T(w), S(w), R(w), Imm8(w))  BY <1>5, WideDigits
  <2> HIDE DEF target, i
  <2>6. w = Rri8(7, i.rhs, i.lhs, CondRow(i.cond), (i.target - a - 4) % 256)
    BY <1>2, <2>2, <2>4, <2>5, SMT
  <2>7. w \in WideEncodings(i, a)  BY <2>2, <2>6, WideTargets, SMT
  <2> QED BY <2>7 DEF i
<1> QED BY <1>3, <1>4, <1>5

(* Every word that decodes to an instruction, at whatever address, is one  *)
(* of the encodings the ISA gives that instruction there.                  *)
THEOREM DecodingIsLossless == DecoderSpec => []DecodingReassembles
<1>1. ASSUME NEW a \in Word, NEW w \in Nat, ThreeBytes(w),
             Decode24(a, w) \notin Undecodable
      PROVE  w \in WideEncodings(Decode24(a, w), a)
  <2>1. /\ Op0(w) = 0 => Decode24(a, w) = DecodeQrst(w)
        /\ Op0(w) = 1 => Decode24(a, w) = DecodeL32r(a, w)
        /\ Op0(w) = 2 => Decode24(a, w) = DecodeLsai(w)
        /\ Op0(w) = 5 => Decode24(a, w) = DecodeCall(a, w)
        /\ Op0(w) = 6 => Decode24(a, w) = DecodeSi(a, w)
        /\ Op0(w) = 7 => Decode24(a, w) = DecodeB(a, w)
    BY SMT DEF Decode24
  <2>2. Op0(w) \in {0, 1, 2, 5, 6, 7}
    BY <1>1, SMT DEF Decode24, Undecodable
  <2> QED BY <1>1, <2>1, <2>2, QrstReassembles, L32rReassembles, LsaiReassembles,
             ControlReassembles
<1>2. DecodedInv => DecodingReassembles
  <2> SUFFICES ASSUME DecodedInv, result \in Inst
               PROVE  word \in IF Size = 2 THEN NarrowEncodings(result, at)
                               ELSE WideEncodings(result, at)
    BY DEF DecodingReassembles
  <2>1. result # Undecoded /\ result \notin Undecodable
    BY SMT DEF Inst, InstOver, Undecoded, Undecodable, Illegal, Unsupported
  <2>2. at \in Word /\ word \in Nat /\ result = Decode(at, word, Size)
    BY <2>1, DecodedFacts DEF DecodedInv
  <2>3. /\ Size = 2 => TwoBytes(word)
        /\ Size # 2 => ThreeBytes(word) /\ Size = 3
    BY SMT DEF DecodedInv, DecoderTypeOK, Fetched, Size, InstSize, TwoBytes, ThreeBytes
  <2>4. CASE Size = 2
    BY <2>1, <2>2, <2>3, <2>4, NarrowReassembles DEF Decode
  <2>5. CASE Size # 2
    BY <1>1, <2>1, <2>2, <2>3, <2>5 DEF Decode
  <2> QED BY <2>4, <2>5
<1> QED BY <1>2, DecodedInductive, PTL

-----------------------------------------------------------------------------
(* The fields of a word put together from digits. *)
HasFields(w, op0, t, s, r, b) ==
    /\ w \in Nat /\ Op0(w) = op0 /\ T(w) = t /\ S(w) = s /\ R(w) = r
    /\ Imm8(w) = b /\ Op1(w) = b % 16 /\ Op2(w) = b \div 16

LEMMA FieldsOfRri8 ==
    ASSUME NEW op0 \in Reg, NEW t \in Reg, NEW s \in Reg, NEW r \in Reg, NEW b \in 0 .. 255
    PROVE  HasFields(Rri8(op0, t, s, r, b), op0, t, s, r, b)
<1> DEFINE x3 == r + 16 * b
           x2 == s + 16 * x3
           x1 == t + 16 * x2
           w == op0 + 16 * x1
<1>1. \A d \in Reg, x \in Nat :
         /\ d + 16 * x \in Nat /\ (d + 16 * x) % 16 = d /\ (d + 16 * x) \div 16 = x
  BY SMT DEF Reg
<1>2. b \in Nat /\ x3 \in Nat /\ x2 \in Nat /\ x1 \in Nat
  BY SMT DEF Reg
<1>3. \A x \in Nat : /\ x \div 256 = (x \div 16) \div 16
                     /\ x \div 4096 = ((x \div 16) \div 16) \div 16
                     /\ x \div 65536 = (((x \div 16) \div 16) \div 16) \div 16
                     /\ x \div 1048576 = ((((x \div 16) \div 16) \div 16) \div 16) \div 16
  BY SMT
<1> HIDE DEF x1, x2, x3
<1>4. Rri8(op0, t, s, r, b) = w  BY DEF Rri8, x1, x2, x3
<1>5. w \in Nat  BY <1>2, SMT DEF Reg
<1>6. w % 16 = op0 /\ w \div 16 = x1 /\ x1 % 16 = t /\ x1 \div 16 = x2
  BY <1>1, <1>2 DEF x1
<1>7. x2 % 16 = s /\ x2 \div 16 = x3 /\ x3 % 16 = r /\ x3 \div 16 = b
  BY <1>1, <1>2 DEF x2, x3
<1> HIDE DEF w
<1>8. b % 256 = b /\ (b \div 16) % 16 = b \div 16  BY SMT
<1>9. w \div 16 = x1 /\ w \div 256 = x2 /\ w \div 4096 = x3 /\ w \div 65536 = b
      /\ w \div 1048576 = b \div 16
  BY <1>3, <1>5, <1>6, <1>7
<1> QED BY <1>4, <1>5, <1>6, <1>7, <1>8, <1>9 DEF HasFields, Op0, T, S, R, Imm8, Op1, Op2

(* A field holds the low digits of a signed number. *)
LEMMA SignExtendOf ==
    /\ \A v \in Int : Between(-2048, v, 2047) => SignExtend(v % 4096, 4096) = v
    /\ \A v \in Int : Between(-128, v, 127) => SignExtend(v % 256, 256) = v
  BY SMT DEF SignExtend, Between

(* The three-byte encodings of what the narrow forms decode to. *)
LEMMA MoviWide ==
    ASSUME NEW a \in Word, NEW dst \in Reg, NEW v \in Int, Between(-2048, v, 2047),
           NEW wide \in WideEncodings([op |-> "Movi", dst |-> dst, imm |-> Wrap(v)], a)
    PROVE  Decode24(a, wide) = [op |-> "Movi", dst |-> dst, imm |-> Wrap(v)]
<1>1. Number(Wrap(v)) = v  BY NumberWrap, SMT DEF Between
<1> DEFINE s == (v % 4096) \div 256
           b == v % 256
<1>2. wide = Rri8(2, dst, s, 10, b)
  BY <1>1 DEF WideEncodings
<1>3. s \in Reg /\ b \in 0 .. 255 /\ s * 256 + b = v % 4096
  BY SMT DEF Reg
<1>4. 2 \in Reg /\ 10 \in Reg  BY DEF Reg
<1> HIDE DEF s, b
<1>5. /\ Op0(wide) = 2 /\ T(wide) = dst /\ S(wide) = s /\ R(wide) = 10 /\ Imm8(wide) = b
  <2>1. HasFields(wide, 2, dst, s, 10, b)  BY <1>2, <1>3, <1>4, FieldsOfRri8
  <2> QED BY <2>1 DEF HasFields
<1>6. SignExtend(S(wide) * 256 + Imm8(wide), 4096) = v
  BY <1>3, <1>5, SignExtendOf
<1>7. Decode24(a, wide) = DecodeLsai(wide)  BY <1>5, SMT DEF Decode24
<1>8. DecodeLsai(wide) = [op |-> "Movi", dst |-> T(wide),
                          imm |-> Wrap(SignExtend(S(wide) * 256 + Imm8(wide), 4096))]
  BY <1>5, SMT DEF DecodeLsai
<1> QED BY <1>5, <1>6, <1>7, <1>8

LEMMA AddiWide ==
    ASSUME NEW a \in Word, NEW dst \in Reg, NEW src \in Reg, NEW v \in Int, Between(-1, v, 15), v # 0,
           NEW wide \in WideEncodings([op |-> "Addi", dst |-> dst, src |-> src, imm |-> Wrap(v)], a)
    PROVE  Decode24(a, wide) = [op |-> "Addi", dst |-> dst, src |-> src, imm |-> Wrap(v)]
<1>1. v \in Int /\ Between(-128, v, 127) /\ Between(-524288, v, 524287)  BY SMT DEF Between
<1>2. Number(Wrap(v)) = v  BY <1>1, NumberWrap
<1>3. \A j \in -128 .. 127 : j * 256 # v  BY SMT DEF Between
<1> DEFINE b == v % 256
<1>4. wide = Rri8(2, dst, src, 12, b)
  BY <1>2, <1>3 DEF WideEncodings
<1>5. b \in 0 .. 255 /\ 2 \in Reg /\ 12 \in Reg  BY SMT DEF Reg
<1> HIDE DEF b
<1>6. Op0(wide) = 2 /\ T(wide) = dst /\ S(wide) = src /\ R(wide) = 12 /\ Imm8(wide) = b
  <2>1. HasFields(wide, 2, dst, src, 12, b)  BY <1>4, <1>5, FieldsOfRri8
  <2> QED BY <2>1 DEF HasFields
<1>7. SignExtend(Imm8(wide), 256) * 1 = v
  BY <1>1, <1>6, SignExtendOf, SMT DEF b
<1>8. Decode24(a, wide) = DecodeLsai(wide)  BY <1>6, SMT DEF Decode24
<1>9. DecodeLsai(wide) = AddImm(wide, 1)  BY <1>6, SMT DEF DecodeLsai
<1> QED BY <1>6, <1>7, <1>8, <1>9 DEF AddImm

LEMMA BranchWide ==
    ASSUME NEW a \in Word, NEW src \in Reg, NEW d \in 0 .. 63, NEW cond \in {"Eq", "Ne"},
           NEW i, i = [op |-> "BranchZero", src |-> src, cond |-> cond, target |-> Relative(a, d)],
           NEW wide \in WideEncodings(i, a)
    PROVE  Decode24(a, wide) = i
<1> DEFINE row == ZeroRow(cond)
           r == d % 16
           b == d \div 16
           t == 1 + 4 * row
<1>1. row \in {0, 1}  BY SMT DEF ZeroRow
<1>2. d % 4096 = d /\ r \in Reg /\ b \in 0 .. 255 /\ r + 16 * b = d /\ d \in Int
  BY SMT DEF Reg
<1>3. t \in Reg /\ 6 \in Reg  BY <1>1, SMT DEF Reg
<1>4. (Relative(a, d) - a - 4) % 4096 = d
  <2>1. a \in Int /\ d \in Int  BY HalfSpace, <1>2
  <2>2. Relative(a, d) \in Int  BY <2>1, TargetDigits, SMT
  <2>3. /\ (Relative(a, d) - a - 4) % 4096 = d % 4096
        /\ Wrap(Relative(a, d) - a - 4) = Wrap(d)
    BY <2>1, <2>2, TargetDigits, SMT
  <2> QED BY <1>2, <2>3
<1>5. wide = 22 + 64 * row + 256 * src + 4096 * d
  BY <1>4 DEF WideEncodings
<1>6. wide = Rri8(6, t, src, r, b)
  <2>1. src \in Int  BY SMT DEF Reg
  <2> QED BY <1>1, <1>2, <1>5, <2>1, SMT DEF Rri8
<1>7. /\ wide \in Nat /\ Op0(wide) = 6 /\ T(wide) = t /\ S(wide) = src /\ R(wide) = r
      /\ Imm8(wide) = b
  <2> HIDE DEF t, r, b
  <2>1. HasFields(wide, 6, t, src, r, b)  BY <1>2, <1>3, <1>6, FieldsOfRri8
  <2> QED BY <2>1 DEF HasFields
<1>8. N(wide) = 1 /\ M(wide) = row
  <2>1. \A x \in Nat : x \div 64 = (x \div 16) \div 4 /\ (x \div 16) \in Nat  BY SMT
  <2>2. \A x \in Nat : x % 16 = t => x % 4 = 1 /\ (x \div 4) % 4 = row
    BY <1>1, SMT
  <2> QED BY <1>7, <2>1, <2>2 DEF N, M, T
<1>9. Imm12(wide) = d
  <2>1. wide \div 4096 = d
    <3> DEFINE low == 22 + 64 * row + 256 * src
    <3>1. wide = low + 4096 * d /\ low \in 0 .. 4095
      BY <1>1, <1>5, SMT DEF Reg
    <3> HIDE DEF low
    <3>2. (low + 4096 * d) \div 4096 = d  BY <1>2, <3>1, SMT
    <3> QED BY <3>1, <3>2
  <2> QED BY <1>2, <2>1 DEF Imm12
<1>10. SignExtend(Imm12(wide), 4096) = d  BY <1>9, SMT DEF SignExtend
<1>11. Decode24(a, wide) = DecodeSi(a, wide)  BY <1>7, SMT DEF Decode24
<1> HIDE DEF row
<1>12. /\ row = 0 => cond = "Eq"
       /\ row = 1 => cond = "Ne"
  BY SMT DEF ZeroRow, row
<1>13. DecodeSi(a, wide) = [op |-> "BranchZero", src |-> src, cond |-> cond,
                            target |-> Relative(a, d)]
  BY <1>1, <1>7, <1>8, <1>10, <1>12, SMT DEF DecodeSi
<1> QED BY <1>11, <1>13

(* The narrow forms, one first digit after the other. *)
LEMMA NarrowSynonyms ==
    ASSUME NEW a \in Word, NEW w \in Nat, Decode16(a, w) \notin Undecodable,
           NEW wide \in WideEncodings(Decode16(a, w), a)
    PROVE  Decode24(a, wide) = Decode16(a, w)
<1> DEFINE i == Decode16(a, w)
<1>1. T(w) \in Reg /\ S(w) \in Reg /\ R(w) \in Reg /\ T(w) \in 0 .. 15 /\ R(w) \in 0 .. 15
  BY FieldTypes DEF Reg
<1>2. 0 \in Reg /\ 2 \in Reg /\ 6 \in Reg /\ 8 \in Reg /\ 15 \in Reg
      /\ 0 \in 0 .. 255 /\ 128 \in 0 .. 255
  BY DEF Reg
<1>3. CASE Op0(w) \in {8, 9}
  <2>1. (R(w) * 4) \div 4 = R(w) /\ R(w) \in 0 .. 255  BY <1>1, SMT
  <2> DEFINE r == IF Op0(w) = 8 THEN 2 ELSE 6
  <2>2. wide = Rri8(2, T(w), S(w), r, R(w))
    <3>1. CASE Op0(w) = 8
      <4>1. i = [op |-> "Load", kind |-> "U32", dst |-> T(w), base |-> S(w), offset |-> R(w) * 4]
        BY <3>1 DEF Decode16
      <4>2. LoadEncoding(i) = Rri8(2, T(w), S(w), 2, R(w))
        BY <2>1, <4>1 DEF LoadEncoding
      <4> QED BY <3>1, <4>1, <4>2, WideLoad
    <3>2. CASE Op0(w) = 9
      <4>1. i = [op |-> "Store", kind |-> "U32", src |-> T(w), base |-> S(w), offset |-> R(w) * 4]
        BY <3>2 DEF Decode16
      <4>2. StoreEncoding(i) = Rri8(2, T(w), S(w), 6, R(w))
        BY <2>1, <4>1 DEF StoreEncoding
      <4> QED BY <3>2, <4>1, <4>2, WideStore
    <3> QED BY <1>3, <3>1, <3>2
  <2>3. /\ Op0(wide) = 2 /\ T(wide) = T(w) /\ S(wide) = S(w) /\ R(wide) = r
        /\ Imm8(wide) = R(w)
    <3> HIDE DEF r
    <3>1. r \in Reg  BY <1>2 DEF r
    <3>2. HasFields(wide, 2, T(w), S(w), r, R(w))
      BY <1>1, <1>2, <2>1, <2>2, <3>1, FieldsOfRri8
    <3> QED BY <3>2 DEF HasFields
  <2>4. Decode24(a, wide) = DecodeLsai(wide)  BY <2>3, SMT DEF Decode24
  <2>5. CASE Op0(w) = 8
    BY <2>3, <2>4, <2>5 DEF DecodeLsai, LoadFrom, Decode16
  <2>6. CASE Op0(w) = 9
    <3>1. DecodeLsai(wide) = StoreTo("U32", 4, wide)  BY <2>3, <2>6, SMT DEF DecodeLsai
    <3> QED BY <2>3, <2>4, <2>6, <3>1 DEF StoreTo, Decode16
  <2> QED BY <1>3, <2>5, <2>6
<1>4. CASE Op0(w) = 10
  <2>1. i = [op |-> "Alu", alu |-> "Add", dst |-> R(w), lhs |-> S(w), rhs |-> T(w)]
    BY <1>4 DEF Decode16, Alu
  <2>2. wide = Rri8(0, T(w), S(w), R(w), 128)
    <3>1. 16 * AluRow("Add") = 128  BY SMT DEF AluRow
    <3> QED BY <2>1, <3>1 DEF WideEncodings
  <2>3. 128 % 16 = 0 /\ 128 \div 16 = 8  BY SMT
  <2>4. /\ Op0(wide) = 0 /\ T(wide) = T(w) /\ S(wide) = S(w) /\ R(wide) = R(w)
        /\ Op1(wide) = 0 /\ Op2(wide) = 8
    <3>1. HasFields(wide, 0, T(w), S(w), R(w), 128)  BY <1>1, <1>2, <2>2, FieldsOfRri8
    <3> QED BY <2>3, <3>1 DEF HasFields
  <2>5. Decode24(a, wide) = DecodeQrst(wide)  BY <2>4, SMT DEF Decode24
  <2>6. DecodeQrst(wide) = Alu("Add", wide)  BY <2>4, SMT DEF DecodeQrst
  <2> QED BY <2>1, <2>4, <2>5, <2>6 DEF Alu
<1>5. CASE Op0(w) = 11
  <2> DEFINE v == IF T(w) = 0 THEN -1 ELSE T(w)
  <2>1. v \in Int /\ Between(-1, v, 15) /\ v # 0  BY <1>1, SMT DEF Between
  <2>2. i = [op |-> "Addi", dst |-> R(w), src |-> S(w), imm |-> Wrap(v)]
    BY <1>5 DEF Decode16
  <2> HIDE DEF v
  <2> QED BY <1>1, <2>1, <2>2, AddiWide
<1>6. CASE Op0(w) = 12 /\ T(w) < 8
  <2> DEFINE imm7 == (T(w) % 8) * 16 + R(w)
             v == IF imm7 >= 96 THEN imm7 - 128 ELSE imm7
  <2>1. i = [op |-> "Movi", dst |-> S(w), imm |-> Wrap(v)]
    BY <1>6 DEF Decode16, DecodeSt2, DecodeMoviN
  <2>2. v \in Int /\ Between(-2048, v, 2047)  BY <1>1, SMT DEF Between
  <2> HIDE DEF v
  <2> QED BY <1>1, <2>1, <2>2, MoviWide
<1>7. CASE Op0(w) = 12 /\ ~ (T(w) < 8)
  <2> DEFINE d == (T(w) % 4) * 16 + R(w)
             cond == IF (T(w) \div 4) % 2 = 0 THEN "Eq" ELSE "Ne"
  <2>1. i = [op |-> "BranchZero", src |-> S(w), cond |-> cond, target |-> Relative(a, d)]
    BY <1>7 DEF Decode16, DecodeSt2
  <2>2. d \in 0 .. 63 /\ cond \in {"Eq", "Ne"}  BY <1>1, SMT
  <2> HIDE DEF d, cond
  <2> QED BY <1>1, <2>1, <2>2, BranchWide
<1>8. CASE Op0(w) = 13
  <2>1. i \in {[op |-> "Mov", dst |-> T(w), src |-> S(w)], [op |-> "Ret"], [op |-> "Nop"]}
    BY <1>8 DEF Decode16, DecodeSt3, Undecodable
  <2>2. CASE i = [op |-> "Mov", dst |-> T(w), src |-> S(w)]
    BY <2>2 DEF WideEncodings
  <2>3. CASE i = [op |-> "Ret"]
    <3>1. PICK s \in Reg : wide = Rri8(0, 8, s, 0, 0)
      BY <2>3 DEF WideEncodings, Ignoring
    <3>2. 0 % 16 = 0 /\ 0 \div 16 = 0 /\ 8 \div 4 = 2 /\ 8 % 4 = 0  BY SMT
    <3>3. Op0(wide) = 0 /\ T(wide) = 8 /\ R(wide) = 0 /\ Op1(wide) = 0 /\ Op2(wide) = 0
      <4>1. HasFields(wide, 0, 8, s, 0, 0)  BY <1>2, <3>1, FieldsOfRri8
      <4> QED BY <3>2, <4>1 DEF HasFields
    <3>4. Decode24(a, wide) = DecodeSt0(wide)
      BY <3>3, SMT DEF Decode24, DecodeQrst
    <3>5. DecodeSt0(wide) = DecodeSnm0(wide)  BY <3>3, SMT DEF DecodeSt0
    <3>6. DecodeSnm0(wide) = [op |-> "Ret"]  BY <3>2, <3>3 DEF DecodeSnm0
    <3> QED BY <2>3, <3>4, <3>5, <3>6
  <2>4. CASE i = [op |-> "Nop"]
    <3>1. PICK s \in Reg : wide = Rri8(0, 15, s, 2, 0)
      BY <2>4 DEF WideEncodings, Ignoring
    <3>2. 0 % 16 = 0 /\ 0 \div 16 = 0  BY SMT
    <3>3. Op0(wide) = 0 /\ T(wide) = 15 /\ R(wide) = 2 /\ Op1(wide) = 0 /\ Op2(wide) = 0
      <4>1. HasFields(wide, 0, 15, s, 2, 0)  BY <1>2, <3>1, FieldsOfRri8
      <4> QED BY <3>2, <4>1 DEF HasFields
    <3>4. Decode24(a, wide) = DecodeSt0(wide)
      BY <3>3, SMT DEF Decode24, DecodeQrst
    <3>5. DecodeSt0(wide) = DecodeSync(wide)  BY <3>3, SMT DEF DecodeSt0
    <3>6. DecodeSync(wide) = [op |-> "Nop"]  BY <3>3, SMT DEF DecodeSync
    <3> QED BY <2>4, <3>4, <3>5, <3>6
  <2> QED BY <2>1, <2>2, <2>3, <2>4
<1>9. CASE Op0(w) \notin {8, 9, 10, 11, 12, 13}
  BY <1>9 DEF Decode16, Undecodable
<1> QED BY <1>3, <1>4, <1>5, <1>6, <1>7, <1>8, <1>9

(* Whatever a two-byte instruction decodes to, at whatever address, each   *)
(* three-byte encoding of it there decodes to the same: collapsing the two *)
(* forms into one variant of Inst loses nothing.                           *)
THEOREM FormsAreSynonyms == DecoderSpec => []NarrowFormsAreSynonyms
<1>1. DecodedInv => NarrowFormsAreSynonyms
  <2> SUFFICES ASSUME DecodedInv, result \in Inst, Size = 2,
                      NEW wide \in WideEncodings(result, at)
               PROVE  Decode(at, wide, 3) = result
    BY DEF NarrowFormsAreSynonyms
  <2>1. result # Undecoded /\ result \notin Undecodable
    BY SMT DEF Inst, InstOver, Undecoded, Undecodable, Illegal, Unsupported
  <2>2. at \in Word /\ word \in Nat /\ result = Decode16(at, word)
    BY <2>1, DecodedFacts DEF DecodedInv, Decode
  <2>3. Decode(at, wide, 3) = Decode24(at, wide)  BY SMT DEF Decode
  <2> QED BY <2>1, <2>2, <2>3, NarrowSynonyms
<1> QED BY <1>1, DecodedInductive, PTL

-----------------------------------------------------------------------------
(* MnemonicNamesTheWord, of one instruction. *)
Named(i, w, size) == i \in Undecodable \/ Names(Mnemonic(i, size), w)

(* The arms of mnemonic() that look at the size. *)
LEMMA NarrowForms ==
    ASSUME NEW i
    PROVE  /\ i.op = "Load" /\ i.kind = "U32" => Mnemonic(i, 2) = "l32i.n"
           /\ i.op = "Store" /\ i.kind = "U32" => Mnemonic(i, 2) = "s32i.n"
           /\ i.op = "Movi" => Mnemonic(i, 2) = "movi.n"
           /\ i.op = "Addi" => Mnemonic(i, 2) = "addi.n"
           /\ i.op = "Alu" /\ i.alu = "Add" => Mnemonic(i, 2) = "add.n"
           /\ i.op = "BranchZero" /\ i.cond = "Eq" => Mnemonic(i, 2) = "beqz.n"
           /\ i.op = "BranchZero" /\ i.cond = "Ne" => Mnemonic(i, 2) = "bnez.n"
           /\ i.op = "Ret" => Mnemonic(i, 2) = "ret.n"
           /\ i.op = "Nop" => Mnemonic(i, 2) = "nop.n"
           /\ i.op = "Mov" => Mnemonic(i, 2) = "mov.n"
  BY SMT DEF Mnemonic, NarrowMnemonic, WideMnemonic, Narrow

LEMMA WideForms ==
    ASSUME NEW i
    PROVE  Mnemonic(i, 3) = WideMnemonic(i)
  BY SMT DEF Mnemonic, Narrow

(* What is refused has no name. *)
LEMMA Refusals ==
    ASSUME NEW w, NEW size
    PROVE  Named(Illegal, w, size) /\ Named(Unsupported, w, size)
  BY DEF Named, Undecodable

LEMMA NarrowNames ==
    ASSUME NEW a \in Word, NEW w \in Nat
    PROVE  Named(Decode16(a, w), w, 2)
<1> DEFINE i == Decode16(a, w)
<1>1. T(w) \in Reg /\ R(w) \in Reg  BY FieldTypes
<1>2. CASE Op0(w) \notin 8 .. 13
  BY <1>2, Refusals, SMT DEF Decode16
<1>3. CASE Op0(w) \in {8, 9, 10, 11}
  <2>1. /\ Op0(w) = 8 => i.op = "Load" /\ i.kind = "U32"
        /\ Op0(w) = 9 => i.op = "Store" /\ i.kind = "U32"
        /\ Op0(w) = 10 => i.op = "Alu" /\ i.alu = "Add"
        /\ Op0(w) = 11 => i.op = "Addi"
    BY SMT DEF Decode16, Alu
  <2> HIDE DEF i
  <2>2. <<Mnemonic(i, 2), Op0(w)>> \in {<<"l32i.n", 8>>, <<"s32i.n", 9>>, <<"add.n", 10>>,
                                        <<"addi.n", 11>>}
    BY <1>3, <2>1, NarrowForms, SMT
  <2>3. Names(Mnemonic(i, 2), w)  BY <2>2, SMT DEF Names
  <2> QED BY <2>3 DEF Named, i
<1>4. CASE Op0(w) = 12
  <2>1. i = DecodeSt2(a, w)  BY <1>4, SMT DEF Decode16
  <2>2. /\ T(w) < 8 => T(w) \div 4 \in {0, 1} /\ i.op = "Movi"
        /\ ~ (T(w) < 8) => /\ i.op = "BranchZero" /\ T(w) \div 4 \in {2, 3}
                           /\ T(w) \div 4 = 2 => i.cond = "Eq"
                           /\ T(w) \div 4 = 3 => i.cond = "Ne"
    <3>1. T(w) < 8 => T(w) \div 4 \in {0, 1}  BY <1>1, SMT DEF Reg
    <3>2. ~ (T(w) < 8) => T(w) \div 4 \in {2, 3}  BY <1>1, SMT DEF Reg
    <3>3. T(w) \div 4 = 2 => (T(w) \div 4) % 2 = 0  BY SMT
    <3>4. T(w) \div 4 = 3 => (T(w) \div 4) % 2 # 0  BY SMT
    <3> QED BY <2>1, <3>1, <3>2, <3>3, <3>4, SMT DEF DecodeSt2, DecodeMoviN
  <2> HIDE DEF i
  <2>3. <<Mnemonic(i, 2), Op0(w), T(w) \div 4>> \in
            {<<"movi.n", 12, 0>>, <<"movi.n", 12, 1>>, <<"beqz.n", 12, 2>>, <<"bnez.n", 12, 3>>}
    BY <1>4, <2>2, NarrowForms, SMT
  <2>4. Names(Mnemonic(i, 2), w)  BY <2>3, SMT DEF Names
  <2> QED BY <2>4 DEF Named, i
<1>5. CASE Op0(w) = 13 /\ (R(w) = 0 \/ (R(w) = 15 /\ T(w) \in {0, 3}))
  <2>1. i = DecodeSt3(w)  BY <1>5, SMT DEF Decode16
  <2>2. /\ R(w) = 0 => i.op = "Mov"
        /\ R(w) = 15 /\ T(w) = 0 => i.op = "Ret"
        /\ R(w) = 15 /\ T(w) = 3 => i.op = "Nop"
    BY <2>1, SMT DEF DecodeSt3
  <2> HIDE DEF i
  <2>3. \/ R(w) = 0 /\ Mnemonic(i, 2) = "mov.n"
        \/ <<Mnemonic(i, 2), R(w), T(w)>> \in {<<"ret.n", 15, 0>>, <<"nop.n", 15, 3>>}
    BY <1>5, <2>2, NarrowForms, SMT
  <2>4. Names(Mnemonic(i, 2), w)  BY <1>5, <2>3, SMT DEF Names
  <2> QED BY <2>4 DEF Named, i
<1>6. CASE Op0(w) = 13 /\ ~ (R(w) = 0 \/ (R(w) = 15 /\ T(w) \in {0, 3}))
  <2>1. Decode16(a, w) = DecodeSt3(w)  BY <1>6, SMT DEF Decode16
  <2>2. R(w) = 15 /\ T(w) = 6 => DecodeSt3(w) = Illegal
    BY SMT DEF DecodeSt3
  <2>3. R(w) \notin {0, 15} => DecodeSt3(w) = Unsupported
    BY SMT DEF DecodeSt3
  <2>4. R(w) = 15 /\ T(w) \notin {0, 3, 6} => DecodeSt3(w) = Unsupported
    BY SMT DEF DecodeSt3
  <2> QED BY <1>6, <2>1, <2>2, <2>3, <2>4, Refusals
<1> QED BY <1>2, <1>3, <1>4, <1>5, <1>6, SMT

LEMMA QrstNames ==
    ASSUME NEW w \in Nat, Op0(w) = 0
    PROVE  Named(DecodeQrst(w), w, 3)
<1> DEFINE i == DecodeQrst(w)
<1>1. CASE Op1(w) = 0 /\ Op2(w) \in {1, 2, 3, 8, 12}
  <2>1. /\ i.op = "Alu"
        /\ Op2(w) = 1 => i.alu = "And"
        /\ Op2(w) = 2 => i.alu = "Or"
        /\ Op2(w) = 3 => i.alu = "Xor"
        /\ Op2(w) = 8 => i.alu = "Add"
        /\ Op2(w) = 12 => i.alu = "Sub"
    BY <1>1, SMT DEF DecodeQrst, Alu
  <2> HIDE DEF i
  <2>2. /\ Op2(w) = 1 => WideMnemonic(i) = "and"
        /\ Op2(w) = 2 => WideMnemonic(i) = "or"
        /\ Op2(w) = 3 => WideMnemonic(i) = "xor"
        /\ Op2(w) = 8 => WideMnemonic(i) = "add"
        /\ Op2(w) = 12 => WideMnemonic(i) = "sub"
    BY <2>1, SMT DEF WideMnemonic, AluMnemonic
  <2>3. WideMnemonic(i) \in DOMAIN RrrRows /\ Op2(w) = RrrRows[WideMnemonic(i)]
    BY <1>1, <2>2, SMT DEF RrrRows
  <2>4. Names(WideMnemonic(i), w)  BY <1>1, <2>3, SMT DEF Names
  <2> QED BY <2>4, WideForms DEF Named, i
<1>2. CASE Op1(w) = 0 /\ Op2(w) = 0
  <2>1. T(w) \in Reg  BY FieldTypes
  <2>2. /\ T(w) \div 4 = 2 /\ T(w) % 4 = 0 => T(w) = 8
        /\ T(w) \div 4 = 2 /\ T(w) % 4 = 2 => T(w) = 10
        /\ T(w) \div 4 = 3 /\ T(w) % 4 = 0 => T(w) = 12
    BY <2>1, SMT DEF Reg
  <2>3. i = DecodeSt0(w)  BY <1>2, SMT DEF DecodeQrst
  <2>4. \/ i \in {Illegal, Unsupported}
        \/ R(w) = 0 /\ T(w) = 8 /\ i.op = "Ret"
        \/ R(w) = 0 /\ T(w) = 10 /\ i.op = "JumpReg"
        \/ R(w) = 0 /\ T(w) = 12 /\ i.op = "CallReg"
        \/ R(w) = 2 /\ T(w) = 12 /\ i.op = "Memw"
        \/ R(w) = 2 /\ T(w) = 15 /\ i.op = "Nop"
    BY <2>2, <2>3, SMT DEF DecodeSt0, DecodeSnm0, DecodeSync
  <2>5. CASE i \in {Illegal, Unsupported}  BY <2>5, Refusals
  <2>6. CASE i \notin {Illegal, Unsupported}
    <3> HIDE DEF i
    <3>1. <<WideMnemonic(i), R(w), T(w)>> \in
              {<<"ret", 0, 8>>, <<"jx", 0, 10>>, <<"callx0", 0, 12>>, <<"memw", 2, 12>>,
               <<"nop", 2, 15>>}
      BY <2>4, <2>6, SMT DEF WideMnemonic
    <3>2. Names(WideMnemonic(i), w)  BY <1>2, <3>1, SMT DEF Names
    <3> QED BY <3>2, WideForms DEF Named, i
  <2> QED BY <2>5, <2>6
<1>3. CASE Op1(w) # 0 \/ Op2(w) \notin {0, 1, 2, 3, 8, 12}
  BY <1>3, Refusals, SMT DEF DecodeQrst
<1> QED BY <1>1, <1>2, <1>3

LEMMA LsaiNames ==
    ASSUME NEW w \in Nat, Op0(w) = 2
    PROVE  Named(DecodeLsai(w), w, 3)
<1> DEFINE i == DecodeLsai(w)
<1>1. CASE R(w) \in {0, 1, 2, 4, 5, 6, 9, 10, 12, 13}
  <2>1. /\ R(w) = 0 => i = LoadFrom("U8", 1, w)
        /\ R(w) = 1 => i = LoadFrom("U16", 2, w)
        /\ R(w) = 2 => i = LoadFrom("U32", 4, w)
        /\ R(w) = 9 => i = LoadFrom("I16", 2, w)
        /\ R(w) = 4 => i = StoreTo("U8", 1, w)
        /\ R(w) = 5 => i = StoreTo("U16", 2, w)
        /\ R(w) = 6 => i = StoreTo("U32", 4, w)
        /\ R(w) = 10 => i.op = "Movi"
        /\ R(w) = 12 => i = AddImm(w, 1)
        /\ R(w) = 13 => i = AddImm(w, 256)
    BY SMT DEF DecodeLsai
  <2>2. /\ R(w) = 0 => i.op = "Load" /\ i.kind = "U8"
        /\ R(w) = 1 => i.op = "Load" /\ i.kind = "U16"
        /\ R(w) = 2 => i.op = "Load" /\ i.kind = "U32"
        /\ R(w) = 9 => i.op = "Load" /\ i.kind = "I16"
        /\ R(w) = 4 => i.op = "Store" /\ i.kind = "U8"
        /\ R(w) = 5 => i.op = "Store" /\ i.kind = "U16"
        /\ R(w) = 6 => i.op = "Store" /\ i.kind = "U32"
        /\ R(w) = 10 => i.op = "Movi"
        /\ R(w) \in {12, 13} => i.op = "Addi"
    BY <2>1, SMT DEF LoadFrom, StoreTo, AddImm
  <2> HIDE DEF i
  <2>3. /\ R(w) = 0 => WideMnemonic(i) = "l8ui"
        /\ R(w) = 1 => WideMnemonic(i) = "l16ui"
        /\ R(w) = 2 => WideMnemonic(i) = "l32i"
        /\ R(w) = 9 => WideMnemonic(i) = "l16si"
        /\ R(w) = 4 => WideMnemonic(i) = "s8i"
        /\ R(w) = 5 => WideMnemonic(i) = "s16i"
        /\ R(w) = 6 => WideMnemonic(i) = "s32i"
        /\ R(w) = 10 => WideMnemonic(i) = "movi"
        /\ R(w) \in {12, 13} => WideMnemonic(i) = "addi"
    BY <2>2, SMT DEF WideMnemonic, LoadMnemonic, StoreMnemonic
  <2>4. WideMnemonic(i) \in DOMAIN LsaiRows /\ R(w) \in LsaiRows[WideMnemonic(i)]
    BY <1>1, <2>3, SMT DEF LsaiRows
  <2>5. Names(WideMnemonic(i), w)  BY <2>4, SMT DEF Names
  <2> QED BY <2>5, WideForms DEF Named, i
<1>2. CASE R(w) \notin {0, 1, 2, 4, 5, 6, 9, 10, 12, 13}
  BY <1>2, Refusals, SMT DEF DecodeLsai
<1> QED BY <1>1, <1>2

LEMMA ControlNames ==
    ASSUME NEW a \in Word, NEW w \in Nat
    PROVE  /\ Op0(w) = 1 => Named(DecodeL32r(a, w), w, 3)
           /\ Op0(w) = 5 => Named(DecodeCall(a, w), w, 3)
           /\ Op0(w) = 6 => Named(DecodeSi(a, w), w, 3)
           /\ Op0(w) = 7 => Named(DecodeB(a, w), w, 3)
<1>1. ASSUME Op0(w) = 1 PROVE Named(DecodeL32r(a, w), w, 3)
  <2>1. WideMnemonic(DecodeL32r(a, w)) = "l32r"  BY SMT DEF DecodeL32r, WideMnemonic
  <2>2. Names("l32r", w)  BY <1>1, SMT DEF Names
  <2> QED BY <2>1, <2>2, WideForms DEF Named
<1>2. ASSUME Op0(w) = 5 PROVE Named(DecodeCall(a, w), w, 3)
  <2>1. CASE N(w) # 0  BY <2>1, Refusals DEF DecodeCall
  <2>2. CASE N(w) = 0
    <3>1. WideMnemonic(DecodeCall(a, w)) = "call0"  BY <2>2, SMT DEF DecodeCall, WideMnemonic
    <3>2. Names("call0", w)  BY <1>2, SMT DEF Names
    <3> QED BY <3>1, <3>2, WideForms DEF Named
  <2> QED BY <2>1, <2>2
<1>3. ASSUME Op0(w) = 6 PROVE Named(DecodeSi(a, w), w, 3)
  <2> DEFINE i == DecodeSi(a, w)
  <2>1. T(w) \in Reg /\ M(w) \in 0 .. 3 /\ N(w) \in 0 .. 3  BY FieldTypes
  <2>2. T(w) % 4 = N(w) /\ T(w) = 4 * M(w) + N(w)
    <3>1. w \div 16 \in Nat /\ w \div 64 = (w \div 16) \div 4  BY SMT
    <3>2. ASSUME NEW v \in Nat PROVE v % 16 = 4 * ((v \div 4) % 4) + (v % 4)
      <4>1. v = 4 * (v \div 4) + (v % 4) /\ v % 4 \in 0 .. 3 /\ v \div 4 \in Nat  BY SMT
      <4>2. \A q \in Nat : q = 4 * (q \div 4) + (q % 4) /\ q % 4 \in 0 .. 3 /\ q \div 4 \in Nat
        BY SMT
      <4>3. v = 16 * ((v \div 4) \div 4) + (4 * ((v \div 4) % 4) + (v % 4))
        BY <4>1, <4>2, SMT
      <4> QED BY <4>1, <4>2, <4>3, SMT
    <3>3. T(w) = 4 * M(w) + N(w)  BY <3>1, <3>2 DEF T, M, N
    <3> QED BY <2>1, <3>3, SMT
  <2>3. CASE N(w) = 0
    <3>1. WideMnemonic(i) = "j"  BY <2>3, SMT DEF DecodeSi, WideMnemonic
    <3>2. Names("j", w)  BY <1>3, <2>2, <2>3, SMT DEF Names
    <3> QED BY <3>1, <3>2, WideForms DEF Named
  <2>4. CASE N(w) = 1
    <3>1. /\ i.op = "BranchZero"
          /\ M(w) = 0 => i.cond = "Eq"
          /\ M(w) = 1 => i.cond = "Ne"
          /\ M(w) = 2 => i.cond = "Lt"
          /\ M(w) = 3 => i.cond = "Ge"
      BY <2>4, SMT DEF DecodeSi
    <3> HIDE DEF i
    <3>2. /\ M(w) = 0 => WideMnemonic(i) = "beqz" /\ T(w) = 1
          /\ M(w) = 1 => WideMnemonic(i) = "bnez" /\ T(w) = 5
          /\ M(w) = 2 => WideMnemonic(i) = "bltz" /\ T(w) = 9
          /\ M(w) = 3 => WideMnemonic(i) = "bgez" /\ T(w) = 13
      BY <2>2, <2>4, <3>1, SMT DEF WideMnemonic, ZeroMnemonic
    <3>3. WideMnemonic(i) \in DOMAIN ZeroRows /\ T(w) = ZeroRows[WideMnemonic(i)]
      BY <2>1, <3>2, SMT DEF ZeroRows
    <3>4. Names(WideMnemonic(i), w)  BY <1>3, <3>3, SMT DEF Names
    <3> QED BY <3>4, WideForms DEF Named, i
  <2>5. CASE N(w) \notin {0, 1}
    BY <2>5, Refusals, SMT DEF DecodeSi
  <2> QED BY <2>3, <2>4, <2>5
<1>4. ASSUME Op0(w) = 7 PROVE Named(DecodeB(a, w), w, 3)
  <2> DEFINE i == DecodeB(a, w)
  <2>1. CASE R(w) \in {1, 2, 3, 9, 10, 11}
    <3>1. /\ i.op = "Branch"
          /\ R(w) = 1 => i.cond = "Eq"
          /\ R(w) = 2 => i.cond = "Lt"
          /\ R(w) = 3 => i.cond = "Ltu"
          /\ R(w) = 9 => i.cond = "Ne"
          /\ R(w) = 10 => i.cond = "Ge"
          /\ R(w) = 11 => i.cond = "Geu"
      BY <2>1, SMT DEF DecodeB
    <3> HIDE DEF i
    <3>2. /\ R(w) = 1 => WideMnemonic(i) = "beq"
          /\ R(w) = 2 => WideMnemonic(i) = "blt"
          /\ R(w) = 3 => WideMnemonic(i) = "bltu"
          /\ R(w) = 9 => WideMnemonic(i) = "bne"
          /\ R(w) = 10 => WideMnemonic(i) = "bge"
          /\ R(w) = 11 => WideMnemonic(i) = "bgeu"
      BY <3>1, SMT DEF WideMnemonic, BranchMnemonic
    <3>3. WideMnemonic(i) \in DOMAIN BranchRows /\ R(w) = BranchRows[WideMnemonic(i)]
      BY <2>1, <3>2, SMT DEF BranchRows
    <3>4. Names(WideMnemonic(i), w)  BY <1>4, <3>3, SMT DEF Names
    <3> QED BY <3>4, WideForms DEF Named, i
  <2>2. CASE R(w) \notin {1, 2, 3, 9, 10, 11}
    BY <2>2, Refusals, SMT DEF DecodeB
  <2> QED BY <2>1, <2>2
<1> QED BY <1>1, <1>2, <1>3, <1>4

(* For every word: the mnemonic a trace gives it, found again from the     *)
(* operation and the size alone, is the ISA's.                             *)
THEOREM MnemonicsName == DecoderSpec => []MnemonicNamesTheWord
<1>1. ASSUME NEW a \in Word, NEW w \in Nat
      PROVE  Named(Decode(a, w, 2), w, 2) /\ Named(Decode(a, w, 3), w, 3)
  <2>1. Named(Decode24(a, w), w, 3)
    <3>1. Op0(w) \in {0, 1, 2, 5, 6, 7} => Named(Decode24(a, w), w, 3)
      BY QrstNames, LsaiNames, ControlNames, SMT DEF Decode24
    <3>2. Op0(w) \notin {0, 1, 2, 5, 6, 7} => Named(Decode24(a, w), w, 3)
      BY Refusals, SMT DEF Decode24
    <3> QED BY <3>1, <3>2
  <2> QED BY <2>1, NarrowNames DEF Decode
<1>2. DecodedInv => MnemonicNamesTheWord
  <2> SUFFICES ASSUME DecodedInv, result \in Inst
               PROVE  Names(Mnemonic(result, Size), word)
    BY DEF MnemonicNamesTheWord
  <2>1. result # Undecoded /\ result \notin Undecodable
    BY SMT DEF Inst, InstOver, Undecoded, Undecodable, Illegal, Unsupported
  <2>2. at \in Word /\ word \in Nat /\ result = Decode(at, word, Size) /\ Size \in {2, 3}
    BY <2>1, DecodedFacts DEF DecodedInv
  <2>3. Named(result, word, Size)  BY <1>1, <2>2
  <2> QED BY <2>1, <2>3 DEF Named
<1> QED BY <1>2, DecodedInductive, PTL
=============================================================================
