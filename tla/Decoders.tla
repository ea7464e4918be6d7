------------------------------ MODULE Decoders ------------------------------
(***************************************************************************)
(* The parts of the two instruction sets that the encoders use, from the   *)
(* processor's side: the instruction that the bytes or the word of an      *)
(* encoding stand for.  It is not code of the repository but the reference *)
(* that X8664Encoder and AArch64Encoder are compared with, written from    *)
(* the architectures and not from the encoders.                            *)
(***************************************************************************)
EXTENDS Integers, Sequences

-----------------------------------------------------------------------------
(***************************************************************************)
(* x86-64: Decode.  A decoded operand is a tuple: <<"gp", n, width>>,      *)
(* <<"high", n>> (AH, CH, DH or BH), <<"xmm", n>>, <<"imm", bytes>>,       *)
(* <<"mem", base, index, scale, displacement, width>>, <<"rip", width>>    *)
(* (memory at a 32-bit displacement from the next instruction) and         *)
(* <<"rel">>.  The width of memory is 0 where the operation alone decides. *)
(***************************************************************************)
LegacyPrefixes == {\h66, \hF2, \hF3}
RexPrefixes == \h40..\h4F

At(bytes, k) == IF k <= Len(bytes) THEN bytes[k] ELSE 0
Take(bytes, k, n) == [j \in 1..n |-> At(bytes, k + j - 1)]

SignedByte(b) == IF b < 128 THEN b ELSE b - 256
SignedLong(b) == b[1] + 256 * b[2] + 65536 * b[3] + 16777216 * SignedByte(b[4])

SignExtend(b, width) ==
    [k \in 1..width |-> IF k <= Len(b) THEN b[k] ELSE IF b[Len(b)] < 128 THEN 0 ELSE 255]
ZeroExtend(b, width) == [k \in 1..width |-> IF k <= Len(b) THEN b[k] ELSE 0]

(* The prefixes before the opcode.  A REX prefix counts only immediately   *)
(* before the opcode.                                                      *)
Prefix(bytes, start) ==
    LET n == CHOOSE n \in 0..Len(bytes) :
                 /\ \A k \in 1..n : At(bytes, start + k - 1) \in LegacyPrefixes \cup RexPrefixes
                 /\ At(bytes, start + n) \notin LegacyPrefixes \cup RexPrefixes
        present == {At(bytes, start + k - 1) : k \in 1..n}
        last == IF n = 0 THEN 0 ELSE At(bytes, start + n - 1)
        rex == IF last \in RexPrefixes THEN last ELSE 0
    IN  [rex |-> rex, next |-> start + n, op16 |-> \h66 \in present,
         rep |-> IF \hF3 \in present THEN \hF3 ELSE IF \hF2 \in present THEN \hF2 ELSE 0,
         W |-> (rex \div 8) % 2, R |-> (rex \div 4) % 2, X |-> (rex \div 2) % 2, B |-> rex % 2]

OperandSize(p) == IF p.W = 1 THEN 8 ELSE IF p.op16 THEN 2 ELSE 4

Gp(p, n, width) ==
    IF width = 1 /\ p.rex = 0 /\ n \in 4..7 THEN <<"high", n - 4>> ELSE <<"gp", n, width>>

(* The ModRM byte at position k, with its SIB byte and displacement.       *)
ModRM(bytes, k, p) ==
    LET mod == At(bytes, k) \div 64
        reg == (At(bytes, k) \div 8) % 8
        rm == At(bytes, k) % 8
        sib == At(bytes, k + 1)
        disp == IF rm = 4 THEN k + 2 ELSE k + 1
        base == IF rm = 4 THEN sib % 8 ELSE rm
        index == ((sib \div 8) % 8) + 8 * p.X
        size == CASE mod = 1 -> 1 [] mod = 2 -> 4 [] OTHER -> IF base = 5 THEN 4 ELSE 0
        value == CASE size = 0 -> 0 [] size = 1 -> SignedByte(At(bytes, disp))
                   [] OTHER -> SignedLong(Take(bytes, disp, 4))
    IN  IF mod = 3
        THEN [digit |-> reg, reg |-> reg + 8 * p.R, rm |-> <<"reg", rm + 8 * p.B>>,
              next |-> k + 1, field |-> 0]
        ELSE IF mod = 0 /\ rm = 5
        THEN [digit |-> reg, reg |-> reg + 8 * p.R, rm |-> <<"rip">>,
              next |-> k + 5, field |-> k + 1]
        ELSE [digit |-> reg, reg |-> reg + 8 * p.R,
              rm |-> IF rm = 4 /\ index # 4
                     THEN <<"mem", base + 8 * p.B, index, <<1, 2, 4, 8>>[sib \div 64 + 1], value>>
                     ELSE <<"mem", base + 8 * p.B, 4, 1, value>>,
              next |-> disp + size, field |-> 0]

GpRm(p, m, width) == IF m.rm[1] = "reg" THEN Gp(p, m.rm[2], width) ELSE Append(m.rm, width)
XmmRm(m) == IF m.rm[1] = "reg" THEN <<"xmm", m.rm[2]>> ELSE Append(m.rm, 0)

Decoded(op, operands, next, field) ==
    [op |-> op, operands |-> operands, next |-> next, field |-> field]
Invalid == Decoded("invalid", <<>>, 1, 0)

-----------------------------------------------------------------------------
Arithmetic == <<"ADD", "OR", "ADC", "SBB", "AND", "SUB", "XOR", "CMP">>
Shifts == <<"ROL", "ROR", "RCL", "RCR", "SHL", "SHR", "SAL", "SAR">>

(* Opcodes of one byte, at position k.                                     *)
DecodeOne(bytes, k, p, m) ==
    LET opcode == At(bytes, k)
        size == OperandSize(p)
        width == IF opcode % 2 = 0 THEN 1 ELSE size     \* most opcodes come in pairs
        long == IF size = 8 THEN 4 ELSE size            \* of an immediate
        gp == Gp(p, m.reg, width)
        rm == GpRm(p, m, width)
        reg == (opcode % 8) + 8 * p.B
        Imm(at, n, w) == <<"imm", SignExtend(Take(bytes, at, n), w)>>
    IN  CASE opcode < \h40 /\ opcode % 8 \in {0, 1} ->
               Decoded(Arithmetic[opcode \div 8 + 1], <<rm, gp>>, m.next, m.field)
          [] opcode < \h40 /\ opcode % 8 \in {2, 3} ->
               Decoded(Arithmetic[opcode \div 8 + 1], <<gp, rm>>, m.next, m.field)
          [] opcode < \h40 /\ opcode % 8 = 4 ->
               Decoded(Arithmetic[opcode \div 8 + 1],
                       <<<<"gp", 0, 1>>, Imm(k + 1, 1, 1)>>, k + 2, 0)
          [] opcode < \h40 /\ opcode % 8 = 5 ->
               Decoded(Arithmetic[opcode \div 8 + 1],
                       <<<<"gp", 0, size>>, Imm(k + 1, long, size)>>, k + 1 + long, 0)
          [] opcode \in {\h80, \h83} ->
               Decoded(Arithmetic[m.digit + 1], <<rm, Imm(m.next, 1, width)>>, m.next + 1, m.field)
          [] opcode = \h81 ->
               Decoded(Arithmetic[m.digit + 1], <<rm, Imm(m.next, long, size)>>,
                       m.next + long, m.field)
          [] opcode \in \h50..\h57 -> Decoded("PUSH", <<<<"gp", reg, 8>>>>, k + 1, 0)
          [] opcode \in \h58..\h5F -> Decoded("POP", <<<<"gp", reg, 8>>>>, k + 1, 0)
          [] opcode = \h63 -> Decoded("MOVSX", <<gp, GpRm(p, m, 4)>>, m.next, m.field)
          [] opcode = \h69 ->
               Decoded("IMUL", <<gp, rm, Imm(m.next, long, size)>>, m.next + long, m.field)
          [] opcode \in {\h88, \h89} -> Decoded("MOV", <<rm, gp>>, m.next, m.field)
          [] opcode \in {\h8A, \h8B} -> Decoded("MOV", <<gp, rm>>, m.next, m.field)
          [] opcode = \h8D -> Decoded("LEA", <<gp, GpRm(p, m, 0)>>, m.next, m.field)
          [] opcode = \h99 ->
               Decoded(CASE size = 2 -> "CWD" [] size = 4 -> "CDQ" [] size = 8 -> "CQO",
                       <<>>, k + 1, 0)
          [] opcode \in \hB0..\hB7 ->
               Decoded("MOV", <<Gp(p, reg, 1), Imm(k + 1, 1, 1)>>, k + 2, 0)
          [] opcode \in \hB8..\hBF /\ size = 2 ->
               Decoded("MOV", <<<<"gp", reg, 2>>, Imm(k + 1, 2, 2)>>, k + 3, 0)
          [] opcode \in \hB8..\hBF /\ size # 2 ->       \* the upper half is cleared
               Decoded("MOV", <<<<"gp", reg, 8>>, <<"imm", ZeroExtend(Take(bytes, k + 1, size), 8)>>>>,
                       k + 1 + size, 0)
          [] opcode \in {\hC6, \hC7} /\ m.digit = 0 ->
               LET n == IF width = 1 THEN 1 ELSE long
               IN  Decoded("MOV", <<rm, Imm(m.next, n, width)>>, m.next + n, m.field)
          [] opcode \in {\hC0, \hC1} ->
               Decoded(Shifts[m.digit + 1], <<rm, Imm(m.next, 1, 1)>>, m.next + 1, m.field)
          [] opcode \in {\hD0, \hD1} ->
               Decoded(Shifts[m.digit + 1], <<rm, <<"imm", <<1>>>>>>, m.next, m.field)
          [] opcode \in {\hD2, \hD3} ->
               Decoded(Shifts[m.digit + 1], <<rm, <<"gp", 1, 1>>>>, m.next, m.field)
          [] opcode = \hC3 -> Decoded("RET", <<>>, k + 1, 0)
          [] opcode = \hE8 -> Decoded("CALL", <<<<"rel">>>>, k + 5, k + 1)
          [] opcode \in {\hF6, \hF7} /\ m.digit \in {6, 7} ->
               Decoded(IF m.digit = 6 THEN "DIV" ELSE "IDIV", <<rm>>, m.next, m.field)
          [] opcode = \hFF /\ m.digit = 2 -> Decoded("CALL", <<GpRm(p, m, 8)>>, m.next, m.field)
          [] OTHER -> Invalid

(* The name of a floating-point operation, by its mandatory prefix.        *)
Scalar(p, single, double) == CASE p.rep = \hF3 -> single [] p.rep = \hF2 -> double [] OTHER -> "?"
Packed(p, single, double) == IF p.op16 THEN double ELSE single

(* Opcodes after the 0F escape; k is the position of the second byte.      *)
DecodeTwo(bytes, k, p, m) ==
    LET opcode == At(bytes, k)
        size == OperandSize(p)
        int == IF p.W = 1 THEN 8 ELSE 4                 \* of a conversion
        gp == <<"gp", m.reg, size>>
        xmm == <<"xmm", m.reg>>
        Two(op, dst, src) == Decoded(op, <<dst, src>>, m.next, m.field)
    IN  CASE opcode \in \h40..\h4F ->
               Two(<<"CMOVO", "CMOVNO", "CMOVB", "CMOVAE", "CMOVE", "CMOVNE", "CMOVBE", "CMOVA",
                     "CMOVS", "CMOVNS", "CMOVP", "CMOVNP", "CMOVL", "CMOVGE", "CMOVLE",
                     "CMOVG">>[(opcode % 16) + 1], gp, GpRm(p, m, size))
          [] opcode = \hAF -> Two("IMUL", gp, GpRm(p, m, size))
          [] opcode = \hB6 -> Two("MOVZX", gp, GpRm(p, m, 1))
          [] opcode = \hB7 -> Two("MOVZX", gp, GpRm(p, m, 2))
          [] opcode = \hBE -> Two("MOVSX", gp, GpRm(p, m, 1))
          [] opcode = \hBF -> Two("MOVSX", gp, GpRm(p, m, 2))
          [] opcode = \h10 /\ p.rep # 0 -> Two(Scalar(p, "MOVSS", "MOVSD"), xmm, XmmRm(m))
          [] opcode = \h11 /\ p.rep # 0 -> Two(Scalar(p, "MOVSS", "MOVSD"), XmmRm(m), xmm)
          [] opcode = \h10 /\ p.rep = 0 -> Two(Packed(p, "MOVUPS", "MOVUPD"), xmm, XmmRm(m))
          [] opcode = \h11 /\ p.rep = 0 -> Two(Packed(p, "MOVUPS", "MOVUPD"), XmmRm(m), xmm)
          [] opcode = \h28 -> Two(Packed(p, "MOVAPS", "MOVAPD"), xmm, XmmRm(m))
          [] opcode = \h29 -> Two(Packed(p, "MOVAPS", "MOVAPD"), XmmRm(m), xmm)
          [] opcode = \h7E /\ p.op16 -> Two("MOVQ", GpRm(p, m, int), xmm)
          [] opcode = \h51 -> Two(Scalar(p, "SQRTSS", "SQRTSD"), xmm, XmmRm(m))
          [] opcode = \h58 -> Two(Scalar(p, "ADDSS", "ADDSD"), xmm, XmmRm(m))
          [] opcode = \h59 -> Two(Scalar(p, "MULSS", "MULSD"), xmm, XmmRm(m))
          [] opcode = \h5C -> Two(Scalar(p, "SUBSS", "SUBSD"), xmm, XmmRm(m))
          [] opcode = \h5D -> Two(Scalar(p, "MINSS", "MINSD"), xmm, XmmRm(m))
          [] opcode = \h5E -> Two(Scalar(p, "DIVSS", "DIVSD"), xmm, XmmRm(m))
          [] opcode = \h5F -> Two(Scalar(p, "MAXSS", "MAXSD"), xmm, XmmRm(m))
          [] opcode = \h57 -> Two(Packed(p, "XORPS", "XORPD"), xmm, XmmRm(m))
          [] opcode = \h2E -> Two(Packed(p, "UCOMISS", "UCOMISD"), xmm, XmmRm(m))
          [] opcode = \h5A -> Two(Scalar(p, "CVTSS2SD", "CVTSD2SS"), xmm, XmmRm(m))
          [] opcode = \h2A -> Two(Scalar(p, "CVTSI2SS", "CVTSI2SD"), xmm, GpRm(p, m, int))
          [] opcode = \h2D -> Two(Scalar(p, "CVTSS2SI", "CVTSD2SI"), <<"gp", m.reg, int>>, XmmRm(m))
          [] OTHER -> Invalid

(* The instruction that starts at position start; its next is the position *)
(* after it and its field that of a displacement from next, or 0.          *)
DecodeAfter(bytes, p) ==
    IF At(bytes, p.next) = \h0F THEN DecodeTwo(bytes, p.next + 1, p, ModRM(bytes, p.next + 2, p))
    ELSE DecodeOne(bytes, p.next, p, ModRM(bytes, p.next + 1, p))
Decode(bytes, start) == DecodeAfter(bytes, Prefix(bytes, start))

-----------------------------------------------------------------------------
(***************************************************************************)
(* AArch64: DecodeWord.  A word is the set of its bits that are one, an    *)
(* immediate the set of the bits of its 64-bit value.  Register 31 is the  *)
(* stack pointer as the base of an address and in the additions that say   *)
(* so, elsewhere a register that reads as zero.                            *)
(***************************************************************************)
BitsIn(n) == {k \in 0..30 : (n \div 2 ^ k) % 2 = 1}
Pattern(high, low) == {k + 16 : k \in BitsIn(high)} \cup BitsIn(low)

\* The bits lo..hi of a word: as a set, as a number, and as a signed value of 64 bits.
Cut(w, lo, hi) == {k - lo : k \in w \cap (lo..hi)}
Value(w, lo, hi) ==
    LET sum[k \in lo..hi + 1] == IF k > hi THEN 0 ELSE (IF k \in w THEN 2 ^ (k - lo) ELSE 0) + sum[k + 1] IN sum[lo]
SignedCut(w, lo, hi) == Cut(w, lo, hi) \cup IF hi \in w THEN (hi - lo)..63 ELSE {}
Scaled(bits, by) == {k + by : k \in bits} \cap 0..63

Reads(w, mask, pattern) == w \cap mask = pattern

Size(w) == IF 31 \in w THEN 8 ELSE 4
FpSize(w) == IF 22 \in w THEN 8 ELSE 4
OrZero(n, size) == <<"gp", IF n = 31 THEN "zero" ELSE n, size>>
OrSp(n, size) == <<"gp", IF n = 31 THEN "sp" ELSE n, size>>
Fp(n, size) == <<"fp", n, size>>
Rd(w) == Value(w, 0, 4)
Rn(w) == Value(w, 5, 9)
Ra(w) == Value(w, 10, 14)
Rm(w) == Value(w, 16, 20)
Cond(w, lo) ==
    LET n == Value(w, lo, lo + 3)
    IN <<"cond", IF n < 14 THEN <<"EQ", "NE", "HS", "LO", "MI", "PL", "VS", "VC", "HI", "LS", "GE", "LT", "GT", "LE">>[n + 1]
                 ELSE "AL">>
Bits(b) == <<"imm", b>>
Made(op, operands) == [op |-> op, operands |-> operands]
Unallocated == Made("invalid", <<>>)

-----------------------------------------------------------------------------
(* Moves of constants: the value of the whole register.                    *)
Constant(w) ==
    LET shifted == Scaled(Cut(w, 5, 20), 16 * Value(w, 21, 22))
        all == 0..(8 * Size(w) - 1)
    IN CASE Reads(w, Pattern(\h7F80, 0), Pattern(\h5280, 0)) ->
              Made("MOV", <<OrZero(Rd(w), Size(w)), Bits(shifted)>>)
         [] Reads(w, Pattern(\h7F80, 0), Pattern(\h1280, 0)) ->
              Made("MOV", <<OrZero(Rd(w), Size(w)), Bits(all \ shifted)>>)
         [] Reads(w, Pattern(\h7F80, 0), Pattern(\h7280, 0)) ->
              Made("MOVK", <<OrZero(Rd(w), Size(w)), Bits(Cut(w, 5, 20)), 16 * Value(w, 21, 22)>>)
         [] OTHER -> Unallocated

(* Additions, comparisons, logic and multiplication.                       *)
AddImmediate(w) ==
    LET value == Bits(Scaled(Cut(w, 10, 21), IF 22 \in w THEN 12 ELSE 0))
        lhs == OrSp(Rn(w), Size(w))
    IN CASE {29, 30} \cap w = {} -> Made("ADD", <<OrSp(Rd(w), Size(w)), lhs, value>>)
         [] {29, 30} \cap w = {30} -> Made("SUB", <<OrSp(Rd(w), Size(w)), lhs, value>>)
         [] {29, 30} \subseteq w /\ Rd(w) = 31 -> Made("CMP", <<lhs, value>>)
         [] OTHER -> Unallocated
AddShifted(w) ==
    LET lhs == OrZero(Rn(w), Size(w))
        rhs == OrZero(Rm(w), Size(w))
        by == Value(w, 10, 15)
    IN CASE {22, 23, 29, 30} \cap w = {} -> Made("ADD", <<OrZero(Rd(w), Size(w)), lhs, rhs, by>>)
         [] {22, 23, 29, 30} \cap w = {30} -> Made("SUB", <<OrZero(Rd(w), Size(w)), lhs, rhs, by>>)
         [] {22, 23, 29, 30} \cap w = {29, 30} /\ Rd(w) = 31 /\ by = 0 -> Made("CMP", <<lhs, rhs>>)
         [] OTHER -> Unallocated
\* With the option for 64 bits the extension of the second operand is a shift.
AddExtended(w) ==
    IF 29 \in w \/ Value(w, 13, 15) # 3 \/ 31 \notin w THEN Unallocated
    ELSE Made(IF 30 \in w THEN "SUB" ELSE "ADD",
              <<OrSp(Rd(w), 8), OrSp(Rn(w), 8), OrZero(Rm(w), 8), Value(w, 10, 12)>>)
Logical(w) ==
    LET r(n) == OrZero(n, Size(w))
        three(op) == Made(op, <<r(Rd(w)), r(Rn(w)), r(Rm(w)), Value(w, 10, 15)>>)
    IN CASE {22, 23} \cap w # {} -> Unallocated
         [] Cut(w, 29, 30) = {} -> three("AND")
         [] Cut(w, 29, 30) = {0} /\ Rn(w) = 31 /\ Value(w, 10, 15) = 0 -> Made("MOV", <<r(Rd(w)), r(Rm(w))>>)
         [] Cut(w, 29, 30) = {0} -> three("ORR")
         [] Cut(w, 29, 30) = {1} -> three("EOR")
         [] OTHER -> Unallocated
TwoSource(w) ==
    LET name == [n \in {2, 3, 8, 9, 10} |-> CASE n = 2 -> "UDIV" [] n = 3 -> "SDIV" [] n = 8 -> "LSL" [] n = 9 -> "LSR"
                                              [] n = 10 -> "ASR"]
    IN IF Value(w, 10, 15) \notin DOMAIN name THEN Unallocated
       ELSE Made(name[Value(w, 10, 15)], <<OrZero(Rd(w), Size(w)), OrZero(Rn(w), Size(w)), OrZero(Rm(w), Size(w))>>)
ThreeSource(w) ==
    Made(IF 15 \in w THEN "MSUB" ELSE "MADD",
         <<OrZero(Rd(w), Size(w)), OrZero(Rn(w), Size(w)), OrZero(Rm(w), Size(w)), OrZero(Ra(w), Size(w))>>)
\* The fields of a byte, of two or of four, extended to the register.
Bitfield(w) ==
    LET width == Value(w, 10, 15) + 1
        name == [n \in {8, 16, 32} |-> CASE n = 8 -> "XTB" [] n = 16 -> "XTH" [] n = 32 -> "XTW"]
    IN IF (22 \in w) # (31 \in w) \/ Value(w, 16, 21) # 0 \/ width \notin DOMAIN name THEN Unallocated
       ELSE Made((IF 30 \in w THEN "U" ELSE "S") \o name[width], <<OrZero(Rd(w), Size(w)), OrZero(Rn(w), Size(w))>>)

-----------------------------------------------------------------------------
(* Loads and stores.                                                       *)
LoadStore(w) ==
    LET scale == Value(w, 30, 31)
        base == OrSp(Rn(w), 8)
        address ==
            CASE 24 \in w -> <<"offset", base, Scaled(Cut(w, 10, 21), scale)>>
              [] 24 \notin w /\ 21 \in w /\ Cut(w, 10, 11) = {1} /\ Value(w, 13, 15) = 3 ->
                   <<"index", base, OrZero(Rm(w), 8), IF 12 \in w THEN scale ELSE 0>>
              [] 24 \notin w /\ 21 \notin w /\ Cut(w, 10, 11) = {} -> <<"offset", base, SignedCut(w, 12, 20)>>
              [] 24 \notin w /\ 21 \notin w /\ Cut(w, 10, 11) = {0} -> <<"post", base, SignedCut(w, 12, 20)>>
              [] 24 \notin w /\ 21 \notin w /\ Cut(w, 10, 11) = {0, 1} -> <<"pre", base, SignedCut(w, 12, 20)>>
              [] OTHER -> <<"none">>
        reg == IF 26 \in w THEN Fp(Rd(w), 2 ^ scale) ELSE OrZero(Rd(w), IF scale = 3 THEN 8 ELSE 4)
    IN IF 23 \in w \/ 25 \in w \/ address = <<"none">> THEN Unallocated
       ELSE Made(IF 22 \in w THEN "load" ELSE "store", <<2 ^ scale, reg, address>>)
LoadStorePair(w) ==
    LET mode == Value(w, 23, 25)
        scale == IF 31 \in w THEN 3 ELSE 2
        offset == Scaled(SignedCut(w, 15, 21), scale)
        base == OrSp(Rn(w), 8)
    IN IF {26, 30} \cap w # {} \/ mode \notin 1..3 THEN Unallocated
       ELSE Made(IF 22 \in w THEN "load pair" ELSE "store pair",
                 <<2 ^ scale, OrZero(Rd(w), Size(w)), OrZero(Ra(w), Size(w)), <<<<"post", "offset", "pre">>[mode], base, offset>>>>)

-----------------------------------------------------------------------------
(* Floating point.                                                         *)
\* VFPExpandImm
ExpandImm(imm8, size) ==
    LET top == 8 * size - 1
        exponentEnd == IF size = 8 THEN 52 ELSE 23
    IN {top : k \in imm8 \cap {7}} \cup (IF 6 \in imm8 THEN (exponentEnd + 2)..(top - 2) ELSE {top - 1})
       \cup {k - 4 + exponentEnd : k \in imm8 \cap {4, 5}} \cup {exponentEnd - 4 + k : k \in imm8 \cap 0..3}

IntegerConversion(w) ==
    LET kind == <<Value(w, 19, 20), Value(w, 16, 18)>>
        toFp(op) == Made(op, <<Fp(Rd(w), FpSize(w)), OrZero(Rn(w), Size(w))>>)
        toGp(op) == Made(op, <<OrZero(Rd(w), Size(w)), Fp(Rn(w), FpSize(w))>>)
    IN CASE kind = <<0, 2>> -> toFp("SCVTF")
         [] kind = <<0, 3>> -> toFp("UCVTF")
         [] kind = <<3, 0>> -> toGp("FCVTZS")
         [] kind = <<3, 1>> -> toGp("FCVTZU")
         [] kind = <<0, 6>> /\ Size(w) = FpSize(w) -> toGp("FMOV")
         [] kind = <<0, 7>> /\ Size(w) = FpSize(w) -> toFp("FMOV")
         [] OTHER -> Unallocated
FloatingPoint(w) ==
    LET d == Fp(Rd(w), FpSize(w))
        n == Fp(Rn(w), FpSize(w))
        m == Fp(Rm(w), FpSize(w))
        opcode == Value(w, 12, 15)
    IN CASE 23 \in w -> Unallocated
         [] Cut(w, 10, 15) = {} -> IntegerConversion(w)
         [] Cut(w, 10, 14) = {4} /\ 31 \notin w ->
              CASE Value(w, 15, 20) = 0 -> Made("FMOV", <<d, n>>)
                [] Value(w, 15, 20) = 4 /\ 22 \in w -> Made("FCVT", <<Fp(Rd(w), 4), n>>)
                [] Value(w, 15, 20) = 5 /\ 22 \notin w -> Made("FCVT", <<Fp(Rd(w), 8), n>>)
                [] OTHER -> Unallocated
         [] Cut(w, 10, 11) = {1} /\ opcode < 4 /\ 31 \notin w -> Made(<<"FMUL", "FDIV", "FADD", "FSUB">>[opcode + 1], <<d, n, m>>)
         [] Cut(w, 10, 15) = {3} /\ Rd(w) = 0 /\ 31 \notin w -> Made("FCMP", <<n, m>>)
         [] Cut(w, 10, 12) = {2} /\ Rn(w) = 0 /\ 31 \notin w -> Made("FMOV", <<d, Bits(ExpandImm(Cut(w, 13, 20), FpSize(w)))>>)
         [] Cut(w, 10, 11) = {0, 1} /\ 31 \notin w -> Made("FCSEL", <<d, n, m, Cond(w, 12)>>)
         [] OTHER -> Unallocated

-----------------------------------------------------------------------------
(* The instruction in a word.  A branch goes a distance of bytes.          *)
DecodeWord(w) ==
    LET Has(mh, ml, ph, pl) == Reads(w, Pattern(mh, ml), Pattern(ph, pl))
    IN CASE Has(\h1F80, 0, \h1280, 0) -> Constant(w)
         [] Has(\h1F80, 0, \h1100, 0) -> AddImmediate(w)
         [] Has(\h1F20, 0, \h0B00, 0) -> AddShifted(w)
         [] Has(\h1FE0, 0, \h0B20, 0) -> AddExtended(w)
         [] Has(\h1F20, 0, \h0A00, 0) -> Logical(w)
         [] Has(\h7FE0, 0, \h1AC0, 0) -> TwoSource(w)
         [] Has(\h7FE0, 0, \h1B00, 0) -> ThreeSource(w)
         [] Has(\h7FE0, \h0C00, \h1A80, 0) ->
              Made("CSEL", <<OrZero(Rd(w), Size(w)), OrZero(Rn(w), Size(w)), OrZero(Rm(w), Size(w)), Cond(w, 12)>>)
         [] Has(\h3F80, 0, \h1300, 0) -> Bitfield(w)
         [] Has(\h3A00, 0, \h3800, 0) -> LoadStore(w)
         [] Has(\h3A00, 0, \h2800, 0) -> LoadStorePair(w)
         [] Has(\h7F20, 0, \h1E20, 0) -> FloatingPoint(w)
         [] Has(\hFC00, 0, \h1400, 0) -> Made("B", <<<<"to", Scaled(SignedCut(w, 0, 25), 2)>>>>)
         [] Has(\hFC00, 0, \h9400, 0) -> Made("BL", <<<<"to", Scaled(SignedCut(w, 0, 25), 2)>>>>)
         [] Has(\hFF00, \h0010, \h5400, 0) -> Made("B_", <<Cond(w, 0), <<"to", Scaled(SignedCut(w, 5, 23), 2)>>>>)
         [] Has(\hFFFF, \hFC1F, \hD61F, 0) -> Made("BR", <<OrZero(Rn(w), 8)>>)
         [] Has(\hFFFF, \hFC1F, \hD63F, 0) -> Made("BLR", <<OrZero(Rn(w), 8)>>)
         [] Has(\hFFFF, \hFC1F, \hD65F, 0) -> Made("RET", <<OrZero(Rn(w), 8)>>)
         [] Has(\h9F00, 0, \h9000, 0) /\ Cut(w, 5, 23) \cup Cut(w, 29, 30) = {} -> Made("ADRP", <<OrZero(Rd(w), 8)>>)
         [] OTHER -> Unallocated
=============================================================================
