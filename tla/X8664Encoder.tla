------------------------------ MODULE X8664Encoder ------------------------------
(***************************************************************************)
(* The x86-64 encoder (src/src/banjo/target/x86_64/x86_64_encoder.cpp):    *)
(* the bytes and the symbol uses it appends to the text section for one    *)
(* machine instruction.  Operators keep the names of the methods.          *)
(*                                                                         *)
(* A piece of the section is a record [bytes, uses]; the position of a use *)
(* counts from the start of the piece, and "++" appends one piece to       *)
(* another as the write buffer does.  Branches to blocks (encode_jmp,      *)
(* encode_jcc) get slices of their own and are in BinaryBuilder.           *)
(*                                                                         *)
(* Operands:                                                               *)
(*   [kind |-> "gp" | "xmm", reg, size]            a physical register     *)
(*   [kind |-> "imm", bits, size]                  bits: 8 bytes, low first*)
(*   [kind |-> "symbol", name, reloc, size]        the address of a symbol *)
(*   [kind |-> "mem", base, index, scale, disp, size]                      *)
(*   [kind |-> "deref", name, reloc, size]         memory at a symbol      *)
(* A stack slot is a "mem" with base RSP and the offset of its slot.       *)
(***************************************************************************)
EXTENDS Integers, Sequences

CONSTANT Programs     \* sequences of instructions [op, operands] to encode
VARIABLES program,    \* the instructions of a function, in the order of its blocks
          pc,         \* the next one
          text        \* what the text section holds

vars == <<program, pc, text>>

EAX == 0
EBX == 3
ESP == 4
EBP == 5
EDI == 7
NoIndex == 4

-----------------------------------------------------------------------------
(* The section's write buffer.                                             *)

Emit(bytes) == [bytes |-> bytes, uses |-> {}]
Nothing == Emit(<<>>)

a ++ b ==
    [bytes |-> a.bytes \o b.bytes,
     uses |-> a.uses \cup {[u EXCEPT !.at = @ + Len(a.bytes)] : u \in b.uses}]

Zeroes(n) == [k \in 1..n |-> 0]
Bytes(value, n) == [k \in 1..n |-> (value \div 256^(k - 1)) % 256]

(* write_i8, write_i16, write_i32 and write_i64 keep the low bytes.        *)
WriteImm(bits, n) == Emit(SubSeq(bits, 1, n))

(* add_symbol_use followed by the zeroes that hold its place.              *)
AddSymbolUse(name, kind, addend, n) ==
    [bytes |-> Zeroes(n),
     uses |-> {[at |-> 0, symbol |-> name, kind |-> kind, addend |-> addend]}]

-----------------------------------------------------------------------------
(* Operands.                                                               *)

is_reg(o) == o.kind \in {"gp", "xmm"}
is_imm(o) == o.kind \in {"imm", "symbol"}
is_addr(o) == o.kind \in {"mem", "deref"}
is_roa(o) == is_reg(o) \/ is_addr(o)

use_kind(o) ==
    CASE o.reloc = "NONE" -> "REL32"
      [] o.reloc = "GOT" -> "GOTPCREL32"
      [] o.reloc = "PLT" -> "PLT32"

(* fits_in_i8 of a displacement, and of the 64 bits of an immediate.       *)
fits_in_i8(value) == value \in -128..127
ImmFitsInI8(bits) ==
    \/ bits[1] < 128 /\ \A k \in 2..8 : bits[k] = 0
    \/ bits[1] >= 128 /\ \A k \in 2..8 : bits[k] = 255

(* imm.value <= numeric_limits<uint32_t>::min(): zero only.                *)
fits_in_32_bits(o) == o.kind = "imm" /\ \A k \in 1..8 : o.bits[k] = 0

-----------------------------------------------------------------------------
(* Prefixes, ModRM and SIB.                                                *)

Bit(b) == IF b THEN 1 ELSE 0

emit_16bit_prefix_if_required(size) == IF size = 2 THEN Emit(<<\h66>>) ELSE Nothing

emit_rex(w, r, x, b) == Emit(<<\h40 + 8 * Bit(w) + 4 * Bit(r) + 2 * Bit(x) + Bit(b)>>)

emit_rex_rr(size, reg, rm) ==
    LET w == size = 8
        r == reg > EDI
        b == rm > EDI
        required == size = 1 /\ (reg % 8 > EBX \/ rm % 8 > EBX)
    IN  IF required \/ w \/ r \/ b THEN emit_rex(w, r, FALSE, b) ELSE Nothing

RexIgnoringIndex(size, reg, addr) ==   \* mutant: an index in R8 to R15 does not call for a prefix
    LET w == size = 8
        r == reg > EDI
        b == addr.kind = "deref" \/ addr.base > EDI
        required == size = 1 /\ reg % 8 > EBX
    IN  IF required \/ w \/ r \/ b THEN emit_rex(w, r, FALSE, b) ELSE Nothing

emit_rex_rm(size, reg, addr) ==
    LET w == size = 8
        r == reg > EDI
        x == addr.kind = "mem" /\ addr.index > EDI
        b == addr.kind = "deref" \/ addr.base > EDI   \* ADDR_NO_BASE is 255
        required == size = 1 /\ reg % 8 > EBX
    IN  IF required \/ w \/ r \/ x \/ b THEN emit_rex(w, r, x, b) ELSE Nothing

emit_rex_rroa(size, reg, roa) ==
    IF is_reg(roa) THEN emit_rex_rr(size, reg, roa.reg) ELSE emit_rex_rm(size, reg, roa)

emit_rex_o(size, reg) ==
    LET w == size = 8
        b == reg > EDI
        required == size = 1 /\ reg % 8 > EBX
    IN  IF required \/ w \/ b THEN emit_rex(w, FALSE, FALSE, b) ELSE Nothing

emit_modrm(mod, reg, rm) == Emit(<<mod * 64 + (reg % 8) * 8 + (rm % 8)>>)

emit_sib(scale, index, base) ==
    LET ss == CASE scale = 1 -> 0 [] scale = 2 -> 1 [] scale = 4 -> 2 [] scale = 8 -> 3
    IN  Emit(<<ss * 64 + (index % 8) * 8 + (base % 8)>>)

(* The memory operand: no displacement, one byte or four; a base of EBP    *)
(* (or R13) cannot go without, a base of ESP (or R12) needs the SIB byte.  *)
EmitRegAddress(addr, digit) ==
    LET sib == addr.index # NoIndex \/ addr.base % 8 = ESP
        mod == IF addr.disp = 0 /\ addr.base % 8 # EBP THEN 0
               ELSE IF fits_in_i8(addr.disp) THEN 1 ELSE 2
    IN  (IF sib
         THEN emit_modrm(mod, digit, 4) ++ emit_sib(addr.scale, addr.index, addr.base)
         ELSE emit_modrm(mod, digit, addr.base))
        ++ Emit(Bytes(addr.disp, <<0, 1, 4>>[mod + 1]))

EmitSymbolAddress(addr, digit, offset_to_next_instr) ==
    emit_modrm(0, digit, 5)
    ++ AddSymbolUse(addr.name, use_kind(addr), -offset_to_next_instr, 4)

emit_mem_digit(addr, digit, offset_to_next_instr) ==
    IF addr.kind = "mem" THEN EmitRegAddress(addr, digit)
    ELSE EmitSymbolAddress(addr, digit, offset_to_next_instr)

emit_mem_reg(addr, reg) == emit_mem_digit(addr, reg, 0)

emit_modrm_rr(reg, rm) == emit_modrm(3, reg, rm)

emit_modrm_sib(reg, roa) ==
    IF is_reg(roa) THEN emit_modrm_rr(reg, roa.reg) ELSE emit_mem_digit(roa, reg, 0)

emit_combined_opcode(opcode, reg) == Emit(<<opcode + (reg % 8)>>)

-----------------------------------------------------------------------------
(* mov, imul, lea.                                                         *)

emit_basic_rr(opcode8, opcode32, dst, src, size) ==
    emit_16bit_prefix_if_required(size) ++ emit_rex_rr(size, src, dst)
    ++ Emit(<<IF size = 1 THEN opcode8 ELSE opcode32>>) ++ emit_modrm_rr(src, dst)

emit_basic_rm(opcode8, opcode32, reg, addr, size) ==
    emit_16bit_prefix_if_required(size) ++ emit_rex_rm(size, reg, addr)
    ++ Emit(<<IF size = 1 THEN opcode8 ELSE opcode32>>) ++ emit_mem_reg(addr, reg)

emit_mov_ri(dst, src, fullSize) ==
    LET size == IF fullSize = 8 /\ fits_in_32_bits(src) THEN 4 ELSE fullSize
    IN  emit_16bit_prefix_if_required(size) ++ emit_rex_o(size, dst)
        ++ emit_combined_opcode(IF size = 1 THEN \hB0 ELSE \hB8, dst)
        ++ IF src.kind = "imm" THEN WriteImm(src.bits, size)
           ELSE AddSymbolUse(src.name, "ABS64", 0, 8)

emit_mov_mi(dst, src, size) ==
    LET width == IF size = 8 THEN 4 ELSE size
    IN  emit_16bit_prefix_if_required(size) ++ emit_rex_rm(size, 0, dst)
        ++ Emit(<<IF size = 1 THEN \hC6 ELSE \hC7>>)
        ++ emit_mem_digit(dst, 0, width) ++ WriteImm(src.bits, width)

encode_mov(dst, src) ==
    CASE is_reg(dst) /\ is_reg(src) -> emit_basic_rr(\h88, \h89, dst.reg, src.reg, dst.size)
      [] is_reg(dst) /\ is_imm(src) -> emit_mov_ri(dst.reg, src, dst.size)
      [] is_reg(dst) /\ is_addr(src) -> emit_basic_rm(\h8A, \h8B, dst.reg, src, dst.size)
      [] is_addr(dst) /\ is_reg(src) -> emit_basic_rm(\h88, \h89, src.reg, dst, dst.size)
      [] is_addr(dst) /\ is_imm(src) -> emit_mov_mi(dst, src, dst.size)

(* The REX prefix is chosen from the size of the destination.              *)
EncodeExtend(dst, src, opcode) ==
    emit_16bit_prefix_if_required(dst.size) ++ emit_rex_rroa(dst.size, dst.reg, src)
    ++ Emit(opcode) ++ emit_modrm_sib(dst.reg, src)

encode_movsx(dst, src) ==
    EncodeExtend(dst, src,
        CASE src.size = 1 -> <<\h0F, \hBE>>
          [] src.size = 2 -> <<\h0F, \hBF>>
          [] src.size = 4 -> <<\h63>>)

encode_movzx(dst, src) ==
    EncodeExtend(dst, src, <<\h0F, IF src.size = 1 THEN \hB6 ELSE \hB7>>)

encode_imul(dst, src) ==
    IF is_imm(src)
    THEN emit_16bit_prefix_if_required(dst.size) ++ emit_rex_rr(dst.size, dst.reg, dst.reg)
         ++ Emit(<<\h69>>) ++ emit_modrm_rr(dst.reg, dst.reg) ++ WriteImm(src.bits, 4)
    ELSE EncodeExtend(dst, src, <<\h0F, \hAF>>)

encode_lea(dst, src) ==
    emit_16bit_prefix_if_required(dst.size) ++ emit_rex_rm(dst.size, dst.reg, src)
    ++ Emit(<<\h8D>>) ++ emit_mem_reg(src, dst.reg)

EncodeDivide(src, digit) ==
    emit_16bit_prefix_if_required(src.size) ++ emit_rex_rroa(src.size, 0, src)
    ++ Emit(<<IF src.size = 1 THEN \hF6 ELSE \hF7>>) ++ emit_modrm_sib(digit, src)

-----------------------------------------------------------------------------
(* The arithmetic instructions with a common pattern, and the shifts.      *)

BasicInstrOpcodes(digit, rax_imm8, rax_imm16, rm8_r8, rm16_r16, r8_rm8, r16_rm16) ==
    [digit |-> digit, rax_imm8 |-> rax_imm8, rax_imm16 |-> rax_imm16,
     rm8_imm8 |-> \h80, rm16_imm16 |-> \h81, rm16_imm8 |-> \h83,
     rm8_r8 |-> rm8_r8, rm16_r16 |-> rm16_r16, r8_rm8 |-> r8_rm8, r16_rm16 |-> r16_rm16]

BasicOpcodes ==
    [ADD |-> BasicInstrOpcodes(0, \h04, \h05, \h00, \h01, \h02, \h03),
     OR  |-> BasicInstrOpcodes(1, \h0C, \h0D, \h08, \h09, \h0A, \h0B),
     AND |-> BasicInstrOpcodes(4, \h24, \h25, \h20, \h21, \h22, \h23),
     SUB |-> BasicInstrOpcodes(5, \h2C, \h2D, \h28, \h29, \h2A, \h2B),
     XOR |-> BasicInstrOpcodes(6, \h34, \h35, \h30, \h31, \h32, \h33),
     CMP |-> BasicInstrOpcodes(7, \h3C, \h3D, \h38, \h39, \h3A, \h3B)]

EncodeBasicImm(dst, src, opcodes) ==
    LET size == dst.size
        is_imm8 == ImmFitsInI8(src.bits)
        width == IF size = 8 THEN 4 ELSE size
    IN  IF dst = [kind |-> "gp", reg |-> EAX, size |-> size] /\ ~(is_imm8 /\ size > 1)
        THEN emit_rex_rr(size, EAX, EAX)
             ++ Emit(<<IF size = 1 THEN opcodes.rax_imm8 ELSE opcodes.rax_imm16>>)
             ++ WriteImm(src.bits, width)
        ELSE emit_rex_rroa(size, EAX, dst)
             ++ IF is_imm8
                THEN Emit(<<IF size = 1 THEN opcodes.rm8_imm8 ELSE opcodes.rm16_imm8>>)
                     ++ emit_modrm_sib(opcodes.digit, dst) ++ WriteImm(src.bits, 1)
                ELSE Emit(<<opcodes.rm16_imm16>>) ++ emit_modrm_sib(opcodes.digit, dst)
                     ++ IF size = 1 THEN Nothing ELSE WriteImm(src.bits, width)

encode_basic_instr(dst, src, opcodes) ==
    LET size == dst.size
    IN  emit_16bit_prefix_if_required(size)
        ++ CASE is_imm(src) -> EncodeBasicImm(dst, src, opcodes)
             [] is_reg(src) ->
                  emit_rex_rroa(size, src.reg, dst)
                  ++ Emit(<<IF size = 1 THEN opcodes.rm8_r8 ELSE opcodes.rm16_r16>>)
                  ++ emit_modrm_sib(src.reg, dst)
             [] is_addr(src) ->
                  emit_rex_rroa(size, dst.reg, src)
                  ++ Emit(<<IF size = 1 THEN opcodes.r8_rm8 ELSE opcodes.r16_rm16>>)
                  ++ emit_modrm_sib(dst.reg, src)

ShiftDigit == [SHL |-> 4, SHR |-> 5, SAR |-> 7]

(* The count is CL or an immediate; the short form for one bit is chosen   *)
(* for the value -1.                                                       *)
encode_shift(dst, src, digit) ==
    LET minusOne == is_imm(src) /\ \A k \in 1..8 : src.bits[k] = 255
        opcode == CASE is_reg(src) -> \hD2 [] minusOne -> \hD0 [] OTHER -> \hC0
    IN  emit_16bit_prefix_if_required(dst.size) ++ emit_rex_rroa(dst.size, 0, dst)
        ++ Emit(<<IF dst.size = 1 THEN opcode ELSE opcode + 1>>) ++ emit_modrm_sib(digit, dst)
        ++ IF is_imm(src) /\ ~minusOne THEN WriteImm(src.bits, 1) ELSE Nothing

CmovOpcode ==
    [CMOVE |-> \h44, CMOVNE |-> \h45, CMOVA |-> \h47, CMOVAE |-> \h43, CMOVB |-> \h42,
     CMOVBE |-> \h46, CMOVG |-> \h4F, CMOVGE |-> \h4D, CMOVL |-> \h4C, CMOVLE |-> \h4E]

encode_cmovcc(dst, src, opcode) == EncodeExtend(dst, src, <<\h0F, opcode>>)

-----------------------------------------------------------------------------
(* Calls and the stack.                                                    *)

encode_call(target) ==
    CASE target.kind = "symbol" ->
           Emit(<<\hE8>>) ++ AddSymbolUse(target.name, use_kind(target), 0, 4)
      [] is_reg(target) -> Emit(<<\hFF>>) ++ emit_modrm_rr(2, target.reg)
      [] is_addr(target) ->
           emit_rex_rm(0, 0, target) ++ Emit(<<\hFF>>) ++ emit_mem_digit(target, 2, 0)

EncodePushPop(operand, opcode) ==
    (IF operand.reg > EDI THEN emit_rex(FALSE, FALSE, FALSE, TRUE) ELSE Nothing)
    ++ emit_combined_opcode(opcode, operand.reg)

-----------------------------------------------------------------------------
(* Floating point.                                                         *)

emit_sse(prefix, opcode, dst, src, size) ==
    Emit(<<prefix>>) ++ emit_rex_rroa(size, dst, src) ++ Emit(<<\h0F, opcode>>)
    ++ emit_modrm_sib(dst, src)

(* Loads and moves between registers use one opcode, stores the next.      *)
EncodeSseMove(dst, src, prefix, opcode) ==
    IF is_reg(dst)
    THEN Emit(prefix) ++ emit_rex_rroa(0, dst.reg, src) ++ Emit(<<\h0F, opcode>>)
         ++ emit_modrm_sib(dst.reg, src)
    ELSE Emit(prefix) ++ emit_rex_rroa(0, src.reg, dst) ++ Emit(<<\h0F, opcode + 1>>)
         ++ emit_modrm_sib(src.reg, dst)

SseMoves ==
    [MOVSS |-> [prefix |-> <<\hF3>>, opcode |-> \h10],
     MOVSD |-> [prefix |-> <<\hF2>>, opcode |-> \h10],
     MOVAPS |-> [prefix |-> <<>>, opcode |-> \h28],
     MOVUPS |-> [prefix |-> <<>>, opcode |-> \h10]]

encode_movq(dst, src) ==
    Emit(<<\h66>>) ++ emit_rex_rr(8, src.reg, dst.reg) ++ Emit(<<\h0F, \h7E>>)
    ++ emit_modrm_rr(src.reg, dst.reg)

SseOps ==
    [ADDSS |-> <<\hF3, \h58>>, ADDSD |-> <<\hF2, \h58>>, SUBSS |-> <<\hF3, \h5C>>,
     SUBSD |-> <<\hF2, \h5C>>, MULSS |-> <<\hF3, \h59>>, MULSD |-> <<\hF2, \h59>>,
     DIVSS |-> <<\hF3, \h5E>>, DIVSD |-> <<\hF2, \h5E>>, MINSS |-> <<\hF3, \h5D>>,
     MAXSS |-> <<\hF3, \h5F>>, SQRTSS |-> <<\hF3, \h51>>]

SseConversions ==
    [CVTSS2SD |-> <<\hF3, \h5A, 0>>, CVTSD2SS |-> <<\hF2, \h5A, 0>>,
     CVTSI2SS |-> <<\hF3, \h2A, 0>>, CVTSI2SD |-> <<\hF2, \h2A, 8>>,
     CVTSS2SI |-> <<\hF3, \h2D, 0>>, CVTSD2SI |-> <<\hF2, \h2D, 8>>]

encode_xorps(dst, src) ==
    emit_rex_rroa(0, dst.reg, src) ++ Emit(<<\h0F, \h57>>) ++ emit_modrm_sib(dst.reg, src)

encode_ucomiss(dst, src) ==
    emit_rex_rroa(4, dst.reg, src) ++ Emit(<<\h0F, \h2E>>) ++ emit_modrm_sib(dst.reg, src)

(* The operand-size prefix follows the REX prefix.                         *)
encode_ucomisd(dst, src) ==
    emit_rex_rroa(4, dst.reg, src) ++ Emit(<<\h66, \h0F, \h2E>>) ++ emit_modrm_sib(dst.reg, src)

-----------------------------------------------------------------------------
(* encode_instr: instr is [op, operands].                                  *)
encode_instr(instr) ==
    LET op == instr.op
        operand(k) == instr.operands[k]
    IN  CASE op = "MOV" -> encode_mov(operand(1), operand(2))
          [] op = "MOVSX" -> encode_movsx(operand(1), operand(2))
          [] op = "MOVZX" -> encode_movzx(operand(1), operand(2))
          [] op \in DOMAIN BasicOpcodes ->
               encode_basic_instr(operand(1), operand(2), BasicOpcodes[op])
          [] op \in DOMAIN ShiftDigit ->
               encode_shift(operand(1), operand(2), ShiftDigit[op])
          [] op = "CWD" -> Emit(<<\h66, \h99>>)
          [] op = "CDQ" -> Emit(<<\h99>>)
          [] op = "CQO" -> emit_rex(TRUE, FALSE, FALSE, FALSE) ++ Emit(<<\h99>>)
          [] op = "IMUL" -> encode_imul(operand(1), operand(2))
          [] op = "DIV" -> EncodeDivide(operand(1), 6)
          [] op = "IDIV" -> EncodeDivide(operand(1), 7)
          [] op \in DOMAIN CmovOpcode ->
               encode_cmovcc(operand(1), operand(2), CmovOpcode[op])
          [] op = "LEA" -> encode_lea(operand(1), operand(2))
          [] op = "CALL" -> encode_call(operand(1))
          [] op = "RET" -> Emit(<<\hC3>>)
          [] op = "PUSH" -> EncodePushPop(operand(1), \h50)
          [] op = "POP" -> EncodePushPop(operand(1), \h58)
          [] op \in DOMAIN SseMoves ->
               EncodeSseMove(operand(1), operand(2), SseMoves[op].prefix, SseMoves[op].opcode)
          [] op = "MOVQ" -> encode_movq(operand(1), operand(2))
          [] op \in DOMAIN SseOps ->
               emit_sse(SseOps[op][1], SseOps[op][2], operand(1).reg, operand(2), 0)
          [] op = "XORPS" -> encode_xorps(operand(1), operand(2))
          [] op = "XORPD" -> Emit(<<\h66>>) ++ encode_xorps(operand(1), operand(2))
          [] op = "UCOMISS" -> encode_ucomiss(operand(1), operand(2))
          [] op = "UCOMISD" -> encode_ucomisd(operand(1), operand(2))
          [] op \in DOMAIN SseConversions ->
               emit_sse(SseConversions[op][1], SseConversions[op][2], operand(1).reg,
                        operand(2), SseConversions[op][3])

-----------------------------------------------------------------------------
(* BinaryBuilder::encode hands the encoder one instruction after the other.*)

Init ==
    /\ program \in Programs
    /\ pc = 1
    /\ text = Nothing

EncodeInstr ==
    /\ pc <= Len(program)
    /\ text' = text ++ encode_instr(program[pc])
    /\ pc' = pc + 1
    /\ UNCHANGED program

Spec == Init /\ [][EncodeInstr]_vars
=============================================================================
