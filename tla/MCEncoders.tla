------------------------------ MODULE MCEncoders ------------------------------
(***************************************************************************)
(* Both encoders: each behaviour is one program of one of them.  The       *)
(* programs of the x86-64 encoder take operands where it chooses; those of *)
(* the AArch64 encoder take every instruction it knows over registers at   *)
(* both ends of a field, the sizes, the kinds of addresses, values at the  *)
(* limits of their fields, and branches over each other.                   *)
(***************************************************************************)
EXTENDS X8664Encoder, FiniteSets

-----------------------------------------------------------------------------
(***************************************************************************)
(* The x86-64 encoder over the operands where its choices differ: every    *)
(* register as the base, the index and the operand of some instruction,    *)
(* the displacements and the immediates around the limits of a byte, all   *)
(* sizes, and symbols.  The bytes are read back by Decoders.               *)
(***************************************************************************)

Isa == INSTANCE Decoders

CONSTANT Defects         \* the defects of the encoder whose inputs are left out

-----------------------------------------------------------------------------
(* What an instruction means, in the words of the decoder.                 *)

Operand(o, width) ==
    CASE o.kind = "gp" -> <<"gp", o.reg, width>>
      [] o.kind = "xmm" -> <<"xmm", o.reg>>
      [] o.kind = "imm" -> <<"imm", SubSeq(o.bits, 1, width)>>
      [] o.kind = "symbol" -> <<"imm", Zeroes(8)>>
      [] o.kind = "mem" ->
           <<"mem", o.base, o.index, IF o.index = NoIndex THEN 1 ELSE o.scale, o.disp, width>>
      [] o.kind = "deref" -> <<"rip", width>>

FloatingPoint ==
    DOMAIN SseMoves \cup DOMAIN SseOps \cup DOMAIN SseConversions
    \cup {"XORPS", "XORPD", "UCOMISS", "UCOMISD", "MOVQ"}

(* The width at which operand k of the instruction is read or written.     *)
WidthOf(instr, k) ==
    LET o == instr.operands[k]
    IN  CASE instr.op \in FloatingPoint /\ o.kind # "gp" /\ instr.op \notin {"CVTSI2SS", "CVTSI2SD"} -> 0
          [] instr.op = "LEA" /\ k = 2 -> 0
          [] instr.op \in DOMAIN ShiftDigit /\ k = 2 -> 1
          [] o.kind = "imm" -> instr.operands[1].size
          [] OTHER -> o.size

Meaning(instr) ==
    LET ops == [k \in DOMAIN instr.operands |-> Operand(instr.operands[k], WidthOf(instr, k))]
    IN  CASE instr.op = "CALL" /\ instr.operands[1].kind = "symbol" ->
               [op |-> "CALL", operands |-> <<<<"rel">>>>]
          [] instr.op = "IMUL" /\ instr.operands[2].kind = "imm" ->
               [op |-> "IMUL", operands |-> <<ops[1], ops[1], ops[2]>>]
          \* writing the lower half of a register clears the upper half
          [] instr.op = "MOV" /\ ops[1][1] = "gp" /\ ops[2][1] = "imm" /\ ops[1][3] = 4 ->
               [op |-> "MOV", operands |-> <<<<"gp", ops[1][2], 8>>,
                                            <<"imm", Isa!ZeroExtend(ops[2][2], 8)>>>>]
          [] OTHER -> [op |-> instr.op, operands |-> ops]

(* The instructions the processor reads, and where each of them ends.      *)
Read ==
    LET start[k \in 1..Len(program) + 1] ==
            IF k = 1 THEN 1 ELSE Isa!Decode(text.bytes, start[k - 1]).next
    IN  [k \in 1..Len(program) |-> Isa!Decode(text.bytes, start[k])]

Done == program # <<>> /\ pc > Len(program)

-----------------------------------------------------------------------------
(* The bytes of a sequence of instructions are read back as those          *)
(* instructions, each with its own operands at their full width: no        *)
(* register falls into another half of the register file, no displacement  *)
(* or immediate is cut, and no instruction takes a byte of the next.       *)
(* (x86_64_encoder.cpp)                                                    *)
Decodes ==
    Done => \E read \in {Read} :
        /\ \A k \in 1..Len(program) :
               [op |-> read[k].op, operands |-> read[k].operands] = Meaning(program[k])
        /\ read[Len(program)].next = Len(text.bytes) + 1

(* The linker writes the distance from the end of the field, less the      *)
(* addend, so that the symbol is reached only if the addend makes up for   *)
(* the immediate that follows the field: every use of a symbol lies at a   *)
(* field the processor reads as a displacement, and its addend leads to    *)
(* the next instruction.  (emit_mem_digit, emit_mov_mi, resolve_symbol)    *)
SymbolsReached ==
    Done => \E read \in {Read} :
        /\ \A u \in text.uses : u.kind # "ABS64" =>
               \E k \in 1..Len(program) :
                   u.at + 1 = read[k].field /\ u.at + 4 - u.addend = read[k].next - 1
        /\ \A k \in 1..Len(program) :
               read[k].field # 0 => \E u \in text.uses : u.at + 1 = read[k].field

-----------------------------------------------------------------------------
(* The instructions to encode.                                             *)

ImmValues == {0, 1, -1, 127, 128, -128, -129, 1000, 100000, -100000}
Displacements == {0, 1, 127, -128, 128, -129, 1000}
Sizes == {1, 2, 4, 8}
Wide == {2, 4, 8}
Gp(reg, size) == [kind |-> "gp", reg |-> reg, size |-> size]
Xmm(reg) == [kind |-> "xmm", reg |-> reg, size |-> 8]
ImmBits(bits, size) == [kind |-> "imm", bits |-> bits, size |-> size]
Imm(value, size) ==
    ImmBits([k \in 1..8 |-> IF k <= 4 THEN Bytes(value, 4)[k] ELSE IF value < 0 THEN 255 ELSE 0], size)
Mem(base, index, scale, disp, size) ==
    [kind |-> "mem", base |-> base, index |-> index, scale |-> scale, disp |-> disp, size |-> size]
Deref(size) == [kind |-> "deref", name |-> "s", reloc |-> "NONE", size |-> size]
SymbolAt(reloc) == [kind |-> "symbol", name |-> "s", reloc |-> reloc, size |-> 8]

AllGp == 0..15
SomeGp == {0, 1, 5, 6, 9, 12}
SomeXmm == {0, 7, 8}

(* Values of an operation of a size: signed, or unsigned with zero upper   *)
(* bytes.  One of 8 bytes takes an immediate that 4 bytes sign-extend to.  *)
Limit(size) == CASE size = 1 -> 128 [] size = 2 -> 32768 [] OTHER -> 2147483647
Imms(size) ==
    {Imm(v, size) : v \in {w \in ImmValues : -Limit(size) <= w /\ w < Limit(size)}}
    \cup (IF size \in {2, 4}
          THEN {ImmBits([k \in 1..8 |-> IF k <= size THEN 255 ELSE 0], size)} ELSE {})
    \cup (IF size = 1 /\ "byte_immediate" \notin Defects THEN {Imm(200, 1)} ELSE {})

Mems(size) ==
    {Mem(b, NoIndex, 1, d, size) : b \in AllGp, d \in Displacements}
    \cup {Mem(b, i, s, d, size) : b \in {0, 4, 5, 12, 13}, i \in AllGp \ {4}, s \in {1, 2, 4, 8},
                                  d \in {0, 1000}}
SomeMems(size) == {Mem(0, NoIndex, 1, 0, size), Mem(4, NoIndex, 1, 16, size),
                   Mem(13, 9, 8, -129, size), Deref(size)}

I(op, operands) == [op |-> op, operands |-> operands]

Moves ==
    UNION {{I("MOV", <<Gp(d, s), Gp(r, s)>>) : d \in AllGp, r \in AllGp} : s \in Sizes}
    \cup UNION {{I("MOV", <<Gp(d, s), v>>) : d \in AllGp, v \in Imms(s)} : s \in Sizes}
    \cup UNION {{I("MOV", <<Gp(d, s), m>>) : d \in SomeGp, m \in SomeMems(s)} : s \in Sizes}
    \cup UNION {{I("MOV", <<m, Gp(d, s)>>) : d \in SomeGp, m \in SomeMems(s)} : s \in Sizes}
    \cup UNION {{I("MOV", <<m, v>>) : m \in SomeMems(s), v \in Imms(s)} : s \in Sizes}
    \cup {I("MOV", <<Gp(d, 8), ImmBits(<<0, 228, 11, 84, 2, 0, 0, 0>>, 8)>>) : d \in AllGp}
    \cup {I("MOV", <<Gp(d, 8), SymbolAt("NONE")>>) : d \in SomeGp}
    \cup {I("LEA", <<Gp(d, 8), m>>) : d \in {0, 9}, m \in Mems(8) \cup {Deref(8)}}

(* A byte in SPL, BPL, SIL or DIL needs a REX prefix, which the encoder    *)
(* emits only if the destination calls for one.                            *)
Extends ==
    LET pairs == {<<2, 1>>, <<4, 1>>, <<8, 1>>, <<4, 2>>, <<8, 2>>}
        All(op, p) == {I(op, <<Gp(d, p[1]), o>>) :
                           d \in SomeGp, o \in {Gp(r, p[2]) : r \in AllGp} \cup SomeMems(p[2])}
        rexless(i) == /\ i.operands[2].kind = "gp" /\ i.operands[2].size = 1
                      /\ i.operands[2].reg \in 4..7
                      /\ i.operands[1].reg < 8 /\ i.operands[1].size # 8
    IN  {i \in UNION {All("MOVSX", p) : p \in pairs \cup {<<8, 4>>}}
               \cup UNION {All("MOVZX", p) : p \in pairs} :
            "byte_source" \in Defects => ~rexless(i)}

Arithmetics ==
    UNION {UNION {{I(op, <<Gp(d, s), v>>) : d \in SomeGp, v \in Imms(s)}
                  \cup {I(op, <<m, v>>) : m \in SomeMems(s) \ {Deref(s)}, v \in Imms(s)}
                  \cup (IF "symbol_immediate" \in Defects THEN {}
                        ELSE {I(op, <<Deref(s), v>>) : v \in Imms(s)})
                  \cup {I(op, <<Gp(d, s), Gp(r, s)>>) : d \in SomeGp, r \in SomeGp}
                  \cup {I(op, <<m, Gp(r, s)>>) : m \in SomeMems(s), r \in {5, 9}}
                  \cup {I(op, <<Gp(r, s), m>>) : m \in SomeMems(s), r \in {5, 9}} : s \in Sizes}
           : op \in DOMAIN BasicOpcodes}

Shifting ==
    UNION {UNION {{I(op, <<o, c>>) : o \in {Gp(r, s) : r \in SomeGp} \cup (SomeMems(s) \ {Deref(s)}),
                                     c \in {Gp(1, 1), Imm(1, 1), Imm(5, 1)}} : s \in Sizes}
           : op \in DOMAIN ShiftDigit}

Multiplying ==
    UNION {{I("IMUL", <<Gp(d, s), o>>) : d \in SomeGp, o \in {Gp(r, s) : r \in SomeGp} \cup SomeMems(s)}
           \cup {I("CMOVL", <<Gp(d, s), o>>) : d \in SomeGp,
                                               o \in {Gp(r, s) : r \in SomeGp} \cup SomeMems(s)}
           \cup {I(op, <<Gp(0, s), Gp(9, s)>>) : op \in DOMAIN CmovOpcode} : s \in Wide}
    \cup UNION {{I("IMUL", <<Gp(d, s), v>>) : d \in SomeGp, v \in Imms(s)} : s \in {4, 8}}
    \cup UNION {{I(op, <<o>>) : op \in {"DIV", "IDIV"},
                                o \in {Gp(r, s) : r \in AllGp} \cup SomeMems(s)} : s \in Sizes}

Calls ==
    {I("CALL", <<SymbolAt(r)>>) : r \in {"NONE", "GOT", "PLT"}}
    \cup {I("CALL", <<Gp(r, 8)>>) : r \in IF "call_register" \in Defects THEN 0..7 ELSE AllGp}
    \cup {I("CALL", <<m>>) : m \in SomeMems(8)}
    \cup {I(op, <<Gp(r, 8)>>) : op \in {"PUSH", "POP"}, r \in AllGp}
    \cup {I(op, <<>>) : op \in {"RET", "CWD", "CDQ", "CQO"}}

Floats ==
    LET Xs == {Xmm(r) : r \in SomeXmm}
        ops == DOMAIN SseMoves \cup DOMAIN SseOps \cup {"XORPS", "XORPD", "UCOMISS", "UCOMISD",
                                                         "CVTSS2SD", "CVTSD2SS"}
        wrong(i) == i.op = "UCOMISD" /\ \E k \in 1..2 :
                        CASE i.operands[k].kind = "xmm" -> i.operands[k].reg > 7
                          [] i.operands[k].kind = "mem" -> i.operands[k].base > 7
                          [] OTHER -> FALSE
    IN  {i \in {I(op, <<x, y>>) : op \in ops, x \in Xs, y \in Xs \cup SomeMems(8)} :
            "ucomisd_prefix" \in Defects => ~wrong(i)}
        \cup {I(op, <<m, x>>) : op \in DOMAIN SseMoves, m \in SomeMems(8), x \in Xs}
        \cup {I("CVTSI2SS", <<x, o>>) : x \in Xs, o \in {Gp(r, 4) : r \in SomeGp} \cup SomeMems(4)}
        \cup {I("CVTSI2SD", <<x, o>>) : x \in Xs, o \in {Gp(r, 8) : r \in SomeGp} \cup SomeMems(8)}
        \cup {I("CVTSS2SI", <<Gp(r, 4), y>>) : r \in SomeGp, y \in Xs \cup SomeMems(4)}
        \cup {I("CVTSD2SI", <<Gp(r, 8), y>>) : r \in SomeGp, y \in Xs \cup SomeMems(8)}
        \cup {I("MOVQ", <<Gp(r, 8), x>>) : r \in SomeGp, x \in Xs}

(* Single instructions, and pairs: one that ends in a field or a byte that *)
(* could be taken for a prefix, before another.                            *)
MCPrograms ==
    {<<i>> : i \in Moves \cup Extends \cup Arithmetics \cup Shifting \cup Multiplying
                   \cup Calls \cup Floats}
    \cup {<<i, j>> : i \in {I("MOV", <<Deref(8), Imm(5, 8)>>), I("RET", <<>>), I("ADD", <<Gp(0, 2), Imm(1000, 2)>>),
                            I("CALL", <<SymbolAt("PLT")>>), I("CMP", <<Mem(4, NoIndex, 1, 128, 1), Imm(1, 1)>>)},
                     j \in Calls}

-----------------------------------------------------------------------------

CONSTANTS ArmListings, MacOS
VARIABLES listing, next, section, named, labels, linked

Arm64 == INSTANCE AArch64Encoder
    WITH Arm64Programs <- ArmListings, Darwin <- MacOS, code <- listing, at <- next, words <- section, uses <- named, defs <- labels, resolved <- linked

-----------------------------------------------------------------------------
(* The instructions.                                                       *)
SP == 31
R(reg, size) == [kind |-> "gp", reg |-> reg, size |-> size]
V(reg, size) == [kind |-> "fp", reg |-> reg, size |-> size]
Signed64(n) == IF n >= 0 THEN Isa!BitsIn(n) ELSE (0..63) \ Isa!BitsIn(-n - 1)
Bits64(bits) == [kind |-> "imm", bits |-> bits]
Const(n) == Bits64(Signed64(n))
Lsl(n) == [kind |-> "lsl", by |-> n]
Condition(c) == [kind |-> "cond", cond |-> c]
Sym(name, reloc) == [kind |-> "symbol", name |-> name, reloc |-> reloc]
Slot(n) == [kind |-> "slot", bits |-> Signed64(n)]
StackOffset(n) == [kind |-> "stack", bits |-> Signed64(n)]
Base(r) == [kind |-> "addr", type |-> "base", base |-> r]
OffsetAt(type, r, n) == [kind |-> "addr", type |-> type, base |-> r, bits |-> Signed64(n)]
Indexed(r, index, shift) == [kind |-> "addr", type |-> "reg", base |-> r, index |-> index, shift |-> shift]
SymbolAddr(r, reloc) == [kind |-> "addr", type |-> "symbol", base |-> r, name |-> "s", reloc |-> reloc]
Label(n) == [op |-> "LABEL", name |-> n]
Block(n) == [kind |-> "block", name |-> n]

Regs == {0, 1, 30}
AnySize == {4, 8}
FpRegs == {0, 30}
Low12 == IF MacOS THEN "PAGEOFF12" ELSE "ADD_ABS_LO12_NC"
Conditions == {"EQ", "NE", "HS", "LO", "HI", "LS", "GE", "LT", "GT", "LE"}
CondBranches == {"B_" \o c : c \in Conditions}

\* A value with more than one part of 16 bits needs MOVZ and MOVK.
MovValues(size) ==
    {Signed64(n) : n \in {0, 1, 65535, -1, -2, -65536} \cup (IF "mov_parts" \in Defects THEN {} ELSE {65537, -65538})}
    \cup {{31}, {16, 30}} \cup (IF size = 8 THEN {{32, 47}, {48, 63}} ELSE {})
Constants64 ==
    {I("MOV", <<R(d, s), Bits64(v)>>) : d \in Regs, s \in {8}, v \in MovValues(8)}
    \cup {I("MOV", <<R(d, 4), Bits64(v)>>) : d \in Regs, v \in MovValues(4)}
    \cup {I("MOV", <<R(d, s), R(r, s)>>) : d \in Regs, s \in AnySize,
              r \in Regs \cup (IF "mov_sp" \in Defects THEN {} ELSE {SP})}
    \cup {I(op, <<R(d, s), Const(n)>>) : op \in {"MOVZ", "MOVK"}, d \in Regs, s \in AnySize, n \in {0, 1, 65535}}
    \cup {I(op, <<R(d, 8), Const(n), Lsl(b)>>) : op \in {"MOVZ", "MOVK"}, d \in Regs, n \in {1, 65535}, b \in {16, 32, 48}}

\* The widest offset a load has is 4095 units of its size, the lowest -256 bytes.
Offsets(unit) == {0, unit, 4095 * unit, 1, 255, -1, -256} \cup (IF "offset_reach" \in Defects THEN {} ELSE {4096 * unit, -257})
Addresses(unit) ==
    {Base(r) : r \in {0, SP}} \cup {OffsetAt("imm", r, n) : r \in {1, SP}, n \in {k \in Offsets(unit) : k % unit = 0 \/ k < 256}}
    \cup {OffsetAt("write", SP, n) : n \in {-16, 16, 255, -256}} \cup {OffsetAt("stack", SP, 8 * unit), Slot(16 * unit)}
    \cup {Indexed(r, x, s) : r \in {0, SP}, x \in {1, 30},
              s \in {0} \cup {CASE unit = 1 -> 0 [] unit = 2 -> 1 [] unit = 4 -> 2 [] unit = 8 -> 3}}
    \cup {SymbolAddr(1, Low12)}
Memory ==
    UNION {{I(op, <<r, a>>) : op \in {"LDR", "STR"}, r \in {R(0, s), R(30, s), V(0, s), V(30, s)}, a \in Addresses(s)}
           \cup {I(op, <<R(0, s), Base(SP), Const(n)>>) : op \in {"LDR", "STR"}, n \in {16, -16, 255, -256}}
           \cup {I(op, <<R(0, s), R(30, s), a>>) : op \in {"LDP", "STP"},
                     a \in {OffsetAt(type, SP, n) : n \in {s, -s, 63 * s, -64 * s},
                             type \in {"write"} \cup (IF "pair_offset" \in Defects THEN {} ELSE {"imm"})}}
           \cup {I(op, <<R(1, s), R(30, s), Base(SP), Const(n)>>) : op \in {"LDP", "STP"}, n \in {16, -16}} : s \in AnySize}
    \cup {I(op, <<R(r, 4), a>>) : op \in {"LDRB", "STRB"}, r \in {0, 30}, a \in Addresses(1)}
    \cup {I(op, <<R(r, 4), a>>) : op \in {"LDRH", "STRH"}, r \in {0, 30}, a \in Addresses(2)}

Additions ==
    UNION {{I(op, <<R(d, s), R(l, s), R(r, s)>>) : op \in {"ADD", "SUB"}, d \in Regs, l \in Regs, r \in Regs}
           \cup {I(op, <<R(d, s), R(l, s), Const(n)>>) : op \in {"ADD", "SUB"}, d \in {0, 30}, l \in {1, SP},
                     n \in {0, 1, 4095} \cup (IF "wide_immediate" \in Defects THEN {} ELSE {4096, -1})}
           \cup {I(op, <<R(0, s), R(30, s), Const(n), Lsl(12)>>) : op \in {"ADD", "SUB"}, n \in {1, 4095}}
           \cup {I("CMP", <<R(l, s), r>>) : l \in Regs, r \in {R(0, s), R(30, s)} \cup {Const(n) : n \in {0, 4095}
                     \cup (IF "wide_immediate" \in Defects THEN {} ELSE {4096, -1})}} : s \in AnySize}
    \cup {I(op, <<R(0, 8), R(1, 8), R(30, 8), Lsl(n)>>) : op \in {"ADD", "SUB", "AND", "ORR", "EOR"}, n \in {1, 3, 63}}
    \cup {I(op, <<R(d, 8), R(l, 8), R(r, 8)>>) : op \in {"ADD", "SUB"}, d \in {0, SP}, l \in {SP}, r \in {1, 30}}
    \cup (IF "shift_with_sp" \in Defects THEN {} ELSE {I("ADD", <<R(0, 8), R(SP, 8), R(1, 8), Lsl(3)>>)})
    \cup {I("ADD", <<R(d, 8), R(1, 8), Sym("s", Low12)>>) : d \in Regs} \cup {I("ADD", <<R(0, 8), R(SP, 8), StackOffset(n)>>) : n \in {0, 4080}}
Combinations ==
    UNION {{I(op, <<R(d, s), R(l, s), R(r, s)>>) : op \in {"MUL", "SDIV", "UDIV", "LSL", "LSR", "ASR", "AND", "ORR", "EOR"},
                d \in Regs, l \in Regs, r \in Regs}
           \cup {I(op, <<R(0, s), R(1, s), R(30, s), R(r, s)>>) : op \in {"MADD", "MSUB"}, r \in Regs}
           \cup {I("CSEL", <<R(0, s), R(1, s), R(30, s), Condition(c)>>) : c \in Conditions}
           \cup {I(op, <<R(d, s), R(r, s)>>) : op \in {"SXTB", "SXTH"}, d \in Regs, r \in Regs} : s \in AnySize}
    \cup {I(op, <<R(d, 4), R(r, 4)>>) : op \in {"UXTB", "UXTH"}, d \in Regs, r \in Regs}
    \cup {I("SXTW", <<R(d, 8), R(r, 4)>>) : d \in Regs, r \in Regs}
FloatValues == [s \in AnySize |->
    IF s = 8 THEN {52..61, {62}, (52..61) \cup {63}, {62, 53, 52} \cup 48..51, (54..61) \cup {48}}
    ELSE {23..29, {30}, (23..29) \cup {31}, {30, 24, 23} \cup 19..22, (25..29) \cup {19}}]
Floating ==
    UNION {{I(op, <<V(d, s), V(l, s), V(r, s)>>) : op \in {"FADD", "FSUB", "FMUL", "FDIV"}, d \in FpRegs, l \in FpRegs, r \in FpRegs}
           \cup {I("FCSEL", <<V(0, s), V(30, s), V(1, s), Condition(c)>>) : c \in {"EQ", "LE", "HI"}}
           \cup {I(op, <<V(l, s), V(r, s)>>) : op \in {"FMOV", "FCMP"}, l \in FpRegs, r \in FpRegs}
           \cup {I("FMOV", <<V(d, s), [kind |-> "float", bits |-> b]>>) : d \in FpRegs, b \in FloatValues[s]}
           \cup {I("FMOV", <<R(d, s), V(r, s)>>) : d \in Regs, r \in FpRegs}
           \cup {I("FMOV", <<V(d, s), R(r, s)>>) : d \in FpRegs, r \in Regs}
           \cup {I("FCVT", <<V(d, 12 - s), V(r, s)>>) : d \in FpRegs, r \in FpRegs}
           \cup UNION {{I(op, <<V(d, s), R(r, t)>>) : op \in {"SCVTF", "UCVTF"}, d \in FpRegs, r \in Regs}
                       \cup {I(op, <<R(r, t), V(d, s)>>) : op \in {"FCVTZS", "FCVTZU"}, d \in FpRegs, r \in Regs} : t \in AnySize}
           : s \in AnySize}
Jumps ==
    {I(op, <<R(r, 8)>>) : op \in {"BR", "BLR"}, r \in Regs}
    \cup {I("ADRP", <<R(r, 8), Sym("s", IF MacOS THEN "PAGE21" ELSE "ADR_PREL_PG_HI21")>>) : r \in Regs}

\* Three jumps, with the block among them and the function behind them.
Jump == {I("B", <<Block("b")>>), I("B_LT", <<Block("b")>>), I("B_NE", <<Block("b")>>), I("BL", <<Sym("f", "NONE")>>),
         I("BL", <<Sym("s", "NONE")>>), I("RET", <<>>)}
Branching ==
    {SubSeq(j, 1, k) \o <<Label("b")>> \o SubSeq(j, k + 1, 3) \o <<Label("f"), I("RET", <<>>)>> :
        j \in [1..3 -> Jump], k \in 0..3}
MCArm64Programs ==
    {<<i>> : i \in Constants64 \cup Memory \cup Additions \cup Combinations \cup Floating \cup Jumps} \cup Branching

-----------------------------------------------------------------------------
(* What an instruction means, in the words of the decoder.                 *)
Register(o) == <<o.kind, IF o.kind = "gp" /\ o.reg = SP THEN "sp" ELSE o.reg, o.size>>
Meant(o, size) ==
    CASE o.kind \in {"gp", "fp"} -> Register([o EXCEPT !.size = size])
      [] o.kind \in {"imm", "stack"} -> <<"imm", o.bits \cap 0..(8 * size - 1)>>
      [] o.kind = "float" -> <<"imm", o.bits>>
      [] o.kind = "symbol" -> <<"imm", {}>>
      [] o.kind = "cond" -> <<"cond", o.cond>>
Address(o, post) ==
    LET base == IF o.kind = "slot" THEN Register(R(SP, 8)) ELSE Register(R(o.base, 8))
    IN CASE post # <<>> -> <<"post", base, post[1].bits>>
         [] post = <<>> /\ o.kind = "slot" -> <<"offset", base, o.bits>>
         [] post = <<>> /\ o.kind = "addr" ->
              CASE o.type \in {"base", "symbol"} -> <<"offset", base, {}>>
                [] o.type \in {"imm", "stack"} -> <<"offset", base, o.bits>>
                [] o.type = "write" -> <<"pre", base, o.bits>>
                [] o.type = "reg" -> <<"index", base, Register(R(o.index, 8)), o.shift>>

Loads == {"LDR", "LDRB", "LDRH", "LDP"}
Accessed(i) == CASE i.op \in {"LDRB", "STRB"} -> 1 [] i.op \in {"LDRH", "STRH"} -> 2 [] OTHER -> i.operands[1].size
Shifted(i, k) == IF Len(i.operands) < k THEN 0 ELSE i.operands[k].by
Branches == {"B", "BL"} \cup CondBranches

\* A branch means its instruction here; where it goes is what SymbolsReached is about.
ArmMeaning(i) ==
    LET o == i.operands
        size == o[1].size
        all(n) == [k \in 1..n |-> Meant(o[k], o[k].size)]
    IN CASE i.op \in {"B", "BL"} -> <<i.op>>
         [] i.op \in CondBranches -> <<"B_", <<"cond", CHOOSE c \in Conditions : "B_" \o c = i.op>>>>
         [] i.op = "RET" -> <<"RET", <<"gp", 30, 8>>>>
         [] i.op \in {"BR", "BLR", "FCVT", "SCVTF", "UCVTF", "FCVTZS", "FCVTZU"} -> <<i.op>> \o all(Len(o))
         [] i.op = "ADRP" -> <<"ADRP", Register(o[1])>>
         [] i.op = "MOV" -> <<"MOV", Register(o[1]), Meant(o[2], size)>>
         [] i.op = "MOVZ" -> <<"MOV", Register(o[1]), <<"imm", {k + Shifted(i, 3) : k \in o[2].bits}>>>>
         [] i.op = "MOVK" -> <<"MOVK", Register(o[1]), Meant(o[2], size), Shifted(i, 3)>>
         [] i.op \in {"LDR", "STR", "LDRB", "LDRH", "STRB", "STRH"} ->
              <<IF i.op \in Loads THEN "load" ELSE "store", Accessed(i),
                Register(o[1]), Address(o[2], SubSeq(o, 3, Len(o)))>>
         [] i.op \in {"LDP", "STP"} ->
              <<IF i.op \in Loads THEN "load pair" ELSE "store pair", size,
                Register(o[1]), Register(o[2]), Address(o[3], SubSeq(o, 4, Len(o)))>>
         [] i.op \in {"ADD", "SUB"} /\ o[3].kind # "gp" ->
              <<i.op, Register(o[1]), Register(o[2]),
                <<"imm", {k + Shifted(i, 4) : k \in Meant(o[3], size)[2]}>>>>
         [] i.op \in {"ADD", "SUB", "AND", "ORR", "EOR"} /\ o[3].kind = "gp" ->
              <<i.op, Register(o[1]), Register(o[2]), Register(o[3]), Shifted(i, 4)>>
         [] i.op = "MUL" -> <<"MADD", Register(o[1]), Register(o[2]), Register(o[3]), <<"gp", "zero", size>>>>
         [] OTHER -> <<i.op>> \o [k \in DOMAIN o |-> Meant(o[k], size)]

Wanted == SelectSeq(listing, LAMBDA i : i.op # "LABEL")
\* The word that the label n stands before.
LabelAt(n) ==
    LET k == CHOOSE j \in DOMAIN listing : listing[j].op = "LABEL" /\ listing[j].name = n
    IN Cardinality({j \in 1..k : listing[j].op # "LABEL"}) + 1
Reading(w) == Isa!DecodeWord(w)
Parts(read) == IF read.op \in {"B", "BL"} THEN <<read.op>>
               ELSE IF read.op = "B_" THEN <<"B_", read.operands[1]>> ELSE <<read.op>> \o read.operands

ArmDecodes == Len(section) = Len(Wanted) /\ \A k \in DOMAIN section : Parts(Reading(section[k])) = ArmMeaning(Wanted[k])

\* The symbol an instruction refers to, and the field its relocation is for.
SymbolOf(i) == {[name |-> o.name, kind |-> IF i.op = "BL" THEN IF MacOS THEN "BRANCH26" ELSE "CALL26"
                                           ELSE IF o.kind = "block" THEN "LABEL_BRANCH" ELSE o.reloc] :
                   o \in {o \in {i.operands[k] : k \in DOMAIN i.operands} :
                             o.kind \in {"symbol", "block"} \/ (o.kind = "addr" /\ o.type = "symbol")}}
Labels == {i.name : i \in {listing[k] : k \in {j \in DOMAIN listing : listing[j].op = "LABEL"}}}
Goes(read, bytes) == read.op \in {"B", "B_", "BL"} /\ read.operands[Len(read.operands)] = <<"to", bytes>>
ArmSymbolsReached ==
    \A k \in DOMAIN section : \A s \in SymbolOf(Wanted[k]) :
        IF s.name \in Labels
          THEN /\ Goes(Reading(section[k]), Signed64(4 * (LabelAt(s.name) - k)))
               /\ \A u \in named : u.at # k
          ELSE /\ Wanted[k].op \in Branches => Goes(Reading(section[k]), {})
               /\ {u \in named : u.at = k} = {[at |-> k, name |-> s.name, kind |-> s.kind]}

-----------------------------------------------------------------------------
\* What either encoder writes is read back as the instructions it was given:
\* no operand is cut to its field, taken for another register or shifted, and
\* no instruction has the template of another.  (x86_64_encoder.cpp,
\* aarch64_encoder.cpp)
\* Every field for a symbol leads to it: it holds the distance to a block or
\* a function of the section, and is empty and has the relocation for it
\* otherwise.  (emit_mem_digit, resolve_symbol, add_symbol_use)
InstructionsDecode ==
    /\ Decodes /\ SymbolsReached
    /\ linked /\ listing # <<>> => ArmDecodes /\ ArmSymbolsReached

-----------------------------------------------------------------------------
(***************************************************************************)
(* The lowering of functions of the SSA to the instructions of a machine,  *)
(* one behaviour for each function and machine.                            *)
(***************************************************************************)
CONSTANTS LoweredCases, LoweredInputs
VARIABLES func, lowering, place, body, blocks

Low == INSTANCE Lowering WITH Cases <- LoweredCases, Inputs <- LoweredInputs, at <- place
Tests == INSTANCE LoweringPrograms
MCLoweredCases == Tests!TestCases
MCLoweredInputs == Tests!TestInputs

\* The machine code of a function reads, writes, calls and returns what the
\* function of the SSA does, on every input for which that is defined.
\* (ssa_lowerer.cpp and the lowerers of the machines)
LoweringKeeps == func # <<>> => Low!CodeKeepsMeaning

-----------------------------------------------------------------------------
(***************************************************************************)
(* The object files, one behaviour for each module and format: functions   *)
(* that call each other and others, use data of this and of other modules  *)
(* and push registers; globals of all alignments that hold addresses; and  *)
(* the table of the hot reloader.                                          *)
(***************************************************************************)
CONSTANTS ObjectFormats, ObjectPrograms, WasmPrograms
VARIABLES source, format, bin, object

Obj == INSTANCE ObjectFiles WITH Programs <- ObjectPrograms, Formats <- ObjectFormats, program <- source

Fn(name, size, uses, pushes) ==
    [name |-> name, size |-> size, uses |-> uses, pushes |-> pushes, alloca |-> 9, frame |-> 40]
UseAt(at, target, kind, addend) == [at |-> at, target |-> target, kind |-> kind, addend |-> addend]
Global(name, size, align, ref, global) ==
    [name |-> name, size |-> size, align |-> align, ref |-> ref, global |-> global]

CallKinds == [elf_x86 |-> {"PLT32"}, pe |-> {"REL32"}, elf_arm |-> {"CALL26"}, macho |-> {"BRANCH26"}]
DataKinds == [elf_x86 |-> {"REL32", "GOTPCREL32"}, pe |-> {"REL32"},
              elf_arm |-> {"ADR_PREL_PG_HI21", "ADD_ABS_LO12_NC"},
              macho |-> {"PAGE21", "PAGEOFF12", "GOT_LOAD_PAGE21"}]
Addends == [elf_x86 |-> {0, -1}, pe |-> {0, -4}, elf_arm |-> {0}, macho |-> {0}]
GlobalLists ==
    {<<>>, <<Global("a", 1, 1, "", FALSE), Global("b", 8, 8, "a", TRUE)>>,
     <<Global("counter_of", 2, 2, "", TRUE), Global("b", 8, 8, "main", FALSE), Global("c", 4, 4, "", FALSE)>>,
     <<Global("a", 3, 1, "", TRUE), Global("b", 8, 8, "memory_alloc", TRUE)>>}
PushLists == {<<>>, <<[reg |-> 3, end |-> 1], [reg |-> 12, end |-> 3]>>}

\* The first function pushes; the second one does unless that is left out.
ObjectsOf(f) ==
    {[externals |-> <<"puts", "memory_alloc">>,
      funcs |-> <<Fn("main", 40, <<UseAt(2, "puts", call, 0), UseAt(20, "other", call, 0)>>, p),
                  Fn("other", n, IF g = <<>> THEN <<>> ELSE <<UseAt(7, g[2].name, data, addend),
                                                             UseAt(13, "memory_alloc", data, 0)>>,
                     IF "unwind_offset" \in Defects THEN <<>> ELSE p)>>,
      globals |-> g, table |-> t] :
        call \in CallKinds[f], data \in DataKinds[f], addend \in Addends[f], p \in PushLists, n \in {17, 24},
        g \in GlobalLists, t \in IF f = "macho" THEN {FALSE} ELSE BOOLEAN}
MCObjectFormats == {"elf_x86", "pe", "elf_arm", "macho"}
MCObjectPrograms == [f \in MCObjectFormats |-> ObjectsOf(f)]

Signature(p, r) == [params |-> p, results |-> r]
Unary == Signature(<<"i32">>, <<>>)
Binary == Signature(<<"i64", "i32">>, <<"f64">>)
To(op, target) == [op |-> op, target |-> target]
Plain(n) == [op |-> "plain", size |-> n]
AddressOf(target, reloc) == [op |-> "const", target |-> target, reloc |-> reloc]
CallTo(type) == [op |-> "call_indirect", type |-> type]
Bodies ==
    {<<Plain(3), To("call", "puts"), To("global", "__stack_pointer"), CallTo(1)>>,
     <<Plain(130), To("access", "a"), To("call", "main"), AddressOf("a", "MEMORY_ADDR_SLEB")>>,
     <<Plain(5), AddressOf("other", "TABLE_INDEX_SLEB"), To("access", "errno"), Plain(2), CallTo(0)>>}
DataOf(name, size, ref) == [name |-> name, size |-> size, ref |-> ref]
Func(name, type, locals, code) == [name |-> name, type |-> type, locals |-> locals, body |-> code]
MCWasmPrograms ==
    {[imports |-> i, externals |-> <<"errno">>, globals |-> g, calls |-> <<Binary, Unary>>,
      funcs |-> <<Func("main", Unary, l, b1), Func("other", Binary, <<"i32">>, <<Plain(1)>> \o b2)>>] :
       i \in {<<[name |-> "puts", type |-> Unary]>>,
              <<[name |-> "exit", type |-> Binary], [name |-> "puts", type |-> Unary]>>},
       g \in {<<DataOf("a", 4, "")>>, <<DataOf("b", 130, ""), DataOf("a", 4, "main"), DataOf("c", 4, "a")>>},
       l \in {<<>>, <<"i32", "i32", "i64", "i32">>}, b1 \in Bodies, b2 \in Bodies}

\* A linker finds in the object file the symbols of the module at their
\* places and every use of one at its place; the unwinder finds the prologues
\* and the hot reloader its table.  (the builders and emitters of
\* src/src/banjo/emit)
LinkerReads == source # <<>> => Obj!ObjectsRead

-----------------------------------------------------------------------------
Arm64Idle == listing = <<>> /\ next = 1 /\ section = <<>> /\ named = {} /\ labels = <<>> /\ linked = TRUE
X8664Idle == program = <<>> /\ pc = 1 /\ text = Nothing
LoweringIdle == func = <<>> /\ lowering = <<>> /\ place = 0 /\ body = <<>> /\ blocks = <<>>
ObjectsIdle == source = <<>> /\ format = "" /\ bin = <<>> /\ object = <<>>
InitGeneration ==
    \/ Init /\ Arm64Idle /\ LoweringIdle /\ ObjectsIdle
    \/ X8664Idle /\ Arm64!Arm64Init /\ LoweringIdle /\ ObjectsIdle
    \/ X8664Idle /\ Arm64Idle /\ Low!Init /\ ObjectsIdle
    \/ X8664Idle /\ Arm64Idle /\ LoweringIdle /\ Obj!Init
arm64State == <<listing, next, section, named, labels, linked>>
loweringState == <<func, lowering, place, body, blocks>>
objectState == <<source, format, bin, object>>
NextGeneration ==
    \/ EncodeInstr /\ UNCHANGED <<arm64State, loweringState, objectState>>
    \/ Arm64!DefineLabel /\ UNCHANGED <<vars, loweringState, objectState>>
    \/ Arm64!EncodeWord /\ UNCHANGED <<vars, loweringState, objectState>>
    \/ Arm64!ResolveSymbols /\ UNCHANGED <<vars, loweringState, objectState>>
    \/ func # <<>> /\ Low!SkipInstr /\ UNCHANGED <<vars, arm64State, objectState>>
    \/ func # <<>> /\ Low!LowerInstr /\ UNCHANGED <<vars, arm64State, objectState>>
    \/ func # <<>> /\ Low!EndBlock /\ UNCHANGED <<vars, arm64State, objectState>>
    \/ source # <<>> /\ Obj!Encode /\ UNCHANGED <<vars, arm64State, loweringState>>
    \/ source # <<>> /\ Obj!Emit /\ UNCHANGED <<vars, arm64State, loweringState>>
SpecGeneration == InitGeneration /\ [][NextGeneration]_<<vars, arm64State, loweringState, objectState>>
=============================================================================
